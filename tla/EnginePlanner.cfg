\* One agent, any policy, extraction adopted, no transition seam, failures.
CONSTANTS
  i1 = i1 i2 = i2 i3 = i3 i4 = i4 u1 = u1 u2 = u2
  c1 = c1 c2 = c2 a1 = a1 a2 = a2
  None = None
  Ids = {i1, i2, i3}
  Users = {u1, u2}
  Contents = {c1, c2}
  Meaning <- OwnMeaning
  Agents = {a1}
  Grants = "none"
  PlannerPrecedence = TRUE
  PairedReplacements = FALSE
  ExtractionAdopted = TRUE
  WantsInactive = FALSE
  MayFail = TRUE
  MaxTurns = 3
  MaxBatch = 2
SPECIFICATION Spec
SYMMETRY Symmetry
INVARIANTS AppliedBeforeAnswer DuplicatesOnlyWithinTurn NoDoubleRetirement
PROPERTIES OwnersOnly ImplementsStrictLifecycle
