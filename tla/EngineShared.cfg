\* Two agents on one store file, the canonical seam, builders that also read superseded memories.
CONSTANTS
  i1 = i1 i2 = i2 i3 = i3 i4 = i4 u1 = u1 u2 = u2
  c1 = c1 c2 = c2 a1 = a1 a2 = a2
  None = None
  Ids = {i1, i2, i3}
  Users = {u1}
  Contents = {c1, c2}
  Meaning <- OneMeaning
  Agents = {a1, a2}
  Grants = "runtime"
  PlannerPrecedence = TRUE
  PairedReplacements = TRUE
  ExtractionAdopted = FALSE
  WantsInactive = TRUE
  MayFail = TRUE
  MaxTurns = 3
  MaxBatch = 1
SPECIFICATION FairSpec
INVARIANTS ReplacedIsRetired LineageSound
PROPERTIES ImplementsLooseLifecycle InteractionsEnd
