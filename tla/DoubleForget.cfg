\* The canonical composition plans the forget of one memory twice.
CONSTANTS
  i1 = i1 i2 = i2 i3 = i3 i4 = i4 u1 = u1 u2 = u2
  c1 = c1 c2 = c2 a1 = a1 a2 = a2
  None = None
  Ids = {i1, i2, i3}
  Users = {u1, u2}
  Contents = {c1, c2}
  Meaning <- OneMeaning
  Agents = {a1}
  Grants = "runtime"
  PlannerPrecedence = TRUE
  PairedReplacements = TRUE
  ExtractionAdopted = FALSE
  WantsInactive = FALSE
  MayFail = FALSE
  MaxTurns = 3
  MaxBatch = 2
SPECIFICATION Spec
SYMMETRY Symmetry
INVARIANTS NoDoubleForget
