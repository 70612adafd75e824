\* The second answer of the model, after one that could not be parsed.
CONSTANTS
  m1 = m1 m2 = m2 said = said SAID = SAID other = other
  None = None
  Ids = {m1, m2}
  Contents = {said, SAID}
  Meaning <- OwnMeaning
  Normal <- NormalOf
  Modes = {"model"}
  MaxRetries = 1
  MaxBatch = 1
SPECIFICATION PathSpec
SYMMETRY IdSymmetry
INVARIANTS ValidNotRefused
