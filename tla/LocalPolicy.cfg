\* Any linked batch of up to three actions, any answer of the model, through the manager.
CONSTANTS
  m1 = m1 m2 = m2 said = said SAID = SAID other = other
  None = None
  Ids = {m1, m2}
  Contents = {said, SAID}
  Meaning <- OwnMeaning
  Normal <- NormalOf
  Modes = {"model", "scripted"}
  MaxRetries = 1
  MaxBatch = 3
SPECIFICATION PathSpec
SYMMETRY IdSymmetry
INVARIANTS NothingInvented ForgetNeverCreates UserForgetsKept PairsKept LocalRoutedLinked
