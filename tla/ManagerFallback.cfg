\* A primary policy of up to three arbitrary proposals, and a fallback.
CONSTANTS
  m1 = m1 m2 = m2 c1 = c1 c2 = c2
  None = None
  Ids = {m1, m2}
  Contents = {c1, c2}
  Meaning <- OwnMeaning
  HasFallback = TRUE
  MaxProposals = 3
SPECIFICATION Spec
INVARIANTS CoveredBecomesLinked OneSource ResolvesAsDocumented
