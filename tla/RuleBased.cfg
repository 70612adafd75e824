\* Up to two statements over two memories, one of them forgotten, through the temporal and the hybrid planner.
CONSTANTS
  m1 = m1 m2 = m2
  aisle = aisle work = work sjc = sjc SJC = SJC sfo = sfo was = was rome = rome oslo = oslo lima = lima other = other
  None = None
  Ids = {m1, m2}
  Contents = {aisle, work, sjc, SJC, sfo, was, rome, oslo, lima, other}
  Detected = {aisle, work, sjc, SJC, sfo, was, rome, oslo, lima}
  Ingestion = TRUE
  Reported = {oslo}
  Decided = {other}
  Derived = {other}
  Past = {other}
  Extracted = {rome, other}
  MaxCandidates = 2
  Meaning <- OwnMeaning
  Kind <- KindOf
  Normal <- NormalOf
  Key <- KeyOf
  Identity <- IdentityOf
  ReadsInactive = TRUE
  Semantic = TRUE
  MaxMemories = 2
  MaxForgets = 1
  MaxStatements = 2
SPECIFICATION PathSpec
SYMMETRY IdSymmetry
INVARIANTS ScopesKept SupersededByKin StatementsAccounted RoutedLinked LostOnlyToForget HistoricalLeavesOne AddedOnce RoutedOnce
