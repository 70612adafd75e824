\* Two handler threads and four requests of any kind, chats that fail included.
CONSTANTS
  None = None
  Threads = {t1, t2}
  MaxRequests = 4
SPECIFICATION FairSpec
INVARIANTS LedgerExplained AgentIsCurrent
PROPERTIES ChatSeesItself LockReleased
