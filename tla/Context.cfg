CONSTANTS
  None = None
  Prefixed <- MCPrefixed
  LogRatio <- MCLogRatio
  MaxEntries = 2
  Configs <- MCConfigs
  Stories <- MCStories
  Queries <- MCQueries
  Today <- MCToday
  MaxForgotten = 1
SPECIFICATION Spec
INVARIANTS EveryMemoryExplained SelectedIsSaidOnce ConflictNeverConcealed ScoresAreFresh
PROPERTIES CacheKeepsTheRecent
