CONSTANTS
  watched = watched
  s1 = s1
  s2 = s2
  None = None
  RuleIds = {2, 4}
  WatchlistIds = {}
  Symbols = {s1, s2}
  Calls = {c1}
  RuleDef <- MCRuleDef
  ListDef <- MCListDef
  Edits <- MCEdits
  MaxNow = 0
  MaxEvents = 2
SPECIFICATION FairSpec
PROPERTY FiredAlertsReachTheNotifier
