CONSTANTS
  watched = watched
  s1 = s1
  s2 = s2
  None = None
  RuleIds = {2, 3}
  WatchlistIds = {watched}
  Symbols = {s1, s2}
  Calls = {c1}
  RuleDef <- MCRuleDef
  ListDef <- MCListDef
  Edits <- MCEdits
  MaxNow = 1
  MaxEvents = 2
SPECIFICATION Spec
CONSTRAINT FewEvents
INVARIANTS
  TypeOK
  CooldownSeparation
  FiringSymbolsAreOnRecord
  NotifiedAtMostOnce
PROPERTIES
  RetiredRulesStaySilent
  ImplementsPromise
