CONSTANTS
  m1 = m1
  m2 = m2
  t1 = t1
  t2 = t2
  NoMatcher = NoMatcher
  NoMethod = NoMethod
  Messages = {m1, m2}
  Targets = {t1, t2}
  Methods <- MCMethods
  Calls <- MCCalls
  Scenarios <- MCScenarios
  Files <- MCFiles
  Edits <- MCEdits
  Matchers <- MCMatchers
  Parsed <- MCParsed
  Verdict <- MCVerdict
  Texts <- MCTexts
  Json <- MCJson
  Depth <- MCDepth
  Mode <- MCMode
  Pattern <- MCPattern
  Param <- MCParam
  MaxInstalls = 3
  Env = {"suspend"}
SPECIFICATION Spec
INVARIANTS TypeOK Consistent Routed KnownSender NoGhosts RoutedAsMeant
PROPERTY KeepsPromise
