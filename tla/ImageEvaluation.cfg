SPECIFICATION Spec
CONSTANTS
  s1 = s1
  s2 = s2
  e1 = e1
  e2 = e2
  User = User
  Absent = Absent
  Scripts <- MCScripts
  Evaluators <- MCEvaluators
  Paths <- MCPaths
  Summaries <- MCSummaries
  UserReports <- MCUserReports
  UserReferences <- MCUserReferences
  MaxSelected = 2
  Discard = 1
INVARIANTS
  ReportsOutliveTheirSummary
  SummaryIsTruthful
CHECK_DEADLOCK FALSE
