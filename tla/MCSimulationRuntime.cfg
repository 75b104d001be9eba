SPECIFICATION FairSpec
CONSTANTS
  Callers = {a, b}
  NoAge = NoAge
  MaxCalls = 4
  MaxDisturbances = 2
INVARIANTS StoppedMeansStill ReportIsGenuine RequestsStayInStep
PROPERTIES CallsEnd
