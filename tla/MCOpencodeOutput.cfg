SPECIFICATION Spec
CONSTANTS
  None = None
  HooksOf <- HooksPerHarness
  MaxCrashes = 1  MaxDeaths = 2  MaxFails = 1  MaxTurns = 2  MaxSteps = 1  MaxNodes = 3
  MaxSessions = 2  MaxCalls = 2  MaxMessages = 2  MaxOdd = 3
  MaxEvents = 3  MaxValidations = 2  MaxReports = 1
  MaxRecords <- RecordsPerHarness
  TaskCalls <- Task  Tasks <- Task
  Overlaps = {FALSE, TRUE}  Races = {"none", "last"}  Named = {FALSE, TRUE}
  MainFile = "main"  Agents <- TwoAgents
  Names = {1, 2, 3}  Absent = 9  Ids = {1}
  Commands <- FourCommands  Lenient = {"claude"}  Strict = {"gemini"}
CONSTRAINT Bound
ACTION_CONSTRAINTS FirstFirst InOrder
INVARIANT OutputOfOwnTurn
CHECK_DEADLOCK FALSE
