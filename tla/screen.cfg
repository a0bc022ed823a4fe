SPECIFICATION ScreenSpec
CONSTANTS
  Pids = {p1, p2}
  Names = {"1", "hp"}
  NumberOf <- Numbers
  MaxMatches = 1
  MaxScans = 2
  Nothing = Nothing
  Message = Message
  OtherViews = {History, Data, Processes}
  History = History
  Data = Data
  Processes = Processes
  Heights = {1, 2}
  MessageMax = 1
  Outputs <- SomeOutputs
  ListSizes = {0, 1, 3}
  MaxRows = 2
  MaxSelected = 1
  SizeMax = 8
INVARIANTS
  CurrentListed
  ShownIsCurrent
  ViewIsShown
  ScreenShowsList
  SelectionListed
PROPERTIES
  SessionsKept
SYMMETRY PidSymmetry
