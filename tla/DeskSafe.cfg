SPECIFICATION DeskSpec
CONSTANTS
  r1 = r1  r2 = r2
  o1 = o1  x1 = x1  x2 = x2
  n1 = n1  n2 = n2  n3 = n3
  w1 = w1  w2 = w2
  Docs <- MCOne
  Finalisers <- MCRequests
  NoDoc = NoDoc
  Sets <- MCRows
  Periods <- MCNumbered
  Fitters <- MCRequests
  NoPeriod = NoPeriod
  Vehicles <- MCRows
  Plates <- MCOne
  Clerks <- MCRequests
  NoPlate = NoPlate
  Callers <- MCRequests
  Tokens <- MCNumbered
  Tickets <- MCOne
  MaxFails = 2
  MaxPasswords = 2
  NoToken = NoToken
  Desks <- MCRequests
  Grants <- MCRows
  MaxMisses = 2
  MaxReads = 2
  NoGrant = NoGrant
  Autos <- MCRows
  Dates = {1, 2}
  Newest = 2
  MaxRows = 3
  Requests <- MCOne
  Users <- MCOne
  Spaces <- MCSpaces
  Rows <- MCRows
  Watched <- MCWatched
  Asked <- MCAsked
  Given = {"EDITOR", "DRIVER", "VIEWER"}
  NoRole = NoRole
  NoSpace = NoSpace
SYMMETRY MCSymmetry
INVARIANTS OfferedIsChecked VehicleFilesSafe RealmsSafe PastIsTold ScreensAreHonest
PROPERTIES AccessSafe DocumentsSettle LockHolds
CHECK_DEADLOCK FALSE
