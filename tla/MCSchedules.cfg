SPECIFICATION Reminders
CONSTANTS
  h1 = h1
  u1 = u1
  p1 = p1
  p2 = p2
  j1 = j1
  j2 = j2
  d1 = d1
  d2 = d2
  Loop = Loop
  None = None
  Request <- Three
  IdOf <- Ids
  UserOf <- User2
  ParentOf <- Turns2
  OriginOf <- Origin2
  Anonymous <- First
  ProjectOf <- Project2
  DevicesOf <- Device2
  FireAt <- Soon
  Legacy <- None_
  Http <- Calls
  Lease = 4
  Limit = 2
  Poll = 1
  MaxDelay = 4
  MaxAge = 1
  MaxFaults = 1
  MaxFinals = 1
INVARIANTS
  RemindersAgree
  PromisesKept
PROPERTIES
  DeliveryIsPermitted
  RemindersArrive
CHECK_DEADLOCK FALSE
