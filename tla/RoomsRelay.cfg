\* Two users with a connection each, that come and go, and two operations.
SPECIFICATION EditLiveSpec
CONSTANTS
  c1 = c1
  c2 = c2
  alice = alice
  bob = bob
  o1 = o1
  o2 = o2
  Conns = {c1, c2}
  Users = {alice, bob}
  User <- MCUser
  Ops = {o1, o2}
  MaxRooms = 2
  RingCap = 1
  OutCap = 1
  Disk = Disk
  Nobody = Nobody
INVARIANTS
  EditTypeOK
  OneRoom
  NothingUnseen
PROPERTIES
  OpReachesMember
CHECK_DEADLOCK FALSE
