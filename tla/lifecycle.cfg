\* Constructors and destructors one after the other, or those of two objects in
\* two threads; any system call may fail, close() too.  The descriptor table has
\* room for two complete objects and no more.
SPECIFICATION Spec
CONSTANTS
  o1 = o1
  o2 = o2
  o3 = o3
  o4 = o4
  long = long
  eth0 = eth0
  tap0 = tap0
  viface0 = viface0
  viface1 = viface1
  viface2 = viface2
  NoName = NoName
  NoObject = NoObject
  Pattern = Pattern
  Physical = {eth0}
  AutoNames = {viface0, viface1, viface2}
  TooLong = {long}
  GivenId <- OneGiven
  Objects = {o1, o2, o3, o4}
  Wants <- SameName
  MaxFd = 8
  Parallel = {o1, o2}
  IoErrors = TRUE
  CloseErrors = TRUE
INVARIANTS TypeOK OwnsItsDescriptors NoLeak AllocExclusive AutoIdsDistinct
CHECK_DEADLOCK FALSE
