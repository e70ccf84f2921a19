\* hook_viface() fails after socket().
SPECIFICATION Spec
CONSTANTS
  o1 = o1
  o2 = o2
  o3 = o3
  o4 = o4
  long = long
  eth0 = eth0
  tap0 = tap0
  viface0 = viface0
  viface1 = viface1
  viface2 = viface2
  NoName = NoName
  NoObject = NoObject
  Pattern = Pattern
  Physical = {eth0}
  AutoNames = {viface0, viface1, viface2}
  TooLong = {long}
  GivenId <- OneGiven
  Objects = {o1}
  Wants <- HookPhysical
  MaxFd = 4
  Parallel = {}
  IoErrors = TRUE
  CloseErrors = FALSE
INVARIANTS HookRollback
CHECK_DEADLOCK FALSE
