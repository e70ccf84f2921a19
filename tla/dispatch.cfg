\* One thread, a hooked and a TUN interface, enough packets that one interface
\* could be served three times while the other waits.  The kernel may discard
\* packets of both, also such as select() has reported; I/O errors may happen.
SPECIFICATION FSpec
CONSTANTS
  t1 = t1
  tun1 = tun1
  tun2 = tun2
  sock = sock
  NoIface = NoIface
  Fd <- FdOf
  Threads = {t1}
  Ifaces = {tun1, sock}
  Hooked = {sock}
  Lossy = {tun1, sock}
  Mine <- OneThread
  MaxPackets = 3
  IoErrors = TRUE
INVARIANTS
  TypeOK InOrder NothingLost FrozenOnlyByDiscard BoundedBypass RoundsTakePackets
PROPERTIES Delivers Served
