\* dispatch() on a hooked interface, of which the kernel may discard a packet
\* after select() has reported it.
SPECIFICATION Spec
CONSTANTS
  t1 = t1
  tun1 = tun1
  tun2 = tun2
  sock = sock
  NoIface = NoIface
  Fd <- FdOf
  Threads = {t1}
  Ifaces = {tun1, sock}
  Hooked = {sock}
  Lossy = {sock}
  Mine <- OneThread
  MaxPackets = 2
  IoErrors = FALSE
INVARIANTS NeverFrozen
