\* A signal that arrives while the thread is not inside select() is lost.
SPECIFICATION FairSpec
CONSTANTS
  t1 = t1
  tun1 = tun1
  tun2 = tun2
  sock = sock
  NoIface = NoIface
  Fd <- FdOf
  Threads = {t1}
  Ifaces = {tun1}
  Hooked = {}
  Lossy = {}
  Mine <- OneThread
  MaxPackets = 2
  IoErrors = FALSE
PROPERTIES SignalEndsCall
