\* The example programs, each with two TUN interfaces and up to two packets on
\* each; three rounds of timeout.cpp.
SPECIFICATION PSpec
CONSTANTS
  t1 = t1
  tun1 = tun1
  tun2 = tun2
  sock = sock
  NoIface = NoIface
  Fd <- FdOf
  Threads = {t1}
  Ifaces = {tun1, tun2}
  Hooked = {}
  Lossy = {tun2}
  Mine <- OneThread
  MaxPackets = 2
  IoErrors = TRUE
  Times = 3
INVARIANTS QuitWithinOnePacket InterfaceOutlivesThreads DrainsItsQueue
PROPERTIES InterruptEnds LoopsEnd
CHECK_DEADLOCK FALSE
