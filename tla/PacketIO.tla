------------------------------ MODULE PacketIO ------------------------------
(***************************************************************************)
(* receive() and send() of src/viface.cpp in one thread while another one  *)
(* configures the same interface (module NetConfig).  This is where the    *)
(* MTU of the object, the length of its packet buffer and the MTU of the   *)
(* kernel meet: receive() asks read() for mtu bytes, only up() resizes the *)
(* buffer, and an Ethernet frame is up to 14 bytes longer than the MTU.    *)
(*                                                                         *)
(* A packet is its length.  The second thread starts when the interface is *)
(* up, as in all of the examples, and it receives without waiting.         *)
(***************************************************************************)
EXTENDS NetConfig, Sequences

CONSTANTS
  Lengths,   \* lengths of packets
  MaxQueue   \* bound on the packets queued by the kernel

ASSUME PacketIOAssumption == Lengths \subseteq Nat /\ MaxQueue \in Nat

VARIABLES
  started,   \* the interface was up: the second thread runs
  remtu,     \* history: setMTU() changed the MTU after that
  unsized,   \* history: it changed the MTU after the buffer was last resized
  large,     \* history: the interface had an MTU of five digits to begin with
  queue,     \* packets in the kernel's queue for the RX descriptor
  io,        \* where receive() is: "idle" or "copy"
  asked,     \* bytes that receive() asked read() for
  whole,     \* length of the packet that read() took
  nread,     \* bytes of it in the packet buffer
  fits       \* history: read() was asked for an MTU that the buffer was resized
             \* to, and the buffer has had its size since

history == <<remtu, unsized, large>>
ioVars == <<started, history, queue, io, asked, whole, nread, fits>>
allVars == <<vars, ioVars>>

IOInit ==
  /\ Init
  /\ started = isUp
  /\ remtu = FALSE /\ unsized = FALSE
  /\ large \in BOOLEAN /\ (large <=> kmtu > 9999)
  /\ queue = << >>
  /\ io = "idle" /\ asked = 0 /\ whole = 0 /\ nread = 0 /\ fits = TRUE

(* up() gets beyond pktbuff.resize().                                      *)
Resizes == pc = "mtu" /\ pc' = "flags"

(* A step of the thread that configures the interface.                     *)
Configure ==
  /\ Next
  /\ started' = (started \/ isUp')
  /\ remtu' = (remtu \/ (started /\ mtu' # mtu))
  /\ unsized' = (~Resizes /\ (unsized \/ mtu' # mtu))
  /\ fits' = (fits /\ (io = "idle" \/ buflen' = buflen))
  /\ UNCHANGED <<large, queue, io, asked, whole, nread>>

(* The kernel queues a frame, header included, while the interface is up.  *)
Arrive == \E n \in Lengths :
  /\ isUp
  /\ ETH_HLEN <= n /\ n <= kmtu + ETH_HLEN
  /\ Len(queue) < MaxQueue
  /\ queue' = Append(queue, n)
  /\ UNCHANGED <<vars, started, history, io, asked, whole, nread, fits>>

(* read(): what exceeds the bytes asked for is lost.                       *)
Read ==
  /\ started /\ io = "idle" /\ queue # << >>
  /\ io' = "copy"
  /\ asked' = mtu
  /\ whole' = Head(queue)
  /\ nread' = IF Head(queue) <= mtu THEN Head(queue) ELSE mtu
  /\ queue' = Tail(queue)
  /\ fits' = ~unsized
  /\ UNCHANGED <<vars, started, history>>

(* The bytes are copied from the packet buffer and returned.               *)
Copy ==
  /\ io = "copy"
  /\ io' = "idle" /\ asked' = 0 /\ whole' = 0 /\ nread' = 0 /\ fits' = TRUE
  /\ UNCHANGED <<vars, started, history, queue>>

(* Mutant: the MTU is taken to leave out the Ethernet header.              *)
sendWithHeader(n) ==
  IF n < ETH_HLEN \/ n > mtu + ETH_HLEN THEN "argument"
  ELSE IF isUp THEN "ok" ELSE "io"

(* What becomes of a packet of length n that is given to send(), which     *)
(* changes no state: write() fails on an interface that is down.           *)
send(n) ==
  IF n < ETH_HLEN \/ n > mtu THEN "argument"
  ELSE IF isUp THEN "ok" ELSE "io"

IONext == Configure \/ Arrive \/ Read \/ Copy
IOSpec == IOInit /\ [][IONext]_allVars

-----------------------------------------------------------------------------
(* Properties.                                                             *)

(* viface.hpp 246: setMTU() only notes the MTU that up() will write.  If    *)
(* that were so, read() would never be asked for more bytes than the       *)
(* packet buffer has (viface.cpp 829).                                     *)
ReadInBounds == io = "copy" => asked <= buflen

(* viface.cpp 549, 782, 829: there are two ways to overrun the packet      *)
(* buffer, setMTU() that was not followed by an up() and an up() that      *)
(* resizes the buffer during the call; without them read() writes inside   *)
(* the buffer, whatever attempts of up() failed and at whatever step.      *)
ReadFits == io = "copy" /\ fits => asked <= buflen

(* viface.cpp 879, viface.hpp 261: send() puts nothing on an interface     *)
(* that is longer than the kernel's MTU of that interface, as long as the  *)
(* program sets no other MTU after the interface was up.                   *)
SendWithinMtu == ~remtu => \A n \in Lengths : send(n) = "ok" => n <= kmtu

(* viface.cpp 338-347, 829, 865: what receive() leaves out of a frame is   *)
(* no longer than the Ethernet header, however often the interface went    *)
(* down and up.  Excepted are a program that sets another MTU after the    *)
(* interface was up, and a hooked interface with an MTU of five digits, of *)
(* which read_mtu() takes four.                                            *)
LosesAtMostHeader == io = "copy" /\ ~remtu /\ ~large => whole <= nread + ETH_HLEN

(* viface.hpp 306: receive() returns the packet or frame that arrived, if  *)
(* the program sets no other MTU after the interface was up.               *)
ReceivesWholeFrames == io = "copy" /\ ~remtu => nread = whole
=============================================================================
