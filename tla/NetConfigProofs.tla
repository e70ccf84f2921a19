--------------------------- MODULE NetConfigProofs --------------------------
(***************************************************************************)
(* Theorems about modules NetConfig and PacketIO: the configuration of an  *)
(* interface, and receive() and send() while another thread configures it, *)
(* for any values given to the setters, any lengths of packets and any     *)
(* failures of ioctl().                                                    *)
(***************************************************************************)
EXTENDS PacketIO, TLAPS

(* How far the kernel is in line with the object at each step of up().     *)
Applied ==
  /\ pc # "idle" => ~isUp
  /\ pc \in {"addr", "mask", "brd", "index", "v6", "mtu", "flags"} =>
       mac = Unset \/ kmac = Printed[mac]
  /\ pc \in {"mask", "brd", "index", "v6", "mtu", "flags"} =>
       ipv4 \in {Unset, kaddr}
  /\ pc \in {"brd", "index", "v6", "mtu", "flags"} => netmask \in {Unset, kmask}
  /\ pc \in {"index", "v6", "mtu", "flags"} => broadcast \in {Unset, kbrd}
  /\ pc = "v6" => {Printed[a] : a \in ipv6s \ left} \subseteq kv6
  /\ pc \in {"mtu", "flags"} => {Printed[a] : a \in ipv6s} \subseteq kv6
  /\ pc = "flags" => mtu = kmtu /\ mtu = buflen

setters == setMAC \/ setIPv4 \/ setIPv4Netmask \/ setIPv4Broadcast \/ setIPv6 \/ setMTU

-----------------------------------------------------------------------------
LEMMA MtuLimit == MaxMtu \in Nat /\ \A m \in Nat : m < 10000 => m <= MaxMtu
  BY SMT DEF MaxMtu

LEMMA ReadMtu ==
  ASSUME NEW m \in Nat, m < 100000
  PROVE  read_mtu(m) \in Nat /\ read_mtu(m) < 10000
  BY SMT DEF read_mtu

LEMMA TypeInit == Init => TypeOK
<1> SUFFICES ASSUME Init PROVE TypeOK
  OBVIOUS
<1>1. mtu \in Nat /\ kmtu \in Nat /\ buflen \in Nat /\ mtu < 10000
  <2>1. CASE kmtu = 1500 /\ mtu = 1500 /\ buflen = 0
    BY <2>1, SMT
  <2>2. CASE kmtu \in KernelMtus /\ mtu = read_mtu(kmtu) /\ buflen = mtu
    <3>1. kmtu \in Nat /\ kmtu < 100000
      BY <2>2, NetConfigAssumption
    <3> QED BY <2>2, <3>1, ReadMtu
  <2> QED BY <2>1, <2>2 DEF Init
<1>2. kflags \subseteq 0..15
  BY SMT DEF Init, UP, BROADCAST, MULTICAST
<1> QED BY <1>1, <1>2, MtuLimit DEF Init, TypeOK

LEMMA FlagsFit ==
  ASSUME NEW f, kflags \subseteq 0..15
  PROVE  NewFlags(f) \subseteq 0..15
<1>1. Settable \subseteq 0..15
  BY SMT DEF Settable, UP, MULTICAST
<1> QED BY <1>1 DEF NewFlags

LEMMA TypeNext == TypeOK /\ [Next]_vars => TypeOK'
<1> SUFFICES ASSUME TypeOK, [Next]_vars PROVE TypeOK'
  OBVIOUS
<1>0. Mtus \subseteq Nat
  BY NetConfigAssumption
<1>1. \A n : Low16(n) \subseteq 0..15
  BY DEF Low16
<1>2. CASE setMAC
  BY <1>2 DEF setMAC, kernel, TypeOK
<1>3. CASE setIPv4
  BY <1>3 DEF setIPv4, kernel, TypeOK
<1>4. CASE setIPv4Netmask
  BY <1>4 DEF setIPv4Netmask, kernel, TypeOK
<1>5. CASE setIPv4Broadcast
  BY <1>5 DEF setIPv4Broadcast, kernel, TypeOK
<1>6. CASE setIPv6
  BY <1>6 DEF setIPv6, Idle, kernel, TypeOK
<1>7. CASE setMTU
  <2>1. mtu' \in Mtus /\ mtu' <= MaxMtu
    BY <1>7 DEF setMTU
  <2>2. /\ mtu' \in Nat
        /\ UNCHANGED <<mac, ipv4, netmask, broadcast, ipv6s, buflen, kernel, pc,
                       word, left>>
    BY <1>0, <1>7, <2>1 DEF setMTU
  <2> QED BY <2>1, <2>2 DEF kernel, TypeOK
<1>8. CASE UpBegins
  BY <1>8 DEF UpBegins, read_flags, object, kernel, TypeOK
<1>9. CASE SetHwAddr
  BY <1>1, <1>9 DEF SetHwAddr, object, TypeOK
<1>10. CASE SetAddr
  BY <1>10 DEF SetAddr, object, TypeOK
<1>11. CASE SetMask
  BY <1>11 DEF SetMask, object, TypeOK
<1>12. CASE SetBrd
  BY <1>12 DEF SetBrd, object, TypeOK
<1>13. CASE GetIndex
  BY <1>1, <1>13 DEF GetIndex, object, kernel, TypeOK
<1>14. CASE SetV6
  <2>1. PICK a \in left : kv6' = kv6 \cup {Printed[a]} /\ left' = left \ {a}
    BY <1>14 DEF SetV6
  <2>2. kv6' \subseteq {Printed[v] : v \in V6s} /\ left' \subseteq V6s
    BY <2>1 DEF TypeOK
  <2> QED BY <1>14, <2>2 DEF SetV6, object, TypeOK
<1>15. CASE SetMtu
  BY <1>1, <1>15 DEF SetMtu, object, TypeOK
<1>16. CASE SetFlags
  BY <1>16, FlagsFit DEF SetFlags, Throws, object, TypeOK
<1>17. CASE UpFails
  <2>1. Throws /\ UNCHANGED <<object, buflen, kernel>>
    BY <1>17 DEF UpFails, Fails
  <2> QED BY <2>1 DEF Throws, object, kernel, TypeOK
<1>18. CASE down
  BY <1>18, FlagsFit DEF down, object, TypeOK
<1>19. CASE UNCHANGED vars
  BY <1>19 DEF vars, object, kernel, TypeOK
<1> QED BY <1>2, <1>3, <1>4, <1>5, <1>6, <1>7, <1>8, <1>9, <1>10, <1>11, <1>12,
           <1>13, <1>14, <1>15, <1>16, <1>17, <1>18, <1>19 DEF Next

(* The fields of the object and of the kernel keep to their values.        *)
THEOREM TypeCorrect == Spec => []TypeOK
  BY TypeInit, TypeNext, PTL DEF Spec

-----------------------------------------------------------------------------
LEMMA AppliedInit == Init => Applied
  BY DEF Init, Applied

LEMMA AppliedNext == TypeOK /\ Applied /\ [Next]_vars => Applied'
<1> SUFFICES ASSUME TypeOK, Applied, [Next]_vars PROVE Applied'
  OBVIOUS
<1>1. CASE setters \/ down
  BY <1>1 DEF setters, setMAC, setIPv4, setIPv4Netmask, setIPv4Broadcast, setIPv6,
     setMTU, Idle, down, Applied
<1>2. CASE UpBegins
  BY <1>2 DEF UpBegins, isUp, read_flags, object, kernel, Applied
<1>3. CASE SetHwAddr
  BY <1>3 DEF SetHwAddr, isUp, read_flags, object, Applied
<1>4. CASE SetAddr
  BY <1>4 DEF SetAddr, isUp, read_flags, object, Applied
<1>5. CASE SetMask
  BY <1>5 DEF SetMask, isUp, read_flags, object, Applied
<1>6. CASE SetBrd
  BY <1>6 DEF SetBrd, isUp, read_flags, object, Applied
<1>7. CASE GetIndex
  BY <1>7 DEF GetIndex, isUp, read_flags, object, kernel, Applied
<1>8. CASE SetV6
  BY <1>8 DEF SetV6, isUp, read_flags, object, Applied
<1>9. CASE SetMtu
  BY <1>9 DEF SetMtu, isUp, read_flags, object, Applied
<1>10. CASE SetFlags \/ UpFails
  BY <1>10 DEF SetFlags, UpFails, Fails, Throws, Applied
<1>11. CASE UNCHANGED vars
  BY <1>11 DEF vars, object, kernel, isUp, read_flags, Applied
<1> QED BY <1>1, <1>2, <1>3, <1>4, <1>5, <1>6, <1>7, <1>8, <1>9, <1>10, <1>11
        DEF Next, setters

(* Only the last step of up() sets IFF_UP.                                 *)
LEMMA OnlyUpBringsUp ==
  ASSUME [Next]_vars, ~isUp, isUp'
  PROVE  SetFlags
<1>1. CASE setters
  BY <1>1 DEF setters, setMAC, setIPv4, setIPv4Netmask, setIPv4Broadcast, setIPv6,
     setMTU, kernel, isUp, read_flags
<1>2. CASE down
  BY <1>2 DEF down, NewFlags, Settable, isUp, read_flags
<1>3. CASE UpBegins \/ GetIndex \/ UpFails \/ UNCHANGED vars
  BY <1>3 DEF UpBegins, GetIndex, UpFails, Fails, vars, kernel, isUp, read_flags
<1>4. CASE SetHwAddr \/ SetAddr \/ SetMask \/ SetBrd \/ SetV6 \/ SetMtu
  BY <1>4 DEF SetHwAddr, SetAddr, SetMask, SetBrd, SetV6, SetMtu, isUp, read_flags
<1> QED BY <1>1, <1>2, <1>3, <1>4 DEF Next, setters

(* up() brings an interface up only with the whole configuration in place, *)
(* after any number of attempts that failed half way.                      *)
THEOREM UpAppliesAlways == Spec => UpApplies
<1>1. ASSUME Applied, [Next]_vars, ~isUp, isUp' PROVE Configured'
  <2>1. SetFlags
    BY <1>1, OnlyUpBringsUp
  <2> QED BY <1>1, <2>1 DEF SetFlags, Applied, Configured, object, getMAC, getIPv4,
      getIPv4Netmask, getIPv4Broadcast, getIPv6, getMTU
<1>2. Applied /\ [Next]_vars => [~isUp /\ isUp' => Configured']_vars
  BY <1>1
<1>3. Init => TypeOK /\ Applied
  BY TypeInit, AppliedInit
<1>4. TypeOK /\ Applied /\ [Next]_vars => (TypeOK /\ Applied)'
  BY TypeNext, AppliedNext
<1> QED BY <1>2, <1>3, <1>4, PTL DEF Spec, UpApplies

(* An interface that stays up keeps its configuration and packet buffer.   *)
THEOREM UpIsStableAlways == Spec => UpIsStable
<1> DEFINE Same == UNCHANGED <<kmac, kaddr, kmask, kbrd, kv6, kmtu, buflen>>
<1>1. ASSUME Applied, [Next]_vars, isUp, isUp' PROVE Same
  <2>1. pc = "idle"
    BY <1>1 DEF Applied
  <2>2. setters \/ down \/ UNCHANGED vars
    BY <1>1, <2>1 DEF Next, setters, UpBegins, SetHwAddr, SetAddr, SetMask, SetBrd,
       GetIndex, SetV6, SetMtu, SetFlags, UpFails, Fails
  <2>3. ~down
    BY <1>1 DEF down, NewFlags, isUp, read_flags, UP, Settable
  <2>4. CASE setters
    BY <2>4 DEF setters, setMAC, setIPv4, setIPv4Netmask, setIPv4Broadcast, setIPv6,
       setMTU, kernel
  <2>5. CASE UNCHANGED vars
    BY <2>5 DEF vars, kernel
  <2> QED BY <2>2, <2>3, <2>4, <2>5
<1>2. Applied /\ [Next]_vars => [isUp /\ isUp' => Same]_vars
  BY <1>1
<1>3. Init => TypeOK /\ Applied
  BY TypeInit, AppliedInit
<1>4. TypeOK /\ Applied /\ [Next]_vars => (TypeOK /\ Applied)'
  BY TypeNext, AppliedNext
<1> QED BY <1>2, <1>3, <1>4, PTL DEF Spec, UpIsStable

-----------------------------------------------------------------------------
(* Module PacketIO.                                                        *)

(* The second thread runs once the interface was up.  As long as the       *)
(* program sets no other MTU after that, the three lengths agree: down()   *)
(* and up() give the kernel and the buffer the MTU that they have, and     *)
(* only of a hooked interface the object may read a smaller one.           *)
LengthsAgree ==
  /\ isUp => started
  /\ started /\ ~remtu => mtu = buflen /\ mtu <= kmtu
  /\ io = "copy" => started

(* The buffer has the length of the MTU from the first up() on, whatever   *)
(* setMTU() did before, and again with each up() that gets as far as the   *)
(* resizing.  This is what makes ReadFits inductive: a read() asks for the *)
(* MTU of its own time, and the buffer is the one that the copy finds.     *)
BufferSized ==
  /\ started /\ ~unsized => mtu = buflen
  /\ io = "copy" /\ fits => asked <= buflen

IOInv == TypeOK /\ Applied /\ LengthsAgree /\ BufferSized

LEMMA ReadMtuCuts ==
  ASSUME NEW m \in Nat
  PROVE  read_mtu(m) <= m /\ (m < 10000 => read_mtu(m) = m)
  BY SMT DEF read_mtu

(* The steps of the two threads and of the kernel, as module NetConfig     *)
(* sees them.                                                              *)
LEMMA ConfiguresOrStutters == [IONext]_allVars => [Next]_vars
  BY DEF IONext, Configure, Arrive, Read, Copy, allVars

(* What module NetConfig proves holds while packets are received, too.     *)
THEOREM IOConfigures == IOSpec => Spec
<1>1. IOInit => Init
  BY DEF IOInit
<1> QED BY <1>1, ConfiguresOrStutters, PTL DEF IOSpec, Spec

(* The MTU, the buffer and the kernel's MTU change in setMTU() and in one  *)
(* step of up() only.                                                      *)
LEMMA MtuChanges ==
  ASSUME [Next]_vars
  PROVE  \/ UNCHANGED <<mtu, buflen, kmtu>>
         \/ UNCHANGED <<buflen, kmtu>> /\ mtu' # mtu
         \/ mtu' = mtu /\ buflen' = mtu /\ kmtu' = mtu
<1>1. CASE setters
  BY <1>1 DEF setters, setMAC, setIPv4, setIPv4Netmask, setIPv4Broadcast, setIPv6,
     setMTU, kernel
<1>2. CASE UpBegins \/ GetIndex \/ UpFails \/ UNCHANGED vars
  BY <1>2 DEF UpBegins, GetIndex, UpFails, Fails, vars, kernel, object
<1>3. CASE SetHwAddr \/ SetAddr \/ SetMask \/ SetBrd \/ SetV6 \/ SetFlags \/ down
  BY <1>3 DEF SetHwAddr, SetAddr, SetMask, SetBrd, SetV6, SetFlags, down, object
<1>4. CASE SetMtu
  BY <1>4 DEF SetMtu, object
<1> QED BY <1>1, <1>2, <1>3, <1>4 DEF Next, setters

LEMMA LengthsInit == IOInit => LengthsAgree
<1> SUFFICES ASSUME IOInit PROVE LengthsAgree
  OBVIOUS
<1>1. isUp => mtu = buflen /\ mtu <= kmtu
  <2>1. CASE kmtu \in KernelMtus /\ mtu = read_mtu(kmtu) /\ buflen = mtu
    BY <2>1, ReadMtuCuts, NetConfigAssumption
  <2>2. CASE kflags = {BROADCAST, MULTICAST}
    BY <2>2, SMT DEF isUp, read_flags, UP, BROADCAST, MULTICAST
  <2> QED BY <2>1, <2>2 DEF IOInit, Init
<1> QED BY <1>1 DEF IOInit, LengthsAgree

LEMMA LengthsNext ==
  TypeOK /\ Applied /\ LengthsAgree /\ [IONext]_allVars => LengthsAgree'
<1> SUFFICES ASSUME TypeOK, Applied, LengthsAgree, [IONext]_allVars PROVE LengthsAgree'
  OBVIOUS
<1>1. CASE Configure
  <2>1. isUp' => started'
    BY <1>1 DEF Configure
  <2>2. ASSUME started', ~remtu' PROVE mtu' = buflen' /\ mtu' <= kmtu'
    <3>1. CASE started
      <4>1. mtu' = mtu /\ ~remtu
        BY <1>1, <2>2, <3>1 DEF Configure
      <4> QED BY <1>1, <3>1, <4>1, MtuChanges DEF Configure, LengthsAgree, TypeOK
    <3>2. CASE ~started
      <4>1. SetFlags
        BY <1>1, <2>2, <3>2, OnlyUpBringsUp DEF Configure, LengthsAgree
      <4>2. mtu' = kmtu' /\ mtu' = buflen' /\ mtu' \in Nat
        BY <4>1 DEF SetFlags, Applied, object, TypeOK
      <4> QED BY <4>2
    <3> QED BY <3>1, <3>2
  <2>3. io' = "copy" => started'
    BY <1>1 DEF Configure, LengthsAgree
  <2> QED BY <2>1, <2>2, <2>3 DEF LengthsAgree
<1>2. CASE Arrive
  BY <1>2 DEF Arrive, vars, history, object, kernel, isUp, read_flags,
     LengthsAgree
<1>3. CASE Read
  BY <1>3 DEF Read, vars, history, object, kernel, isUp, read_flags,
     LengthsAgree
<1>4. CASE Copy
  BY <1>4 DEF Copy, vars, history, object, kernel, isUp, read_flags,
     LengthsAgree
<1>5. CASE UNCHANGED allVars
  BY <1>5 DEF allVars, ioVars, vars, history, object, kernel, isUp, read_flags,
     LengthsAgree
<1> QED BY <1>1, <1>2, <1>3, <1>4, <1>5 DEF IONext

(* The buffer of an interface that is hooked while up has its MTU.         *)
LEMMA SizedInit == IOInit => BufferSized
<1> SUFFICES ASSUME IOInit PROVE BufferSized
  OBVIOUS
<1>1. isUp => mtu = buflen
  <2>1. CASE buflen = mtu
    BY <2>1
  <2>2. CASE kflags = {BROADCAST, MULTICAST}
    BY <2>2, SMT DEF isUp, read_flags, UP, BROADCAST, MULTICAST
  <2> QED BY <2>1, <2>2 DEF IOInit, Init
<1> QED BY <1>1 DEF IOInit, BufferSized

(* setMTU() sets the two apart, the next pktbuff.resize() together.        *)
LEMMA SizedNext ==
  TypeOK /\ Applied /\ LengthsAgree /\ BufferSized /\ [IONext]_allVars => BufferSized'
<1> SUFFICES ASSUME TypeOK, Applied, LengthsAgree, BufferSized, [IONext]_allVars
             PROVE  BufferSized'
  OBVIOUS
<1>1. CASE Configure
  <2>1. ASSUME started', ~unsized' PROVE mtu' = buflen'
    <3>1. CASE started /\ Resizes
      <4>1. SetMtu
        BY <1>1, <3>1 DEF Resizes, Configure, Next, setMAC, setIPv4, setIPv4Netmask,
           setIPv4Broadcast, setIPv6, setMTU, Idle, UpBegins, SetHwAddr, SetAddr,
           SetMask, SetBrd, GetIndex, SetV6, SetFlags, UpFails, Fails, Throws, down
      <4> QED BY <4>1 DEF SetMtu, object
    <3>2. CASE started /\ ~Resizes
      <4>1. ~unsized /\ mtu' = mtu
        BY <1>1, <2>1, <3>2 DEF Configure
      <4>2. mtu = buflen
        BY <3>2, <4>1 DEF BufferSized
      <4> QED BY <1>1, <4>1, <4>2, MtuChanges DEF Configure
    <3>3. CASE ~started
      <4>1. SetFlags
        BY <1>1, <2>1, <3>3, OnlyUpBringsUp DEF Configure, LengthsAgree
      <4> QED BY <4>1 DEF SetFlags, Applied, object
    <3> QED BY <3>1, <3>2, <3>3
  <2>2. ASSUME io' = "copy", fits' PROVE asked' <= buflen'
    <3>1. io = "copy" /\ fits /\ buflen' = buflen /\ asked' = asked
      BY <1>1, <2>2 DEF Configure
    <3> QED BY <3>1 DEF BufferSized
  <2> QED BY <2>1, <2>2 DEF BufferSized
<1>2. CASE Arrive
  BY <1>2 DEF Arrive, vars, history, object, BufferSized
<1>3. CASE Read
  <2>1. /\ started /\ UNCHANGED <<started, mtu, buflen, unsized>>
        /\ asked' = mtu
    BY <1>3 DEF Read, vars, history, object
  <2>2. fits' => ~unsized
    BY <1>3, Zenon DEF Read
  <2>3. mtu \in Nat
    BY DEF TypeOK
  <2> QED BY <2>1, <2>2, <2>3 DEF BufferSized
<1>4. CASE Copy
  BY <1>4 DEF Copy, vars, history, object, BufferSized
<1>5. CASE UNCHANGED allVars
  BY <1>5 DEF allVars, ioVars, vars, history, object, BufferSized
<1> QED BY <1>1, <1>2, <1>3, <1>4, <1>5 DEF IONext

LEMMA IOInvHolds == IOSpec => []IOInv
<1>1. IOInit => IOInv
  BY TypeInit, AppliedInit, LengthsInit, SizedInit DEF IOInit, IOInv
<1>2. IOInv /\ [IONext]_allVars => IOInv'
  BY ConfiguresOrStutters, TypeNext, AppliedNext, LengthsNext, SizedNext DEF IOInv
<1> QED BY <1>1, <1>2, PTL DEF IOSpec

-----------------------------------------------------------------------------
(* setMTU() without an up() after it, and an up() that resizes the buffer  *)
(* during the call, are all that can make receive() write outside of the   *)
(* packet buffer: no failure of an attempt of up(), no down() and no other *)
(* setter does, at whatever step of receive() it happens.                  *)
THEOREM ReadsFit == IOSpec => []ReadFits
<1>1. IOInv => ReadFits
  BY DEF IOInv, BufferSized, ReadFits
<1> QED BY <1>1, IOInvHolds, PTL

(* Whatever send() accepts and puts on the interface is no longer than the *)
(* kernel's MTU.                                                           *)
THEOREM SendsWithinMtu == IOSpec => []SendWithinMtu
<1>1. IOInv => SendWithinMtu
  <2> SUFFICES ASSUME IOInv, ~remtu, NEW n \in Lengths, send(n) = "ok" PROVE n <= kmtu
    BY DEF SendWithinMtu
  <2>1. n \in Nat /\ mtu \in Nat /\ kmtu \in Nat
    BY PacketIOAssumption DEF IOInv, TypeOK
  <2>2. ~(n < ETH_HLEN \/ n > mtu) /\ isUp
    BY DEF send
  <2>3. mtu <= kmtu
    BY <2>2 DEF IOInv, LengthsAgree
  <2> QED BY <2>1, <2>2, <2>3
<1> QED BY <1>1, IOInvHolds, PTL

-----------------------------------------------------------------------------
(* What the kernel queued, and what receive() took, of an interface whose  *)
(* MTU the object knows, is at most a header longer than that MTU.  The    *)
(* object knows an MTU of four digits when it hooks the interface, and the *)
(* one that up() wrote.                                                    *)
FramesFit ==
  /\ ~started => queue = << >>
  /\ started /\ ~remtu /\ ~large => mtu = kmtu
  /\ queue \in Seq(Nat)
  /\ ~remtu /\ ~large => \A k \in 1..Len(queue) : queue[k] <= mtu + ETH_HLEN
  /\ io = "copy" /\ ~remtu /\ ~large =>
       /\ whole <= mtu + ETH_HLEN
       /\ whole \in Nat /\ nread = IF whole <= mtu THEN whole ELSE mtu

LEMMA FramesInit == IOInit => FramesFit
<1> SUFFICES ASSUME IOInit PROVE FramesFit
  OBVIOUS
<1>1. started /\ ~large => mtu = kmtu
  <2>1. CASE kmtu \in KernelMtus /\ mtu = read_mtu(kmtu)
    <3>1. kmtu \in Nat
      BY <2>1, NetConfigAssumption
    <3>2. ASSUME ~large PROVE kmtu < 10000
      <4>1. ~(kmtu > 9999)
        BY <3>2 DEF IOInit
      <4> QED BY <3>1, <4>1
    <3> QED BY <2>1, <3>1, <3>2, ReadMtuCuts
  <2>2. CASE kflags = {BROADCAST, MULTICAST}
    <3>1. ~isUp
      BY <2>2, SMT DEF isUp, read_flags, UP, BROADCAST, MULTICAST
    <3> QED BY <3>1 DEF IOInit
  <2> QED BY <2>1, <2>2 DEF IOInit, Init
<1> QED BY <1>1 DEF IOInit, FramesFit

LEMMA FramesNext ==
  ASSUME IOInv, FramesFit, [IONext]_allVars
  PROVE  FramesFit'
<1>0. /\ mtu \in Nat /\ kmtu \in Nat /\ IOInv'
      /\ \A k \in 1..Len(queue) : queue[k] \in Nat
  <2>1. mtu \in Nat /\ kmtu \in Nat
    BY DEF IOInv, TypeOK
  <2>2. TypeOK' /\ Applied' /\ LengthsAgree' /\ BufferSized'
    BY ConfiguresOrStutters, TypeNext, AppliedNext, LengthsNext, SizedNext DEF IOInv
  <2>3. \A k \in 1..Len(queue) : queue[k] \in Nat
    BY DEF FramesFit
  <2> QED BY <2>1, <2>2, <2>3 DEF IOInv
<1>1. CASE Configure
  <2>1. UNCHANGED <<large, queue, io, whole, nread>>
    BY <1>1 DEF Configure
  <2>2. CASE started
    <3>1. started' /\ (~remtu' => ~remtu /\ mtu' = mtu)
      BY <1>1, <2>2 DEF Configure
    <3>2. ~remtu' /\ ~large => kmtu' = mtu'
      BY <1>1, <2>2, <3>1, MtuChanges DEF Configure, FramesFit
    <3> QED BY <2>1, <3>1, <3>2 DEF FramesFit
  <2>3. CASE ~started
    <3>1. queue = << >> /\ io # "copy"
      BY <2>3 DEF FramesFit, IOInv, LengthsAgree
    <3>2. started' => mtu' = kmtu'
      <4>1. started' => SetFlags
        BY <1>1, <2>3, OnlyUpBringsUp DEF Configure, IOInv, LengthsAgree
      <4> QED BY <4>1 DEF SetFlags, IOInv, Applied, object
    <3> QED BY <2>1, <3>1, <3>2 DEF FramesFit
  <2> QED BY <2>2, <2>3
<1>2. CASE Arrive
  <2>1. PICK n \in Lengths : /\ isUp /\ n <= kmtu + ETH_HLEN
                             /\ queue' = Append(queue, n)
    BY <1>2 DEF Arrive
  <2>2. UNCHANGED <<started, remtu, large, mtu, kmtu, io, whole, nread>>
    BY <1>2 DEF Arrive, vars, history, object, kernel
  <2>3. started /\ n \in Nat
    BY <2>1, PacketIOAssumption DEF IOInv, LengthsAgree
  <2>4. /\ queue' \in Seq(Nat)
        /\ \A k \in 1..Len(queue') :
             queue'[k] = n \/ (k \in 1..Len(queue) /\ queue'[k] = queue[k])
    BY <2>1, <2>3 DEF FramesFit
  <2> QED BY <2>1, <2>2, <2>3, <2>4 DEF FramesFit
<1>3. CASE Read
  <2>1. /\ started /\ queue # << >> /\ whole' = Head(queue)
        /\ nread' = IF Head(queue) <= mtu THEN Head(queue) ELSE mtu
        /\ queue' = Tail(queue)
        /\ UNCHANGED <<started, remtu, large, mtu, kmtu>>
    BY <1>3 DEF Read, vars, history, object, kernel
  <2>2. /\ Head(queue) = queue[1] /\ 1 \in 1..Len(queue)
        /\ Tail(queue) \in Seq(Nat)
        /\ \A k \in 1..Len(Tail(queue)) :
             k + 1 \in 1..Len(queue) /\ Tail(queue)[k] = queue[k + 1]
    BY <2>1 DEF FramesFit
  <2> QED BY <1>0, <2>1, <2>2 DEF FramesFit
<1>4. CASE Copy
  BY <1>4 DEF Copy, vars, history, object, kernel, FramesFit
<1>5. CASE UNCHANGED allVars
  BY <1>5 DEF allVars, ioVars, vars, history, object, kernel, FramesFit
<1> QED BY <1>1, <1>2, <1>3, <1>4, <1>5 DEF IONext

(* receive() cuts frames, as viface.hpp 306 does not say, but by no more   *)
(* than the Ethernet header: the buffer always has the MTU that frames on  *)
(* the interface were sent with, however often it went down and up.  The   *)
(* property names the two exceptions, the theorem has no assumption.       *)
THEOREM LosesAtMostHeaderAlways == IOSpec => []LosesAtMostHeader
<1>1. IOInit => FramesFit
  BY FramesInit
<1>2. IOInv /\ FramesFit /\ [IONext]_allVars => FramesFit'
  BY FramesNext
<1>3. IOInv /\ FramesFit => LosesAtMostHeader
  BY DEF IOInv, TypeOK, FramesFit, LosesAtMostHeader, ETH_HLEN
<1> QED BY <1>1, <1>2, <1>3, IOInvHolds, PTL DEF IOSpec
=============================================================================
