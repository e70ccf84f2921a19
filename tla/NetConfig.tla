------------------------------ MODULE NetConfig ------------------------------
(***************************************************************************)
(* Configuration of one virtual interface (the setters, up(), down() and   *)
(* isUp() of src/viface.cpp).  The setters only write the object; up()     *)
(* brings the kernel in line with it by a series of ioctl() calls, each of *)
(* which may fail and end it, and sets IFF_UP last.                        *)
(*                                                                         *)
(* The kernel is modelled from those ioctl() calls.  struct ifreq is a     *)
(* union: ifr_flags, the family of the addresses, ifr_ifindex and ifr_mtu  *)
(* share their low 16 bits, which are the variable word.                   *)
(*                                                                         *)
(* The object keeps the texts that it was given, the kernel the addresses. *)
(* A MAC or IPv6 address can be written in several ways, so that a getter  *)
(* may print another text; an IPv4 address has one that inet_pton() takes. *)
(***************************************************************************)
EXTENDS Integers, FiniteSets

CONSTANTS
  Macs, Addrs, Masks, Brds, V6s,  \* texts given to the setters
  Printed,       \* Printed[v]: the address that text v is, as getters print it
  Mtus,          \* MTUs given to setMTU
  KernelMtus,    \* MTUs of an interface that is hooked
  Unset,         \* empty string in the object, no value in the kernel
  Derived,       \* netmask or broadcast that the kernel derives from an address
  IfIndex,       \* index of the interface
  IoErrors       \* may an ioctl() fail for no reason of the model

ASSUME NetConfigAssumption ==
  /\ Mtus \subseteq Nat
  /\ KernelMtus \subseteq Nat
  /\ \A m \in KernelMtus : m < 100000
  /\ IfIndex \in Nat
  /\ {Unset, Derived} \cap (Macs \cup Addrs \cup Masks \cup Brds \cup V6s) = {}
  /\ DOMAIN Printed = Macs \cup V6s
  /\ \A v \in Macs \cup V6s : Printed[v] # Unset
  /\ IoErrors \in BOOLEAN

VARIABLES
  mac, ipv4, netmask, broadcast, ipv6s, mtu,  \* the fields of the object
  buflen,    \* pktbuff.size()
  kmac, kaddr, kmask, kbrd, kv6, kmtu,        \* the kernel's configuration
  kflags,    \* the interface flags of the kernel, as a set of bit positions
  pc,        \* where up() is
  word,      \* the low 16 bits of the union in up()'s ifr, as a set
  left       \* addresses of ipv6s that up() has still to set

object == <<mac, ipv4, netmask, broadcast, ipv6s, mtu>>
kernel == <<kmac, kaddr, kmask, kbrd, kv6, kmtu, kflags>>
vars == <<object, buflen, kernel, pc, word, left>>

UP == 0          \* IFF_UP
BROADCAST == 1   \* IFF_BROADCAST
MULTICAST == 12  \* IFF_MULTICAST
(* The flags that SIOCSIFFLAGS changes: UP, DEBUG, NOTRAILERS, NOARP,      *)
(* PROMISC, ALLMULTI, MULTICAST, PORTSEL, AUTOMEDIA and DYNAMIC.           *)
Settable == {UP, 2, 5, 7, 8, 9, MULTICAST, 13, 14, 15}

ETH_HLEN == 14
MaxMtu == 65536

(* The low 16 bits of n.                                                   *)
Low16(n) == {b \in 0..15 : (n \div 2^b) % 2 = 1}
AF_INET == 2

(* The getters ask the kernel and change nothing.  Each throws when its    *)
(* ioctl() fails, which is left out; Unset is an exception too, of         *)
(* getIPv4(), though viface.hpp 169 says an empty string.                  *)
read_flags == kflags
isUp == UP \in read_flags
getMAC == kmac
getIPv4 == kaddr
getIPv4Netmask == kmask
getIPv4Broadcast == kbrd
getIPv6 == kv6
getMTU == kmtu

(* Mutant: one byte of the buffer too few.                                 *)
read_mtuShort(m) == IF m < 1000 THEN m ELSE m \div 10

(* read_mtu(name, 4): the number that the first four digits are, of five   *)
(* at most.                                                                *)
read_mtu(m) == IF m < 10000 THEN m ELSE m \div 10

(* After the constructor: an interface just allocated, which is down, or   *)
(* one that was hooked, up or down, with the MTU it has.                   *)
Init ==
  /\ mac = Unset /\ ipv4 = Unset /\ netmask = Unset /\ broadcast = Unset
  /\ ipv6s = {}
  /\ kmac = Unset /\ kaddr = Unset /\ kmask = Unset /\ kbrd = Unset
  /\ kv6 = {}
  /\ \/ /\ kmtu = 1500 /\ mtu = 1500 /\ buflen = 0
        /\ kflags = {BROADCAST, MULTICAST}
     \/ /\ kmtu \in KernelMtus
        /\ mtu = read_mtu(kmtu) /\ buflen = mtu
        /\ kflags \in {{BROADCAST, MULTICAST}, {UP, BROADCAST, MULTICAST}}
  /\ pc = "idle" /\ word = {} /\ left = {}

-----------------------------------------------------------------------------
(* The setters, none of which asks whether the interface is up.  A value   *)
(* of the wrong form is refused and changes nothing.                       *)

Idle == pc = "idle"

setMAC == \E v \in Macs :
  /\ Idle
  /\ mac' = v
  /\ UNCHANGED <<ipv4, netmask, broadcast, ipv6s, mtu, buflen, kernel, pc, word, left>>

setIPv4 == \E v \in Addrs :
  /\ Idle
  /\ ipv4' = v
  /\ UNCHANGED <<mac, netmask, broadcast, ipv6s, mtu, buflen, kernel, pc, word, left>>

setIPv4Netmask == \E v \in Masks :
  /\ Idle
  /\ netmask' = v
  /\ UNCHANGED <<mac, ipv4, broadcast, ipv6s, mtu, buflen, kernel, pc, word, left>>

setIPv4Broadcast == \E v \in Brds :
  /\ Idle
  /\ broadcast' = v
  /\ UNCHANGED <<mac, ipv4, netmask, ipv6s, mtu, buflen, kernel, pc, word, left>>

setIPv6 == \E S \in SUBSET V6s :
  /\ Idle
  /\ ipv6s' = S
  /\ UNCHANGED <<mac, ipv4, netmask, broadcast, mtu, buflen, kernel, pc, word, left>>

(* Mutant: the range has no upper end.                                     *)
setMTUNoLimit == \E m \in Mtus :
  /\ Idle
  /\ m >= ETH_HLEN
  /\ mtu' = m
  /\ UNCHANGED <<mac, ipv4, netmask, broadcast, ipv6s, buflen, kernel, pc, word, left>>

setMTU == \E m \in Mtus :
  /\ Idle
  /\ m >= ETH_HLEN
  /\ m <= MaxMtu
  /\ mtu' = m
  /\ UNCHANGED <<mac, ipv4, netmask, broadcast, ipv6s, buflen, kernel, pc, word, left>>

-----------------------------------------------------------------------------
(* up(): one action per ioctl().                                           *)

(* An ioctl() that is called fails: up() throws, what was set stays set.   *)
Throws == pc' = "idle" /\ word' = {} /\ left' = {}
Fails(from, called, refused) ==
  /\ pc = from
  /\ called
  /\ IoErrors \/ refused
  /\ Throws
  /\ UNCHANGED <<object, buflen, kernel>>

(* Mutant: up() of an interface that is up goes ahead.                     *)
UpBeginsUnchecked ==
  /\ pc = "idle"
  /\ pc' = "hwaddr"
  /\ word' = read_flags
  /\ UNCHANGED <<object, buflen, kernel, left>>

(* isUp() and read_flags().  An interface that is up is refused, with no   *)
(* change of state.                                                        *)
UpBegins ==
  /\ pc = "idle"
  /\ ~isUp
  /\ pc' = "hwaddr"
  /\ word' = read_flags
  /\ UNCHANGED <<object, buflen, kernel, left>>

SetHwAddr ==
  /\ pc = "hwaddr"
  /\ pc' = "addr"
  /\ kmac' = IF mac = Unset THEN kmac ELSE Printed[mac]
  /\ word' = Low16(AF_INET)
  /\ UNCHANGED <<object, buflen, kaddr, kmask, kbrd, kv6, kmtu, kflags, left>>

(* A new address makes the kernel derive netmask and broadcast afresh.     *)
SetAddr ==
  /\ pc = "addr"
  /\ pc' = "mask"
  /\ IF ipv4 \in {Unset, kaddr} THEN UNCHANGED <<kaddr, kmask, kbrd>>
     ELSE kaddr' = ipv4 /\ kmask' = Derived /\ kbrd' = Derived
  /\ UNCHANGED <<object, buflen, kmac, kv6, kmtu, kflags, word, left>>

(* Mutant: the result of SIOCSIFNETMASK is not looked at.                  *)
SetMaskUnchecked ==
  /\ pc = "mask"
  /\ pc' = "brd"
  /\ kmask' = IF netmask = Unset \/ kaddr = Unset THEN kmask ELSE netmask
  /\ UNCHANGED <<object, buflen, kmac, kaddr, kbrd, kv6, kmtu, kflags, word, left>>

(* Netmask and broadcast need an address of the interface.  With another   *)
(* netmask the kernel may derive the broadcast afresh.                     *)
SetMask ==
  /\ pc = "mask"
  /\ netmask = Unset \/ kaddr # Unset
  /\ pc' = "brd"
  /\ kmask' = IF netmask = Unset THEN kmask ELSE netmask
  /\ kbrd' \in IF kmask' = kmask THEN {kbrd} ELSE {kbrd, Derived}
  /\ UNCHANGED <<object, buflen, kmac, kaddr, kv6, kmtu, kflags, word, left>>

SetBrd ==
  /\ pc = "brd"
  /\ broadcast = Unset \/ kaddr # Unset
  /\ pc' = IF ipv6s = {} THEN "mtu" ELSE "index"
  /\ kbrd' = IF broadcast = Unset THEN kbrd ELSE broadcast
  /\ UNCHANGED <<object, buflen, kmac, kaddr, kmask, kv6, kmtu, kflags, word, left>>

GetIndex ==
  /\ pc = "index"
  /\ pc' = "v6"
  /\ word' = Low16(IfIndex)
  /\ left' = ipv6s
  /\ UNCHANGED <<object, buflen, kernel>>

(* An address that the interface has already is an error, be it a second   *)
(* text of one that was just set.                                          *)
SetV6 ==
  /\ pc = "v6"
  /\ \E a \in left :
       /\ Printed[a] \notin kv6
       /\ kv6' = kv6 \cup {Printed[a]}
       /\ left' = left \ {a}
       /\ pc' = IF left = {a} THEN "mtu" ELSE "v6"
  /\ UNCHANGED <<object, buflen, kmac, kaddr, kmask, kbrd, kmtu, kflags, word>>

(* Mutant: the packet buffer keeps its size.                               *)
SetMtuOnly ==
  /\ pc = "mtu"
  /\ pc' = "flags"
  /\ kmtu' = mtu
  /\ word' = Low16(mtu)
  /\ UNCHANGED <<object, buflen, kmac, kaddr, kmask, kbrd, kv6, kflags, left>>

(* SIOCSIFMTU and pktbuff.resize().                                        *)
SetMtu ==
  /\ pc = "mtu"
  /\ pc' = "flags"
  /\ kmtu' = mtu
  /\ buflen' = mtu
  /\ word' = Low16(mtu)
  /\ UNCHANGED <<object, kmac, kaddr, kmask, kbrd, kv6, kflags, left>>

(* SIOCSIFFLAGS with f.                                                    *)
NewFlags(f) == (kflags \ Settable) \cup (f \cap Settable)

SetFlags ==
  /\ pc = "flags"
  /\ kflags' = NewFlags(word \cup {UP})
  /\ Throws
  /\ UNCHANGED <<object, buflen, kmac, kaddr, kmask, kbrd, kv6, kmtu>>

UpFails ==
  \/ Fails("hwaddr", mac # Unset, FALSE)
  \/ Fails("addr", ipv4 # Unset, FALSE)
  \/ Fails("mask", netmask # Unset, kaddr = Unset)
  \/ Fails("brd", broadcast # Unset, kaddr = Unset)
  \/ Fails("index", TRUE, FALSE)
  \/ Fails("v6", TRUE, \E a \in left : Printed[a] \in kv6)
  \/ Fails("mtu", TRUE, FALSE)
  \/ Fails("flags", TRUE, FALSE)

(* down(); the kernel drops the IPv6 addresses of an interface going down. *)
down ==
  /\ pc = "idle"
  /\ kflags' = NewFlags(read_flags \ {UP})
  /\ kv6' = IF isUp THEN {} ELSE kv6
  /\ UNCHANGED <<object, buflen, kmac, kaddr, kmask, kbrd, kmtu, pc, word, left>>

-----------------------------------------------------------------------------
Next ==
  \/ setMAC \/ setIPv4 \/ setIPv4Netmask \/ setIPv4Broadcast \/ setIPv6 \/ setMTU
  \/ UpBegins \/ SetHwAddr \/ SetAddr \/ SetMask \/ SetBrd \/ GetIndex \/ SetV6
  \/ SetMtu \/ SetFlags \/ UpFails
  \/ down

Spec == Init /\ [][Next]_vars

-----------------------------------------------------------------------------
(* Properties.                                                             *)

(* The values of the variables; setMTU() keeps the MTU below its limit.    *)
TypeOK ==
  /\ mac \in Macs \cup {Unset}
  /\ kmac \in {Printed[v] : v \in Macs} \cup {Unset}
  /\ ipv4 \in Addrs \cup {Unset} /\ kaddr \in Addrs \cup {Unset}
  /\ netmask \in Masks \cup {Unset} /\ kmask \in Masks \cup {Unset, Derived}
  /\ broadcast \in Brds \cup {Unset} /\ kbrd \in Brds \cup {Unset, Derived}
  /\ ipv6s \subseteq V6s /\ left \subseteq V6s
  /\ kv6 \subseteq {Printed[v] : v \in V6s}
  /\ mtu \in Nat /\ kmtu \in Nat /\ buflen \in Nat
  /\ mtu <= MaxMtu
  /\ kflags \subseteq 0..15 /\ word \subseteq 0..15
  /\ pc \in {"idle", "hwaddr", "addr", "mask", "brd", "index", "v6", "mtu", "flags"}

(* The getters give what the setters were given, and the buffer holds an   *)
(* MTU.                                                                    *)
Configured ==
  /\ mac = Unset \/ getMAC = Printed[mac]
  /\ ipv4 \in {Unset, getIPv4}
  /\ netmask \in {Unset, getIPv4Netmask}
  /\ broadcast \in {Unset, getIPv4Broadcast}
  /\ {Printed[a] : a \in ipv6s} \subseteq getIPv6
  /\ mtu = getMTU /\ mtu = buflen

(* test/create.cpp 34-42: whatever failed attempts went before, up() makes *)
(* an interface visible to traffic only with the whole configuration of    *)
(* the object in place, as the getters tell.                               *)
UpApplies == [][~isUp /\ isUp' => Configured']_vars

(* An interface that carries traffic is never reconfigured.                *)
UpIsStable ==
  [][isUp /\ isUp' => UNCHANGED <<kmac, kaddr, kmask, kbrd, kv6, kmtu, buflen>>]_vars

(* viface.cpp 657, 784: up() reads the flags and sets IFF_UP in them: the  *)
(* other flags stay as they are.                                           *)
UpKeepsFlags == [][~isUp /\ isUp' => kflags' = kflags \cup {UP}]_vars

(* viface.cpp 347: the constructor reads the MTU of a hooked interface; if *)
(* the program sets no other, up() leaves the interface its MTU.           *)
MtuUntouched == [][kmtu' = kmtu]_vars
=============================================================================
