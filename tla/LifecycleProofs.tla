--------------------------- MODULE LifecycleProofs ---------------------------
(***************************************************************************)
(* Theorems about module Lifecycle, for any number of objects, names and   *)
(* descriptors, and any failures.                                          *)
(***************************************************************************)
EXTENDS Lifecycle, Minima, TLAPS

(* In a program with one thread, one constructor or destructor runs.       *)
OneAtATime ==
  ~threaded => \A o, p \in Objects :
    pc[o] \notin Resting /\ pc[p] \notin Resting => o = p

(* The descriptors that an object holds at each step.                      *)
HasQueues(o) == own[o]["rx"] # NoFd /\ own[o]["tx"] # NoFd
HasSockets(o) == own[o]["v4"] # NoFd /\ own[o]["v6"] # NoFd
NoSockets(o) == own[o]["v4"] = NoFd /\ own[o]["v6"] = NoFd

Shape(o) ==
  /\ pc[o] \in {"none", "access", "failed", "gone"} => own[o] = Nothing
  /\ pc[o] \in {"opentun", "setiff", "socket", "bind"} =>
       own[o]["tx"] = NoFd /\ NoSockets(o)
  /\ pc[o] \in {"openmtu", "readmtu", "closemtu", "mtuerr", "socket4"} =>
       HasQueues(o) /\ NoSockets(o)
  /\ pc[o] = "socket6" =>
       HasQueues(o) /\ own[o]["v4"] # NoFd /\ own[o]["v6"] = NoFd
  /\ pc[o] \in {"id", "bump", "live"} => HasQueues(o) /\ HasSockets(o)
  /\ pc[o] = "closing" => own[o]["v6"] # NoFd
  /\ (fd[o] # NoFd) <=> pc[o] \in {"setiff", "bind", "readmtu", "closemtu", "mtuerr"}
  /\ pc[o] \in {"none", "access", "opentun", "setiff"} => ~hooked[o]
  /\ pc[o] \in {"socket", "bind", "openmtu", "readmtu", "closemtu", "mtuerr"} =>
       hooked[o]

(* What is open for an object is what it holds, each thing in one place;   *)
(* after an error of close(), read_mtu() holds a number that is free, if   *)
(* no thread was given it in between.                                      *)
Local(o) == IF pc[o] = "mtuerr" THEN NoFd ELSE fd[o]
Holds(o, f) == f = Local(o) \/ \E s \in Slots : own[o][s] = f

Accounted(o) ==
  /\ pc[o] # "failed" => \A f \in Fds : files[f].by = o <=> Holds(o, f)
  /\ \A s, r \in Slots : own[o][s] = own[o][r] => s = r \/ own[o][s] = NoFd
  /\ \A s \in Slots : own[o][s] = fd[o] => fd[o] = NoFd
  /\ pc[o] = "mtuerr" /\ ~threaded => files[fd[o]] = Free

(* What is open for an object is known to it, whatever others close.       *)
Kept(o) ==
  /\ pc[o] # "failed" => \A f \in Fds : files[f].by = o => Holds(o, f)
  /\ pc[o] = "failed" /\ why[o] \in {"argument", "alloc"} =>
       \A f \in Fds : files[f].by # o

(* What the descriptors are.                                               *)
RightKind(o) ==
  /\ \A s \in {"rx", "tx"} : own[o][s] # NoFd =>
       /\ files[own[o][s]].dev = name[o]
       /\ files[own[o][s]].kind = IF hooked[o] THEN "packet" ELSE "queue"
  /\ \A s \in {"v4", "v6"} : own[o][s] # NoFd => files[own[o][s]].kind = s
  /\ own[o]["rx"] # NoFd /\ ~hooked[o] => name[o] # Pattern

FreeIsFree == \A f \in Fds : files[f].by = NoObject => files[f] = Free

(* One thread: the name that alloc_viface() asks for is not that of an     *)
(* interface, and the interfaces that were made have names of their own.   *)
NewName(o) ==
  ~threaded /\ pc[o] \in {"opentun", "setiff"} /\ own[o]["rx"] = NoFd =>
    ~Exists(name[o])
Made(o) == own[o]["rx"] # NoFd /\ ~hooked[o]
MadeApart ==
  ~threaded => \A o, p \in Objects : o # p /\ Made(o) /\ Made(p) => name[o] # name[p]

(* One thread: the ids given out so far are below idseq.                   *)
IdBelow(o) ==
  GivenId[o] < 0 =>
    /\ pc[o] = "bump" /\ ~threaded => id[o] = idseq
    /\ pc[o] \in {"live", "closing", "gone"} /\ ~threaded => id[o] < idseq
IdNatural(o) == pc[o] \in {"bump", "live"} => id[o] >= 0

Descriptors ==
  /\ FreeIsFree
  /\ \A o \in Objects : Accounted(o) /\ RightKind(o)

IInv ==
  /\ TypeOK /\ OneAtATime
  /\ \A o \in Objects : Shape(o) /\ IdBelow(o) /\ IdNatural(o)
  /\ AutoIdsDistinct /\ MadeApart
  /\ ~threaded => ~misclosed
  /\ ~dead /\ ~misclosed => Descriptors
  /\ ~dead => \A o \in Objects : NewName(o) /\ Kept(o)
  /\ dead => \A f \in Fds : files[f] = Free

Step(o) ==
  \/ NameTooLong(o) \/ Construct(o) \/ Access(o)
  \/ OpenTun(o) \/ SetIff(o) \/ AllocFails(o)
  \/ OpenSocket(o) \/ BindSocket(o) \/ HookFails(o)
  \/ OpenMtu(o) \/ ReadMtu(o) \/ CloseMtu(o) \/ CloseMtuError(o) \/ MtuFails(o)
  \/ Socket4(o) \/ Socket6(o) \/ SocketFails(o) \/ SetId(o) \/ Bump(o)
  \/ Destroy(o) \/ CloseNext(o)

-----------------------------------------------------------------------------
(* open() and socket() give a number that is free.                         *)
LEMMA NewFdIsFree ==
  ASSUME Available # {}
  PROVE  NewFd \in Fds /\ files[NewFd] = Free
<1>1. Available \in SUBSET Nat /\ Available \subseteq Fds
  BY LifecycleAssumption DEF Available, Fds
<1>2. \E f \in Available : \A g \in Available : f <= g
  BY <1>1, Least
<1>3. NewFd \in Available
  BY <1>2 DEF NewFd
<1> QED BY <1>1, <1>3 DEF Available

(* NoFd is not a descriptor: Nothing holds none.                           *)
LEMMA NoFdIsNone == NoFd \notin Fds /\ \A s \in Slots : Nothing[s] = NoFd
  BY LifecycleAssumption DEF NoFd, Fds, Nothing

(* The destructor always finds a descriptor to close.                      *)
LEMMA NextToCloseIsOpen ==
  ASSUME NEW o \in Objects, own[o]["v6"] # NoFd
  PROVE  /\ NextToClose(o) \in Slots
         /\ own[o][NextToClose(o)] # NoFd
         /\ NextToClose(o) = "v6" => \A s \in Slots \ {"v6"} : own[o][s] = NoFd
<1> DEFINE First(k) == /\ own[o][CloseOrder[k]] # NoFd
                       /\ \A j \in 1..(k - 1) : own[o][CloseOrder[j]] = NoFd
<1>1. CloseOrder[1] = "rx" /\ CloseOrder[2] = "tx" /\ CloseOrder[3] = "v4"
      /\ CloseOrder[4] = "v6"
  BY DEF CloseOrder
<1>2. \E k \in 1..4 : First(k)
  <2>1. First(1) \/ First(2) \/ First(3) \/ First(4)
    BY <1>1
  <2> QED BY <2>1
<1>3. PICK k \in 1..4 : NextToClose(o) = CloseOrder[k] /\ First(k)
  BY <1>2 DEF NextToClose
<1> QED BY <1>1, <1>3 DEF Slots

-----------------------------------------------------------------------------
(* Init and the steps have the types of TypeOK.                            *)
LEMMA TypeInit == Init => TypeOK
<1> SUFFICES ASSUME Init PROVE TypeOK
  OBVIOUS
<1>1. Free \in [kind : Kinds, dev : Names \cup {NoName}, by : Objects \cup {NoObject}]
  BY DEF Free, Kinds
<1>2. Nothing \in [Slots -> Fds \cup {NoFd}]
  BY DEF Nothing
<1>3. idseq \in Nat /\ -1 \in Int
  BY DEF Init
<1> QED BY <1>1, <1>2, <1>3 DEF Init, TypeOK, Labels, Resting, Reasons

(* TypeOK in two parts: the descriptor table, and the fields of objects.   *)
FileTable ==
  [Fds -> [kind : Kinds, dev : Names \cup {NoName}, by : Objects \cup {NoObject}]]

Fields ==
  /\ pc \in [Objects -> Labels]
  /\ name \in [Objects -> Names \cup {NoName}]
  /\ fd \in [Objects -> Fds \cup {NoFd}]
  /\ own \in [Objects -> [Slots -> Fds \cup {NoFd}]]
  /\ hooked \in [Objects -> BOOLEAN]
  /\ why \in [Objects -> Reasons]
  /\ id \in [Objects -> Int]
  /\ \A o \in Objects : pc[o] = "live" => id[o] >= 0
  /\ idseq \in Nat
  /\ dead \in BOOLEAN /\ threaded \in BOOLEAN /\ misclosed \in BOOLEAN

(* TypeOK is the one and the other.                                        *)
LEMMA TypeParts == TypeOK <=> files \in FileTable /\ Fields
  BY Zenon DEF TypeOK, FileTable, Fields

(* Opening and closing descriptors makes a descriptor table.               *)
LEMMA FilesType ==
  ASSUME files \in FileTable, NEW o \in Objects \cup {NoObject}
  PROVE  /\ \A S : Closed(S) \in FileTable
         /\ \A f \in Fds, kind \in Kinds, dev \in Names \cup {NoName} :
              Opened(f, o, kind, dev) \in FileTable
<1> DEFINE File == [kind : Kinds, dev : Names \cup {NoName}, by : Objects \cup {NoObject}]
<1>1. Free \in File
  BY DEF Free, Kinds
<1>2. ASSUME NEW S PROVE Closed(S) \in [Fds -> File]
  <2> HIDE DEF File
  <2> QED BY <1>1 DEF Closed, FileTable, File
<1>3. ASSUME NEW f \in Fds, NEW kind \in Kinds, NEW dev \in Names \cup {NoName}
      PROVE  Opened(f, o, kind, dev) \in [Fds -> File]
  <2>1. [kind |-> kind, dev |-> dev, by |-> o] \in File
    OBVIOUS
  <2> HIDE DEF File
  <2> QED BY <2>1 DEF Opened, FileTable, File
<1> QED BY <1>2, <1>3 DEF FileTable

(* A step keeps the types; of the fields, Shape and IdNatural say which    *)
(* descriptor and which id an action finds.                                *)
LEMMA TypeNext ==
  ASSUME TypeOK, \A o \in Objects : Shape(o) /\ IdNatural(o), [Next]_vars
  PROVE  TypeOK'
<1>0. files \in FileTable /\ Fields
  BY TypeParts
<1>1. CASE UNCHANGED vars
  BY <1>1 DEF vars, TypeOK
<1>2. CASE Next
  <2>0. PICK o \in Objects : /\ UNCHANGED threaded /\ misclosed' \in BOOLEAN
                             /\ Step(o) \/ CloseFails(o)
    BY <1>2, Zenon DEF Next, Step
  <2> SUFFICES files' \in FileTable /\ Fields'
    BY Zenon DEF TypeOK, FileTable, Fields
  <2> USE <1>0, <2>0 DEF Fields, Labels, Resting, Reasons, idVars, Enter, Goto
  <2>1. CASE NameTooLong(o)
    BY <2>1 DEF NameTooLong
  <2>2. CASE Construct(o)
    BY <2>2 DEF Construct, Names
  <2>3. CASE Access(o)
    <3>1. Exists(name[o]) \in BOOLEAN
      BY DEF Exists
    <3> QED BY <2>3, <3>1 DEF Access
  <2>4. ASSUME NEW from, NEW kind \in Kinds, NEW to \in Labels \ {"live"},
               OpenLocal(o, from, kind, to)
        PROVE  files' \in FileTable /\ Fields'
    <3>1. NewFd \in Fds /\ files' \in FileTable
      BY <2>4, NewFdIsFree, FilesType DEF OpenLocal
    <3> QED BY <2>4, <3>1 DEF OpenLocal
  <2>5. CASE OpenTun(o) \/ OpenSocket(o) \/ OpenMtu(o)
    BY <2>4, <2>5 DEF OpenTun, OpenSocket, OpenMtu, Kinds
  <2>6. ASSUME NEW from, NEW again \in Labels \ {"live"}, NEW done \in Labels \ {"live"},
               KeepQueue(o, from, again, done), name' \in [Objects -> Names \cup {NoName}]
        PROVE  Fields'
    <3>1. own' \in [Objects -> [Slots -> Fds \cup {NoFd}]]
      BY <2>6 DEF KeepQueue, NextQueue, Slots
    <3> QED BY <2>6, <3>1 DEF KeepQueue
  <2>7. CASE SetIff(o)
    <3>1. PICK n \in Names : name' = [name EXCEPT ![o] = n]
                             /\ files' = Opened(fd[o], files[fd[o]].by, "queue", n)
      BY <2>7 DEF SetIff
    <3>2. fd[o] \in Fds /\ files[fd[o]].by \in Objects \cup {NoObject}
      BY <2>7 DEF SetIff, KeepQueue, Shape, FileTable
    <3> QED BY <2>6, <2>7, <3>1, <3>2, FilesType DEF SetIff, Kinds
  <2>8. CASE BindSocket(o)
    <3>1. fd[o] \in Fds /\ files[fd[o]].by \in Objects \cup {NoObject}
      BY <2>8 DEF BindSocket, KeepQueue, Shape, FileTable
    <3>2. files' \in FileTable
      BY <2>8, <3>1, FilesType DEF BindSocket, Kinds
    <3> QED BY <2>6, <2>8, <3>2 DEF BindSocket
  <2>9. ASSUME NEW from, NEW reason \in Reasons, Throw(o, from, reason)
        PROVE  Fields'
    BY <2>9 DEF Throw, Nothing
  <2>10. CASE AllocFails(o) \/ HookFails(o) \/ MtuFails(o) \/ SocketFails(o)
    BY <2>9, <2>10, FilesType DEF AllocFails, HookFails, MtuFails, SocketFails
  <2>11. CASE ReadMtu(o)
    BY <2>11 DEF ReadMtu
  <2>12. CASE CloseMtu(o)
    BY <2>12, FilesType DEF CloseMtu
  <2>13. CASE CloseMtuError(o)
    BY <2>13, FilesType DEF CloseMtuError
  <2>14. ASSUME NEW from, NEW slot \in {"v4", "v6"}, NEW to \in Labels \ {"live"},
                KernelSocket(o, from, slot, to)
         PROVE  files' \in FileTable /\ Fields'
    <3>1. NewFd \in Fds /\ files' \in FileTable
      BY <2>14, NewFdIsFree, FilesType DEF KernelSocket, Kinds
    <3>2. own' \in [Objects -> [Slots -> Fds \cup {NoFd}]]
      BY <2>14, <3>1 DEF KernelSocket, Slots
    <3> QED BY <2>14, <3>1, <3>2 DEF KernelSocket
  <2>15. CASE Socket4(o) \/ Socket6(o)
    BY <2>14, <2>15 DEF Socket4, Socket6
  <2>16. CASE SetId(o)
    <3>1. GivenId[o] \in Int
      BY LifecycleAssumption
    <3>2. id' \in [Objects -> Int] /\ \A p \in Objects : p # o => id'[p] = id[p]
      BY <2>16, <3>1 DEF SetId
    <3> QED BY <2>16, <3>2 DEF SetId
  <2>17. CASE Bump(o)
    BY <2>17 DEF Bump, IdNatural
  <2>18. CASE Destroy(o)
    BY <2>18 DEF Destroy
  <2>19. CASE CloseNext(o)
    <3>1. NextToClose(o) \in Slots
      BY <2>19, NextToCloseIsOpen DEF CloseNext, Shape
    <3>2. own' \in [Objects -> [Slots -> Fds \cup {NoFd}]]
      BY <2>19, <3>1 DEF CloseNext
    <3>3. files' \in FileTable
      BY <2>19, FilesType DEF CloseNext
    <3> QED BY <2>19, <3>2, <3>3 DEF CloseNext
  <2>20. CASE CloseFails(o)
    <3>1. files' = Closed(Fds)
      BY <2>20 DEF CloseFails, Closed
    <3> QED BY <2>20, <3>1, FilesType DEF CloseFails
  <2> QED BY <2>0, <2>1, <2>2, <2>3, <2>5, <2>7, <2>8, <2>10, <2>11, <2>12, <2>13,
             <2>15, <2>16, <2>17, <2>18, <2>19, <2>20 DEF Step
<1> QED BY <1>1, <1>2

-----------------------------------------------------------------------------
(* A step of o changes no other object and no descriptor of another.       *)
OthersStay(o) ==
  \A p \in Objects \ {o} :
    /\ pc'[p] = pc[p] /\ name'[p] = name[p] /\ fd'[p] = fd[p] /\ own'[p] = own[p]
    /\ hooked'[p] = hooked[p] /\ why'[p] = why[p] /\ id'[p] = id[p]
FilesStay(o) ==
  \A f \in Fds : files'[f] # files[f] =>
    files[f].by \in {o, NoObject} /\ files'[f].by \in {o, NoObject}

LEMMA StepIsLocal ==
  ASSUME TypeOK, NEW o \in Objects, Step(o), UNCHANGED threaded
  PROVE  OthersStay(o) /\ ~dead /\ ~dead'
<1> USE DEF OthersStay, Enter, Goto, idVars, TypeOK
<1>1. CASE NameTooLong(o) \/ Construct(o) \/ Access(o)
  BY <1>1 DEF NameTooLong, Construct, Access
<1>2. CASE OpenTun(o) \/ OpenSocket(o) \/ OpenMtu(o)
  BY <1>2 DEF OpenTun, OpenSocket, OpenMtu, OpenLocal
<1>3. CASE SetIff(o) \/ BindSocket(o)
  BY <1>3 DEF SetIff, BindSocket, KeepQueue
<1>4. CASE AllocFails(o) \/ HookFails(o) \/ MtuFails(o) \/ SocketFails(o)
  BY <1>4 DEF AllocFails, HookFails, MtuFails, SocketFails, Throw
<1>5. CASE ReadMtu(o) \/ CloseMtu(o) \/ CloseMtuError(o)
  BY <1>5 DEF ReadMtu, CloseMtu, CloseMtuError
<1>6. CASE Socket4(o) \/ Socket6(o)
  BY <1>6 DEF Socket4, Socket6, KernelSocket
<1>7. CASE SetId(o) \/ Bump(o)
  BY <1>7 DEF SetId, Bump
<1>8. CASE Destroy(o) \/ CloseNext(o)
  BY <1>8 DEF Destroy, CloseNext
<1> QED BY <1>1, <1>2, <1>3, <1>4, <1>5, <1>6, <1>7, <1>8 DEF Step

(* One thread: while o takes a step, no other object is in the middle of one. *)
LEMMA OthersRest ==
  ASSUME OneAtATime, ~threaded, NEW o \in Objects, Step(o), NEW p \in Objects \ {o}
  PROVE  pc[p] \in Resting
<1>1. CASE \A q \in Objects : pc[q] \in Resting
  BY <1>1
<1>2. CASE pc[o] \notin Resting
  BY <1>2 DEF OneAtATime
<1>3. (\A q \in Objects : pc[q] \in Resting) \/ pc[o] \notin Resting
  BY DEF Step, NameTooLong, Construct, Access, OpenTun, OpenSocket, OpenMtu, OpenLocal,
     SetIff, BindSocket, KeepQueue, AllocFails, HookFails, MtuFails, SocketFails, Throw,
     ReadMtu, CloseMtu, CloseMtuError, Socket4, Socket6, KernelSocket, SetId, Bump,
     Destroy, CloseNext, Enter, Goto, Resting
<1> QED BY <1>1, <1>2, <1>3

(* A step of o takes it to a place where it holds what belongs there.      *)
LEMMA ShapeStep ==
  ASSUME TypeOK, NEW o \in Objects, Shape(o), Step(o)
  PROVE  Shape(o)'
<1> USE DEF Enter, Goto, TypeOK, HasQueues, HasSockets, NoSockets
<1>1. CASE NameTooLong(o) \/ Construct(o) \/ Access(o) \/ ReadMtu(o)
  BY <1>1, NoFdIsNone DEF NameTooLong, Construct, Access, ReadMtu, Shape, Slots
<1>2. CASE SetId(o) \/ Bump(o) \/ Destroy(o)
  BY <1>2 DEF SetId, Bump, Destroy, Shape
<1>3. CASE OpenTun(o) \/ OpenSocket(o) \/ OpenMtu(o)
  <2>1. /\ fd'[o] # NoFd /\ UNCHANGED <<own, hooked>>
        /\ \/ pc[o] = "opentun" /\ pc'[o] = "setiff"
           \/ pc[o] = "socket" /\ pc'[o] = "bind"
           \/ pc[o] = "openmtu" /\ pc'[o] = "readmtu"
    BY <1>3, NewFdIsFree, NoFdIsNone DEF OpenTun, OpenSocket, OpenMtu, OpenLocal
  <2> QED BY <2>1 DEF Shape
<1>4. CASE SetIff(o) \/ BindSocket(o)
  <2>1. /\ fd[o] # NoFd /\ fd'[o] = NoFd /\ UNCHANGED hooked
        /\ own' = [own EXCEPT ![o][NextQueue(o)] = fd[o]]
        /\ \/ /\ pc[o] = "setiff"
              /\ pc'[o] = IF NextQueue(o) = "rx" THEN "opentun" ELSE "socket4"
           \/ /\ pc[o] = "bind"
              /\ pc'[o] = IF NextQueue(o) = "rx" THEN "socket" ELSE "openmtu"
    BY <1>4 DEF SetIff, BindSocket, KeepQueue, Shape
  <2>2. /\ own'[o][NextQueue(o)] = fd[o]
        /\ \A s \in Slots \ {NextQueue(o)} : own'[o][s] = own[o][s]
    BY <2>1 DEF NextQueue, Slots
  <2> QED BY <2>1, <2>2 DEF Shape, NextQueue, Slots
<1>5. CASE AllocFails(o) \/ HookFails(o) \/ MtuFails(o) \/ SocketFails(o)
  BY <1>5 DEF AllocFails, HookFails, MtuFails, SocketFails, Throw, Shape
<1>6. CASE CloseMtu(o) \/ CloseMtuError(o)
  BY <1>6 DEF CloseMtu, CloseMtuError, Shape
<1>7. CASE Socket4(o) \/ Socket6(o)
  <2>1. PICK slot \in {"v4", "v6"} :
          /\ own' = [own EXCEPT ![o][slot] = NewFd] /\ NewFd # NoFd
          /\ UNCHANGED <<fd, hooked>>
          /\ slot = "v4" => pc[o] = "socket4" /\ pc'[o] = "socket6"
          /\ slot = "v6" => pc[o] = "socket6" /\ pc'[o] = "id"
    BY <1>7, NewFdIsFree, NoFdIsNone DEF Socket4, Socket6, KernelSocket
  <2>2. own'[o][slot] = NewFd /\ \A s \in Slots \ {slot} : own'[o][s] = own[o][s]
    BY <2>1 DEF Slots
  <2> QED BY <2>1, <2>2 DEF Shape, Slots
<1>8. CASE CloseNext(o)
  <2> DEFINE slot == NextToClose(o)
  <2>1. /\ pc[o] = "closing" /\ pc'[o] = IF slot = "v6" THEN "gone" ELSE "closing"
        /\ own' = [own EXCEPT ![o][slot] = NoFd] /\ UNCHANGED <<fd, hooked>>
    BY <1>8 DEF CloseNext
  <2>2. slot \in Slots /\ (slot = "v6" => \A s \in Slots \ {"v6"} : own[o][s] = NoFd)
    BY <2>1, NextToCloseIsOpen DEF Shape
  <2> HIDE DEF slot
  <2>3. /\ own'[o][slot] = NoFd /\ \A s \in Slots \ {slot} : own'[o][s] = own[o][s]
        /\ own'[o] \in [Slots -> Fds \cup {NoFd}]
    BY <2>1, <2>2
  <2>4. slot = "v6" => own'[o] = Nothing
    <3>1. slot = "v6" => \A s \in Slots : own'[o][s] = NoFd
      BY <2>2, <2>3
    <3> QED BY <2>3, <3>1 DEF Nothing
  <2>5. slot # "v6" => own'[o]["v6"] # NoFd
    BY <2>1, <2>3 DEF Shape, Slots
  <2> QED BY <2>1, <2>4, <2>5 DEF Shape
<1> QED BY <1>1, <1>2, <1>3, <1>4, <1>5, <1>6, <1>7, <1>8 DEF Step

(* ... and the others stay where they are.                                 *)
LEMMA ShapeNext ==
  ASSUME TypeOK, \A p \in Objects : Shape(p), NEW o \in Objects, Step(o),
         UNCHANGED threaded
  PROVE  \A p \in Objects : Shape(p)'
<1>1. ASSUME NEW p \in Objects \ {o} PROVE Shape(p)'
  <2>1. pc'[p] = pc[p] /\ fd'[p] = fd[p] /\ own'[p] = own[p] /\ hooked'[p] = hooked[p]
    BY StepIsLocal DEF OthersStay
  <2> QED BY <2>1 DEF Shape, HasQueues, HasSockets, NoSockets
<1> QED BY <1>1, ShapeStep

(* Whatever number a step closes, it opens descriptors for o only, and     *)
(* what was open for o and is not held any more was closed.                *)
LEMMA KeptNext ==
  ASSUME TypeOK, NEW o \in Objects, Shape(o), \A p \in Objects : Kept(p), Step(o),
         UNCHANGED threaded
  PROVE  \A p \in Objects : Kept(p)'
<1> USE DEF Enter, Goto, TypeOK
<1>0. /\ Free.by = NoObject
      /\ \A S : \A f \in Fds : Closed(S)[f] = IF f \in S THEN Free ELSE files[f]
      /\ \A g, p, kind, dev : \A f \in Fds :
           Opened(g, p, kind, dev)[f].by = IF f = g THEN p ELSE files[f].by
  BY DEF Free, Closed, Opened
<1>1. \A f \in Fds : files'[f].by \in {files[f].by, NoObject, o}
  <2>1. CASE NameTooLong(o) \/ Construct(o) \/ Access(o) \/ ReadMtu(o)
             \/ SetId(o) \/ Bump(o) \/ Destroy(o) \/ SocketFails(o)
    BY <2>1 DEF NameTooLong, Construct, Access, ReadMtu, SetId, Bump, Destroy, SocketFails
  <2>2. CASE OpenTun(o) \/ OpenSocket(o) \/ OpenMtu(o)
    BY <1>0, <2>2 DEF OpenTun, OpenSocket, OpenMtu, OpenLocal
  <2>3. CASE Socket4(o) \/ Socket6(o)
    BY <1>0, <2>3 DEF Socket4, Socket6, KernelSocket
  <2>4. CASE SetIff(o) \/ BindSocket(o)
    <3>1. \E n : \/ files' = Opened(fd[o], files[fd[o]].by, "queue", n)
                \/ files' = Opened(fd[o], files[fd[o]].by, "packet", n)
      BY <2>4 DEF SetIff, BindSocket
    <3> QED BY <1>0, <3>1
  <2>5. CASE AllocFails(o) \/ HookFails(o) \/ MtuFails(o)
    <3>1. files' = files \/ \E S : files' = Closed(S)
      BY <2>5 DEF AllocFails, HookFails, MtuFails
    <3> QED BY <1>0, <3>1
  <2>6. CASE CloseMtu(o) \/ CloseMtuError(o) \/ CloseNext(o)
    <3>1. \E S : files' = Closed(S)
      BY <2>6 DEF CloseMtu, CloseMtuError, CloseNext
    <3> QED BY <1>0, <3>1
  <2> QED BY <2>1, <2>2, <2>3, <2>4, <2>5, <2>6 DEF Step
<1>2. ASSUME NEW p \in Objects \ {o} PROVE Kept(p)'
  <2>1. pc'[p] = pc[p] /\ fd'[p] = fd[p] /\ own'[p] = own[p] /\ why'[p] = why[p]
    BY StepIsLocal DEF OthersStay
  <2>2. \A f \in Fds : files'[f].by = p => files[f].by = p
    BY <1>1, LifecycleAssumption
  <2> QED BY <2>1, <2>2 DEF Kept, Holds, Local
<1>3. Kept(o)'
  <2>1. CASE NameTooLong(o)
    <3>1. \A f \in Fds : ~Holds(o, f)
      BY <2>1, NoFdIsNone DEF NameTooLong, Shape, Holds, Local
    <3> QED BY <2>1, <3>1 DEF NameTooLong, Kept
  <2>2. CASE Construct(o) \/ Access(o) \/ ReadMtu(o) \/ SetId(o) \/ Bump(o) \/ Destroy(o)
    <3>1. /\ UNCHANGED <<files, own, fd>>
          /\ pc[o] \notin {"failed", "mtuerr"} /\ pc'[o] \notin {"failed", "mtuerr"}
      BY <2>2 DEF Construct, Access, ReadMtu, SetId, Bump, Destroy
    <3> QED BY <3>1 DEF Kept, Holds, Local
  <2>3. CASE OpenTun(o) \/ OpenSocket(o) \/ OpenMtu(o)
    <3>1. PICK kind :
            /\ Available # {}
            /\ files' = Opened(NewFd, o, kind, NoName)
            /\ fd' = [fd EXCEPT ![o] = NewFd] /\ UNCHANGED own
            /\ pc[o] \in {"opentun", "socket", "openmtu"}
            /\ pc'[o] \in {"setiff", "bind", "readmtu"}
      BY <2>3 DEF OpenTun, OpenSocket, OpenMtu, OpenLocal
    <3>2. fd[o] = NoFd /\ fd'[o] = NewFd
      BY <3>1 DEF Shape
    <3>3. ASSUME NEW f \in Fds, files'[f].by = o PROVE f = NewFd \/ files[f].by = o
      BY <1>0, <3>1, <3>3
    <3>4. ASSUME NEW f \in Fds, files[f].by = o PROVE \E s \in Slots : own[o][s] = f
      BY <3>1, <3>2, <3>4, NoFdIsNone DEF Kept, Holds, Local
    <3>5. \A f \in Fds : files'[f].by = o => Holds(o, f)'
      BY <3>1, <3>2, <3>3, <3>4 DEF Holds, Local
    <3>6. pc'[o] # "failed"
      BY <3>1
    <3> QED BY <3>5, <3>6 DEF Kept
  <2>4. CASE SetIff(o) \/ BindSocket(o)
    <3>1. /\ own' = [own EXCEPT ![o][NextQueue(o)] = fd[o]]
          /\ pc[o] \in {"setiff", "bind"} /\ pc'[o] \notin {"failed", "mtuerr"}
      BY <2>4 DEF SetIff, BindSocket, KeepQueue
    <3>2. own[o][NextQueue(o)] = NoFd /\ NextQueue(o) \in Slots
      BY <3>1 DEF Shape, NextQueue, Slots
    <3>3. /\ own'[o][NextQueue(o)] = fd[o]
          /\ \A s \in Slots \ {NextQueue(o)} : own'[o][s] = own[o][s]
      BY <3>1, <3>2
    <3>4. \E n : \/ files' = Opened(fd[o], files[fd[o]].by, "queue", n)
                \/ files' = Opened(fd[o], files[fd[o]].by, "packet", n)
      BY <2>4 DEF SetIff, BindSocket
    <3>5. \A f \in Fds : files'[f].by = files[f].by
      BY <1>0, <3>4
    <3>6. ASSUME NEW f \in Fds, files[f].by = o
          PROVE  f = fd[o] \/ \E s \in Slots : own[o][s] = f
      BY <3>1, <3>6 DEF Kept, Holds, Local
    <3>7. \A f \in Fds : files'[f].by = o => Holds(o, f)'
      <4>1. ASSUME NEW f \in Fds, files[f].by = o PROVE \E s \in Slots : own'[o][s] = f
        <5>1. CASE f = fd[o]
          BY <3>2, <3>3, <5>1
        <5>2. ASSUME NEW s \in Slots, own[o][s] = f PROVE own'[o][s] = f
          BY <3>2, <3>3, <5>2, NoFdIsNone
        <5> QED BY <3>6, <4>1, <5>1, <5>2
      <4> QED BY <3>5, <4>1 DEF Holds
    <3> QED BY <3>1, <3>7 DEF Kept
  <2>5. CASE HookFails(o) \/ MtuFails(o) \/ SocketFails(o)
    <3>1. pc'[o] = "failed" /\ why'[o] \in {"hook", "mtu", "socket"}
      BY <2>5 DEF HookFails, MtuFails, SocketFails, Throw
    <3> QED BY <3>1 DEF Kept
  <2>6. CASE AllocFails(o)
    <3>0. pc[o] \in {"opentun", "setiff"} /\ pc'[o] = "failed"
      BY <2>6 DEF AllocFails, Throw
    <3>1. PICK S \in {Stored(o), Stored(o) \cup {fd[o]}} :
            files' = Closed(S) /\ (pc[o] = "setiff" => fd[o] \in S)
      BY <2>6 DEF AllocFails, Throw
    <3>2. ASSUME NEW f \in Fds, files[f].by = o PROVE f \in S
      <4>1. Holds(o, f) /\ f # NoFd
        BY <3>0, <3>2, NoFdIsNone DEF Kept
      <4>2. f = fd[o] => pc[o] = "setiff"
        BY <3>0, <4>1 DEF Shape
      <4>3. own[o]["v4"] = NoFd /\ own[o]["v6"] = NoFd
        BY <3>0 DEF Shape, NoSockets
      <4> QED BY <3>0, <3>1, <4>1, <4>2, <4>3 DEF Holds, Local, Stored, Slots
    <3>3. \A f \in Fds : files'[f].by # o
      BY <1>0, <3>1, <3>2, LifecycleAssumption
    <3> QED BY <3>0, <3>3 DEF Kept
  <2>7. CASE CloseMtu(o) \/ CloseMtuError(o)
    <3>1. /\ pc[o] = "closemtu" /\ pc'[o] \in {"socket4", "mtuerr"} /\ UNCHANGED own
          /\ files' = Closed({fd[o]})
      BY <2>7 DEF CloseMtu, CloseMtuError
    <3>2. \A f \in Fds : files'[f].by = o => f # fd[o] /\ files[f].by = o
      BY <1>0, <3>1, LifecycleAssumption
    <3> QED BY <3>1, <3>2 DEF Kept, Holds, Local
  <2>8. CASE Socket4(o) \/ Socket6(o)
    <3>1. PICK slot \in {"v4", "v6"} :
            /\ files' = Opened(NewFd, o, slot, NoName)
            /\ own' = [own EXCEPT ![o][slot] = NewFd] /\ UNCHANGED fd
            /\ slot = "v4" => pc[o] = "socket4" /\ pc'[o] = "socket6"
            /\ slot = "v6" => pc[o] = "socket6" /\ pc'[o] = "id"
      BY <2>8 DEF Socket4, Socket6, KernelSocket
    <3>2. /\ own[o][slot] = NoFd /\ slot \in Slots
          /\ pc[o] \notin {"failed", "mtuerr"} /\ pc'[o] \notin {"failed", "mtuerr"}
      BY <3>1 DEF Shape, HasQueues, NoSockets, Slots
    <3>3. own'[o][slot] = NewFd /\ \A s \in Slots \ {slot} : own'[o][s] = own[o][s]
      BY <3>1, <3>2
    <3>4. ASSUME NEW f \in Fds, files'[f].by = o PROVE f = NewFd \/ files[f].by = o
      BY <1>0, <3>1, <3>4
    <3>5. ASSUME NEW f \in Fds, files[f].by = o
          PROVE  f = fd[o] \/ \E s \in Slots : own[o][s] = f
      BY <3>2, <3>5 DEF Kept, Holds, Local
    <3>6. \A f \in Fds : files'[f].by = o => Holds(o, f)'
      BY <3>1, <3>2, <3>3, <3>4, <3>5, NoFdIsNone DEF Holds, Local
    <3> QED BY <3>2, <3>6 DEF Kept
  <2>9. CASE CloseNext(o)
    <3> DEFINE slot == NextToClose(o)
    <3>1. /\ pc[o] = "closing" /\ pc'[o] \in {"closing", "gone"}
          /\ files' = Closed({own[o][slot]}) /\ UNCHANGED fd
          /\ own' = [own EXCEPT ![o][slot] = NoFd]
      BY <2>9 DEF CloseNext
    <3>2. slot \in Slots
      BY <3>1, NextToCloseIsOpen DEF Shape
    <3> HIDE DEF slot
    <3>3. \A s \in Slots \ {slot} : own'[o][s] = own[o][s]
      BY <3>1, <3>2
    <3>4. \A f \in Fds : files'[f].by = o => f # own[o][slot] /\ files[f].by = o
      BY <1>0, <3>1, LifecycleAssumption
    <3>5. ASSUME NEW f \in Fds, files[f].by = o
          PROVE  f = fd[o] \/ \E s \in Slots : own[o][s] = f
      BY <3>1, <3>5 DEF Kept, Holds, Local
    <3>6. \A f \in Fds : files'[f].by = o => Holds(o, f)'
      <4>1. ASSUME NEW f \in Fds, files'[f].by = o
            PROVE  f = fd[o] \/ \E s \in Slots : own'[o][s] = f
        <5>1. f # own[o][slot] /\ files[f].by = o
          BY <3>4, <4>1
        <5>2. ASSUME NEW s \in Slots, own[o][s] = f PROVE own'[o][s] = f
          BY <3>3, <5>1, <5>2
        <5> QED BY <3>5, <5>1, <5>2
      <4>2. Local(o)' = fd[o]
        BY <3>1 DEF Local
      <4> QED BY <4>1, <4>2 DEF Holds
    <3> QED BY <3>1, <3>6 DEF Kept
  <2> QED BY <2>1, <2>2, <2>3, <2>4, <2>5, <2>6, <2>7, <2>8, <2>9 DEF Step
<1> QED BY <1>2, <1>3

(* What holds of the descriptors of an object survives the steps of others. *)
LEMMA OthersUndisturbed ==
  ASSUME TypeOK, FreeIsFree, OneAtATime, NEW o \in Objects, NEW p \in Objects \ {o},
         Step(o), UNCHANGED threaded, FilesStay(o),
         Shape(p), Accounted(p), RightKind(p)
  PROVE  Shape(p)' /\ Accounted(p)' /\ RightKind(p)'
<1>1. /\ pc'[p] = pc[p] /\ name'[p] = name[p] /\ fd'[p] = fd[p] /\ own'[p] = own[p]
      /\ hooked'[p] = hooked[p] /\ why'[p] = why[p]
  BY StepIsLocal DEF OthersStay
<1>2. \A f \in Fds : /\ files'[f].by = p <=> files[f].by = p
                     /\ files[f].by = p => files'[f] = files[f]
  BY LifecycleAssumption DEF FilesStay
<1>3. ~threaded => pc[p] # "mtuerr"
  BY OthersRest DEF Resting
<1>4. Shape(p)'
  BY <1>1 DEF Shape, HasQueues, HasSockets, NoSockets
<1>5. Accounted(p)'
  BY <1>1, <1>2, <1>3 DEF Accounted, Holds, Local
<1>6. RightKind(p)'
  BY <1>1, <1>2 DEF RightKind, Accounted, Holds, Shape, Nothing, TypeOK, Slots
<1> QED BY <1>4, <1>5, <1>6

-----------------------------------------------------------------------------
(* The steps of o, each with what it does to the descriptors of o.         *)
Mine(o) == Shape(o) /\ Accounted(o) /\ RightKind(o)
After(o) == FreeIsFree' /\ FilesStay(o) /\ Mine(o)'

(* Steps that open and close nothing.                                      *)
LEMMA StepKeepsFiles ==
  ASSUME TypeOK, FreeIsFree, NEW o \in Objects, Mine(o), UNCHANGED <<files, own, fd>>,
         \/ NameTooLong(o) \/ Construct(o) \/ Access(o) \/ ReadMtu(o)
         \/ SetId(o) \/ Bump(o) \/ Destroy(o)
  PROVE  After(o)
<1> USE DEF Mine, After, Enter, Goto, TypeOK
<1>1. FreeIsFree' /\ FilesStay(o)
  BY DEF FreeIsFree, FilesStay
<1>2. Shape(o)'
  BY ShapeStep DEF Step
<1>3. CASE NameTooLong(o)
  <2>0. pc[o] = "none" /\ own[o] = Nothing /\ fd[o] = NoFd
    BY <1>3 DEF NameTooLong, Shape
  <2>1. \A f \in Fds : files[f].by # o
    <3>1. \A f \in Fds : ~Holds(o, f)
      BY <2>0, NoFdIsNone DEF Holds, Local
    <3> QED BY <2>0, <3>1 DEF Accounted
  <2>2. Accounted(o)'
    BY <1>3, <2>1 DEF NameTooLong, Accounted, Holds, Local, Shape
  <2>3. RightKind(o)'
    BY <1>3 DEF NameTooLong, RightKind
  <2> QED BY <1>1, <1>2, <2>2, <2>3
<1>4. CASE Construct(o) \/ Access(o)
  <2>1. \A s \in Slots : own[o][s] = NoFd
    BY <1>4, NoFdIsNone DEF Construct, Access, Shape
  <2>2. RightKind(o)'
    BY <2>1 DEF RightKind, Slots
  <2>3. Accounted(o)'
    BY <1>4 DEF Construct, Access, Accounted, Holds, Local, Shape
  <2> QED BY <1>1, <1>2, <2>2, <2>3
<1>5. CASE ReadMtu(o) \/ SetId(o) \/ Bump(o) \/ Destroy(o)
  <2>1. Accounted(o)'
    BY <1>5 DEF ReadMtu, SetId, Bump, Destroy, Accounted, Holds, Local
  <2>2. RightKind(o)'
    BY <1>5 DEF ReadMtu, SetId, Bump, Destroy, RightKind
  <2> QED BY <1>1, <1>2, <2>1, <2>2
<1> QED BY <1>3, <1>4, <1>5

(* A free descriptor belongs to nobody.                                    *)
LEMMA FreeIsNobodys ==
  ASSUME NEW o \in Objects, NEW f \in Fds, files[f] = Free
  PROVE  files[f].by = NoObject /\ files[f].by # o
  BY LifecycleAssumption DEF Free

(* open() and socket(): the new descriptor is the local fd.                *)
LEMMA StepOpens ==
  ASSUME TypeOK, FreeIsFree, NEW o \in Objects, Mine(o),
         OpenTun(o) \/ OpenSocket(o) \/ OpenMtu(o)
  PROVE  After(o)
<1> DEFINE n == NewFd
<1>1. PICK kind \in Kinds \ {"free"} :
        /\ Available # {}
        /\ files' = Opened(n, o, kind, NoName)
        /\ fd' = [fd EXCEPT ![o] = n]
        /\ UNCHANGED <<name, own, hooked, why>>
  BY DEF OpenTun, OpenSocket, OpenMtu, OpenLocal, Kinds
<1>2. n \in Fds /\ files[n] = Free /\ files[n].by = NoObject /\ files[n].by # o
  BY <1>1, NewFdIsFree, FreeIsNobodys
<1>3. /\ files'[n] = [kind |-> kind, dev |-> NoName, by |-> o]
      /\ \A f \in Fds \ {n} : files'[f] = files[f]
  BY <1>1, <1>2 DEF Opened, TypeOK
<1>4. /\ pc[o] \in {"opentun", "socket", "openmtu"}
      /\ pc'[o] \in {"setiff", "bind", "readmtu"}
      /\ pc[o] = "opentun" => pc'[o] = "setiff"
      /\ pc[o] = "socket" => pc'[o] = "bind"
      /\ pc[o] = "openmtu" => pc'[o] = "readmtu"
  BY DEF OpenTun, OpenSocket, OpenMtu, OpenLocal, Goto, TypeOK
<1>5. fd[o] = NoFd /\ fd'[o] = n /\ n # NoFd
  BY <1>1, <1>2, <1>4, NoFdIsNone DEF Mine, Shape, TypeOK
<1> HIDE DEF n
<1>6. FreeIsFree' /\ FilesStay(o)
  <2>1. n \in Fds /\ files'[n].by = o /\ o # NoObject
    BY <1>2, <1>3, LifecycleAssumption
  <2>2. FreeIsFree'
    BY <1>3, <2>1 DEF FreeIsFree
  <2>3. FilesStay(o)
    BY <1>2, <1>3, <2>1 DEF FilesStay
  <2> QED BY <2>2, <2>3
<1>7. \A s \in Slots : own[o][s] # n
  BY <1>2, <1>4 DEF Mine, Accounted, Holds
<1>8. Shape(o)'
  BY ShapeStep DEF Mine, Step
<1>9. Accounted(o)'
  <2>1. \A f \in Fds : files[f].by = o <=> \E s \in Slots : own[o][s] = f
    BY <1>4, <1>5, NoFdIsNone DEF Mine, Accounted, Holds, Local
  <2>2. \A f \in Fds : files'[f].by = o <=> Holds(o, f)'
    BY <1>1, <1>2, <1>3, <1>4, <1>5, <2>1 DEF Holds, Local
  <2>3. /\ \A s, r \in Slots : own[o][s] = own[o][r] => s = r \/ own[o][s] = NoFd
        /\ own' = own /\ fd'[o] = n
    BY <1>1, <1>5 DEF Mine, Accounted
  <2> QED BY <1>4, <1>7, <2>2, <2>3 DEF Accounted
<1>10. RightKind(o)'
  <2>1. \A s \in Slots : own[o][s] # NoFd => own[o][s] \in Fds \ {n}
    BY <1>7 DEF TypeOK
  <2> QED BY <1>1, <1>3, <2>1 DEF Mine, RightKind, Slots
<1> QED BY <1>6, <1>8, <1>9, <1>10 DEF After, Mine

(* queues[i] = fd.                                                         *)
LEMMA StepKeeps ==
  ASSUME TypeOK, FreeIsFree, NEW o \in Objects, Mine(o), SetIff(o) \/ BindSocket(o)
  PROVE  After(o)
<1> DEFINE k == fd[o]
           q == NextQueue(o)
           dev == name'[o]
           kind == IF hooked[o] THEN "packet" ELSE "queue"
<1>1. /\ pc[o] \in {"setiff", "bind"} /\ k \in Fds /\ k # NoFd /\ files[k].by = o
      /\ o # NoObject
  BY LifecycleAssumption DEF Mine, SetIff, BindSocket, KeepQueue, Goto, Shape,
     Accounted, Holds, Local, TypeOK
<1>2. /\ files'[k] = [kind |-> kind, dev |-> dev, by |-> o]
      /\ \A f \in Fds \ {k} : files'[f] = files[f]
  <2>1. CASE SetIff(o)
    <3>1. PICK n \in Names : name' = [name EXCEPT ![o] = n]
                             /\ files' = Opened(k, o, "queue", n)
      BY <1>1, <2>1 DEF SetIff
    <3>2. kind = "queue" /\ dev = n
      BY <2>1, <3>1 DEF Mine, Shape, SetIff, KeepQueue, Goto, TypeOK
    <3> QED BY <1>1, <3>1, <3>2 DEF Opened, TypeOK
  <2>2. CASE BindSocket(o)
    <3>1. files' = Opened(k, o, "packet", dev)
      BY <1>1, <2>2 DEF BindSocket
    <3>2. kind = "packet"
      BY <2>2 DEF Mine, Shape, BindSocket, KeepQueue, Goto
    <3> QED BY <1>1, <3>1, <3>2 DEF Opened, TypeOK
  <2> QED BY <2>1, <2>2
<1>3. /\ q \in {"rx", "tx"} /\ own[o][q] = NoFd /\ own[o]["tx"] = NoFd
      /\ q = "rx" <=> own[o]["rx"] = NoFd
  BY <1>1 DEF Mine, Shape, NextQueue
<1>4. /\ own'[o][q] = k /\ \A s \in Slots \ {q} : own'[o][s] = own[o][s]
      /\ fd'[o] = NoFd /\ UNCHANGED hooked
  BY <1>3 DEF SetIff, BindSocket, KeepQueue, TypeOK, Slots
<1>5. /\ pc'[o] \in {"opentun", "socket", "socket4", "openmtu"}
      /\ pc'[o] \in {"opentun", "socket4"} <=> pc[o] = "setiff"
      /\ pc'[o] \in {"opentun", "socket"} <=> q = "rx"
  BY DEF SetIff, BindSocket, KeepQueue, Goto, TypeOK
<1>6. own[o]["rx"] # NoFd => dev = name[o]
  <2>1. CASE SetIff(o)
    BY <2>1 DEF Mine, RightKind, Shape, SetIff, KeepQueue, Goto, TypeOK
  <2>2. CASE BindSocket(o)
    BY <2>2 DEF BindSocket
  <2> QED BY <2>1, <2>2
<1>7. ~hooked[o] => dev # Pattern
  <2>1. SetIff(o) => dev # Pattern
    BY LifecycleAssumption DEF SetIff, TypeOK
  <2>2. BindSocket(o) => hooked[o]
    BY DEF Mine, Shape, BindSocket, KeepQueue, Goto
  <2> QED BY <2>1, <2>2
<1> HIDE DEF k, q, dev, kind
<1>8. FreeIsFree' /\ FilesStay(o)
  <2>1. files'[k].by = o
    BY <1>2
  <2>2. FreeIsFree'
    BY <1>1, <1>2, <2>1 DEF FreeIsFree
  <2>3. FilesStay(o)
    BY <1>1, <1>2, <2>1 DEF FilesStay
  <2> QED BY <2>2, <2>3
<1>9. Shape(o)'
  BY ShapeStep DEF Mine, Step
<1>10. \A s \in Slots : own[o][s] # k
  BY <1>1 DEF Mine, Accounted, k
<1>11. Accounted(o)'
  <2>1. \A f \in Fds : files[f].by = o <=> f = k \/ \E s \in Slots : own[o][s] = f
    BY <1>1 DEF Mine, Accounted, Holds, Local, k
  <2>2. \A f \in Fds : files'[f].by = o <=> f = k \/ \E s \in Slots : own[o][s] = f
    BY <1>2, <2>1
  <2>3. \A f \in Fds : Holds(o, f)' <=> f = k \/ \E s \in Slots : own[o][s] = f
    BY <1>3, <1>4, <1>5, NoFdIsNone DEF Holds, Local, Slots
  <2>4. \A s, r \in Slots : own'[o][s] = own'[o][r] => s = r \/ own'[o][s] = NoFd
    BY <1>3, <1>4, <1>10 DEF Mine, Accounted
  <2> QED BY <1>4, <1>5, <2>2, <2>3, <2>4 DEF Accounted
<1>12. RightKind(o)'
  <2>1. \A s \in Slots : own[o][s] # NoFd => own[o][s] \in Fds \ {k}
    BY <1>10 DEF TypeOK
  <2>2. files'[k].dev = dev /\ files'[k].kind = kind
    BY <1>2
  <2>3. ASSUME NEW s \in {"rx", "tx"}, own'[o][s] # NoFd
        PROVE  files'[own'[o][s]].dev = dev /\ files'[own'[o][s]].kind = kind
    <3>1. CASE s = q
      BY <2>2, <3>1, <1>4
    <3>2. CASE s # q
      <4>1. own'[o][s] = own[o][s] /\ own[o][s] \in Fds \ {k} /\ s = "rx"
        BY <2>1, <2>3, <3>2, <1>3, <1>4 DEF Slots
      <4> QED BY <2>3, <4>1, <1>2, <1>6 DEF Mine, RightKind, kind
    <3> QED BY <3>1, <3>2
  <2>4. \A s \in {"v4", "v6"} : own'[o][s] = NoFd
    BY <1>1, <1>3, <1>4 DEF Mine, Shape, NoSockets, Slots
  <2> QED BY <2>3, <2>4, <1>4, <1>7 DEF RightKind, dev, kind
<1> QED BY <1>8, <1>9, <1>11, <1>12 DEF After, Mine

(* Closing what an object has, or what is free, changes nothing of others. *)
LEMMA ClosedIsLocal ==
  ASSUME TypeOK, FreeIsFree, NEW o \in Objects, NEW S, files' = Closed(S),
         \A f \in Fds : f \in S => files[f].by \in {o, NoObject}
  PROVE  /\ FreeIsFree' /\ FilesStay(o)
         /\ \A f \in Fds : files'[f] = IF f \in S THEN Free ELSE files[f]
<1>1. \A f \in Fds : files'[f] = IF f \in S THEN Free ELSE files[f]
  BY DEF Closed
<1>2. Free.by = NoObject
  BY DEF Free
<1>3. FreeIsFree'
  BY <1>1, <1>2 DEF FreeIsFree
<1>4. FilesStay(o)
  BY <1>1, <1>2 DEF FilesStay
<1> QED BY <1>1, <1>3, <1>4

(* The rollbacks close what is in queues or in fd, or nothing.             *)
LEMMA StepThrows ==
  ASSUME TypeOK, FreeIsFree, NEW o \in Objects, Mine(o),
         AllocFails(o) \/ HookFails(o) \/ MtuFails(o) \/ SocketFails(o),
         pc[o] = "mtuerr" => files[fd[o]] = Free
  PROVE  After(o)
<1> DEFINE All == Stored(o) \cup {fd[o]}
<1>1. /\ pc[o] \in {"opentun", "setiff", "socket", "bind", "openmtu", "readmtu", "mtuerr",
                    "socket4", "socket6"}
      /\ pc'[o] = "failed" /\ own'[o] = Nothing /\ fd'[o] = NoFd
  BY DEF AllocFails, HookFails, MtuFails, SocketFails, Throw, Goto, TypeOK
<1>2. \A f \in Fds : f \in All => files[f].by \in {o, NoObject}
  <2>1. ASSUME NEW f \in Fds, f \in All PROVE files[f].by \in {o, NoObject}
    <3>1. CASE Holds(o, f)
      BY <1>1, <3>1 DEF Mine, Accounted
    <3>2. CASE ~Holds(o, f)
      <4>1. f = fd[o] /\ pc[o] = "mtuerr"
        BY <2>1, <3>2 DEF Stored, Holds, Local, Slots
      <4> QED BY <4>1 DEF Free
    <3> QED BY <3>1, <3>2
  <2> QED BY <2>1
<1>3. PICK S \in SUBSET All : files' = Closed(S)
  <2>1. \/ files' = Closed(Stored(o)) \/ files' = Closed({fd[o]}) \/ files' = files
        \/ files' = Closed(Stored(o) \cup {fd[o]})
    BY DEF AllocFails, HookFails, MtuFails, SocketFails
  <2>2. files = Closed({})
    BY DEF Closed, TypeOK
  <2> QED BY <2>1, <2>2
<1> HIDE DEF All
<1>4. \A f \in Fds : f \in S => files[f].by \in {o, NoObject}
  BY <1>2
<1>5. /\ FreeIsFree' /\ FilesStay(o)
      /\ \A f \in Fds : files'[f] = IF f \in S THEN Free ELSE files[f]
  BY <1>3, <1>4, ClosedIsLocal
<1>6. Shape(o)'
  BY ShapeStep DEF Mine, Step
<1>7. Accounted(o)'
  BY <1>1, NoFdIsNone DEF Accounted
<1>8. RightKind(o)'
  BY <1>1, NoFdIsNone DEF RightKind, Slots
<1> QED BY <1>5, <1>6, <1>7, <1>8 DEF After, Mine

(* close() in read_mtu(): fd may stay behind, but its number is free.      *)
LEMMA StepClosesMtu ==
  ASSUME TypeOK, FreeIsFree, NEW o \in Objects, Mine(o),
         CloseMtu(o) \/ CloseMtuError(o)
  PROVE  After(o)
<1> DEFINE k == fd[o]
<1>1. /\ pc[o] = "closemtu" /\ pc'[o] \in {"socket4", "mtuerr"}
      /\ files' = Closed({k}) /\ UNCHANGED <<name, own, hooked>>
      /\ fd'[o] = IF pc'[o] = "mtuerr" THEN k ELSE NoFd
      /\ k \in Fds /\ k # NoFd /\ files[k].by = o
  <2>1. pc[o] = "closemtu" /\ k \in Fds /\ k # NoFd /\ files[k].by = o
    BY DEF Mine, CloseMtu, CloseMtuError, Goto, Shape, Accounted, Holds, Local, TypeOK
  <2>2. CASE CloseMtu(o)
    BY <2>1, <2>2 DEF CloseMtu, Goto, TypeOK
  <2>3. CASE CloseMtuError(o)
    BY <2>1, <2>3 DEF CloseMtuError, Goto, TypeOK
  <2> QED BY <2>1, <2>2, <2>3
<1>2. /\ FreeIsFree' /\ FilesStay(o)
      /\ \A f \in Fds : files'[f] = IF f = k THEN Free ELSE files[f]
  BY <1>1, ClosedIsLocal
<1>3. Shape(o)'
  BY ShapeStep DEF Mine, Step
<1>4. \A s \in Slots : own[o][s] # k
  BY <1>1 DEF Mine, Accounted
<1>5. Accounted(o)'
  <2>1. \A f \in Fds : files[f].by = o <=> f = k \/ \E s \in Slots : own[o][s] = f
    BY <1>1 DEF Mine, Accounted, Holds, Local
  <2>2. \A f \in Fds : files'[f].by = o <=> \E s \in Slots : own[o][s] = f
    BY <1>2, <1>4, <2>1, LifecycleAssumption DEF Free
  <2>3. \A f \in Fds : Holds(o, f)' <=> \E s \in Slots : own[o][s] = f
    BY <1>1, NoFdIsNone DEF Holds, Local
  <2>4. \A s, r \in Slots : own[o][s] = own[o][r] => s = r \/ own[o][s] = NoFd
    BY DEF Mine, Accounted
  <2>5. pc'[o] = "mtuerr" => files'[fd'[o]] = Free
    BY <1>1, <1>2
  <2>6. \A s \in Slots : own'[o][s] = fd'[o] => fd'[o] = NoFd
    BY <1>1, <1>4
  <2>7. own' = own /\ pc'[o] # "failed"
    BY <1>1
  <2> HIDE DEF k
  <2> QED BY <2>2, <2>3, <2>4, <2>5, <2>6, <2>7 DEF Accounted
<1>6. RightKind(o)'
  <2>1. \A s \in Slots : own[o][s] # NoFd => own[o][s] \in Fds \ {k}
    BY <1>4 DEF TypeOK
  <2> QED BY <1>1, <1>2, <2>1 DEF Mine, RightKind, Slots
<1> QED BY <1>2, <1>3, <1>5, <1>6 DEF After, Mine

(* The sockets for ioctl().                                                *)
LEMMA StepOpensSocket ==
  ASSUME TypeOK, FreeIsFree, NEW o \in Objects, Mine(o), Socket4(o) \/ Socket6(o)
  PROVE  After(o)
<1> DEFINE n == NewFd
<1>1. PICK slot \in {"v4", "v6"} :
        /\ Available # {}
        /\ files' = Opened(n, o, slot, NoName)
        /\ own' = [own EXCEPT ![o][slot] = n]
        /\ UNCHANGED <<name, fd, hooked, why>>
        /\ slot = "v4" => pc[o] = "socket4" /\ pc'[o] = "socket6"
        /\ slot = "v6" => pc[o] = "socket6" /\ pc'[o] = "id"
  BY DEF Socket4, Socket6, KernelSocket, Goto, TypeOK
<1>2. n \in Fds /\ files[n] = Free /\ files[n].by = NoObject /\ files[n].by # o
      /\ n # NoFd
  BY <1>1, NewFdIsFree, FreeIsNobodys, NoFdIsNone
<1>3. /\ files'[n] = [kind |-> slot, dev |-> NoName, by |-> o]
      /\ \A f \in Fds \ {n} : files'[f] = files[f]
  BY <1>1, <1>2 DEF Opened, TypeOK
<1>4. own'[o][slot] = n /\ \A s \in Slots \ {slot} : own'[o][s] = own[o][s]
  BY <1>1 DEF TypeOK, Slots
<1>5. own[o][slot] = NoFd /\ fd[o] = NoFd /\ fd'[o] = NoFd
  BY <1>1 DEF Mine, Shape, NoSockets
<1> HIDE DEF n
<1>6. FreeIsFree' /\ FilesStay(o)
  <2>1. files'[n].by = o /\ o # NoObject
    BY <1>3, LifecycleAssumption
  <2>2. FreeIsFree'
    BY <1>2, <1>3, <2>1 DEF FreeIsFree
  <2>3. FilesStay(o)
    BY <1>2, <1>3, <2>1 DEF FilesStay
  <2> QED BY <2>2, <2>3
<1>7. Shape(o)'
  BY ShapeStep DEF Mine, Step
<1>8. \A f \in Fds : files[f].by = o <=> \E s \in Slots : own[o][s] = f
  BY <1>1, <1>5, NoFdIsNone DEF Mine, Accounted, Holds, Local
<1>9. \A s \in Slots : own[o][s] # n
  BY <1>2, <1>8
<1>10. Accounted(o)'
  <2>1. \A f \in Fds : files'[f].by = o <=> f = n \/ \E s \in Slots : own[o][s] = f
    BY <1>2, <1>3, <1>8
  <2>2. \A f \in Fds : Holds(o, f)' <=> f = n \/ \E s \in Slots : own[o][s] = f
    BY <1>1, <1>4, <1>5, NoFdIsNone DEF Holds, Local, Slots
  <2>3. \A s, r \in Slots : own'[o][s] = own'[o][r] => s = r \/ own'[o][s] = NoFd
    BY <1>4, <1>9 DEF Mine, Accounted
  <2>4. pc'[o] \notin {"failed", "mtuerr"}
    BY <1>1
  <2> QED BY <1>5, <2>1, <2>2, <2>3, <2>4 DEF Accounted
<1>11. RightKind(o)'
  <2>1. \A s \in Slots : own[o][s] # NoFd => own[o][s] \in Fds \ {n}
    BY <1>9 DEF TypeOK
  <2>2. \A s \in {"rx", "tx"} : own'[o][s] = own[o][s]
    BY <1>1, <1>4 DEF Slots
  <2>3. \A s \in {"v4", "v6"} : own'[o][s] # NoFd => files'[own'[o][s]].kind = s
    BY <1>3, <1>4, <2>1 DEF Mine, RightKind, Slots
  <2> QED BY <1>1, <1>3, <2>1, <2>2, <2>3 DEF Mine, RightKind, Slots
<1> QED BY <1>6, <1>7, <1>10, <1>11 DEF After, Mine

(* The destructor closes one descriptor of its own.                        *)
LEMMA StepCloses ==
  ASSUME TypeOK, FreeIsFree, NEW o \in Objects, Mine(o), CloseNext(o)
  PROVE  After(o)
<1> DEFINE slot == NextToClose(o)
           k == own[o][slot]
<1>1. /\ pc[o] = "closing" /\ pc'[o] = IF slot = "v6" THEN "gone" ELSE "closing"
      /\ files' = Closed({k}) /\ own' = [own EXCEPT ![o][slot] = NoFd]
      /\ UNCHANGED <<name, fd, hooked, why>>
  BY DEF CloseNext, Goto, TypeOK
<1>2. /\ slot \in Slots /\ k # NoFd
      /\ slot = "v6" => \A s \in Slots \ {"v6"} : own[o][s] = NoFd
  BY <1>1, NextToCloseIsOpen DEF Mine, Shape
<1>3. /\ k \in Fds /\ fd[o] = NoFd
      /\ \A f \in Fds : files[f].by = o <=> \E s \in Slots : own[o][s] = f
  BY <1>1, <1>2, NoFdIsNone DEF Mine, Shape, Accounted, Holds, Local, TypeOK
<1>4. /\ FreeIsFree' /\ FilesStay(o)
      /\ \A f \in Fds : files'[f] = IF f = k THEN Free ELSE files[f]
  <2>1. files[k].by = o
    BY <1>2, <1>3
  <2>2. \A f \in Fds : f \in {k} => files[f].by \in {o, NoObject}
    BY <2>1
  <2>3. files' = Closed({k})
    BY <1>1
  <2> HIDE DEF k
  <2> QED BY <2>2, <2>3, ClosedIsLocal
<1>5. own'[o][slot] = NoFd /\ \A s \in Slots \ {slot} : own'[o][s] = own[o][s]
  BY <1>1, <1>2 DEF TypeOK
<1>7. \A s \in Slots : own[o][s] = k => s = slot
  BY <1>2 DEF Mine, Accounted
<1> HIDE DEF slot, k
<1>8. Shape(o)'
  BY ShapeStep DEF Mine, Step
<1>9. Accounted(o)'
  <2>1. \A f \in Fds : files'[f].by = o <=> f # k /\ \E s \in Slots : own[o][s] = f
    BY <1>3, <1>4, LifecycleAssumption DEF Free
  <2>2. \A f \in Fds : (\E s \in Slots : own'[o][s] = f)
                        <=> f # k /\ \E s \in Slots : own[o][s] = f
    BY <1>2, <1>5, <1>7, NoFdIsNone DEF k
  <2>3. \A f \in Fds : Holds(o, f)' <=> \E s \in Slots : own'[o][s] = f
    BY <1>1, <1>3, NoFdIsNone DEF Holds, Local
  <2>4. \A s, r \in Slots : own'[o][s] = own'[o][r] => s = r \/ own'[o][s] = NoFd
    BY <1>2, <1>5 DEF Mine, Accounted
  <2>5. pc'[o] \notin {"failed", "mtuerr"} /\ fd'[o] = NoFd
    BY <1>1, <1>3
  <2> QED BY <2>1, <2>2, <2>3, <2>4, <2>5 DEF Accounted
<1>10. RightKind(o)'
  <2>1. \A s \in Slots : own'[o][s] # NoFd =>
          own'[o][s] = own[o][s] /\ files'[own[o][s]] = files[own[o][s]]
    BY <1>4, <1>5, <1>7 DEF TypeOK
  <2> QED BY <1>1, <2>1 DEF Mine, RightKind, Slots
<1> QED BY <1>4, <1>8, <1>9, <1>10 DEF After, Mine

-----------------------------------------------------------------------------
(* A step of an object keeps what holds of the descriptors of all.         *)
LEMMA DescriptorsNext ==
  ASSUME TypeOK, OneAtATime, \A p \in Objects : Shape(p), Descriptors,
         NEW o \in Objects, Step(o), UNCHANGED threaded,
         pc[o] = "mtuerr" => files[fd[o]] = Free
  PROVE  Descriptors'
<1>1. FreeIsFree /\ Mine(o) /\ \A p \in Objects : Mine(p)
  BY DEF Descriptors, Mine
<1>2. After(o)
  <2>1. CASE \/ NameTooLong(o) \/ Construct(o) \/ Access(o) \/ ReadMtu(o)
             \/ SetId(o) \/ Bump(o) \/ Destroy(o)
    <3>1. UNCHANGED <<files, own, fd>>
      BY <2>1 DEF NameTooLong, Construct, Access, ReadMtu, SetId, Bump, Destroy
    <3> QED BY <1>1, <2>1, <3>1, StepKeepsFiles
  <2>2. CASE OpenTun(o) \/ OpenSocket(o) \/ OpenMtu(o)
    BY <1>1, <2>2, StepOpens
  <2>3. CASE SetIff(o) \/ BindSocket(o)
    BY <1>1, <2>3, StepKeeps
  <2>4. CASE AllocFails(o) \/ HookFails(o) \/ MtuFails(o) \/ SocketFails(o)
    BY <1>1, <2>4, StepThrows
  <2>5. CASE CloseMtu(o) \/ CloseMtuError(o)
    BY <1>1, <2>5, StepClosesMtu
  <2>6. CASE Socket4(o) \/ Socket6(o)
    BY <1>1, <2>6, StepOpensSocket
  <2>7. CASE CloseNext(o)
    BY <1>1, <2>7, StepCloses
  <2> QED BY <2>1, <2>2, <2>3, <2>4, <2>5, <2>6, <2>7 DEF Step
<1>3. ASSUME NEW p \in Objects \ {o} PROVE Mine(p)'
  BY <1>1, <1>2, OthersUndisturbed DEF After, Mine
<1>4. \A p \in Objects : Mine(p)'
  BY <1>2, <1>3 DEF After
<1>5. FreeIsFree'
  BY <1>2 DEF After
<1> QED BY <1>4, <1>5 DEF Mine, Descriptors

(* One thread: one constructor or destructor after the other.              *)
LEMMA OneAtATimeNext ==
  ASSUME TypeOK, OneAtATime, NEW o \in Objects, Step(o), UNCHANGED threaded
  PROVE  OneAtATime'
<1>1. ASSUME ~threaded, NEW p \in Objects, pc'[p] \notin Resting PROVE p = o
  <2>1. p # o => pc'[p] = pc[p] /\ pc[p] \in Resting
    BY <1>1, StepIsLocal, OthersRest DEF OthersStay
  <2> QED BY <1>1, <2>1
<1> QED BY <1>1 DEF OneAtATime, Resting

(* The ids: an object takes idseq, which then passes it.                   *)
LEMMA IdsNext ==
  ASSUME TypeOK, OneAtATime, \A p \in Objects : IdBelow(p) /\ IdNatural(p),
         AutoIdsDistinct, NEW o \in Objects, Step(o), UNCHANGED threaded
  PROVE  AutoIdsDistinct' /\ \A p \in Objects : IdBelow(p)' /\ IdNatural(p)'
<1> DEFINE Settled == {"live", "closing", "gone"}
<1>1. /\ \A p \in Objects \ {o} : pc'[p] = pc[p] /\ id'[p] = id[p]
      /\ id \in [Objects -> Int] /\ idseq \in Nat /\ GivenId[o] \in Int
  BY StepIsLocal, LifecycleAssumption DEF OthersStay, TypeOK
<1>2. /\ pc'[o] = "bump" =>
           idseq' = idseq /\ id'[o] = IF GivenId[o] < 0 THEN idseq ELSE GivenId[o]
      /\ pc'[o] = "live" =>
           /\ pc[o] = "bump" /\ id'[o] = id[o]
           /\ \/ idseq' = idseq + 1
              \/ idseq' = idseq /\ \E p \in Objects \ {o} : pc[p] = "bump"
      /\ pc'[o] \in {"closing", "gone"} =>
           pc[o] \in Settled /\ id'[o] = id[o] /\ idseq' = idseq
      /\ pc'[o] \notin {"bump", "live", "closing", "gone"} => idseq' = idseq
  <2> USE <1>1 DEF Enter, Goto, TypeOK, idVars
  <2>1. CASE NameTooLong(o) \/ Construct(o) \/ Access(o)
    BY <2>1 DEF NameTooLong, Construct, Access
  <2>2. CASE OpenTun(o) \/ OpenSocket(o) \/ OpenMtu(o)
    BY <2>2 DEF OpenTun, OpenSocket, OpenMtu, OpenLocal
  <2>3. CASE SetIff(o) \/ BindSocket(o)
    BY <2>3 DEF SetIff, BindSocket, KeepQueue
  <2>4. CASE AllocFails(o) \/ HookFails(o) \/ MtuFails(o) \/ SocketFails(o)
    BY <2>4 DEF AllocFails, HookFails, MtuFails, SocketFails, Throw
  <2>5. CASE ReadMtu(o) \/ CloseMtu(o) \/ CloseMtuError(o)
    BY <2>5 DEF ReadMtu, CloseMtu, CloseMtuError
  <2>6. CASE Socket4(o) \/ Socket6(o)
    BY <2>6 DEF Socket4, Socket6, KernelSocket
  <2>7. CASE SetId(o)
    BY <2>7 DEF SetId
  <2>8. CASE Bump(o)
    <3>1. pc[o] = "bump" /\ pc'[o] = "live" /\ id' = id
      BY <2>8 DEF Bump
    <3>2. \/ idseq' = idseq + 1
          \/ idseq' = idseq /\ \E p \in Objects \ {o} : pc[p] = "bump"
      BY <2>8, Zenon DEF Bump
    <3> QED BY <3>1, <3>2
  <2>9. CASE Destroy(o) \/ CloseNext(o)
    BY <2>9 DEF Destroy, CloseNext
  <2> QED BY <2>1, <2>2, <2>3, <2>4, <2>5, <2>6, <2>7, <2>8, <2>9 DEF Step
<1>3. ASSUME ~threaded PROVE \A p \in Objects \ {o} : pc[p] # "bump"
  BY <1>3, OthersRest DEF Resting
<1>4. \A p \in Objects : IdNatural(p)'
  BY <1>1, <1>2 DEF IdNatural
<1>5. idseq' \in Int /\ idseq' >= idseq
  <2>1. pc'[o] \in {"bump", "live", "closing", "gone"} \/ idseq' = idseq
    BY <1>2
  <2> QED BY <1>1, <1>2, <2>1
<1>6. \A p \in Objects : IdBelow(p)'
  <2>1. IdBelow(o)'
    BY <1>1, <1>2, <1>3 DEF IdBelow
  <2>2. ASSUME NEW p \in Objects \ {o} PROVE IdBelow(p)'
    BY <1>1, <1>3, <1>5 DEF IdBelow
  <2> QED BY <2>1, <2>2
<1>7. AutoIdsDistinct'
  <2> SUFFICES ASSUME ~threaded, NEW p \in Objects, NEW q \in Objects, p # q,
                      GivenId[p] < 0, GivenId[q] < 0,
                      pc'[p] \in Settled, pc'[q] \in Settled
               PROVE  id'[p] # id'[q]
    BY DEF AutoIdsDistinct
  <2>1. ASSUME NEW r \in Objects \ {o}, GivenId[o] < 0, GivenId[r] < 0,
               pc'[o] \in Settled, pc'[r] \in Settled
        PROVE  id'[o] # id'[r]
    <3>1. pc[r] \in Settled /\ id'[r] = id[r] /\ id'[o] = id[o]
      BY <2>1, <1>1, <1>2
    <3>2. CASE pc[o] = "bump"
      BY <2>1, <3>1, <3>2, <1>1 DEF IdBelow
    <3>3. CASE pc[o] \in Settled
      BY <2>1, <3>1, <3>3 DEF AutoIdsDistinct
    <3> QED BY <2>1, <3>2, <3>3, <1>2
  <2>2. CASE p # o /\ q # o
    BY <2>2, <1>1 DEF AutoIdsDistinct
  <2> QED BY <2>1, <2>2
<1> QED BY <1>4, <1>6, <1>7

(* The names: alloc_viface() makes an interface that was not there.        *)
LEMMA NamesNext ==
  ASSUME TypeOK, OneAtATime, \A p \in Objects : Shape(p), MadeApart,
         ~threaded => Descriptors,
         \A p \in Objects : NewName(p), NEW o \in Objects, Step(o), UNCHANGED threaded
  PROVE  MadeApart' /\ \A p \in Objects : NewName(p)'
<1>1. \A p \in Objects \ {o} :
        /\ pc'[p] = pc[p] /\ own'[p] = own[p] /\ hooked'[p] = hooked[p]
        /\ name'[p] = name[p]
  BY StepIsLocal DEF OthersStay
<1>2. CASE threaded
  BY <1>2 DEF MadeApart, NewName
<1>3. CASE ~threaded
  <2>1. Made(o)' => \/ Made(o) /\ name'[o] = name[o]
                    \/ ~Exists(name'[o])
    <3> USE DEF Enter, Goto, TypeOK, Made
    <3>1. CASE NameTooLong(o) \/ ReadMtu(o) \/ SetId(o) \/ Bump(o) \/ Destroy(o)
      BY <3>1 DEF NameTooLong, ReadMtu, SetId, Bump, Destroy
    <3>2. CASE Construct(o) \/ Access(o)
      <4>1. own'[o]["rx"] = NoFd
        BY <3>2, NoFdIsNone DEF Construct, Access, Shape, Slots
      <4> QED BY <4>1
    <3>3. CASE OpenTun(o) \/ OpenSocket(o) \/ OpenMtu(o)
      BY <3>3 DEF OpenTun, OpenSocket, OpenMtu, OpenLocal
    <3>4. CASE BindSocket(o)
      BY <3>4 DEF BindSocket, KeepQueue, Shape
    <3>5. CASE AllocFails(o) \/ HookFails(o) \/ MtuFails(o) \/ SocketFails(o)
      BY <3>5, NoFdIsNone DEF AllocFails, HookFails, MtuFails, SocketFails, Throw, Slots
    <3>6. CASE CloseMtu(o) \/ CloseMtuError(o)
      BY <3>6 DEF CloseMtu, CloseMtuError
    <3>7. CASE Socket4(o) \/ Socket6(o)
      BY <3>7 DEF Socket4, Socket6, KernelSocket, Slots
    <3>8. CASE CloseNext(o)
      <4>1. NextToClose(o) \in Slots
        BY <3>8, NextToCloseIsOpen DEF CloseNext, Shape
      <4>2. own'[o]["rx"] # NoFd => own[o]["rx"] # NoFd
        BY <3>8, <4>1 DEF CloseNext, Slots
      <4> QED BY <3>8, <4>2 DEF CloseNext
    <3>9. CASE SetIff(o)
      <4>1. PICK n \in Names :
              /\ IF name[o] = Pattern THEN n \in AutoNames /\ ~Exists(n) ELSE n = name[o]
              /\ name' = [name EXCEPT ![o] = n]
        BY <3>9 DEF SetIff
      <4>2. pc[o] = "setiff" /\ ~hooked[o]
        BY <3>9 DEF SetIff, KeepQueue, Shape
      <4>3. CASE own[o]["rx"] # NoFd
        BY <1>3, <4>1, <4>2, <4>3 DEF Descriptors, RightKind
      <4>4. CASE own[o]["rx"] = NoFd
        <5>1. ~Exists(name[o])
          BY <1>3, <4>2, <4>4 DEF NewName
        <5> QED BY <4>1, <5>1
      <4> QED BY <4>3, <4>4
    <3> QED BY <3>1, <3>2, <3>3, <3>4, <3>5, <3>6, <3>7, <3>8, <3>9 DEF Step
  <2>2. ASSUME NEW p \in Objects, Made(p) PROVE Exists(name[p])
    <3>1. /\ own[p]["rx"] \in Fds
          /\ files[own[p]["rx"]].dev = name[p] /\ files[own[p]["rx"]].kind = "queue"
      BY <1>3, <2>2 DEF Made, Descriptors, RightKind, TypeOK, Slots
    <3> QED BY <3>1 DEF Exists
  <2>3. ASSUME NEW p \in Objects \ {o}, Made(o)', Made(p)' PROVE name'[o] # name'[p]
    <3>1. Made(p) /\ name'[p] = name[p]
      BY <1>1, <2>3 DEF Made
    <3>2. CASE Made(o) /\ name'[o] = name[o]
      BY <1>3, <3>1, <3>2 DEF MadeApart
    <3>3. CASE ~Exists(name'[o])
      BY <2>2, <3>1, <3>3
    <3> QED BY <2>1, <2>3, <3>2, <3>3
  <2>4. MadeApart'
    <3>1. ASSUME NEW p \in Objects \ {o}, NEW q \in Objects \ {o}, p # q,
                 Made(p)', Made(q)'
          PROVE  name'[p] # name'[q]
      BY <1>1, <1>3, <3>1 DEF MadeApart, Made
    <3> QED BY <2>3, <3>1 DEF MadeApart
  <2>5. ASSUME NEW p \in Objects \ {o} PROVE NewName(p)'
    BY <1>1, <1>3, OthersRest DEF NewName, Resting
  <2>6. NewName(o)'
    <3> SUFFICES ASSUME pc'[o] \in {"opentun", "setiff"}, own'[o]["rx"] = NoFd
                 PROVE  ~Exists(name[o])'
      BY DEF NewName
    <3>1. Access(o) \/ OpenTun(o) \/ SetIff(o)
      BY DEF Step, NameTooLong, Construct, OpenSocket, OpenMtu, OpenLocal,
         BindSocket, KeepQueue, AllocFails, HookFails, MtuFails, SocketFails, Throw,
         ReadMtu, CloseMtu, CloseMtuError, Socket4, Socket6, KernelSocket, SetId, Bump,
         Destroy, CloseNext, Enter, Goto, TypeOK
    <3>2. CASE Access(o)
      <4>1. ~Exists(name[o]) /\ UNCHANGED <<files, name>>
        BY <3>2 DEF Access, Goto, TypeOK
      <4> QED BY <4>1 DEF Exists
    <3>3. CASE OpenTun(o)
      <4>1. /\ pc[o] = "opentun" /\ own[o]["rx"] = NoFd /\ UNCHANGED name
            /\ files' = Opened(NewFd, o, "tun", NoName) /\ NewFd \in Fds
        BY <3>3, NewFdIsFree DEF OpenTun, OpenLocal, Goto
      <4>2. \A f \in Fds : files'[f].kind = "queue" => files'[f] = files[f]
        BY <4>1 DEF Opened, TypeOK
      <4>3. ~Exists(name[o])
        BY <1>3, <4>1 DEF NewName
      <4> QED BY <4>1, <4>2, <4>3 DEF Exists
    <3>4. CASE SetIff(o)
      <4>1. own'[o]["rx"] # NoFd
        BY <3>4 DEF SetIff, KeepQueue, NextQueue, Goto, Shape, TypeOK, Slots
      <4> QED BY <4>1
    <3> QED BY <3>1, <3>2, <3>3, <3>4
  <2> QED BY <2>4, <2>5, <2>6
<1> QED BY <1>2, <1>3

-----------------------------------------------------------------------------
(* IInv is inductive.                                                      *)
LEMMA IInvInit == Init => IInv
<1> SUFFICES ASSUME Init PROVE IInv
  OBVIOUS
<1>1. TypeOK
  BY TypeInit
<1>2. \A o \in Objects : /\ pc[o] = "none" /\ own[o] = Nothing /\ fd[o] = NoFd
                         /\ hooked[o] = FALSE /\ why[o] = "none"
  BY DEF Init
<1>3. \A f \in Fds : files[f] = Free /\ files[f].by = NoObject
  BY DEF Init, Free
<1>4. OneAtATime /\ AutoIdsDistinct
  BY <1>2 DEF OneAtATime, AutoIdsDistinct, Resting
<1>5. ASSUME NEW o \in Objects
      PROVE  Shape(o) /\ IdBelow(o) /\ IdNatural(o) /\ NewName(o) /\ ~Made(o)
    <2>1. Shape(o)
      BY <1>2 DEF Shape
    <2>2. IdBelow(o) /\ IdNatural(o) /\ NewName(o)
      BY <1>2 DEF IdBelow, IdNatural, NewName
    <2> QED BY <1>2, <2>1, <2>2, NoFdIsNone DEF Made, Slots
<1>6. ASSUME NEW o \in Objects PROVE Accounted(o) /\ RightKind(o) /\ Kept(o)
  <2>1. Accounted(o)
    BY <1>2, <1>3, NoFdIsNone, LifecycleAssumption DEF Accounted, Holds, Local
  <2>2. RightKind(o)
    BY <1>2, NoFdIsNone DEF RightKind, Slots
  <2>3. Kept(o)
    BY <1>2, <1>3, LifecycleAssumption DEF Kept
  <2> QED BY <2>1, <2>2, <2>3
<1>7. MadeApart
  BY <1>5 DEF MadeApart
<1>8. FreeIsFree
  BY <1>3 DEF FreeIsFree
<1> QED BY <1>1, <1>3, <1>4, <1>5, <1>6, <1>7, <1>8 DEF IInv, Descriptors, Init

(* ... and every step, of an object or of the process, keeps it.            *)
LEMMA IInvNext == IInv /\ [Next]_vars => IInv'
<1> SUFFICES ASSUME IInv, [Next]_vars PROVE IInv'
  OBVIOUS
<1>1. TypeOK'
  BY TypeNext DEF IInv
<1>2. CASE UNCHANGED vars
  <2>1. OneAtATime' /\ AutoIdsDistinct'
    BY <1>2 DEF IInv, vars, OneAtATime, AutoIdsDistinct
  <2>2. MadeApart' /\ \A o \in Objects : NewName(o)' <=> NewName(o)
    BY <1>2 DEF IInv, vars, MadeApart, Made, NewName, Exists
  <2>3. \A o \in Objects : Shape(o)'
    BY <1>2 DEF IInv, vars, Shape, HasQueues, HasSockets, NoSockets
  <2>4. \A o \in Objects : IdBelow(o)' /\ IdNatural(o)'
    BY <1>2 DEF IInv, vars, IdBelow, IdNatural
  <2>5. FreeIsFree' <=> FreeIsFree
    BY <1>2 DEF vars, FreeIsFree
  <2>6. \A o \in Objects : Accounted(o)' <=> Accounted(o)
    BY <1>2 DEF vars, Accounted, Holds, Local
  <2>7. \A o \in Objects : RightKind(o)' <=> RightKind(o)
    BY <1>2 DEF vars, RightKind
  <2>8. \A o \in Objects : Kept(o)' <=> Kept(o)
    BY <1>2 DEF vars, Kept, Holds, Local
  <2>9. dead' = dead /\ files' = files /\ threaded' = threaded /\ misclosed' = misclosed
    BY <1>2 DEF vars
  <2>10. Descriptors' <=> Descriptors
    BY <2>5, <2>6, <2>7 DEF Descriptors
  <2> QED BY <1>1, <2>1, <2>2, <2>3, <2>4, <2>8, <2>9, <2>10 DEF IInv
<1>3. ASSUME NEW o \in Objects, Step(o), UNCHANGED threaded,
             misclosed' = (misclosed \/ Miscloses(o))
      PROVE  IInv'
  <2>1. ~dead /\ ~dead'
    BY <1>3, StepIsLocal DEF IInv
  <2>2. \A p \in Objects : Shape(p)' /\ Kept(p)'
    BY <1>3, <2>1, ShapeNext, KeptNext DEF IInv
  <2>3. ~misclosed' => ~misclosed /\ (pc[o] = "mtuerr" => files[fd[o]] = Free)
    BY <1>3 DEF Miscloses
  <2>4. ~misclosed' => Descriptors'
    BY <1>3, <2>1, <2>3, DescriptorsNext DEF IInv
  <2>5. ~threaded' => ~misclosed'
    <3>1. ~threaded => ~misclosed /\ Accounted(o)
      BY <2>1 DEF IInv, Descriptors
    <3> QED BY <1>3, <3>1 DEF Miscloses, Accounted
  <2>6. OneAtATime'
    BY <1>3, OneAtATimeNext DEF IInv
  <2>7. AutoIdsDistinct' /\ \A p \in Objects : IdBelow(p)' /\ IdNatural(p)'
    BY <1>3, IdsNext DEF IInv
  <2>8. MadeApart' /\ \A p \in Objects : NewName(p)'
    BY <1>3, <2>1, NamesNext DEF IInv
  <2> QED BY <1>1, <2>1, <2>2, <2>4, <2>5, <2>6, <2>7, <2>8 DEF IInv
<1>4. ASSUME NEW o \in Objects, CloseFails(o), UNCHANGED threaded,
             misclosed' = (misclosed \/ Miscloses(o))
      PROVE  IInv'
  <2>1. /\ dead' /\ UNCHANGED <<pc, name, fd, own, hooked, why, id, idseq, threaded>>
        /\ \A f \in Fds : files'[f] = Free
    BY <1>4 DEF CloseFails, idVars
  <2>2. OneAtATime' /\ AutoIdsDistinct' /\ MadeApart'
    BY <2>1 DEF IInv, OneAtATime, AutoIdsDistinct, MadeApart, Made
  <2>3. ASSUME NEW p \in Objects PROVE Shape(p)' /\ IdBelow(p)' /\ IdNatural(p)'
    BY <2>1 DEF IInv, Shape, HasQueues, HasSockets, NoSockets, IdBelow, IdNatural
  <2>4. ~threaded' => ~misclosed'
    <3>1. ~Miscloses(o)
      BY <1>4 DEF CloseFails, Miscloses
    <3> QED BY <1>4, <3>1 DEF IInv
  <2> QED BY <1>1, <2>1, <2>2, <2>3, <2>4 DEF IInv
<1> QED BY <1>2, <1>3, <1>4 DEF Next, Step

(* IInv holds of every reachable state.                                    *)
LEMMA Inductive == Spec => []IInv
  BY IInvInit, IInvNext, PTL DEF Spec

-----------------------------------------------------------------------------
(* The variables of a VIfaceImpl keep their types, and a live object has a *)
(* natural number as its id.                                               *)
THEOREM TypesOK == Spec => []TypeOK
<1>1. IInv => TypeOK
  BY DEF IInv
<1> QED BY <1>1, Inductive, PTL

(* A live VIface has its two queues and two sockets open, for itself, and  *)
(* the queues are those of the interface of its name, whatever constructors *)
(* failed, rolled back or were destroyed next to it - unless one of them   *)
(* was read_mtu(), its close() reported an error, and a thread was given   *)
(* the number before the rollback closed it again (misclosed).             *)
THEOREM DescriptorsOwned == Spec => []OwnsItsDescriptors
<1>1. IInv => OwnsItsDescriptors
  <2> SUFFICES ASSUME IInv, NEW o \in Objects, pc[o] = "live", ~dead, ~misclosed
               PROVE  /\ \A s \in Slots : own[o][s] # NoFd /\ files[own[o][s]].by = o
                      /\ own[o]["rx"] # own[o]["tx"]
                      /\ \A s \in {"rx", "tx"} :
                           /\ files[own[o][s]].dev = name[o]
                           /\ files[own[o][s]].kind =
                                IF hooked[o] THEN "packet" ELSE "queue"
                      /\ \A s \in {"v4", "v6"} : files[own[o][s]].kind = s
    BY DEF OwnsItsDescriptors
  <2>1. TypeOK /\ Shape(o) /\ Accounted(o) /\ RightKind(o)
    BY DEF IInv, Descriptors
  <2>2. \A s \in Slots : own[o][s] \in Fds /\ own[o][s] # NoFd
    BY <2>1 DEF TypeOK, Shape, HasQueues, HasSockets, Slots
  <2>3. \A s \in Slots : files[own[o][s]].by = o
    BY <2>1, <2>2 DEF Accounted, Holds
  <2>4. own[o]["rx"] # own[o]["tx"]
    BY <2>1, <2>2 DEF Accounted, Slots
  <2>5. \A s \in {"rx", "tx"} :
          /\ files[own[o][s]].dev = name[o]
          /\ files[own[o][s]].kind = IF hooked[o] THEN "packet" ELSE "queue"
    BY <2>1, <2>2 DEF RightKind, Slots
  <2>6. \A s \in {"v4", "v6"} : files[own[o][s]].kind = s
    BY <2>1, <2>2 DEF RightKind, Slots
  <2> QED BY <2>2, <2>3, <2>4, <2>5, <2>6
<1> QED BY <1>1, Inductive, PTL

(* ~VIfaceImpl(), the name check and the rollback of alloc_viface() leave  *)
(* no descriptor of the object open, even if it was closed by mistake.     *)
THEOREM NothingLeaks == Spec => []NoLeak
<1>1. IInv => NoLeak
  <2> SUFFICES ASSUME IInv, NEW o \in Objects, NEW f \in Fds,
                      \/ pc[o] = "gone"
                      \/ pc[o] = "failed" /\ why[o] \in {"argument", "alloc"}
               PROVE  files[f].by # o
    BY DEF NoLeak, OpenedBy
  <2>1. CASE dead
    BY <2>1, LifecycleAssumption DEF IInv, Free
  <2>2. CASE ~dead
    <3>1. Shape(o) /\ Kept(o)
      BY <2>2 DEF IInv
    <3>2. pc[o] = "gone" => ~Holds(o, f)
      BY <3>1, NoFdIsNone DEF Shape, Holds, Local
    <3> QED BY <3>1, <3>2 DEF Kept
  <2> QED BY <2>1, <2>2
<1> QED BY <1>1, Inductive, PTL

(* Two live objects that made their interface in one thread have two       *)
(* interfaces: the second would have hooked the first one's.               *)
THEOREM AllocIsExclusive == Spec => []AllocExclusive
<1>1. IInv => AllocExclusive
  BY DEF IInv, MadeApart, Made, Shape, HasQueues, AllocExclusive
<1> QED BY <1>1, Inductive, PTL

(* Objects constructed in one thread without an id have ids of their own:  *)
(* idseq counts every object that is complete, and none that failed.       *)
THEOREM AutoIdsAreDistinct == Spec => []AutoIdsDistinct
<1>1. IInv => AutoIdsDistinct
  BY DEF IInv
<1> QED BY <1>1, Inductive, PTL
=============================================================================
