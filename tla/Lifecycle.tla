------------------------------ MODULE Lifecycle ------------------------------
(***************************************************************************)
(* Construction and destruction of VIface objects (VIfaceImpl::VIfaceImpl, *)
(* ~VIfaceImpl, alloc_viface, hook_viface and read_mtu of src/viface.cpp): *)
(* which descriptors a program holds, and which interfaces exist, while    *)
(* constructors fail half way and destructors run.                         *)
(*                                                                         *)
(* The kernel is the descriptor table: open() and socket() return the      *)
(* lowest free number, and a TUN/TAP device exists as long as a descriptor *)
(* is attached to it.  What close() reports is left to chance; on Linux it *)
(* frees the number even when it reports an error.                         *)
(***************************************************************************)
EXTENDS Integers, FiniteSets

CONSTANTS
  Objects,       \* VIface objects of the program; each is constructed once
  Wants,         \* Wants[o]: the name given to its constructor
  GivenId,       \* GivenId[o]: the id given to it, negative for any
  Physical,      \* names of interfaces that are there without the library
  Pattern,       \* a name with the placeholder %d
  AutoNames,     \* names the kernel makes of Pattern
  TooLong,       \* names of IFNAMSIZ characters or more
  NoName, NoObject,
  MaxFd,         \* size of the descriptor table
  Parallel,      \* objects that threads construct and destroy at the same time
  IoErrors,      \* may open(), socket(), ioctl(), bind() and read() fail
  CloseErrors    \* may close() report an error

ASSUME LifecycleAssumption ==
  /\ GivenId \in [Objects -> Int]
  /\ MaxFd \in Nat \ {0}
  /\ Parallel \subseteq Objects /\ IoErrors \in BOOLEAN /\ CloseErrors \in BOOLEAN
  /\ NoObject \notin Objects
  /\ Pattern \notin Physical \cup AutoNames
  /\ NoName \notin Physical \cup AutoNames \cup {Pattern} \cup {Wants[o] : o \in Objects}

VARIABLES
  files,     \* files[f]: the open file behind descriptor f
  pc,        \* pc[o]: where the constructor or destructor of o is
  name,      \* name[o]: this->name (ifr_name while it is being allocated)
  fd,        \* fd[o]: the local variable fd of the helpers
  own,       \* own[o]: this->queues, kernel_socket, kernel_socket_ipv6
  hooked,    \* hooked[o]: was hook_viface() called
  why,       \* why[o]: the step of the constructor that threw
  id,        \* id[o]: this->id
  idseq,     \* VIfaceImpl::idseq
  dead,      \* std::terminate() was called
  threaded,  \* the program has threads: they use the objects of Parallel only
  misclosed  \* history: a rollback of read_mtu() closed the number of another

vars == <<files, pc, name, fd, own, hooked, why, id, idseq, dead, threaded, misclosed>>
idVars == <<id, idseq>>

Fds == 1..MaxFd
NoFd == 0
Slots == {"rx", "tx", "v4", "v6"}
Nothing == [s \in Slots |-> NoFd]
Free == [kind |-> "free", dev |-> NoName, by |-> NoObject]

Names == Physical \cup AutoNames \cup {Wants[o] : o \in Objects}

(* A network interface with name n exists.                                 *)
Exists(n) ==
  n \in Physical \/ \E f \in Fds : files[f].kind = "queue" /\ files[f].dev = n

Available == {f \in Fds : files[f] = Free}
NewFd == CHOOSE f \in Available : \A g \in Available : f <= g

Opened(f, o, kind, dev) ==
  [files EXCEPT ![f] = [kind |-> kind, dev |-> dev, by |-> o]]
Closed(S) == [f \in Fds |-> IF f \in S THEN Free ELSE files[f]]

Init ==
  /\ files = [f \in Fds |-> Free]
  /\ pc = [o \in Objects |-> "none"]
  /\ name = [o \in Objects |-> NoName]
  /\ fd = [o \in Objects |-> NoFd]
  /\ own = [o \in Objects |-> Nothing]
  /\ hooked = [o \in Objects |-> FALSE]
  /\ why = [o \in Objects |-> "none"]
  /\ id = [o \in Objects |-> -1]
  /\ idseq = 0
  /\ dead = FALSE
  /\ threaded \in (IF Parallel = {} THEN {FALSE} ELSE BOOLEAN)
  /\ misclosed = FALSE

Resting == {"none", "live", "failed", "gone"}

(* A thread of the program enters a constructor or destructor.             *)
Enter(o, from, to) ==
  /\ ~dead
  /\ pc[o] = from
  /\ IF threaded THEN o \in Parallel ELSE \A p \in Objects : pc[p] \in Resting
  /\ pc' = [pc EXCEPT ![o] = to]

Goto(o, from, to) ==
  /\ ~dead
  /\ pc[o] = from
  /\ pc' = [pc EXCEPT ![o] = to]

(* The constructor throws: the destructor does not run, and the descriptors *)
(* that the helpers returned or lost are not known to anybody.             *)
Throw(o, from, reason) ==
  /\ Goto(o, from, "failed")
  /\ why' = [why EXCEPT ![o] = reason]
  /\ own' = [own EXCEPT ![o] = Nothing]
  /\ fd' = [fd EXCEPT ![o] = NoFd]
  /\ UNCHANGED <<name, hooked, idVars, dead>>

-----------------------------------------------------------------------------
(* VIfaceImpl(): the name.                                                 *)

NameTooLong(o) ==
  /\ Wants[o] \in TooLong
  /\ Enter(o, "none", "failed")
  /\ why' = [why EXCEPT ![o] = "argument"]
  /\ UNCHANGED <<files, name, fd, own, hooked, idVars, dead>>

Construct(o) ==
  /\ Wants[o] \notin TooLong
  /\ Enter(o, "none", "access")
  /\ name' = [name EXCEPT ![o] = Wants[o]]
  /\ UNCHANGED <<files, fd, own, hooked, why, idVars, dead>>

(* Mutant: an interface that exists is not looked for.                     *)
AccessUnchecked(o) ==
  /\ Goto(o, "access", "opentun")
  /\ UNCHANGED <<files, name, fd, own, hooked, why, idVars, dead>>

(* access(): hook an interface that exists, allocate one that does not.    *)
Access(o) ==
  /\ Goto(o, "access", IF Exists(name[o]) THEN "socket" ELSE "opentun")
  /\ hooked' = [hooked EXCEPT ![o] = Exists(name[o])]
  /\ UNCHANGED <<files, name, fd, own, why, idVars, dead>>

-----------------------------------------------------------------------------
(* alloc_viface() and hook_viface() fill the queues in turn, rx first.     *)

NextQueue(o) == IF own[o]["rx"] = NoFd THEN "rx" ELSE "tx"

(* The numbers in fd and in queues mean whatever file is behind them now,  *)
(* which is another one, or none, once the number was closed by mistake.   *)
Kind(f) == IF f \in Fds THEN files[f].kind ELSE "free"

(* A descriptor is opened and becomes the local fd.                        *)
OpenLocal(o, from, kind, to) ==
  /\ Goto(o, from, to)
  /\ Available # {}
  /\ files' = Opened(NewFd, o, kind, NoName)
  /\ fd' = [fd EXCEPT ![o] = NewFd]
  /\ UNCHANGED <<name, own, hooked, why, idVars, dead>>

OpenFails == IoErrors \/ Available = {}

(* queues[i] = fd, and the next queue or what follows the loop.            *)
KeepQueue(o, from, again, done) ==
  /\ own' = [own EXCEPT ![o][NextQueue(o)] = fd[o]]
  /\ fd' = [fd EXCEPT ![o] = NoFd]
  /\ Goto(o, from, IF NextQueue(o) = "rx" THEN again ELSE done)
  /\ UNCHANGED <<hooked, why, idVars, dead>>

(* The queues stored before the one that failed.                           *)
Stored(o) == {own[o][s] : s \in {"rx", "tx"}} \ {NoFd}

OpenTun(o) == OpenLocal(o, "opentun", "tun", "setiff")

(* Mutant: ifr is made anew for each queue, with the name as given.        *)
SetIffAsGiven(o) ==
  /\ KeepQueue(o, "setiff", "opentun", "socket4")
  /\ Kind(fd[o]) = "tun"
  /\ \E n \in Names :
       /\ IF Wants[o] = Pattern THEN n \in AutoNames /\ ~Exists(n) ELSE n = Wants[o]
       /\ n \notin Physical
       /\ name' = [name EXCEPT ![o] = n]
       /\ files' = Opened(fd[o], files[fd[o]].by, "queue", n)

(* TUNSETIFF: the kernel makes the device, or adds a queue to a TUN/TAP    *)
(* device of that name, and writes the name it chose into ifr_name.        *)
SetIff(o) ==
  /\ KeepQueue(o, "setiff", "opentun", "socket4")
  /\ Kind(fd[o]) = "tun"
  /\ \E n \in Names :
       /\ IF name[o] = Pattern THEN n \in AutoNames /\ ~Exists(n) ELSE n = name[o]
       /\ n \notin Physical
       /\ name' = [name EXCEPT ![o] = n]
       /\ files' = Opened(fd[o], files[fd[o]].by, "queue", n)

(* Mutant: the rollback stops at queue 1.                                  *)
AllocFailsKeepsFirst(o) ==
  \/ /\ OpenFails
     /\ Throw(o, "opentun", "alloc")
     /\ UNCHANGED files
  \/ /\ IoErrors
     /\ Throw(o, "setiff", "alloc")
     /\ files' = Closed({fd[o]})

AllocFails(o) ==
  \/ /\ OpenFails
     /\ Throw(o, "opentun", "alloc")
     /\ files' = Closed(Stored(o))
  \/ /\ IoErrors \/ Kind(fd[o]) # "tun"
     /\ Throw(o, "setiff", "alloc")
     /\ files' = Closed(Stored(o) \cup {fd[o]})

OpenSocket(o) == OpenLocal(o, "socket", "packet", "bind")

(* SIOCGIFINDEX and bind(): the socket now hears the interface.            *)
BindSocket(o) ==
  /\ KeepQueue(o, "bind", "socket", "openmtu")
  /\ Exists(name[o]) /\ Kind(fd[o]) = "packet"
  /\ files' = Opened(fd[o], files[fd[o]].by, "packet", name[o])
  /\ UNCHANGED name

(* The sockets stored in the queues are closed.                            *)
HookFails(o) ==
  \/ /\ OpenFails
     /\ Throw(o, "socket", "hook")
     /\ files' = Closed(Stored(o))
  \/ /\ IoErrors \/ ~Exists(name[o]) \/ Kind(fd[o]) # "packet"
     /\ Throw(o, "bind", "hook")
     /\ files' = Closed(Stored(o))

-----------------------------------------------------------------------------
(* read_mtu().                                                             *)

OpenMtu(o) ==
  /\ Exists(name[o])
  /\ OpenLocal(o, "openmtu", "mtu", "readmtu")

ReadMtu(o) ==
  /\ Goto(o, "readmtu", "closemtu")
  /\ Kind(fd[o]) # "free"
  /\ UNCHANGED <<files, name, fd, own, hooked, why, idVars, dead>>

CloseMtu(o) ==
  /\ Goto(o, "closemtu", "socket4")
  /\ Kind(fd[o]) # "free"
  /\ files' = Closed({fd[o]})
  /\ fd' = [fd EXCEPT ![o] = NoFd]
  /\ UNCHANGED <<name, own, hooked, why, idVars, dead>>

(* close() reports an error: the number is free, and the rollback follows. *)
CloseMtuError(o) ==
  /\ Goto(o, "closemtu", "mtuerr")
  /\ CloseErrors \/ Kind(fd[o]) = "free"
  /\ files' = Closed({fd[o]})
  /\ UNCHANGED <<name, fd, own, hooked, why, idVars, dead>>

(* The rollback closes fd.  After a close() that failed that number may    *)
(* by now be another object's, if a thread opened a descriptor in between. *)
MtuFails(o) ==
  \/ /\ OpenFails \/ ~Exists(name[o])
     /\ Throw(o, "openmtu", "mtu")
     /\ UNCHANGED files
  \/ /\ IoErrors \/ Kind(fd[o]) # "mtu"
     /\ Throw(o, "readmtu", "mtu")
     /\ files' = Closed({fd[o]})
  \/ /\ Throw(o, "mtuerr", "mtu")
     /\ files' = Closed({fd[o]})

-----------------------------------------------------------------------------
(* VIfaceImpl(): the sockets for ioctl() and the id.                       *)

KernelSocket(o, from, slot, to) ==
  /\ Goto(o, from, to)
  /\ Available # {}
  /\ files' = Opened(NewFd, o, slot, NoName)
  /\ own' = [own EXCEPT ![o][slot] = NewFd]
  /\ UNCHANGED <<name, fd, hooked, why, idVars, dead>>

Socket4(o) == KernelSocket(o, "socket4", "v4", "socket6")
Socket6(o) == KernelSocket(o, "socket6", "v6", "id")

SocketFails(o) ==
  /\ OpenFails
  /\ Throw(o, "socket4", "socket") \/ Throw(o, "socket6", "socket")
  /\ UNCHANGED files

(* Mutant: the id is taken as given, negative or not.                      *)
SetIdAsGiven(o) ==
  /\ Goto(o, "id", "bump")
  /\ id' = [id EXCEPT ![o] = GivenId[o]]
  /\ UNCHANGED <<files, name, fd, own, hooked, why, idseq, dead>>

SetId(o) ==
  /\ Goto(o, "id", "bump")
  /\ id' = [id EXCEPT ![o] = IF GivenId[o] < 0 THEN idseq ELSE GivenId[o]]
  /\ UNCHANGED <<files, name, fd, own, hooked, why, idseq, dead>>

(* Mutant: only a given id counts.                                         *)
BumpForGiven(o) ==
  /\ Goto(o, "bump", "live")
  /\ idseq' = IF GivenId[o] < 0 THEN idseq ELSE idseq + 1
  /\ UNCHANGED <<files, name, fd, own, hooked, why, id, dead>>

(* idseq++, not atomic: of two threads in it, one may undo the other.      *)
Bump(o) ==
  /\ Goto(o, "bump", "live")
  /\ \/ idseq' = idseq + 1
     \/ /\ \E p \in Objects \ {o} : pc[p] = "bump"
        /\ UNCHANGED idseq
  /\ UNCHANGED <<files, name, fd, own, hooked, why, id, dead>>

-----------------------------------------------------------------------------
(* ~VIfaceImpl().                                                          *)

Destroy(o) ==
  /\ Enter(o, "live", "closing")
  /\ UNCHANGED <<files, name, fd, own, hooked, why, idVars, dead>>

CloseOrder == <<"rx", "tx", "v4", "v6">>
NextToClose(o) ==
  CloseOrder[CHOOSE k \in 1..4 : /\ own[o][CloseOrder[k]] # NoFd
                                 /\ \A j \in 1..(k - 1) : own[o][CloseOrder[j]] = NoFd]

(* One close() after the other, in this order, as long as they succeed.    *)
CloseNext(o) ==
  LET slot == NextToClose(o)
  IN  /\ Goto(o, "closing", IF slot = "v6" THEN "gone" ELSE "closing")
      /\ Kind(own[o][slot]) # "free"
      /\ files' = Closed({own[o][slot]})
      /\ own' = [own EXCEPT ![o][slot] = NoFd]
      /\ UNCHANGED <<name, fd, hooked, why, idVars, dead>>

(* A close() reports an error: the destructor, which is noexcept, throws,  *)
(* and the process ends.                                                   *)
CloseFails(o) ==
  /\ ~dead
  /\ pc[o] = "closing"
  /\ CloseErrors \/ Kind(own[o][NextToClose(o)]) = "free"
  /\ dead' = TRUE
  /\ files' = [f \in Fds |-> Free]
  /\ UNCHANGED <<pc, name, fd, own, hooked, why, idVars>>

-----------------------------------------------------------------------------
(* o is about to close, in the rollback of read_mtu(), a number that its   *)
(* first close() freed and that is in use again.                           *)
Miscloses(o) == pc[o] = "mtuerr" /\ files[fd[o]] # Free

Next ==
  /\ UNCHANGED threaded
  /\ \E o \in Objects :
      /\ \/ NameTooLong(o) \/ Construct(o) \/ Access(o)
         \/ OpenTun(o) \/ SetIff(o) \/ AllocFails(o)
         \/ OpenSocket(o) \/ BindSocket(o) \/ HookFails(o)
         \/ OpenMtu(o) \/ ReadMtu(o) \/ CloseMtu(o) \/ CloseMtuError(o) \/ MtuFails(o)
         \/ Socket4(o) \/ Socket6(o) \/ SocketFails(o) \/ SetId(o) \/ Bump(o)
         \/ Destroy(o) \/ CloseNext(o) \/ CloseFails(o)
      /\ misclosed' = (misclosed \/ Miscloses(o))

Spec == Init /\ [][Next]_vars

-----------------------------------------------------------------------------
(* Properties.                                                             *)

Labels == Resting \cup {"access", "opentun", "setiff", "socket", "bind", "openmtu",
  "readmtu", "closemtu", "mtuerr", "socket4", "socket6", "id", "bump", "closing"}
Kinds == {"free", "tun", "queue", "packet", "mtu", "v4", "v6"}
Reasons == {"none", "argument", "alloc", "hook", "mtu", "socket"}

(* The values that the variables range over; the id of an object is a uint. *)
TypeOK ==
  /\ files \in [Fds -> [kind : Kinds, dev : Names \cup {NoName},
                        by : Objects \cup {NoObject}]]
  /\ pc \in [Objects -> Labels]
  /\ name \in [Objects -> Names \cup {NoName}]
  /\ fd \in [Objects -> Fds \cup {NoFd}]
  /\ own \in [Objects -> [Slots -> Fds \cup {NoFd}]]
  /\ hooked \in [Objects -> BOOLEAN]
  /\ why \in [Objects -> Reasons]
  /\ id \in [Objects -> Int]
  /\ \A o \in Objects : pc[o] = "live" => id[o] >= 0
  /\ idseq \in Nat
  /\ dead \in BOOLEAN /\ threaded \in BOOLEAN /\ misclosed \in BOOLEAN

(* The four descriptors of a live object are open and its own, the two     *)
(* queues are those of one interface, and it has the object's name: no     *)
(* rollback or destructor of another object closed or replaced one.  There *)
(* is one that can: line 177 of viface.cpp closes once more the number     *)
(* that the close() in line 165 freed and reported an error of, which a    *)
(* thread may have been given in between.  The property is about programs  *)
(* in which that has not happened.                                         *)
OwnsItsDescriptors ==
  \A o \in Objects : pc[o] = "live" /\ ~dead /\ ~misclosed =>
    /\ \A s \in Slots : own[o][s] # NoFd /\ files[own[o][s]].by = o
    /\ own[o]["rx"] # own[o]["tx"]
    /\ \A s \in {"rx", "tx"} :
         /\ files[own[o][s]].dev = name[o]
         /\ files[own[o][s]].kind = IF hooked[o] THEN "packet" ELSE "queue"
    /\ \A s \in {"v4", "v6"} : files[own[o][s]].kind = s

(* What is open on behalf of an object.                                    *)
OpenedBy(o) == {f \in Fds : files[f].by = o}

(* The destructor, and a constructor that fails in alloc_viface(), leave   *)
(* no descriptor open, and so no TUN/TAP interface behind.                 *)
NoLeak ==
  \A o \in Objects :
    pc[o] = "gone" \/ (pc[o] = "failed" /\ why[o] \in {"argument", "alloc"})
      => OpenedBy(o) = {}

(* viface.cpp 311: hook_viface() that fails closes its descriptors.        *)
HookRollback ==
  \A o \in Objects : pc[o] = "failed" /\ why[o] = "hook" => OpenedBy(o) = {}

(* Two objects that made their interface, one after the other, did not     *)
(* make the same one: the second would have hooked the first one's.        *)
AllocExclusive ==
  ~threaded => \A o, p \in Objects :
    o # p /\ pc[o] = "live" /\ pc[p] = "live" /\ ~hooked[o] /\ ~hooked[p]
      => name[o] # name[p]

(* Objects that were constructed without an id, in one thread, have ids of *)
(* their own, whatever constructors failed or were given an id in between. *)
AutoIdsDistinct ==
  ~threaded => \A o, p \in Objects :
    /\ o # p
    /\ GivenId[o] < 0 /\ GivenId[p] < 0
    /\ pc[o] \in {"live", "closing", "gone"} /\ pc[p] \in {"live", "closing", "gone"}
    => id[o] # id[p]
=============================================================================
