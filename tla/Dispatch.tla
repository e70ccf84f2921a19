------------------------------ MODULE Dispatch ------------------------------
(***************************************************************************)
(* dispatch() and receive() of src/viface.cpp: threads of a program wait   *)
(* in select() for packets on sets of virtual interfaces, read one packet  *)
(* from every interface that is ready, and hand each to a callback.        *)
(*                                                                         *)
(* The kernel (packet queues, select(), read(), signals) is modelled from  *)
(* how that code uses it.  The n-th packet to reach the RX descriptor of   *)
(* interface i is the number n, and that descriptor's queue holds the      *)
(* packets taken[i]+1 .. arrived[i].  The program is any number of threads *)
(* that call dispatch() or receive() again and again, each on its own      *)
(* selection of interfaces; a callback runs between Copy and Callback.     *)
(***************************************************************************)
EXTENDS Integers, Sequences, FiniteSets, Functions

CONSTANTS
  Threads,     \* threads of the program
  Ifaces,      \* VIface objects
  Fd,          \* Fd[i]: the RX file descriptor of i (queues.rx)
  Hooked,      \* interfaces made by hook_viface: their sockets block in read()
  Lossy,       \* interfaces whose kernel queue may discard a packet unread
  Mine,        \* Mine[t]: interfaces that thread t passes to the library
  NoIface,     \* no interface is being read
  MaxPackets,  \* bound on the packets that reach one interface
  IoErrors     \* may select() and read() fail

ASSUME DispatchAssumption ==
  /\ IsFiniteSet(Ifaces)
  /\ Fd \in [Ifaces -> Nat]
  /\ \A i, j \in Ifaces : Fd[i] = Fd[j] => i = j
  /\ NoIface \notin Ifaces
  /\ Hooked \subseteq Ifaces
  /\ Lossy \subseteq Ifaces
  /\ Mine \in [Threads -> SUBSET Ifaces]
  /\ MaxPackets \in Nat
  /\ IoErrors \in BOOLEAN

(* No interface is read by two threads: the use that the examples make of  *)
(* the library, with one receiving thread per interface.                   *)
ExclusiveReaders ==
  \A t, u \in Threads : t # u => Mine[t] \cap Mine[u] = {}

VARIABLES
  arrived,     \* arrived[i]: packets that reached i
  taken,       \* taken[i]: packets that left the queue of i
  dropped,     \* dropped[i]: those that the kernel discarded
  pktbuff,     \* pktbuff[i]: packet in the buffer of i (0: none yet)
  log,         \* log[i]: packets of i handed to the program, in that order
  pc,          \* pc[t]: where thread t is
  call,        \* call[t]: the library function it is in
  watch,       \* watch[t]: the interfaces of the call (ifaces, reverse_id)
  timed,       \* timed[t]: tvp # NULL
  rfds,        \* rfds[t]: the descriptor set, less the entries already visited
  cur,         \* cur[t]: the interface being read, or NoIface
  signalled,   \* signalled[t]: a signal reached t during the call
  outcome      \* outcome[t]: how the last call ended

kernelVars == <<arrived, taken, dropped>>
callVars == <<call, watch, timed, signalled, outcome>>
vars == <<kernelVars, pktbuff, log, pc, rfds, cur, callVars>>

Queued(i) == taken[i] < arrived[i]

(* The last packet to leave the queue of i was discarded by the kernel.    *)
Discarded(i) == taken[i] \in dropped[i]

(* Thread t waits in a read() of a socket that blocks.                     *)
Frozen(t) == pc[t] = "read" /\ ~Queued(cur[t]) /\ cur[t] \in Hooked

(* A call ends, by a return or by an exception ("threw"): its local        *)
(* variables are gone.                                                     *)
EndCall(t, how) ==
  /\ pc' = [pc EXCEPT ![t] = "idle"]
  /\ call' = [call EXCEPT ![t] = "none"]
  /\ watch' = [watch EXCEPT ![t] = {}]
  /\ timed' = [timed EXCEPT ![t] = FALSE]
  /\ rfds' = [rfds EXCEPT ![t] = {}]
  /\ cur' = [cur EXCEPT ![t] = NoIface]
  /\ signalled' = [signalled EXCEPT ![t] = FALSE]
  /\ outcome' = [outcome EXCEPT ![t] = how]

Goto(t, label) ==
  /\ pc' = [pc EXCEPT ![t] = label]
  /\ UNCHANGED callVars

Init ==
  /\ arrived = [i \in Ifaces |-> 0]
  /\ taken = [i \in Ifaces |-> 0]
  /\ dropped = [i \in Ifaces |-> {}]
  /\ pktbuff = [i \in Ifaces |-> 0]
  /\ log = [i \in Ifaces |-> << >>]
  /\ pc = [t \in Threads |-> "idle"]
  /\ call = [t \in Threads |-> "none"]
  /\ watch = [t \in Threads |-> {}]
  /\ timed = [t \in Threads |-> FALSE]
  /\ rfds = [t \in Threads |-> {}]
  /\ cur = [t \in Threads |-> NoIface]
  /\ signalled = [t \in Threads |-> FALSE]
  /\ outcome = [t \in Threads |-> "none"]

-----------------------------------------------------------------------------
(* The kernel.                                                             *)

(* A packet is queued at the RX descriptor of i.                           *)
Arrive(i) ==
  /\ arrived[i] < MaxPackets
  /\ arrived' = [arrived EXCEPT ![i] = @ + 1]
  /\ UNCHANGED <<taken, dropped, pktbuff, log, pc, rfds, cur, callVars>>

(* The kernel discards the oldest packet of i, which it may already have   *)
(* reported as readable.                                                   *)
Drop(i) ==
  /\ i \in Lossy
  /\ Queued(i)
  /\ taken' = [taken EXCEPT ![i] = @ + 1]
  /\ dropped' = [dropped EXCEPT ![i] = @ \cup {taken[i] + 1}]
  /\ UNCHANGED <<arrived, pktbuff, log, pc, rfds, cur, callVars>>

(* EINTR: dispatch() returns when it comes from select(), and throws when  *)
(* it comes from a read() that waits.                                      *)
Interrupted(t) ==
  \/ pc[t] = "select" /\ EndCall(t, "signal")
  \/ Frozen(t) /\ EndCall(t, "threw")

(* Elsewhere, and in a read() that the kernel restarts after the handler   *)
(* (SA_RESTART, as signal() has it), the library learns nothing of it.     *)
Unnoticed(t) ==
  /\ pc[t] # "select"
  /\ signalled' = [signalled EXCEPT ![t] = TRUE]
  /\ UNCHANGED <<pc, rfds, cur, call, watch, timed, outcome>>

(* A signal handler runs in thread t.                                      *)
Signal(t) ==
  /\ call[t] # "none"
  /\ Interrupted(t) \/ Unnoticed(t)
  /\ UNCHANGED <<kernelVars, pktbuff, log>>

-----------------------------------------------------------------------------
(* dispatch().                                                             *)

BeginCall(t, c, S, timeout) ==
  /\ pc[t] = "idle"
  /\ call' = [call EXCEPT ![t] = c]
  /\ watch' = [watch EXCEPT ![t] = S]
  /\ timed' = [timed EXCEPT ![t] = timeout]
  /\ outcome' = [outcome EXCEPT ![t] = "none"]
  /\ UNCHANGED <<kernelVars, pktbuff, log, signalled>>

CallDispatch(t) ==
  /\ \E S \in (SUBSET Mine[t]) \ {{}}, timeout \in BOOLEAN :
       BeginCall(t, "dispatch", S, timeout)
  /\ pc' = [pc EXCEPT ![t] = "prepare"]
  /\ UNCHANGED <<rfds, cur>>

(* An empty set of interfaces is refused.                                  *)
CallDispatchEmpty(t) ==
  /\ pc[t] = "idle"
  /\ outcome' = [outcome EXCEPT ![t] = "threw"]
  /\ UNCHANGED <<kernelVars, pktbuff, log, pc, rfds, cur, call, watch, timed,
                 signalled>>

(* Mutant: nfds++ forgotten.                                               *)
nfdsNotIncremented(S) == CHOOSE m \in {Fd[i] : i \in S} : \A i \in S : Fd[i] <= m

(* First argument of select(): one more than the largest descriptor.       *)
nfds(S) == (CHOOSE m \in {Fd[i] : i \in S} : \A i \in S : Fd[i] <= m) + 1

(* The descriptors that select() looks at and finds readable.              *)
Readable(t) == {i \in rfds[t] : Fd[i] < nfds(watch[t]) /\ Queued(i)}

(* Mutant: FD_SET after the loop over the interfaces, not in it.           *)
PrepareLastOnly(t) ==
  /\ pc[t] = "prepare"
  /\ rfds' = [rfds EXCEPT ![t] = {CHOOSE i \in watch[t] : TRUE}]
  /\ Goto(t, "select")
  /\ UNCHANGED <<kernelVars, pktbuff, log, cur>>

(* FD_ZERO and FD_SET at the head of the loop.                             *)
Prepare(t) ==
  /\ pc[t] = "prepare"
  /\ rfds' = [rfds EXCEPT ![t] = watch[t]]
  /\ Goto(t, "select")
  /\ UNCHANGED <<kernelVars, pktbuff, log, cur>>

(* Mutant: every watched interface is read, whatever FD_ISSET says.        *)
SelectReturnsUnchecked(t) ==
  /\ pc[t] = "select"
  /\ Readable(t) # {}
  /\ Goto(t, "scan")
  /\ UNCHANGED <<kernelVars, pktbuff, log, rfds, cur>>

SelectReturns(t) ==
  /\ pc[t] = "select"
  /\ Readable(t) # {}
  /\ rfds' = [rfds EXCEPT ![t] = Readable(t)]
  /\ Goto(t, "scan")
  /\ UNCHANGED <<kernelVars, pktbuff, log, cur>>

(* Mutant: after a timeout the loop goes on.                               *)
TimesOutAndContinues(t) ==
  /\ pc[t] = "select"
  /\ timed[t]
  /\ Readable(t) = {}
  /\ Goto(t, "prepare")
  /\ UNCHANGED <<kernelVars, pktbuff, log, rfds, cur>>

(* select() returns 0: the timeout, set anew for this round, has expired.  *)
TimesOut(t) ==
  /\ pc[t] = "select"
  /\ timed[t]
  /\ Readable(t) = {}
  /\ EndCall(t, "timeout")
  /\ UNCHANGED <<kernelVars, pktbuff, log>>

SelectFails(t) ==
  /\ IoErrors
  /\ pc[t] = "select"
  /\ EndCall(t, "threw")
  /\ UNCHANGED <<kernelVars, pktbuff, log>>

(* Mutant: reverse_id[fd] for a number that is no descriptor of the call   *)
(* makes a null entry, and the scan visits it.                             *)
ScanNullEntry(t) ==
  /\ pc[t] = "scan"
  /\ \E i \in rfds[t] \cup {NoIface} :
       /\ rfds' = [rfds EXCEPT ![t] = @ \ {i}]
       /\ cur' = [cur EXCEPT ![t] = i]
  /\ Goto(t, "read")
  /\ UNCHANGED <<kernelVars, pktbuff, log>>

(* Mutant: after each packet the scan starts over at the lowest descriptor. *)
ScanStartsOver(t) ==
  /\ pc[t] = "scan"
  /\ \E i \in rfds[t] :
       /\ \A j \in rfds[t] : Fd[i] <= Fd[j]
       /\ cur' = [cur EXCEPT ![t] = i]
  /\ Goto(t, "read")
  /\ UNCHANGED <<kernelVars, pktbuff, log, rfds>>

(* The next entry of reverse_id, in descriptor order, that select() marked. *)
Scan(t) ==
  /\ pc[t] = "scan"
  /\ \E i \in rfds[t] :
       /\ \A j \in rfds[t] : Fd[i] <= Fd[j]
       /\ rfds' = [rfds EXCEPT ![t] = @ \ {i}]
       /\ cur' = [cur EXCEPT ![t] = i]
  /\ Goto(t, "read")
  /\ UNCHANGED <<kernelVars, pktbuff, log>>

(* The end of reverse_id: back to the head of the loop.                    *)
ScanEnds(t) ==
  /\ pc[t] = "scan"
  /\ rfds[t] = {}
  /\ Goto(t, "prepare")
  /\ UNCHANGED <<kernelVars, pktbuff, log, rfds, cur>>

(* The callback returns: false ends the call, true continues the scan.     *)
Callback(t) ==
  /\ pc[t] = "callback"
  /\ \/ /\ Goto(t, "scan")
        /\ UNCHANGED <<rfds, cur>>
     \/ EndCall(t, "stopped")
  /\ UNCHANGED <<kernelVars, pktbuff, log>>

-----------------------------------------------------------------------------
(* receive(), called by the program or by dispatch().                      *)

CallReceive(t) ==
  /\ \E i \in Mine[t] :
       /\ BeginCall(t, "receive", {i}, FALSE)
       /\ cur' = [cur EXCEPT ![t] = i]
  /\ pc' = [pc EXCEPT ![t] = "read"]
  /\ UNCHANGED rfds

(* Mutant: packets are read as long as there are any, all into the buffer. *)
ReadAll(t) ==
  /\ pc[t] = "read"
  /\ Queued(cur[t])
  /\ taken' = [taken EXCEPT ![cur[t]] = arrived[cur[t]]]
  /\ pktbuff' = [pktbuff EXCEPT ![cur[t]] = arrived[cur[t]]]
  /\ Goto(t, "copy")
  /\ UNCHANGED <<arrived, dropped, log, rfds, cur>>

(* read() fills the buffer of the interface.                               *)
Read(t) ==
  /\ pc[t] = "read"
  /\ Queued(cur[t])
  /\ taken' = [taken EXCEPT ![cur[t]] = @ + 1]
  /\ pktbuff' = [pktbuff EXCEPT ![cur[t]] = taken[cur[t]] + 1]
  /\ Goto(t, "copy")
  /\ UNCHANGED <<arrived, dropped, log, rfds, cur>>

(* receive() returns to dispatch(), which goes on at label, or to the      *)
(* program.                                                                *)
ReturnFromReceive(t, label, how) ==
  \/ /\ call[t] = "dispatch"
     /\ Goto(t, label)
     /\ cur' = [cur EXCEPT ![t] = NoIface]
     /\ UNCHANGED rfds
  \/ /\ call[t] = "receive"
     /\ EndCall(t, how)

(* Mutant: nread is not looked at, the old content of the buffer goes out. *)
ReadAgainUnchecked(t) ==
  /\ pc[t] = "read"
  /\ ~Queued(cur[t])
  /\ cur[t] \notin Hooked
  /\ Goto(t, "copy")
  /\ UNCHANGED <<kernelVars, pktbuff, log, rfds, cur>>

(* read() on the non-blocking TUN/TAP descriptor finds nothing: EAGAIN.    *)
(* On a socket of hook_viface, which is blocking, it waits instead.        *)
ReadAgain(t) ==
  /\ pc[t] = "read"
  /\ ~Queued(cur[t])
  /\ cur[t] \notin Hooked
  /\ ReturnFromReceive(t, "scan", "empty")
  /\ UNCHANGED <<kernelVars, pktbuff, log>>

ReadFails(t) ==
  /\ IoErrors
  /\ pc[t] = "read"
  /\ EndCall(t, "threw")
  /\ UNCHANGED <<kernelVars, pktbuff, log>>

(* The packet is copied out of the buffer and handed over: to the callback *)
(* of dispatch(), or to the caller of receive().                           *)
Copy(t) ==
  /\ pc[t] = "copy"
  /\ log' = [log EXCEPT ![cur[t]] = Append(@, pktbuff[cur[t]])]
  /\ ReturnFromReceive(t, "callback", "packet")
  /\ UNCHANGED <<kernelVars, pktbuff>>

-----------------------------------------------------------------------------
(* What thread t does of itself once a call is under way.                  *)
Step(t) ==
  \/ Prepare(t) \/ SelectReturns(t) \/ TimesOut(t) \/ Scan(t) \/ ScanEnds(t)
  \/ Read(t) \/ ReadAgain(t) \/ Copy(t) \/ Callback(t)

Next ==
  \/ \E i \in Ifaces : Arrive(i) \/ Drop(i)
  \/ \E t \in Threads :
       \/ CallDispatch(t) \/ CallDispatchEmpty(t) \/ CallReceive(t)
       \/ Signal(t) \/ SelectFails(t) \/ ReadFails(t)
       \/ Step(t)

Spec == Init /\ [][Next]_vars

(* A thread inside the library is scheduled, a running timer expires, and  *)
(* a callback returns.  Nothing is assumed of arrivals, signals, errors or *)
(* of the program calling again.                                           *)
FairSpec == Spec /\ \A t \in Threads : WF_vars(Step(t))

-----------------------------------------------------------------------------
(* Properties.                                                             *)

Labels == {"idle", "prepare", "select", "scan", "read", "copy", "callback"}
Calls == {"none", "dispatch", "receive"}
Outcomes == {"none", "signal", "timeout", "stopped", "threw", "packet", "empty"}

(* The values that the variables of dispatch() and receive() range over;   *)
(* what is read is always an interface of the call.                        *)
TypeOK ==
  /\ arrived \in [Ifaces -> Nat]
  /\ taken \in [Ifaces -> Nat]
  /\ dropped \in [Ifaces -> SUBSET Nat]
  /\ pktbuff \in [Ifaces -> Nat]
  /\ log \in [Ifaces -> Seq(Nat)]
  /\ pc \in [Threads -> Labels]
  /\ call \in [Threads -> Calls]
  /\ watch \in [Threads -> SUBSET Ifaces]
  /\ timed \in [Threads -> BOOLEAN]
  /\ rfds \in [Threads -> SUBSET Ifaces]
  /\ cur \in [Threads -> Ifaces \cup {NoIface}]
  /\ \A t \in Threads : pc[t] \in {"read", "copy"} => cur[t] \in watch[t]
  /\ signalled \in [Threads -> BOOLEAN]
  /\ outcome \in [Threads -> Outcomes]

(* Packets that a read() took and that are not yet copied to the program.  *)
InHand(i) == {pktbuff[i] : t \in {u \in Threads : pc[u] = "copy" /\ cur[u] = i}}

(* No packet reaches the program twice, and those of one interface reach   *)
(* it in the order of their arrival, whatever mix of dispatch() rounds,    *)
(* restarts after signals and timeouts, and direct receive() calls.        *)
InOrder ==
  \A i \in Ifaces : \A m, n \in 1..Len(log[i]) : m < n => log[i][m] < log[i][n]

(* A packet that left the kernel queue was discarded by the kernel, is in  *)
(* the program's hands, or is about to be: a dispatch() that returns while *)
(* other interfaces are ready, or throws, strands none.                    *)
NothingLost ==
  \A i \in Ifaces : 1..taken[i] = Range(log[i]) \cup dropped[i] \cup InHand(i)

(* viface.cpp 833-848: dispatch() does not freeze "for no apparent reason" *)
(* when the kernel reports a descriptor as readable that is not.  It does  *)
(* on the sockets of hook_viface(), which lack O_NONBLOCK (line 263).      *)
NeverFrozen == \A t \in Threads : call[t] = "dispatch" => ~Frozen(t)

(* That is the only reason: dispatch() waits in read() only if the kernel  *)
(* has discarded what was left in the queue that select() found readable.  *)
(* No order of scan, callbacks, signals and new rounds makes it read a     *)
(* blocking socket that it emptied itself.                                 *)
FrozenOnlyByDiscard ==
  \A t \in Threads : call[t] = "dispatch" /\ Frozen(t) => Discarded(cur[t])

(* A packet queued on an interface that a dispatch() call watches reaches  *)
(* the callback, unless the kernel discards it, the call ends first, or    *)
(* the thread is frozen for good in a read() of another interface.         *)
Served ==
  \A t \in Threads :
    \/ <>[]Frozen(t)
    \/ \A i \in Ifaces, n \in 1..MaxPackets :
         (call[t] = "dispatch" /\ i \in watch[t] /\ n <= arrived[i])
           ~> (n \in Range(log[i]) \cup dropped[i] \/ call[t] = "none")

(* viface.hpp 72-74: a dispatch() call ends when a signal is received.     *)
SignalEndsCall ==
  \A t \in Threads : (call[t] = "dispatch" /\ signalled[t]) ~> (call[t] = "none")

(* What a dispatch() or receive() call does for its caller is what module  *)
(* Delivery says: the oldest pending packet first, a timeout or an empty   *)
(* result only while nothing is pending, no packet left waiting forever.   *)
(* Its fairness is not owed to a thread that is frozen for good.           *)
Promise == INSTANCE Delivery WITH
  arrived <- arrived, dropped <- dropped, log <- log,
  call <- call, watch <- watch, timed <- timed, outcome <- outcome
Delivers ==
  Promise!Safe /\ \A t \in Threads : <>[]Frozen(t) \/ Promise!Fair(t)
=============================================================================
