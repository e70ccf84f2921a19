---------------------------- MODULE DispatchFair ----------------------------
(***************************************************************************)
(* How long can one busy interface keep another waiting, and how often can *)
(* a call with a timeout begin to wait anew?  Module Dispatch with two     *)
(* history variables.  bypassed[t][i][j] is how many packets of j thread t *)
(* took to the callback since interface i last started to wait for t.  An  *)
(* interface starts to wait when a packet reaches its empty queue, when t  *)
(* hands over one of its packets, or when t's call begins.  progress[t]    *)
(* tells if a packet left a queue of t's call since t last set its timeout. *)
(***************************************************************************)
EXTENDS Dispatch

VARIABLES bypassed, progress

fairVars == <<vars, bypassed, progress>>

NoBypass == [i \in Ifaces |-> [j \in Ifaces |-> 0]]

FInit ==
  /\ Init
  /\ bypassed = [t \in Threads |-> NoBypass]
  /\ progress = [t \in Threads |-> TRUE]

(* Thread t hands the packet that it read from j to the program.           *)
Hands(t, j) == pc[t] = "copy" /\ pc[t]' # "copy" /\ cur[t] = j

(* Interface i takes a new place in the line of thread t.                  *)
Rejoins(t, i) ==
  \/ ~Queued(i)          \* nothing of it waits
  \/ i \notin watch[t]   \* t does not wait for it
  \/ Hands(t, i)         \* t serves it
  \/ call[t] # call[t]'  \* a call of t begins or ends

Bypasses(t, i, j) == bypassed[t][i][j] + (IF Hands(t, j) THEN 1 ELSE 0)

(* The head of the loop in dispatch(), where the timeout is set.           *)
SetsTimeout(t) == pc[t] = "prepare" /\ pc[t]' = "select"

(* A packet was read from, or discarded by, an interface of t's call.      *)
PacketLeaves(t) == \E i \in watch[t] : taken[i]' # taken[i]

FNext ==
  /\ Next
  /\ bypassed' = [t \in Threads |-> [i \in Ifaces |-> [j \in Ifaces |->
       IF Rejoins(t, i) THEN 0 ELSE Bypasses(t, i, j)]]]
  /\ progress' = [t \in Threads |->
       \/ call[t] # call[t]' \/ PacketLeaves(t)
       \/ progress[t] /\ ~SetsTimeout(t)]

FSpec == FInit /\ [][FNext]_fairVars /\ \A t \in Threads : WF_vars(Step(t))

(* While i waits in a dispatch() call that goes on, the call serves any    *)
(* other interface at most twice: once in the round that was under way     *)
(* when i began to wait and once, if its descriptor is smaller, in the     *)
(* round that serves i.  A busy interface cannot starve a quiet one, not   *)
(* even if another thread takes packets of both.                           *)
BoundedBypass ==
  \A t \in Threads : \A i, j \in Ifaces : bypassed[t][i][j] <= 2

(* viface.cpp 1053: a dispatch() call sets its timeout anew in each round, *)
(* and so lasts longer than its caller asked for, but only at the price of *)
(* a packet: between two times at which it sets the timeout, a packet was  *)
(* read or discarded on one of its interfaces.  So n packets make it last  *)
(* n + 1 timeouts at most, and it never spins.                             *)
RoundsTakePackets == \A t \in Threads : pc[t] = "prepare" => progress[t]
=============================================================================
