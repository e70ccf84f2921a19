------------------------------ MODULE Delivery ------------------------------
(***************************************************************************)
(* What libviface promises the threads of a program about the packets that *)
(* reach its virtual interfaces, with no mention of select(), of file      *)
(* descriptors or of packet buffers.  viface.hpp documents dispatch() in   *)
(* lines 59-79 and receive() in lines 298-309; module Dispatch, translated *)
(* from viface.cpp, is shown to implement this module.                     *)
(*                                                                         *)
(* The packets of an interface are numbered 1, 2, 3, ... in the order in   *)
(* which they arrive.                                                      *)
(***************************************************************************)
EXTENDS Integers, Sequences, Functions

CONSTANTS Threads,   \* threads of the program that uses the library
          Ifaces     \* virtual interfaces

VARIABLES arrived,   \* arrived[i]: number of packets that reached i so far
          dropped,   \* dropped[i]: those the kernel discarded unread
          log,       \* log[i]: those handed to the program, in that order
          call,      \* call[t]: the library call thread t is in
          watch,     \* watch[t]: the interfaces given to that call
          timed,     \* timed[t]: was it given a timeout
          outcome    \* outcome[t]: how the last call of t ended

vars == <<arrived, dropped, log, call, watch, timed, outcome>>

Calls == {"none", "dispatch", "receive"}
Outcomes == {"none", "signal", "timeout", "stopped", "threw", "packet", "empty"}

(* Packets of i that are neither discarded nor handed to the program.      *)
Pending(i) == (1..arrived[i]) \ (Range(log[i]) \cup dropped[i])

Init ==
  /\ arrived = [i \in Ifaces |-> 0]
  /\ dropped = [i \in Ifaces |-> {}]
  /\ log = [i \in Ifaces |-> << >>]
  /\ call = [t \in Threads |-> "none"]
  /\ watch = [t \in Threads |-> {}]
  /\ timed = [t \in Threads |-> FALSE]
  /\ outcome = [t \in Threads |-> "none"]

Arrive(i) ==
  /\ arrived' = [arrived EXCEPT ![i] = @ + 1]
  /\ UNCHANGED <<dropped, log, call, watch, timed, outcome>>

Drop(i) ==
  /\ \E n \in Pending(i) : dropped' = [dropped EXCEPT ![i] = @ \cup {n}]
  /\ UNCHANGED <<arrived, log, call, watch, timed, outcome>>

Begin(t) ==
  /\ call[t] = "none"
  /\ \E c \in {"dispatch", "receive"}, S \in SUBSET Ifaces, timeout \in BOOLEAN :
       /\ call' = [call EXCEPT ![t] = c]
       /\ watch' = [watch EXCEPT ![t] = S]
       /\ timed' = [timed EXCEPT ![t] = timeout]
  /\ outcome' = [outcome EXCEPT ![t] = "none"]
  /\ UNCHANGED <<arrived, dropped, log>>

(* The oldest pending packet of i, and no other, goes to the program.      *)
HandOver(i) ==
  \E n \in Pending(i) :
    /\ \A m \in Pending(i) : n <= m
    /\ log' = [log EXCEPT ![i] = Append(@, n)]

(* A dispatch() call hands a packet to its callback and goes on.           *)
Dispatched(t, i) ==
  /\ call[t] = "dispatch"
  /\ i \in watch[t]
  /\ HandOver(i)
  /\ UNCHANGED <<arrived, dropped, call, watch, timed, outcome>>

EndCall(t, how) ==
  /\ call' = [call EXCEPT ![t] = "none"]
  /\ watch' = [watch EXCEPT ![t] = {}]
  /\ timed' = [timed EXCEPT ![t] = FALSE]
  /\ outcome' = [outcome EXCEPT ![t] = how]

(* A receive() call returns a packet.                                      *)
Received(t, i) ==
  /\ call[t] = "receive"
  /\ i \in watch[t]
  /\ HandOver(i)
  /\ EndCall(t, "packet")
  /\ UNCHANGED <<arrived, dropped>>

(* A call ends without a packet.  A timeout, and an empty result, are only *)
(* possible while no packet is pending on the interfaces of the call.      *)
End(t) ==
  /\ call[t] # "none"
  /\ \E how \in Outcomes \ {"none", "packet"} :
       /\ EndCall(t, how)
       /\ how \in {"signal", "stopped", "timeout"} => call[t] = "dispatch"
       /\ how = "empty" => call[t] = "receive"
       /\ how = "timeout" => timed[t]
       /\ how \in {"timeout", "empty"} => \A i \in watch[t] : Pending(i) = {}
  /\ UNCHANGED <<arrived, dropped, log>>

(* dispatch() refuses an empty set of interfaces.                          *)
Refuse(t) ==
  /\ call[t] = "none"
  /\ outcome' = [outcome EXCEPT ![t] = "threw"]
  /\ UNCHANGED <<arrived, dropped, log, call, watch, timed>>

Next ==
  \/ \E i \in Ifaces : Arrive(i) \/ Drop(i)
  \/ \E t \in Threads : Begin(t) \/ End(t) \/ Refuse(t)
  \/ \E t \in Threads, i \in Ifaces : Dispatched(t, i) \/ Received(t, i)

Safe == Init /\ [][Next]_vars

(* A pending packet does not wait forever while a dispatch() call of t     *)
(* watches its interface.                                                  *)
Fair(t) == \A i \in Ifaces : WF_vars(Dispatched(t, i))

Spec == Safe /\ \A t \in Threads : Fair(t)
=============================================================================
