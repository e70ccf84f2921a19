--------------------------- MODULE DispatchProofs ---------------------------
(***************************************************************************)
(* Theorems about module Dispatch, for any number of threads, interfaces   *)
(* and packets.                                                            *)
(***************************************************************************)
EXTENDS Dispatch, Minima, TLAPS

(* What a thread knows while it is in the library: it works on interfaces  *)
(* that are its own, and what it is about to read is not left to visit.    *)
CallOK ==
  \A t \in Threads :
    /\ watch[t] \subseteq Mine[t]
    /\ rfds[t] \subseteq watch[t]
    /\ pc[t] = "read" => cur[t] \notin rfds[t]
    /\ (pc[t] = "idle") <=> (call[t] = "none")
    /\ pc[t] \notin {"idle", "read", "copy"} => call[t] = "dispatch"
    /\ call[t] # "dispatch" => rfds[t] = {}

(* A packet in hand is newer than any packet that the program has.         *)
HandIsNewest ==
  \A t \in Threads : pc[t] = "copy" =>
    \A k \in DOMAIN log[cur[t]] : log[cur[t]][k] < pktbuff[cur[t]]

Ready(i) == Queued(i) \/ Discarded(i)

(* What select() reported readable, and is not read yet, is still queued   *)
(* or was discarded by the kernel.                                         *)
StillReady ==
  \A t \in Threads : call[t] = "dispatch" =>
    /\ pc[t] \in {"scan", "read", "copy", "callback"} =>
         \A i \in rfds[t] : Ready(i)
    /\ pc[t] = "read" => Ready(cur[t])

NotAhead == \A i \in Ifaces : taken[i] <= arrived[i]

-----------------------------------------------------------------------------
(* The packets of a log after one more.                                    *)
LEMMA AppendRange ==
  ASSUME NEW s \in Seq(Nat), NEW n \in Nat
  PROVE  /\ Append(s, n) \in Seq(Nat)
         /\ Range(Append(s, n)) = Range(s) \cup {n}
         /\ Len(Append(s, n)) = Len(s) + 1
         /\ \A k \in 1..Len(s) : Append(s, n)[k] = s[k]
         /\ Append(s, n)[Len(s) + 1] = n
<1> DEFINE a == Append(s, n)
<1>1. /\ a \in Seq(Nat)
      /\ Len(a) = Len(s) + 1
      /\ DOMAIN s = 1..Len(s)
      /\ DOMAIN a = 1..(Len(s) + 1)
      /\ Len(s) \in Nat
      /\ \A k \in 1..Len(s) : a[k] = s[k]
      /\ a[Len(s) + 1] = n
  OBVIOUS
<1>2. Range(a) = Range(s) \cup {n}
  <2>1. ASSUME NEW x \in Range(a) PROVE x \in Range(s) \cup {n}
    <3>1. PICK k \in 1..(Len(s) + 1) : x = a[k]
      BY <1>1, <2>1 DEF Range
    <3>2. CASE k = Len(s) + 1
      BY <1>1, <3>1, <3>2
    <3>3. CASE k \in 1..Len(s)
      BY <1>1, <3>1, <3>3 DEF Range
    <3> QED BY <1>1, <3>2, <3>3
  <2>2. ASSUME NEW x \in Range(s) \cup {n} PROVE x \in Range(a)
    <3>1. CASE x \in Range(s)
      <4>1. PICK k \in 1..Len(s) : x = s[k]
        BY <1>1, <3>1 DEF Range
      <4>2. k \in 1..(Len(s) + 1) /\ x = a[k]
        BY <1>1, <4>1
      <4> QED BY <1>1, <4>2 DEF Range
    <3>2. CASE x = n
      <4>1. Len(s) + 1 \in 1..(Len(s) + 1)
        BY <1>1
      <4> QED BY <1>1, <3>2, <4>1 DEF Range
    <3> QED BY <2>2, <3>1, <3>2
  <2> QED BY <2>1, <2>2
<1> QED BY <1>1, <1>2

-----------------------------------------------------------------------------
Control == TypeOK /\ CallOK

LEMMA ControlInit == Init => Control
  BY DispatchAssumption
     DEF Init, Control, TypeOK, CallOK, Labels, Calls, Outcomes
(* The end of a call keeps the control invariant, whatever ended it.       *)
LEMMA ControlEndCall ==
  ASSUME Control, NEW t \in Threads, NEW how \in Outcomes, EndCall(t, how),
         arrived' \in [Ifaces -> Nat], taken' \in [Ifaces -> Nat],
         dropped' \in [Ifaces -> SUBSET Nat], pktbuff' \in [Ifaces -> Nat],
         log' \in [Ifaces -> Seq(Nat)]
  PROVE  Control'
<1>1. TypeOK'
  BY DEF Control, TypeOK, EndCall, Labels, Calls
<1>2. CallOK'
  BY DEF Control, TypeOK, CallOK, EndCall, Labels, Calls
<1> QED BY <1>1, <1>2 DEF Control

LEMMA ControlNext == Control /\ [Next]_vars => Control'
<1> SUFFICES ASSUME Control, [Next]_vars PROVE Control'
  OBVIOUS
<1> USE DispatchAssumption
<1>1. ASSUME NEW i \in Ifaces, Arrive(i) PROVE Control'
  BY <1>1 DEF Arrive, callVars, Control, TypeOK, CallOK
<1>2. ASSUME NEW i \in Ifaces, Drop(i) PROVE Control'
  <2>1. taken' \in [Ifaces -> Nat] /\ dropped' \in [Ifaces -> SUBSET Nat]
    BY <1>2 DEF Drop, Control, TypeOK
  <2> QED BY <1>2, <2>1 DEF Drop, callVars, Control, TypeOK, CallOK
<1>3. ASSUME NEW t \in Threads, CallDispatch(t) PROVE Control'
  <2>1. PICK S \in SUBSET Mine[t], timeout \in BOOLEAN :
          BeginCall(t, "dispatch", S, timeout)
    BY <1>3 DEF CallDispatch
  <2>2. S \subseteq Ifaces
    BY <2>1
  <2> QED BY <1>3, <2>1, <2>2 DEF CallDispatch, BeginCall, kernelVars, Control,
            TypeOK, CallOK, Labels, Calls, Outcomes
<1>4. ASSUME NEW t \in Threads, CallDispatchEmpty(t) PROVE Control'
  BY <1>4 DEF CallDispatchEmpty, kernelVars, Control, TypeOK, CallOK, Outcomes
<1>5. ASSUME NEW t \in Threads, CallReceive(t) PROVE Control'
  <2>1. PICK i \in Mine[t] : /\ BeginCall(t, "receive", {i}, FALSE)
                             /\ cur' = [cur EXCEPT ![t] = i]
    BY <1>5 DEF CallReceive
  <2>2. i \in Ifaces
    BY <2>1
  <2> QED BY <1>5, <2>1, <2>2 DEF CallReceive, BeginCall, kernelVars, Control,
            TypeOK, CallOK, Labels, Calls, Outcomes
<1>6. ASSUME NEW t \in Threads, Signal(t) PROVE Control'
  <2>1. CASE Interrupted(t)
    BY <1>6, <2>1, ControlEndCall
       DEF Signal, Interrupted, kernelVars, Control, TypeOK, Outcomes
  <2>2. CASE Unnoticed(t)
    <3>1. /\ signalled' = [signalled EXCEPT ![t] = TRUE]
          /\ UNCHANGED <<arrived, taken, dropped, pktbuff, log, pc, rfds, cur, call,
                         watch, timed, outcome>>
      BY <1>6, <2>2 DEF Signal, Unnoticed, kernelVars
    <3>2. TypeOK'
      BY <3>1 DEF Control, TypeOK
    <3>3. CallOK'
      BY <3>1 DEF Control, CallOK
    <3> QED BY <3>2, <3>3 DEF Control
  <2> QED BY <1>6, <2>1, <2>2 DEF Signal
<1>7. ASSUME NEW t \in Threads, SelectFails(t) \/ ReadFails(t) \/ TimesOut(t)
      PROVE  Control'
  BY <1>7, ControlEndCall DEF SelectFails, ReadFails, TimesOut, kernelVars,
     Control, TypeOK, Outcomes
<1>8. ASSUME NEW t \in Threads, Prepare(t) PROVE Control'
  BY <1>8 DEF Prepare, Goto, kernelVars, callVars, Control, TypeOK, CallOK, Labels
<1>9. ASSUME NEW t \in Threads, SelectReturns(t) PROVE Control'
  BY <1>9 DEF SelectReturns, Readable, Goto, kernelVars, callVars, Control,
     TypeOK, CallOK, Labels
<1>10. ASSUME NEW t \in Threads, Scan(t) PROVE Control'
  <2>1. PICK i \in rfds[t] : /\ rfds' = [rfds EXCEPT ![t] = @ \ {i}]
                             /\ cur' = [cur EXCEPT ![t] = i]
    BY <1>10 DEF Scan
  <2>2. i \in Ifaces /\ i \in watch[t]
    BY <2>1 DEF Control, TypeOK, CallOK
  <2> QED BY <1>10, <2>1, <2>2 DEF Scan, Goto, kernelVars, callVars, Control,
            TypeOK, CallOK, Labels
<1>11. ASSUME NEW t \in Threads, ScanEnds(t) PROVE Control'
  BY <1>11 DEF ScanEnds, Goto, kernelVars, callVars, Control, TypeOK, CallOK, Labels
<1>12. ASSUME NEW t \in Threads, Callback(t) PROVE Control'
  <2>1. CASE Goto(t, "scan") /\ UNCHANGED <<rfds, cur>>
    BY <1>12, <2>1 DEF Callback, Goto, kernelVars, callVars, Control, TypeOK,
       CallOK, Labels
  <2>2. CASE EndCall(t, "stopped")
    BY <1>12, <2>2, ControlEndCall
       DEF Callback, kernelVars, Control, TypeOK, Outcomes
  <2> QED BY <1>12, <2>1, <2>2 DEF Callback
<1>13. ASSUME NEW t \in Threads, Read(t) PROVE Control'
  <2>1. cur[t] \in Ifaces
    BY <1>13 DEF Read, Control, TypeOK
  <2>2. taken' \in [Ifaces -> Nat] /\ pktbuff' \in [Ifaces -> Nat]
    BY <1>13, <2>1 DEF Read, Control, TypeOK
  <2> QED BY <1>13, <2>2 DEF Read, Goto, callVars, Control, TypeOK, CallOK, Labels
<1>14. ASSUME NEW t \in Threads, ReadAgain(t) PROVE Control'
  <2>1. CASE Goto(t, "scan") /\ UNCHANGED rfds
             /\ call[t] = "dispatch" /\ cur' = [cur EXCEPT ![t] = NoIface]
    BY <1>14, <2>1 DEF ReadAgain, Goto, kernelVars, callVars, Control, TypeOK,
       CallOK, Labels
  <2>2. CASE EndCall(t, "empty")
    BY <1>14, <2>2, ControlEndCall
       DEF ReadAgain, kernelVars, Control, TypeOK, Outcomes
  <2> QED BY <1>14, <2>1, <2>2 DEF ReadAgain, ReturnFromReceive
<1>15. ASSUME NEW t \in Threads, Copy(t) PROVE Control'
  <2>1. cur[t] \in Ifaces
    BY <1>15 DEF Copy, Control, TypeOK
  <2>2. Append(log[cur[t]], pktbuff[cur[t]]) \in Seq(Nat)
    BY <2>1, AppendRange DEF Control, TypeOK
  <2>3. log' \in [Ifaces -> Seq(Nat)]
    BY <1>15, <2>1, <2>2 DEF Copy, Control, TypeOK
  <2>4. CASE Goto(t, "callback") /\ UNCHANGED rfds
             /\ call[t] = "dispatch" /\ cur' = [cur EXCEPT ![t] = NoIface]
    BY <1>15, <2>3, <2>4 DEF Copy, Goto, kernelVars, callVars, Control, TypeOK,
       CallOK, Labels
  <2>5. CASE EndCall(t, "packet")
    BY <1>15, <2>3, <2>5, ControlEndCall
       DEF Copy, kernelVars, Control, TypeOK, Outcomes
  <2> QED BY <1>15, <2>4, <2>5 DEF Copy, ReturnFromReceive
<1>16. CASE UNCHANGED vars
  BY <1>16 DEF vars, kernelVars, callVars, Control, TypeOK, CallOK
<1> QED BY <1>1, <1>2, <1>3, <1>4, <1>5, <1>6, <1>7, <1>8, <1>9, <1>10, <1>11,
           <1>12, <1>13, <1>14, <1>15, <1>16 DEF Next, Step

(* The variables of every reachable state have the values that module      *)
(* Dispatch says they range over.                                          *)
THEOREM TypeCorrect == Spec => []TypeOK
<1>1. Spec => []Control
  BY ControlInit, ControlNext, PTL DEF Spec
<1>2. Control => TypeOK
  BY DEF Control
<1> QED BY <1>1, <1>2, PTL

-----------------------------------------------------------------------------
(* Every packet is accounted for, and the program has them in order.       *)
Books == NotAhead /\ NothingLost /\ InOrder /\ HandIsNewest

LEMMA BooksInit == Init => Books
<1> SUFFICES ASSUME Init PROVE Books
  OBVIOUS
<1>1. ASSUME NEW i \in Ifaces PROVE Range(log[i]) = {} /\ InHand(i) = {}
  BY DEF Init, InHand, Range
<1>2. NothingLost
  BY <1>1 DEF Init, NothingLost
<1>3. NotAhead /\ InOrder /\ HandIsNewest
  BY DEF Init, NotAhead, InOrder, HandIsNewest
<1> QED BY <1>2, <1>3 DEF Books

(* No other thread reads the interface that a thread reads.                *)
LEMMA SoleReader ==
  ASSUME ExclusiveReaders, Control, NEW t \in Threads, NEW u \in Threads,
         pc[t] \in {"read", "copy"}, pc[u] \in {"read", "copy"}, cur[t] = cur[u]
  PROVE  t = u
  BY DEF ExclusiveReaders, Control, TypeOK, CallOK

(* A step of a thread that neither reads a packet nor hands one over.      *)
LEMMA BooksQuiet ==
  ASSUME Control, Books, NEW t \in Threads, pc[t] # "copy", NEW l, l # "copy",
         pc' = [pc EXCEPT ![t] = l], NEW c, cur' = [cur EXCEPT ![t] = c],
         UNCHANGED <<kernelVars, pktbuff, log>>
  PROVE  Books'
<1>1. \A u \in Threads : pc'[u] = "copy" <=> pc[u] = "copy"
  BY DEF Control, TypeOK
<1>2. \A u \in Threads : pc[u] = "copy" => cur'[u] = cur[u]
  BY DEF Control, TypeOK
<1>3. UNCHANGED <<arrived, taken, dropped, pktbuff, log>>
  BY DEF kernelVars
<1>4. ASSUME NEW i \in Ifaces PROVE InHand(i)' = InHand(i)
  BY <1>1, <1>2, <1>3 DEF InHand
<1>5. NothingLost'
  BY <1>3, <1>4 DEF Books, NothingLost
<1>6. HandIsNewest'
  BY <1>1, <1>2, <1>3 DEF Books, HandIsNewest
<1>7. NotAhead' /\ InOrder'
  BY <1>3 DEF Books, NotAhead, InOrder
<1> QED BY <1>5, <1>6, <1>7 DEF Books

(* A packet arrives or is discarded.                                       *)
LEMMA BooksKernel ==
  ASSUME Control, Books, NEW i \in Ifaces, Arrive(i) \/ Drop(i)
  PROVE  Books'
<1> USE DEF Control, TypeOK
<1>1. UNCHANGED <<pktbuff, log, pc, cur>>
  BY DEF Arrive, Drop
<1>2. \A j \in Ifaces : InHand(j)' = InHand(j)
  BY <1>1 DEF InHand
<1>3. InOrder' /\ HandIsNewest'
  BY <1>1 DEF Books, InOrder, HandIsNewest
<1>4. NotAhead'
  <2>1. ASSUME NEW j \in Ifaces PROVE taken'[j] <= arrived'[j]
    <3>1. taken[j] <= arrived[j] /\ taken[j] \in Nat /\ arrived[j] \in Nat
      BY DEF Books, NotAhead
    <3>2. CASE Arrive(i)
      BY <3>1, <3>2 DEF Arrive
    <3>3. CASE Drop(i)
      BY <3>1, <3>3 DEF Drop, Queued
    <3> QED BY <3>2, <3>3
  <2> QED BY <2>1 DEF NotAhead
<1>5. CASE Arrive(i)
  BY <1>1, <1>2, <1>3, <1>4, <1>5 DEF Arrive, Books, NothingLost
<1>6. CASE Drop(i)
  <2>1. ASSUME NEW j \in Ifaces
        PROVE  1..taken'[j] = Range(log'[j]) \cup dropped'[j] \cup InHand(j)'
    <3>1. 1..taken[j] = Range(log[j]) \cup dropped[j] \cup InHand(j)
      BY DEF Books, NothingLost
    <3>2. CASE j = i
      <4>1. taken'[i] = taken[i] + 1 /\ dropped'[i] = dropped[i] \cup {taken[i] + 1}
        BY <1>6 DEF Drop
      <4>2. 1..(taken[i] + 1) = (1..taken[i]) \cup {taken[i] + 1}
        OBVIOUS
      <4> QED BY <1>1, <1>2, <3>1, <3>2, <4>1, <4>2
    <3>3. CASE j # i
      BY <1>1, <1>2, <1>6, <3>1, <3>3 DEF Drop
    <3> QED BY <3>2, <3>3
  <2> QED BY <1>3, <1>4, <2>1 DEF Books, NothingLost
<1> QED BY <1>5, <1>6

(* read() takes the oldest packet of the queue in hand.                    *)
LEMMA BooksRead ==
  ASSUME ExclusiveReaders, Control, Books, NEW t \in Threads, Read(t)
  PROVE  Books'
<1> DEFINE i == cur[t]
           n == taken[i] + 1
<1>1. /\ pc[t] = "read" /\ i \in Ifaces /\ taken[i] < arrived[i]
      /\ taken[i] \in Nat /\ arrived[i] \in Nat
      /\ taken' = [taken EXCEPT ![i] = n]
      /\ pktbuff' = [pktbuff EXCEPT ![i] = n]
      /\ pc' = [pc EXCEPT ![t] = "copy"]
      /\ UNCHANGED <<arrived, dropped, log, cur>>
  BY DEF Read, Queued, Goto, Control, TypeOK
<1>2. ASSUME NEW u \in Threads, u # t, pc[u] = "copy" PROVE cur[u] # i
  BY <1>1, <1>2, SoleReader
<1>3. \A u \in Threads : pc'[u] = "copy" <=> (u = t \/ pc[u] = "copy")
  BY <1>1 DEF Control, TypeOK
<1>4. NotAhead'
  BY <1>1 DEF Books, NotAhead, Control, TypeOK
<1>5. InOrder'
  BY <1>1 DEF Books, InOrder
<1>6. InHand(i) = {} /\ InHand(i)' = {n}
  <2>1. pktbuff'[i] = n
    BY <1>1 DEF Control, TypeOK
  <2> QED BY <1>1, <1>2, <1>3, <2>1 DEF InHand
<1>7. ASSUME NEW j \in Ifaces, j # i
      PROVE  InHand(j)' = InHand(j) /\ taken'[j] = taken[j]
  <2>1. pktbuff'[j] = pktbuff[j] /\ taken'[j] = taken[j]
    BY <1>1, <1>7 DEF Control, TypeOK
  <2> QED BY <1>1, <1>3, <1>7, <2>1 DEF InHand
<1>8. NothingLost'
  <2>1. ASSUME NEW j \in Ifaces
        PROVE  1..taken'[j] = Range(log'[j]) \cup dropped'[j] \cup InHand(j)'
    <3>1. 1..taken[j] = Range(log[j]) \cup dropped[j] \cup InHand(j)
      BY DEF Books, NothingLost
    <3>2. CASE j = i
      <4>1. taken'[i] = taken[i] + 1
        BY <1>1 DEF Control, TypeOK
      <4>2. 1..(taken[i] + 1) = (1..taken[i]) \cup {taken[i] + 1}
        BY <1>1
      <4> QED BY <1>1, <1>6, <3>1, <3>2, <4>1, <4>2
    <3>3. CASE j # i
      BY <1>1, <1>7, <3>1, <3>3
    <3> QED BY <3>2, <3>3
  <2> QED BY <2>1 DEF NothingLost
<1>9. HandIsNewest'
  <2> SUFFICES ASSUME NEW u \in Threads, pc'[u] = "copy",
                      NEW k \in DOMAIN log[cur[u]]
               PROVE  log[cur[u]][k] < pktbuff'[cur[u]]
    BY <1>1 DEF HandIsNewest
  <2>1. CASE u = t
    <3>1. log[i][k] \in Range(log[i])
      BY <2>1 DEF Range
    <3>2. log[i][k] \in 1..taken[i]
      BY <1>1, <3>1 DEF Books, NothingLost
    <3>3. pktbuff'[i] = n
      BY <1>1 DEF Control, TypeOK
    <3> QED BY <1>1, <2>1, <3>2, <3>3
  <2>2. CASE u # t
    <3>1. pc[u] = "copy" /\ cur[u] # i
      BY <1>2, <1>3, <2>2
    <3>2. cur[u] \in Ifaces
      BY <3>1 DEF Control, TypeOK
    <3>3. pktbuff'[cur[u]] = pktbuff[cur[u]]
      BY <1>1, <3>1, <3>2 DEF Control, TypeOK
    <3> QED BY <3>1, <3>3 DEF Books, HandIsNewest
  <2> QED BY <2>1, <2>2
<1> QED BY <1>4, <1>5, <1>8, <1>9 DEF Books

(* The packet in hand is appended to the log of its interface.             *)
LEMMA BooksCopy ==
  ASSUME ExclusiveReaders, Control, Books, NEW t \in Threads, Copy(t)
  PROVE  Books'
<1>0. PICK i \in Ifaces : i = cur[t]
  BY DEF Copy, Control, TypeOK
<1> DEFINE p == pktbuff[i]
<1>1. /\ pc[t] = "copy" /\ i = cur[t]
      /\ p \in Nat /\ log[i] \in Seq(Nat)
      /\ log' = [log EXCEPT ![i] = Append(log[i], p)]
      /\ UNCHANGED <<arrived, taken, dropped, pktbuff>>
  BY <1>0 DEF Copy, kernelVars, Control, TypeOK
<1>2. /\ \A u \in Threads : pc'[u] = "copy" <=> (u # t /\ pc[u] = "copy")
      /\ \A u \in Threads : u # t => cur'[u] = cur[u]
  BY <1>1 DEF Copy, ReturnFromReceive, Goto, EndCall, Control, TypeOK
<1>3. ASSUME NEW u \in Threads, u # t, pc[u] = "copy" PROVE cur[u] # i
  BY <1>1, <1>3, SoleReader
<1>4. NotAhead'
  BY <1>1 DEF Books, NotAhead
<1>5. log'[i] = Append(log[i], p) /\ \A j \in Ifaces \ {i} : log'[j] = log[j]
  BY <1>1 DEF Control, TypeOK
<1>6. InHand(i) = {p} /\ InHand(i)' = {}
  BY <1>1, <1>2, <1>3 DEF InHand
<1>7. \A j \in Ifaces \ {i} : InHand(j)' = InHand(j)
  BY <1>1, <1>2 DEF InHand
<1>8. NothingLost'
  <2>1. Range(log'[i]) = Range(log[i]) \cup {p}
    BY <1>1, <1>5, AppendRange
  <2>2. ASSUME NEW j \in Ifaces
        PROVE  1..taken'[j] = Range(log'[j]) \cup dropped'[j] \cup InHand(j)'
    <3>1. 1..taken[j] = Range(log[j]) \cup dropped[j] \cup InHand(j)
      BY DEF Books, NothingLost
    <3>2. CASE j = i
      BY <1>1, <1>6, <2>1, <3>1, <3>2
    <3>3. CASE j # i
      BY <1>1, <1>5, <1>7, <3>1, <3>3
    <3> QED BY <3>2, <3>3
  <2> QED BY <2>2 DEF NothingLost
<1>9. InOrder'
  <2> SUFFICES ASSUME NEW j \in Ifaces, NEW m \in 1..Len(log'[j]),
                      NEW n \in 1..Len(log'[j]), m < n
               PROVE  log'[j][m] < log'[j][n]
    BY DEF InOrder
  <2>1. CASE j = i
    <3>1. /\ Len(log[i]) \in Nat /\ DOMAIN log[i] = 1..Len(log[i])
          /\ Len(log'[i]) = Len(log[i]) + 1
          /\ \A k \in 1..Len(log[i]) : log'[i][k] = log[i][k]
          /\ log'[i][Len(log[i]) + 1] = p
      BY <1>1, <1>5, AppendRange
    <3>2. CASE n = Len(log[i]) + 1
      <4>1. m \in 1..Len(log[i])
        BY <2>1, <3>1, <3>2
      <4>2. log[i][m] < p
        BY <1>1, <3>1, <4>1 DEF Books, HandIsNewest
      <4> QED BY <2>1, <3>1, <3>2, <4>1, <4>2
    <3>3. CASE n # Len(log[i]) + 1
      <4>1. m \in 1..Len(log[i]) /\ n \in 1..Len(log[i])
        BY <2>1, <3>1, <3>3
      <4> QED BY <1>1, <2>1, <3>1, <4>1 DEF Books, InOrder
    <3> QED BY <3>2, <3>3
  <2>2. CASE j # i
    BY <1>5, <2>2 DEF Books, InOrder
  <2> QED BY <2>1, <2>2
<1>10. HandIsNewest'
  <2> SUFFICES ASSUME NEW u \in Threads, pc'[u] = "copy",
                      NEW k \in DOMAIN log'[cur'[u]]
               PROVE  log'[cur'[u]][k] < pktbuff'[cur'[u]]
    BY DEF HandIsNewest
  <2>1. u # t /\ pc[u] = "copy" /\ cur'[u] = cur[u] /\ cur[u] # i
    BY <1>2, <1>3
  <2>2. cur[u] \in Ifaces
    BY <2>1 DEF Control, TypeOK
  <2> QED BY <1>1, <1>5, <2>1, <2>2 DEF Books, HandIsNewest
<1> QED BY <1>4, <1>8, <1>9, <1>10 DEF Books

(* With one reader per interface, the books stay right.                    *)
LEMMA BooksNext ==
  ASSUME ExclusiveReaders, Control, Books, [Next]_vars
  PROVE  Books'
<1>1. ASSUME NEW i \in Ifaces, Arrive(i) \/ Drop(i) PROVE Books'
  BY <1>1, BooksKernel
<1>2. ASSUME NEW t \in Threads, Read(t) PROVE Books'
  BY <1>2, BooksRead
<1>3. ASSUME NEW t \in Threads, Copy(t) PROVE Books'
  BY <1>3, BooksCopy
<1>4. ASSUME NEW t \in Threads,
             \/ CallDispatch(t) \/ CallDispatchEmpty(t) \/ CallReceive(t)
             \/ Prepare(t) \/ SelectReturns(t) \/ Scan(t) \/ ScanEnds(t)
      PROVE  Books'
  <2>1. pc[t] # "copy" /\ UNCHANGED <<kernelVars, pktbuff, log>>
    BY <1>4 DEF CallDispatch, CallDispatchEmpty, CallReceive, BeginCall,
       Prepare, SelectReturns, Scan, ScanEnds
  <2>2. \E l \in Labels \ {"copy"} : pc' = [pc EXCEPT ![t] = l]
    BY <1>4 DEF CallDispatch, CallDispatchEmpty, CallReceive, BeginCall,
       Prepare, SelectReturns, Scan, ScanEnds, Goto, Labels, Control, TypeOK
  <2>3. \E c : cur' = [cur EXCEPT ![t] = c]
    BY <1>4 DEF CallDispatch, CallDispatchEmpty, CallReceive, BeginCall,
       Prepare, SelectReturns, Scan, ScanEnds, Control, TypeOK
  <2> QED BY <2>1, <2>2, <2>3, BooksQuiet
<1>5. ASSUME NEW t \in Threads,
             \/ Signal(t) \/ SelectFails(t) \/ ReadFails(t) \/ TimesOut(t)
             \/ ReadAgain(t) \/ Callback(t)
      PROVE  Books'
  <2>1. UNCHANGED <<kernelVars, pktbuff, log>>
    BY <1>5 DEF Signal, SelectFails, ReadFails, TimesOut, ReadAgain, Callback
  <2>2. CASE UNCHANGED <<pc, cur>>
    BY <2>1, <2>2 DEF kernelVars, Books, NotAhead, NothingLost, InHand, InOrder,
       HandIsNewest
  <2>3. CASE ~UNCHANGED <<pc, cur>>
    <3>1. pc[t] # "copy"
      BY <1>5, <2>3 DEF Signal, Interrupted, Unnoticed, Frozen, SelectFails,
         ReadFails, TimesOut, ReadAgain, Callback
    <3>2. \E l \in Labels \ {"copy"} : pc' = [pc EXCEPT ![t] = l]
      BY <1>5, <2>3 DEF Signal, Interrupted, Unnoticed, SelectFails, ReadFails,
         TimesOut, ReadAgain, Callback, ReturnFromReceive, EndCall, Goto, Labels
    <3>3. \E c : cur' = [cur EXCEPT ![t] = c]
      BY <1>5, <2>3 DEF Signal, Interrupted, Unnoticed, SelectFails, ReadFails,
         TimesOut, ReadAgain, Callback, ReturnFromReceive, EndCall, Control, TypeOK
    <3> QED BY <2>1, <3>1, <3>2, <3>3, BooksQuiet
  <2> QED BY <2>2, <2>3
<1>6. CASE UNCHANGED vars
  BY <1>6 DEF vars, kernelVars, Books, NotAhead, NothingLost, InHand, InOrder,
     HandIsNewest
<1> QED BY <1>1, <1>2, <1>3, <1>4, <1>5, <1>6 DEF Next, Step

(* While no interface has two readers, no packet is lost between the       *)
(* kernel and the program.                                                 *)
THEOREM NoPacketLost == ASSUME ExclusiveReaders PROVE Spec => []NothingLost
<1>1. Init => Control /\ Books
  BY ControlInit, BooksInit
<1>2. Control /\ Books /\ [Next]_vars => (Control /\ Books)'
  BY ControlNext, BooksNext
<1>3. Control /\ Books => NothingLost
  BY DEF Books
<1> QED BY <1>1, <1>2, <1>3, PTL DEF Spec

(* ... nor handed over twice or out of order.                              *)
THEOREM OrderKept == ASSUME ExclusiveReaders PROVE Spec => []InOrder
<1>1. Init => Control /\ Books
  BY ControlInit, BooksInit
<1>2. Control /\ Books /\ [Next]_vars => (Control /\ Books)'
  BY ControlNext, BooksNext
<1>3. Control /\ Books => InOrder
  BY DEF Books
<1> QED BY <1>1, <1>2, <1>3, PTL DEF Spec

-----------------------------------------------------------------------------
LEMMA ReadyInit == Init => StillReady
  BY DEF Init, StillReady

(* A step of thread t that leaves the queues as they are.                  *)
LEMMA ReadyStep ==
  ASSUME Control, StillReady, NEW t \in Threads,
         \/ CallDispatch(t) \/ CallDispatchEmpty(t) \/ CallReceive(t)
         \/ Signal(t) \/ SelectFails(t) \/ ReadFails(t) \/ Prepare(t)
         \/ SelectReturns(t) \/ TimesOut(t) \/ Scan(t) \/ ScanEnds(t)
         \/ ReadAgain(t) \/ Copy(t) \/ Callback(t)
  PROVE  StillReady'
<1>1. UNCHANGED <<arrived, taken, dropped>>
  BY DEF CallDispatch, CallDispatchEmpty, CallReceive, BeginCall, Signal,
     SelectFails, ReadFails, Prepare, SelectReturns, TimesOut, Scan, ScanEnds,
     ReadAgain, Copy, Callback, kernelVars
<1>3. ASSUME NEW u \in Threads, u # t
      PROVE  /\ pc'[u] = pc[u] /\ call'[u] = call[u] /\ rfds'[u] = rfds[u]
             /\ cur'[u] = cur[u]
  BY <1>3 DEF CallDispatch, CallDispatchEmpty, CallReceive, BeginCall, Signal,
     Interrupted, Unnoticed, SelectFails, ReadFails, Prepare, SelectReturns, TimesOut,
     Scan, ScanEnds, ReadAgain, ReturnFromReceive, Copy, Callback, Goto, EndCall, callVars,
     Control, TypeOK
<1>4. ASSUME call'[t] = "dispatch", pc'[t] \in {"scan", "read", "copy", "callback"}
      PROVE  \A i \in rfds'[t] : Ready(i)
  <2>1. CASE SelectReturns(t)
    BY <2>1 DEF SelectReturns, Readable, Ready, Control, TypeOK
  <2>2. CASE Scan(t) \/ ScanEnds(t) \/ ReadAgain(t) \/ Copy(t) \/ Callback(t)
             \/ Signal(t)
    <3>1. rfds'[t] \subseteq rfds[t]
      BY <2>2 DEF Scan, ScanEnds, ReadAgain, ReturnFromReceive, Copy, Callback,
         Signal, Interrupted, Unnoticed, Goto, EndCall, Control, TypeOK
    <3>2. call[t] = "dispatch" /\ pc[t] \in {"scan", "read", "copy", "callback"}
      <4>1. CASE Scan(t) \/ ScanEnds(t)
        BY <1>4, <4>1 DEF Scan, ScanEnds, Goto, callVars
      <4>2. CASE ReadAgain(t) \/ Copy(t)
        BY <1>4, <4>2 DEF ReadAgain, Copy, ReturnFromReceive, Goto, EndCall, Control,
           TypeOK
      <4>3. CASE Callback(t) \/ Signal(t)
        BY <1>4, <2>2, <4>3 DEF Callback, Signal, Interrupted, Unnoticed, Goto,
           EndCall, callVars, Control, TypeOK, CallOK, Labels
      <4> QED BY <2>2, <4>1, <4>2, <4>3
    <3> QED BY <3>1, <3>2 DEF StillReady
  <2>3. CASE \/ CallDispatch(t) \/ CallDispatchEmpty(t) \/ CallReceive(t)
             \/ SelectFails(t) \/ ReadFails(t) \/ Prepare(t) \/ TimesOut(t)
    BY <1>4, <2>3 DEF CallDispatch, CallDispatchEmpty, CallReceive, BeginCall,
       SelectFails, ReadFails, Prepare, TimesOut, Goto, EndCall, Control, TypeOK
  <2> QED BY <2>1, <2>2, <2>3
<1>5. ASSUME call'[t] = "dispatch", pc'[t] = "read"
      PROVE  Ready(cur'[t])
  <2>1. CASE Scan(t)
    <3>1. PICK i \in rfds[t] : cur' = [cur EXCEPT ![t] = i]
      BY <2>1 DEF Scan
    <3>2. cur'[t] \in rfds[t]
      BY <1>5, <3>1 DEF Control, TypeOK
    <3>3. call[t] = "dispatch" /\ pc[t] = "scan"
      BY <1>5, <2>1 DEF Scan, Goto, callVars
    <3> QED BY <3>2, <3>3 DEF StillReady
  <2>2. CASE Signal(t)
    <3>1. pc[t] = "read" /\ cur'[t] = cur[t] /\ call[t] = "dispatch"
      BY <1>5, <2>2 DEF Signal, Interrupted, Unnoticed, EndCall, Control, TypeOK
    <3> QED BY <1>5, <3>1 DEF StillReady
  <2>3. CASE ~Scan(t) /\ ~Signal(t)
    BY <1>5, <2>3 DEF CallDispatch, CallDispatchEmpty, CallReceive, BeginCall,
       SelectFails, ReadFails, Prepare, SelectReturns, TimesOut, ScanEnds,
       ReadAgain, ReturnFromReceive, Copy, Callback, Goto, EndCall, Control, TypeOK
  <2> QED BY <2>1, <2>2, <2>3
<1>6. ASSUME NEW u \in Threads, call'[u] = "dispatch"
      PROVE  /\ pc'[u] \in {"scan", "read", "copy", "callback"} =>
                  \A i \in rfds'[u] : Ready(i)
             /\ pc'[u] = "read" => Ready(cur'[u])
  <2>1. CASE u = t
    BY <1>4, <1>5, <1>6, <2>1
  <2>2. CASE u # t
    BY <1>3, <1>6, <2>2 DEF StillReady
  <2> QED BY <2>1, <2>2
<1> QED BY <1>1, <1>6 DEF StillReady, Ready, Queued, Discarded

(* read() of thread t shortens one queue, which nobody else relies on.     *)
LEMMA ReadyRead ==
  ASSUME ExclusiveReaders, Control, StillReady, NEW t \in Threads, Read(t)
  PROVE  StillReady'
<1>0. PICK c \in Ifaces : c = cur[t]
  BY DEF Read, Control, TypeOK
<1>1. /\ c \in watch[t] /\ c \notin rfds[t] /\ pc[t] = "read"
      /\ pc' = [pc EXCEPT ![t] = "copy"]
      /\ UNCHANGED <<arrived, dropped, call, watch, rfds, cur>>
      /\ \A i \in Ifaces \ {c} : taken'[i] = taken[i]
  BY <1>0 DEF Read, Goto, callVars, Control, TypeOK, CallOK
<1>2. \A i \in Ifaces \ {c} : Ready(i)' = Ready(i)
  BY <1>1 DEF Ready, Queued, Discarded
<1>3. ASSUME NEW u \in Threads, call[u] = "dispatch",
             pc'[u] \in {"scan", "read", "copy", "callback"},
             NEW i \in rfds[u]
      PROVE  Ready(i)'
  <2>1. pc[u] \in {"scan", "read", "copy", "callback"}
    BY <1>1, <1>3 DEF Control, TypeOK
  <2>2. i \in Ifaces /\ i \in watch[u] /\ Ready(i)
    BY <1>1, <1>3, <2>1 DEF StillReady, Control, TypeOK, CallOK
  <2>3. i # c
    BY <1>1, <1>3, <2>2 DEF ExclusiveReaders, Control, CallOK
  <2> QED BY <1>2, <2>2, <2>3
<1>4. ASSUME NEW u \in Threads, call[u] = "dispatch", pc'[u] = "read"
      PROVE  Ready(cur[u])'
  <2>1. u # t /\ pc[u] = "read"
    BY <1>1, <1>4 DEF Control, TypeOK
  <2>2. cur[u] \in Ifaces /\ cur[u] # c
    BY <1>0, <1>1, <2>1, SoleReader DEF Control, TypeOK
  <2>3. Ready(cur[u])
    BY <1>4, <2>1 DEF StillReady
  <2>4. cur'[u] = cur[u]
    BY <1>1
  <2> QED BY <1>1, <2>2, <2>3, <2>4 DEF Ready, Queued, Discarded
<1> QED BY <1>1, <1>3, <1>4 DEF StillReady, Ready, Queued, Discarded

(* A step that moves no thread and leaves what is ready so.                *)
LEMMA ReadyKept ==
  ASSUME Control, StillReady, UNCHANGED <<pc, call, rfds, cur>>,
         \A i \in Ifaces : Ready(i) => Ready(i)'
  PROVE  StillReady'
<1> SUFFICES ASSUME NEW t \in Threads, call[t] = "dispatch"
             PROVE  /\ pc[t] \in {"scan", "read", "copy", "callback"} =>
                         \A i \in rfds[t] : Ready(i)'
                    /\ pc[t] = "read" =>
                         \A i \in Ifaces : i = cur[t] => Ready(i)'
  <2>1. \A t \in Threads : pc[t] = "read" => cur[t] \in Ifaces
    BY DEF Control, TypeOK
  <2> QED BY <2>1 DEF StillReady, Ready, Queued, Discarded
<1>1. rfds[t] \subseteq Ifaces
  BY DEF Control, TypeOK
<1> QED BY <1>1 DEF StillReady

(* A packet that the kernel discards leaves a mark in its place.           *)
LEMMA ReadyDrop ==
  ASSUME Control, StillReady, NEW i \in Ifaces, Drop(i)
  PROVE  StillReady'
<1>1. UNCHANGED <<arrived, pc, call, watch, rfds, cur>>
  BY DEF Drop, callVars
<1>2. Discarded(i)'
  <2>1. taken'[i] = taken[i] + 1 /\ dropped'[i] = dropped[i] \cup {taken[i] + 1}
    BY DEF Drop, Control, TypeOK
  <2> QED BY <2>1 DEF Discarded
<1>3. ASSUME NEW j \in Ifaces, Ready(j) PROVE Ready(j)'
  <2>1. CASE j = i
    BY <1>2, <2>1 DEF Ready
  <2>2. CASE j # i
    <3>1. taken'[j] = taken[j] /\ dropped'[j] = dropped[j]
      BY <2>2 DEF Drop, Control, TypeOK
    <3> QED BY <1>1, <1>3, <3>1 DEF Ready, Queued, Discarded
  <2> QED BY <2>1, <2>2
<1> QED BY <1>1, <1>3, ReadyKept

LEMMA ReadyArrive ==
  ASSUME Control, StillReady, NEW i \in Ifaces, Arrive(i)
  PROVE  StillReady'
<1>1. UNCHANGED <<taken, dropped, pc, call, watch, rfds, cur>>
  BY DEF Arrive, callVars
<1>2. ASSUME NEW j \in Ifaces, Ready(j) PROVE Ready(j)'
  BY <1>1, <1>2 DEF Arrive, Ready, Queued, Discarded, Control, TypeOK
<1> QED BY <1>1, <1>2, ReadyKept

LEMMA ReadyNext ==
  ASSUME ExclusiveReaders, Control, StillReady, [Next]_vars
  PROVE  StillReady'
<1>1. ASSUME NEW i \in Ifaces, Arrive(i) PROVE StillReady'
  BY <1>1, ReadyArrive
<1>2. ASSUME NEW i \in Ifaces, Drop(i) PROVE StillReady'
  BY <1>2, ReadyDrop
<1>3. ASSUME NEW t \in Threads, Read(t) PROVE StillReady'
  BY <1>3, ReadyRead
<1>4. CASE UNCHANGED vars
  BY <1>4 DEF vars, kernelVars, callVars, StillReady, Ready, Queued, Discarded
<1> QED BY <1>1, <1>2, <1>3, <1>4, ReadyStep DEF Next, Step

(* viface.cpp 833-848: while no interface has two readers, a dispatch()    *)
(* call that waits in read(), which it does on a socket of hook_viface(),  *)
(* waits because the kernel discarded what select() found there.  Nothing  *)
(* is assumed of the interfaces that are hooked or that discard packets.   *)
THEOREM FrozenByDiscardOnly ==
  ASSUME ExclusiveReaders PROVE Spec => []FrozenOnlyByDiscard
<1>1. Init => Control /\ StillReady
  BY ControlInit, ReadyInit
<1>2. Control /\ StillReady /\ [Next]_vars => (Control /\ StillReady)'
  BY ControlNext, ReadyNext
<1>3. Control /\ StillReady => FrozenOnlyByDiscard
  BY DEF StillReady, Ready, FrozenOnlyByDiscard, Frozen
<1> QED BY <1>1, <1>2, <1>3, PTL DEF Spec

-----------------------------------------------------------------------------
(* What ties a call to what it was asked for: select() is given every      *)
(* interface of the call, and receive() reads the one it was called for.   *)
RoundOK ==
  \A t \in Threads :
    /\ call[t] = "dispatch" => watch[t] # {}
    /\ pc[t] = "select" => rfds[t] = watch[t]
    /\ call[t] = "receive" => watch[t] = {cur[t]}

(* A packet in hand was not discarded by the kernel.                       *)
HandIsKept ==
  \A t \in Threads : pc[t] = "copy" => pktbuff[cur[t]] \notin dropped[cur[t]]

Delivery == Control /\ Books /\ RoundOK /\ HandIsKept

(* Delivery is inductive: it holds at first ...                            *)
LEMMA DeliveryInvInit == Init => Delivery
<1> SUFFICES ASSUME Init PROVE Delivery
  OBVIOUS
<1>1. Control /\ Books
  BY ControlInit, BooksInit
<1>2. RoundOK /\ HandIsKept
  BY DEF Init, RoundOK, HandIsKept
<1> QED BY <1>1, <1>2 DEF Delivery

(* RoundOK survives every step.                                            *)
LEMMA RoundNext ==
  ASSUME Control, RoundOK, [Next]_vars
  PROVE  RoundOK'
<1> USE DEF Control, TypeOK, RoundOK
<1>1. ASSUME NEW i \in Ifaces, Arrive(i) \/ Drop(i) PROVE RoundOK'
  BY <1>1 DEF Arrive, Drop, callVars
<1>2. ASSUME NEW t \in Threads, NEW how, EndCall(t, how) PROVE RoundOK'
  BY <1>2 DEF EndCall
<1>3. ASSUME NEW t \in Threads, CallDispatch(t) PROVE RoundOK'
  <2>1. PICK S \in (SUBSET Mine[t]) \ {{}}, timeout \in BOOLEAN :
          BeginCall(t, "dispatch", S, timeout)
    BY <1>3 DEF CallDispatch
  <2>2. pc' = [pc EXCEPT ![t] = "prepare"] /\ UNCHANGED <<rfds, cur>>
    BY <1>3 DEF CallDispatch
  <2>3. /\ S # {} /\ watch' = [watch EXCEPT ![t] = S]
        /\ call' = [call EXCEPT ![t] = "dispatch"]
    BY <2>1 DEF BeginCall
  <2> QED BY <2>2, <2>3
<1>4. ASSUME NEW t \in Threads, CallReceive(t) PROVE RoundOK'
  BY <1>4 DEF CallReceive, BeginCall
<1>5. ASSUME NEW t \in Threads, CallDispatchEmpty(t) PROVE RoundOK'
  BY <1>5 DEF CallDispatchEmpty
<1>6. ASSUME NEW t \in Threads, Signal(t) PROVE RoundOK'
  BY <1>2, <1>6 DEF Signal, Interrupted, Unnoticed
<1>7. ASSUME NEW t \in Threads, SelectFails(t) \/ ReadFails(t) \/ TimesOut(t)
      PROVE  RoundOK'
  BY <1>2, <1>7 DEF SelectFails, ReadFails, TimesOut
<1>8. ASSUME NEW t \in Threads, Prepare(t) PROVE RoundOK'
  BY <1>8 DEF Prepare, Goto, callVars
<1>9. ASSUME NEW t \in Threads, SelectReturns(t) \/ Scan(t) \/ ScanEnds(t)
      PROVE  RoundOK'
  <2>1. call[t] = "dispatch"
    BY <1>9 DEF SelectReturns, Scan, ScanEnds, CallOK
  <2>2. /\ UNCHANGED <<call, watch>>
        /\ \E l \in {"scan", "read", "prepare"} : pc' = [pc EXCEPT ![t] = l]
        /\ \A u \in Threads \ {t} : rfds'[u] = rfds[u] /\ cur'[u] = cur[u]
    BY <1>9 DEF SelectReturns, Scan, ScanEnds, Goto, callVars
  <2> QED BY <2>1, <2>2
<1>10. ASSUME NEW t \in Threads, Read(t) PROVE RoundOK'
  BY <1>10 DEF Read, Goto, callVars
<1>11. ASSUME NEW t \in Threads, NEW l \in {"scan", "callback"}, NEW how,
              ReturnFromReceive(t, l, how)
       PROVE  RoundOK'
  <2>1. CASE call[t] = "dispatch" /\ Goto(t, l) /\ cur' = [cur EXCEPT ![t] = NoIface]
             /\ UNCHANGED rfds
    BY <2>1 DEF Goto, callVars
  <2> QED BY <1>2, <1>11, <2>1 DEF ReturnFromReceive
<1>12. ASSUME NEW t \in Threads, ReadAgain(t) \/ Copy(t) PROVE RoundOK'
  BY <1>11, <1>12 DEF ReadAgain, Copy
<1>13. ASSUME NEW t \in Threads, Callback(t) PROVE RoundOK'
  <2>1. CASE Goto(t, "scan") /\ UNCHANGED <<rfds, cur>>
    BY <2>1 DEF Goto, callVars
  <2> QED BY <1>2, <1>13, <2>1 DEF Callback
<1>14. CASE UNCHANGED vars
  BY <1>14 DEF vars, callVars
<1> QED BY <1>1, <1>3, <1>4, <1>5, <1>6, <1>7, <1>8, <1>9, <1>10, <1>12, <1>13,
           <1>14 DEF Next, Step

(* A packet that is read is newer than any that was discarded, and one     *)
(* that is discarded is newer than any in hand.                            *)
LEMMA HandNext ==
  ASSUME ExclusiveReaders, Control, Books, HandIsKept, [Next]_vars
  PROVE  HandIsKept'
<1> USE DEF Control, TypeOK
<1>1. ASSUME NEW i \in Ifaces, NEW n \in dropped[i] \cup InHand(i)
      PROVE  n \in 1..taken[i] /\ taken[i] \in Nat
  BY <1>1 DEF Books, NothingLost
<1>2. ASSUME NEW i \in Ifaces, Arrive(i) PROVE HandIsKept'
  BY <1>2 DEF Arrive, HandIsKept
<1>3. ASSUME NEW i \in Ifaces, Drop(i) PROVE HandIsKept'
  <2> SUFFICES ASSUME NEW t \in Threads, pc[t] = "copy", NEW c \in Ifaces, c = cur[t]
               PROVE  pktbuff[c] \notin dropped'[c]
    BY <1>3 DEF Drop, HandIsKept
  <2>1. pktbuff[c] \in InHand(c)
    BY DEF InHand
  <2>2. pktbuff[c] \in 1..taken[c] /\ taken[c] \in Nat
    BY <1>1, <2>1
  <2>3. dropped'[c] \subseteq dropped[c] \cup {taken[c] + 1}
    BY <1>3 DEF Drop
  <2> QED BY <2>2, <2>3 DEF HandIsKept
<1>4. ASSUME NEW t \in Threads, Read(t) PROVE HandIsKept'
  <2>1. PICK c \in Ifaces : c = cur[t] /\ pc[t] = "read"
    BY <1>4 DEF Read
  <2>2. /\ UNCHANGED <<dropped, cur>>
        /\ pktbuff' = [pktbuff EXCEPT ![c] = taken[c] + 1]
        /\ pc' = [pc EXCEPT ![t] = "copy"]
    BY <1>4, <2>1 DEF Read, Goto
  <2>3. taken[c] + 1 \notin dropped[c]
    BY <1>1
  <2>4. ASSUME NEW u \in Threads, pc'[u] = "copy", u # t
        PROVE  pktbuff'[cur[u]] = pktbuff[cur[u]] /\ pc[u] = "copy"
    BY <2>1, <2>2, <2>4, SoleReader
  <2> QED BY <2>1, <2>2, <2>3, <2>4 DEF HandIsKept
<1>5. ASSUME NEW t \in Threads, NEW how, EndCall(t, how), UNCHANGED <<dropped, pktbuff>>
      PROVE  HandIsKept'
  BY <1>5 DEF EndCall, HandIsKept
<1>6. ASSUME NEW t \in Threads, NEW l \in Labels \ {"copy"},
             pc' = [pc EXCEPT ![t] = l], UNCHANGED <<dropped, pktbuff>>,
             \A u \in Threads \ {t} : cur'[u] = cur[u]
      PROVE  HandIsKept'
  BY <1>6 DEF HandIsKept
<1>7. ASSUME NEW t \in Threads, NEW l \in Labels \ {"copy"}, NEW how,
             ReturnFromReceive(t, l, how), UNCHANGED <<dropped, pktbuff>>
      PROVE  HandIsKept'
  BY <1>5, <1>6, <1>7 DEF ReturnFromReceive, Goto
<1>8. ASSUME NEW t \in Threads, Copy(t) \/ ReadAgain(t) PROVE HandIsKept'
  BY <1>7, <1>8 DEF Copy, ReadAgain, kernelVars, Labels
<1>9. ASSUME NEW t \in Threads, CallDispatch(t) \/ CallReceive(t) PROVE HandIsKept'
  BY <1>9 DEF CallDispatch, CallReceive, BeginCall, kernelVars, HandIsKept
<1>10. ASSUME NEW t \in Threads, CallDispatchEmpty(t) PROVE HandIsKept'
  BY <1>10 DEF CallDispatchEmpty, kernelVars, HandIsKept
<1>11. ASSUME NEW t \in Threads, Signal(t) PROVE HandIsKept'
  <2>1. CASE UNCHANGED <<pc, cur>>
    BY <1>11, <2>1 DEF Signal, kernelVars, HandIsKept
  <2> QED BY <1>5, <1>11, <2>1 DEF Signal, Interrupted, Unnoticed, kernelVars
<1>12. ASSUME NEW t \in Threads, SelectFails(t) \/ ReadFails(t) \/ TimesOut(t)
       PROVE  HandIsKept'
  BY <1>5, <1>12 DEF SelectFails, ReadFails, TimesOut, kernelVars
<1>13. ASSUME NEW t \in Threads,
              Prepare(t) \/ SelectReturns(t) \/ Scan(t) \/ ScanEnds(t)
       PROVE  HandIsKept'
  <2>1. \E l \in Labels \ {"copy"} : pc' = [pc EXCEPT ![t] = l]
    BY <1>13 DEF Prepare, SelectReturns, Scan, ScanEnds, Goto, Labels
  <2>2. UNCHANGED <<dropped, pktbuff>> /\ \A u \in Threads \ {t} : cur'[u] = cur[u]
    BY <1>13 DEF Prepare, SelectReturns, Scan, ScanEnds, kernelVars
  <2> QED BY <1>6, <2>1, <2>2
<1>14. ASSUME NEW t \in Threads, Callback(t) PROVE HandIsKept'
  <2>1. CASE Goto(t, "scan") /\ UNCHANGED <<rfds, cur>>
    BY <1>6, <1>14, <2>1 DEF Callback, Goto, kernelVars, Labels
  <2> QED BY <1>5, <1>14, <2>1 DEF Callback, kernelVars
<1>15. CASE UNCHANGED vars
  BY <1>15 DEF vars, kernelVars, HandIsKept
<1> QED BY <1>2, <1>3, <1>4, <1>8, <1>9, <1>10, <1>11, <1>12, <1>13, <1>14, <1>15
        DEF Next, Step

(* ... and after every step.                                               *)
LEMMA DeliveryInvNext ==
  ASSUME ExclusiveReaders PROVE Delivery /\ [Next]_vars => Delivery'
  BY ControlNext, BooksNext, RoundNext, HandNext DEF Delivery

-----------------------------------------------------------------------------
(* select() looks at every descriptor of the call.                         *)
LEMMA SelectSeesAll ==
  ASSUME NEW S \in SUBSET Ifaces, S # {}
  PROVE  nfds(S) \in Nat /\ \A i \in S : Fd[i] < nfds(S)
<1> USE DispatchAssumption
<1> DEFINE D == {Fd[i] : i \in S}
           IsMax(m) == \A i \in S : Fd[i] <= m
<1>1. IsFiniteSet(S)
  BY FS_Subset
<1>2. \E i \in S : \A j \in S : Fd[j] <= Fd[i]
  BY <1>1, Greatest
<1>3. \E m \in D : IsMax(m)
  BY <1>2
<1>4. /\ (CHOOSE m \in D : IsMax(m)) \in D
      /\ IsMax(CHOOSE m \in D : IsMax(m))
  BY <1>3
<1>5. nfds(S) = (CHOOSE m \in D : IsMax(m)) + 1
  BY DEF nfds
<1>6. D \subseteq Nat
  OBVIOUS
<1> QED BY <1>4, <1>5, <1>6

(* Delivery means what Dispatch means by the packets of a log.             *)
LEMMA PendingHere ==
  \A i : Promise!Pending(i) = (1..arrived[i]) \ (Range(log[i]) \cup dropped[i])
  BY DEF Promise!Pending, Promise!Range, Range

(* What Delivery calls pending is what is queued, and what is in hand.     *)
LEMMA PendingIs ==
  ASSUME Control, Books, NEW i \in Ifaces
  PROVE  /\ \A n \in Promise!Pending(i) :
              n \in InHand(i) \/ n \in (taken[i] + 1)..arrived[i]
         /\ Queued(i) => taken[i] + 1 \in Promise!Pending(i)
<1>1. taken[i] \in Nat /\ arrived[i] \in Nat /\ taken[i] <= arrived[i]
  BY DEF Control, TypeOK, Books, NotAhead
<1>2. 1..taken[i] = Range(log[i]) \cup dropped[i] \cup InHand(i)
  BY DEF Books, NothingLost
<1>3. ASSUME NEW n \in Promise!Pending(i)
      PROVE  n \in InHand(i) \/ n \in (taken[i] + 1)..arrived[i]
  <2>1. n \in 1..arrived[i] /\ n \notin Range(log[i]) /\ n \notin dropped[i]
    BY <1>3, PendingHere
  <2>2. n \in 1..taken[i] \/ n \in (taken[i] + 1)..arrived[i]
    BY <1>1, <2>1
  <2> QED BY <1>2, <2>1, <2>2
<1>4. ASSUME Queued(i) PROVE taken[i] + 1 \in Promise!Pending(i)
  <2>1. taken[i] + 1 \in 1..arrived[i] /\ taken[i] + 1 \notin 1..taken[i]
    BY <1>1, <1>4 DEF Queued
  <2> QED BY <1>2, <2>1, PendingHere
<1> QED BY <1>3, <1>4

(* A call that waits on an interface with an empty queue has nothing of it *)
(* in hand, nor has any other thread.                                      *)
LEMMA NothingPending ==
  ASSUME ExclusiveReaders, Control, Books, NEW t \in Threads, pc[t] # "copy",
         NEW i \in watch[t], ~Queued(i)
  PROVE  Promise!Pending(i) = {}
<1>1. i \in Ifaces
  BY DEF Control, TypeOK
<1>2. InHand(i) = {}
  <2> SUFFICES ASSUME NEW u \in Threads, pc[u] = "copy", cur[u] = i PROVE FALSE
    BY DEF InHand
  <2>1. i \in watch[u]
    BY DEF Control, TypeOK
  <2>2. i \in Mine[u] /\ i \in Mine[t]
    BY <2>1 DEF Control, CallOK
  <2> QED BY <2>2 DEF ExclusiveReaders
<1>3. taken[i] \in Nat /\ arrived[i] \in Nat /\ ~(taken[i] < arrived[i])
  BY <1>1 DEF Control, TypeOK, Queued
<1> QED BY <1>1, <1>2, <1>3, PendingIs

(* The packet in hand is the oldest pending one.                           *)
LEMMA HandIsOldest ==
  ASSUME ExclusiveReaders, Control, Books, HandIsKept, NEW t \in Threads, pc[t] = "copy"
  PROVE  /\ pktbuff[cur[t]] \in Promise!Pending(cur[t])
         /\ \A m \in Promise!Pending(cur[t]) : pktbuff[cur[t]] <= m
<1>1. PICK i \in Ifaces : i = cur[t]
  BY DEF Control, TypeOK
<1> DEFINE n == pktbuff[i]
<1>2. InHand(i) = {n}
  BY <1>1, SoleReader DEF InHand
<1>3. /\ taken[i] \in Nat /\ arrived[i] \in Nat /\ taken[i] <= arrived[i]
      /\ n \in 1..taken[i]
  BY <1>2 DEF Control, TypeOK, Books, NotAhead, NothingLost
<1>4. n \notin Range(log[i])
  <2> SUFFICES ASSUME NEW k \in DOMAIN log[i], log[i][k] = n PROVE FALSE
    BY DEF Range
  <2>1. log[i][k] < n /\ n \in Nat
    BY <1>1, <1>3 DEF Books, HandIsNewest
  <2> QED BY <2>1
<1>5. n \in Promise!Pending(i)
  <2>1. n \in 1..arrived[i] /\ n \notin dropped[i]
    BY <1>1, <1>3 DEF HandIsKept
  <2> QED BY <1>4, <2>1, PendingHere
<1>6. \A m \in Promise!Pending(i) : n <= m
  BY <1>2, <1>3, PendingIs
<1> QED BY <1>1, <1>5, <1>6

-----------------------------------------------------------------------------
(* Dispatch starts as Delivery does.                                       *)
LEMMA DeliveryInit == Init => Promise!Init
  BY DEF Init, Promise!Init

(* The steps of a call that Delivery knows nothing of.                     *)
LEMMA DeliveryStutters ==
  ASSUME Control, NEW t \in Threads,
         \/ Prepare(t) \/ SelectReturns(t) \/ Scan(t) \/ ScanEnds(t) \/ Read(t)
         \/ Signal(t) /\ Unnoticed(t)
         \/ ReadAgain(t) /\ call[t] = "dispatch"
         \/ Callback(t) /\ Goto(t, "scan")
  PROVE  UNCHANGED Promise!vars
<1> USE DEF Promise!vars, kernelVars, callVars, Goto
<1>1. CASE Prepare(t) \/ SelectReturns(t) \/ Scan(t) \/ ScanEnds(t)
  BY <1>1 DEF Prepare, SelectReturns, Scan, ScanEnds
<1>2. CASE Read(t)
  BY <1>2 DEF Read
<1>3. CASE Signal(t) /\ Unnoticed(t)
  BY <1>3 DEF Signal, Unnoticed
<1>4. CASE ReadAgain(t) /\ call[t] = "dispatch"
  BY <1>4 DEF ReadAgain, ReturnFromReceive
<1>5. CASE Callback(t) /\ Goto(t, "scan")
  BY <1>5 DEF Callback
<1> QED BY <1>1, <1>2, <1>3, <1>4, <1>5

(* The end of a call without a packet.                                     *)
LEMMA DeliveryEnds ==
  ASSUME ExclusiveReaders, Delivery, NEW t \in Threads,
         \/ Signal(t) /\ Interrupted(t)
         \/ SelectFails(t) \/ ReadFails(t) \/ TimesOut(t)
         \/ ReadAgain(t) /\ call[t] = "receive"
         \/ Callback(t) /\ EndCall(t, "stopped")
  PROVE  Promise!End(t)
<1> USE DEF Delivery, kernelVars
<1>1. /\ pc[t] # "idle" /\ call[t] # "none" /\ pc[t] # "copy"
      /\ UNCHANGED <<arrived, dropped, log>>
  BY DEF Signal, Interrupted, Frozen, SelectFails, ReadFails, TimesOut, ReadAgain,
     Callback, Control, TypeOK, CallOK
<1>2. ASSUME NEW how \in {"signal", "threw", "stopped", "timeout", "empty"},
             EndCall(t, how),
             how \in {"signal", "stopped", "timeout"} => call[t] = "dispatch",
             how = "empty" => call[t] = "receive",
             how = "timeout" => timed[t],
             how \in {"timeout", "empty"} => \A i \in watch[t] : ~Queued(i)
      PROVE  Promise!End(t)
  <2>1. Promise!EndCall(t, how)
    BY <1>2 DEF EndCall, Promise!EndCall
  <2>2. how \in {"timeout", "empty"} => \A i \in watch[t] : Promise!Pending(i) = {}
    BY <1>1, <1>2, NothingPending
  <2>3. how \in Promise!Outcomes \ {"none", "packet"}
    BY DEF Promise!Outcomes
  <2> QED BY <1>1, <1>2, <2>1, <2>2, <2>3 DEF Promise!End
<1>3. CASE Signal(t) /\ Interrupted(t)
  <2>1. pc[t] = "select" => call[t] = "dispatch"
    BY DEF Control, CallOK
  <2> QED BY <1>2, <1>3, <2>1 DEF Interrupted
<1>4. CASE SelectFails(t) \/ ReadFails(t)
  BY <1>2, <1>4 DEF SelectFails, ReadFails
<1>5. CASE TimesOut(t)
  <2>1. pc[t] = "select" /\ timed[t] /\ Readable(t) = {} /\ EndCall(t, "timeout")
    BY <1>5 DEF TimesOut
  <2>2. call[t] = "dispatch" /\ rfds[t] = watch[t] /\ watch[t] \in SUBSET Ifaces
        /\ watch[t] # {}
    BY <2>1 DEF Control, TypeOK, CallOK, RoundOK
  <2>3. \A i \in watch[t] : ~Queued(i)
    BY <2>1, <2>2, SelectSeesAll DEF Readable
  <2> QED BY <1>2, <2>1, <2>2, <2>3
<1>6. CASE ReadAgain(t) /\ call[t] = "receive"
  <2>1. EndCall(t, "empty") /\ ~Queued(cur[t]) /\ watch[t] = {cur[t]}
    BY <1>6 DEF ReadAgain, ReturnFromReceive, RoundOK
  <2> QED BY <1>2, <1>6, <2>1
<1>7. CASE Callback(t) /\ EndCall(t, "stopped")
  <2>1. call[t] = "dispatch"
    BY <1>7 DEF Callback, Control, CallOK
  <2> QED BY <1>2, <1>7, <2>1
<1> QED BY <1>3, <1>4, <1>5, <1>6, <1>7

(* The packet in hand goes to the callback, or to the caller of receive(). *)
LEMMA DeliveryCopies ==
  ASSUME ExclusiveReaders, Delivery, NEW t \in Threads, Copy(t)
  PROVE  \E i \in Ifaces : Promise!Dispatched(t, i) \/ Promise!Received(t, i)
<1> USE DEF Delivery
<1>1. PICK i \in Ifaces : i = cur[t] /\ i \in watch[t] /\ pc[t] = "copy"
  BY DEF Copy, Control, TypeOK
<1>2. Promise!HandOver(i)
  <2>1. log' = [log EXCEPT ![i] = Append(log[i], pktbuff[i])]
    BY <1>1 DEF Copy
  <2>2. /\ pktbuff[i] \in Promise!Pending(i)
        /\ \A m \in Promise!Pending(i) : pktbuff[i] <= m
    BY <1>1, HandIsOldest
  <2> QED BY <2>1, <2>2 DEF Promise!HandOver
<1>3. UNCHANGED <<arrived, dropped>>
  BY DEF Copy, kernelVars
<1>4. CASE call[t] = "dispatch" /\ Goto(t, "callback")
  BY <1>1, <1>2, <1>3, <1>4 DEF Goto, callVars, Promise!Dispatched
<1>5. CASE call[t] = "receive" /\ EndCall(t, "packet")
  <2>1. Promise!EndCall(t, "packet")
    BY <1>5 DEF EndCall, Promise!EndCall
  <2> QED BY <1>1, <1>2, <1>3, <1>5, <2>1 DEF Promise!Received
<1> QED BY <1>4, <1>5 DEF Copy, ReturnFromReceive

(* The program calls the library, and packets come and go.                 *)
LEMMA DeliveryBegins ==
  ASSUME Control, NEW t \in Threads,
         CallDispatch(t) \/ CallReceive(t) \/ CallDispatchEmpty(t)
  PROVE  Promise!Begin(t) \/ Promise!Refuse(t)
<1> USE DispatchAssumption DEF kernelVars
<1>1. call[t] = "none"
  BY DEF CallDispatch, CallReceive, CallDispatchEmpty, BeginCall, Control, CallOK
<1>2. ASSUME NEW c \in {"dispatch", "receive"}, NEW S \in SUBSET Ifaces,
             NEW timeout \in BOOLEAN, BeginCall(t, c, S, timeout)
      PROVE  Promise!Begin(t)
  BY <1>1, <1>2 DEF BeginCall, Promise!Begin
<1>3. CASE CallDispatch(t)
  <2>1. PICK S \in (SUBSET Mine[t]) \ {{}}, timeout \in BOOLEAN :
          BeginCall(t, "dispatch", S, timeout)
    BY <1>3 DEF CallDispatch
  <2>2. S \in SUBSET Ifaces
    OBVIOUS
  <2> QED BY <1>2, <2>1, <2>2
<1>4. CASE CallReceive(t)
  <2>1. PICK i \in Mine[t] : BeginCall(t, "receive", {i}, FALSE)
    BY <1>4 DEF CallReceive
  <2>2. {i} \in SUBSET Ifaces
    OBVIOUS
  <2> QED BY <1>2, <2>1, <2>2
<1>5. CASE CallDispatchEmpty(t)
  BY <1>1, <1>5 DEF CallDispatchEmpty, Promise!Refuse
<1> QED BY <1>3, <1>4, <1>5

(* A packet that arrives or is discarded is one for Delivery too.          *)
LEMMA DeliveryKernel ==
  ASSUME Control, Books, NEW i \in Ifaces, Arrive(i) \/ Drop(i)
  PROVE  Promise!Arrive(i) \/ Promise!Drop(i)
<1>1. CASE Arrive(i)
  BY <1>1 DEF Arrive, callVars, Promise!Arrive
<1>2. CASE Drop(i)
  <2>1. taken[i] + 1 \in Promise!Pending(i)
    BY <1>2, PendingIs DEF Drop
  <2> QED BY <1>2, <2>1 DEF Drop, callVars, Promise!Drop
<1> QED BY <1>1, <1>2

(* Every step of Dispatch is one of Delivery, or none.                     *)
LEMMA DeliveryStep ==
  ASSUME ExclusiveReaders, Delivery, [Next]_vars
  PROVE  [Promise!Next]_Promise!vars
<1>1. Control /\ Books
  BY DEF Delivery
<1>2. ASSUME NEW i \in Ifaces, Arrive(i) \/ Drop(i) PROVE Promise!Next
  BY <1>1, <1>2, DeliveryKernel DEF Promise!Next
<1>3. ASSUME NEW t \in Threads,
             CallDispatch(t) \/ CallReceive(t) \/ CallDispatchEmpty(t)
      PROVE  Promise!Next
  BY <1>1, <1>3, DeliveryBegins DEF Promise!Next
<1>4. ASSUME NEW t \in Threads, Copy(t) PROVE Promise!Next
  BY <1>4, DeliveryCopies DEF Promise!Next
<1>5. ASSUME NEW t \in Threads,
             \/ Prepare(t) \/ SelectReturns(t) \/ Scan(t) \/ ScanEnds(t) \/ Read(t)
      PROVE  UNCHANGED Promise!vars
  BY <1>1, <1>5, DeliveryStutters
<1>6. ASSUME NEW t \in Threads, SelectFails(t) \/ ReadFails(t) \/ TimesOut(t)
      PROVE  Promise!Next
  BY <1>6, DeliveryEnds DEF Promise!Next
<1>7. ASSUME NEW t \in Threads, Signal(t) \/ ReadAgain(t) \/ Callback(t)
      PROVE  Promise!Next \/ UNCHANGED Promise!vars
  <2>1. \/ Signal(t) /\ Unnoticed(t)
        \/ ReadAgain(t) /\ call[t] = "dispatch"
        \/ Callback(t) /\ Goto(t, "scan")
        \/ Signal(t) /\ Interrupted(t)
        \/ ReadAgain(t) /\ call[t] = "receive"
        \/ Callback(t) /\ EndCall(t, "stopped")
    BY <1>7 DEF Signal, ReadAgain, ReturnFromReceive, Callback
  <2>2. UNCHANGED Promise!vars \/ Promise!End(t)
    BY <1>1, <2>1, DeliveryStutters, DeliveryEnds
  <2> QED BY <2>2 DEF Promise!Next
<1>8. CASE UNCHANGED vars
  BY <1>8 DEF vars, kernelVars, callVars, Promise!vars
<1> QED BY <1>2, <1>3, <1>4, <1>5, <1>6, <1>7, <1>8 DEF Next, Step

(* viface.hpp 59-79 and 298-309: every step of dispatch() and receive() is *)
(* one that module Delivery allows.  The oldest pending packet goes first, *)
(* and a call times out or comes back empty only when nothing is pending.  *)
THEOREM DeliversSafely == ASSUME ExclusiveReaders PROVE Spec => Promise!Safe
<1>1. Init => Delivery /\ Promise!Init
  BY DeliveryInvInit, DeliveryInit
<1>2. Delivery /\ [Next]_vars => Delivery' /\ [Promise!Next]_Promise!vars
  BY DeliveryInvNext, DeliveryStep
<1> QED BY <1>1, <1>2, PTL DEF Spec, Promise!Safe
=============================================================================
