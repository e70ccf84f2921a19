-------------------------- MODULE DispatchFairProofs --------------------------
(***************************************************************************)
(* Theorems about module DispatchFair: how often other interfaces are      *)
(* served while one waits, and what a new round of a call costs, for any   *)
(* number of threads, interfaces and packets, whichever interfaces the     *)
(* threads share.                                                          *)
(***************************************************************************)
EXTENDS DispatchFair, DispatchProofs

(* Interface x is still to be served in the round of thread t.             *)
Ahead(t, x) ==
  pc[t] \in {"scan", "read", "copy", "callback"} /\
    (x \in rfds[t] \/ (pc[t] \in {"read", "copy"} /\ cur[t] = x))

(* How often another interface j can have been served, while i waits.      *)
Bound(t, i, j) ==
  IF pc[t] \in {"idle", "prepare", "select"} THEN 1
  ELSE IF Ahead(t, i) THEN IF Ahead(t, j) THEN 1 ELSE 2
  ELSE IF Ahead(t, j) THEN 0 ELSE 1

BypassTypeOK == bypassed \in [Threads -> [Ifaces -> [Ifaces -> Nat]]]

Line(t, i, j) ==
  /\ bypassed[t][i][j] <= 2
  /\ call[t] # "dispatch" \/ i \notin watch[t] \/ i = j => bypassed[t][i][j] = 0
  /\ Queued(i) => bypassed[t][i][j] <= Bound(t, i, j)

Lines == \A t \in Threads : \A i, j \in Ifaces : Line(t, i, j)

(* What is read, or was, is not left to visit.                             *)
Visited == \A t \in Threads : pc[t] \in {"read", "copy"} => cur[t] \notin rfds[t]

FairInv == Control /\ RoundOK /\ Visited /\ BypassTypeOK /\ Lines

-----------------------------------------------------------------------------
(* What thread t does itself.                                              *)
Own(t) ==
  \/ CallDispatch(t) \/ CallDispatchEmpty(t) \/ CallReceive(t)
  \/ Signal(t) \/ SelectFails(t) \/ ReadFails(t) \/ Step(t)

Untouched(t) ==
  UNCHANGED <<pc[t], rfds[t], cur[t], call[t], watch[t]>>

(* The kernel and the other threads leave the call of t alone.             *)
LEMMA OthersApart ==
  ASSUME Control, [Next]_vars, NEW t \in Threads
  PROVE  Own(t) \/ Untouched(t)
<1> USE DEF Control, TypeOK, Untouched
<1>1. ASSUME NEW i \in Ifaces, Arrive(i) \/ Drop(i) PROVE Untouched(t)
  BY <1>1 DEF Arrive, Drop, callVars
<1>2. ASSUME NEW u \in Threads, u # t, Own(u) PROVE Untouched(t)
  <2>1. CASE CallDispatch(u) \/ CallReceive(u) \/ CallDispatchEmpty(u)
    BY <1>2, <2>1 DEF CallDispatch, CallReceive, CallDispatchEmpty, BeginCall
  <2>2. ASSUME NEW how, EndCall(u, how) PROVE Untouched(t)
    BY <1>2, <2>2 DEF EndCall
  <2>3. CASE Signal(u) \/ SelectFails(u) \/ ReadFails(u) \/ TimesOut(u)
    BY <2>2, <2>3 DEF Signal, Interrupted, Unnoticed, SelectFails, ReadFails, TimesOut
  <2>4. CASE Prepare(u) \/ SelectReturns(u) \/ ScanEnds(u) \/ Read(u)
    BY <1>2, <2>4 DEF Prepare, SelectReturns, ScanEnds, Read, Goto, callVars
  <2>5. CASE Scan(u)
    BY <1>2, <2>5 DEF Scan, Goto, callVars
  <2>6. CASE ReadAgain(u) \/ Copy(u) \/ Callback(u)
    BY <1>2, <2>2, <2>6 DEF ReadAgain, Copy, Callback, ReturnFromReceive, Goto, callVars
  <2> QED BY <1>2, <2>1, <2>3, <2>4, <2>5, <2>6 DEF Own, Step
<1>3. CASE UNCHANGED vars
  BY <1>3 DEF vars, callVars
<1> QED BY <1>1, <1>2, <1>3 DEF Next, Own

(* A packet is handed over by Copy and by nothing else.                    *)
LEMMA HandsIsCopy ==
  ASSUME Control, [Next]_vars, NEW t \in Threads, NEW j, Hands(t, j)
  PROVE  Copy(t)
<1> USE DEF Control, TypeOK, Hands
<1>1. Own(t)
  BY OthersApart DEF Untouched
<1>2. ~Signal(t)
  BY DEF Signal, Interrupted, Unnoticed, Frozen
<1>3. ~(CallDispatchEmpty(t) \/ CallDispatch(t) \/ CallReceive(t))
  BY DEF CallDispatchEmpty, CallDispatch, CallReceive, BeginCall
<1>4. ~(SelectFails(t) \/ ReadFails(t) \/ Prepare(t) \/ SelectReturns(t) \/ TimesOut(t)
        \/ Scan(t) \/ ScanEnds(t) \/ Read(t) \/ ReadAgain(t) \/ Callback(t))
  BY DEF SelectFails, ReadFails, Prepare, SelectReturns, TimesOut, Scan, ScanEnds, Read,
         ReadAgain, Callback
<1> QED BY <1>1, <1>2, <1>3, <1>4 DEF Own, Step

LEMMA CopyHands ==
  ASSUME Control, NEW t \in Threads, Copy(t)
  PROVE  \A j : Hands(t, j) <=> cur[t] = j
<1>1. pc[t] = "copy" /\ pc'[t] # "copy"
  BY DEF Control, TypeOK, Copy, ReturnFromReceive, Goto, EndCall
<1> QED BY <1>1 DEF Hands

(* What was visited stays out of what is left to visit.                    *)
LEMMA VisitedNext == ASSUME Control, Visited, [Next]_vars PROVE Visited'
<1> SUFFICES ASSUME NEW t \in Threads
             PROVE  pc'[t] \in {"read", "copy"} => cur'[t] \notin rfds'[t]
  BY DEF Visited
<1> USE DEF Control, TypeOK, Visited
<1> DEFINE Goal == pc'[t] \in {"read", "copy"} => cur'[t] \notin rfds'[t]
<1>1. CASE Untouched(t)
  BY <1>1 DEF Untouched
<1>2. CASE CallDispatch(t) \/ CallReceive(t) \/ CallDispatchEmpty(t)
  BY <1>2 DEF CallDispatch, CallReceive, CallDispatchEmpty, BeginCall, CallOK
<1>3. ASSUME NEW how, EndCall(t, how) PROVE Goal
  BY <1>3 DEF EndCall
<1>4. CASE Signal(t) \/ SelectFails(t) \/ ReadFails(t) \/ TimesOut(t)
  BY <1>3, <1>4 DEF Signal, Interrupted, Unnoticed, SelectFails, ReadFails, TimesOut
<1>5. CASE Prepare(t) \/ SelectReturns(t) \/ ScanEnds(t)
  BY <1>5 DEF Prepare, SelectReturns, ScanEnds, Goto
<1>6. CASE Scan(t)
  BY <1>6 DEF Scan, Goto
<1>7. CASE Read(t)
  BY <1>7 DEF Read, Goto
<1>8. CASE ReadAgain(t) \/ Copy(t)
  BY <1>3, <1>8 DEF ReadAgain, Copy, ReturnFromReceive, Goto
<1>9. CASE Callback(t)
  BY <1>3, <1>9 DEF Callback, Goto
<1> QED BY OthersApart, <1>1, <1>2, <1>4, <1>5, <1>6, <1>7, <1>8, <1>9 DEF Own, Step

-----------------------------------------------------------------------------
(* The packets of j that thread t hands over in this step.                 *)
Gain(t, j) == IF Hands(t, j) THEN 1 ELSE 0

(* While i keeps its place in the line, the bound grows with the packets   *)
(* that the others are served.                                             *)
LEMMA BoundGrows ==
  ASSUME Control, RoundOK, Visited, [Next]_vars, NEW t \in Threads,
         NEW i \in Ifaces, NEW j \in Ifaces, Queued(i), i \in watch[t],
         call[t] = "dispatch", call'[t] = "dispatch", ~Hands(t, i)
  PROVE  Bound(t, i, j)' >= Bound(t, i, j) + Gain(t, j)
<1> USE DEF Control, TypeOK, Bound, Gain
<1>1. CASE UNCHANGED <<pc[t], rfds[t], cur[t]>>
  BY <1>1 DEF Ahead, Hands
<1>2. ~Copy(t) => Gain(t, j) = 0
  BY HandsIsCopy
<1>3. CASE Prepare(t)
  <2>1. pc[t] = "prepare" /\ pc'[t] = "select" /\ Gain(t, j) = 0
    BY <1>3 DEF Prepare, Goto, Hands
  <2> QED BY <2>1
<1>4. CASE SelectReturns(t)
  <2>1. pc[t] = "select" /\ pc'[t] = "scan" /\ rfds'[t] = Readable(t)
        /\ Gain(t, j) = 0
    BY <1>4 DEF SelectReturns, Goto, Hands
  <2>2. i \in Readable(t)
    BY <2>1, SelectSeesAll DEF Readable, RoundOK
  <2> QED BY <2>1, <2>2 DEF Ahead
<1>5. CASE Scan(t)
  <2>1. PICK k \in rfds[t] : /\ rfds' = [rfds EXCEPT ![t] = @ \ {k}]
                             /\ cur' = [cur EXCEPT ![t] = k]
    BY <1>5 DEF Scan
  <2>2. pc[t] = "scan" /\ pc'[t] = "read" /\ Gain(t, j) = 0
    BY <1>5 DEF Scan, Goto, Hands
  <2>3. \A x : Ahead(t, x)' <=> Ahead(t, x)
    BY <2>1, <2>2 DEF Ahead
  <2> QED BY <2>2, <2>3
<1>6. CASE ScanEnds(t)
  <2>1. pc[t] = "scan" /\ pc'[t] = "prepare" /\ rfds[t] = {} /\ Gain(t, j) = 0
    BY <1>6 DEF ScanEnds, Goto, Hands
  <2> QED BY <2>1 DEF Ahead
<1>7. CASE Read(t)
  <2>1. /\ pc[t] = "read" /\ pc'[t] = "copy" /\ UNCHANGED <<rfds, cur>>
        /\ Gain(t, j) = 0
    BY <1>7 DEF Read, Goto, Hands
  <2> QED BY <2>1 DEF Ahead
<1>8. CASE ReadAgain(t)
  <2>1. /\ pc[t] = "read" /\ pc'[t] = "scan" /\ UNCHANGED rfds /\ Gain(t, j) = 0
        /\ cur[t] # i
    BY <1>8 DEF ReadAgain, ReturnFromReceive, Goto, Hands
  <2> QED BY <2>1 DEF Ahead
<1>9. CASE Copy(t)
  <2>1. /\ pc[t] = "copy" /\ pc'[t] = "callback" /\ UNCHANGED rfds
        /\ cur[t] \notin rfds[t]
    BY <1>9 DEF Copy, ReturnFromReceive, Goto, Visited
  <2>2. cur[t] # i /\ Gain(t, j) = (IF cur[t] = j THEN 1 ELSE 0)
    BY <1>9, CopyHands
  <2> QED BY <2>1, <2>2 DEF Ahead
<1>10. CASE Callback(t)
  <2>1. pc[t] = "callback" /\ pc'[t] = "scan" /\ UNCHANGED rfds /\ Gain(t, j) = 0
    BY <1>10 DEF Callback, EndCall, Goto, Hands
  <2> QED BY <2>1 DEF Ahead
<1>11. CASE Signal(t)
  <2>1. UNCHANGED <<pc, rfds, cur>>
    BY <1>11 DEF Signal, Interrupted, Unnoticed, EndCall
  <2> QED BY <1>1, <2>1
<1>12. CASE CallDispatch(t) \/ CallReceive(t) \/ CallDispatchEmpty(t) \/ SelectFails(t)
            \/ ReadFails(t) \/ TimesOut(t)
  BY <1>12 DEF CallDispatch, CallReceive, CallDispatchEmpty, BeginCall, SelectFails,
     ReadFails, TimesOut, EndCall, CallOK
<1> QED BY OthersApart, <1>1, <1>3, <1>4, <1>5, <1>6, <1>7, <1>8, <1>9, <1>10, <1>11,
           <1>12 DEF Own, Step, Untouched

(* A call that goes on is for the same interfaces; receive() ends with its *)
(* packet.                                                                 *)
LEMMA CallGoesOn ==
  ASSUME Control, [Next]_vars, NEW t \in Threads, call'[t] = call[t]
  PROVE  /\ call[t] = "dispatch" => watch'[t] = watch[t]
         /\ \A j : Hands(t, j) => call[t] = "dispatch"
<1> USE DEF Control, TypeOK
<1>1. Copy(t) => call[t] = "dispatch"
  BY DEF Copy, ReturnFromReceive, EndCall
<1>2. ASSUME call[t] = "dispatch", Own(t) PROVE watch'[t] = watch[t]
  BY <1>2 DEF Own, Step, CallDispatch, CallReceive, CallDispatchEmpty,
     BeginCall, Signal, Interrupted, Unnoticed, SelectFails, ReadFails, Prepare,
     SelectReturns, TimesOut, Scan, ScanEnds, Read, ReadAgain, Copy, ReturnFromReceive,
     Callback, EndCall, Goto, callVars, CallOK
<1> QED BY <1>1, <1>2, OthersApart, HandsIsCopy DEF Untouched

(* The history after a step.                                               *)
LEMMA HistoryNext ==
  ASSUME BypassTypeOK, FNext
  PROVE  /\ BypassTypeOK'
         /\ \A t \in Threads : \A i, j \in Ifaces :
              bypassed'[t][i][j] = IF Rejoins(t, i) THEN 0
                                   ELSE bypassed[t][i][j] + Gain(t, j)
<1> DEFINE New(t, i, j) == IF Rejoins(t, i) THEN 0 ELSE Bypasses(t, i, j)
<1>1. ASSUME NEW t \in Threads, NEW i \in Ifaces, NEW j \in Ifaces
      PROVE  /\ New(t, i, j) \in Nat
             /\ New(t, i, j) = IF Rejoins(t, i) THEN 0
                               ELSE bypassed[t][i][j] + Gain(t, j)
  <2>1. bypassed[t][i][j] \in Nat
    BY DEF BypassTypeOK
  <2> QED BY <2>1 DEF Bypasses, Gain
<1>2. bypassed' = [t \in Threads |-> [i \in Ifaces |-> [j \in Ifaces |-> New(t, i, j)]]]
  BY DEF FNext
<1> HIDE DEF New
<1> QED BY <1>1, <1>2 DEF BypassTypeOK

(* The bounds hold after every step, of a thread or of the kernel.         *)
LEMMA LinesNext == ASSUME FairInv, FNext PROVE Lines'
<1> USE DEF FairInv
<1>1. [Next]_vars
  BY DEF FNext
<1> SUFFICES ASSUME NEW t \in Threads, NEW i \in Ifaces, NEW j \in Ifaces
             PROVE  Line(t, i, j)'
  BY DEF Lines
<1> DEFINE b == bypassed[t][i][j]
           c == bypassed'[t][i][j]
           g == Gain(t, j)
<1>2. /\ b \in Nat
      /\ Line(t, i, j)
      /\ c = IF Rejoins(t, i) THEN 0 ELSE b + g
  BY HistoryNext DEF BypassTypeOK, Lines
<1>3. Bound(t, i, j) \in 0..2 /\ Bound(t, i, j)' \in 0..2 /\ g \in 0..1
  BY DEF Bound, Gain
<1>4. CASE Rejoins(t, i)
  BY <1>2, <1>3, <1>4 DEF Line
<1>5. CASE ~Rejoins(t, i) /\ call[t] # "dispatch"
  <2>1. call'[t] = call[t]
    BY <1>5 DEF Rejoins
  <2>2. g = 0
    BY <1>1, <1>5, <2>1, CallGoesOn DEF Gain
  <2>3. b = 0
    BY <1>2, <1>5 DEF Line
  <2> QED BY <1>2, <1>3, <1>5, <2>2, <2>3 DEF Line
<1>6. CASE ~Rejoins(t, i) /\ call[t] = "dispatch"
  <2>1. /\ Queued(i) /\ i \in watch[t] /\ call'[t] = "dispatch" /\ ~Hands(t, i)
    BY <1>6 DEF Rejoins
  <2>2. watch'[t] = watch[t]
    BY <1>1, <1>6, <2>1, CallGoesOn
  <2>3. Bound(t, i, j)' >= Bound(t, i, j) + g
    BY <1>1, <1>6, <2>1, BoundGrows
  <2>4. b <= Bound(t, i, j) /\ c = b + g
    BY <1>2, <1>6, <2>1 DEF Line
  <2>5. i = j => b = 0 /\ g = 0
    BY <1>2, <2>1 DEF Line, Gain
  <2> HIDE DEF b, c, g
  <2>6. c <= Bound(t, i, j)' /\ c <= 2 /\ (i = j => c = 0)
    BY <1>2, <1>3, <2>3, <2>4, <2>5
  <2> QED BY <2>1, <2>2, <2>6 DEF Line, c
<1> QED BY <1>4, <1>5, <1>6

-----------------------------------------------------------------------------
(* While an interface waits in a dispatch() call, the call serves no other *)
(* more than twice: the rounds go through the descriptors in order, and a  *)
(* round that finds packets on both serves both.                           *)
THEOREM BypassIsBounded == FSpec => []BoundedBypass
<1>1. FInit => FairInv
  <2> SUFFICES ASSUME FInit PROVE FairInv
    OBVIOUS
  <2>1. Control /\ RoundOK
    BY DeliveryInvInit DEF FInit, Delivery
  <2>2. BypassTypeOK /\ \A t \in Threads : \A i, j \in Ifaces : bypassed[t][i][j] = 0
    BY DEF FInit, NoBypass, BypassTypeOK
  <2>3. Visited
    BY DEF FInit, Init, Visited
  <2>4. \A t \in Threads : \A i, j \in Ifaces : Bound(t, i, j) = 1
    BY DEF FInit, Init, Bound
  <2> QED BY <2>1, <2>2, <2>3, <2>4 DEF FairInv, Lines, Line
<1>2. FairInv /\ [FNext]_fairVars => FairInv'
  <2> SUFFICES ASSUME FairInv, [FNext]_fairVars PROVE FairInv'
    OBVIOUS
  <2>1. [Next]_vars
    BY DEF FNext, fairVars
  <2>2. Control' /\ RoundOK' /\ Visited'
    BY <2>1, ControlNext, RoundNext, VisitedNext DEF FairInv
  <2>3. CASE FNext
    BY <2>2, <2>3, HistoryNext, LinesNext DEF FairInv
  <2>4. CASE UNCHANGED fairVars
    <3>1. BypassTypeOK' /\ Lines'
      BY <2>4 DEF fairVars, vars, kernelVars, callVars, FairInv, BypassTypeOK, Lines,
         Line, Queued, Bound, Ahead
    <3> QED BY <2>2, <3>1 DEF FairInv
  <2> QED BY <2>3, <2>4
<1>3. FairInv => BoundedBypass
  BY DEF FairInv, Lines, Line, BoundedBypass
<1> QED BY <1>1, <1>2, <1>3, PTL DEF FSpec
-----------------------------------------------------------------------------
(* What thread t knows of its round while no packet has left its queues.   *)
Waits(t) ==
  /\ pc[t] \notin {"prepare", "copy", "callback"}
  /\ pc[t] = "scan" => rfds[t] # {} /\ \A i \in rfds[t] : Queued(i)
  /\ pc[t] = "read" => Queued(cur[t])

ProgressOK ==
  /\ progress \in [Threads -> BOOLEAN]
  /\ \A t \in Threads : call[t] = "dispatch" /\ ~progress[t] => Waits(t)

(* A queue that nothing leaves does not become empty.                      *)
LEMMA QueueKept ==
  ASSUME Control, [Next]_vars, NEW i \in Ifaces, Queued(i), taken'[i] = taken[i]
  PROVE  Queued(i)'
<1>1. arrived'[i] >= arrived[i]
  <2>1. ASSUME NEW j \in Ifaces, Arrive(j) PROVE arrived'[i] >= arrived[i]
    BY <2>1 DEF Arrive, Control, TypeOK
  <2>2. CASE UNCHANGED arrived
    BY <2>2 DEF Control, TypeOK
  <2>3. (\E j \in Ifaces : Arrive(j)) \/ UNCHANGED arrived
    BY DEF Next, Step, Drop, CallDispatch, CallDispatchEmpty, CallReceive, BeginCall,
       Signal, SelectFails, ReadFails, Prepare, SelectReturns, TimesOut, Scan, ScanEnds,
       Read, ReadAgain, Copy, Callback, vars, kernelVars
  <2> QED BY <2>1, <2>2, <2>3
<1>2. Control'
  BY ControlNext
<1>3. /\ taken[i] \in Nat /\ arrived[i] \in Nat /\ arrived'[i] \in Nat
      /\ taken[i] < arrived[i]
  BY <1>2 DEF Queued, Control, TypeOK
<1>4. taken'[i] < arrived'[i]
  BY <1>1, <1>3
<1> QED BY <1>4 DEF Queued

(* What a thread knows it knows still after its own step, if that neither  *)
(* takes a packet nor ends the call.                                       *)
LEMMA WaitsOn ==
  ASSUME Control, NEW t \in Threads, Own(t), Waits(t), call[t] = "dispatch",
         call'[t] = "dispatch", \A i \in watch[t] : taken'[i] = taken[i]
  PROVE  /\ pc'[t] \notin {"prepare", "copy", "callback"}
         /\ pc'[t] = "scan" => rfds'[t] # {} /\ \A i \in rfds'[t] : Queued(i)
         /\ pc'[t] = "read" => Queued(cur'[t])
<1> USE DEF Control, TypeOK, Waits
<1>1. CASE UNCHANGED <<pc, rfds, cur>>
  BY <1>1
<1>2. ASSUME NEW how, EndCall(t, how) PROVE FALSE
  BY <1>2 DEF EndCall
<1>3. ~(CallDispatch(t) \/ CallReceive(t))
  BY DEF CallDispatch, CallReceive, BeginCall, CallOK
<1>4. ~(SelectFails(t) \/ ReadFails(t) \/ TimesOut(t))
  BY <1>2 DEF SelectFails, ReadFails, TimesOut
<1>5. CASE Signal(t) \/ CallDispatchEmpty(t)
  BY <1>1, <1>2, <1>5 DEF Signal, Interrupted, Unnoticed, CallDispatchEmpty
<1>6. ~(Prepare(t) \/ Copy(t) \/ Callback(t) \/ ScanEnds(t) \/ ReadAgain(t))
  BY DEF Prepare, Copy, Callback, ScanEnds, ReadAgain
<1>7. CASE SelectReturns(t)
  BY <1>7 DEF SelectReturns, Readable, Goto
<1>8. CASE Scan(t)
  <2>1. PICK i \in rfds[t] : cur' = [cur EXCEPT ![t] = i]
    BY <1>8 DEF Scan
  <2>2. pc[t] = "scan" /\ pc'[t] = "read"
    BY <1>8 DEF Scan, Goto
  <2> QED BY <2>1, <2>2
<1>9. ~Read(t)
  <2> SUFFICES ASSUME Read(t) PROVE FALSE
    OBVIOUS
  <2>1. PICK c \in watch[t] : c = cur[t] /\ c \in Ifaces
    BY DEF Read
  <2>2. taken'[c] = taken[c] + 1 /\ taken[c] \in Nat
    BY <2>1 DEF Read
  <2> QED BY <2>1, <2>2
<1> QED BY <1>3, <1>4, <1>5, <1>6, <1>7, <1>8, <1>9 DEF Own, Step

LEMMA ProgressNext == ASSUME Control, ProgressOK, FNext PROVE ProgressOK'
<1>1. [Next]_vars
  BY DEF FNext
<1>2. progress' = [t \in Threads |->
        \/ call[t] # call[t]' \/ PacketLeaves(t)
        \/ progress[t] /\ ~SetsTimeout(t)]
  BY DEF FNext
<1>3. progress' \in [Threads -> BOOLEAN]
  BY <1>2 DEF ProgressOK
<1> SUFFICES ASSUME NEW t \in Threads, call'[t] = "dispatch", ~progress'[t]
             PROVE  Waits(t)'
  BY <1>3 DEF ProgressOK
<1>4. /\ call[t] = "dispatch"
      /\ \A i \in watch[t] : taken'[i] = taken[i]
      /\ ~progress[t] \/ SetsTimeout(t)
  BY <1>2 DEF PacketLeaves
<1>5. CASE SetsTimeout(t)
  BY <1>5 DEF SetsTimeout, Waits
<1>6. CASE ~progress[t]
  <2>1. Waits(t)
    BY <1>4, <1>6 DEF ProgressOK
  <2>2. /\ pc'[t] \notin {"prepare", "copy", "callback"}
        /\ pc'[t] = "scan" => rfds'[t] # {} /\ \A i \in rfds'[t] : Queued(i)
        /\ pc'[t] = "read" => Queued(cur'[t])
    <3>1. CASE Own(t)
      BY <1>4, <2>1, <3>1, WaitsOn
    <3>2. CASE Untouched(t)
      BY <2>1, <3>2 DEF Untouched, Waits
    <3> QED BY <1>1, <3>1, <3>2, OthersApart
  <2>3. watch'[t] = watch[t]
    BY <1>1, <1>4, CallGoesOn
  <2>4. /\ rfds'[t] \subseteq watch[t] /\ watch[t] \subseteq Ifaces
        /\ pc'[t] = "read" => cur'[t] \in watch[t]
    <3>1. Control'
      BY <1>1, ControlNext
    <3> QED BY <2>3, <3>1 DEF Control, TypeOK, CallOK
  <2>5. \A i \in watch[t] : Queued(i) => Queued(i)'
    BY <1>1, <1>4, <2>4, QueueKept
  <2>6. pc'[t] = "read" => \A i \in Ifaces : i = cur'[t] => Queued(i)'
    BY <2>2, <2>4, <2>5
  <2>7. pc'[t] = "scan" => rfds'[t] # {} /\ \A i \in rfds'[t] : Queued(i)'
    BY <2>2, <2>4, <2>5
  <2> QED BY <2>2, <2>4, <2>6, <2>7 DEF Waits, Queued
<1> QED BY <1>4, <1>5, <1>6

(* viface.cpp 1053: a call sets its timeout anew in every round, and so    *)
(* may outlast it, but only because a packet left one of its interfaces    *)
(* since it last did.  Nothing is assumed of the threads, the interfaces   *)
(* they share or what the kernel discards.                                 *)
THEOREM RoundsAreBounded == FSpec => []RoundsTakePackets
<1>1. FInit => Control /\ ProgressOK
  BY ControlInit DEF FInit, Init, ProgressOK
<1>2. Control /\ ProgressOK /\ [FNext]_fairVars => (Control /\ ProgressOK)'
  <2> SUFFICES ASSUME Control, ProgressOK, [FNext]_fairVars
               PROVE  (Control /\ ProgressOK)'
    OBVIOUS
  <2>1. Control'
    BY ControlNext DEF FNext, fairVars
  <2>2. CASE FNext
    BY <2>1, <2>2, ProgressNext
  <2>3. CASE UNCHANGED fairVars
    BY <2>1, <2>3 DEF fairVars, vars, kernelVars, callVars, ProgressOK, Waits, Queued
  <2> QED BY <2>2, <2>3
<1>3. Control /\ ProgressOK => RoundsTakePackets
  BY DEF Control, CallOK, ProgressOK, Waits, RoundsTakePackets
<1> QED BY <1>1, <1>2, <1>3, PTL DEF FSpec
=============================================================================
