--------------------------- MODULE ProgramsProofs ---------------------------
(***************************************************************************)
(* Theorems about module Programs, for any interfaces, packets and number  *)
(* of rounds: what the programs rely on, whatever the user, the kernel and *)
(* the other threads do at what time.                                      *)
(***************************************************************************)
EXTENDS Programs, DispatchProofs

ProgramTypes ==
  /\ prog \in {"threads", "signal", "vifaced", "timeout", "libtins"}
  /\ loop \in {"start", "test", "call", "ended"}
  /\ sender \in {"test", "sleep", "ended"}
  /\ main \in {"runs", "join", "stats", "done", "failed", "aborted"}
  /\ quit \in BOOLEAN
  /\ late \in Nat /\ waiting \in Nat

(* The library is entered from the loop only, by the function that the     *)
(* program calls, and what a call returned is told until the next one.     *)
CallsOK ==
  /\ InCall => loop = "call"
  /\ InCall => call[Receiver] = IF prog = "libtins" THEN "receive" ELSE "dispatch"
  /\ InCall => outcome[Receiver] = "none"
  /\ loop = "start" => prog = "libtins" /\ outcome[Receiver] = "none"

(* The order in which main() and the threads of threads.cpp end.           *)
EndsOK ==
  /\ prog # "threads" => sender = "ended" /\ main \notin {"join", "stats"}
  /\ prog = "threads" /\ loop = "ended" => quit \/ main = "aborted"
  /\ main \in {"join", "stats", "done", "failed"} => loop = "ended"
  /\ main \in {"stats", "done", "failed"} => sender = "ended"

(* Once a packet was handed to the callback after SIGINT, no call of       *)
(* dispatch() follows the one that is ending.                              *)
LateOK ==
  prog \in {"threads", "vifaced"} =>
    \/ late = 0
    \/ /\ late = 1 /\ quit
       /\ InCall => pc[Receiver] = "callback"
       /\ prog = "vifaced" => loop # "test"

(* The packets that libtins.cpp found are with the program or discarded    *)
(* from the time that receive() tells that there is none.                  *)
TinsOK ==
  prog = "libtins" =>
    /\ pc[Receiver] \in {"read", "copy"} => cur[Receiver] = Tins
    /\ waiting <= arrived[Tins]
    /\ outcome[Receiver] = "empty" =>
         1..waiting \subseteq Range(log[Tins]) \cup dropped[Tins]
    /\ main = "done" => outcome[Receiver] = "empty"

Flow == ProgramTypes /\ CallsOK /\ EndsOK

-----------------------------------------------------------------------------
(* One thread uses the library, and no other reads its interfaces.         *)
LEMMA OneReceiver ==
  /\ Receiver \in Threads
  /\ Threads = {Receiver}
  /\ Tins \in Mine[Receiver] /\ Tins \in Ifaces
<1>1. PICK t \in Threads : Threads = {t} /\ Mine[t] # {}
  BY ProgramsAssumption
<1>2. Receiver = t
  BY <1>1 DEF Receiver
<1>3. Tins \in Mine[Receiver]
  BY <1>1, <1>2 DEF Tins
<1> QED BY <1>1, <1>2, <1>3, DispatchAssumption

LEMMA Alone == ExclusiveReaders
  BY OneReceiver DEF ExclusiveReaders

(* The programs use the library as module Dispatch lets any program.       *)
LEMMA UsesOrStutters == [PNext]_allVars => [Next]_vars
<1> SUFFICES ASSUME [PNext]_allVars PROVE [Next]_vars
  OBVIOUS
<1> USE OneReceiver
<1>1. CASE Environment
  BY <1>1 DEF Environment, Next
<1>2. CASE SIGINT \/ SIGALRM
  BY <1>2 DEF SIGINT, SIGALRM, Handled, Next
<1>3. CASE Enter
  BY <1>3 DEF Enter, Next
<1>4. CASE EnterReceive
  BY <1>4 DEF EnterReceive, Next
<1>5. CASE LibraryStep
  BY <1>5 DEF LibraryStep, Next
<1>6. CASE BeginReceiving \/ BackToLoop \/ MainEnds \/ DispatchThrows \/ WorkerEnds
  BY <1>6 DEF BeginReceiving, BackToLoop, MainEnds, DispatchThrows, WorkerEnds
<1>7. CASE SenderStep \/ SendThrows \/ Joins
  BY <1>7 DEF SenderStep, SendThrows, Joins
<1>8. CASE UNCHANGED allVars
  BY <1>8 DEF allVars
<1> QED BY <1>1, <1>2, <1>3, <1>4, <1>5, <1>6, <1>7, <1>8 DEF PNext, ReceiverRuns

(* All that module DispatchProofs proves with ExclusiveReaders holds of    *)
(* the programs.                                                           *)
THEOREM ProgramsUseTheLibrary == ExclusiveReaders /\ (PSpec => Spec)
<1>1. PInit => Init
  BY DEF PInit
<1>2. PSpec => Spec
  BY <1>1, UsesOrStutters, PTL DEF PSpec, Spec
<1> QED BY <1>2, Alone

-----------------------------------------------------------------------------
(* What the steps of the library change that the programs see.             *)

Silent == UNCHANGED <<call, outcome, pc, cur, log, arrived, dropped>>

(* The call of the receiver ends, with no packet.                          *)
CallOver(how) ==
  /\ InCall /\ ~InCall'
  /\ outcome'[Receiver] = how
  /\ pc'[Receiver] = "idle"
  /\ UNCHANGED <<arrived, dropped>>

LEMMA KernelSteps ==
  ASSUME Control, NEW i \in Ifaces, Arrive(i) \/ Drop(i)
  PROVE  /\ UNCHANGED <<call, outcome, pc, cur, log>>
         /\ arrived[Tins] <= arrived'[Tins] /\ arrived'[Tins] \in Nat
         /\ dropped[Tins] \subseteq dropped'[Tins]
<1>1. CASE Arrive(i)
  BY <1>1, OneReceiver DEF Arrive, callVars, Control, TypeOK
<1>2. CASE Drop(i)
  BY <1>2, OneReceiver DEF Drop, callVars, Control, TypeOK
<1> QED BY <1>1, <1>2

LEMMA EndedCall ==
  ASSUME Control, NEW how, EndCall(Receiver, how)
  PROVE  ~InCall' /\ outcome'[Receiver] = how /\ pc'[Receiver] = "idle"
  BY OneReceiver DEF EndCall, InCall, Control, TypeOK

LEMMA Busy ==
  ASSUME Control
  PROVE  InCall <=> pc[Receiver] # "idle"
  BY OneReceiver DEF InCall, Control, CallOK

LEMMA Failures ==
  ASSUME Control, SelectFails(Receiver) \/ ReadFails(Receiver)
  PROVE  CallOver("threw") /\ log' = log /\ pc[Receiver] \in {"select", "read"}
  BY EndedCall, Busy DEF SelectFails, ReadFails, CallOver, kernelVars

LEMMA Signals ==
  ASSUME Control, Handled
  PROVE  \/ Silent
         \/ /\ CallOver("signal") \/ CallOver("threw")
            /\ log' = log /\ pc[Receiver] \in {"select", "read"}
<1>1. CASE UNCHANGED vars
  BY <1>1 DEF vars, kernelVars, callVars, Silent
<1>2. CASE Signal(Receiver) /\ Interrupted(Receiver)
  BY <1>2, EndedCall, Busy DEF Signal, Interrupted, Frozen, CallOver, kernelVars
<1>3. CASE Signal(Receiver) /\ Unnoticed(Receiver)
  BY <1>3 DEF Signal, Unnoticed, kernelVars, Silent
<1> QED BY <1>1, <1>2, <1>3 DEF Handled, Signal

LEMMA Begins ==
  ASSUME Control, NEW c \in {"dispatch", "receive"}, NEW S, NEW timeout,
         BeginCall(Receiver, c, S, timeout)
  PROVE  /\ call'[Receiver] = c /\ outcome'[Receiver] = "none"
         /\ UNCHANGED <<log, arrived, dropped>>
  BY OneReceiver DEF BeginCall, kernelVars, Control, TypeOK

(* A call goes on: a packet goes to the callback, nothing else is told.    *)
GoesOn ==
  /\ InCall /\ UNCHANGED <<call, outcome, arrived, dropped>>
  /\ log' = log \/ pc'[Receiver] = "callback"
  /\ pc[Receiver] = "callback" => log' = log
  /\ call[Receiver] = "receive" => cur' = cur /\ log' = log

Ends ==
  \E how \in {"timeout", "stopped", "packet", "empty"} :
    /\ CallOver(how)
    /\ how = "packet" => call[Receiver] = "receive"
    /\ how # "packet" => log' = log
    /\ how = "empty" => pc[Receiver] = "read" /\ ~Queued(cur[Receiver])

LEMMA LibrarySteps ==
  ASSUME Control, Step(Receiver)
  PROVE  GoesOn \/ Ends
<1> USE OneReceiver, Busy
<1> DEFINE t == Receiver
<1>0. pc[t] \notin {"idle", "read", "copy"} => call[t] = "dispatch"
  BY DEF Control, CallOK
<1>1. CASE Prepare(t) \/ SelectReturns(t) \/ Scan(t) \/ ScanEnds(t)
  BY <1>0, <1>1 DEF Prepare, SelectReturns, Scan, ScanEnds, Goto, callVars,
     kernelVars, GoesOn
<1>2. CASE TimesOut(t)
  BY <1>2, EndedCall DEF TimesOut, kernelVars, CallOver, Ends
<1>3. CASE Read(t)
  BY <1>3 DEF Read, Goto, callVars, GoesOn
<1>4. CASE ReadAgain(t)
  <2>1. CASE EndCall(t, "empty")
    BY <1>4, <2>1, EndedCall DEF ReadAgain, kernelVars, CallOver, Ends
  <2>2. CASE call[t] = "dispatch" /\ Goto(t, "scan")
    BY <1>4, <2>2 DEF ReadAgain, Goto, callVars, kernelVars, GoesOn
  <2> QED BY <1>4, <2>1, <2>2 DEF ReadAgain, ReturnFromReceive
<1>5. CASE Copy(t)
  <2>1. CASE call[t] = "receive" /\ EndCall(t, "packet")
    BY <1>5, <2>1, EndedCall DEF Copy, kernelVars, CallOver, Ends
  <2>2. CASE call[t] = "dispatch" /\ Goto(t, "callback")
    <3>1. pc'[t] = "callback"
      BY <2>2 DEF Goto, Control, TypeOK
    <3> QED BY <1>5, <2>2, <3>1 DEF Copy, Goto, callVars, kernelVars, GoesOn
  <2> QED BY <1>5, <2>1, <2>2 DEF Copy, ReturnFromReceive
<1>6. CASE Callback(t)
  <2>1. CASE Goto(t, "scan")
    BY <1>0, <1>6, <2>1 DEF Callback, Goto, callVars, kernelVars, GoesOn
  <2>2. CASE EndCall(t, "stopped")
    BY <1>6, <2>2, EndedCall DEF Callback, kernelVars, CallOver, Ends
  <2> QED BY <1>6, <2>1, <2>2 DEF Callback
<1> QED BY <1>1, <1>2, <1>3, <1>4, <1>5, <1>6 DEF Step

-----------------------------------------------------------------------------
LEMMA FlowInit == PInit => Flow
<1> SUFFICES ASSUME PInit PROVE Flow
  OBVIOUS
<1>1. call[Receiver] = "none" /\ outcome[Receiver] = "none"
  BY OneReceiver DEF PInit, Init
<1>2. ProgramTypes
  BY DEF PInit, ProgramTypes
<1>3. CallsOK
  BY <1>1 DEF PInit, CallsOK, InCall
<1>4. EndsOK
  BY DEF PInit, EndsOK
<1> QED BY <1>2, <1>3, <1>4 DEF Flow

(* The steps of the programs around the calls of the library.              *)
Around ==
  \/ BeginReceiving \/ BackToLoop \/ MainEnds \/ DispatchThrows \/ WorkerEnds
  \/ SenderStep \/ SendThrows \/ Joins

(* A step of another kind in the eyes of the programs.                     *)
LibraryActs ==
  \/ UNCHANGED allVars
  \/ \E i \in Ifaces : (Arrive(i) \/ Drop(i)) /\ UNCHANGED programVars
  \/ (SelectFails(Receiver) \/ ReadFails(Receiver)) /\ UNCHANGED programVars
  \/ SIGINT \/ SIGALRM \/ Enter \/ EnterReceive \/ LibraryStep

LEMMA Steps == [PNext]_allVars => Around \/ LibraryActs
<1>1. Environment => LibraryActs
  BY DEF Environment, LibraryActs
<1>2. ReceiverRuns => Around \/ LibraryActs
  BY DEF ReceiverRuns, Around, LibraryActs
<1> QED BY <1>1, <1>2 DEF PNext, Around, LibraryActs

LEMMA AroundLibrary == Around => UNCHANGED vars
  BY DEF Around, BeginReceiving, BackToLoop, MainEnds, DispatchThrows, WorkerEnds,
     SenderStep, SendThrows, Joins

LEMMA TypesNext == Control /\ ProgramTypes /\ [PNext]_allVars => ProgramTypes'
<1> SUFFICES ASSUME Control, ProgramTypes, [PNext]_allVars PROVE ProgramTypes'
  OBVIOUS
<1>1. CASE BeginReceiving
  <2>1. arrived[Tins] \in Nat
    BY OneReceiver DEF Control, TypeOK
  <2> QED BY <1>1, <2>1 DEF BeginReceiving, ProgramTypes
<1>2. CASE BackToLoop \/ MainEnds \/ DispatchThrows \/ WorkerEnds
  BY <1>2 DEF BackToLoop, MainEnds, DispatchThrows, WorkerEnds, ProgramTypes
<1>3. CASE SenderStep \/ SendThrows \/ Joins
  BY <1>3 DEF SenderStep, SendThrows, Joins, ProgramTypes
<1>4. CASE LibraryActs
  <2>1. UNCHANGED <<prog, sender, main, waiting>>
    BY <1>4 DEF LibraryActs, SIGINT, SIGALRM, Enter, EnterReceive, LibraryStep,
       programVars, allVars
  <2>2. loop' \in {loop, "call"}
    BY <1>4 DEF LibraryActs, SIGINT, SIGALRM, Enter, EnterReceive, LibraryStep,
       programVars, allVars
  <2>3. quit' \in {quit, TRUE}
    BY <1>4 DEF LibraryActs, SIGINT, SIGALRM, Enter, EnterReceive, LibraryStep,
       programVars, allVars
  <2>4. late' \in {late, late + 1}
    BY <1>4 DEF LibraryActs, SIGINT, SIGALRM, Enter, EnterReceive, LibraryStep,
       programVars, allVars
  <2>5. quit' \in BOOLEAN
    BY <2>3 DEF ProgramTypes
  <2>6. late' \in Nat
    BY <2>4 DEF ProgramTypes
  <2> QED BY <2>1, <2>2, <2>5, <2>6 DEF ProgramTypes
<1> QED BY <1>1, <1>2, <1>3, <1>4, Steps DEF Around

LEMMA CallsNext == Control /\ Flow /\ [PNext]_allVars => CallsOK'
<1> SUFFICES ASSUME Control, Flow, [PNext]_allVars PROVE CallsOK'
  OBVIOUS
<1> USE DEF Flow, CallsOK
<1>1. CASE Around
  <2>1. UNCHANGED <<call, outcome>>
    BY <1>1, AroundLibrary DEF vars, callVars
  <2>2. (InCall' <=> InCall) /\ UNCHANGED prog
    BY <1>1, <2>1 DEF InCall, Around, BeginReceiving, BackToLoop, MainEnds,
       DispatchThrows, WorkerEnds, SenderStep, SendThrows, Joins
  <2>3. loop' # loop => loop' # "start" /\ ~InCall
    BY <1>1 DEF Around, BeginReceiving, BackToLoop, MainEnds, DispatchThrows,
       WorkerEnds, SenderStep, SendThrows, Joins, Returned
  <2> QED BY <2>1, <2>2, <2>3
<1>2. ASSUME NEW i \in Ifaces, Arrive(i) \/ Drop(i), UNCHANGED programVars
      PROVE  CallsOK'
  BY <1>2, KernelSteps DEF programVars, InCall
<1>3. CASE (SelectFails(Receiver) \/ ReadFails(Receiver)) /\ UNCHANGED programVars
  BY <1>3, Failures DEF CallOver, programVars
<1>4. CASE SIGINT \/ SIGALRM
  <2>1. UNCHANGED <<prog, loop>> /\ Handled
    BY <1>4 DEF SIGINT, SIGALRM, programVars
  <2>2. CASE Silent
    BY <2>1, <2>2 DEF Silent, InCall
  <2>3. CASE CallOver("signal") \/ CallOver("threw")
    BY <2>1, <2>3 DEF CallOver
  <2> QED BY <2>1, <2>2, <2>3, Signals
<1>5. CASE Enter
  <2>1. call'[Receiver] = "dispatch" /\ outcome'[Receiver] = "none"
    BY <1>5, Begins DEF Enter, CallDispatch
  <2> QED BY <1>5, <2>1 DEF Enter, InCall
<1>6. CASE EnterReceive
  <2>1. call'[Receiver] = "receive" /\ outcome'[Receiver] = "none"
    BY <1>6, Begins DEF EnterReceive, CallReceive
  <2> QED BY <1>6, <2>1 DEF EnterReceive, InCall
<1>7. CASE LibraryStep
  <2>1. UNCHANGED <<prog, loop>> /\ loop = "call" /\ Step(Receiver)
    BY <1>7 DEF LibraryStep
  <2>2. CASE GoesOn
    BY <2>1, <2>2 DEF GoesOn, InCall
  <2>3. CASE Ends
    BY <2>1, <2>3 DEF Ends, CallOver
  <2> QED BY <2>1, <2>2, <2>3, LibrarySteps
<1>8. CASE UNCHANGED allVars
  BY <1>8 DEF allVars, vars, callVars, programVars, InCall
<1> QED BY <1>1, <1>2, <1>3, <1>4, <1>5, <1>6, <1>7, <1>8, Steps DEF LibraryActs

LEMMA EndsNext == Flow /\ [PNext]_allVars => EndsOK'
<1> SUFFICES ASSUME Flow, [PNext]_allVars PROVE EndsOK'
  OBVIOUS
<1> USE DEF Flow, ProgramTypes, CallsOK, EndsOK
<1>1. CASE BeginReceiving
  BY <1>1 DEF BeginReceiving
<1>2. CASE BackToLoop
  BY <1>2 DEF BackToLoop, Returned, Running, Over
<1>3. CASE MainEnds
  BY <1>3 DEF MainEnds, Returned, Running, Over, Leaves
<1>4. CASE DispatchThrows
  BY <1>4 DEF DispatchThrows, Returned, Running, Over
<1>5. CASE WorkerEnds
  BY <1>5 DEF WorkerEnds, Running, Over, Enough
<1>6. CASE SenderStep
  BY <1>6 DEF SenderStep, Running, Over
<1>7. CASE SendThrows
  BY <1>7 DEF SendThrows, Running, Over
<1>8. CASE Joins
  BY <1>8 DEF Joins
<1>9. CASE LibraryActs
  <2>1. UNCHANGED <<prog, sender, main>> /\ (quit' = quit \/ quit')
    BY <1>9 DEF LibraryActs, SIGINT, SIGALRM, Enter, EnterReceive, LibraryStep,
       programVars, allVars
  <2>2. loop' = loop \/ (loop = "test" /\ Running /\ loop' = "call")
    BY <1>9 DEF LibraryActs, SIGINT, SIGALRM, Enter, EnterReceive, LibraryStep,
       programVars, allVars
  <2> QED BY <2>1, <2>2 DEF Running, Over
<1> QED BY <1>1, <1>2, <1>3, <1>4, <1>5, <1>6, <1>7, <1>8, <1>9, Steps DEF Around

LEMMA FlowHolds == PSpec => [](Control /\ Flow)
<1>1. PInit => Control /\ Flow
  BY ControlInit, FlowInit DEF PInit
<1>2. Control /\ Flow /\ [PNext]_allVars => (Control /\ Flow)'
  BY UsesOrStutters, ControlNext, TypesNext, CallsNext, EndsNext DEF Flow
<1> QED BY <1>1, <1>2, PTL DEF PSpec

-----------------------------------------------------------------------------
(* main() destroys the interface when no thread is in the library and no   *)
(* thread can enter it again.                                              *)
THEOREM InterfaceIsSafe == PSpec => []InterfaceOutlivesThreads
<1>1. Flow => InterfaceOutlivesThreads
  BY DEF Flow, CallsOK, EndsOK, InterfaceOutlivesThreads
<1> QED BY <1>1, FlowHolds, PTL

-----------------------------------------------------------------------------
LEMMA LateNext == Control /\ Flow /\ LateOK /\ [PNext]_allVars => LateOK'
<1> SUFFICES ASSUME Control, Flow, LateOK, [PNext]_allVars,
                    prog' \in {"threads", "vifaced"}
             PROVE  \/ late' = 0
                    \/ /\ late' = 1 /\ quit'
                       /\ InCall' => pc'[Receiver] = "callback"
                       /\ prog' = "vifaced" => loop' # "test"
  BY DEF LateOK
<1>0. prog' = prog
  BY Steps DEF Around, BeginReceiving, BackToLoop, MainEnds, DispatchThrows,
     WorkerEnds, SenderStep, SendThrows, Joins, LibraryActs, SIGINT, SIGALRM, Enter,
     EnterReceive, LibraryStep, programVars, allVars
<1> USE <1>0 DEF LateOK
<1>1. CASE Around
  <2>1. UNCHANGED <<call, pc, late, quit>> /\ (InCall' <=> InCall)
    BY <1>1, AroundLibrary DEF InCall, vars, callVars, Around, BeginReceiving,
       BackToLoop, MainEnds, DispatchThrows, WorkerEnds, SenderStep, SendThrows, Joins
  <2>2. prog = "vifaced" /\ loop' = "test" => loop = "test"
    BY <1>1 DEF Flow, CallsOK, Around, BeginReceiving, BackToLoop, Leaves, MainEnds,
       DispatchThrows, WorkerEnds, SenderStep, SendThrows, Joins
  <2> QED BY <2>1, <2>2
<1>2. ASSUME NEW i \in Ifaces, Arrive(i) \/ Drop(i), UNCHANGED programVars
      PROVE  UNCHANGED <<call, pc, programVars>>
  BY <1>2, KernelSteps
<1>3. CASE UNCHANGED <<call, pc, programVars>>
  BY <1>3 DEF InCall, programVars
<1>4. CASE (SelectFails(Receiver) \/ ReadFails(Receiver)) /\ UNCHANGED programVars
  BY <1>4, Failures DEF CallOver, programVars
<1>5. CASE SIGINT \/ SIGALRM
  <2>1. UNCHANGED <<prog, loop, late>> /\ (quit => quit') /\ Handled
    BY <1>5 DEF SIGINT, SIGALRM, programVars
  <2>2. CASE Silent
    BY <2>1, <2>2 DEF Silent, InCall
  <2>3. CASE CallOver("signal") \/ CallOver("threw")
    BY <2>1, <2>3 DEF CallOver
  <2> QED BY <2>1, <2>2, <2>3, Signals
<1>6. CASE Enter
  BY <1>6 DEF Enter, Enough
<1>7. CASE EnterReceive
  BY <1>7 DEF EnterReceive
<1>8. CASE LibraryStep
  <2>1. /\ UNCHANGED <<quit, loop>> /\ loop = "call" /\ Step(Receiver)
        /\ late' = IF quit /\ log' # log THEN late + 1 ELSE late
    BY <1>8 DEF LibraryStep
  <2>2. CASE GoesOn
    <3>1. outcome'[Receiver] # "stopped"
      BY <2>2 DEF GoesOn, Flow, CallsOK
    <3>2. pc[Receiver] = "callback" => ~quit
      <4> SUFFICES ASSUME pc[Receiver] = "callback", quit PROVE FALSE
        OBVIOUS
      <4>1. (outcome'[Receiver] = "stopped") = ~Continues
        BY <1>8 DEF LibraryStep
      <4>2. ~Continues
        BY DEF Continues
      <4> QED BY <3>1, <4>1, <4>2
    <3>3. late = 0
      BY <2>2, <3>2 DEF GoesOn
    <3>4. log' # log => pc'[Receiver] = "callback"
      BY <2>2 DEF GoesOn
    <3> QED BY <2>1, <3>3, <3>4
  <2>3. CASE Ends
    <3>1. ~InCall' /\ log' = log
      BY <2>3 DEF Ends, CallOver, Flow, CallsOK
    <3> QED BY <2>1, <3>1
  <2> QED BY <2>1, <2>2, <2>3, LibrarySteps
<1>9. CASE UNCHANGED allVars
  BY <1>3, <1>9 DEF allVars, vars, callVars
<1> QED BY <1>1, <1>2, <1>3, <1>4, <1>5, <1>6, <1>7, <1>8, <1>9, Steps DEF LibraryActs

(* The programs whose callback looks at quit take at most one packet after *)
(* SIGINT, whatever call of dispatch() it finds, or none.                  *)
THEOREM QuitsWithinOnePacket == PSpec => []QuitWithinOnePacket
<1>1. PInit => LateOK
  BY DEF PInit, LateOK
<1>2. Control /\ Flow /\ LateOK => QuitWithinOnePacket
  BY DEF LateOK, QuitWithinOnePacket
<1> QED BY <1>1, <1>2, LateNext, FlowHolds, PTL DEF PSpec

-----------------------------------------------------------------------------
(* read() finds nothing: every packet that arrived is with the program or  *)
(* was discarded.                                                          *)
LEMMA NothingThere ==
  ASSUME Control, Books, pc[Receiver] = "read", cur[Receiver] = Tins, ~Queued(Tins)
  PROVE  1..arrived[Tins] = Range(log[Tins]) \cup dropped[Tins]
<1>1. taken[Tins] = arrived[Tins]
  BY OneReceiver DEF Control, TypeOK, Books, NotAhead, Queued
<1>2. InHand(Tins) = {}
  BY OneReceiver DEF InHand
<1>3. 1..taken[Tins] = Range(log[Tins]) \cup dropped[Tins] \cup InHand(Tins)
  BY OneReceiver DEF Books, NothingLost
<1> QED BY <1>1, <1>2, <1>3

LEMMA TinsNext == Control /\ Books /\ Flow /\ TinsOK /\ [PNext]_allVars => TinsOK'
<1> SUFFICES ASSUME Control, Books, Flow, TinsOK, [PNext]_allVars, prog = "libtins"
             PROVE  TinsOK'
  BY Steps DEF TinsOK, Around, BeginReceiving, BackToLoop, MainEnds, DispatchThrows,
     WorkerEnds, SenderStep, SendThrows, Joins, LibraryActs, SIGINT, SIGALRM, Enter,
     EnterReceive, LibraryStep, programVars, allVars
<1>0. arrived[Tins] \in Nat /\ waiting \in Nat
  BY OneReceiver DEF Control, TypeOK, Flow, ProgramTypes
<1> USE DEF TinsOK
<1>1. CASE Around
  <2>1. UNCHANGED <<outcome, pc, cur, log, arrived, dropped>>
    BY <1>1, AroundLibrary DEF vars, kernelVars, callVars
  <2>2. CASE BeginReceiving
    BY <1>0, <2>1, <2>2 DEF BeginReceiving, Flow, CallsOK
  <2>3. CASE ~BeginReceiving
    <3>1. waiting' = waiting
      BY <1>1, <2>3 DEF Around, BackToLoop, MainEnds, DispatchThrows, WorkerEnds,
         SenderStep, SendThrows, Joins
    <3>2. main' = "done" => main = "done" \/ outcome[Receiver] = "empty"
      BY <1>1, <2>3 DEF Around, BackToLoop, MainEnds, Leaves, DispatchThrows,
         WorkerEnds, SenderStep, SendThrows, Joins
    <3> QED BY <2>1, <3>1, <3>2
  <2> QED BY <2>2, <2>3
<1>2. ASSUME NEW i \in Ifaces, Arrive(i) \/ Drop(i), UNCHANGED programVars
      PROVE  TinsOK'
  <2>1. /\ UNCHANGED <<outcome, pc, cur, log, waiting, main>>
        /\ arrived[Tins] <= arrived'[Tins] /\ arrived'[Tins] \in Nat
        /\ dropped[Tins] \subseteq dropped'[Tins]
    BY <1>2, KernelSteps DEF programVars
  <2>2. waiting' <= arrived'[Tins]
    BY <1>0, <2>1
  <2> QED BY <2>1, <2>2
<1>3. CASE (SelectFails(Receiver) \/ ReadFails(Receiver)) /\ UNCHANGED programVars
  <2>1. CallOver("threw") /\ UNCHANGED <<waiting, main>>
    BY <1>3, Failures DEF programVars
  <2>2. main # "done"
    BY <2>1 DEF CallOver, Flow, CallsOK, EndsOK
  <2> QED BY <2>1, <2>2 DEF CallOver
<1>4. CASE SIGINT \/ SIGALRM \/ Enter
  BY <1>4 DEF SIGINT, SIGALRM, Enter
<1>5. CASE EnterReceive
  <2>1. PICK i \in Mine[Receiver] : /\ BeginCall(Receiver, "receive", {i}, FALSE)
                                    /\ cur' = [cur EXCEPT ![Receiver] = i]
    BY <1>5 DEF EnterReceive, CallReceive
  <2>2. outcome'[Receiver] = "none" /\ UNCHANGED <<arrived, log, dropped>>
    BY <2>1, Begins
  <2> QED BY <1>5, <2>2 DEF EnterReceive, Running, Over
<1>6. CASE LibraryStep
  <2>1. UNCHANGED <<waiting, main>> /\ main # "done" /\ Step(Receiver)
    BY <1>6 DEF LibraryStep, Running, Over
  <2>2. CASE GoesOn
    <3>1. call[Receiver] = "receive" /\ outcome[Receiver] = "none"
      BY <2>2 DEF GoesOn, Flow, CallsOK
    <3>2. pc[Receiver] \in {"read", "copy"}
      BY <2>2, <3>1, Busy, OneReceiver DEF GoesOn, Control, CallOK
    <3> QED BY <2>1, <2>2, <3>1, <3>2 DEF GoesOn
  <2>3. CASE Ends
    <3>1. PICK how \in {"timeout", "stopped", "packet", "empty"} :
            /\ CallOver(how)
            /\ how # "packet" => log' = log
            /\ how = "empty" => pc[Receiver] = "read" /\ ~Queued(cur[Receiver])
      BY <2>3 DEF Ends
    <3>2. CASE how = "empty"
      <4>1. 1..arrived[Tins] = Range(log[Tins]) \cup dropped[Tins]
        BY <3>1, <3>2, NothingThere
      <4>2. 1..waiting \subseteq 1..arrived[Tins]
        BY <1>0
      <4> QED BY <2>1, <3>1, <3>2, <4>1, <4>2 DEF CallOver
    <3>3. CASE how # "empty"
      BY <2>1, <3>1, <3>3 DEF CallOver
    <3> QED BY <3>2, <3>3
  <2> QED BY <2>1, <2>2, <2>3, LibrarySteps
<1>7. CASE UNCHANGED allVars
  BY <1>7 DEF allVars, vars, kernelVars, callVars, programVars
<1> QED BY <1>1, <1>2, <1>3, <1>4, <1>5, <1>6, <1>7, Steps DEF LibraryActs

(* libtins.cpp ends its loop with every packet that had reached the RX     *)
(* queue before it received, unless the kernel discarded it: an end that   *)
(* receive() reports is never one in which packets are queued.  Packets    *)
(* that the kernel steered to the TX queue are not counted.                *)
THEOREM DrainsItsQueueAlways == PSpec => []DrainsItsQueue
<1>1. PInit => TinsOK /\ Books
  <2>1. ASSUME PInit PROVE TinsOK
    <3>1. arrived[Tins] = 0 /\ pc[Receiver] = "idle" /\ outcome[Receiver] = "none"
      BY <2>1, OneReceiver DEF PInit, Init
    <3>2. waiting = 0 /\ main = "runs"
      BY <2>1 DEF PInit
    <3> QED BY <3>1, <3>2 DEF TinsOK
  <2> QED BY <2>1, BooksInit DEF PInit
<1>2. Control /\ Books /\ Flow /\ TinsOK /\ [PNext]_allVars => (TinsOK /\ Books)'
  BY TinsNext, BooksNext, UsesOrStutters, Alone
<1>3. TinsOK => DrainsItsQueue
  BY DEF TinsOK, DrainsItsQueue
<1> QED BY <1>1, <1>2, <1>3, FlowHolds, PTL DEF PSpec
=============================================================================
