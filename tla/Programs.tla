------------------------------ MODULE Programs ------------------------------
(***************************************************************************)
(* The programs under examples/ that wait for packets until they are told  *)
(* to stop, on top of module Dispatch:                                     *)
(*   "threads"  threads.cpp: a receiving and a sending thread that poll    *)
(*              the flag quit, joined by main();                           *)
(*   "signal"   signal.cpp: main() restarts dispatch() after each signal   *)
(*              and an alarm() that its handler renews;                    *)
(*   "vifaced"  vifaced.cpp: one dispatch() whose callback looks at quit;  *)
(*   "timeout"  timeout.cpp: dispatch() with a timeout, a number of times; *)
(*   "libtins"  libtins.cpp, from where other libraries send packets to its *)
(*              interface: it calls receive() until there is none left.    *)
(* Signals go to main(): to the thread in dispatch() in the programs with  *)
(* one thread, to the one that waits in join() in threads.cpp.             *)
(***************************************************************************)
EXTENDS Dispatch

CONSTANTS Times     \* rounds of timeout.cpp

ASSUME ProgramsAssumption ==
  /\ Times \in Nat
  /\ \E t \in Threads : Threads = {t} /\ Mine[t] # {}

VARIABLES
  prog,      \* the program that runs
  loop,      \* the loop around dispatch() or receive(): "start" (libtins),
             \* "test", "call" or "ended"
  sender,    \* send_wkr() of threads.cpp: "test", "sleep" or "ended"
  main,      \* main(): "runs", then in threads.cpp "join" and "stats";
             \* "done", "failed" (return -1) or "aborted" (std::terminate)
  quit,      \* the flag that SIGINT sets
  times,     \* calls of dispatch() that timeout.cpp has made
  late,      \* packets handed to the callback since quit was set
  waiting    \* libtins: packets that had reached the RX queue when the
             \* loop began

programVars == <<prog, loop, sender, main, quit, times, late, waiting>>
allVars == <<vars, programVars>>

Receiver == CHOOSE t \in Threads : TRUE
InCall == call[Receiver] # "none"
Over == {"done", "failed", "aborted"}
Running == main \notin Over

PInit ==
  /\ Init
  /\ prog \in {"threads", "signal", "vifaced", "timeout", "libtins"}
  /\ loop = IF prog = "libtins" THEN "start" ELSE "test"
  /\ main = "runs"
  /\ sender = IF prog = "threads" THEN "test" ELSE "ended"
  /\ quit = FALSE /\ times = 0 /\ late = 0 /\ waiting = 0

-----------------------------------------------------------------------------
(* Signals.                                                                *)

Handled ==
  IF prog # "threads" /\ InCall THEN Signal(Receiver) ELSE UNCHANGED vars

SIGINT ==
  /\ Running /\ prog \in {"threads", "signal", "vifaced"}
  /\ quit' = TRUE
  /\ Handled
  /\ UNCHANGED <<prog, loop, sender, main, times, late, waiting>>

(* Mutant: the handler does not renew the alarm, whose signal is lost in a *)
(* callback or between two calls like any other.                           *)
SIGALRMOnce ==
  /\ Running /\ prog = "signal" /\ times = 0
  /\ times' = 1
  /\ Handled
  /\ UNCHANGED <<prog, loop, sender, main, quit, late, waiting>>

(* The alarm, which the handler renews each time, goes off.                *)
SIGALRM ==
  /\ Running /\ prog = "signal"
  /\ Handled
  /\ UNCHANGED programVars

-----------------------------------------------------------------------------
(* The loop around dispatch().                                             *)

(* receive_wkr() looks at quit before each call.                           *)
Enough == prog = "threads" /\ quit

Enter ==
  /\ Running /\ loop = "test" /\ ~Enough /\ prog # "libtins"
  /\ CallDispatch(Receiver)
  /\ watch'[Receiver] = Mine[Receiver]
  /\ timed'[Receiver] = (prog \in {"threads", "timeout"})
  /\ loop' = "call"
  /\ UNCHANGED <<prog, sender, main, quit, times, late, waiting>>

(* libtins.cpp: it begins to call receive().  Of the packets sent to its   *)
(* interface, those that the kernel steers to the TX queue, the second of  *)
(* the two that alloc_viface() attaches, are not among arrived: no call    *)
(* reads them.                                                             *)
Tins == CHOOSE i \in Mine[Receiver] : TRUE
BeginReceiving ==
  /\ loop = "start"
  /\ loop' = "test"
  /\ waiting' = arrived[Tins]
  /\ UNCHANGED <<vars, prog, sender, main, quit, times, late>>

EnterReceive ==
  /\ Running /\ loop = "test" /\ prog = "libtins"
  /\ CallReceive(Receiver)
  /\ cur'[Receiver] = Tins
  /\ loop' = "call"
  /\ UNCHANGED <<prog, sender, main, quit, times, late, waiting>>

(* Mutant: the callback of threads.cpp and vifaced.cpp always goes on.     *)
ContinuesAlways == TRUE
(* What the callback returns.                                              *)
Continues == prog \in {"threads", "vifaced"} => ~quit

LibraryStep ==
  /\ Running /\ loop = "call"
  /\ Step(Receiver)
  /\ pc[Receiver] = "callback" => (outcome'[Receiver] = "stopped") = ~Continues
  /\ late' = IF quit /\ log' # log THEN late + 1 ELSE late
  /\ UNCHANGED <<prog, loop, sender, main, quit, times, waiting>>

(* The call has returned.  In the programs with one thread the loop ends   *)
(* as main() says, and main() with it.                                     *)
Returned == Running /\ loop = "call" /\ ~InCall
Threw == outcome[Receiver] = "threw"

(* Mutant: libtins.cpp leaves its loop with a packet, not without one.     *)
LeavesWithPacket ==
  \/ prog = "vifaced"
  \/ prog = "signal" /\ quit
  \/ prog = "timeout" /\ times + 1 >= Times
  \/ prog = "libtins" /\ outcome[Receiver] = "packet"

Leaves ==
  \/ prog = "vifaced"
  \/ prog = "signal" /\ quit
  \/ prog = "timeout" /\ times + 1 >= Times
  \/ prog = "libtins" /\ outcome[Receiver] = "empty"

BackToLoop ==
  /\ Returned /\ ~Threw /\ ~Leaves
  /\ loop' = "test"
  /\ times' = IF prog = "timeout" THEN times + 1 ELSE times
  /\ UNCHANGED <<vars, prog, sender, main, quit, late, waiting>>

MainEnds ==
  /\ Returned /\ ~Threw /\ Leaves
  /\ loop' = "ended" /\ main' = "done"
  /\ UNCHANGED <<vars, prog, sender, quit, times, late, waiting>>

(* main() catches an exception of dispatch(); one that leaves the function *)
(* of a thread ends the process.                                           *)
DispatchThrows ==
  /\ Returned /\ Threw
  /\ loop' = "ended"
  /\ main' = IF prog = "threads" THEN "aborted" ELSE "failed"
  /\ UNCHANGED <<vars, prog, sender, quit, times, late, waiting>>

WorkerEnds ==
  /\ Running /\ loop = "test" /\ Enough
  /\ loop' = "ended"
  /\ UNCHANGED <<vars, prog, sender, main, quit, times, late, waiting>>

-----------------------------------------------------------------------------
(* send_wkr() and main() of threads.cpp.                                   *)

SenderStep ==
  /\ Running
  /\ \/ sender = "test" /\ sender' = IF quit THEN "ended" ELSE "sleep"
     \/ sender = "sleep" /\ sender' = "test"
  /\ UNCHANGED <<vars, prog, loop, main, quit, times, late, waiting>>

SendThrows ==
  /\ IoErrors /\ Running
  /\ sender = "test" /\ ~quit
  /\ main' = "aborted"
  /\ UNCHANGED <<vars, prog, loop, sender, quit, times, late, waiting>>

(* Mutant: the sending thread is not joined.                               *)
JoinsReceiverOnly ==
  /\ prog = "threads"
  /\ \/ main = "runs" /\ loop = "ended" /\ main' = "join"
     \/ main = "join" /\ main' = "stats"
     \/ main = "stats" /\ main' = "done"
  /\ UNCHANGED <<vars, prog, loop, sender, quit, times, late, waiting>>

(* Both threads are joined, then the statistics are printed, which may     *)
(* throw (module Stats), and the interface is destroyed.                   *)
Joins ==
  /\ prog = "threads"
  /\ \/ main = "runs" /\ loop = "ended" /\ main' = "join"
     \/ main = "join" /\ sender = "ended" /\ main' = "stats"
     \/ main = "stats" /\ main' \in {"done", "failed"}
  /\ UNCHANGED <<vars, prog, loop, sender, quit, times, late, waiting>>

-----------------------------------------------------------------------------
Environment ==
  /\ \/ \E i \in Ifaces : Arrive(i) \/ Drop(i)
     \/ Running /\ (SelectFails(Receiver) \/ ReadFails(Receiver))
  /\ UNCHANGED programVars

ReceiverRuns ==
  \/ Enter \/ BeginReceiving \/ EnterReceive
  \/ LibraryStep \/ BackToLoop \/ MainEnds \/ DispatchThrows \/ WorkerEnds

PNext ==
  \/ Environment \/ SIGINT \/ SIGALRM
  \/ ReceiverRuns \/ SenderStep \/ SendThrows \/ Joins

(* Each thread is scheduled, a sleep() and a timeout expire, an alarm goes *)
(* off.  Whether the user interrupts the program is left open.             *)
PSpec ==
  /\ PInit /\ [][PNext]_allVars
  /\ WF_allVars(ReceiverRuns) /\ WF_allVars(SenderStep) /\ WF_allVars(Joins)
  /\ WF_allVars(SIGALRM)

-----------------------------------------------------------------------------
(* Properties.                                                             *)

(* threads.cpp 93-98, signal.cpp 41-42: SIGINT ends these two programs,    *)
(* although it is lost to a dispatch() it does not find in select(): there *)
(* is a timeout, or an alarm, to make dispatch() return once packets stop. *)
InterruptEnds == (quit /\ prog \in {"threads", "signal"}) ~> (main \in Over)

(* timeout.cpp 14-15: a number of calls of dispatch(), then the end; and   *)
(* libtins.cpp 141-158: an end of the loop once packets stop.              *)
LoopsEnd == (prog \in {"timeout", "libtins"}) ~> (main \in Over)

(* libtins.cpp 134-158: "No more packets available".  The loop ends with   *)
(* every packet that was in the RX queue when it began received, or        *)
(* discarded by the kernel.  This is less than every packet sent: those    *)
(* that the kernel steered to the TX queue are left there.                 *)
DrainsItsQueue ==
  prog = "libtins" /\ main = "done" =>
    1..waiting \subseteq Range(log[Tins]) \cup dropped[Tins]

(* Under any traffic, the programs whose callback looks at quit take at    *)
(* most one packet after SIGINT.                                           *)
QuitWithinOnePacket == prog \in {"threads", "vifaced"} => late <= 1

(* threads.cpp 119-122: main() goes on to the end of the interface's life  *)
(* only when no thread uses the interface any more.                        *)
InterfaceOutlivesThreads ==
  main \in {"stats", "done", "failed"} => ~InCall /\ loop = "ended" /\ sender = "ended"
=============================================================================
