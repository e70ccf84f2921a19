------------------------------ MODULE Counters ------------------------------
(***************************************************************************)
(* What libviface promises about the statistics of an interface, with no   *)
(* mention of files or caches (viface.hpp 324-363): readStat() gives the   *)
(* number of events since the last clearStat() of that statistic, as it    *)
(* was at some moment of the call.  Module Stats implements this module.   *)
(***************************************************************************)
EXTENDS Integers, Sequences

CONSTANTS Offered,   \* statistics that the kernel keeps
          Names      \* names that the program may ask for

VARIABLES since,     \* since[s]: events of s that the program has not cleared
          call,      \* the call under way, << >> or <<operation, name>>
          done,      \* has that call had its effect
          answer,    \* what the last call gave, << >> or <<number>>
          outcome    \* how it ended

vars == <<since, call, done, answer, outcome>>

Init ==
  /\ since \in [Offered -> Nat]
  /\ call = << >> /\ done = FALSE /\ answer = << >> /\ outcome = "none"

Count(s) ==
  /\ since' = [since EXCEPT ![s] = @ + 1]
  /\ UNCHANGED <<call, done, answer, outcome>>

Begin(op, s) ==
  /\ call = << >>
  /\ call' = <<op, s>>
  /\ answer' = << >> /\ outcome' = "none"
  /\ UNCHANGED <<since, done>>

Read(s) ==
  /\ call = <<"read", s>> /\ ~done
  /\ done' = TRUE
  /\ answer' = <<since[s]>>
  /\ UNCHANGED <<since, call, outcome>>

Clear(s) ==
  /\ call = <<"clear", s>> /\ ~done
  /\ done' = TRUE
  /\ since' = [since EXCEPT ![s] = 0]
  /\ UNCHANGED <<call, answer, outcome>>

(* An exception leaves the count as it was.                                *)
End ==
  /\ call # << >>
  /\ \/ outcome' = "threw" /\ ~done
     \/ outcome' = "ok" /\ (done \/ call[1] = "list")
  /\ call' = << >> /\ done' = FALSE
  /\ UNCHANGED <<since, answer>>

Next ==
  \/ \E s \in Offered : Count(s) \/ Read(s) \/ Clear(s)
  \/ \E op \in {"list", "read", "clear"}, s \in Names : Begin(op, s)
  \/ End

(* A call that has begun ends.                                             *)
Spec == Init /\ [][Next]_vars /\ WF_vars(End)
=============================================================================
