-------------------------------- MODULE Stats --------------------------------
(***************************************************************************)
(* listStats(), readStat() and clearStat() of src/viface.cpp.  The kernel  *)
(* keeps one counter per statistic and never clears it; the library clears *)
(* one by remembering its value (stats_cache), and knows the names from    *)
(* the directory of the interface in /sys (stats_keys_cache).              *)
(*                                                                         *)
(* One thread calls the library; the kernel counts between any two of its  *)
(* steps.  The interface is the same one throughout: its counters only     *)
(* grow.                                                                   *)
(***************************************************************************)
EXTENDS Integers, Sequences

CONSTANTS
  Offered,     \* files in /sys/class/net/<name>/statistics
  Names,       \* names that the program asks for
  Wrap,        \* 2^64, above which uint64_t wraps around
  MaxCount,    \* bound on the kernel's counters
  ReadErrors,  \* may readdir() and the read of a file fail
  IoErrors     \* may opendir(), closedir() and the opening of a file fail

ASSUME StatsAssumption ==
  /\ Offered \subseteq Names
  /\ Wrap \in Nat /\ MaxCount \in Nat /\ MaxCount < Wrap
  /\ ReadErrors \in BOOLEAN /\ IoErrors \in BOOLEAN

VARIABLES
  kernel,    \* kernel[s]: the counter of s
  keys,      \* stats_keys_cache
  cache,     \* stats_cache; 0 stands for no entry as well
  pc,        \* where the call is
  op, stat,  \* the operation under way and its argument
  value,     \* local variable of readStatFile()
  answer,    \* what the last call returned: << >> or <<number>>
  outcome    \* how it ended

localVars == <<op, stat, value>>
vars == <<kernel, keys, cache, pc, localVars, answer, outcome>>

Uint64 == 0..(Wrap - 1)
(* Subtraction of type uint64_t.                                           *)
Minus(a, b) == IF b <= a THEN a - b ELSE a - b + Wrap

Init ==
  /\ kernel \in [Offered -> 0..MaxCount]
  /\ keys = {}
  /\ cache = [s \in Offered |-> 0]
  /\ pc = "idle" /\ op = "none" /\ stat \in Names /\ value = 0
  /\ answer = << >> /\ outcome = "none"

(* The kernel counts an event.                                             *)
Count(s) ==
  /\ kernel[s] < MaxCount
  /\ kernel' = [kernel EXCEPT ![s] = @ + 1]
  /\ UNCHANGED <<keys, cache, pc, localVars, answer, outcome>>

(* The program calls an operation; readStatFile() lists first if it knows  *)
(* no names.                                                               *)
Call(operation, s) ==
  /\ pc = "idle"
  /\ pc' = IF operation = "list" \/ keys = {} THEN "list" ELSE "check"
  /\ op' = operation /\ stat' = s
  /\ answer' = << >> /\ outcome' = "none"
  /\ UNCHANGED <<kernel, keys, cache, value>>

Return(how) == pc' = "idle" /\ op' = "none" /\ outcome' = how

(* Mutant: hidden files, and . and .., are not left out.                   *)
ListHidden ==
  /\ pc = "list"
  /\ keys' = Names
  /\ IF op = "list" THEN Return("ok")
     ELSE pc' = "check" /\ UNCHANGED <<op, outcome>>
  /\ UNCHANGED <<kernel, cache, stat, value, answer>>

(* listStats(): an error of readdir() looks like the end of the directory. *)
List ==
  /\ pc = "list"
  /\ keys' \in IF ReadErrors THEN SUBSET Offered ELSE {Offered}
  /\ IF op = "list" THEN Return("ok")
     ELSE pc' = "check" /\ UNCHANGED <<op, outcome>>
  /\ UNCHANGED <<kernel, cache, stat, value, answer>>

(* opendir() or closedir() fails, or the name is unknown, or its file      *)
(* cannot be opened.                                                       *)
Throw ==
  /\ \/ pc = "list" /\ IoErrors
     \/ pc = "check" /\ (stat \notin keys \/ IoErrors)
  /\ Return("threw")
  /\ UNCHANGED <<kernel, keys, cache, stat, value, answer>>

Open ==
  /\ pc = "check" /\ stat \in keys
  /\ pc' = "read"
  /\ UNCHANGED <<kernel, keys, cache, localVars, answer, outcome>>

(* Nothing looks at the state of the stream: if the read fails at once,    *)
(* the local variable, never initialised, is what it happens to be.        *)
ReadFile ==
  /\ pc = "read"
  /\ value' \in IF ReadErrors THEN Uint64 ELSE {kernel[stat]}
  /\ pc' = "finish"
  /\ UNCHANGED <<kernel, keys, cache, op, stat, answer, outcome>>

(* Mutant: every read starts the count anew.                               *)
ReadStatAndClear ==
  /\ pc = "finish" /\ op = "read"
  /\ answer' = <<Minus(value, cache[stat])>>
  /\ cache' = [cache EXCEPT ![stat] = value]
  /\ Return("ok")
  /\ UNCHANGED <<kernel, keys, stat, value>>

(* readStat().                                                             *)
ReadStat ==
  /\ pc = "finish" /\ op = "read"
  /\ answer' = <<Minus(value, cache[stat])>>
  /\ Return("ok")
  /\ UNCHANGED <<kernel, keys, cache, stat, value>>

(* Mutant: the count is cleared of what readStat() would give.             *)
ClearStatOfDifference ==
  /\ pc = "finish" /\ op = "clear"
  /\ cache' = [cache EXCEPT ![stat] = Minus(value, cache[stat])]
  /\ Return("ok")
  /\ UNCHANGED <<kernel, keys, stat, value, answer>>

(* Mutant: clearStat() adds to what it cleared before.                     *)
ClearStatAdds ==
  /\ pc = "finish" /\ op = "clear"
  /\ cache' = [cache EXCEPT ![stat] = (@ + value) % Wrap]
  /\ Return("ok")
  /\ UNCHANGED <<kernel, keys, stat, value, answer>>

(* Mutant: clearStat() leaves the entry that readStatFile() created.       *)
ClearStatKeepsEntry ==
  /\ pc = "finish" /\ op = "clear"
  /\ cache' = cache
  /\ Return("ok")
  /\ UNCHANGED <<kernel, keys, stat, value, answer>>

(* clearStat().                                                            *)
ClearStat ==
  /\ pc = "finish" /\ op = "clear"
  /\ cache' = [cache EXCEPT ![stat] = value]
  /\ Return("ok")
  /\ UNCHANGED <<kernel, keys, stat, value, answer>>

Step == List \/ Throw \/ Open \/ ReadFile \/ ReadStat \/ ClearStat

Next ==
  \/ \E s \in Offered : Count(s)
  \/ \E operation \in {"list", "read", "clear"}, s \in Names : Call(operation, s)
  \/ Step

Spec == Init /\ [][Next]_vars

-----------------------------------------------------------------------------
(* Properties.                                                             *)

(* The values of the variables; a file is read only if the kernel has it.  *)
TypeOK ==
  /\ kernel \in [Offered -> 0..MaxCount]
  /\ keys \subseteq Offered
  /\ cache \in [Offered -> Uint64]
  /\ pc \in {"idle", "list", "check", "read", "finish"}
  /\ op \in {"none", "list", "read", "clear"} /\ stat \in Names
  /\ pc \in {"read", "finish"} => stat \in Offered
  /\ value \in Uint64
  /\ answer = << >> \/ \E n \in Uint64 : answer = <<n>>
  /\ outcome \in {"none", "ok", "threw"}

(* viface.cpp 990: value - stats_cache[stat] does not wrap around, however *)
(* long ago the file was read and whatever was cleared since.              *)
NoWrap ==
  /\ \A s \in Offered : cache[s] <= kernel[s]
  /\ pc = "finish" => cache[stat] <= value /\ value <= kernel[stat]

(* The call takes effect when it reads the file: from then on what counts  *)
(* as cleared, or as the answer, is fixed, though the object learns it in  *)
(* the next step.                                                          *)
ClearedAt(s) ==
  IF pc = "finish" /\ op = "clear" /\ stat = s THEN value ELSE cache[s]

Abstract == INSTANCE Counters WITH
  since <- [s \in Offered |-> kernel[s] - ClearedAt(s)],
  call <- IF pc = "idle" THEN << >> ELSE <<op, stat>>,
  done <- pc = "finish",
  answer <- IF pc = "finish" /\ op = "read" THEN <<value - cache[stat]>> ELSE answer,
  outcome <- outcome

(* readStat() counts the events since the last clearStat(), none twice and *)
(* none forgotten, and every call ends (viface.hpp 324-363).               *)
Counts == Abstract!Spec
=============================================================================
