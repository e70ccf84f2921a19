----------------------------- MODULE StatsProofs -----------------------------
(***************************************************************************)
(* Theorems about modules Stats and StatsExample, for any set of           *)
(* statistics and any number of events, as long as the files of the kernel *)
(* can be read.                                                            *)
(***************************************************************************)
EXTENDS StatsExample, UtilsProofs

-----------------------------------------------------------------------------
LEMMA StatsTypeInit == Init => TypeOK
  BY StatsAssumption DEF Init, TypeOK, Uint64

LEMMA StatsTypeNext == TypeOK /\ [Next]_vars => TypeOK'
<1> USE StatsAssumption
<1> SUFFICES ASSUME TypeOK, [Next]_vars PROVE TypeOK'
  OBVIOUS
<1> USE DEF TypeOK, Uint64
<1>1. ASSUME NEW s \in Offered, Count(s) PROVE TypeOK'
  BY <1>1 DEF Count, localVars
<1>2. ASSUME NEW o \in {"list", "read", "clear"}, NEW s \in Names, Call(o, s)
      PROVE TypeOK'
  BY <1>2 DEF Call
<1>3. CASE List
  BY <1>3 DEF List, Return
<1>4. CASE Throw
  BY <1>4 DEF Throw, Return
<1>5. CASE Open
  BY <1>5 DEF Open, localVars
<1>6. CASE ReadFile
  <2>1. value' \in Uint64
    BY <1>6 DEF ReadFile
  <2> QED BY <1>6, <2>1 DEF ReadFile
<1>7. CASE ReadStat
  <2>1. value \in Int /\ cache[stat] \in Int /\ stat \in Offered
    BY <1>7 DEF ReadStat
  <2>2. Minus(value, cache[stat]) \in Uint64
    BY <1>7, <2>1 DEF ReadStat, Minus
  <2> QED BY <1>7, <2>2 DEF ReadStat, Return
<1>8. CASE ClearStat
  BY <1>8 DEF ClearStat, Return
<1>9. CASE UNCHANGED vars
  BY <1>9 DEF vars, localVars
<1> QED BY <1>1, <1>2, <1>3, <1>4, <1>5, <1>6, <1>7, <1>8, <1>9 DEF Next, Step

(* The counters, the caches and the local variables keep to their values,  *)
(* and a file is read only of a statistic that the kernel has.             *)
THEOREM StatsTypeCorrect == Spec => []TypeOK
  BY StatsTypeInit, StatsTypeNext, PTL DEF Spec

-----------------------------------------------------------------------------
(* What was remembered, and what was read, is never ahead of the kernel,   *)
(* so that the subtraction in readStat() does not wrap around.             *)
THEOREM DifferenceNeverWraps ==
  ASSUME ~ReadErrors
  PROVE  Spec => []NoWrap
<1> USE StatsAssumption
<1>1. Init => NoWrap
  BY DEF Init, NoWrap
<1>2. TypeOK /\ NoWrap /\ [Next]_vars => NoWrap'
  <2> SUFFICES ASSUME TypeOK, NoWrap, [Next]_vars PROVE NoWrap'
    OBVIOUS
  <2> USE DEF TypeOK, NoWrap, Uint64
  <2>1. ASSUME NEW s \in Offered, Count(s) PROVE NoWrap'
    BY <2>1 DEF Count, localVars
  <2>2. ASSUME NEW o \in {"list", "read", "clear"}, NEW s \in Names, Call(o, s)
        PROVE NoWrap'
    BY <2>2 DEF Call
  <2>3. CASE List
    BY <2>3 DEF List, Return
  <2>4. CASE Throw
    BY <2>4 DEF Throw, Return
  <2>5. CASE Open
    BY <2>5 DEF Open, localVars
  <2>6. CASE ReadFile
    BY <2>6 DEF ReadFile
  <2>7. CASE ReadStat
    BY <2>7 DEF ReadStat, Return
  <2>8. CASE ClearStat
    BY <2>8 DEF ClearStat, Return
  <2>9. CASE UNCHANGED vars
    BY <2>9 DEF vars, localVars
  <2> QED BY <2>1, <2>2, <2>3, <2>4, <2>5, <2>6, <2>7, <2>8, <2>9 DEF Next, Step
<1> QED BY <1>1, <1>2, StatsTypeCorrect, PTL DEF Spec
-----------------------------------------------------------------------------
(* An operation is under way exactly between call and return, and only     *)
(* readStat() and clearStat() get past the list of names.                  *)
CallOK ==
  /\ (pc = "idle") <=> (op = "none")
  /\ pc \in {"check", "read", "finish"} => op \in {"read", "clear"}
  /\ pc # "idle" => outcome = "none" /\ answer = << >>

LEMMA CallInit == Init => CallOK
  BY DEF Init, CallOK

LEMMA CallNext == TypeOK /\ CallOK /\ [Next]_vars => CallOK'
  BY DEF TypeOK, CallOK, Next, vars, localVars, Count, Call, Step, List, Throw, Open,
         ReadFile, ReadStat, ClearStat, Return

LEMMA CallsWellFormed == Spec => []CallOK
  BY CallInit, CallNext, StatsTypeCorrect, PTL DEF Spec

(* Every step of the library or of the kernel is a step of module Counters *)
(* or none: readStat() answers with the number of events since the last    *)
(* clearStat(), at the moment when it reads the file.                      *)
THEOREM StatsCountsRight ==
  ASSUME ~ReadErrors
  PROVE  Spec => Abstract!Init /\ [][Abstract!Next]_(Abstract!vars)
<1> USE StatsAssumption
<1>1. Init => Abstract!Init
  BY DEF Init, Abstract!Init, ClearedAt
<1>2. ASSUME TypeOK, NoWrap, NoWrap', CallOK, [Next]_vars
      PROVE  [Abstract!Next]_(Abstract!vars)
  <2> USE <1>2 DEF TypeOK, CallOK, Uint64
  <2> DEFINE since == [s \in Offered |-> kernel[s] - ClearedAt(s)]
  <2>1. ASSUME NEW s \in Offered, Count(s) PROVE Abstract!Count(s)
    <3>1. \A r \in Offered : ClearedAt(r)' = ClearedAt(r) /\ ClearedAt(r) \in Int
      BY <2>1 DEF Count, localVars, ClearedAt
    <3>2. kernel[s] \in Int /\ kernel' = [kernel EXCEPT ![s] = @ + 1]
      BY <2>1 DEF Count
    <3>3. \A r \in Offered : kernel'[r] - ClearedAt(r)'
                             = IF r = s THEN since[r] + 1 ELSE since[r]
      BY <3>1, <3>2
    <3>4. since' = [since EXCEPT ![s] = @ + 1]
      BY <3>3
    <3> QED BY <2>1, <3>4 DEF Count, localVars, Abstract!Count
  <2>2. ASSUME NEW o \in {"list", "read", "clear"}, NEW s \in Names, Call(o, s)
        PROVE  Abstract!Begin(o, s)
    BY <2>2 DEF Call, Abstract!Begin, ClearedAt
  <2>3. CASE List
    <3>0. pc = "list" /\ pc' # "finish" /\ UNCHANGED <<kernel, cache>>
      BY <2>3 DEF List, Return
    <3>1. since' = since
      BY <3>0 DEF ClearedAt
    <3>2. CASE op = "list"
      BY <2>3, <3>1, <3>2 DEF List, Return, Abstract!Next, Abstract!End
    <3>3. CASE op # "list"
      BY <2>3, <3>1, <3>3 DEF List, Abstract!vars
    <3> QED BY <3>2, <3>3
  <2>4. CASE Throw
    BY <2>4 DEF Throw, Return, ClearedAt, Abstract!Next, Abstract!End
  <2>5. CASE Open
    BY <2>5 DEF Open, localVars, ClearedAt, Abstract!vars
  <2>6. CASE ReadFile
    <3>1. value' = kernel[stat] /\ pc = "read" /\ pc' = "finish" /\ stat \in Offered
      BY <2>6 DEF ReadFile
    <3>2. CASE op = "read"
      <4>1. since' = since /\ since[stat] = kernel[stat] - cache[stat]
        BY <2>6, <3>1, <3>2 DEF ReadFile, ClearedAt
      <4>2. Abstract!Read(stat)
        BY <2>6, <3>1, <3>2, <4>1 DEF ReadFile, Abstract!Read
      <4> QED BY <3>1, <4>2 DEF Abstract!Next
    <3>3. CASE op = "clear"
      <4>0. UNCHANGED <<kernel, cache, op, stat>>
        BY <2>6 DEF ReadFile
      <4>1. \A r \in Offered : kernel'[r] - ClearedAt(r)'
                              = IF r = stat THEN 0 ELSE since[r]
        BY <3>1, <3>3, <4>0 DEF ClearedAt
      <4>2. since' = [since EXCEPT ![stat] = 0]
        BY <4>1
      <4>3. Abstract!Clear(stat)
        BY <2>6, <3>1, <3>3, <4>2 DEF ReadFile, Abstract!Clear
      <4> QED BY <3>1, <4>3 DEF Abstract!Next, Abstract!Clear
    <3>4. op \in {"read", "clear"}
      BY <3>1
    <3> QED BY <3>2, <3>3, <3>4
  <2>7. CASE ReadStat
    <3>1. since' = since
      BY <2>7 DEF ReadStat, Return, ClearedAt
    <3>2. answer' = <<value - cache[stat]>>
      BY <2>7 DEF ReadStat, Minus, NoWrap
    <3> QED BY <2>7, <3>1, <3>2 DEF ReadStat, Return, Abstract!Next, Abstract!End
  <2>8. CASE ClearStat
    <3>1. since' = since
      BY <2>8 DEF ClearStat, Return, ClearedAt
    <3> QED BY <2>8, <3>1 DEF ClearStat, Return, Abstract!Next, Abstract!End
  <2>9. CASE UNCHANGED vars
    BY <2>9 DEF vars, localVars, ClearedAt, Abstract!vars
  <2> QED BY <2>1, <2>2, <2>3, <2>4, <2>5, <2>6, <2>7, <2>8, <2>9
          DEF Next, Step, Abstract!Next
<1> QED BY <1>1, <1>2, StatsTypeCorrect, DifferenceNeverWraps, CallsWellFormed, PTL
        DEF Spec

-----------------------------------------------------------------------------
(* Module StatsExample: what main() of stats.cpp knows at each point.      *)

MainTypes ==
  /\ main \in {"free", "start", "listed", "before", "send", "after", "clear", "failed"}
  /\ todo \subseteq Offered
  /\ printed \in [Loops -> [Offered -> Nat]]
  /\ sent \in Nat

(* What main() calls where it is; the loops know the names, and nothing is *)
(* cleared before the last loop.                                           *)
MainOK ==
  /\ pc # "idle" =>
       \/ main = "free"
       \/ main = "listed" /\ op = "list" /\ pc = "list"
       \/ main \in {"before", "after"} /\ op = "read"
       \/ main = "clear" /\ op \in {"clear", "read"}
  /\ main = "listed" /\ pc = "idle" /\ outcome # "threw" => keys = Offered
  /\ main \in {"before", "send", "after", "clear"} => keys = Offered
  /\ main \in {"start", "listed", "before", "send", "after"} =>
       \A s \in Offered : cache[s] = 0
  /\ main \in {"start", "listed", "before"} => sent = 0
  /\ main \in {"before", "send", "after"} /\ pc = "idle" /\ outcome # "threw" =>
       todo = Offered \/ answer # << >>

(* The packets sent since the first loop are in what the second one reads  *)
(* and prints.                                                             *)
SendsOK ==
  /\ main \in {"start", "listed", "before", "send", "after"} =>
       printed["before"][rx_packets] + sent <= kernel[rx_packets]
  /\ main = "after" => sent = Sends
  /\ main = "after" /\ pc = "finish" /\ stat = rx_packets =>
       printed["before"][rx_packets] + Sends <= value
  /\ (main = "after" /\ rx_packets \notin todo) \/ main = "clear" =>
       printed["before"][rx_packets] + Sends <= printed["after"][rx_packets]

(* The last loop reads a statistic when all that was printed of it before  *)
(* is cleared.                                                             *)
ClearedOK ==
  /\ \A s \in Offered : printed["after"][s] <= kernel[s]
  /\ main = "clear" =>
       /\ (IF pc = "idle" THEN Cleared ELSE op = "read") =>
            stat \in Offered /\ printed["after"][stat] <= cache[stat]
       /\ pc = "finish" /\ op = "clear" => printed["after"][stat] <= value
       /\ \A s \in Offered \ todo :
            printed["after"][s] + printed["clear"][s] <= kernel[s]


-----------------------------------------------------------------------------

(* What readStat() returns to a loop is printed; no other step prints.     *)
LEMMA Prints ==
  ASSUME TypeOK, CallOK, LibraryStep
  PROVE  IF ReadStat /\ main \in Loops
         THEN /\ stat \in Offered
              /\ answer' = <<Minus(value, cache[stat])>>
              /\ printed' = [printed EXCEPT ![main][stat] = Minus(value, cache[stat])]
              /\ todo' = todo \ {stat}
         ELSE UNCHANGED <<printed, todo>>
<1>1. CASE ReadStat
  <2>1. /\ op = "read" /\ outcome' = "ok" /\ stat \in Offered
        /\ answer' = <<Minus(value, cache[stat])>>
    BY <1>1 DEF ReadStat, Return, TypeOK
  <2>2. answer'[1] = Minus(value, cache[stat])
    BY <2>1
  <2> QED BY <1>1, <2>1, <2>2 DEF LibraryStep
<1>2. CASE ~ReadStat
  <2>1. ~(op = "read" /\ outcome' = "ok")
    BY <1>2 DEF LibraryStep, Step, List, Throw, Open, ReadFile, ClearStat, Return,
       CallOK
  <2> QED BY <1>2, <2>1 DEF LibraryStep
<1> QED BY <1>1, <1>2

LEMMA MainTypesInit == EInit => MainTypes
  BY DEF EInit, MainTypes

LEMMA MainTypesNext ==
  ASSUME TypeOK, CallOK, MainTypes, [ENext]_exampleVars
  PROVE  MainTypes'
<1> USE DEF MainTypes
<1>1. CASE FreeCall \/ MainLists \/ LoopCall
  BY <1>1 DEF FreeCall, MainLists, LoopCall, mainVars
<1>2. CASE LibraryStep
  <2>1. UNCHANGED <<main, sent>>
    BY <1>2 DEF LibraryStep
  <2>2. CASE ReadStat /\ main \in Loops
    <3> DEFINE n == Minus(value, cache[stat])
    <3>1. /\ stat \in Offered /\ todo' = todo \ {stat}
          /\ printed' = [printed EXCEPT ![main][stat] = n]
      BY <1>2, <2>2, Prints
    <3>2. n \in Nat
      BY <3>1, StatsAssumption DEF Minus, TypeOK, Uint64
    <3> QED BY <2>1, <2>2, <3>1, <3>2
  <2>3. CASE ~(ReadStat /\ main \in Loops)
    BY <1>2, <2>1, <2>3, Prints
  <2> QED BY <2>2, <2>3
<1>3. CASE PrintPacket \/ Send \/ Fails
  BY <1>3 DEF PrintPacket, Send, Fails
<1>4. ASSUME NEW from, NEW l \in {"before", "after", "clear"}, Loop(from, l)
      PROVE  MainTypes'
  BY <1>4 DEF Loop, TypeOK
<1>5. ASSUME NEW s \in Offered, Count(s), UNCHANGED mainVars
      PROVE  MainTypes'
  BY <1>5 DEF mainVars
<1>6. CASE UNCHANGED exampleVars
  BY <1>6 DEF exampleVars, mainVars
<1> QED BY <1>1, <1>2, <1>3, <1>4, <1>5, <1>6 DEF ENext

(* send() is to the statistics an event that the kernel counts: whatever   *)
(* the program of the example does is a step of module Stats.              *)
LEMMA ExampleStutters ==
  ASSUME TypeOK, MainTypes, [ENext]_exampleVars
  PROVE  [Next]_vars
<1> USE StatsAssumption, StatsExampleAssumption
<1>1. CASE FreeCall \/ MainLists
  BY <1>1 DEF FreeCall, MainLists, Next
<1>2. CASE LoopCall
  <2>1. stat \in Names /\ todo \subseteq Names
    BY DEF TypeOK, MainTypes
  <2> QED BY <1>2, <2>1 DEF LoopCall, Next
<1>3. CASE LibraryStep
  BY <1>3 DEF LibraryStep, Next
<1>4. CASE Send
  BY <1>4 DEF Send, Count, Next
<1>5. CASE PrintPacket \/ Fails
  BY <1>5 DEF PrintPacket, Fails
<1>6. ASSUME NEW from, NEW l, Loop(from, l) PROVE UNCHANGED vars
  BY <1>6 DEF Loop
<1>7. ASSUME NEW s \in Offered, Count(s) PROVE Next
  BY <1>7 DEF Next
<1>8. CASE UNCHANGED exampleVars
  BY <1>8 DEF exampleVars
<1> QED BY <1>1, <1>2, <1>3, <1>4, <1>5, <1>6, <1>7, <1>8 DEF ENext

LEMMA ExampleTypes == ESpec => [](TypeOK /\ CallOK /\ MainTypes)
<1>1. EInit => TypeOK /\ CallOK /\ MainTypes
  BY StatsTypeInit, CallInit, MainTypesInit DEF EInit
<1>2. TypeOK /\ CallOK /\ MainTypes /\ [ENext]_exampleVars
        => (TypeOK /\ CallOK /\ MainTypes)'
  BY ExampleStutters, StatsTypeNext, CallNext, MainTypesNext
<1> QED BY <1>1, <1>2, PTL DEF ESpec

(* What is proved of module Stats holds while the example runs.            *)
THEOREM ExampleUsesStats == ESpec => Spec
<1>1. EInit => Init
  BY DEF EInit
<1>2. TypeOK /\ CallOK /\ MainTypes /\ [ENext]_exampleVars => [Next]_vars
  BY ExampleStutters
<1> QED BY <1>1, <1>2, ExampleTypes, PTL DEF ESpec, Spec

-----------------------------------------------------------------------------
(* The invariants of the library and the values of main()'s variables.     *)
Known == TypeOK /\ CallOK /\ MainTypes /\ NoWrap

LEMMA MainInit == EInit => MainOK /\ SendsOK /\ ClearedOK
<1> SUFFICES ASSUME EInit PROVE MainOK /\ SendsOK /\ ClearedOK
  OBVIOUS
<1> USE StatsAssumption, StatsExampleAssumption DEF EInit, Init
<1>1. MainOK
  BY DEF MainOK
<1>2. /\ \A l \in Loops, s \in Offered : printed[l][s] = 0
      /\ \A s \in Offered : kernel[s] \in Nat
  OBVIOUS
<1>3. SendsOK
  BY <1>2 DEF SendsOK, Loops
<1>4. ClearedOK
  BY <1>2 DEF ClearedOK, Loops
<1> QED BY <1>1, <1>3, <1>4

LEMMA MainNext ==
  ASSUME ~ReadErrors, Known, MainOK, [ENext]_exampleVars
  PROVE  MainOK'
<1> USE StatsAssumption, StatsExampleAssumption DEF MainOK
<1>0. TypeOK /\ CallOK /\ MainTypes
  BY DEF Known
<1>1. CASE FreeCall
  BY <1>0, <1>1 DEF FreeCall, Call, mainVars
<1>2. CASE MainLists
  BY <1>0, <1>2 DEF MainLists, At, Call
<1>3. CASE LoopCall
  BY <1>0, <1>3 DEF LoopCall, At, Loops, Call, mainVars, TypeOK
<1>4. CASE LibraryStep
  <2>0. UNCHANGED <<main, sent>> /\ Step
    BY <1>4 DEF LibraryStep
  <2>1. CASE List
    <3>1. UNCHANGED <<printed, todo>>
      BY <1>0, <1>4, <2>1, Prints DEF List, ReadStat
    <3> QED BY <1>0, <2>0, <2>1, <3>1 DEF List, Return, CallOK
  <2>2. CASE Throw
    BY <1>0, <2>0, <2>2 DEF Throw, Return, CallOK
  <2>3. CASE Open \/ ReadFile
    BY <1>0, <2>0, <2>3 DEF Open, ReadFile, localVars, CallOK
  <2>4. CASE ReadStat
    BY <1>0, <2>0, <2>4 DEF ReadStat, Return, CallOK
  <2>5. CASE ClearStat
    BY <1>0, <2>0, <2>5 DEF ClearStat, Return, CallOK
  <2> QED BY <2>0, <2>1, <2>2, <2>3, <2>4, <2>5 DEF Step
<1>5. CASE PrintPacket
  BY <1>0, <1>5 DEF PrintPacket, At, vars, localVars
<1>6. CASE Send
  BY <1>0, <1>6 DEF Send, localVars
<1>7. CASE Fails
  BY <1>0, <1>7 DEF Fails, vars, localVars
<1>8. CASE Loop("listed", "before")
  BY <1>0, <1>8 DEF Loop, At, vars, localVars
<1>9. CASE Loop("send", "after") \/ Loop("after", "clear")
  BY <1>0, <1>9 DEF Loop, At, vars, localVars
<1>10. ASSUME NEW s \in Offered, Count(s), UNCHANGED mainVars
       PROVE  MainOK'
  BY <1>0, <1>10 DEF Count, localVars, mainVars
<1>11. CASE UNCHANGED exampleVars
  BY <1>11 DEF exampleVars, mainVars, vars, localVars
<1> QED BY <1>1, <1>2, <1>3, <1>4, <1>5, <1>6, <1>7, <1>8, <1>9, <1>10, <1>11 DEF ENext

LEMMA KernelGrows ==
  ASSUME TypeOK, [ENext]_exampleVars
  PROVE  \A s \in Offered : /\ kernel[s] \in Nat /\ kernel'[s] \in Nat
                            /\ kernel[s] <= kernel'[s]
<1> USE StatsAssumption, StatsExampleAssumption DEF TypeOK
<1>1. CASE Send
  BY <1>1 DEF Send
<1>2. ASSUME NEW s \in Offered, Count(s) PROVE kernel' = [kernel EXCEPT ![s] = @ + 1]
  BY <1>2 DEF Count
<1>3. CASE ~Send /\ ~(\E s \in Offered : Count(s))
  <2>1. kernel' = kernel
    BY <1>3 DEF ENext, exampleVars, vars, FreeCall, MainLists, LoopCall, Call,
       LibraryStep, Step, List, Throw, Open, ReadFile, ReadStat, ClearStat,
       PrintPacket, Fails, Loop
  <2> QED BY <2>1
<1> QED BY <1>1, <1>2, <1>3

(* What a loop prints, as long as the files can be read.                   *)
LEMMA PrintedValue ==
  ASSUME Known, MainOK, ReadStat
  PROVE  /\ stat \in Offered
         /\ Minus(value, cache[stat]) = value - cache[stat]
         /\ cache[stat] \in Nat /\ value \in Nat
         /\ cache[stat] <= value /\ value <= kernel[stat]
         /\ main \in {"before", "after"} => cache[stat] = 0
<1>1. stat \in Offered /\ cache[stat] \in Nat /\ value \in Nat
  BY StatsAssumption DEF Known, TypeOK, Uint64, ReadStat
<1>2. cache[stat] <= value /\ value <= kernel[stat]
  BY DEF Known, NoWrap, ReadStat
<1>3. main \in {"before", "after"} => cache[stat] = 0
  BY <1>1 DEF MainOK
<1> QED BY <1>1, <1>2, <1>3 DEF Minus

LEMMA SendsNext ==
  ASSUME ~ReadErrors, Known, MainOK, SendsOK, [ENext]_exampleVars
  PROVE  SendsOK'
<1> USE DEF SendsOK
<1>0. /\ rx_packets \in Offered /\ Sends \in Nat /\ sent \in Nat
      /\ printed \in [Loops -> [Offered -> Nat]]
      /\ kernel[rx_packets] \in Nat /\ kernel'[rx_packets] \in Nat
      /\ kernel[rx_packets] <= kernel'[rx_packets]
  BY KernelGrows, StatsExampleAssumption DEF Known, MainTypes
<1>1. CASE FreeCall \/ MainLists \/ LoopCall
  BY <1>1 DEF FreeCall, MainLists, LoopCall, At, Call, mainVars, MainOK
<1>2. CASE LibraryStep
  <2>0. UNCHANGED <<main, sent>> /\ Step
    BY <1>2 DEF LibraryStep
  <2>1. CASE List \/ Throw \/ Open \/ ClearStat
    <3>1. UNCHANGED <<printed, todo>>
      BY <1>2, <2>1, Prints DEF List, Throw, Open, ClearStat, Return, ReadStat, Known,
         CallOK
    <3>2. pc' # "finish" /\ kernel' = kernel
      BY <2>1 DEF List, Throw, Open, ClearStat, Return
    <3> QED BY <2>0, <3>1, <3>2
  <2>2. CASE ReadFile
    <3>1. UNCHANGED <<printed, todo>>
      BY <1>2, <2>2, Prints DEF ReadFile, ReadStat, Known
    <3>2. UNCHANGED <<kernel, stat>> /\ value' = kernel[stat]
      BY <2>2 DEF ReadFile
    <3> QED BY <2>0, <3>1, <3>2
  <2>3. CASE ReadStat /\ main \in Loops
    <3> DEFINE n == value - cache[stat]
    <3>1. /\ stat \in Offered /\ n \in Nat /\ n <= kernel[stat]
          /\ main \in {"before", "after"} => n = value
      BY <2>3, PrintedValue, <1>0 DEF Known, TypeOK
    <3>2. printed' = [printed EXCEPT ![main][stat] = n] /\ todo' = todo \ {stat}
      BY <1>2, <2>3, Prints, PrintedValue DEF Known
    <3>3. pc = "finish" /\ pc' = "idle" /\ kernel' = kernel
      BY <2>3 DEF ReadStat, Return
    <3> HIDE DEF n
    <3>4. CASE main = "before"
      BY <1>0, <2>0, <3>1, <3>2, <3>3, <3>4 DEF MainOK, Loops
    <3>5. CASE main = "after"
      BY <1>0, <2>0, <3>1, <3>2, <3>3, <3>5 DEF Loops
    <3>6. CASE main = "clear"
      BY <1>0, <2>0, <3>1, <3>2, <3>3, <3>6 DEF Loops
    <3> QED BY <2>3, <3>4, <3>5, <3>6 DEF Loops
  <2>4. CASE ReadStat /\ main \notin Loops
    <3>1. UNCHANGED <<printed, todo, kernel>> /\ pc' = "idle"
      BY <1>2, <2>4, Prints DEF Known, ReadStat, Return
    <3> QED BY <2>0, <2>4, <3>1 DEF Loops
  <2> QED BY <2>0, <2>1, <2>2, <2>3, <2>4 DEF Step
<1>3. CASE PrintPacket
  BY <1>3 DEF PrintPacket, At, vars
<1>4. CASE Send
  <2>1. kernel'[rx_packets] = kernel[rx_packets] + 1
    BY <1>0, <1>4 DEF Send, Known, TypeOK
  <2>2. sent' = sent + 1 /\ UNCHANGED <<main, printed>> /\ main = "send"
    BY <1>4 DEF Send
  <2>3. printed["before"][rx_packets] \in Nat
    BY <1>0 DEF Loops
  <2> QED BY <1>0, <2>1, <2>2, <2>3
<1>5. CASE Fails
  BY <1>5 DEF Fails
<1>6. CASE Loop("listed", "before")
  BY <1>6 DEF Loop, At, vars
<1>7. CASE sent = Sends /\ Loop("send", "after")
  BY <1>0, <1>7 DEF Loop, At, vars, MainOK
<1>8. CASE Loop("after", "clear")
  BY <1>0, <1>8 DEF Loop, At, vars
<1>9. ASSUME NEW s \in Offered, Count(s), UNCHANGED mainVars
      PROVE  SendsOK'
  <2>1. printed["before"][rx_packets] + sent \in Nat
    BY <1>0 DEF Loops
  <2>2. UNCHANGED <<main, todo, printed, sent, pc, stat, value>>
    BY <1>9 DEF Count, localVars, mainVars
  <2> QED BY <1>0, <2>1, <2>2
<1>10. CASE UNCHANGED exampleVars
  BY <1>10 DEF exampleVars, mainVars, vars, localVars
<1> QED BY <1>1, <1>2, <1>3, <1>4, <1>5, <1>6, <1>7, <1>8, <1>9, <1>10 DEF ENext

LEMMA ClearedNext ==
  ASSUME ~ReadErrors, Known, MainOK, ClearedOK, [ENext]_exampleVars
  PROVE  ClearedOK'
<1> USE DEF ClearedOK
<1>0. /\ printed \in [Loops -> [Offered -> Nat]]
      /\ \A s \in Offered : /\ kernel[s] \in Nat /\ kernel'[s] \in Nat
                            /\ kernel[s] <= kernel'[s]
  BY KernelGrows DEF Known, MainTypes
<1>1. CASE FreeCall \/ MainLists
  BY <1>1 DEF FreeCall, MainLists, At, Call, mainVars
<1>2. CASE LoopCall
  BY <1>2 DEF LoopCall, At, Call, mainVars, Loops
<1>3. CASE LibraryStep
  <2>0. main' = main /\ Step
    BY <1>3 DEF LibraryStep
  <2>1. CASE List \/ Throw \/ Open
    <3>1. UNCHANGED <<printed, todo>>
      BY <1>3, <2>1, Prints DEF List, Throw, Open, Return, ReadStat, Known, CallOK
    <3>2. /\ UNCHANGED <<kernel, cache, stat, value>>
          /\ pc # "idle" /\ pc' # "finish"
      BY <2>1 DEF List, Throw, Open, Return, localVars
    <3>3. CASE Throw
      BY <2>0, <3>1, <3>2, <3>3 DEF Throw, Return, Cleared
    <3>4. CASE (List \/ Open) /\ main = "clear"
      <4>1. op' = op /\ pc' # "idle"
        BY <3>4 DEF List, Open, MainOK, localVars
      <4> QED BY <2>0, <3>1, <3>2, <4>1 DEF Cleared
    <3>5. CASE main # "clear"
      BY <2>0, <3>1, <3>2, <3>5
    <3> QED BY <2>1, <3>3, <3>4, <3>5
  <2>2. CASE ReadFile
    <3>1. UNCHANGED <<printed, todo>>
      BY <1>3, <2>2, Prints DEF ReadFile, ReadStat, Known
    <3>2. /\ UNCHANGED <<kernel, cache, stat, op>> /\ value' = kernel[stat]
          /\ stat \in Offered /\ pc # "idle" /\ pc' = "finish"
      BY <2>2 DEF ReadFile, Known, TypeOK
    <3> QED BY <2>0, <3>1, <3>2
  <2>3. CASE ClearStat
    <3>1. UNCHANGED <<printed, todo>>
      BY <1>3, <2>3, Prints DEF ClearStat, ReadStat, Known
    <3>2. /\ UNCHANGED <<kernel, stat>> /\ stat \in Offered /\ cache'[stat] = value
          /\ pc = "finish" /\ op = "clear" /\ pc' = "idle"
      BY <2>3 DEF ClearStat, Return, Known, TypeOK
    <3> QED BY <2>0, <3>1, <3>2
  <2>4. CASE ReadStat
    <3> DEFINE n == value - cache[stat]
    <3>1. /\ stat \in Offered /\ n \in Nat /\ n <= kernel[stat]
          /\ cache[stat] + n <= kernel[stat] /\ cache[stat] \in Nat
      BY <2>4, PrintedValue, <1>0
    <3>2. /\ answer' = <<n>>
          /\ \/ main \notin Loops /\ UNCHANGED <<printed, todo>>
             \/ /\ main \in Loops /\ todo' = todo \ {stat}
                /\ printed' = [printed EXCEPT ![main][stat] = n]
      BY <1>3, <2>4, Prints, PrintedValue DEF Known, ReadStat
    <3>3. /\ pc # "idle" /\ op = "read" /\ pc' = "idle"
          /\ UNCHANGED <<kernel, cache, stat>>
      BY <2>4 DEF ReadStat, Return
    <3>4. ~Cleared'
      BY <3>2 DEF Cleared
    <3> HIDE DEF n
    <3>5. CASE main = "clear"
      <4>1. printed["after"][stat] + n <= kernel[stat]
        BY <1>0, <3>1, <3>3, <3>5 DEF Loops
      <4> QED BY <1>0, <2>0, <3>1, <3>2, <3>3, <3>4, <3>5, <4>1 DEF Loops
    <3>6. CASE main # "clear"
      BY <1>0, <2>0, <3>1, <3>2, <3>3, <3>6 DEF Loops
    <3> QED BY <3>5, <3>6
  <2> QED BY <2>0, <2>1, <2>2, <2>3, <2>4 DEF Step
<1>4. CASE PrintPacket \/ Fails
  BY <1>4 DEF PrintPacket, Fails, vars
<1>5. CASE Send
  <2>1. UNCHANGED <<main, printed>> /\ main = "send"
    BY <1>5 DEF Send
  <2> QED BY <1>0, <2>1 DEF Loops
<1>6. CASE Loop("listed", "before") \/ Loop("send", "after")
  BY <1>6 DEF Loop, vars
<1>7. CASE Loop("after", "clear")
  <2>1. /\ UNCHANGED <<printed, kernel, pc, answer, outcome>>
        /\ pc = "idle" /\ outcome # "threw" /\ main = "after" /\ todo = {}
        /\ todo' = keys /\ pc' = "idle"
    BY <1>7 DEF Loop, At, vars
  <2>2. keys = Offered /\ answer # << >>
    BY <2>1, StatsExampleAssumption DEF MainOK
  <2> QED BY <2>1, <2>2 DEF Cleared
<1>8. ASSUME NEW c \in Offered, Count(c), UNCHANGED mainVars
      PROVE  ClearedOK'
  <2>1. UNCHANGED <<main, todo, printed, cache, pc, op, stat, value, answer, outcome>>
    BY <1>8 DEF Count, localVars, mainVars
  <2>2. \A s \in Offered : printed["after"][s] \in Nat /\ printed["clear"][s] \in Nat
    BY <1>0 DEF Loops
  <2> QED BY <1>0, <2>1, <2>2 DEF Cleared
<1>9. CASE UNCHANGED exampleVars
  BY <1>9 DEF exampleVars, mainVars, vars, localVars, Cleared
<1> QED BY <1>1, <1>2, <1>3, <1>4, <1>5, <1>6, <1>7, <1>8, <1>9 DEF ENext

LEMMA ExampleInvHolds ==
  ASSUME ~ReadErrors
  PROVE  ESpec => [](MainOK /\ SendsOK /\ ClearedOK)
<1>1. ESpec => []Known
  BY ExampleUsesStats, ExampleTypes, DifferenceNeverWraps, PTL DEF Known
<1>2. Known /\ MainOK /\ SendsOK /\ ClearedOK /\ [ENext]_exampleVars
        => (MainOK /\ SendsOK /\ ClearedOK)'
  BY MainNext, SendsNext, ClearedNext
<1> QED BY <1>1, <1>2, MainInit, PTL DEF ESpec

(* The second loop prints of rx_packets what the first one did and the     *)
(* packets sent in between, whatever else the interface counts meanwhile:  *)
(* reading a statistic clears nothing.                                     *)
THEOREM SendsAreCounted == ASSUME ~ReadErrors PROVE ESpec => []SendsCounted
<1>1. Known /\ SendsOK => SendsCounted
  BY StatsExampleAssumption DEF Known, MainTypes, Loops, SendsOK, SendsCounted
<1>2. ESpec => []Known
  BY ExampleUsesStats, ExampleTypes, DifferenceNeverWraps, PTL DEF Known
<1> QED BY <1>1, <1>2, ExampleInvHolds, PTL

(* No event that was printed before clearStat() is printed again after it, *)
(* although events occur between any two steps of the library.             *)
THEOREM ClearedIsNotCountedTwice == ASSUME ~ReadErrors PROVE ESpec => []NotCountedTwice
<1>1. ClearedOK => NotCountedTwice
  BY DEF ClearedOK, NotCountedTwice
<1> QED BY <1>1, ExampleInvHolds, PTL

(* stats.cpp prints of a packet, of any length, the CRC-32 of IEEE 802.3.  *)
THEOREM CrcPrintedIsStandard == ESpec => []CrcIsStandard
<1> DEFINE Inv == pkt \in Seq(0..255) /\ crc = crc32(pkt)
<1>1. crc32(<< >>) = {}
  BY CrcOfNothing
<1>2. EInit => Inv
  BY <1>1 DEF EInit
<1>3. Inv /\ [ENext]_exampleVars => Inv'
  <2> SUFFICES ASSUME Inv, [ENext]_exampleVars PROVE Inv'
    OBVIOUS
  <2>1. CASE PrintPacket
    <3>1. PICK p \in Packets : pkt' = p /\ crc' = crc32(p)
      BY <2>1 DEF PrintPacket
    <3>2. p \in Seq(0..255)
      BY StatsExampleAssumption
    <3> QED BY <3>1, <3>2
  <2>2. CASE Send \/ Fails
    <3>1. pkt' = << >> /\ crc' = {}
      BY <2>2 DEF Send, Fails
    <3>2. << >> \in Seq(0..255)
      OBVIOUS
    <3> QED BY <1>1, <3>1, <3>2
  <2>3. CASE ~PrintPacket /\ ~Send /\ ~Fails
    <3>1. UNCHANGED <<pkt, crc>>
      BY <2>3 DEF ENext, exampleVars, mainVars, FreeCall, MainLists, LoopCall,
         LibraryStep, Loop
    <3> QED BY <3>1
  <2> QED BY <2>1, <2>2, <2>3
<1>4. Inv => CrcIsStandard
  BY CrcOfBytes DEF CrcIsStandard
<1> QED BY <1>2, <1>3, <1>4, PTL DEF ESpec
=============================================================================
