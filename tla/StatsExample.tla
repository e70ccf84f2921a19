----------------------------- MODULE StatsExample ----------------------------
(***************************************************************************)
(* examples/stats/stats.cpp on top of module Stats: main() prints every    *)
(* statistic, the CRC of a packet (module Utils), sends that packet many   *)
(* times, prints the statistics again, clears each and prints what is left *)
(* of it.  A second kind of program calls the operations in any order.     *)
(***************************************************************************)
EXTENDS Stats, Utils

CONSTANTS
  rx_packets,  \* the statistic that counts the packets given to send()
  Packets,     \* packets, sequences of bytes, that the example may be built with
  Sends        \* number of times that it sends its packet

ASSUME StatsExampleAssumption ==
  /\ rx_packets \in Offered
  /\ Packets \subseteq Seq(0..255)
  /\ Sends \in Nat

VARIABLES
  main,      \* where main() is; "free" for a program of the second kind
  todo,      \* statistics that its loop has still to print
  printed,   \* printed[l][s]: what loop l printed of s
  sent,      \* packets sent
  pkt, crc   \* the packet and its CRC, from when they are printed until sent

mainVars == <<main, todo, printed, sent, pkt, crc>>
exampleVars == <<vars, mainVars>>

Loops == {"before", "after", "clear"}

EInit ==
  /\ Init
  /\ main \in {"start", "free"}
  /\ todo = {}
  /\ printed = [l \in Loops |-> [s \in Offered |-> 0]]
  /\ sent = 0 /\ pkt = << >> /\ crc = {}

FreeCall ==
  /\ main = "free"
  /\ \E operation \in {"list", "read", "clear"}, s \in Names : Call(operation, s)
  /\ UNCHANGED mainVars

(* Between two calls of the library, none of which threw.                  *)
At(label) == main = label /\ pc = "idle" /\ outcome # "threw"

MainLists ==
  /\ At("start")
  /\ \E s \in Names : Call("list", s)
  /\ main' = "listed"
  /\ UNCHANGED <<todo, printed, sent, pkt, crc>>

(* A loop over the names that listStats() returned.                        *)
Loop(from, l) ==
  /\ At(from) /\ todo = {}
  /\ main' = l /\ todo' = keys
  /\ UNCHANGED <<vars, printed, sent, pkt, crc>>

(* The third loop has cleared a statistic and not yet read it.             *)
Cleared == outcome = "ok" /\ answer = << >>

LoopCall ==
  /\ main \in Loops /\ At(main)
  /\ \/ main # "clear" /\ \E s \in todo : Call("read", s)
     \/ main = "clear" /\ ~Cleared /\ \E s \in todo : Call("clear", s)
     \/ main = "clear" /\ Cleared /\ Call("read", stat)
  /\ UNCHANGED mainVars

(* The library goes on; what readStat() returns to a loop is printed.      *)
LibraryStep ==
  /\ Step
  /\ IF main \in Loops /\ op = "read" /\ outcome' = "ok"
     THEN /\ printed' = [printed EXCEPT ![main][stat] = answer'[1]]
          /\ todo' = todo \ {stat}
     ELSE UNCHANGED <<printed, todo>>
  /\ UNCHANGED <<main, sent, pkt, crc>>

PrintPacket ==
  /\ At("before") /\ todo = {}
  /\ main' = "send"
  /\ \E p \in Packets : pkt' = p /\ crc' = crc32(p)
  /\ UNCHANGED <<vars, todo, printed, sent>>

(* send(): the kernel counts the packet before write() returns.            *)
Send ==
  /\ main = "send" /\ sent < Sends
  /\ kernel[rx_packets] < MaxCount
  /\ kernel' = [kernel EXCEPT ![rx_packets] = @ + 1]
  /\ sent' = sent + 1
  /\ pkt' = << >> /\ crc' = {}
  /\ UNCHANGED <<keys, cache, pc, localVars, answer, outcome, main, todo, printed>>

(* An exception, of a statistic or of send(), ends main().                 *)
Fails ==
  /\ \/ main \notin {"free", "failed"} /\ pc = "idle" /\ outcome = "threw"
     \/ main = "send" /\ sent < Sends /\ IoErrors
  /\ main' = "failed"
  /\ pkt' = << >> /\ crc' = {}
  /\ UNCHANGED <<vars, todo, printed, sent>>

ENext ==
  \/ FreeCall \/ MainLists \/ LoopCall \/ LibraryStep \/ PrintPacket \/ Send \/ Fails
  \/ Loop("listed", "before")
  \/ sent = Sends /\ Loop("send", "after")
  \/ Loop("after", "clear")
  \/ \E s \in Offered : Count(s) /\ UNCHANGED mainVars

ESpec == EInit /\ [][ENext]_exampleVars /\ WF_exampleVars(LibraryStep)

-----------------------------------------------------------------------------
(* Properties.                                                             *)

(* stats.cpp 23-26, 70-76: what the second loop printed exceeds what the   *)
(* first one did by the packets sent in between: reading a statistic does  *)
(* not clear it.                                                           *)
SendsCounted ==
  main = "clear" =>
    printed["after"][rx_packets] >= printed["before"][rx_packets] + Sends

(* stats.cpp 78-85: what is printed of a statistic after it was cleared    *)
(* leaves out everything that was printed of it before.                    *)
NotCountedTwice ==
  main = "clear" =>
    \A s \in Offered \ todo :
      printed["after"][s] + printed["clear"][s] <= kernel[s]

(* utils.hpp 59-65: the number printed is the CRC-32 of the packet.        *)
CrcIsStandard == crc = Crc32(pkt)
=============================================================================
