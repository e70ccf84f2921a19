--------------------------- MODULE MCStatsExample ---------------------------
(* Small instances of StatsExample for TLC.  The packets are all of one and *)
(* two bytes out of a few, with each nibble value in either half.           *)
EXTENDS StatsExample

CONSTANTS rx, tx, bogus

SomeBytes == {0, 1, 18, 35, 71, 90, 127, 128, 165, 188, 222, 233, 255}
ShortPackets == {<<b>> : b \in 0..255} \cup (SomeBytes \X SomeBytes)
=============================================================================
