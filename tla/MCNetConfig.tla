----------------------------- MODULE MCNetConfig ----------------------------
(* Small instances of NetConfig for TLC.                                   *)
EXTENDS NetConfig

CONSTANTS m1, a1, a2, n1, b1, x1, x2, x3, LowerCase, Short

(* A MAC address with capitals, and two texts of one IPv6 address.         *)
Spelling ==
  [v \in Macs \cup V6s |->
     CASE v = m1 -> LowerCase [] v \in {x1, x3} -> Short [] OTHER -> v]
=============================================================================
