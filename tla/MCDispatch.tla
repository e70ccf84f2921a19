----------------------------- MODULE MCDispatch -----------------------------
(* Small instances of Dispatch for TLC.  Descriptor 5 and 9 leave a gap so *)
(* that nfds and the descriptor order matter.                              *)
EXTENDS Dispatch

CONSTANTS t1, tun1, tun2, sock

FdOf == [i \in Ifaces |-> CASE i = sock -> 5 [] i = tun1 -> 9 [] OTHER -> 7]
OneThread == [t \in Threads |-> Ifaces]
=============================================================================
