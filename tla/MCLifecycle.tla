---------------------------- MODULE MCLifecycle -----------------------------
(* Small instances of Lifecycle for TLC: an interface that is there from   *)
(* the start, a name given twice, and the placeholder.                     *)
EXTENDS Lifecycle

CONSTANTS o1, o2, o3, o4, eth0, tap0, viface0, viface1, viface2, long

(* o1 and o2 ask for the same interface, o3 for a name by the placeholder. *)
SameName == [o \in Objects |->
  CASE o = o3 -> Pattern [] o = o4 -> long [] OTHER -> tap0]
(* o1 hooks a physical interface.                                          *)
HookPhysical == [o \in Objects |-> eth0]
OneGiven == [o \in Objects |-> IF o = o2 THEN 0 ELSE -1]
=============================================================================
