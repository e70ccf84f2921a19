---------------------------- MODULE MCDispatchFair ---------------------------
(* Small instances of DispatchFair for TLC, on the interfaces of MCDispatch. *)
EXTENDS MCDispatch, DispatchFair
=============================================================================
