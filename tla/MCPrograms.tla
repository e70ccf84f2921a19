----------------------------- MODULE MCPrograms -----------------------------
(* Small instances of Programs for TLC, on the interfaces of MCDispatch.   *)
EXTENDS MCDispatch, Programs
=============================================================================
