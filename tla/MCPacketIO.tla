----------------------------- MODULE MCPacketIO -----------------------------
(* Small instances of PacketIO for TLC.                                    *)
EXTENDS MCNetConfig, PacketIO
=============================================================================
