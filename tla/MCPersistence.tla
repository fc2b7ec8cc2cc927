--------------------------- MODULE MCPersistence ---------------------------
(* Instances of Persistence for TLC. *)
EXTENDS Persistence

MCDenied   == {"unreadable"}
MCAny      == {"corrupt", "unreadable"}
=============================================================================
