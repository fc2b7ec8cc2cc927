------------------------ MODULE MCPersistenceThread ------------------------
(* Instances of PersistenceThread for TLC: four requests. *)
EXTENDS PersistenceThread
=============================================================================
