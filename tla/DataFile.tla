------------------------------ MODULE DataFile ------------------------------
(***************************************************************************)
(* What the store promises of the application's state, without files,      *)
(* backups or rotation.  A state is a number that grows with each change.  *)
(*                                                                         *)
(*   - a start finds what was saved last, and a save replaces it at once:  *)
(*     no crash and no failing call leaves anything in between;            *)
(*   - damage done while the program is off costs at most the newest       *)
(*     states: an older one is found, never a mixture and never a newer    *)
(*     one than there was;                                                 *)
(*   - once the main file is damaged the state lives in a backup, and      *)
(*     until the next save succeeds a save that fails may lose it.  That   *)
(*     is the price of rotating before the new file is in place.           *)
(*                                                                         *)
(* Persistence is shown to implement it.                                   *)
(***************************************************************************)
EXTENDS Naturals

VARIABLES durable,  \* the state a start of the program would find, 0 for none
          running,
          memory,   \* the state in memory, 0 while the program is off
          exposed   \* the main file is damaged

vars == <<durable, running, memory, exposed>>

Init == durable = 0 /\ running = FALSE /\ memory = 0 /\ exposed = FALSE

Start ==
    /\ ~running
    /\ running' = TRUE /\ memory' = durable
    /\ UNCHANGED <<durable, exposed>>

Change ==
    /\ running
    /\ memory' > memory /\ memory' > durable
    /\ UNCHANGED <<durable, running, exposed>>

Save ==
    /\ running
    /\ durable' = memory /\ exposed' = FALSE
    /\ UNCHANGED <<running, memory>>

Crash ==
    /\ running
    /\ running' = FALSE /\ memory' = 0
    /\ UNCHANGED <<durable, exposed>>

Damage ==
    /\ ~running
    /\ durable' <= durable
    /\ exposed \/ durable' # durable => exposed'
    /\ UNCHANGED <<running, memory>>

Lose ==
    /\ running /\ exposed
    /\ durable' = 0
    /\ UNCHANGED <<running, memory, exposed>>

Next == Start \/ Change \/ Save \/ Crash \/ Damage \/ Lose

Spec == Init /\ [][Next]_vars
=============================================================================
