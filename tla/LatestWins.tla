----------------------------- MODULE LatestWins -----------------------------
(***************************************************************************)
(* What a worker that coalesces requests promises.  Requests are numbered  *)
(* in the order they are made, and each stands for the state the requester *)
(* has then, so that only the newest one matters in the end.               *)
(*                                                                         *)
(*   - a request is served over an older one only;                         *)
(*   - a request that waits is served, refused, or left out for the sake   *)
(*     of a newer one that waits or was served: never for nothing.         *)
(*                                                                         *)
(* The persistence worker and the resizing of a session implement it.      *)
(***************************************************************************)
EXTENDS Naturals

VARIABLES asked,    \* requests made
          waiting,  \* those not yet decided
          served,   \* the request served last, 0 for none
          refused   \* a request was turned away or could not be served

vars == <<asked, waiting, served, refused>>

Init == asked = 0 /\ waiting = {} /\ served = 0 /\ refused = FALSE

Ask ==
    /\ asked' = asked + 1
    /\ waiting' = waiting \cup {asked + 1}
    /\ UNCHANGED <<served, refused>>

\* Nobody is there any more to serve it.
AskInVain ==
    /\ asked' = asked + 1
    /\ refused' = TRUE
    /\ UNCHANGED <<waiting, served>>

Serve ==
    /\ \E n \in waiting : n > served /\ served' = n /\ waiting' = waiting \ {n}
    /\ UNCHANGED <<asked, refused>>

Supersede ==
    /\ \E n \in waiting, newer \in waiting \cup {served} :
          n < newer /\ waiting' = waiting \ {n}
    /\ UNCHANGED <<asked, served, refused>>

Refuse ==
    /\ waiting' \subseteq waiting
    /\ refused' = TRUE
    /\ UNCHANGED <<asked, served>>

Next == Ask \/ AskInVain \/ Serve \/ Supersede \/ Refuse

Spec == Init /\ [][Next]_vars

-----------------------------------------------------------------------------

\* When nothing waits, what was served last is what was asked for last, unless
\* a request has been refused.
NewestIsServed == waiting = {} /\ ~refused => served = asked
=============================================================================
