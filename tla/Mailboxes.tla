------------------------------ MODULE Mailboxes ------------------------------
(***************************************************************************)
(* What the mail between agents promises, without deliveries, numbers to   *)
(* acknowledge, or commands that are killed: every recipient has a box of  *)
(* its own, which is emptied by the checks made for it.                    *)
(*                                                                         *)
(*   - the checks for a recipient show only what was sent to it;           *)
(*   - mail is taken for read only after one of them has shown it, so that *)
(*     a command killed anywhere costs a repetition and no message;        *)
(*   - what was taken for read stays so, and stays in the box, until the   *)
(*     boxes are cleared.                                                  *)
(*                                                                         *)
(* Whoever else may look into a box is no matter here: it takes nothing    *)
(* for read.  Orchestration is shown to implement it.                      *)
(***************************************************************************)
EXTENDS Naturals

CONSTANT Handles

VARIABLES count,  \* messages sent, to whomever; a message is its number
          sent,   \* per recipient: the messages ever sent to it
          box,    \* those still there
          shown,  \* those its checks have shown
          read    \* those taken for read

vars == <<count, sent, box, shown, read>>

Nothing == [h \in Handles |-> {}]

Init == count = 0 /\ sent = Nothing /\ box = Nothing /\ shown = Nothing /\ read = Nothing

Added(boxes, h, some) == [boxes EXCEPT ![h] = @ \cup some]

\* A new message goes to any number of recipients.
Send ==
    /\ count' = count + 1
    /\ \E to \in SUBSET Handles :
          /\ sent' = [h \in Handles |-> sent[h] \cup {n \in {count'} : h \in to}]
          /\ box' = [h \in Handles |-> box[h] \cup {n \in {count'} : h \in to}]
    /\ UNCHANGED <<shown, read>>

Show ==
    /\ \E h \in Handles : \E some \in SUBSET sent[h] : shown' = Added(shown, h, some)
    /\ UNCHANGED <<count, sent, box, read>>

MarkRead ==
    /\ \E h \in Handles : \E some \in SUBSET (box[h] \cap shown[h]) :
          read' = Added(read, h, some)
    /\ UNCHANGED <<count, sent, box, shown>>

Clear ==
    /\ box' = Nothing /\ read' = Nothing
    /\ UNCHANGED <<count, sent, shown>>

Next == Send \/ Show \/ MarkRead \/ Clear

Spec == Init /\ [][Next]_vars
=============================================================================
