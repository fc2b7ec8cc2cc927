---------------------------- MODULE RelayChannel ----------------------------
(***************************************************************************)
(* What one direction of the federation relay promises, without cursors,  *)
(* requests or retries.  The sender appends messages to a log and keeps    *)
(* each of them until it may discard it; the receiver holds the messages   *)
(* it has stored.  Messages are named by their position in the log.        *)
(*                                                                         *)
(*   - a message is stored after every earlier one and never twice;        *)
(*   - the sender discards only what the receiver has stored;              *)
(*   - what the receiver has stored it never loses.                        *)
(*                                                                         *)
(* Federation is shown to implement it in both directions.                 *)
(***************************************************************************)
EXTENDS Naturals, Sequences

CONSTANT Messages

VARIABLES log,    \* every message accepted by the sender, in order
          kept,   \* the positions the sender still holds
          inbox   \* the positions the receiver has stored

vars == <<log, kept, inbox>>

Init == /\ log = <<>>
        /\ kept = {}
        /\ inbox = {}

Send == /\ \E m \in Messages : log' = Append(log, m)
        /\ kept' = kept \cup {Len(log) + 1}
        /\ UNCHANGED inbox

\* One or more messages arrive; they extend what is there without a gap.
Deliver == /\ \E n \in 1..Len(log) : inbox' = 1..n /\ inbox \subseteq inbox'
           /\ UNCHANGED <<log, kept>>

Discard == /\ kept' \subseteq kept
           /\ kept \ kept' \subseteq inbox
           /\ UNCHANGED <<log, inbox>>

Next == Send \/ Deliver \/ Discard

Spec == Init /\ [][Next]_vars
=============================================================================
