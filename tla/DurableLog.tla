----------------------------- MODULE DurableLog -----------------------------
(***************************************************************************)
(* What the state store promises its callers: one sequence of updates.     *)
(* An update takes effect at once and for ever, and a caller that is told  *)
(* of a success is told of a sequence that already holds its update.       *)
(***************************************************************************)
EXTENDS Sequences

CONSTANT Payloads

VARIABLES value,      \* the updates that took effect
          confirmed   \* what the last successful caller was told

vars == <<value, confirmed>>

Init == value = <<>> /\ confirmed = <<>>

Commit(p) == value' = Append(value, p) /\ UNCHANGED confirmed

Confirm == confirmed' = value /\ UNCHANGED value

Next == (\E p \in Payloads : Commit(p)) \/ Confirm

Spec == Init /\ [][Next]_vars
=============================================================================
