------------------------------ MODULE RateLimit ------------------------------
(***************************************************************************)
(* The cooldown file that all supervisors of a managed root share: GitHub's *)
(* primary quota belongs to the user, not to a repository. Time is counted *)
(* in ticks until the reset.                                               *)
(***************************************************************************)
EXTENDS Naturals, FiniteSetsExt

CONSTANT MaxReset  \* bound: the longest reset, in ticks

ASSUME LimitsAssumption == MaxReset \in Nat \ {0}

VARIABLES
  cooldown,  \* ticks until the reset on file, 0 when there is none
  promised   \* history: ticks until the latest reset that any supervisor has been told

limits == <<cooldown, promised>>

\* Left by an earlier run, or none.
LimitsInit == cooldown \in 0..MaxReset /\ promised = cooldown

Active == cooldown > 0

\* Observe extends and never shortens an active cooldown.
Observe(reset) ==
  /\ cooldown' = IF Active /\ reset <= cooldown THEN cooldown ELSE reset
  /\ promised' = Max({promised, reset})

\* Time passes.
Tick ==
  /\ Max({cooldown, promised}) > 0
  /\ cooldown' = Max({cooldown, 1}) - 1
  /\ promised' = Max({promised, 1}) - 1

LimitsTypeOK == {cooldown, promised} \subseteq 0..MaxReset
=============================================================================
