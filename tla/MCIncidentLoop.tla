--------------------------- MODULE MCIncidentLoop ---------------------------
(* Instances of IncidentLoop for TLC: what may happen in one behaviour.     *)
EXTENDS IncidentLoop

Nothing ==
  [signals |-> <<0, 0>>, commits |-> <<0, 0>>, merges |-> 0, cycles |-> 0,
   failures |-> 0, mishaps |-> 0, resets |-> 0]

\* An incident comes up a second time, another beside it; the Issue's pull request is
\* merged and the command line interferes.
Beside ==
  [Nothing EXCEPT !.signals = <<2, 0>>, !.commits = <<0, 1>>,
                  !.merges = 1, !.cycles = 1, !.mishaps = 1]

\* One incident, whose analysis or Issue fails until its circuit opens, and again.
Retried ==
  [Nothing EXCEPT !.signals = <<2, 0>>, !.merges = 1,
                  !.failures = 2, !.mishaps = 1, !.resets = 1]

\* One incident from both sources, looked at by both callers, with failures.
Contended ==
  [Nothing EXCEPT !.signals = <<1, 0>>, !.commits = <<1, 0>>,
                  !.cycles = 1, !.failures = 2, !.mishaps = 1]

\* An incident that comes back after its fix is merged.
Returning == [Nothing EXCEPT !.signals = <<4, 0>>, !.merges = 1]

Mixed == {Beside, Retried, Contended}
Refused == {Beside}
Cut == {Contended}
Reopening == {Returning}
=============================================================================
