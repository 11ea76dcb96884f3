--------------------------- MODULE IncidentEpisode ---------------------------
(***************************************************************************)
(* How recorded signals become episodes (incidentloop/builder.go) and how  *)
(* an episode is classified (incidentanalysis.Classify).                   *)
(*                                                                         *)
(* A signal is [at, fp, kind, run]: at stands for its timestamp and its ID *)
(* and is unique; fp is its fingerprint, 0 one that belongs to no incident *)
(* here; run is 0 when it names none.                                      *)
(***************************************************************************)
EXTENDS Naturals, FiniteSets, FiniteSetsExt

CONSTANTS
  MaxItems \* max_episode_items, the signal IDs an episode keeps

ASSUME ItemsAssumption == MaxItems \in Nat \ {0}

None == [count |-> 0]

\* What one signal of each kind tells: a violated invariant, a retry with its
\* backoff, a slow cycle, a success, the merge of the incident's own pull
\* request, and a circuit of this automation that opened.
FeaturesOf ==
  [violation |-> {"violation"}, retry |-> {"transient"}, stalled |-> {"degraded"},
   recovered |-> {"success"}, merged |-> {"fix", "success"}, circuit |-> {"human"}]

Kinds == DOMAIN FeaturesOf

IsIncident(s) == s.kind \notin {"recovered", "merged"}

\* The rules in the order of their priority.
Classify(features) ==
  IF {"violation", "fix"} \subseteq features THEN "confirmed_bug"
  ELSE IF {"violation", "repeated"} \subseteq features THEN "suspected_bug"
  ELSE IF "human" \in features THEN "operator_attention"
  ELSE IF "degraded" \in features THEN "degraded"
  ELSE IF {"transient", "success"} \subseteq features /\ "violation" \notin features
       THEN "expected_transient"
  ELSE "unknown"

SelfHealing == {"expected_transient", "degraded"}

Class(e) == Classify(e.features)

Runs(signals) == {s.run : s \in signals} \ {0}

Features(signals, runs) ==
  UNION {FeaturesOf[s.kind] : s \in signals}
    \cup (IF Cardinality(runs) >= 2 THEN {"repeated"} ELSE {})

Ats(signals) == {s.at : s \in signals}

\* The latest lifecycle result among signals, 0 for none; each of them resolves.
Lifecycle(signals) == Max(Ats({s \in signals : s.kind = "merged"}) \cup {0})

\* boundedStrings keeps the first and the last half; the IDs are ordered by time here.
Bounded(ids) ==
  {i \in ids : \/ Cardinality(ids) <= MaxItems
               \/ Cardinality({j \in ids : j < i}) < MaxItems \div 2
               \/ Cardinality({j \in ids : j > i}) < MaxItems - MaxItems \div 2}

BuildEpisode(signals) ==
  LET features == Features(signals, Runs(signals)) IN
  [state |-> IF \/ Lifecycle(signals) > 0
                \/ Classify(features) \in SelfHealing /\ "success" \in features
             THEN "resolved" ELSE "open",
   count |-> Cardinality(signals), ids |-> Bounded(Ats(signals)), last |-> Max(Ats(signals)),
   features |-> features, runs |-> Runs(signals), life |-> Lifecycle(signals),
   ai |-> "none", judged |-> 0, issue |-> 0,
   attempts |-> 0, open |-> FALSE, gen |-> 0, wait |-> FALSE,
   issueAttempts |-> 0, issueOpen |-> FALSE, issueGen |-> 0, issueWait |-> FALSE]

\* Mutant: only the IDs decide.
UnseenByID(signals, old) == {s \in signals : s.at \notin old.ids}

\* What an episode has not counted; once IDs were cut off, position decides.
Unseen(signals, old) ==
  {s \in signals : s.at \notin old.ids /\ (old.count > Cardinality(old.ids) => s.at > old.last)}

\* A new class restores the budgets of retries and closes the circuits.
Renewed(e) ==
  [e EXCEPT !.attempts = 0, !.open = FALSE, !.wait = FALSE,
            !.issueAttempts = 0, !.issueOpen = FALSE, !.issueWait = FALSE]

MergedState(old, delta, life, features) ==
  IF /\ Classify(features) \in SelfHealing
     /\ "success" \in delta.features
     /\ delta.last >= old.last
  THEN "resolved"
  ELSE IF old.state = "resolved" /\ delta.life = 0 THEN "reopened"
  ELSE IF life > 0 THEN "resolved"
  ELSE old.state

\* Mutant: it is kept.
VerdictKept(old, changed) == old.ai

\* The verdict on an episode without Issue is forgotten with every new signal.
Verdict(old, changed) == IF changed \/ old.issue = 0 THEN "none" ELSE old.ai

MergeEpisode(old, fresh) ==
  LET delta == BuildEpisode(fresh)
      runs == old.runs \cup delta.runs
      features == old.features \cup Features(fresh, runs)
      life == Max({old.life, delta.life})
      changed == Classify(features) # Class(old)
      merged ==
        [old EXCEPT !.count = @ + Cardinality(fresh),
                    !.ids = Bounded(@ \cup Ats(fresh)),
                    !.last = Max({@, delta.last}),
                    !.features = features, !.runs = runs, !.life = life,
                    !.state = MergedState(old, delta, life, features),
                    !.ai = Verdict(old, changed)]
  IN IF changed THEN Renewed(merged) ELSE merged

BuildOf(group, old) ==
  IF old = None
  THEN IF \E s \in group : IsIncident(s) THEN BuildEpisode(group) ELSE None
  ELSE IF Unseen(group, old) = {} THEN old ELSE MergeEpisode(old, Unseen(group, old))

\* BuildEpisodesWithLimit: every fingerprint's signals against its old episode.
BuildEpisodes(signals, previous) ==
  [f \in DOMAIN previous |-> BuildOf({s \in signals : s.fp = f}, previous[f])]
=============================================================================
