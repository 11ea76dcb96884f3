----------------------------- MODULE IncidentLoop -----------------------------
(***************************************************************************)
(* The incident automation (application/incidentloop): signals and state   *)
(* events are recorded, collected and built into episodes; an episode is   *)
(* analysed by an AI and filed as a GitHub Issue, once. The supervisor's   *)
(* own cycle ("loop") and the operator's analyze-once and retry ("cli")    *)
(* run beside each other and may die between any two of their writes.      *)
(*                                                                         *)
(* Fingerprints 1..Width are incidents, f + Width the operator_attention   *)
(* episode of the circuits of f, as far as there is one.                   *)
(***************************************************************************)
EXTENDS IncidentEpisode, Sequences

CONSTANTS
  Width,       \* bound: incidents
  Attention,   \* bound: operator_attention episodes; circuits beyond announce nothing
  Observed,    \* the kinds of signals of incidents that the scheduler records
  Committed,   \* the kinds that events of the state store become
  Callers,     \* who runs cycles: "loop", "cli"
  RunIDs,      \* the runs that signals are of, from 1
  MaxAttempts, \* max_analysis_attempts
  Budgets      \* bound: what may happen in one behaviour, see bound

Incidents == 1..Width
Fps == 1..Width + Attention

ASSUME WidthAssumption == Width \in Nat \ {0} /\ Attention \in Nat
ASSUME CallersAssumption == /\ Callers \subseteq {"loop", "cli"}
                            /\ Observed \cup Committed \subseteq Kinds /\ RunIDs \subseteq Nat \ {0}
ASSUME AttemptsAssumption == MaxAttempts \in Nat \ {0}

VARIABLES
  clock,   \* the last timestamp
  events,  \* the state store's events, in order: a signal, or an Issue's merge
  cursor,  \* state-event-cursor.json
  read,    \* the last event that the holder of data.lock collected
  signals, \* signals.jsonl with its archives
  saved,   \* state.json: the episode of every fingerprint
  issues,  \* GitHub's Issues: fingerprint, whether its pull request merged, whether the
           \* search index has it; history: lost, the run that filed it ended before that
           \* and before state.json named it
  phase,   \* per caller, where its cycle is
  run,     \* the run of the caller that holds process.lock
  born,    \* history: the timestamps of every fingerprint's signals
  bound    \* what may happen yet. signals, commits: signals of every incident that the
           \* scheduler or the state store records; merges: of pull requests; cycles: of the
           \* command line; failures: of the AI and of GitHub; mishaps: crashes,
           \* cancellations, signals that rotation drops; resets: uses of incident retry

vars == <<clock, events, cursor, read, signals, saved, issues, phase, run, born, bound>>

NoRun == [todo |-> {}]

Holds(c) == phase[c] \in {"running", "created", "saved"}

\* data.lock, across the only two writes that are made under one hold of it.
DataFree == \A c \in Callers : phase[c] # "cursor"

Spend(what) == bound' = [bound EXCEPT ![what] = @ - 1]

-----------------------------------------------------------------------------
\* What happens outside the automation.

\* The runs of an incident in the order of their first signals; they differ in nothing else.
NextRuns(f) == {r \in RunIDs : r <= 1 + Cardinality(born[f])}

NewSignal(f, kind, r) == [at |-> clock + 1, fp |-> f, kind |-> kind, run |-> r]

Occurs(f) ==
  /\ clock' = clock + 1
  /\ born' = [born EXCEPT ![f] = @ \cup {clock + 1}]

\* The scheduler records a signal itself.
Record(f, kind, r) ==
  /\ DataFree
  /\ bound.signals[f] > 0
  /\ bound' = [bound EXCEPT !.signals[f] = @ - 1]
  /\ Occurs(f)
  /\ signals' = signals \cup {NewSignal(f, kind, r)}
  /\ UNCHANGED <<events, cursor, read, saved, issues, phase, run>>

\* The state store commits an event that the collector will turn into one.
CommitEvent(f, kind, r) ==
  /\ bound.commits[f] > 0
  /\ bound' = [bound EXCEPT !.commits[f] = @ - 1]
  /\ Occurs(f)
  /\ events' = Append(events, [signal |-> NewSignal(f, kind, r), issue |-> 0])
  /\ UNCHANGED <<cursor, read, signals, saved, issues, phase, run>>

\* The pull request of an Issue that the automation filed is merged.
MergePullRequest(i) ==
  /\ ~issues[i].merged
  /\ bound.merges > 0
  /\ Spend("merges")
  /\ issues' = [issues EXCEPT ![i].merged = TRUE]
  /\ Occurs(issues[i].fp)
  /\ events' = Append(events,
       [signal |-> [at |-> clock + 1, fp |-> 0, kind |-> "merged", run |-> 0], issue |-> i])
  /\ UNCHANGED <<cursor, read, signals, saved, phase, run>>

\* GitHub's search index takes up an Issue, some time after its creation.
Index(i) ==
  /\ ~issues[i].indexed
  /\ issues' = [issues EXCEPT ![i].indexed = TRUE]
  /\ UNCHANGED <<clock, events, cursor, read, signals, saved, phase, run, born, bound>>

\* Rotation drops the oldest archive.
Rotate ==
  /\ DataFree
  /\ bound.mishaps > 0
  /\ Spend("mishaps")
  /\ \E s \in signals : (\A t \in signals : s.at <= t.at) /\ signals' = signals \ {s}
  /\ UNCHANGED <<clock, events, cursor, read, saved, issues, phase, run, born>>

-----------------------------------------------------------------------------
\* Collect: under data.lock, and not under process.lock.

\* An event of an Issue gets the fingerprint whose saved episode names the Issue.
Linked(e) ==
  IF \E f \in Fps : e.issue # 0 /\ saved[f] # None /\ saved[f].issue = e.issue
  THEN [e.signal EXCEPT !.fp = CHOOSE f \in Fps : saved[f] # None /\ saved[f].issue = e.issue]
  ELSE e.signal

Batch == {Linked(events[n]) : n \in cursor + 1..Len(events)}

\* A signal that is recorded already with other content.
Conflicts == \E s \in Batch, t \in signals : s.at = t.at /\ s # t

\* A cycle of the command line is begun by an operator.
Invoked(c) == IF c = "cli" THEN bound.cycles > 0 /\ Spend("cycles") ELSE UNCHANGED bound

Collect(c) ==
  /\ phase[c] = "idle"
  /\ Invoked(c)
  /\ DataFree
  /\ ~Conflicts
  /\ IF cursor = Len(events)
     THEN /\ phase' = [phase EXCEPT ![c] = "collected"]
          /\ UNCHANGED <<read, signals>>
     ELSE /\ phase' = [phase EXCEPT ![c] = "cursor"]
          /\ read' = Len(events)
          /\ signals' = signals \cup Batch
  /\ UNCHANGED <<clock, events, cursor, saved, issues, run, born>>

\* The batch is refused whole: the cycle fails, and the supervisor with it, until
\* it is started again.
CollectRefused(c) ==
  /\ phase[c] = "idle"
  /\ Invoked(c)
  /\ DataFree
  /\ Conflicts
  /\ phase' = [phase EXCEPT ![c] = "failed"]
  /\ UNCHANGED <<clock, events, cursor, read, signals, saved, issues, run, born>>

StartAgain(c) ==
  /\ phase[c] = "failed"
  /\ phase' = [phase EXCEPT ![c] = "idle"]
  /\ UNCHANGED <<clock, events, cursor, read, signals, saved, issues, run, born, bound>>

SaveCursor(c) ==
  /\ phase[c] = "cursor"
  /\ cursor' = read
  /\ read' = 0
  /\ phase' = [phase EXCEPT ![c] = "collected"]
  /\ UNCHANGED <<clock, events, signals, saved, issues, run, born, bound>>

-----------------------------------------------------------------------------
\* RunOnce. run: todo, the fingerprints still to look at, in their order; work, the
\* episodes; circuits, the fingerprints that opened one.

Free == \A c \in Callers : ~Holds(c)

FpsOf(work) == {f \in Fps : work[f] # None}

\* Another run holds process.lock: ErrAlreadyRunning, and nothing is done.
Busy(c) ==
  /\ phase[c] = "collected"
  /\ ~Free
  /\ phase' = [phase EXCEPT ![c] = "idle"]
  /\ UNCHANGED <<clock, events, cursor, read, signals, saved, issues, run, born, bound>>

BeginRun(c) ==
  /\ phase[c] = "collected"
  /\ Free
  /\ DataFree
  /\ LET work == BuildEpisodes(signals, saved) IN
     run' = [todo |-> FpsOf(work), work |-> work, circuits |-> {}]
  /\ phase' = [phase EXCEPT ![c] = "running"]
  /\ UNCHANGED <<clock, events, cursor, read, signals, saved, issues, born, bound>>

Fp == Min(run.todo)

Episode == run.work[Fp]

\* The run goes on with the next fingerprint, or with this one's Issue.
Keeps(e) == run' = [run EXCEPT !.work[Fp] = e]

\* Mutant: the run ends with the first fingerprint.
LeavesRest(e) == run' = [run EXCEPT !.todo = {}, !.work[Fp] = e]

Leaves(e) == run' = [run EXCEPT !.todo = @ \ {Fp}, !.work[Fp] = e]

\* The circuit of this one opens, and the run goes on.
Opens(e) == run' = [run EXCEPT !.todo = @ \ {Fp}, !.work[Fp] = e, !.circuits = @ \cup {Fp}]

Handled(e) == Class(e) = "expected_transient" \/ e.state = "resolved"

Analysable(e) == ~Handled(e) /\ e.ai = "none" /\ ~e.open /\ ~e.wait

\* issueEligibility: the verdict with at least medium confidence, and evidence.
Eligible(e) == e.ai = "recommend" /\ Class(e) \in {"confirmed_bug", "suspected_bug"}

Fileable(e) ==
  ~Handled(e) /\ e.issue = 0 /\ Eligible(e) /\ ~e.issueOpen /\ ~e.issueWait

Looking(c) == phase[c] = "running" /\ run.todo # {}

Skip(c) ==
  /\ Looking(c)
  /\ ~Analysable(Episode) /\ ~Fileable(Episode)
  /\ Leaves(Episode)
  /\ UNCHANGED <<clock, events, cursor, read, signals, saved, issues, phase, born, bound>>

Analyse(c) ==
  /\ Looking(c)
  /\ Analysable(Episode)
  /\ \E verdict \in {"recommend", "decline"} :
       Keeps([Episode EXCEPT !.ai = verdict, !.judged = Episode.count,
                             !.attempts = @ + 1, !.wait = FALSE])
  /\ UNCHANGED <<clock, events, cursor, read, signals, saved, issues, phase, born, bound>>

\* The last attempt opens the circuit; an earlier one waits for its backoff.
AnalysisFails(c) ==
  /\ Looking(c)
  /\ Analysable(Episode)
  /\ bound.failures > 0
  /\ Spend("failures")
  /\ IF Episode.attempts + 1 >= MaxAttempts
     THEN Opens([Episode EXCEPT !.attempts = @ + 1, !.open = TRUE, !.gen = @ + 1])
     ELSE Leaves([Episode EXCEPT !.attempts = @ + 1, !.wait = TRUE])
  /\ UNCHANGED <<clock, events, cursor, read, signals, saved, issues, phase, born>>

\* Mutant: the saved link alone decides.
MatchesNone == {}

\* ensureIssue. The search sees what the index has taken up.
Matches == {i \in DOMAIN issues : issues[i].fp = Fp /\ issues[i].indexed}

\* The run gives up what it filed: of the Issues gone, those that no search finds are lost.
Abandon(gone) ==
  issues' = [i \in DOMAIN issues |->
    IF i \in gone /\ ~issues[i].indexed THEN [issues[i] EXCEPT !.lost = TRUE] ELSE issues[i]]

Unsaved ==
  {i \in DOMAIN issues : saved[issues[i].fp] = None \/ saved[issues[i].fp].issue # i}

Filed(e, i) ==
  [e EXCEPT !.issue = i, !.issueAttempts = @ + 1, !.issueWait = FALSE]

Reuse(c) ==
  /\ Looking(c)
  /\ Fileable(Episode)
  /\ Cardinality(Matches) = 1
  /\ \E i \in Matches : Leaves(Filed(Episode, i))
  /\ UNCHANGED <<clock, events, cursor, read, signals, saved, issues, phase, born, bound>>

Create(c) ==
  /\ Looking(c)
  /\ Fileable(Episode)
  /\ Matches = {}
  /\ issues' = Append(issues, [fp |-> Fp, merged |-> FALSE, indexed |-> FALSE, lost |-> FALSE])
  /\ phase' = [phase EXCEPT ![c] = "created"]
  /\ UNCHANGED <<clock, events, cursor, read, signals, saved, run, born, bound>>

ReadBack(c) ==
  /\ phase[c] = "created"
  /\ Leaves(Filed(Episode, Len(issues)))
  /\ phase' = [phase EXCEPT ![c] = "running"]
  /\ UNCHANGED <<clock, events, cursor, read, signals, saved, issues, born, bound>>

\* One attempt is used up, and the last opens the circuit.
Fails ==
  IF Episode.issueAttempts + 1 >= MaxAttempts
  THEN Opens([Episode EXCEPT !.issueAttempts = @ + 1, !.issueOpen = TRUE, !.issueGen = @ + 1])
  ELSE Leaves([Episode EXCEPT !.issueAttempts = @ + 1, !.issueWait = TRUE])

\* The search, the creation (its answer may be lost) or the read back fails.
IssueFails(c) ==
  /\ bound.failures > 0
  /\ Spend("failures")
  /\ \/ Looking(c) /\ Fileable(Episode) /\ UNCHANGED issues
     \/ phase[c] = "created" /\ Abandon({Len(issues)})
  /\ phase' = [phase EXCEPT ![c] = "running"]
  /\ Fails
  /\ UNCHANGED <<clock, events, cursor, read, signals, saved, born>>

\* "multiple Issues contain incident fingerprint"
Ambiguous(c) ==
  /\ Looking(c)
  /\ Fileable(Episode)
  /\ Cardinality(Matches) > 1
  /\ Fails
  /\ UNCHANGED <<clock, events, cursor, read, signals, saved, issues, phase, born, bound>>

\* The context is cancelled while the AI or GitHub is asked: this episode stays as
\* it is in work, the others are saved.
Cancel(c) ==
  /\ bound.mishaps > 0
  /\ Spend("mishaps")
  /\ \/ Looking(c) /\ UNCHANGED issues
     \/ phase[c] = "created" /\ Abandon({Len(issues)})
  /\ run' = [run EXCEPT !.todo = {}]
  /\ phase' = [phase EXCEPT ![c] = "running"]
  /\ UNCHANGED <<clock, events, cursor, read, signals, saved, born>>

\* The circuits of one run as the signals they are announced with.
Announced ==
  LET open == {f \in run.circuits : f + Width \in Fps} IN
  {[at |-> clock + Cardinality({g \in open : g <= f}), fp |-> f + Width,
    kind |-> "circuit", run |-> 0] : f \in open}

\* SaveState, with the episodes rebuilt from the announcements.
Save(c) ==
  /\ phase[c] = "running"
  /\ run.todo = {}
  /\ DataFree
  /\ saved' = BuildEpisodes(Announced, run.work)
  /\ clock' = clock + Cardinality(Announced)
  /\ born' = [f \in Fps |-> born[f] \cup Ats({s \in Announced : s.fp = f})]
  /\ run' = [todo |-> {}, circuits |-> Announced]
  /\ phase' = [phase EXCEPT ![c] = "saved"]
  /\ UNCHANGED <<events, cursor, read, signals, issues, bound>>

\* AppendDecisions, of which nothing is kept here, then the announcements are
\* recorded and the locks released.
Announce(c) ==
  /\ phase[c] = "saved"
  /\ DataFree
  /\ signals' = signals \cup run.circuits
  /\ run' = NoRun
  /\ phase' = [phase EXCEPT ![c] = "idle"]
  /\ UNCHANGED <<clock, events, cursor, read, saved, issues, born, bound>>

\* The process dies, or a file operation fails, which ends the cycle as well.
Crash(c) ==
  /\ phase[c] \notin {"idle", "failed"}
  /\ bound.mishaps > 0
  /\ Spend("mishaps")
  /\ run' = IF Holds(c) THEN NoRun ELSE run
  /\ IF phase[c] \in {"running", "created"} THEN Abandon(Unsaved) ELSE UNCHANGED issues
  /\ read' = IF phase[c] = "cursor" THEN 0 ELSE read
  /\ phase' = [phase EXCEPT ![c] = "idle"]
  /\ UNCHANGED <<clock, events, cursor, signals, saved, born>>

-----------------------------------------------------------------------------
\* incident retry, under both locks.

Recovered(attention) ==
  [attention EXCEPT !.state = "resolved", !.life = clock + 1, !.last = clock + 1]

Reset(f) ==
  /\ Free /\ DataFree
  /\ bound.resets > 0
  /\ Spend("resets")
  /\ saved[f] # None
  /\ saved[f].state # "resolved"
  /\ saved[f].open \/ saved[f].issueOpen
  /\ clock' = clock + 1
  /\ saved' = [g \in Fps |->
       IF g = f THEN Renewed(saved[g])
       ELSE IF g = f + Width /\ saved[g] # None THEN Recovered(saved[g])
       ELSE saved[g]]
  /\ UNCHANGED <<events, cursor, read, signals, issues, phase, run, born>>

\* Time passes until a backoff is over; a run judges by the time it began at.
BackoffEnds(f) ==
  /\ Free
  /\ saved[f] # None
  /\ saved[f].wait \/ saved[f].issueWait
  /\ saved' = [saved EXCEPT ![f].wait = FALSE, ![f].issueWait = FALSE]
  /\ UNCHANGED <<clock, events, cursor, read, signals, issues, phase, run, born, bound>>

-----------------------------------------------------------------------------

Init ==
  /\ clock = 0
  /\ events = <<>>
  /\ cursor = 0
  /\ read = 0
  /\ signals = {}
  /\ saved = [f \in Fps |-> None]
  /\ issues = <<>>
  /\ phase = [c \in Callers |-> "idle"]
  /\ run = NoRun
  /\ born = [f \in Fps |-> {}]
  /\ bound \in Budgets

\* The steps of a cycle that has begun.
Step(c) ==
  \/ SaveCursor(c)
  \/ Busy(c)
  \/ BeginRun(c)
  \/ Skip(c)
  \/ Analyse(c)
  \/ AnalysisFails(c)
  \/ Reuse(c)
  \/ Create(c)
  \/ ReadBack(c)
  \/ IssueFails(c)
  \/ Ambiguous(c)
  \/ Save(c)
  \/ Announce(c)

Next ==
  \/ \E f \in Incidents, kind \in Observed : \E r \in NextRuns(f) : Record(f, kind, r)
  \/ \E f \in Incidents, kind \in Committed : \E r \in NextRuns(f) : CommitEvent(f, kind, r)
  \/ \E i \in DOMAIN issues : MergePullRequest(i) \/ Index(i)
  \/ Rotate
  \/ \E c \in Callers :
       \/ Collect(c) \/ CollectRefused(c) \/ StartAgain(c)
       \/ Step(c) \/ Cancel(c) \/ Crash(c)
  \/ \E f \in Fps : Reset(f) \/ BackoffEnds(f)

\* The loop's timer, the calls' timeouts, and the time that every backoff takes;
\* nobody has to use the command line, but what it began ends.
Fairness ==
  /\ \A c \in Callers : WF_vars(Step(c))
  /\ "loop" \in Callers => WF_vars(Collect("loop") \/ CollectRefused("loop") \/ StartAgain("loop"))
  /\ \A f \in Fps : SF_vars(BackoffEnds(f))

Spec == Init /\ [][Next]_vars /\ Fairness

-----------------------------------------------------------------------------

Signals == [at : Nat, fp : Fps \cup {0}, kind : Kinds, run : RunIDs \cup {0}]

Episodes ==
  [state : {"open", "resolved", "reopened"}, count : Nat \ {0}, ids : SUBSET (1..clock),
   last : 1..clock, features : SUBSET {"violation", "fix", "repeated", "human", "degraded",
                                       "transient", "success"},
   runs : SUBSET RunIDs, life : 0..clock, ai : {"none", "recommend", "decline"},
   judged : Nat, issue : 0..Len(issues),
   attempts : Nat, open : BOOLEAN, gen : Nat, wait : BOOLEAN,
   issueAttempts : Nat, issueOpen : BOOLEAN, issueGen : Nat, issueWait : BOOLEAN]

\* The type invariant; what a run works on is in process.lock's one holder.
TypeOK ==
  /\ \A s \in signals : s \in Signals /\ s.at <= clock
  /\ cursor \in 0..Len(events) /\ read \in 0..Len(events)
  /\ \A f \in Fps : saved[f] # None =>
       saved[f] \in Episodes /\ Cardinality(saved[f].ids) <= MaxItems
  /\ phase \in [Callers -> {"idle", "failed", "cursor", "collected", "running", "created", "saved"}]
  /\ Cardinality({c \in Callers : Holds(c)}) = (IF run = NoRun THEN 0 ELSE 1)

\* A fingerprint gets a second Issue only when the run that filed the earlier one ended,
\* by a crash, a failed call or a cancellation, before it was saved as the episode's
\* and before the search index had it (process.lock, the search before every creation).
OneIssue ==
  \A i, j \in DOMAIN issues : i < j /\ issues[i].fp = issues[j].fp => issues[i].lost

\* The same without the exception, as docs/incident-automation.md:120 has it: however a
\* run ends, GitHub has one Issue of a fingerprint (ensureIssue).
NeverTwoIssues == \A i, j \in DOMAIN issues : issues[i].fp = issues[j].fp => i = j

\* No episode counts a signal twice: not one collected again after a crash, not one
\* whose ID was cut off, not one that is in the history still (unseenSignals).
CountedOnce == \A f \in Fps : saved[f] # None => saved[f].count <= Cardinality(born[f])

\* An Issue is created on a verdict about every signal of the episode (mergeEpisode
\* forgets the verdict when one is added).
FiledOnCurrentEvidence ==
  \A c \in Callers : phase[c] = "created" => Episode.judged = Episode.count

\* The incident is handed over: to an Issue, to the operator by an open circuit, or
\* to nobody by a verdict, its class or its end.
Settled(e) ==
  \/ Handled(e)
  \/ e.issue # 0 \/ e.open \/ e.issueOpen
  \/ e.ai # "none" /\ ~Eligible(e)

HandedOver(f) ==
  (\E s \in signals : s.fp = f /\ IsIncident(s)) => saved[f] # None /\ Settled(saved[f])

\* What was recorded of an incident is handed over in the end, over failures, crashes and
\* what becomes of the other incidents; unless a batch of events is refused for good
\* (Pipeline.RunOnce after Collector.Collect).
Considered == <>[](Conflicts \/ \A f \in Incidents : HandedOver(f))

\* The same without the exception: what is refused for one incident leaves the others
\* their analysis (automation.go RunIncidentOnce; docs/incident-automation.md:9).
AlwaysConsidered == <>[](\A f \in Incidents : HandedOver(f))

\* An incident that comes back after its fix is merged is shown as reopened.
RecurrenceReopens ==
  saved[1] # None /\ saved[1].life > 0 /\ saved[1].last > saved[1].life =>
    saved[1].state = "reopened"
=============================================================================
