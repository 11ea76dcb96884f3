--------------------------- MODULE WebhookDelivery ---------------------------
(***************************************************************************)
(* The scheduler of a repository in webhook mode, fed by the broker: it    *)
(* coalesces its mailbox to the newest intent of each Issue, repeats the   *)
(* authoritative read, and acknowledges what it acted on.  Issues are      *)
(* reduced to what a delivery finds: none, a managed one, a stopped one.   *)
(***************************************************************************)
EXTENDS WebhookBroker, RateLimit

VARIABLES
  local,  \* the snapshot: is the Issue unknown, under way, or terminal for webhooks
  super,  \* the supervisor: up, waiting out its own retry, down, or blocked for good
  cycle,  \* memory: the mailbox batch being processed
  job,    \* memory: the candidate whose claim was dispatched
  gone    \* GitHub: Issues deleted

queue == <<local, super, cycle, job>>
broker == <<github, durable, memory, faults, unread, overtaken>>
vars == <<broker, limits, queue, gone>>

Init ==
  /\ BrokerInit /\ LimitsInit
  /\ \E stopped \in {{}, {Min(Issues)}} :
       local = [i \in Issues |-> IF i \in stopped THEN "stopped" ELSE "none"]
  /\ super = "up" /\ cycle = None /\ job = None /\ gone = {}

\* The batch in memory, and the part of it that needs nothing more than its removal.
Batch == IF cycle = None THEN {} ELSE cycle.todo \cup cycle.acks
Acted == IF cycle = None THEN {} ELSE {d \in cycle.acks : \A e \in cycle.todo : e.issue # d.issue}

\* The worker slot is taken.
Busy == job # None \/ \E i \in Issues : local[i] = "active"

-----------------------------------------------------------------------------
(* Reads of GitHub, behind the gate of the shared cooldown. *)

\* Variant: the gate is passed once, before the cycle.
ReadUngated(i, kinds) ==
  /\ i \notin gone
  /\ unread' = unread \ Changes(i, kinds)
  /\ overtaken' = overtaken \ {i}

\* An authoritative read observes every change of these kinds so far.
Read(i, kinds) ==
  /\ ~Active /\ i \notin gone
  /\ unread' = unread \ Changes(i, kinds)
  /\ overtaken' = overtaken \ {i}

NoRead == UNCHANGED <<unread, overtaken>>

-----------------------------------------------------------------------------
(* The scheduling cycle, under the lifecycle gate. *)

Superseded(d) == \E e \in mailbox : e.issue = d.issue /\ e.at > d.at

\* processMailbox reads the mailbox: only the newest intent of an Issue is acted on.
BeginCycle ==
  /\ super = "up" /\ cycle = None /\ ~Active /\ mailbox # {}
  /\ LET old == {d \in mailbox : Superseded(d)}
     IN cycle' = [todo |-> mailbox \ old, acks |-> old, candidates |-> {}]
  /\ UNCHANGED <<broker, limits, local, super, job, gone>>

\* The newest one that is left.
Current(d) == cycle # None /\ d \in cycle.todo /\ \A e \in cycle.todo : e.at <= d.at

\* An unknown Issue is not read while the worker slot is taken; its intent stays.
NeedsRead(d) == local[d.issue] # "none" \/ ~Busy

Skip(d) ==
  /\ Current(d) /\ ~NeedsRead(d)
  /\ cycle' = [cycle EXCEPT !.todo = @ \ {d}]
  /\ UNCHANGED <<broker, limits, local, super, job, gone>>

\* A managed Issue is reconciled: its projection, after a comment its comments too,
\* and a stopped one is inspected. An unknown Issue is read, and when it is eligible
\* keeps its intent until it is durable.
Process(d) ==
  /\ Current(d) /\ NeedsRead(d)
  /\ Read(d.issue, IF local[d.issue] # "none" /\ d.event = "issues" THEN {"issues"} ELSE Kinds)
  /\ cycle' = IF local[d.issue] = "none" /\ d.issue \in ready
              THEN [cycle EXCEPT !.todo = @ \ {d}, !.candidates = @ \cup {d.issue}]
              ELSE [cycle EXCEPT !.todo = @ \ {d}, !.acks = @ \cup {d}]
  /\ UNCHANGED <<github, durable, memory, faults, limits, local, super, job, gone>>

\* The supervisor is told of GitHub's reset, or of the one on file.
Limited == IF Active THEN UNCHANGED <<limits, faults>>
           ELSE Fault /\ \E reset \in 1..MaxReset : Observe(reset)

\* A request fails for another reason; of a deleted Issue every one does.
Unavailable(i) ==
  /\ ~Active /\ UNCHANGED limits
  /\ IF i \in gone THEN UNCHANGED faults ELSE Fault

\* Variant: a failed cycle removes what it has read.
CycleFailsRemovesAll(d) ==
  /\ Current(d) /\ NeedsRead(d)
  /\ \/ Limited /\ UNCHANGED super
     \/ Unavailable(d.issue) /\ super' = "retry"
  /\ mailbox' = mailbox \ Batch
  /\ cycle' = None
  /\ UNCHANGED <<github, inbox, receipts, cache, memory, local, job, gone>> /\ NoRead

\* A read fails: what was acknowledged so far is removed. A reset is waited out, a
\* transient failure retried; the unclassified error of the comments counts as the
\* supervisor's own and stops it for good.
CycleFails(d) ==
  /\ Current(d) /\ NeedsRead(d)
  /\ \/ Limited /\ UNCHANGED super
     \/ /\ Unavailable(d.issue)
        /\ super' = IF d.event = "issue_comment" /\ local[d.issue] # "none" THEN "blocked" ELSE "retry"
  /\ mailbox' = mailbox \ cycle.acks
  /\ cycle' = None
  /\ UNCHANGED <<github, inbox, receipts, cache, memory, local, job, gone>> /\ NoRead

\* A candidate is dispatched when no Issue is under way, and the acknowledged
\* intents are removed.
EndCycle ==
  /\ cycle # None /\ cycle.todo = {}
  /\ IF Busy \/ cycle.candidates = {} THEN UNCHANGED job ELSE job' \in cycle.candidates
  /\ mailbox' = mailbox \ cycle.acks
  /\ cycle' = None
  /\ UNCHANGED <<github, inbox, receipts, cache, memory, faults, limits, local, super, gone>>
  /\ NoRead

\* dispatchManagedReconciliation: every known Issue is read from time to time.
ManagedReconciliation(i) ==
  /\ super = "up" /\ cycle = None /\ ~Active /\ local[i] # "none"
  /\ \/ Read(i, Kinds) /\ UNCHANGED <<super, limits, faults>>
     \/ NoRead /\ Limited /\ UNCHANGED super
     \/ NoRead /\ Unavailable(i) /\ super' = "retry"
  /\ UNCHANGED <<github, durable, memory, local, cycle, job, gone>>

-----------------------------------------------------------------------------
(* The jobs. *)

\* startIssue reads again and claims.
StartIssue ==
  /\ super = "up" /\ cycle = None /\ job # None
  /\ Read(job, Kinds)
  /\ local' = IF job \in ready THEN [local EXCEPT ![job] = "active"] ELSE local
  /\ job' = None
  /\ UNCHANGED <<github, durable, memory, faults, limits, super, cycle, gone>>

\* A failed claim is tried again out of the intent.
StartFails ==
  /\ super = "up" /\ cycle = None /\ job # None
  /\ Limited \/ Unavailable(job)
  /\ job' = None
  /\ UNCHANGED <<github, durable, memory, local, super, cycle, gone>> /\ NoRead

\* The Issue under way comes to an end, or stops for its operator.
IssueStops(i) ==
  /\ super = "up" /\ cycle = None /\ local[i] = "active"
  /\ local' = [local EXCEPT ![i] = "stopped"]
  /\ UNCHANGED <<broker, limits, super, cycle, job, gone>>

-----------------------------------------------------------------------------
(* The supervisor's process, the clock, the other repositories. *)

Resume ==
  /\ super = "retry" /\ super' = "up"
  /\ UNCHANGED <<broker, limits, local, cycle, job, gone>>

SupervisorCrash ==
  /\ super \in {"up", "retry"} /\ Fault
  /\ super' = "down" /\ cycle' = None /\ job' = None
  /\ UNCHANGED <<github, durable, memory, limits, local, gone>> /\ NoRead

\* launchd starts it again; the startup reconciliation waits out the cooldown and
\* inspects what is under way, or defers that.
Restart ==
  /\ super = "down" /\ ~Active
  /\ super' = "up"
  /\ \/ Fault /\ UNCHANGED unread
     \/ /\ unread' = unread \ UNION {Changes(i, Kinds) : i \in {k \in Issues \ gone : local[k] = "active"}}
        /\ UNCHANGED faults
  /\ UNCHANGED <<github, durable, memory, overtaken, limits, local, cycle, job, gone>>

PassTime == Tick /\ UNCHANGED <<broker, queue, gone>>

\* Another repository's supervisor is told of a reset.
OtherObserves ==
  /\ Fault /\ \E reset \in 1..MaxReset : Observe(reset)
  /\ UNCHANGED <<github, durable, memory, queue, gone>> /\ NoRead

Delete(i) ==
  /\ i \notin gone /\ Fault
  /\ gone' = gone \cup {i}
  /\ ready' = ready \ {i}
  /\ version' = IF i \in ready THEN version + 1 ELSE version
  /\ UNCHANGED <<events, durable, memory, limits, queue>> /\ NoRead

Rest == UNCHANGED <<limits, queue, gone>>
Sweep == (SweepList(Batch) \/ SweepEnqueue(Acted) \/ SweepSave) /\ Rest
Routing == RouteStep /\ Rest
Cycle == BeginCycle \/ (\E d \in Batch : Skip(d) \/ Process(d)) \/ EndCycle

Next ==
  \/ (\E i \in Issues \ gone, kind \in Kinds : Change(i, kind)) /\ Rest
  \/ (\E n \in DOMAIN events : Accept(n, Batch)) /\ Rest
  \/ Routing \/ Sweep \/ Cycle \/ StartIssue \/ StartFails \/ Resume \/ Restart \/ PassTime
  \/ (SweepFails \/ BrokerCrash) /\ Rest
  \/ \E d \in Batch : CycleFails(d)
  \/ \E i \in Issues : ManagedReconciliation(i) \/ IssueStops(i) \/ Delete(i)
  \/ SupervisorCrash \/ OtherObserves

\* The broker's goroutines, the scheduler's cycle of sixty seconds, its jobs and the
\* clock go on; deliveries, changes and failures need not come.
Fairness ==
  /\ WF_vars(Routing) /\ WF_vars(Sweep) /\ WF_vars(Cycle) /\ WF_vars(StartIssue)
  /\ WF_vars(Resume) /\ WF_vars(Restart) /\ WF_vars(PassTime)
  /\ \A i \in Issues : WF_vars(IssueStops(i)) /\ WF_vars(ManagedReconciliation(i))

Spec == Init /\ [][Next]_vars /\ Fairness

-----------------------------------------------------------------------------
(* Properties. *)

\* The composed state is well typed: the broker's files and memory, the cooldown,
\* and the scheduler's batch, which holds each intent once.
TypeOK ==
  /\ BrokerTypeOK /\ LimitsTypeOK
  /\ local \in [Issues -> {"none", "active", "stopped"}]
  /\ super \in {"up", "retry", "down", "blocked"}
  /\ cycle = None \/ (cycle.todo \cap cycle.acks = {} /\ cycle.candidates \subseteq Issues)
  /\ job \in Issues \cup {None}
  /\ gone \subseteq Issues

\* An accepted change of an Issue nobody manages yet is never dropped between the
\* inbox, the mailbox and the durable Issue (specification.md:480): until it is read,
\* some intent for the Issue is on disk that the cycle under way will not remove, or
\* its job will still read it.
NoLostIntent ==
  \A n \in unread :
    LET i == events[n].issue
    IN events[n].event = "issues" /\ Accepted(n) /\ local[i] = "none" =>
         \E d \in inbox \cup (mailbox \ Acted) : d.issue = i

\* A redelivered or replayed delivery whose receipt exists does not come back to the
\* mailbox once the scheduler has acknowledged it.
DuplicateSuppressed ==
  [][\A n \in receipts : WebhookId(n) \in Ids(mailbox') => WebhookId(n) \in Ids(mailbox)]_vars

\* Once any repository's supervisor was told of a reset, GitHub is not read before it.
CooldownHonoured == [][unread' \subseteq unread /\ unread' # unread => promised = 0]_vars

\* What the webhook accepted is read in the end, whatever crashes, fails or is
\* superseded; so is an Issue that is in the ready collection though no delivery came.
\* (Exempt: an intent of the sweep that fell together with one just acted on, and
\* deleted Issues, whose reads fail for ever.)
IntentServed ==
  \A n \in 1..MaxEvents :
    (n \in unread /\ (Accepted(n) \/ events[n].issue \in ready))
      ~> (n \notin unread \/ super = "blocked" \/ events[n].issue \in overtaken \/ gone # {}
          \/ (~Accepted(n) /\ events[n].issue \notin ready))

\* A transient failure of GitHub never ends the supervisor (specification.md:916).
TransientNeverBlocks == super # "blocked"

\* The sweep never loses the difference it saw (broker.go:345): an Issue in the swept
\* collection was read since it came, or has an intent.
SweepKeepsDiff == sweep = None => overtaken = {}
=============================================================================
