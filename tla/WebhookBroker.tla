---------------------------- MODULE WebhookBroker ----------------------------
(***************************************************************************)
(* The webhook broker of the managed root: deliveries are accepted into a  *)
(* durable inbox, routed once each to the repository's mailbox, and the    *)
(* safety sweep turns what changed in the ready collection into mailbox    *)
(* intents, for the deliveries that never came.                            *)
(***************************************************************************)
EXTENDS Naturals, FiniteSets, Sequences, FiniteSetsExt

CONSTANTS
  Issues,        \* Issue numbers
  None,          \* nothing there
  MaxEvents,     \* bound: changes on GitHub
  WorkCapacity,  \* ids the work channel holds (1024)
  MaxFaults      \* bound: crashes, and writes and GitHub requests that fail

ASSUME BrokerAssumption ==
  /\ Issues \subseteq Nat \ {0} /\ IsFiniteSet(Issues) /\ None \notin Nat
  /\ {MaxEvents, WorkCapacity, MaxFaults} \subseteq Nat

VARIABLES
  events,    \* GitHub: the Issue and the kind of every change; a delivery's ID is its place
  ready,     \* GitHub: the ready collection
  version,   \* GitHub: the validator (ETag) of the ready collection
  inbox,     \* broker/inbox: deliveries accepted and not routed
  receipts,  \* broker/receipts: IDs of routed deliveries
  mailbox,   \* repos/<id>/webhook-mailbox: intents for the scheduler
  cache,     \* webhook-sweep.json: the collection as last swept, and its validator
  work,      \* memory: IDs in the work channel
  route,     \* memory: the delivery being routed under deliveryMu
  sweep,     \* memory: the sweep under way
  faults,    \* bound used
  unread,    \* history: changes no authoritative read has observed yet
  overtaken  \* history: Issues whose sweep intent fell together with one already acted on

github == <<events, ready, version>>
durable == <<inbox, receipts, mailbox, cache>>
memory == <<work, route, sweep>>

Kinds == {"issues", "issue_comment"}

BrokerInit ==
  /\ events = <<>> /\ ready = {} /\ version = 0
  /\ inbox = {} /\ receipts = {} /\ mailbox = {}
  /\ cache = [version |-> 0, issues |-> {}]
  /\ work = {} /\ route = None /\ sweep = None
  /\ faults = 0
  /\ unread = {} /\ overtaken = {}

\* Deliveries are [id, issue, event, at]; a sweep intent's ID names Issue and action.
WebhookId(n) == <<"webhook", n>>
SweepId(i, action) == <<action, i>>
Ids(deliveries) == {d.id : d \in deliveries}
Queued(n) == WebhookId(n) \in Ids(inbox)
Accepted(n) == Queued(n) \/ n \in receipts

\* A time after every AcceptedAt still to be compared with.
Later(others) ==
  LET times == {d.at : d \in inbox \cup mailbox \cup others}
                 \cup (IF sweep = None THEN {} ELSE {sweep.at})
  IN 1 + Max(times \cup {0})

\* Changes of Issue i of these kinds.
Changes(i, kinds) == {n \in DOMAIN events : events[n].issue = i /\ events[n].event \in kinds}

Fault == faults < MaxFaults /\ faults' = faults + 1

-----------------------------------------------------------------------------
(* GitHub. *)

\* A change of an Issue or its comments; labels move it into the ready collection and
\* out of it.
Change(i, kind) ==
  /\ Len(events) < MaxEvents
  /\ events' = Append(events, [issue |-> i, event |-> kind])
  /\ unread' = unread \cup {Len(events) + 1}
  /\ IF kind = "issues" THEN ready' \in {ready, ready \cup {i}, ready \ {i}} ELSE UNCHANGED ready
  /\ version' = IF kind = "issues" /\ i \in ready \cup ready' THEN version + 1 ELSE version
  /\ UNCHANGED <<durable, memory, faults, overtaken>>

-----------------------------------------------------------------------------
(* Deliveries. *)

\* ServeHTTP of a delivery, sent for the first time or again: appendInbox, and the
\* work channel unless it is full.
Accept(n, others) ==
  /\ route = None
  /\ n \in DOMAIN events /\ ~Accepted(n)
  /\ inbox' = inbox \cup {[id |-> WebhookId(n), issue |-> events[n].issue,
                           event |-> events[n].event, at |-> Later(others)]}
  /\ work' = IF Cardinality(work) < WorkCapacity THEN work \cup {n} ELSE work
  /\ UNCHANGED <<github, receipts, mailbox, cache, route, sweep, faults, unread, overtaken>>

\* replayOnce offers what the inbox holds, as far as the channel has room.
ReplayOnce(n) ==
  /\ Queued(n) /\ n \notin work /\ Cardinality(work) < WorkCapacity
  /\ work' = work \cup {n}
  /\ UNCHANGED <<github, durable, route, sweep, faults, unread, overtaken>>

Take(n) == route = None /\ n \in work /\ work' = work \ {n}

\* Variant: route trusts the inbox alone.
RouteUnchecked(n) ==
  /\ Take(n)
  /\ IF Queued(n)
     THEN /\ mailbox' = mailbox \cup {d \in inbox : d.id = WebhookId(n)}
          /\ route' = [id |-> n, pc |-> "receipt"]
     ELSE UNCHANGED <<mailbox, route>>
  /\ UNCHANGED <<github, inbox, receipts, cache, sweep, faults, unread, overtaken>>

\* route: a delivery with a receipt only leaves the inbox; another goes to the mailbox.
Route(n) ==
  /\ Take(n)
  /\ IF n \in receipts
     THEN inbox' = {d \in inbox : d.id # WebhookId(n)} /\ UNCHANGED <<mailbox, route>>
     ELSE /\ UNCHANGED inbox
          /\ IF Queued(n)
             THEN /\ mailbox' = mailbox \cup {d \in inbox : d.id = WebhookId(n)}
                  /\ route' = [id |-> n, pc |-> "receipt"]
             ELSE UNCHANGED <<mailbox, route>>
  /\ UNCHANGED <<github, receipts, cache, sweep, faults, unread, overtaken>>

\* The receipt, or its write fails and the inbox is replayed.
WriteReceipt ==
  /\ route # None /\ route.pc = "receipt"
  /\ \/ /\ receipts' = receipts \cup {route.id}
        /\ route' = [route EXCEPT !.pc = "remove"] /\ UNCHANGED faults
     \/ Fault /\ route' = None /\ UNCHANGED receipts
  /\ UNCHANGED <<github, inbox, mailbox, cache, work, sweep, unread, overtaken>>

RemoveRouted ==
  /\ route # None /\ route.pc = "remove"
  /\ inbox' = {d \in inbox : d.id # WebhookId(route.id)}
  /\ route' = None
  /\ UNCHANGED <<github, receipts, mailbox, cache, work, sweep, faults, unread, overtaken>>

-----------------------------------------------------------------------------
(* The safety sweep. *)

\* Variant: the new collection is saved before its intents.
SweepListSavesFirst(others) ==
  /\ sweep = None /\ version # cache.version
  /\ sweep' = [at |-> Later(others), version |-> version, issues |-> ready,
               todo |-> ready \cup cache.issues]
  /\ cache' = [version |-> version, issues |-> ready]
  /\ UNCHANGED <<github, inbox, receipts, mailbox, work, route, faults, unread, overtaken>>

\* sweepOnce compares the collection with the durable cache; 304 changes nothing.
SweepList(others) ==
  /\ sweep = None /\ version # cache.version
  /\ sweep' = [at |-> Later(others), version |-> version, issues |-> ready,
               todo |-> ready \cup cache.issues]
  /\ UNCHANGED <<github, durable, work, route, faults, unread, overtaken>>

\* EnqueueMailbox of the least Issue left: nothing when the intent is there already.
\* "acted" are the intents the scheduler has acted on and will remove.
SweepEnqueue(acted) ==
  /\ sweep # None /\ sweep.todo # {}
  /\ LET i == Min(sweep.todo)
         id == SweepId(i, IF i \in sweep.issues THEN "reconciled" ELSE "collection_exited")
     IN /\ mailbox' = IF id \in Ids(mailbox) THEN mailbox
                      ELSE mailbox \cup {[id |-> id, issue |-> i, event |-> "issues", at |-> sweep.at]}
        /\ overtaken' = IF id \in Ids(mailbox) \cap Ids(acted) /\ Changes(i, {"issues"}) \cap unread # {}
                          THEN overtaken \cup {i} ELSE overtaken
        /\ sweep' = [sweep EXCEPT !.todo = @ \ {i}]
  /\ UNCHANGED <<github, inbox, receipts, cache, work, route, faults, unread>>

\* SaveSweepState, only after every intent is durable.
SweepSave ==
  /\ sweep # None /\ sweep.todo = {}
  /\ cache' = [version |-> sweep.version, issues |-> sweep.issues]
  /\ sweep' = None
  /\ UNCHANGED <<github, inbox, receipts, mailbox, work, route, faults, unread, overtaken>>

\* A page or a write fails; the sweep is tried again in five minutes.
SweepFails ==
  /\ sweep # None /\ Fault
  /\ sweep' = None
  /\ UNCHANGED <<github, durable, work, route, unread, overtaken>>

\* The broker dies and launchd starts it again.
BrokerCrash ==
  /\ Fault
  /\ work' = {} /\ route' = None /\ sweep' = None
  /\ UNCHANGED <<github, durable, unread, overtaken>>

RouteStep == (\E n \in DOMAIN events : ReplayOnce(n) \/ Route(n)) \/ WriteReceipt \/ RemoveRouted

SweepStates == [version : 0..(MaxEvents + Cardinality(Issues)), issues : SUBSET Issues]
Deliveries ==
  [id : {<<"webhook", n>> : n \in 1..MaxEvents}
          \cup {<<a, i>> : a \in {"reconciled", "collection_exited"}, i \in Issues},
   issue : Issues, event : Kinds, at : Nat \ {0}]

BrokerTypeOK ==
  /\ Len(events) <= MaxEvents /\ \A n \in DOMAIN events : events[n] \in [issue : Issues, event : Kinds]
  /\ ready \subseteq Issues /\ version \in 0..(MaxEvents + Cardinality(Issues))
  /\ inbox \cup mailbox \subseteq Deliveries /\ receipts \subseteq DOMAIN events
  /\ \A d, e \in mailbox : d.id = e.id => d = e
  /\ cache \in SweepStates /\ cache.version <= version
  /\ work \subseteq DOMAIN events /\ Cardinality(work) <= WorkCapacity
  /\ route = None \/ route \in [id : DOMAIN events, pc : {"receipt", "remove"}]
  /\ sweep = None \/ sweep.todo \subseteq Issues
  /\ unread \subseteq DOMAIN events /\ overtaken \subseteq Issues
=============================================================================
