----------------------- MODULE WebhookDeliveryProofs -----------------------
(***************************************************************************)
(* The way of a delivery through inbox, mailbox and scheduler, for any     *)
(* number of Issues, changes, faults and any capacity: a redelivery is     *)
(* suppressed, a cooldown is honoured, and no accepted change is lost.     *)
(* The first two need little; the last one relates four pieces of state    *)
(* that three processes write: a change counts as routed from the moment   *)
(* its intent is in the mailbox, with or without a receipt, and from then  *)
(* on its Issue has an intent that the cycle under way will not remove.    *)
(***************************************************************************)
EXTENDS WebhookDelivery, TLAPS, FiniteSetTheorems, SequenceTheorems

\* What a delivery found its way with: its identifier names a change of its Issue, or a sweep.
Intent ==
  [id : {<<"webhook", n>> : n \in DOMAIN events}
          \cup {<<a, i>> : a \in {"reconciled", "collection_exited"}, i \in Issues},
   issue : Issues, event : Kinds, at : Nat]

IntentsOK ==
  /\ inbox \cup mailbox \subseteq Intent /\ IsFiniteSet(inbox) /\ IsFiniteSet(mailbox)
  /\ \A d \in inbox \cup mailbox : \A n \in DOMAIN events :
       d.id = WebhookId(n) => d.issue = events[n].issue

BrokerOK ==
  /\ events \in Seq([issue : Issues, event : Kinds]) /\ unread \subseteq DOMAIN events
  /\ receipts \subseteq DOMAIN events /\ work \subseteq DOMAIN events
  /\ route # None => route \in [id : DOMAIN events, pc : {"receipt", "remove"}]
  /\ ready \cup cache.issues \subseteq Issues /\ version \in Nat
  /\ sweep # None =>
       sweep \in [at : Nat, version : Nat, issues : SUBSET Issues, todo : SUBSET Issues]

\* A batch is part of the mailbox, since only the scheduler takes intents out.
QueueOK ==
  /\ local \in [Issues -> {"none", "active", "stopped"}] /\ job \in Issues \cup {None}
  /\ cycle # None =>
       /\ cycle \in [todo : SUBSET mailbox, acks : SUBSET mailbox, candidates : SUBSET Issues]
       /\ cycle.todo \cap cycle.acks = {}

TypeInv == IntentsOK /\ BrokerOK /\ QueueOK

\* An Issue has an intent that stays when the cycle under way ends.
Covered(i) == \E d \in mailbox \ Acted : d.issue = i

\* A change has been given to the scheduler, for the first time or again.
Routed(n) ==
  n \in receipts \/ (route # None /\ route.id = n) \/ WebhookId(n) \in Ids(mailbox)

IntentKept ==
  \A n \in unread :
    events[n].event = "issues" /\ Routed(n) /\ local[events[n].issue] = "none"
      => Covered(events[n].issue)

\* The reset on file is the latest that anybody was told.
PromiseKept == cooldown \in Nat /\ promised = cooldown

IInv == TypeInv /\ IntentKept /\ PromiseKept

-----------------------------------------------------------------------------
(* Least and greatest elements: FiniteSetsExt chooses them. *)

\* A nonempty set of naturals has its minimum in it.
LEMMA Minimum ==
  ASSUME NEW S \in SUBSET Nat, S # {}
  PROVE  Min(S) \in S
<1>1. PICK x \in S : \A y \in S : <<y, x>> \notin OpToRel(<, Nat)
  BY NatLessThanWellFounded, WFMin
<1>2. \A y \in S : ~(y < x)
  BY <1>1, Zenon DEF OpToRel
<1>3. x \in Nat /\ S \subseteq Nat
  OBVIOUS
<1>4. \A y \in S : x <= y
  BY <1>2, <1>3
<1> QED BY <1>4 DEF Min

\* A smallest finite set without a greatest element would lose one and still have none.
LEMMA Maximum ==
  ASSUME NEW S \in SUBSET Nat, IsFiniteSet(S), S # {}
  PROVE  Max(S) \in S /\ \A y \in S : y <= Max(S)
<1> DEFINE Bad == {T \in FiniteSubsetsOf(Nat) : T # {} /\ \A x \in T : \E y \in T : x < y}
<1>1. Bad = {}
  <2> SUFFICES ASSUME Bad # {} PROVE FALSE
    OBVIOUS
  <2>1. PICK T \in Bad : \A U \in Bad : <<U, T>> \notin StrictSubsetOrdering(Nat)
    BY FS_StrictSubsetOrderingWellFounded, WFMin, Zenon
  <2>2. PICK x \in T : TRUE
    OBVIOUS
  <2> DEFINE U == T \ {x}
  <2>3. IsFiniteSet(U) /\ T \subseteq Nat
    BY FS_RemoveElement DEF FiniteSubsetsOf
  <2>4. \A z \in T : \E y \in U : z < y
    <3>1. \A z \in T : \E y \in T : z < y
      OBVIOUS
    <3> QED BY <2>3, <3>1
  <2>5. U \in Bad
    BY <2>2, <2>3, <2>4 DEF FiniteSubsetsOf
  <2>6. <<U, T>> \in StrictSubsetOrdering(Nat)
    BY <2>2, <2>3 DEF StrictSubsetOrdering
  <2> QED BY <2>1, <2>5, <2>6
<1>2. \E x \in S : \A y \in S : ~(x < y)
  BY <1>1 DEF FiniteSubsetsOf
<1>3. \E x \in S : \A y \in S : x >= y
  BY <1>2
<1>4. Max(S) \in S /\ \A y \in S : Max(S) >= y
  BY <1>3 DEF Max
<1>5. Max(S) \in Nat /\ S \subseteq Nat
  BY <1>4
<1> QED BY <1>4, <1>5

\* Times of deliveries stay natural numbers.
LEMMA LaterIs ==
  ASSUME TypeInv
  PROVE  Later(Batch) \in Nat
<1> DEFINE all == inbox \cup mailbox \cup Batch
           at == [d \in all |-> d.at]
           times == {d.at : d \in all} \cup (IF sweep = None THEN {} ELSE {sweep.at})
<1>1. all = inbox \cup mailbox
  BY DEF TypeInv, QueueOK, Batch
<1>2. IsFiniteSet(all)
  BY <1>1, FS_Union DEF TypeInv, IntentsOK
<1>3. at \in Surjection(all, {d.at : d \in all})
  BY DEF Surjection
<1>4. IsFiniteSet({d.at : d \in all})
  BY <1>2, <1>3, FS_Surjection
<1>5. IsFiniteSet(times \cup {0})
  BY <1>4, FS_AddElement
<1>6. times \cup {0} \in SUBSET Nat
  BY <1>1 DEF TypeInv, IntentsOK, Intent, BrokerOK
<1>7. Max(times \cup {0}) \in Nat
  BY <1>5, <1>6, Maximum
<1> QED BY <1>7 DEF Later

-----------------------------------------------------------------------------
(* One step keeps the types. *)

\* Whoever writes the mailbox: routing and the sweep add, the end of a cycle removes.
LEMMA MailboxWriters ==
  ASSUME [Next]_vars
  PROVE  \/ UNCHANGED mailbox
         \/ \E n \in DOMAIN events : Route(n)
         \/ SweepEnqueue(Acted)
         \/ cycle # None /\ mailbox' = mailbox \ cycle.acks /\ cycle' = None
BY DEF Next, vars, broker, github, durable, memory, queue, Rest, Change, Accept, Routing, RouteStep,
       ReplayOnce, WriteReceipt, RemoveRouted, Sweep, SweepList, SweepSave, Cycle, BeginCycle,
       Skip, Process, EndCycle, StartIssue, StartFails, Resume, Restart, PassTime, SweepFails,
       BrokerCrash, CycleFails, Current, ManagedReconciliation, IssueStops, Delete,
       SupervisorCrash, OtherObserves

\* An event, once there, stays; only Change adds one.
LEMMA EventsStep ==
  ASSUME TypeInv, [Next]_vars
  PROVE  /\ \/ UNCHANGED events
            \/ \E i \in Issues \ gone, kind \in Kinds : Change(i, kind) /\ Rest
         /\ events' \in Seq([issue : Issues, event : Kinds])
         /\ DOMAIN events \subseteq DOMAIN events'
         /\ \A n \in DOMAIN events : events'[n] = events[n]
<1>1. \/ UNCHANGED events
      \/ \E i \in Issues \ gone, kind \in Kinds : Change(i, kind) /\ Rest
  BY DEF Next, vars, broker, github, durable, memory, queue, Accept, Routing, RouteStep, Route,
         ReplayOnce, WriteReceipt, RemoveRouted, Sweep, SweepList, SweepEnqueue, SweepSave, Cycle,
         BeginCycle, Skip, Process, EndCycle, StartIssue, StartFails, Resume, Restart, PassTime,
         SweepFails, BrokerCrash, CycleFails, ManagedReconciliation, IssueStops, Delete,
         SupervisorCrash, OtherObserves
<1>2. CASE UNCHANGED events
  BY <1>1, <1>2 DEF TypeInv, BrokerOK
<1>3. ASSUME NEW i \in Issues, NEW kind \in Kinds, Change(i, kind)
      PROVE  /\ events' \in Seq([issue : Issues, event : Kinds])
             /\ DOMAIN events \subseteq DOMAIN events'
             /\ \A n \in DOMAIN events : events'[n] = events[n]
  <2> DEFINE new == [issue |-> i, event |-> kind]
  <2>1. new \in [issue : Issues, event : Kinds] /\ events' = Append(events, new)
    BY <1>3 DEF Change
  <2> HIDE DEF new
  <2> QED BY <2>1 DEF TypeInv, BrokerOK
<1> QED BY <1>1, <1>2, <1>3

\* An event of the inbox has an issue and a kind.
LEMMA EventIs ==
  ASSUME TypeInv, NEW n \in DOMAIN events
  PROVE  events[n] \in [issue : Issues, event : Kinds]
<1> DEFINE E == [issue : Issues, event : Kinds]
<1>1. events \in Seq(E)
  BY DEF TypeInv, BrokerOK
<1> HIDE DEF E
<1>2. n \in 1 .. Len(events)
  BY <1>1
<1>3. events[n] \in E
  BY <1>1, <1>2, ElementOfSeq
<1> QED BY <1>3 DEF E

\* The intents in inbox and mailbox keep their types.
LEMMA IntentsStep ==
  ASSUME TypeInv, [Next]_vars
  PROVE  IntentsOK'
<1> DEFINE Good(S) == S \subseteq Intent' /\ \A d \in S : \A n \in DOMAIN events' :
                        d.id = WebhookId(n) => d.issue = events'[n].issue
<1>1. \A d \in inbox \cup mailbox : Good({d})
  BY EventsStep DEF TypeInv, IntentsOK, Intent, WebhookId
<1>2. ASSUME NEW new, Good({new}), inbox' \subseteq inbox \cup {new},
             mailbox' \subseteq inbox \cup mailbox \cup {new}
      PROVE  IntentsOK'
  <2>1. IsFiniteSet(inbox \cup {new}) /\ IsFiniteSet(inbox \cup mailbox \cup {new})
    BY FS_AddElement, FS_Union DEF TypeInv, IntentsOK
  <2>2. IsFiniteSet(inbox') /\ IsFiniteSet(mailbox')
    BY <1>2, <2>1, FS_Subset
  <2> QED BY <1>1, <1>2, <2>2 DEF IntentsOK
<1>3. CASE inbox' \subseteq inbox /\ mailbox' \subseteq inbox \cup mailbox
  <2>1. IsFiniteSet(inbox \cup mailbox)
    BY FS_Union DEF TypeInv, IntentsOK
  <2>2. IsFiniteSet(inbox') /\ IsFiniteSet(mailbox')
    BY <1>3, <2>1, FS_Subset DEF TypeInv, IntentsOK
  <2> QED BY <1>1, <1>3, <2>2 DEF IntentsOK
<1>4. ASSUME NEW n \in DOMAIN events, Accept(n, Batch) PROVE IntentsOK'
  <2> DEFINE new == [id |-> WebhookId(n), issue |-> events[n].issue,
                     event |-> events[n].event, at |-> Later(Batch)]
  <2>1. inbox' = inbox \cup {new} /\ UNCHANGED mailbox /\ UNCHANGED events
    BY <1>4 DEF Accept, github
  <2>2. events[n] \in [issue : Issues, event : Kinds]
    BY EventIs
  <2>3. new \in Intent
    BY <2>2, LaterIs DEF Intent, WebhookId
  <2>4. \A m \in DOMAIN events : new.id = WebhookId(m) => new.issue = events[m].issue
    BY DEF WebhookId
  <2> HIDE DEF new
  <2>5. Good({new})
    BY <2>1, <2>3, <2>4 DEF Intent
  <2> QED BY <1>2, <2>1, <2>5
<1>5. CASE SweepEnqueue(Acted)
  <2> DEFINE i == Min(sweep.todo)
             id == SweepId(i, IF i \in sweep.issues THEN "reconciled" ELSE "collection_exited")
             new == [id |-> id, issue |-> i, event |-> "issues", at |-> sweep.at]
  <2>1. /\ UNCHANGED <<inbox, events>> /\ mailbox' \subseteq mailbox \cup {new}
        /\ sweep.todo \in SUBSET Issues /\ sweep.todo # {} /\ sweep.at \in Nat
    BY <1>5 DEF SweepEnqueue, github, TypeInv, BrokerOK
  <2>2. i \in Issues
    BY <2>1, Minimum, BrokerAssumption
  <2>3. new \in Intent
    BY <2>1, <2>2 DEF Intent, SweepId, Kinds
  <2>4. \A m \in DOMAIN events : new.id # WebhookId(m)
    BY DEF WebhookId, SweepId
  <2> HIDE DEF new
  <2>5. Good({new})
    BY <2>1, <2>3, <2>4 DEF Intent
  <2> QED BY <1>2, <2>1, <2>5
<1>6. \/ inbox' \subseteq inbox
      \/ \E n \in DOMAIN events : Accept(n, Batch)
  BY DEF Next, vars, broker, github, durable, memory, queue, Change, Routing, RouteStep, Route,
         ReplayOnce, WriteReceipt, RemoveRouted, Sweep, SweepList, SweepEnqueue, SweepSave, Cycle,
         BeginCycle, Skip, Process, EndCycle, StartIssue, StartFails, Resume, Restart, PassTime,
         SweepFails, BrokerCrash, CycleFails, ManagedReconciliation, IssueStops, Delete,
         SupervisorCrash, OtherObserves
<1>7. mailbox' \subseteq inbox \cup mailbox \/ SweepEnqueue(Acted)
  BY MailboxWriters DEF Route
<1> QED BY <1>3, <1>4, <1>5, <1>6, <1>7

\* The broker's own state keeps its type.
LEMMA BrokerStep ==
  ASSUME TypeInv, [Next]_vars
  PROVE  BrokerOK'
<1> USE DEF BrokerOK
<1>1. /\ events' \in Seq([issue : Issues, event : Kinds])
      /\ DOMAIN events \subseteq DOMAIN events'
  BY EventsStep
<1>2. unread' \subseteq DOMAIN events'
  <2>1. ASSUME NEW i \in Issues, NEW kind \in Kinds, Change(i, kind)
        PROVE  unread' \subseteq DOMAIN events'
    BY <2>1 DEF Change, TypeInv
  <2>2. unread' \subseteq unread \/ \E i \in Issues \ gone, kind \in Kinds : Change(i, kind)
    BY DEF Next, vars, broker, github, durable, memory, queue, Rest, Accept, Routing, RouteStep,
           Route, ReplayOnce, WriteReceipt, RemoveRouted, Sweep, SweepList, SweepEnqueue,
           SweepSave, Cycle, BeginCycle, Skip, Process, EndCycle, StartIssue, StartFails, Resume,
           Restart, PassTime, SweepFails, BrokerCrash, CycleFails, ManagedReconciliation, Read,
           NoRead, IssueStops, Delete, SupervisorCrash, OtherObserves
  <2> QED BY <1>1, <2>1, <2>2 DEF TypeInv
<1>3. /\ receipts' \subseteq DOMAIN events' /\ work' \subseteq DOMAIN events'
      /\ route' # None => route' \in [id : DOMAIN events', pc : {"receipt", "remove"}]
  <2>1. ASSUME NEW n \in DOMAIN events, Accept(n, Batch) \/ ReplayOnce(n) \/ Route(n)
        PROVE  /\ receipts' \subseteq DOMAIN events /\ work' \subseteq DOMAIN events
               /\ route' # None => route' \in [id : DOMAIN events, pc : {"receipt", "remove"}]
    BY <2>1 DEF Accept, ReplayOnce, Route, Take, TypeInv, durable
  <2>2. ASSUME WriteReceipt \/ RemoveRouted \/ BrokerCrash
        PROVE  /\ receipts' \subseteq DOMAIN events /\ work' \subseteq DOMAIN events
               /\ route' # None => route' \in [id : DOMAIN events, pc : {"receipt", "remove"}]
    BY <2>2 DEF WriteReceipt, RemoveRouted, BrokerCrash, durable, TypeInv
  <2>3. \/ UNCHANGED <<receipts, work, route>>
        \/ \E n \in DOMAIN events : Accept(n, Batch) \/ ReplayOnce(n) \/ Route(n)
        \/ WriteReceipt \/ RemoveRouted \/ BrokerCrash
    BY DEF Next, vars, broker, github, durable, memory, queue, Rest, Change, Routing, RouteStep,
           Sweep, SweepList, SweepEnqueue, SweepSave, Cycle, BeginCycle, Skip, Process, EndCycle,
           StartIssue, StartFails, Resume, Restart, PassTime, SweepFails, CycleFails,
           ManagedReconciliation, IssueStops, Delete, SupervisorCrash, OtherObserves
  <2> QED BY <1>1, <2>1, <2>2, <2>3 DEF TypeInv
<1>4. /\ ready' \cup cache'.issues \subseteq Issues /\ version' \in Nat
      /\ sweep' # None =>
           sweep' \in [at : Nat, version : Nat, issues : SUBSET Issues, todo : SUBSET Issues]
  <2> DEFINE Goal == /\ ready' \cup cache'.issues \subseteq Issues /\ version' \in Nat
                     /\ sweep' # None => sweep' \in [at : Nat, version : Nat,
                                            issues : SUBSET Issues, todo : SUBSET Issues]
  <2>1. ASSUME NEW i \in Issues, NEW kind \in Kinds, Change(i, kind) \/ Delete(i) PROVE Goal
    BY <2>1 DEF Change, Delete, durable, memory, TypeInv
  <2>2. ASSUME SweepList(Batch) PROVE Goal
    BY <2>2, LaterIs DEF SweepList, github, durable, TypeInv
  <2>3. ASSUME SweepEnqueue(Acted) PROVE Goal
    BY <2>3 DEF SweepEnqueue, github, TypeInv
  <2>4. ASSUME SweepSave PROVE Goal
    BY <2>4 DEF SweepSave, github, TypeInv
  <2>5. ASSUME sweep' = None, UNCHANGED <<ready, cache, version>> PROVE Goal
    BY <2>5 DEF TypeInv
  <2>6. ASSUME UNCHANGED <<ready, cache, version, sweep>> PROVE Goal
    BY <2>6 DEF TypeInv
  <2>7. \/ UNCHANGED <<ready, cache, version, sweep>>
        \/ sweep' = None /\ UNCHANGED <<ready, cache, version>>
        \/ \E i \in Issues, kind \in Kinds : Change(i, kind) \/ Delete(i)
        \/ SweepList(Batch) \/ SweepEnqueue(Acted) \/ SweepSave
    BY DEF Next, vars, broker, github, durable, memory, queue, Rest, Accept, Routing, RouteStep,
           Route, ReplayOnce, WriteReceipt, RemoveRouted, Sweep, Cycle, BeginCycle, Skip, Process,
           EndCycle, StartIssue, StartFails, Resume, Restart, PassTime, SweepFails, BrokerCrash,
           CycleFails, ManagedReconciliation, IssueStops, SupervisorCrash, OtherObserves, Kinds
  <2> QED BY <2>1, <2>2, <2>3, <2>4, <2>5, <2>6, <2>7
<1> QED BY <1>1, <1>2, <1>3, <1>4

\* An Issue, once known, stays known.
LEMMA IssueStep ==
  ASSUME QueueOK, [Next]_vars
  PROVE  \/ UNCHANGED local
         \/ \E i \in Issues, s \in {"active", "stopped"} : local' = [local EXCEPT ![i] = s]
BY DEF Next, vars, broker, github, durable, memory, queue, Rest, Change, Accept, Routing,
       RouteStep, Route, ReplayOnce, WriteReceipt, RemoveRouted, Sweep, SweepList,
       SweepEnqueue, SweepSave, Cycle, BeginCycle, Skip, Process, EndCycle, StartIssue,
       StartFails, Resume, Restart, PassTime, SweepFails, BrokerCrash, CycleFails,
       ManagedReconciliation, IssueStops, Delete, SupervisorCrash, OtherObserves, QueueOK

\* What the scheduler has in hand keeps its type.
LEMMA QueueStep ==
  ASSUME TypeInv, [Next]_vars
  PROVE  QueueOK'
<1> USE DEF QueueOK
<1>1. local' \in [Issues -> {"none", "active", "stopped"}] /\ job' \in Issues \cup {None}
  <2>1. \/ UNCHANGED local
        \/ \E i \in Issues, s \in {"active", "stopped"} : local' = [local EXCEPT ![i] = s]
    BY IssueStep DEF TypeInv
  <2>2. UNCHANGED job \/ job' = None \/ (cycle # None /\ job' \in cycle.candidates)
    BY DEF Next, vars, broker, github, durable, memory, queue, Rest, Change, Accept, Routing,
           RouteStep, Route, ReplayOnce, WriteReceipt, RemoveRouted, Sweep, SweepList,
           SweepEnqueue, SweepSave, Cycle, BeginCycle, Skip, Process, EndCycle, StartIssue,
           StartFails, Resume, Restart, PassTime, SweepFails, BrokerCrash, CycleFails,
           ManagedReconciliation, IssueStops, Delete, SupervisorCrash, OtherObserves
  <2> QED BY <2>1, <2>2 DEF TypeInv
<1> DEFINE CycleOK ==
      cycle' # None =>
        /\ cycle' \in [todo : SUBSET mailbox', acks : SUBSET mailbox', candidates : SUBSET Issues]
        /\ cycle'.todo \cap cycle'.acks = {}
<1>2. ASSUME UNCHANGED cycle, mailbox \subseteq mailbox' PROVE CycleOK
  BY <1>2 DEF TypeInv
<1>3. ASSUME cycle' = None PROVE CycleOK
  BY <1>3
<1>4. ASSUME BeginCycle PROVE CycleOK
  BY <1>4 DEF BeginCycle, broker, durable
<1>5. ASSUME NEW d \in Batch, Skip(d) \/ Process(d) PROVE CycleOK
  <2>1. cycle # None /\ d \in cycle.todo /\ mailbox' = mailbox
    BY <1>5 DEF Skip, Process, Current, broker, durable
  <2>2. d.issue \in Issues
    BY <2>1 DEF TypeInv, IntentsOK, Intent
  <2>3. CASE cycle' = [cycle EXCEPT !.todo = @ \ {d}]
    BY <2>1, <2>3 DEF TypeInv
  <2>4. CASE cycle' = [cycle EXCEPT !.todo = @ \ {d}, !.candidates = @ \cup {d.issue}]
    BY <2>1, <2>2, <2>4 DEF TypeInv
  <2>5. CASE cycle' = [cycle EXCEPT !.todo = @ \ {d}, !.acks = @ \cup {d}]
    BY <2>1, <2>5 DEF TypeInv
  <2> QED BY <1>5, <2>3, <2>4, <2>5 DEF Skip, Process
<1>6. \/ UNCHANGED cycle \/ cycle' = None \/ BeginCycle
      \/ \E d \in Batch : Skip(d) \/ Process(d)
  BY DEF Next, vars, broker, github, durable, memory, queue, Rest, Change, Accept, Routing,
         RouteStep, Route, ReplayOnce, WriteReceipt, RemoveRouted, Sweep, SweepList,
         SweepEnqueue, SweepSave, Cycle, EndCycle, StartIssue, StartFails, Resume, Restart,
         PassTime, SweepFails, BrokerCrash, CycleFails, ManagedReconciliation, IssueStops,
         Delete, SupervisorCrash, OtherObserves
<1>7. mailbox \subseteq mailbox' \/ cycle' = None
  BY MailboxWriters DEF Route, SweepEnqueue
<1> QED BY <1>1, <1>2, <1>3, <1>4, <1>5, <1>6, <1>7

-----------------------------------------------------------------------------
(* One step keeps the intents. *)

\* Changes observed by a read, and those that are only ever added.
LEMMA UnreadStep ==
  ASSUME TypeInv, [Next]_vars
  PROVE  /\ \A n \in unread' : n \in unread \/ n \notin DOMAIN events
         /\ (\E n \in unread : n \notin unread') => ~Active
<1>1. ASSUME NEW i \in Issues, NEW kind \in Kinds, Change(i, kind)
      PROVE  unread \subseteq unread' /\ \A n \in unread' : n \in unread \/ n \notin DOMAIN events
  BY <1>1 DEF Change, TypeInv, BrokerOK
<1>2. \/ UNCHANGED unread
      \/ unread' \subseteq unread /\ ~Active
      \/ \E i \in Issues \ gone, kind \in Kinds : Change(i, kind)
  BY DEF Next, vars, broker, github, durable, memory, queue, Rest, Accept, Routing, RouteStep,
         Route, ReplayOnce, WriteReceipt, RemoveRouted, Sweep, SweepList, SweepEnqueue,
         SweepSave, Cycle, BeginCycle, Skip, Process, EndCycle, StartIssue, StartFails, Resume,
         Restart, PassTime, SweepFails, BrokerCrash, CycleFails, ManagedReconciliation, Read,
         NoRead, IssueStops, Delete, SupervisorCrash, OtherObserves
<1> QED BY <1>1, <1>2

\* A change is routed only by Route, which also puts its delivery into the mailbox.
LEMMA RoutedStep ==
  ASSUME TypeInv, [Next]_vars, NEW n \in DOMAIN events, Routed(n)', ~Routed(n)
  PROVE  \E d \in mailbox' \ mailbox : d.issue = events[n].issue /\ UNCHANGED cycle
<1> USE DEF Routed, Ids
<1>1. ASSUME NEW m \in DOMAIN events, Route(m), UNCHANGED cycle
      PROVE  \E d \in mailbox' \ mailbox : d.issue = events[n].issue /\ UNCHANGED cycle
  <2>1. /\ Queued(m) /\ mailbox' = mailbox \cup {d \in inbox : d.id = WebhookId(m)}
        /\ route' = [id |-> m, pc |-> "receipt"] /\ UNCHANGED receipts
    BY <1>1 DEF Route, Take
  <2>2. m = n
    BY <2>1 DEF WebhookId
  <2>3. PICK d \in inbox : d.id = WebhookId(n)
    BY <2>1, <2>2 DEF Queued
  <2>4. d \notin mailbox /\ d.issue = events[n].issue
    BY <2>3 DEF TypeInv, IntentsOK
  <2> QED BY <1>1, <2>1, <2>2, <2>3, <2>4
<1>2. CASE WriteReceipt
  BY <1>2 DEF WriteReceipt, TypeInv, BrokerOK
<1>3. CASE SweepEnqueue(Acted)
  BY <1>3 DEF SweepEnqueue, SweepId, WebhookId
<1>4. ASSUME UNCHANGED receipts, route' \in {None, route}, mailbox' \subseteq mailbox
      PROVE  FALSE
  BY <1>4
<1>5. \/ WriteReceipt \/ \E m \in DOMAIN events : Route(m) /\ UNCHANGED cycle
      \/ SweepEnqueue(Acted)
      \/ UNCHANGED receipts /\ route' \in {None, route} /\ mailbox' \subseteq mailbox
  BY DEF Next, vars, broker, github, durable, memory, queue, Rest, Change, Accept, Routing,
         RouteStep, ReplayOnce, RemoveRouted, Sweep, SweepList, SweepSave, Cycle, BeginCycle,
         Skip, Process, EndCycle, StartIssue, StartFails, Resume, Restart, PassTime, SweepFails,
         BrokerCrash, CycleFails, ManagedReconciliation, IssueStops, Delete, SupervisorCrash,
         OtherObserves
<1> QED BY <1>1, <1>2, <1>3, <1>4, <1>5

\* Whatever was covered stays so, unless the Issue is read whole.
LEMMA CoveredStep ==
  ASSUME TypeInv, TypeInv', [Next]_vars, NEW i \in Issues, Covered(i), local[i] = "none"
  PROVE  Covered(i)' \/ \A n \in unread' : n \in DOMAIN events => events[n].issue # i
<1> PICK w \in mailbox \ Acted : w.issue = i
  BY DEF Covered
<1>1. ASSUME mailbox \subseteq mailbox', cycle' \in {cycle, None} PROVE Covered(i)'
  BY <1>1 DEF Covered, Acted, TypeInv, QueueOK
<1>2. ASSUME cycle # None, mailbox' = mailbox \ cycle.acks, cycle' = None PROVE Covered(i)'
  <2>1. CASE w \notin cycle.acks
    BY <1>2, <2>1 DEF Covered, Acted
  <2>2. CASE w \in cycle.acks
    <3>1. PICK e \in cycle.todo : e.issue = i
      BY <1>2, <2>2 DEF Acted
    <3>2. e \in mailbox'
      BY <1>2, <3>1 DEF TypeInv, QueueOK
    <3> QED BY <1>2, <3>1, <3>2 DEF Covered, Acted
  <2> QED BY <2>1, <2>2
<1>3. ASSUME BeginCycle PROVE Covered(i)'
  <2> DEFINE here == {d \in mailbox : d.issue = i}
             times == {d.at : d \in here}
  <2>1. IsFiniteSet(times) /\ times \in SUBSET Nat /\ times # {}
    <3>1. IsFiniteSet(here)
      BY FS_Subset DEF TypeInv, IntentsOK
    <3>2. [d \in here |-> d.at] \in Surjection(here, times)
      BY DEF Surjection
    <3> QED BY <3>1, <3>2, FS_Surjection DEF TypeInv, IntentsOK, Intent
  <2>2. PICK e \in here : \A d \in here : d.at <= e.at
    BY <2>1, Maximum
  <2>3. \A d \in here : d.at \in Nat
    BY DEF TypeInv, IntentsOK, Intent
  <2>4. ~Superseded(e)
    BY <2>2, <2>3 DEF Superseded
  <2>5. e \in cycle'.todo /\ mailbox' = mailbox
    BY <1>3, <2>4 DEF BeginCycle, broker, durable
  <2>6. e \notin Acted'
    BY <2>5 DEF Acted, TypeInv, QueueOK
  <2> QED BY <2>5, <2>6 DEF Covered
<1>4. ASSUME NEW d \in Batch, Skip(d) PROVE Covered(i)'
  <2>1. /\ cycle # None /\ d \in cycle.todo /\ mailbox' = mailbox
        /\ cycle'.todo = cycle.todo \ {d} /\ cycle'.acks = cycle.acks
    BY <1>4 DEF Skip, Current, broker, durable, TypeInv, QueueOK
  <2>2. CASE d.issue = i
    BY <2>1, <2>2 DEF Covered, Acted, TypeInv, QueueOK
  <2>3. CASE d.issue # i
    BY <2>1, <2>3 DEF Covered, Acted
  <2> QED BY <2>2, <2>3
<1>5. ASSUME NEW d \in Batch, Process(d)
      PROVE  Covered(i)' \/ \A n \in unread' : n \in DOMAIN events => events[n].issue # i
  <2>1. /\ cycle # None /\ d \in cycle.todo /\ mailbox' = mailbox
        /\ cycle'.todo = cycle.todo \ {d} /\ cycle'.acks \in {cycle.acks, cycle.acks \cup {d}}
    BY <1>5 DEF Process, Current, durable, TypeInv, QueueOK
  <2>2. CASE d.issue = i
    <3>1. unread' = unread \ Changes(i, Kinds)
      BY <1>5, <2>2 DEF Process, Read
    <3>2. \A n \in DOMAIN events : events[n].event \in Kinds
      BY EventIs
    <3> QED BY <3>1, <3>2 DEF Changes
  <2>3. CASE d.issue # i
    BY <2>1, <2>3 DEF Covered, Acted
  <2> QED BY <2>2, <2>3
<1>6. \/ UNCHANGED cycle \/ cycle' = None \/ BeginCycle \/ \E d \in Batch : Skip(d) \/ Process(d)
  BY DEF Next, vars, broker, github, durable, memory, queue, Rest, Change, Accept, Routing,
         RouteStep, Route, ReplayOnce, WriteReceipt, RemoveRouted, Sweep, SweepList,
         SweepEnqueue, SweepSave, Cycle, EndCycle, StartIssue, StartFails, Resume, Restart,
         PassTime, SweepFails, BrokerCrash, CycleFails, ManagedReconciliation, IssueStops,
         Delete, SupervisorCrash, OtherObserves
<1>7. \/ mailbox \subseteq mailbox'
      \/ cycle # None /\ mailbox' = mailbox \ cycle.acks /\ cycle' = None
  BY MailboxWriters DEF Route, SweepEnqueue
<1> QED BY <1>1, <1>2, <1>3, <1>4, <1>5, <1>6, <1>7

\* A routed change that is still unread keeps an intent that will be acted on.
LEMMA IntentsKeptStep ==
  ASSUME TypeInv, TypeInv', IntentKept, [Next]_vars
  PROVE  IntentKept'
<1> SUFFICES ASSUME NEW n \in unread', NEW i, i = events'[n].issue,
                    events'[n].event = "issues", Routed(n)', local'[i] = "none"
             PROVE  Covered(i)'
  BY DEF IntentKept, Covered
<1>1. CASE n \in unread
  <2>1. /\ n \in DOMAIN events /\ i = events[n].issue /\ i \in Issues
        /\ events[n].event = "issues"
    BY <1>1, EventsStep, EventIs DEF TypeInv, BrokerOK
  <2>2. local[i] = "none"
    BY <2>1, IssueStep DEF TypeInv, QueueOK
  <2>3. CASE Routed(n)
    <3>1. Covered(i)
      BY <1>1, <2>1, <2>2, <2>3 DEF IntentKept
    <3> QED BY <2>1, <2>2, <3>1, CoveredStep
  <2>4. CASE ~Routed(n)
    <3>1. PICK d \in mailbox' \ mailbox : d.issue = i /\ UNCHANGED cycle
      BY <2>1, <2>4, RoutedStep
    <3>2. d \notin Acted'
      BY <3>1 DEF Acted, TypeInv, QueueOK
    <3> QED BY <2>1, <3>1, <3>2 DEF Covered
  <2> QED BY <2>3, <2>4
<1>2. CASE n \notin unread
  <2>1. n \notin DOMAIN events
    BY <1>2, UnreadStep
  <2>2. PICK j \in Issues, kind \in Kinds : Change(j, kind) /\ Rest
    BY <2>1, EventsStep DEF TypeInv, BrokerOK
  <2>3. UNCHANGED <<receipts, route, mailbox>>
    BY <2>2 DEF Change, durable, memory
  <2>4. WebhookId(n) \notin Ids(mailbox)
    BY <2>1 DEF TypeInv, IntentsOK, Intent, Ids, WebhookId
  <2> QED BY <2>1, <2>3, <2>4 DEF Routed, TypeInv, BrokerOK
<1> QED BY <1>1, <1>2

\* The reset on file stays the latest that anybody was told.
LEMMA PromiseStep ==
  ASSUME PromiseKept, [Next]_vars
  PROVE  PromiseKept'
<1>1. \A m, n \in Nat : Max({m, n}) = IF m >= n THEN m ELSE n
  <2> SUFFICES ASSUME NEW m \in Nat, NEW n \in Nat
               PROVE  Max({m, n}) = IF m >= n THEN m ELSE n
    OBVIOUS
  <2>1. \E x \in {m, n} : \A y \in {m, n} : x >= y
    OBVIOUS
  <2>2. Max({m, n}) \in {m, n} /\ \A y \in {m, n} : Max({m, n}) >= y
    BY <2>1 DEF Max
  <2> QED BY <2>2
<1>2. CASE UNCHANGED limits
  BY <1>2 DEF limits, PromiseKept
<1>3. ASSUME NEW reset \in 1 .. MaxReset, Observe(reset) PROVE PromiseKept'
  <2>1. reset \in Nat /\ cooldown \in Nat /\ promised = cooldown
    BY LimitsAssumption DEF PromiseKept
  <2>2. cooldown' = IF cooldown > 0 /\ reset <= cooldown THEN cooldown ELSE reset
    BY <1>3 DEF Observe, Active
  <2>3. promised' = IF promised >= reset THEN promised ELSE reset
    BY <1>1, <1>3, <2>1 DEF Observe
  <2> QED BY <2>1, <2>2, <2>3 DEF PromiseKept
<1>4. CASE Tick
  <2>1. cooldown \in Nat /\ promised = cooldown
    BY DEF PromiseKept
  <2>2. cooldown' = Max({cooldown, 1}) - 1 /\ promised' = Max({promised, 1}) - 1
    BY <1>4 DEF Tick
  <2>3. Max({cooldown, 1}) \in Nat \ {0}
    BY <1>1, <2>1
  <2> QED BY <2>1, <2>2, <2>3 DEF PromiseKept
<1>5. \/ UNCHANGED limits \/ Tick
      \/ \E reset \in 1 .. MaxReset : Observe(reset)
  BY DEF Next, vars, Rest, Routing, Sweep, Cycle, BeginCycle, Skip, Process, EndCycle, StartIssue,
         StartFails, Resume, Restart, PassTime, CycleFails, Limited, Unavailable,
         ManagedReconciliation, IssueStops, Delete, SupervisorCrash, OtherObserves
<1> QED BY <1>2, <1>3, <1>4, <1>5

-----------------------------------------------------------------------------

\* The inductive invariant holds.
LEMMA InvariantHolds == Spec => []IInv
<1>1. Init => IInv
  <2> SUFFICES ASSUME Init PROVE IInv
    OBVIOUS
  <2> USE DEF Init, BrokerInit, LimitsInit
  <2>1. IntentsOK /\ BrokerOK
    BY FS_EmptySet DEF IntentsOK, BrokerOK
  <2>2. QueueOK
    BY DEF QueueOK
  <2>3. IntentKept /\ PromiseKept
    BY LimitsAssumption DEF IntentKept, PromiseKept
  <2> QED BY <2>1, <2>2, <2>3 DEF IInv, TypeInv
<1>2. IInv /\ [Next]_vars => IInv'
  BY IntentsStep, BrokerStep, QueueStep, IntentsKeptStep, PromiseStep DEF IInv, TypeInv
<1> QED BY <1>1, <1>2, PTL DEF Spec

\* An accepted change of an Issue nobody manages yet is on disk, as a delivery in the
\* inbox or as an intent that the cycle under way will keep, until it is read: whatever
\* is superseded, skipped, redelivered, acknowledged by a failing cycle, or forgotten by
\* a broker or a supervisor that dies (route, processMailbox, RemoveMailboxItems).
THEOREM NothingAcceptedIsLost == Spec => []NoLostIntent
<1>1. IInv => NoLostIntent
  <2> SUFFICES ASSUME IInv, NEW n \in unread, events[n].event = "issues", Accepted(n),
                      local[events[n].issue] = "none"
               PROVE  \E d \in inbox \cup (mailbox \ Acted) : d.issue = events[n].issue
    BY DEF NoLostIntent
  <2>1. CASE Queued(n)
    BY <2>1 DEF IInv, TypeInv, IntentsOK, BrokerOK, Queued, Ids
  <2>2. CASE n \in receipts
    BY <2>2 DEF IInv, IntentKept, Routed, Covered
  <2> QED BY <2>1, <2>2 DEF Accepted
<1> QED BY <1>1, InvariantHolds, PTL

\* A delivery with a receipt comes into the mailbox only if it is there already: route
\* looks for the receipt under deliveryMu, and an intent of the sweep has another name.
THEOREM DuplicatesAreSuppressed == Spec => DuplicateSuppressed
<1>1. [Next]_vars =>
        [\A n \in receipts : WebhookId(n) \in Ids(mailbox') => WebhookId(n) \in Ids(mailbox)]_vars
  <2> SUFFICES ASSUME [Next]_vars, NEW n \in receipts, WebhookId(n) \in Ids(mailbox')
               PROVE  WebhookId(n) \in Ids(mailbox)
    OBVIOUS
  <2>1. ASSUME NEW m \in DOMAIN events, Route(m) PROVE WebhookId(n) \in Ids(mailbox)
    BY <2>1 DEF Route, Ids, WebhookId
  <2>2. CASE SweepEnqueue(Acted)
    BY <2>2 DEF SweepEnqueue, SweepId, WebhookId, Ids
  <2>3. CASE mailbox' \subseteq mailbox
    BY <2>3 DEF Ids
  <2> QED BY <2>1, <2>2, <2>3, MailboxWriters
<1> QED BY <1>1, PTL DEF Spec, DuplicateSuppressed

\* No supervisor reads GitHub before the latest reset that any of them was told of
\* (Limiter.Wait, Limiter.Observe): the reset on file is that one, because Observe never
\* shortens it.
THEOREM CooldownIsHonoured == Spec => CooldownHonoured
<1>1. IInv /\ [Next]_vars => [unread' \subseteq unread /\ unread' # unread => promised = 0]_vars
  <2> SUFFICES ASSUME IInv, [Next]_vars, unread' \subseteq unread, unread' # unread
               PROVE  promised = 0
    OBVIOUS
  <2>1. \E n \in unread : n \notin unread'
    OBVIOUS
  <2>2. ~Active
    BY <2>1, UnreadStep DEF IInv
  <2> QED BY <2>2 DEF IInv, PromiseKept, Active
<1> QED BY <1>1, InvariantHolds, PTL DEF Spec, CooldownHonoured
=============================================================================
