------------------------- MODULE InputAnswerProofs -------------------------
(***************************************************************************)
(* Receipts are true, and answers final, for any number of questions,      *)
(* commands, faults, edits and remote terminals (Spec).                    *)
(*                                                                         *)
(* A receipt reaches GitHub through the pass, whose copy of the request    *)
(* may be old, or from a call given up on long ago.  So the invariant      *)
(* speaks of every place a receipt can wait in: what the pass is about to  *)
(* post, the late calls, and the answers the pass still has to confirm     *)
(* although their commands are deleted.  It holds in each of them because  *)
(* an answer on record never changes.                                      *)
(***************************************************************************)
EXTENDS InputAnswer, TLAPS, SequenceTheorems, WellFoundedInduction

Observation == [command : Commands, ver : 0 .. MaxEdits]
Entry == [command : Commands, said : CommandRecord, edited : SUBSET Requests]
LateCall ==
  [kind : {"question"}, req : Requests] \cup [kind : {"ack"}, of : Commands, body : Ack]
    \cup [kind : {"command"}, req : Requests, text : Texts]
PassRecord ==
  [pc : {"idle", "question", "judge", "record", "ack"}, asked : SUBSET Requests,
   from : {None} \cup [Requests -> Observation \cup {None}], queue : SUBSET Entry,
   deleted : SUBSET Requests, ack : {None} \cup Ack]

LocalOK ==
  /\ requests \in [Requests -> Request] /\ open \in BOOLEAN
  /\ \A r \in Requests : requests[r].from # None => Answered(r)

\* No command was edited more often than edits were made.
CommentsOK ==
  /\ comments \in Seq(CommandRecord \cup {None}) /\ Len(comments) <= MaxComments
  /\ \A c \in DOMAIN comments : comments[c] # None => comments[c].ver <= used["edits"]

RemoteOK ==
  /\ questions \in [Requests -> Nat] /\ acks \in [Commands -> Seq(Ack)]
  /\ late \subseteq LateCall
  /\ submit \in [req : Requests, text : Texts] \cup {None}

UsedOK == used \in [DOMAIN Limit -> Nat] /\ used["edits"] <= MaxEdits

PassOK ==
  /\ pass \in PassRecord
  /\ pass.pc = "question" => pass.from \in [Requests -> Observation \cup {None}]
  /\ pass.pc \in {"record", "ack"} => pass.queue # {}
  /\ pass.pc = "record" => This.said.text \in Texts
  /\ pass.pc = "ack" => pass.ack \in Ack

TypeInv == LocalOK /\ CommentsOK /\ RemoteOK /\ UsedOK /\ PassOK

\* An acknowledgement that says accepted names a request answered by its command.
OnRecord(c, body) ==
  body.outcome = "accepted" =>
    Answered(body.req) /\ requests[body.req].from # None /\ requests[body.req].from.command = c

Truths(c) == {body \in Ack : OnRecord(c, body)}

\* Every place a receipt can be in or come from.
ReceiptsTrue ==
  /\ \A c \in Commands : acks[c] \in Seq(Truths(c))
  /\ \A call \in late : call.kind = "ack" => call.body \in Truths(call.of)
  /\ pass.pc = "ack" => pass.ack \in Truths(This.command)
  /\ pass.pc = "question" =>
       \A r \in Requests : pass.from[r] # None => requests[r].from = pass.from[r]
  /\ \A r \in pass.deleted : requests[r].from # None

IInv == TypeInv /\ ReceiptsTrue

-----------------------------------------------------------------------------
(* What the operators of the pass and of the calls to GitHub return. *)

\* A set of numbers has a least one.
LEMMA Minimum ==
  ASSUME NEW S \in SUBSET Nat, S # {}
  PROVE  \E x \in S : \A y \in S : x <= y
<1>1. PICK x \in S : \A y \in S : <<y, x>> \notin OpToRel(<, Nat)
  BY NatLessThanWellFounded, WFMin
<1>2. \A y \in S : ~(y < x)
  BY <1>1, Zenon DEF OpToRel
<1>3. x \in Nat /\ S \subseteq Nat
  OBVIOUS
<1> QED BY <1>2, <1>3

\* The pass takes the questions and the deleted commands it has left one by one.
LEMMA FirstOf ==
  ASSUME NEW S \in SUBSET Requests, S # {}
  PROVE  First(S) \in S
<1>1. S \in SUBSET Nat
  BY DEF Requests
<1> QED BY <1>1, Minimum DEF First

\* The command the pass is at is one of those it has left.
LEMMA ThisOf ==
  ASSUME PassOK, pass.queue # {}
  PROVE  This \in pass.queue /\ This \in Entry
<1>1. pass.queue \subseteq Entry
  BY DEF PassOK, PassRecord
<1> DEFINE S == {e.command : e \in pass.queue}
<1>2. S \in SUBSET Nat /\ S # {}
  BY <1>1 DEF Entry, Commands
<1>3. PICK x \in S : \A y \in S : x <= y
  BY <1>2, Minimum
<1>4. \E e \in pass.queue : \A f \in pass.queue : e.command <= f.command
  BY <1>3
<1> QED BY <1>1, <1>4 DEF This

\* Copies of a comment stay copies, however far a call gets.
LEMMA CopiesOf ==
  ASSUME NEW S, NEW copies \in Seq(S), NEW body \in S
  PROVE  Kept(copies, body) \in Seq(S) /\ FailedCopies(copies, body) \subseteq Seq(S)
<1>1. <<body>> \in Seq(S)
  OBVIOUS
<1>2. CASE copies = <<>>
  BY <1>1, <1>2 DEF Kept, FailedCopies
<1>3. CASE copies # <<>>
  <2>1. Tail(copies) \in Seq(S)
    BY <1>3
  <2>2. <<body>> \o Tail(copies) \in Seq(S)
    BY <1>1, <2>1
  <2> QED BY <1>1, <1>3, <2>2 DEF Kept, FailedCopies
<1> QED BY <1>2, <1>3

\* What is recorded is an answer, and nothing that was answered changes.
LEMMA RecordsAnswer ==
  ASSUME LocalOK, NEW r \in Requests, NEW text \in Texts, NEW from \in Observation \cup {None},
         Records(r, text, from)
  PROVE  /\ requests' \in [Requests -> Request]
         /\ \A q \in Requests : requests'[q].from # None => requests'[q].status = "answered"
         /\ \A q \in Requests : ~Pending(q) => requests'[q] = requests[q]
         /\ Pending(r) => requests'[r].status = "answered" /\ requests'[r].from = from
<1>1. CASE Pending(r)
  <2> DEFINE new == [requests[r] EXCEPT !.status = "answered", !.answer = text, !.from = from]
  <2>1. requests' = [requests EXCEPT ![r] = new]
    BY <1>1 DEF Records
  <2>2. new \in Request /\ new.status = "answered" /\ new.from = from
    BY DEF LocalOK, Request, Observation
  <2> HIDE DEF new
  <2> QED BY <1>1, <2>1, <2>2 DEF LocalOK, Pending, Answered
<1>2. CASE ~Pending(r)
  BY <1>2 DEF Records, LocalOK, Answered
<1> QED BY <1>1, <1>2

-----------------------------------------------------------------------------
(* One step: an answer on record stays, and every variable keeps its type. *)

Final == \A r \in Requests : Answered(r) => requests'[r] = requests[r]

\* The state on disk keeps its type, and an answer on record stays as it is.
LEMMA LocalStep ==
  ASSUME TypeInv, [Next]_vars
  PROVE  LocalOK' /\ Final
<1> USE DEF Pending, Answered
<1>1. CASE UNCHANGED Local
  BY <1>1 DEF TypeInv, LocalOK, Local, Final
<1>2. ASSUME NEW r \in Requests, Ask(r) PROVE LocalOK' /\ Final
  <2>1. [requests[r] EXCEPT !.status = "pending"] \in Request
    BY DEF TypeInv, LocalOK, Request
  <2> QED BY <1>2, <2>1 DEF Ask, TypeInv, LocalOK, Final, Request
<1>3. ASSUME NEW r \in Requests, NEW text \in TextsHere, AnswerHere(r, text) PROVE LocalOK' /\ Final
  BY <1>3, RecordsAnswer, InputAnswerAssumption DEF AnswerHere, TypeInv, LocalOK, Final
<1>4. CASE RecordCommand
  <2>1. This \in Entry /\ This.said.text \in Texts
    BY <1>4, ThisOf DEF RecordCommand, At, TypeInv, PassOK
  <2> DEFINE from == [command |-> This.command, ver |-> This.said.ver]
  <2>2. This.said.req \in Requests /\ from \in Observation
    BY <2>1 DEF Entry, CommandRecord, Observation
  <2>3. Records(This.said.req, This.said.text, from) /\ UNCHANGED open
    BY <1>4 DEF RecordCommand
  <2> HIDE DEF from
  <2> QED BY <2>1, <2>2, <2>3, RecordsAnswer DEF TypeInv, LocalOK, Final
<1>5. CASE IssueOver
  <2>1. \A r \in Requests : [requests[r] EXCEPT !.status = "canceled"] \in Request
    BY DEF TypeInv, LocalOK, Request
  <2> QED BY <1>5, <2>1 DEF IssueOver, TypeInv, LocalOK, Final, Request
<1>6. CASE UNCHANGED vars
  BY <1>1, <1>6 DEF vars, Local
<1>7. Next => \/ RecordCommand \/ IssueOver \/ UNCHANGED Local
              \/ \E r \in Requests : Ask(r) \/ \E text \in TextsHere : AnswerHere(r, text)
  BY DEF Next, PassStep, StartPass, KeepQuestion, ListComments, JudgeCommand, Acknowledge,
         AcknowledgeDeleted, Die, CheckSubmit, Write, Edit, PostSubmit, Land
<1> QED BY <1>1, <1>2, <1>3, <1>4, <1>5, <1>6, <1>7

\* A command that is still there.
LEMMA CommentIs ==
  ASSUME CommentsOK, NEW c \in DOMAIN comments, comments[c] # None
  PROVE  /\ c \in Commands /\ comments[c] \in CommandRecord
         /\ comments[c].ver \in Nat /\ comments[c].ver <= used["edits"]
<1>1. c \in Commands
  BY InputAnswerAssumption DEF CommentsOK, Commands
<1>2. comments[c] \in CommandRecord
  BY DEF CommentsOK
<1>3. comments[c].ver \in Nat
  BY <1>2 DEF CommandRecord
<1> QED BY <1>1, <1>2, <1>3 DEF CommentsOK

\* A command written down, or one edited, is a command.
LEMMA WrittenIs ==
  ASSUME TypeInv, NEW by \in Authors, NEW r \in Requests, NEW text \in Bodies,
         Written(by, r, text), used["edits"]' = used["edits"]
  PROVE  CommentsOK'
<1>1. PICK early \in {FALSE, Earlier(by, r, text)} :
        comments' = Append(comments,
          [by |-> by, req |-> r, text |-> text, early |-> early, ver |-> 0])
  BY DEF Written
<1>2. early \in BOOLEAN
  BY DEF Earlier
<1> DEFINE new == [by |-> by, req |-> r, text |-> text, early |-> early, ver |-> 0]
<1>3. new \in CommandRecord /\ new.ver = 0
  BY <1>2, InputAnswerAssumption DEF CommandRecord
<1>4. comments' = Append(comments, new)
  BY <1>1
<1>5. Len(comments) < MaxComments /\ Len(comments) \in Nat /\ MaxComments \in Nat
  BY InputAnswerAssumption DEF Written, TypeInv, CommentsOK
<1> HIDE DEF new
<1> QED
  BY <1>3, <1>4, <1>5 DEF TypeInv, CommentsOK, UsedOK, Limit

\* The commands' comments and the bounds keep their types.
LEMMA CommentsStep ==
  ASSUME TypeInv, [Next]_vars
  PROVE  CommentsOK' /\ UsedOK'
<1>1. UsedOK' /\ {used["edits"], used["edits"]'} \subseteq Nat /\ used["edits"] <= used["edits"]'
  <2>1. \/ UNCHANGED used
        \/ \E f \in DOMAIN Limit : Spend(f)
    BY DEF Next, PassStep, vars, StartPass, KeepQuestion, ListComments, JudgeCommand,
           RecordCommand, Acknowledge, AcknowledgeDeleted, Die, CheckSubmit, Write, Edit,
           PostSubmit, Land, Ask, AnswerHere, IssueOver, Limit
  <2> QED BY <2>1, InputAnswerAssumption DEF TypeInv, UsedOK, Spend, Limit
<1>2. CASE UNCHANGED comments
  BY <1>1, <1>2, CommentIs DEF TypeInv, CommentsOK
<1>3. ASSUME NEW by \in Authors, NEW r \in Requests, NEW text \in Bodies, Write(by, r, text)
      PROVE  CommentsOK'
  BY <1>3, WrittenIs DEF Write
<1>4. ASSUME NEW c \in DOMAIN comments, Edit(c) PROVE CommentsOK'
  <2>1. /\ comments[c] \in CommandRecord
        /\ comments[c].ver \in Nat /\ comments[c].ver <= used["edits"]
    BY <1>4, CommentIs DEF Edit, TypeInv
  <2>2. used["edits"]' = used["edits"] + 1 /\ used["edits"] < MaxEdits
    BY <1>4 DEF Edit, Spend, Limit, TypeInv, UsedOK
  <2>3. CASE comments' = [comments EXCEPT ![c] = None]
    BY <1>1, <2>2, <2>3, CommentIs DEF TypeInv, CommentsOK
  <2>4. ASSUME NEW text \in Bodies,
               comments' = [comments EXCEPT ![c].text = text, ![c].ver = @ + 1]
        PROVE  CommentsOK'
    <3> DEFINE new == [comments[c] EXCEPT !.text = text, !.ver = @ + 1]
    <3>1. comments' = [comments EXCEPT ![c] = new]
      BY <2>4
    <3>2. new \in CommandRecord /\ new.ver <= used["edits"]'
      <4>1. MaxEdits \in Nat /\ comments[c].ver + 1 \in 0 .. MaxEdits
        BY <1>1, <2>1, <2>2, InputAnswerAssumption
      <4>2. new \in CommandRecord /\ new.ver = comments[c].ver + 1
        BY <2>1, <4>1 DEF CommandRecord
      <4> HIDE DEF new
      <4> QED BY <1>1, <2>1, <2>2, <4>2
    <3> HIDE DEF new
    <3> QED BY <1>1, <3>1, <3>2, CommentIs DEF TypeInv, CommentsOK
  <2> QED BY <1>4, <2>3, <2>4 DEF Edit
<1>5. CASE PostSubmit
  <2>1. CASE UNCHANGED comments
    BY <1>2, <2>1
  <2>2. CASE Written("owner", submit.req, submit.text) /\ UNCHANGED used
    <3>1. submit.req \in Requests /\ submit.text \in Bodies
      BY <1>5 DEF PostSubmit, TypeInv, RemoteOK, Bodies
    <3>2. "owner" \in Authors
      BY DEF Authors
    <3> QED BY <1>1, <2>2, <3>1, <3>2, WrittenIs
  <2> QED BY <1>5, <2>1, <2>2 DEF PostSubmit
<1>6. CASE Land
  <2>1. PICK call \in late : \/ UNCHANGED comments
                             \/ call.kind = "command" /\ Written("owner", call.req, call.text)
    BY <1>6 DEF Land
  <2>2. call.kind = "command" => call.req \in Requests /\ call.text \in Bodies
    BY DEF TypeInv, RemoteOK, LateCall, Bodies
  <2>3. "owner" \in Authors /\ UNCHANGED used
    BY <1>6 DEF Authors, Land
  <2> QED BY <1>1, <1>2, <2>1, <2>2, <2>3, WrittenIs
<1>7. Next => \/ UNCHANGED comments \/ PostSubmit \/ Land
              \/ \E by \in Authors, r \in Requests, text \in Bodies : Write(by, r, text)
              \/ \E c \in DOMAIN comments : Edit(c)
  BY DEF Next, PassStep, StartPass, KeepQuestion, ListComments, JudgeCommand, RecordCommand,
         Acknowledge, AcknowledgeDeleted, Die, CheckSubmit, Ask, AnswerHere, IssueOver, Remote
<1> QED BY <1>1, <1>2, <1>3, <1>4, <1>5, <1>6, <1>7 DEF vars

\* What an acknowledgement is about, and what it says.
LEMMA AckIs ==
  ASSUME NEW r \in Requests, NEW outcome \in Outcomes
  PROVE  /\ AckOf(r, outcome) \in Ack
         /\ AckOf(r, outcome).req = r /\ AckOf(r, outcome).outcome = outcome
BY DEF AckOf, Ack

\* The command of an answer on record, and the acknowledgement the deleted one is due.
LEMMA DeletedIs ==
  ASSUME TypeInv, ReceiptsTrue, pass.deleted # {}
  PROVE  LET r == First(pass.deleted)
         IN /\ r \in Requests /\ requests[r].from # None
            /\ requests[r].from.command \in Commands
            /\ AckOf(r, "accepted") \in Truths(requests[r].from.command)
<1> DEFINE r == First(pass.deleted)
<1>1. r \in pass.deleted /\ r \in Requests
  BY FirstOf DEF TypeInv, PassOK, PassRecord
<1>2. requests[r].from # None /\ Answered(r) /\ requests[r].from.command \in Commands
  BY <1>1 DEF ReceiptsTrue, TypeInv, LocalOK, Request
<1>3. "accepted" \in Outcomes
  BY DEF Outcomes
<1> QED BY <1>1, <1>2, <1>3, AckIs DEF Truths, OnRecord

\* SyncAck and SyncAckFails at once: what they do to the acknowledgements and the late calls.
LEMMA SyncIs ==
  ASSUME RemoteOK, NEW c \in Commands, NEW body \in Ack,
         (SyncAck(c, body) /\ UNCHANGED late) \/ SyncAckFails(c, body)
  PROVE  /\ acks' \in [Commands -> Seq(Ack)] /\ late' \subseteq LateCall
         /\ \A call \in late' : call \in late \/ call = [kind |-> "ack", of |-> c, body |-> body]
         /\ \A d \in Commands : d # c => acks'[d] = acks[d]
         /\ acks'[c] \in {acks[c], Kept(acks[c], body)} \cup FailedCopies(acks[c], body)
<1>1. acks[c] \in Seq(Ack)
  BY DEF RemoteOK
<1>2. CASE UNCHANGED late /\ \E k \in {Kept(acks[c], body)} \cup FailedCopies(acks[c], body) :
                               acks' = [acks EXCEPT ![c] = k]
  BY <1>1, <1>2, CopiesOf DEF RemoteOK
<1>3. CASE UNCHANGED acks /\ late' = late \cup {[kind |-> "ack", of |-> c, body |-> body]}
  BY <1>3 DEF RemoteOK, LateCall
<1> QED BY <1>2, <1>3 DEF SyncAck, SyncAckFails

\* What the service shows keeps its type.
LEMMA RemoteStep ==
  ASSUME TypeInv, ReceiptsTrue, [Next]_vars
  PROVE  RemoteOK'
<1> USE DEF RemoteOK
<1>1. CASE UNCHANGED <<questions, acks, late, submit>>
  BY <1>1 DEF TypeInv
<1>2. CASE KeepQuestion
  <2> DEFINE r == First(pass.asked)
  <2>1. r \in Requests
    BY <1>2, FirstOf DEF KeepQuestion, TypeInv, PassOK, PassRecord
  <2>2. Copies(r) \in Seq(Requests)
    BY <2>1 DEF Copies, TypeInv
  <2>3. Kept(Copies(r), r) \in Seq(Requests) /\ FailedCopies(Copies(r), r) \subseteq Seq(Requests)
    BY <2>1, <2>2, CopiesOf
  <2>4. UNCHANGED <<acks, submit>>
    BY <1>2 DEF KeepQuestion
  <2>5. CASE UNCHANGED late /\ \E k \in Seq(Requests) : questions' = [questions EXCEPT ![r] = Len(k)]
    <3>1. \A k \in Seq(Requests) : Len(k) \in Nat
      OBVIOUS
    <3> QED BY <2>1, <2>4, <2>5, <3>1 DEF TypeInv
  <2>6. CASE UNCHANGED questions /\ late' = late \cup {[kind |-> "question", req |-> r]}
    BY <2>1, <2>4, <2>6 DEF TypeInv, LateCall
  <2> QED BY <1>2, <2>3, <2>5, <2>6 DEF KeepQuestion, SyncQuestion, SyncQuestionFails
<1>3. CASE Acknowledge
  <2>1. This.command \in Commands /\ pass.ack \in Ack
    BY <1>3, ThisOf DEF Acknowledge, At, TypeInv, PassOK, PassRecord, Entry
  <2> QED BY <1>3, <2>1, SyncIs DEF Acknowledge, TypeInv
<1>4. CASE AcknowledgeDeleted
  <2> DEFINE r == First(pass.deleted)
  <2>1. requests[r].from.command \in Commands /\ AckOf(r, "accepted") \in Ack
    BY <1>4, DeletedIs DEF AcknowledgeDeleted, Truths
  <2> QED BY <1>4, <2>1, SyncIs DEF AcknowledgeDeleted, TypeInv
<1>5. ASSUME NEW r \in Requests, NEW text \in Texts, CheckSubmit(r, text) PROVE RemoteOK'
  BY <1>5 DEF CheckSubmit, Remote, TypeInv
<1>6. CASE PostSubmit
  BY <1>6 DEF PostSubmit, TypeInv, LateCall
<1>7. CASE Land
  <2>1. PICK call \in late :
          /\ late' = late \ {call} /\ UNCHANGED submit
          /\ \/ call.kind = "question" /\ UNCHANGED acks
                /\ questions' = [questions EXCEPT ![call.req] = @ + 1]
             \/ call.kind = "ack" /\ UNCHANGED questions
                /\ acks' = [acks EXCEPT ![call.of] = Append(@, call.body)]
             \/ UNCHANGED <<questions, acks>>
    BY <1>7 DEF Land
  <2>2. call.kind = "ack" => call.of \in Commands /\ call.body \in Ack
    BY DEF TypeInv, LateCall
  <2>3. call.kind = "question" => call.req \in Requests
    BY DEF TypeInv, LateCall
  <2>4. call.kind = "ack" => Append(acks[call.of], call.body) \in Seq(Ack)
    BY <2>2 DEF TypeInv
  <2>5. CASE UNCHANGED <<questions, acks>>
    BY <2>1, <2>5 DEF TypeInv
  <2>6. CASE call.kind = "question" /\ UNCHANGED acks
             /\ questions' = [questions EXCEPT ![call.req] = @ + 1]
    BY <2>1, <2>3, <2>6 DEF TypeInv
  <2>7. CASE call.kind = "ack" /\ UNCHANGED questions
             /\ acks' = [acks EXCEPT ![call.of] = Append(@, call.body)]
    BY <2>1, <2>2, <2>4, <2>7 DEF TypeInv
  <2> QED BY <2>1, <2>5, <2>6, <2>7
<1>8. Next => \/ UNCHANGED <<questions, acks, late, submit>>
              \/ KeepQuestion \/ Acknowledge \/ AcknowledgeDeleted \/ PostSubmit \/ Land
              \/ \E r \in Requests, text \in Texts : CheckSubmit(r, text)
  BY DEF Next, PassStep, StartPass, ListComments, JudgeCommand, RecordCommand, Die, Write, Edit,
         Ask, AnswerHere, IssueOver, Remote
<1> QED BY <1>1, <1>2, <1>3, <1>4, <1>5, <1>6, <1>7, <1>8 DEF vars

\* The judgement on the command the pass is at.
LEMMA Judged ==
  ASSUME TypeInv, pass.queue # {}
  PROVE  LET said == This.said
             outcome == Outcome(This.command, said)
         IN /\ outcome = "record" => said.text \in Texts
            /\ outcome # "record" => AckOf(said.req, outcome) \in Truths(This.command)
<1> DEFINE said == This.said
           outcome == Outcome(This.command, said)
           now == requests[said.req]
<1>1. /\ This.command \in Commands /\ said \in CommandRecord
      /\ said.req \in Requests /\ said.ver \in Nat /\ said.text \in Bodies
  BY ThisOf DEF TypeInv, Entry, CommandRecord
<1>2. outcome = "record" => said.text \in Texts
  BY <1>1 DEF Outcome, OutcomeWhenAnswered, Bodies
<1>3. outcome \in Outcomes \cup {"record"}
  BY DEF Outcome, OutcomeWhenAnswered, Outcomes
<1>4. outcome = "accepted" => Answered(said.req)
                              /\ now.from = [command |-> This.command, ver |-> said.ver]
  BY DEF Outcome, OutcomeWhenAnswered
<1>5. [command |-> This.command, ver |-> said.ver] # None
  BY <1>1, InputAnswerAssumption DEF Commands
<1> HIDE DEF outcome
<1> QED
  <2>1. ASSUME outcome # "record" PROVE AckOf(said.req, outcome) \in Truths(This.command)
    <3>1. /\ AckOf(said.req, outcome) \in Ack /\ AckOf(said.req, outcome).req = said.req
          /\ AckOf(said.req, outcome).outcome = outcome
      BY <1>1, <1>3, <2>1, AckIs
    <3> QED BY <1>4, <1>5, <3>1 DEF Truths, OnRecord
  <2> QED BY <1>2, <2>1 DEF outcome

\* The pass goes on with what is left, or ends.
LEMMA ContinueIs ==
  ASSUME NEW next \in PassRecord, next.pc = "judge", Continue(next)
  PROVE  PassOK' /\ pass'.pc # "question" /\ pass'.pc # "ack" /\ pass'.deleted \subseteq next.deleted
<1>1. Idle \in PassRecord /\ Idle.pc = "idle" /\ Idle.deleted = {}
  BY DEF Idle, PassRecord
<1> QED BY <1>1 DEF Continue, PassOK

\* The pass under way keeps its type.
LEMMA PassStepIs ==
  ASSUME TypeInv, ReceiptsTrue, [Next]_vars
  PROVE  PassOK'
<1> USE DEF PassOK
<1>1. CASE UNCHANGED pass
  BY <1>1 DEF TypeInv, This
<1>2. Idle \in PassRecord /\ Idle.pc = "idle"
  BY DEF Idle, PassRecord
<1>3. CASE pass' = Idle
  BY <1>2, <1>3
<1>4. CASE StartPass
  <2> DEFINE asked == {r \in Requests : Pending(r)}
             from == [r \in Requests |-> requests[r].from]
  <2>1. from \in [Requests -> Observation \cup {None}] /\ asked \subseteq Requests
    BY DEF TypeInv, LocalOK, Request, Observation
  <2>2. pass' = [Idle EXCEPT !.pc = "question", !.asked = asked, !.from = from]
    BY <1>4 DEF StartPass
  <2> HIDE DEF asked, from
  <2>3. pass' \in PassRecord /\ pass'.pc = "question" /\ pass'.from = from
    BY <2>1, <2>2 DEF PassRecord, Idle
  <2> QED BY <2>1, <2>3
<1>5. CASE KeepQuestion
  <2>1. CASE pass' = [pass EXCEPT !.asked = @ \ {First(pass.asked)}]
    BY <1>5, <2>1 DEF KeepQuestion, At, TypeInv, PassRecord
  <2> QED BY <1>3, <1>5, <2>1 DEF KeepQuestion, Aborted
<1>6. CASE ListComments
  <2>1. Listed \subseteq Entry
    BY CommentIs DEF Listed, EditedFor, Entry, TypeInv
  <2> DEFINE deleted == {r \in Requests : /\ pass.from[r] # None
                                          /\ comments[pass.from[r].command] = None}
             next == [Idle EXCEPT !.pc = "judge", !.queue = Listed, !.deleted = deleted]
  <2>2. next \in PassRecord /\ next.pc = "judge"
    BY <2>1 DEF PassRecord, Idle
  <2>3. Continue(next) \/ pass' = Idle
    BY <1>6 DEF ListComments, Aborted
  <2> HIDE DEF next
  <2> QED BY <1>3, <2>2, <2>3, ContinueIs
<1>7. CASE JudgeCommand
  <2> DEFINE outcome == Outcome(This.command, This.said)
  <2>1. This \in pass.queue /\ This \in Entry /\ pass.queue # {}
    BY <1>7, ThisOf DEF JudgeCommand, TypeInv
  <2>2. ASSUME NEW body \in Ack, pass' = [pass EXCEPT !.pc = "ack", !.ack = body] PROVE PassOK'
    BY <2>1, <2>2 DEF TypeInv, PassRecord
  <2>3. CASE /\ This.edited # {}
             /\ pass' = [pass EXCEPT !.pc = "ack", !.ack = AckOf(First(This.edited), "conflict")]
    <3>1. AckOf(First(This.edited), "conflict") \in Ack
      BY <2>1, <2>3, FirstOf, AckIs DEF Entry, Outcomes
    <3> QED BY <2>2, <2>3, <3>1
  <2>4. CASE outcome = "record" /\ pass' = [pass EXCEPT !.pc = "record"]
    <3>1. This' = This
      BY <2>4 DEF This, TypeInv, PassRecord
    <3>2. This.said.text \in Texts
      BY <2>1, <2>4, Judged
    <3> QED BY <2>1, <2>4, <3>1, <3>2 DEF TypeInv, PassRecord
  <2>5. CASE /\ outcome # "record"
             /\ pass' = [pass EXCEPT !.pc = "ack", !.ack = AckOf(This.said.req, outcome)]
    <3>1. AckOf(This.said.req, outcome) \in Ack
      BY <2>1, <2>5, Judged DEF Truths
    <3> QED BY <2>2, <2>5, <3>1
  <2> QED BY <1>3, <1>7, <2>3, <2>4, <2>5 DEF JudgeCommand, Aborted
<1>8. CASE RecordCommand
  <2>1. This \in Entry /\ pass.queue # {}
    BY <1>8, ThisOf DEF RecordCommand, At, TypeInv
  <2>2. PICK outcome \in {"accepted", "conflict"} :
          pass' = [pass EXCEPT !.pc = "ack", !.ack = AckOf(This.said.req, outcome)]
    BY <1>8 DEF RecordCommand
  <2>3. AckOf(This.said.req, outcome) \in Ack
    BY <2>1, AckIs DEF Entry, CommandRecord, Outcomes
  <2> QED BY <2>1, <2>2, <2>3 DEF TypeInv, PassRecord
<1>9. CASE Acknowledge
  <2> DEFINE next == [pass EXCEPT !.pc = "judge", !.queue = @ \ {This}, !.ack = None]
  <2>1. next \in PassRecord /\ next.pc = "judge"
    BY DEF TypeInv, PassRecord
  <2>2. Continue(next) \/ pass' = Idle
    BY <1>9 DEF Acknowledge, Aborted
  <2> HIDE DEF next
  <2> QED BY <1>3, <2>1, <2>2, ContinueIs
<1>10. CASE AcknowledgeDeleted
  <2> DEFINE next == [pass EXCEPT !.deleted = @ \ {First(pass.deleted)}]
  <2>1. next \in PassRecord /\ next.pc = "judge"
    BY <1>10 DEF AcknowledgeDeleted, At, TypeInv, PassRecord
  <2>2. Continue(next) \/ pass' = Idle
    BY <1>10 DEF AcknowledgeDeleted, Aborted
  <2> HIDE DEF next
  <2> QED BY <1>3, <2>1, <2>2, ContinueIs
<1>11. Next => \/ UNCHANGED pass \/ pass' = Idle \/ StartPass \/ PassStep
  BY DEF Next, Die, Aborted, Write, Edit, Ask, AnswerHere, IssueOver, CheckSubmit, PostSubmit, Land
<1> QED
  BY <1>1, <1>3, <1>4, <1>5, <1>6, <1>7, <1>8, <1>9, <1>10, <1>11 DEF PassStep, vars

-----------------------------------------------------------------------------
(* One step: every receipt stays true. *)

\* A receipt that says accepted is, wherever it waits, about an answer on record.
LEMMA ReceiptsStep ==
  ASSUME TypeInv, ReceiptsTrue, TypeInv', Final, [Next]_vars
  PROVE  ReceiptsTrue'
<1>1. \A r \in Requests : requests[r].from # None => requests'[r] = requests[r]
  BY DEF Final, TypeInv, LocalOK
<1>2. \A c \in Commands : Truths(c) \subseteq Truths(c)' /\ acks[c] \in Seq(Truths(c)')
  <2>1. \A c \in Commands : Truths(c) \subseteq Truths(c)'
    BY <1>1 DEF Final, Truths, OnRecord, Answered, Ack
  <2> QED BY <2>1, SeqMonotonic DEF ReceiptsTrue
<1>3. /\ \A c \in Commands : acks'[c] \in Seq(Truths(c)')
      /\ \A call \in late' : call.kind = "ack" => call.body \in Truths(call.of)'
  <2> DEFINE Posted == \A c \in Commands : acks'[c] \in Seq(Truths(c)')
             Waiting == \A call \in late' : call.kind = "ack" => call.body \in Truths(call.of)'
  <2>1. \A call \in late : call.kind = "ack" => call.of \in Commands /\ call.body \in Truths(call.of)'
    BY <1>2 DEF ReceiptsTrue, TypeInv, RemoteOK, LateCall
  <2>2. CASE UNCHANGED acks /\ \A call \in late' : call \in late \/ call.kind # "ack"
    BY <1>2, <2>1, <2>2
  <2>3. ASSUME NEW c \in Commands, NEW body \in Truths(c),
               (SyncAck(c, body) /\ UNCHANGED late) \/ SyncAckFails(c, body)
        PROVE  Posted /\ Waiting
    <3>1. body \in Ack /\ body \in Truths(c)' /\ acks[c] \in Seq(Truths(c)')
      BY <1>2 DEF Truths
    <3>2. Kept(acks[c], body) \in Seq(Truths(c)')
          /\ FailedCopies(acks[c], body) \subseteq Seq(Truths(c)')
      BY <3>1, CopiesOf
    <3>3. /\ \A call \in late' : call \in late \/ call = [kind |-> "ack", of |-> c, body |-> body]
          /\ \A d \in Commands : d # c => acks'[d] = acks[d]
          /\ acks'[c] \in {acks[c], Kept(acks[c], body)} \cup FailedCopies(acks[c], body)
      BY <2>3, <3>1, SyncIs DEF TypeInv
    <3> QED BY <1>2, <2>1, <3>1, <3>2, <3>3
  <2>4. CASE Acknowledge
    <3>1. This.command \in Commands /\ pass.ack \in Truths(This.command)
      BY <2>4, ThisOf DEF Acknowledge, At, TypeInv, PassOK, Entry, ReceiptsTrue
    <3> QED BY <2>3, <2>4, <3>1 DEF Acknowledge
  <2>5. CASE AcknowledgeDeleted
    BY <2>3, <2>5, DeletedIs DEF AcknowledgeDeleted
  <2>6. CASE Land
    <3>1. PICK call \in late :
            /\ late' = late \ {call}
            /\ \/ UNCHANGED acks
               \/ call.kind = "ack" /\ acks' = [acks EXCEPT ![call.of] = Append(@, call.body)]
      BY <2>6 DEF Land
    <3>2. call.kind = "ack" => Append(acks[call.of], call.body) \in Seq(Truths(call.of)')
      BY <1>2, <2>1
    <3> QED BY <1>2, <2>1, <2>2, <3>1, <3>2 DEF TypeInv, RemoteOK
  <2>7. CASE KeepQuestion
    BY <2>2, <2>7 DEF KeepQuestion, SyncQuestion, SyncQuestionFails
  <2>8. CASE PostSubmit
    BY <2>2, <2>8 DEF PostSubmit
  <2>9. Next => \/ UNCHANGED <<acks, late>> \/ Acknowledge \/ AcknowledgeDeleted \/ Land
                \/ KeepQuestion \/ PostSubmit
    BY DEF Next, PassStep, StartPass, ListComments, JudgeCommand, RecordCommand, Die, Write, Edit,
           Ask, AnswerHere, IssueOver, CheckSubmit, Remote
  <2> QED BY <2>2, <2>4, <2>5, <2>6, <2>7, <2>8, <2>9 DEF vars
<1> DEFINE Due == pass'.pc = "ack" => pass'.ack \in (Truths(This.command))'
           Read == pass'.pc = "question" =>
                     \A r \in Requests : pass'.from[r] # None => requests'[r].from = pass'.from[r]
           Deleted == \A r \in pass'.deleted : requests'[r].from # None
<1>4. ASSUME UNCHANGED pass PROVE Due /\ Read /\ Deleted
  <2>1. This' = This
    BY <1>4 DEF This
  <2>2. Due
    BY <1>2, <1>4, <2>1, ThisOf DEF ReceiptsTrue, TypeInv, PassOK, Entry, Truths, OnRecord
  <2>3. Read /\ Deleted
    BY <1>1, <1>4 DEF ReceiptsTrue, TypeInv, PassOK, PassRecord
  <2> QED BY <2>2, <2>3
<1>5. ASSUME pass' = Idle PROVE Due /\ Read /\ Deleted
  BY <1>5 DEF Idle
<1>6. ASSUME NEW next \in PassRecord, next.pc = "judge", Continue(next), UNCHANGED requests,
             \A r \in next.deleted : requests[r].from # None
      PROVE  Due /\ Read /\ Deleted
  BY <1>6, ContinueIs
<1>7. ASSUME StartPass PROVE Due /\ Read /\ Deleted
  BY <1>7 DEF StartPass, Idle, Local
<1>8. ASSUME KeepQuestion PROVE Due /\ Read /\ Deleted
  <2>1. CASE pass' = [pass EXCEPT !.asked = @ \ {First(pass.asked)}]
    BY <1>8, <2>1 DEF KeepQuestion, At, TypeInv, PassOK, PassRecord, ReceiptsTrue, Local
  <2> QED BY <1>5, <1>8, <2>1 DEF KeepQuestion, Aborted
<1>9. ASSUME ListComments PROVE Due /\ Read /\ Deleted
  <2> DEFINE deleted == {r \in Requests : /\ pass.from[r] # None
                                          /\ comments[pass.from[r].command] = None}
             next == [Idle EXCEPT !.pc = "judge", !.queue = Listed, !.deleted = deleted]
  <2>1. Listed \subseteq Entry
    BY CommentIs DEF Listed, EditedFor, Entry, TypeInv
  <2>2. next \in PassRecord /\ next.pc = "judge" /\ next.deleted = deleted
    BY <2>1 DEF PassRecord, Idle
  <2>3. Continue(next) \/ pass' = Idle
    BY <1>9 DEF ListComments, Aborted
  <2>4. \A r \in deleted : requests[r].from # None
    BY <1>9 DEF ListComments, At, ReceiptsTrue
  <2> HIDE DEF next, deleted
  <2> QED BY <1>5, <1>6, <1>9, <2>2, <2>3, <2>4 DEF ListComments, Local
<1>10. ASSUME JudgeCommand PROVE Due /\ Read /\ Deleted
  <2> DEFINE outcome == Outcome(This.command, This.said)
  <2>1. This \in pass.queue /\ This \in Entry /\ pass.queue # {} /\ UNCHANGED requests
    BY <1>10, ThisOf DEF JudgeCommand, TypeInv, Local
  <2>2. ASSUME NEW body \in Truths(This.command),
               pass' = [pass EXCEPT !.pc = "ack", !.ack = body]
        PROVE  Due /\ Read /\ Deleted
    <3>1. This' = This
      BY <2>2 DEF This, TypeInv, PassOK, PassRecord
    <3> QED BY <1>2, <2>1, <2>2, <3>1 DEF TypeInv, PassOK, PassRecord, Entry, ReceiptsTrue
  <2>3. CASE /\ This.edited # {}
             /\ pass' = [pass EXCEPT !.pc = "ack", !.ack = AckOf(First(This.edited), "conflict")]
    <3>1. AckOf(First(This.edited), "conflict") \in Truths(This.command)
      BY <2>1, <2>3, FirstOf, AckIs DEF Entry, Outcomes, Truths, OnRecord
    <3> QED BY <2>2, <2>3, <3>1
  <2>4. CASE pass' = [pass EXCEPT !.pc = "record"]
    BY <2>1, <2>4 DEF TypeInv, PassOK, PassRecord, ReceiptsTrue
  <2>5. CASE /\ outcome # "record"
             /\ pass' = [pass EXCEPT !.pc = "ack", !.ack = AckOf(This.said.req, outcome)]
    BY <2>1, <2>2, <2>5, Judged
  <2> QED BY <1>5, <1>10, <2>3, <2>4, <2>5 DEF JudgeCommand, Aborted
<1>11. ASSUME RecordCommand PROVE Due /\ Read /\ Deleted
  <2> DEFINE said == This.said
             from == [command |-> This.command, ver |-> said.ver]
             outcome == IF Recorded(said.req, said.text, from) THEN "accepted" ELSE "conflict"
  <2>1. /\ This.command \in Commands /\ said.req \in Requests /\ said.ver \in Nat
        /\ from \in Observation /\ said.text \in Texts
    BY <1>11, ThisOf
    DEF RecordCommand, At, TypeInv, PassOK, Entry, CommandRecord, Observation
  <2>2. from # None /\ from.command = This.command
    BY <2>1, InputAnswerAssumption DEF Commands
  <2>3. /\ Records(said.req, said.text, from)
        /\ pass' = [pass EXCEPT !.pc = "ack", !.ack = AckOf(said.req, outcome)]
    BY <1>11 DEF RecordCommand
  <2> HIDE DEF from
  <2>4. outcome = "accepted" =>
          requests'[said.req].status = "answered" /\ requests'[said.req].from = from
    BY <2>1, <2>2, <2>3, RecordsAnswer DEF Recorded, TypeInv, Answered, Final
  <2>5. outcome \in Outcomes
    BY DEF Outcomes
  <2> HIDE DEF outcome
  <2>6. This' = This
    BY <2>3 DEF This, TypeInv, PassOK, PassRecord
  <2> DEFINE body == AckOf(said.req, outcome)
  <2>7. body \in Ack /\ body.req = said.req /\ body.outcome = outcome
    BY <2>1, <2>5, AckIs
  <2>8. pass'.ack = body
    BY <2>3 DEF TypeInv, PassOK, PassRecord
  <2> HIDE DEF body
  <2>9. pass'.ack \in (Truths(This.command))'
    BY <2>1, <2>2, <2>4, <2>6, <2>7, <2>8 DEF Truths, OnRecord, Answered
  <2> QED BY <1>1, <2>3, <2>9 DEF TypeInv, PassOK, PassRecord, ReceiptsTrue
<1>12. ASSUME Acknowledge PROVE Due /\ Read /\ Deleted
  <2> DEFINE next == [pass EXCEPT !.pc = "judge", !.queue = @ \ {This}, !.ack = None]
  <2>1. next \in PassRecord /\ next.pc = "judge" /\ next.deleted = pass.deleted
    BY DEF TypeInv, PassOK, PassRecord
  <2>2. Continue(next) \/ pass' = Idle
    BY <1>12 DEF Acknowledge, Aborted
  <2> HIDE DEF next
  <2> QED BY <1>5, <1>6, <1>12, <2>1, <2>2 DEF Acknowledge, Local, ReceiptsTrue
<1>13. ASSUME AcknowledgeDeleted PROVE Due /\ Read /\ Deleted
  <2> DEFINE next == [pass EXCEPT !.deleted = @ \ {First(pass.deleted)}]
  <2>1. next \in PassRecord /\ next.pc = "judge" /\ next.deleted \subseteq pass.deleted
    BY <1>13 DEF AcknowledgeDeleted, At, TypeInv, PassOK, PassRecord
  <2>2. Continue(next) \/ pass' = Idle
    BY <1>13 DEF AcknowledgeDeleted, Aborted
  <2> HIDE DEF next
  <2> QED BY <1>5, <1>6, <1>13, <2>1, <2>2 DEF AcknowledgeDeleted, Local, ReceiptsTrue
<1>14. Next => UNCHANGED pass \/ pass' = Idle \/ StartPass \/ PassStep
  BY DEF Next, Die, Aborted, Write, Edit, Ask, AnswerHere, IssueOver, CheckSubmit, PostSubmit, Land
<1>15. Due /\ Read /\ Deleted
  BY <1>4, <1>5, <1>7, <1>8, <1>9, <1>10, <1>11, <1>12, <1>13, <1>14 DEF PassStep, vars
<1> QED BY <1>3, <1>15 DEF ReceiptsTrue

-----------------------------------------------------------------------------

\* The inductive invariant holds.
LEMMA InvariantHolds == Spec => []IInv
<1>1. Init => IInv
  <2> SUFFICES ASSUME Init PROVE IInv
    OBVIOUS
  <2> USE DEF Init
  <2>1. LocalOK
    BY DEF LocalOK, Request
  <2>2. CommentsOK /\ RemoteOK
    BY InputAnswerAssumption DEF CommentsOK, RemoteOK
  <2>3. UsedOK /\ PassOK
    BY InputAnswerAssumption DEF UsedOK, PassOK, PassRecord, Idle, Limit
  <2>4. ReceiptsTrue
    BY DEF ReceiptsTrue, Idle
  <2> QED BY <2>1, <2>2, <2>3, <2>4 DEF IInv, TypeInv
<1>2. IInv /\ [Next]_vars => IInv'
  BY LocalStep, CommentsStep, RemoteStep, PassStepIs, ReceiptsStep DEF IInv, TypeInv
<1> QED BY <1>1, <1>2, PTL DEF Spec

\* Every variable of the conversation stays in its range (TypeOK), for any bounds: no
\* command is attributed to a number nobody posted, no version runs ahead of the edits.
THEOREM TypeCorrect == Spec => []TypeOK
<1>1. IInv => TypeOK
  BY CommentIs DEF IInv, TypeInv, LocalOK, CommentsOK, RemoteOK, PassOK, PassRecord, TypeOK,
     Request, Observation
<1> QED BY <1>1, InvariantHolds, PTL

\* A receipt that says accepted names a request that this very command answered, wherever
\* the receipt was written from: a pass that read the request long ago, a repeated pass,
\* the repair of a deleted command, or a call that took effect after it was given up
\* (reconcileInputIssue, RecordAnswer and syncManagedComment).
THEOREM ReceiptsAreTrue == Spec => []AcceptedIsOnRecord
<1>1. IInv => AcceptedIsOnRecord
  <2> SUFFICES ASSUME IInv, NEW c \in Commands, NEW n \in DOMAIN acks[c]
               PROVE  acks[c][n].outcome = "accepted" =>
                        LET r == acks[c][n].req
                        IN Answered(r) /\ requests[r].from # None /\ requests[r].from.command = c
    BY DEF AcceptedIsOnRecord
  <2>1. acks[c][n] \in Truths(c)
    BY DEF IInv, ReceiptsTrue
  <2> QED BY <2>1 DEF Truths, OnRecord
<1> QED BY <1>1, InvariantHolds, PTL

\* No step of anybody replaces, takes back or attributes anew an answer that is on record
\* (RecordAnswer and its second look under the lock).
THEOREM AnswersAreFinal == Spec => AnswerFixed
<1>1. IInv /\ [Next]_vars => [\A r \in Requests : Answered(r) => requests'[r] = requests[r]]_vars
  BY LocalStep DEF IInv, Final
<1> QED BY <1>1, InvariantHolds, PTL DEF Spec, AnswerFixed
=============================================================================
