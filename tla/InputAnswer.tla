---------------------------- MODULE InputAnswer ----------------------------
(***************************************************************************)
(* Questions and answers in the comments of one Issue.  The supervisor's   *)
(* pass over the Issue keeps one comment for a pending question, lists the *)
(* comments, judges every answer command, records the answer that counts   *)
(* and keeps one acknowledgement for each command.  Meanwhile commands are *)
(* written, edited and deleted, the answer command on this host and the    *)
(* one on a remote terminal put answers, the run asks again or is over, a  *)
(* call to GitHub fails with or without effect, or takes effect later, and *)
(* the supervisor dies between any two steps.                              *)
(***************************************************************************)
EXTENDS Naturals, Sequences

CONSTANTS
  NumRequests, \* questions the runs of the Issue ask, one after another
  Texts,       \* answers that the questions allow
  TextsHere,   \* bound: those given on the supervisor's host
  MaxComments, \* bound: answer commands on the Issue
  MaxFaults,   \* bound: calls to GitHub that fail, and deaths of the supervisor
  MaxEdits,    \* bound: commands edited or deleted
  MaxSubmits,  \* bound: answers sent by the remote answer command
  None         \* nothing there

ASSUME InputAnswerAssumption ==
  /\ {NumRequests, MaxComments, MaxFaults, MaxEdits, MaxSubmits} \subseteq Nat
  /\ None \notin Texts \cup [command : Nat, ver : Nat] /\ TextsHere \subseteq Texts

VARIABLES
  requests,  \* the snapshot's requests, those of a quarantined Issue included
  open,      \* the Issue is neither completed nor canceled
  comments,  \* the answer commands, in the order they were posted
  questions, \* the copies of each question's comment
  acks,      \* the acknowledgements of each command, the oldest first
  late,      \* calls given up on that GitHub may still carry out
  pass,      \* where the supervisor's pass stands and what it read
  submit,    \* the answer a remote terminal has checked and not yet posted
  used       \* the bounds used up

vars == <<requests, open, comments, questions, acks, late, pass, submit, used>>

Requests == 1 .. NumRequests
Commands == 1 .. MaxComments
Outcomes == {"accepted", "conflict", "stale", "unauthorized", "malformed"}
Listable(c) == c \in DOMAIN comments /\ comments[c] # None

\* What follows /agent-loop; comments that do not start with it are not kept here.
Bodies == Texts \cup {"malformed"}
Authors == {"owner", "other"}
Limit == [faults |-> MaxFaults, edits |-> MaxEdits, submits |-> MaxSubmits]
Idle == [pc |-> "idle", asked |-> {}, from |-> None, queue |-> {}, deleted |-> {}, ack |-> None]

Init ==
  /\ requests = [r \in Requests |-> [status |-> "none", answer |-> None, from |-> None]]
  /\ open = TRUE
  /\ comments = <<>>
  /\ questions = [r \in Requests |-> 0]
  /\ acks = [c \in Commands |-> <<>>]
  /\ late = {} /\ pass = Idle /\ submit = None
  /\ used = [f \in DOMAIN Limit |-> 0]

Spend(f) == used[f] < Limit[f] /\ used' = [used EXCEPT ![f] = @ + 1]
Pending(r) == requests[r].status = "pending"
Answered(r) == requests[r].status = "answered"

Remote == <<comments, questions, acks, late>>
Local == <<requests, open>>

-----------------------------------------------------------------------------
(* The answer and the request it is for. *)

\* Mutant: the request is not read again under the lock.
RecordsUnchecked(r, text, from) ==
  requests' = [requests EXCEPT ![r].status = "answered", ![r].answer = text, ![r].from = from]

\* RecordAnswer: a canceled request and one with another answer are conflicts.
Records(r, text, from) ==
  IF Pending(r)
  THEN requests' = [requests EXCEPT ![r].status = "answered", ![r].answer = text, ![r].from = from]
  ELSE UNCHANGED requests

\* What RecordAnswer tells its caller.
Recorded(r, text, from) ==
  \/ Pending(r)
  \/ Answered(r) /\ requests[r].answer = text /\ (from = None \/ requests[r].from = from)

\* handleResult and issue ask: the next question once the last one is answered.
Ask(r) ==
  /\ open /\ requests[r].status = "none"
  /\ \A q \in 1 .. (r - 1) : Answered(q)
  /\ requests' = [requests EXCEPT ![r].status = "pending"]
  /\ UNCHANGED <<open, Remote, pass, submit, used>>

\* The answer command on the supervisor's host: no observation goes with it.
AnswerHere(r, text) ==
  /\ Pending(r) /\ Records(r, text, None)
  /\ UNCHANGED <<open, Remote, pass, submit, used>>

\* The Issue is completed or canceled; only a cancellation finds a pending question.
IssueOver ==
  /\ open /\ open' = FALSE
  /\ requests' = [r \in Requests |->
       IF Pending(r) THEN [requests[r] EXCEPT !.status = "canceled"] ELSE requests[r]]
  /\ UNCHANGED <<Remote, pass, submit, used>>

-----------------------------------------------------------------------------
(* The comments kept on GitHub, and how far a failing call gets. *)

\* syncManagedComment: the oldest copy is brought up to date and the others deleted.
Kept(copies, body) == <<body>>

\* How far a failing call gets: nowhere, to the first copy, or there after it was given up.
FailedCopies(copies, body) ==
  {copies, IF copies = <<>> THEN <<body>> ELSE <<body>> \o Tail(copies)}

Copies(r) == [n \in 1 .. questions[r] |-> r]

\* SyncInputRequest: the body depends on the request alone.
SyncQuestion(r) ==
  questions' = [questions EXCEPT ![r] = Len(Kept(Copies(r), r))]

SyncQuestionFails(r) ==
  \/ /\ \E k \in FailedCopies(Copies(r), r) : questions' = [questions EXCEPT ![r] = Len(k)]
     /\ UNCHANGED late
  \/ questions[r] = 0 /\ late' = late \cup {[kind |-> "question", req |-> r]} /\ UNCHANGED questions

\* SyncInputAcknowledgement: the marker names the command.
SyncAck(c, body) == acks' = [acks EXCEPT ![c] = Kept(@, body)]

SyncAckFails(c, body) ==
  \/ \E k \in FailedCopies(acks[c], body) : acks' = [acks EXCEPT ![c] = k] /\ UNCHANGED late
  \/ /\ acks[c] = <<>> /\ UNCHANGED acks
     /\ late' = late \cup {[kind |-> "ack", of |-> c, body |-> body]}

-----------------------------------------------------------------------------
(* The supervisor's pass over the Issue. *)

At(pc) == pass.pc = pc
Aborted == pass' = Idle
\* The pass ends with the last command and the last deleted one.
Continue(next) == pass' = IF next.queue = {} /\ next.deleted = {} THEN Idle ELSE next
First(set) == CHOOSE x \in set : \A y \in set : x <= y

\* reconcileInputIssue, from a delivery of the webhook or the managed reconciliation.
StartPass ==
  /\ At("idle") /\ \E r \in Requests : requests[r].status # "none"
  /\ pass' = [Idle EXCEPT !.pc = "question", !.asked = {r \in Requests : Pending(r)},
                          !.from = [r \in Requests |-> requests[r].from]]
  /\ UNCHANGED <<Local, Remote, submit, used>>

\* One comment for each question that the pass found pending.
KeepQuestion ==
  /\ At("question") /\ pass.asked # {}
  /\ LET r == First(pass.asked)
     IN \/ /\ SyncQuestion(r) /\ pass' = [pass EXCEPT !.asked = @ \ {r}]
           /\ UNCHANGED <<late, used>>
        \/ Spend("faults") /\ SyncQuestionFails(r) /\ Aborted
  /\ UNCHANGED <<Local, comments, acks, submit>>

\* The requests that the pass found answered by the command in another wording.
EditedFor(c) ==
  {r \in Requests : /\ pass.from[r] # None /\ pass.from[r].command = c
                    /\ pass.from[r].ver # comments[c].ver}

\* The commands the pass has to judge.
Listed ==
  {[command |-> c, said |-> comments[c], edited |-> EditedFor(c)] :
     c \in {d \in DOMAIN comments : comments[d] # None}}

\* They are judged in the order in which they were posted.
This == CHOOSE e \in pass.queue : \A f \in pass.queue : e.command <= f.command

ListComments ==
  /\ At("question") /\ pass.asked = {}
  /\ \/ /\ Continue([Idle EXCEPT !.pc = "judge", !.queue = Listed,
                       !.deleted = {r \in Requests : /\ pass.from[r] # None
                                                     /\ comments[pass.from[r].command] = None}])
        /\ UNCHANGED used
     \/ Spend("faults") /\ Aborted
  /\ UNCHANGED <<Local, Remote, submit>>

\* Mutant: an answer in the same words counts as accepted, whichever command brought it.
OutcomeWhenAnsweredByText(c, said) ==
  IF requests[said.req].answer = said.text THEN "accepted" ELSE "conflict"

\* Mutant: the command on record is not recognised again.
OutcomeWhenAnsweredForgets(c, said) ==
  IF requests[said.req].answer = said.text THEN "stale" ELSE "conflict"

\* Only the recorded wording of the recorded command is accepted again.
OutcomeWhenAnswered(c, said) ==
  LET now == requests[said.req]
  IN CASE now.from = [command |-> c, ver |-> said.ver] -> "accepted"
       [] now.answer = said.text /\ (now.from = None \/ now.from.command # c) -> "stale"
       [] OTHER -> "conflict"

\* The judgement on a command, with the request read again, in the order of the code.
Outcome(c, said) ==
  CASE said.text = "malformed" -> "malformed"
    [] said.by # "owner" -> "unauthorized"
    [] requests[said.req].status \in {"none", "canceled"} \/ said.early -> "stale"
    [] Answered(said.req) -> OutcomeWhenAnswered(c, said)
    [] OTHER -> "record"

AckOf(r, outcome) == [req |-> r, outcome |-> outcome]

\* One command: was it edited since, who sent it (a call to GitHub), does it count.
JudgeCommand ==
  /\ At("judge") /\ pass.queue # {}
  /\ LET e == This
         outcome == Outcome(e.command, e.said)
     IN \/ /\ e.edited # {} /\ UNCHANGED used
           /\ pass' = [pass EXCEPT !.pc = "ack", !.ack = AckOf(First(e.edited), "conflict")]
        \/ /\ e.edited = {} /\ UNCHANGED used
           /\ pass' = IF outcome = "record" THEN [pass EXCEPT !.pc = "record"]
                      ELSE [pass EXCEPT !.pc = "ack", !.ack = AckOf(e.said.req, outcome)]
        \/ e.edited = {} /\ e.said.text # "malformed" /\ Spend("faults") /\ Aborted
  /\ UNCHANGED <<Local, Remote, submit>>

RecordCommand ==
  /\ At("record")
  /\ LET e == This
         said == e.said
         from == [command |-> e.command, ver |-> said.ver]
         outcome == IF Recorded(said.req, said.text, from) THEN "accepted" ELSE "conflict"
     IN /\ Records(said.req, said.text, from)
        /\ pass' = [pass EXCEPT !.pc = "ack", !.ack = AckOf(said.req, outcome)]
  /\ UNCHANGED <<open, Remote, submit, used>>

\* Mutant: the pass ends after the first acknowledgement.
AcknowledgeReturns ==
  /\ At("ack")
  /\ LET c == This.command
     IN \/ SyncAck(c, pass.ack) /\ Aborted /\ UNCHANGED <<late, used>>
        \/ Spend("faults") /\ SyncAckFails(c, pass.ack) /\ Aborted
  /\ UNCHANGED <<Local, comments, questions, submit>>

Acknowledge ==
  /\ At("ack")
  /\ LET c == This.command
     IN \/ /\ SyncAck(c, pass.ack) /\ UNCHANGED <<late, used>>
           /\ Continue([pass EXCEPT !.pc = "judge", !.queue = @ \ {This}, !.ack = None])
        \/ Spend("faults") /\ SyncAckFails(c, pass.ack) /\ Aborted
  /\ UNCHANGED <<Local, comments, questions, submit>>

\* After the list: the answers whose command was not on it are acknowledged.
AcknowledgeDeleted ==
  /\ At("judge") /\ pass.queue = {} /\ pass.deleted # {}
  /\ LET r == First(pass.deleted)
         c == requests[r].from.command
     IN \/ /\ SyncAck(c, AckOf(r, "accepted")) /\ UNCHANGED <<late, used>>
           /\ Continue([pass EXCEPT !.deleted = @ \ {r}])
        \/ Spend("faults") /\ SyncAckFails(c, AckOf(r, "accepted")) /\ Aborted
  /\ UNCHANGED <<Local, comments, questions, submit>>

\* The supervisor dies; the next one starts over.
Die ==
  /\ ~At("idle") /\ Spend("faults") /\ Aborted
  /\ UNCHANGED <<Local, Remote, submit>>

-----------------------------------------------------------------------------
(* The other end: people, the remote answer command, GitHub. *)

\* GitHub stamps whole seconds: the first commands may seem older than the question.
Earlier(by, r, text) ==
  /\ by = "owner" /\ text \in Texts
  /\ \A c \in DOMAIN comments : Listable(c) /\ comments[c].req = r => comments[c].early

Written(by, r, text) ==
  /\ Len(comments) < MaxComments
  /\ \E early \in {FALSE, Earlier(by, r, text)} :
       comments' = Append(comments,
         [by |-> by, req |-> r, text |-> text, early |-> early, ver |-> 0])

\* A command on the Issue; whoever writes it has seen the question.
Write(by, r, text) ==
  /\ questions[r] > 0 /\ Written(by, r, text)
  /\ by = "owner" \/ text = CHOOSE t \in Texts : TRUE
  /\ UNCHANGED <<Local, questions, acks, late, pass, submit, used>>

Edit(c) ==
  /\ comments[c] # None /\ comments[c].by = "owner" /\ Spend("edits")
  /\ \/ comments' = [comments EXCEPT ![c] = None]
     \/ \E text \in Bodies \ {comments[c].text} :
          comments' = [comments EXCEPT ![c].text = text, ![c].ver = @ + 1]
  /\ UNCHANGED <<Local, questions, acks, late, pass, submit>>

\* inputAnswerContext: one question comment for the request, the latest asked if it must be.
Current(r) ==
  /\ questions[r] = 1
  /\ \A q \in Requests : questions[q] > 0 => q <= r

Submitted(r) ==
  {c \in DOMAIN comments :
     comments[c] # None /\ comments[c].by = "owner" /\ comments[c].req = r}

\* SubmitInputAnswer up to its call: no answer of the owner's, none accepted.
CheckSubmit(r, text) ==
  /\ submit = None /\ Spend("submits") /\ Current(r) /\ Submitted(r) = {}
  /\ \A c \in Commands : \A n \in DOMAIN acks[c] : acks[c][n] # AckOf(r, "accepted")
  /\ submit' = [req |-> r, text |-> text]
  /\ UNCHANGED <<Local, Remote, pass>>

\* The POST on an open Issue; nothing is sent again when its answer is lost.
PostSubmit ==
  /\ submit # None /\ submit' = None
  /\ \/ open /\ Written("owner", submit.req, submit.text) /\ UNCHANGED <<late, used>>
     \/ open /\ Spend("faults") /\ UNCHANGED comments
        /\ late' = late \cup {[kind |-> "command", req |-> submit.req, text |-> submit.text]}
     \/ ~open /\ UNCHANGED <<comments, late, used>>
  /\ UNCHANGED <<Local, questions, acks, pass>>

\* inputAnswerReceipt: what --check reads off the one acknowledgement of a command.
Receipt(r, c) ==
  IF Len(acks[c]) = 1 /\ acks[c][1].req = r THEN acks[c][1].outcome ELSE "unknown"

\* GitHub carries out a call whose caller gave up.
Land ==
  \E call \in late :
    /\ late' = late \ {call}
    /\ \/ /\ call.kind = "question"
          /\ questions' = [questions EXCEPT ![call.req] = @ + 1] /\ UNCHANGED <<comments, acks>>
       \/ /\ call.kind = "ack"
          /\ acks' = [acks EXCEPT ![call.of] = Append(@, call.body)]
          /\ UNCHANGED <<comments, questions>>
       \/ /\ call.kind = "command" /\ Written("owner", call.req, call.text)
          /\ UNCHANGED <<questions, acks>>
    /\ UNCHANGED <<Local, pass, submit, used>>

-----------------------------------------------------------------------------

PassStep ==
  KeepQuestion \/ ListComments \/ JudgeCommand \/ RecordCommand
  \/ Acknowledge \/ AcknowledgeDeleted

Next ==
  \/ StartPass \/ PassStep \/ Die
  \/ \E r \in Requests : Ask(r) \/ (\E text \in TextsHere : AnswerHere(r, text))
       \/ (\E text \in Texts : CheckSubmit(r, text))
  \/ IssueOver
  \/ \E by \in Authors, r \in Requests, text \in Bodies : Write(by, r, text)
  \/ \E c \in DOMAIN comments : Edit(c)
  \/ PostSubmit \/ Land

Spec == Init /\ [][Next]_vars

\* An Issue that is not over is reconciled again and again; for one that is over only
\* a delivery starts a pass.  Nobody has to write, ask or answer anything.
LiveSpec ==
  /\ Spec
  /\ WF_vars(open /\ StartPass) /\ WF_vars(PassStep)
  /\ WF_vars(Land)

-----------------------------------------------------------------------------
(* Properties. *)

Request == [status : {"none", "pending", "answered", "canceled"},
            answer : Texts \cup {None},
            from : [command : Commands, ver : 0 .. MaxEdits] \cup {None}]
CommandRecord == [by : Authors, req : Requests, text : Bodies, early : BOOLEAN, ver : 0 .. MaxEdits]
Ack == [req : Requests, outcome : Outcomes]

\* Every variable stays in its range.
TypeOK ==
  /\ requests \in [Requests -> Request] /\ open \in BOOLEAN
  /\ Len(comments) <= MaxComments
  /\ \A c \in DOMAIN comments : comments[c] \in CommandRecord \cup {None}
  /\ \A r \in Requests : questions[r] \in Nat
  /\ \A c \in Commands : \A n \in DOMAIN acks[c] : acks[c][n] \in Ack
  /\ pass.pc \in {"idle", "question", "judge", "record", "ack"}

\* An answer that is on record is never replaced, taken back or attributed to another
\* command, whatever this host, a remote terminal and the comments say at the same time
\* (RecordAnswer and its second look under the lock).
AnswerFixed ==
  [][\A r \in Requests : Answered(r) => requests'[r] = requests[r]]_vars

\* A receipt that says accepted is true: the request it names was answered by that very
\* command, so of all the commands for a request at most one is ever told so, also after
\* calls that took effect late and passes that were cut short.
AcceptedIsOnRecord ==
  \A c \in Commands : \A n \in DOMAIN acks[c] :
    acks[c][n].outcome = "accepted" =>
      LET r == acks[c][n].req
      IN Answered(r) /\ requests[r].from # None /\ requests[r].from.command = c

Edited(c) == Listable(c) /\ comments[c].ver > 0

\* Whoever gave the answer on record is told so in the end, with one acknowledgement,
\* although the pass died or failed after the answer was saved and although the command
\* was deleted since (the saved observation and the last loop of reconcileInputIssue),
\* unless the command was edited or the Issue was over first.
AnswerAcknowledged ==
  []<>(\A r \in Requests, c \in Commands :
         requests[r].from = [command |-> c, ver |-> 0]
           => Receipt(r, c) = "accepted" \/ ~open \/ Edited(c))

\* While the Issue is under management its comments settle, again and again: every
\* command has been judged, also one that is late, malformed or for somebody else to
\* give, and a question that is still open has exactly one comment, without which the
\* remote answer command refuses it (reconcileInputIssue and syncManagedComment, whose
\* lost calls are made up for and whose second copies are removed).
ConversationSettles ==
  []<>(open => /\ \A c \in Commands : Listable(c) => acks[c] # <<>>
               /\ \A r \in Requests : Pending(r) => questions[r] = 1)

\* An answer on record from a comment is confirmed by the remote check in the end: "A
\* receipt can still confirm a recorded answer after its source was edited"
\* (internal/adapter/github/input_answer.go, CheckInputAnswer).
RecordedIsConfirmed ==
  []<>(\A r \in Requests :
         requests[r].from # None
           => \/ questions[r] = 1 /\ Receipt(r, requests[r].from.command) = "accepted"
              \/ ~open)
=============================================================================
