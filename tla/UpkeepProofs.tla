----------------------------- MODULE UpkeepProofs -----------------------------
(***************************************************************************)
(* Proofs about the two components beside the issues' life cycles, which   *)
(* share no variable.                                                      *)
(*                                                                         *)
(* IncidentLoop, for any number of fingerprints, signals, runs, failures,  *)
(* crashes and resets: a fingerprint gets a second Issue only after the    *)
(* first is lost, no signal is counted twice, and an Issue is filed on     *)
(* current evidence.                                                       *)
(*                                                                         *)
(* Migration, for any number of repositories, commits, crashes and         *)
(* migrations: the files of a pair belong together, a migration can be     *)
(* taken up, and no work is dropped.                                       *)
(***************************************************************************)
EXTENDS IncidentLoop, Migration, FiniteSetTheorems, TLAPS


-----------------------------------------------------------------------------
(* Incidents: the inductive invariant. *)

\* An episode has these fields; the values that no proof looks at are not typed.
Fields ==
  {"state", "count", "ids", "last", "features", "runs", "life", "ai", "judged", "issue",
   "attempts", "open", "gen", "wait", "issueAttempts", "issueOpen", "issueGen", "issueWait"}

Shaped(e) == DOMAIN e = Fields

\* What an episode counts are signals up to its last, those of its IDs among them, out
\* of the times born.
Counted(e, times) ==
  LET past == {b \in times : b <= e.last} IN
  /\ e.count \in Nat /\ e.last \in Nat
  /\ e.ids \subseteq past
  /\ e.count <= Cardinality(past)

\* Its Issue is one of those of its fingerprint, and while it has none a
\* recommendation is about all it counts.
Sound(e, times, own) ==
  /\ Shaped(e)
  /\ Counted(e, times)
  /\ e.issue \in own \cup {0}
  /\ e.issue = 0 /\ e.ai = "recommend" => e.judged = e.count

IssuesOf(q, f) == {i \in DOMAIN q : q[i].fp = f}

AllSound(episodes, b, q) ==
  /\ episodes = [f \in Fps |-> episodes[f]]
  /\ \A f \in Fps : episodes[f] # None => Sound(episodes[f], b[f], IssuesOf(q, f))

Births == clock \in Nat /\ born \in [Fps -> SUBSET (1..clock)]

GitHubIssues == [fp : Fps, merged : BOOLEAN, indexed : BOOLEAN, lost : BOOLEAN]

Filings == issues \in Seq(GitHubIssues)

\* A signal that belongs to an incident was born for it, and timestamps are unique.
BornFor(s) == s.fp # 0 => s.at \in born[s.fp]

Distinct(ss) == \A s, t \in ss : s.at = t.at => s = t

Dated(ss) == \A s \in ss : s \in Signals /\ s.at <= clock /\ BornFor(s)

Recorded == Dated(signals) /\ Distinct(signals)

\* An event is of a signal, or of an Issue.
EventOk(e) ==
  /\ e.signal.at <= clock /\ BornFor(e.signal)
  /\ e.issue # 0 => e.issue \in DOMAIN issues /\ e.signal.at \in born[issues[e.issue].fp]

StateEvents == [signal : Signals, issue : Nat]

Stored ==
  /\ events \in Seq(StateEvents)
  /\ cursor \in Nat /\ read \in Nat
  /\ \A n \in DOMAIN events : EventOk(events[n])
  /\ \A m, n \in DOMAIN events : events[m].signal.at = events[n].signal.at => m = n

\* One caller holds process.lock.
Alone ==
  /\ phase \in [Callers -> {"idle", "failed", "cursor", "collected", "running", "created", "saved"}]
  /\ \A c, d \in Callers : Holds(c) /\ Holds(d) => c = d

\* A run that looks at its episodes.
RunSound(r, b, q) ==
  /\ r = [todo |-> r.todo, work |-> r.work, circuits |-> r.circuits]
  /\ r.todo \subseteq Fps /\ r.circuits \subseteq Fps
  /\ AllSound(r.work, b, q)
  /\ \A f \in r.todo : r.work[f] # None

\* The holder's episodes while it looks at them, with an Issue just created for the
\* one it looks at.
RunOk ==
  \A c \in Callers : phase[c] \in {"running", "created"} =>
    /\ RunSound(run, born, issues)
    /\ phase[c] = "created" =>
         /\ run.todo # {}
         /\ Fileable(Episode)
         /\ Len(issues) > 0 /\ issues[Len(issues)].fp = Fp

\* The announcements that are saved and not yet recorded have timestamps of their own.
AnnouncedOk ==
  \A c \in Callers : phase[c] = "saved" =>
    /\ Dated(run.circuits) /\ Distinct(run.circuits)
    /\ \A s \in run.circuits :
         /\ \A t \in signals : s.at # t.at
         /\ \A n \in DOMAIN events : s.at # events[n].signal.at

IInv ==
  /\ Births /\ Filings /\ Recorded /\ Stored /\ Alone
  /\ AllSound(saved, born, issues)
  /\ RunOk /\ AnnouncedOk

-----------------------------------------------------------------------------
(* Greatest and least elements, and counting signals. *)

\* A nonempty set of naturals has its minimum in it.
LEMMA Minimum ==
  ASSUME NEW S \in SUBSET Nat, S # {}
  PROVE  Min(S) \in S
<1>1. PICK x \in S : \A y \in S : <<y, x>> \notin OpToRel(<, Nat)
  BY NatLessThanWellFounded, WFMin
<1>2. \A y \in S : ~(y < x)
  BY <1>1, Zenon DEF OpToRel
<1>3. x \in Nat /\ S \subseteq Nat
  OBVIOUS
<1>4. \A y \in S : x <= y
  BY <1>2, <1>3
<1> QED BY <1>4 DEF Min

\* A bounded nonempty set of naturals has its maximum in it: the least distance to the
\* bound.
LEMMA Maximum ==
  ASSUME NEW n \in Nat, NEW S \in SUBSET (0..n), S # {}
  PROVE  Max(S) \in S /\ Max(S) \in Nat /\ \A y \in S : y <= Max(S)
<1> DEFINE D == {n - x : x \in S}
<1>0. \A x \in S : x \in Nat /\ n - x \in Nat
  OBVIOUS
<1>1. D \in SUBSET Nat /\ D # {}
  BY <1>0
<1>2. PICK d \in D : \A y \in D : <<y, d>> \notin OpToRel(<, Nat)
  BY <1>1, NatLessThanWellFounded, WFMin
<1>3. \A y \in D : ~(y < d)
  BY <1>1, <1>2, Zenon DEF OpToRel
<1>4. PICK x \in S : d = n - x
  OBVIOUS
<1>5. ASSUME NEW y \in S PROVE x >= y
  <2>1. n - y \in D
    OBVIOUS
  <2>2. ~(n - y < n - x)
    BY <1>3, <1>4, <2>1
  <2> QED BY <2>2
<1>6. Max(S) \in S /\ \A y \in S : Max(S) >= y
  BY <1>4, <1>5 DEF Max
<1>7. \A y \in S : Max(S) >= y => y <= Max(S)
  BY <1>0, <1>6
<1> QED BY <1>0, <1>6, <1>7

\* The times up to n are finitely many.
LEMMA Finite ==
  ASSUME NEW n \in Nat
  PROVE  IsFiniteSet(1..n)
BY FS_Interval

\* The fingerprints are finitely many numbers, the incidents among them.
LEMMA FpsAre ==
  /\ \A f \in Fps : f \in Nat \ {0}
  /\ IsFiniteSet(Fps) /\ Incidents \subseteq Fps
<1>1. Width \in Nat \ {0} /\ Attention \in Nat
  BY WidthAssumption
<1>2. Width + Attention \in Nat /\ Width <= Width + Attention
  BY <1>1
<1>3. PICK n \in Nat : n = Width + Attention
  BY <1>2
<1>4. IsFiniteSet(1..n)
  BY Finite
<1> QED BY <1>1, <1>2, <1>3, <1>4 DEF Fps, Incidents

\* Signals with timestamps of their own are as many as their timestamps.
LEMMA Timestamps ==
  ASSUME NEW n \in Nat, NEW ss, \A s \in ss : s.at \in 0..n, Distinct(ss)
  PROVE  /\ IsFiniteSet(ss) /\ IsFiniteSet(Ats(ss))
         /\ Ats(ss) \subseteq 0..n
         /\ Cardinality(ss) \in Nat /\ Cardinality(ss) = Cardinality(Ats(ss))
<1> DEFINE g == [s \in ss |-> s.at]
<1>1. Ats(ss) \subseteq 0..n
  BY DEF Ats
<1>2. IsFiniteSet(0..n)
  BY FS_Interval
<1>3. IsFiniteSet(Ats(ss))
  BY <1>1, <1>2, FS_Subset
<1>4. g \in Injection(ss, Ats(ss)) /\ g \in Surjection(ss, Ats(ss))
  BY DEF Ats, Distinct, Injection, Surjection, IsInjective
<1> HIDE DEF g
<1>5. IsFiniteSet(ss) /\ Cardinality(ss) = Cardinality(Ats(ss))
  BY <1>3, <1>4, FS_Injection
<1> QED BY <1>1, <1>3, <1>5, FS_CardinalityType

-----------------------------------------------------------------------------
(* Episodes. *)

\* Everything a proof looks at is the same of both.
Alike(e, o) ==
  /\ Shaped(e)
  /\ e.count = o.count /\ e.ids = o.ids /\ e.last = o.last
  /\ e.ai = o.ai /\ e.judged = o.judged /\ e.issue = o.issue

\* An episode is not the absence of one, and what is like a sound one is sound.
LEMMA Alikes ==
  ASSUME NEW e, NEW o, NEW times, NEW own
  PROVE  /\ Shaped(e) => e # None
         /\ Alike(e, o) /\ Sound(o, times, own) => Sound(e, times, own)
<1>1. ASSUME Shaped(e) PROVE e # None
  <2>1. "state" \in DOMAIN e
    BY <1>1 DEF Shaped, Fields
  <2>2. "state" \notin DOMAIN None
    BY DEF None
  <2> QED BY <2>1, <2>2
<1>2. ASSUME Alike(e, o), Sound(o, times, own) PROVE Sound(e, times, own)
  BY <1>2 DEF Alike, Sound, Counted
<1> QED BY <1>1, <1>2

\* Times only get more, and so do a fingerprint's Issues.
LEMMA SoundGrows ==
  ASSUME NEW n \in Nat, NEW times, NEW later \in SUBSET (1..n), times \subseteq later,
         NEW own, NEW more, own \subseteq more, NEW e, Sound(e, times, own)
  PROVE  Sound(e, later, more)
<1> DEFINE P == {b \in times : b <= e.last}
           Q == {b \in later : b <= e.last}
<1>1. IsFiniteSet(1..n)
  BY Finite
<1>2. IsFiniteSet(Q)
  BY <1>1, FS_Subset
<1>3. P \subseteq Q
  OBVIOUS
<1>4. Cardinality(P) <= Cardinality(Q) /\ Cardinality(P) \in Nat /\ Cardinality(Q) \in Nat
  BY <1>2, <1>3, FS_Subset, FS_CardinalityType
<1>5. e.count \in Nat /\ e.last \in Nat /\ e.ids \subseteq P /\ e.count <= Cardinality(P)
  BY DEF Sound, Counted
<1> HIDE DEF P, Q
<1>6. e.ids \subseteq Q /\ e.count <= Cardinality(Q)
  BY <1>3, <1>4, <1>5
<1>7. Counted(e, later)
  BY <1>5, <1>6 DEF Counted, Q
<1> QED BY <1>7 DEF Sound

\* New budgets change nothing else.
LEMMA RenewedAlike ==
  ASSUME NEW e, Shaped(e)
  PROVE  Alike(Renewed(e), e)
BY DEF Renewed, Alike, Shaped, Fields

\* Counting fresh signals: they are either behind all that was counted, or beside the
\* IDs, which are then all that was counted.
LEMMA Counting ==
  ASSUME NEW n \in Nat, NEW times \in SUBSET (1..n), NEW e, Counted(e, times),
         NEW fresh, fresh # {}, Distinct(fresh), \A s \in fresh : s.at \in times,
         \A s \in fresh :
           s.at \notin e.ids /\ (e.count > Cardinality(e.ids) => s.at > e.last),
         NEW last \in Nat, e.last <= last, \A s \in fresh : s.at <= last
  PROVE  /\ e.count + Cardinality(fresh) \in Nat
         /\ e.count + Cardinality(fresh) <= Cardinality({b \in times : b <= last})
<1> DEFINE P == {b \in times : b <= e.last}
           Q == {b \in times : b <= last}
           A == Ats(fresh)
<1>0. \A b \in times : b \in Nat /\ b \in 0..n
  OBVIOUS
<1>1. IsFiniteSet(1..n)
  BY Finite
<1>2. IsFiniteSet(Q) /\ IsFiniteSet(P)
  BY <1>1, FS_Subset
<1>3. /\ e.count \in Nat /\ e.last \in Nat /\ e.ids \subseteq P
      /\ e.count <= Cardinality(P)
  BY DEF Counted
<1>4. /\ IsFiniteSet(A) /\ Cardinality(fresh) \in Nat /\ Cardinality(fresh) = Cardinality(A)
  <2>1. \A s \in fresh : s.at \in 0..n
    BY <1>0
  <2> QED BY <2>1, Timestamps
<1>5. A \subseteq Q /\ P \subseteq Q
  <2>1. \A b \in times : b <= e.last => b <= last
    BY <1>0, <1>3
  <2>2. P \subseteq Q
    BY <2>1
  <2>3. A \subseteq Q
    BY DEF Ats
  <2> QED BY <2>2, <2>3
<1>6. /\ \A a \in A : a \notin e.ids
      /\ e.count > Cardinality(e.ids) => \A a \in A : a > e.last
      /\ \A a \in A : a \in Nat
  BY <1>0 DEF Ats
<1>7. \A p \in P : p \in Nat /\ p <= e.last
  BY <1>0
<1> HIDE DEF P, Q, A
<1>8. ASSUME NEW T \in SUBSET P, T \cap A = {}, e.count <= Cardinality(T)
      PROVE  e.count + Cardinality(A) <= Cardinality(Q)
  <2>1. IsFiniteSet(T)
    BY <1>2, FS_Subset
  <2>2. T \cup A \subseteq Q
    BY <1>5
  <2>3. IsFiniteSet(T \cup A) /\ Cardinality(T \cup A) <= Cardinality(Q)
    BY <1>2, <2>2, FS_Subset
  <2>4. Cardinality(T \cup A) = Cardinality(T) + Cardinality(A) - Cardinality(T \cap A)
    BY <1>4, <2>1, FS_Union
  <2>5. Cardinality(T \cap A) = 0
    BY <1>8, FS_EmptySet
  <2>6. Cardinality(T) \in Nat /\ Cardinality(A) \in Nat /\ Cardinality(Q) \in Nat
    BY <1>2, <1>4, <2>1, FS_CardinalityType
  <2>7. Cardinality(T \cup A) = Cardinality(T) + Cardinality(A)
    BY <2>4, <2>5, <2>6
  <2> QED BY <1>3, <1>8, <2>3, <2>6, <2>7
<1>9. CASE e.count > Cardinality(e.ids)
  <2>1. P \cap A = {}
    BY <1>3, <1>6, <1>7, <1>9
  <2> QED BY <1>3, <1>4, <1>8, <2>1 DEF Q
<1>10. CASE ~(e.count > Cardinality(e.ids))
  <2>1. IsFiniteSet(e.ids)
    BY <1>2, <1>3, FS_Subset
  <2>2. Cardinality(e.ids) \in Nat
    BY <2>1, FS_CardinalityType
  <2>3. e.count <= Cardinality(e.ids)
    BY <1>3, <1>10, <2>2
  <2>4. e.ids \cap A = {}
    BY <1>6
  <2> QED BY <1>3, <1>4, <1>8, <2>3, <2>4 DEF Q
<1> QED BY <1>9, <1>10

\* Signals of one fingerprint, born at times that are all up to n.
OfTimes(ss, times) == Distinct(ss) /\ \A s \in ss : s.at \in times

\* A new episode counts its signals, and is not judged.
LEMMA BuildSound ==
  ASSUME NEW n \in Nat, NEW times \in SUBSET (1..n), NEW ss, ss # {}, OfTimes(ss, times),
         NEW own
  PROVE  /\ Sound(BuildEpisode(ss), times, own)
         /\ BuildEpisode(ss).last \in Nat /\ \A s \in ss : s.at <= BuildEpisode(ss).last
<1> DEFINE E == BuildEpisode(ss)
           P == {b \in times : b <= Max(Ats(ss))}
<1>0. \A b \in times : b \in Nat /\ b \in 0..n
  OBVIOUS
<1>1. \A s \in ss : s.at \in 0..n
  BY <1>0 DEF OfTimes
<1>2. /\ Cardinality(ss) \in Nat /\ Cardinality(ss) = Cardinality(Ats(ss))
      /\ Ats(ss) \in SUBSET (0..n) /\ IsFiniteSet(Ats(ss))
  BY <1>1, Timestamps DEF OfTimes
<1>3. Ats(ss) # {}
  BY DEF Ats
<1>4. Max(Ats(ss)) \in Nat /\ \A a \in Ats(ss) : a <= Max(Ats(ss))
  BY <1>2, <1>3, Maximum
<1>5. Ats(ss) \subseteq P
  BY <1>4 DEF OfTimes, Ats
<1>6. IsFiniteSet(P)
  <2>1. IsFiniteSet(1..n)
    BY Finite
  <2>2. P \subseteq times
    OBVIOUS
  <2> QED BY <2>1, <2>2, FS_Subset
<1>7. Cardinality(ss) <= Cardinality(P)
  BY <1>2, <1>5, <1>6, FS_Subset
<1>8. /\ E.count = Cardinality(ss) /\ E.ids = Bounded(Ats(ss)) /\ E.last = Max(Ats(ss))
      /\ E.ai = "none" /\ E.issue = 0 /\ Shaped(E)
  BY DEF BuildEpisode, Shaped, Fields
<1>9. Bounded(Ats(ss)) \subseteq Ats(ss)
  BY DEF Bounded
<1> HIDE DEF E
<1>10. Counted(E, times)
  BY <1>2, <1>4, <1>5, <1>7, <1>8, <1>9 DEF Counted
<1>11. \A s \in ss : s.at <= E.last
  BY <1>4, <1>8 DEF Ats
<1>12. Sound(E, times, own)
  BY <1>8, <1>10 DEF Sound
<1> QED BY <1>4, <1>8, <1>11, <1>12 DEF E

\* An episode that counts fresh signals forgets a verdict that has led to no Issue.
LEMMA MergeSound ==
  ASSUME NEW n \in Nat, NEW times \in SUBSET (1..n), NEW own, NEW old, Sound(old, times, own),
         NEW fresh, fresh # {}, OfTimes(fresh, times),
         \A s \in fresh :
           s.at \notin old.ids /\ (old.count > Cardinality(old.ids) => s.at > old.last)
  PROVE  Sound(MergeEpisode(old, fresh), times, own)
<1> DEFINE delta == BuildEpisode(fresh)
           runs == old.runs \cup delta.runs
           features == old.features \cup Features(fresh, runs)
           life == Max({old.life, delta.life})
           changed == Classify(features) # Class(old)
           last == Max({old.last, delta.last})
           merged ==
             [old EXCEPT !.count = @ + Cardinality(fresh),
                         !.ids = Bounded(@ \cup Ats(fresh)),
                         !.last = Max({@, delta.last}),
                         !.features = features, !.runs = runs, !.life = life,
                         !.state = MergedState(old, delta, life, features),
                         !.ai = Verdict(old, changed)]
<1>1. MergeEpisode(old, fresh) = IF changed THEN Renewed(merged) ELSE merged
  BY DEF MergeEpisode
<1>2. /\ merged.count = old.count + Cardinality(fresh)
      /\ merged.ids = Bounded(old.ids \cup Ats(fresh)) /\ merged.last = last
      /\ merged.ai = Verdict(old, changed)
      /\ merged.issue = old.issue /\ merged.judged = old.judged
      /\ Shaped(merged)
  <2>1. DOMAIN old = Fields
    BY DEF Sound, Shaped
  <2> HIDE DEF delta, runs, features, life, changed
  <2> QED BY <2>1 DEF Shaped, Fields
<1>3. delta.last \in Nat /\ \A s \in fresh : s.at <= delta.last
  BY BuildSound
<1> HIDE DEF delta, merged
<1>4. old.count \in Nat /\ old.last \in Nat /\ \A i \in old.ids : i \in times /\ i <= old.last
  BY DEF Sound, Counted
<1>5. last \in Nat /\ old.last <= last /\ delta.last <= last
  <2>1. \E m \in Nat : old.last <= m /\ delta.last <= m
    <3>1. old.last <= old.last + delta.last /\ delta.last <= old.last + delta.last
      BY <1>3, <1>4
    <3> QED BY <1>3, <1>4, <3>1
  <2>2. PICK m \in Nat : old.last <= m /\ delta.last <= m
    BY <2>1
  <2>3. {old.last, delta.last} \in SUBSET (0..m)
    BY <1>3, <1>4, <2>2
  <2> QED BY <2>3, Maximum
<1> HIDE DEF last
<1>6. \A b \in times : b \in Nat
  OBVIOUS
<1>7. \A s \in fresh : s.at <= last
  <2>1. \A s \in fresh : s.at \in Nat
    BY <1>6 DEF OfTimes
  <2> QED BY <1>3, <1>5, <2>1
<1>8. /\ old.count + Cardinality(fresh) \in Nat
      /\ old.count + Cardinality(fresh) <= Cardinality({b \in times : b <= last})
  <2>1. Counted(old, times) /\ Distinct(fresh) /\ \A s \in fresh : s.at \in times
    BY DEF Sound, OfTimes
  <2> QED BY <1>5, <1>7, <2>1, Counting
<1>9. merged.ids \subseteq {b \in times : b <= last}
  <2>1. \A i \in old.ids : i \in times /\ i <= last
    <3>1. \A i \in old.ids : i \in times /\ i \in Nat /\ i <= old.last
      BY <1>4, <1>6
    <3> QED BY <1>4, <1>5, <3>1
  <2>2. \A i \in Ats(fresh) : i \in times /\ i <= last
    BY <1>7 DEF Ats, OfTimes
  <2> QED BY <1>2, <2>1, <2>2 DEF Bounded
<1>10. Counted(merged, times)
  BY <1>2, <1>5, <1>8, <1>9 DEF Counted
<1>11. merged.issue = 0 => merged.ai = "none"
  BY <1>2 DEF Verdict
<1>12. Sound(merged, times, own)
  BY <1>2, <1>10, <1>11 DEF Sound
<1>13. Sound(Renewed(merged), times, own)
  BY <1>12, RenewedAlike, Alikes DEF Sound
<1> QED BY <1>1, <1>12, <1>13

\* Building turns sound episodes and the signals born for them into sound ones.
LEMMA BuildAllSound ==
  ASSUME NEW n \in Nat, NEW b \in [Fps -> SUBSET (1..n)], NEW q, NEW episodes,
         AllSound(episodes, b, q),
         NEW ss, Distinct(ss), \A s \in ss : s.fp \in Fps => s.at \in b[s.fp]
  PROVE  AllSound(BuildEpisodes(ss, episodes), b, q)
<1>1. DOMAIN episodes = Fps
  BY DEF AllSound
<1>2. ASSUME NEW f \in Fps, BuildOf({s \in ss : s.fp = f}, episodes[f]) # None
      PROVE  Sound(BuildOf({s \in ss : s.fp = f}, episodes[f]), b[f], IssuesOf(q, f))
  <2> DEFINE g == {s \in ss : s.fp = f}
             old == episodes[f]
             u == Unseen(g, old)
  <2>1. OfTimes(g, b[f]) /\ b[f] \in SUBSET (1..n)
    BY DEF OfTimes, Distinct
  <2>2. old # None => Sound(old, b[f], IssuesOf(q, f))
    BY DEF AllSound
  <2> HIDE DEF g, old
  <2>3. CASE old = None
    <3>1. g # {} /\ BuildOf(g, old) = BuildEpisode(g)
      BY <1>2, <2>3 DEF BuildOf, g, old
    <3> QED BY <2>1, <3>1, BuildSound DEF g, old
  <2>4. CASE old # None /\ u = {}
    BY <2>2, <2>4 DEF BuildOf, g, old
  <2>5. CASE old # None /\ u # {}
    <3>1. BuildOf(g, old) = MergeEpisode(old, u)
      BY <2>5 DEF BuildOf
    <3>2. /\ OfTimes(u, b[f])
          /\ \A s \in u :
               s.at \notin old.ids /\ (old.count > Cardinality(old.ids) => s.at > old.last)
      BY <2>1 DEF Unseen, OfTimes, Distinct
    <3> HIDE DEF u
    <3>3. Sound(MergeEpisode(old, u), b[f], IssuesOf(q, f))
      BY <2>1, <2>2, <2>5, <3>2, MergeSound
    <3> QED BY <3>1, <3>3 DEF g, old
  <2> QED BY <2>3, <2>4, <2>5
<1> QED BY <1>1, <1>2 DEF AllSound, BuildEpisodes

-----------------------------------------------------------------------------
(* What happens beside a run. *)

\* Times and Issues only get more.
LEMMA AllSoundGrows ==
  ASSUME NEW episodes, AllSound(episodes, born, issues), Births',
         \A f \in Fps : born[f] \subseteq born'[f],
         \A f \in Fps : IssuesOf(issues, f) \subseteq IssuesOf(issues', f)
  PROVE  AllSound(episodes, born', issues')
<1>1. ASSUME NEW f \in Fps, episodes[f] # None
      PROVE  Sound(episodes[f], born'[f], IssuesOf(issues', f))
  <2>1. clock' \in Nat /\ born'[f] \in SUBSET (1..clock')
    BY DEF Births
  <2>2. Sound(episodes[f], born[f], IssuesOf(issues, f))
    BY <1>1 DEF AllSound
  <2> HIDE DEF Births
  <2> QED BY <2>1, <2>2, SoundGrows
<1> QED BY <1>1 DEF AllSound

\* The Issues are those that were there, of the same fingerprints.
SameIssues ==
  /\ issues' \in Seq(GitHubIssues) /\ Len(issues') = Len(issues)
  /\ DOMAIN issues' = DOMAIN issues
  /\ \A i \in DOMAIN issues : issues'[i].fp = issues[i].fp

\* Unchanged Issues are the same, and so are those that are told anew one by one.
LEMMA Retold ==
  ASSUME IInv
  PROVE  /\ UNCHANGED issues => SameIssues
         /\ /\ issues' = [i \in DOMAIN issues |-> issues'[i]]
            /\ \A i \in DOMAIN issues :
                 issues'[i] \in GitHubIssues /\ issues'[i].fp = issues[i].fp
            => SameIssues
<1>1. issues \in Seq(GitHubIssues)
  BY DEF IInv, Filings
<1>2. DOMAIN issues = 1..Len(issues) /\ Len(issues) \in Nat
  BY <1>1
<1>3. UNCHANGED issues => SameIssues
  BY <1>1 DEF SameIssues
<1>4. ASSUME issues' = [i \in DOMAIN issues |-> issues'[i]],
             \A i \in DOMAIN issues :
               issues'[i] \in GitHubIssues /\ issues'[i].fp = issues[i].fp
      PROVE  SameIssues
  <2>1. PICK q, n : q = issues' /\ n = Len(issues) /\ n \in Nat
    BY <1>2
  <2>2. q \in [1..n -> GitHubIssues]
    BY <1>2, <1>4, <2>1
  <2>3. q \in Seq(GitHubIssues) /\ Len(q) = n
    BY <2>1, <2>2
  <2> QED BY <1>4, <2>1, <2>3 DEF SameIssues
<1> QED BY <1>3, <1>4

\* Then a fingerprint has the same ones, and sound episodes stay sound.
LEMMA StillSound ==
  ASSUME SameIssues, NEW b
  PROVE  /\ \A f : IssuesOf(issues', f) = IssuesOf(issues, f)
         /\ \A x : AllSound(x, b, issues) => AllSound(x, b, issues')
         /\ \A r : RunSound(r, b, issues) => RunSound(r, b, issues')
<1>1. \A f : IssuesOf(issues', f) = IssuesOf(issues, f)
  BY DEF SameIssues, IssuesOf
<1>2. \A x : AllSound(x, b, issues) => AllSound(x, b, issues')
  BY <1>1 DEF AllSound
<1> QED BY <1>1, <1>2 DEF RunSound

\* What happens outside the automation leaves a run its episodes.
LEMMA Beside ==
  ASSUME IInv, Births', clock <= clock', \A f \in Fps : born[f] \subseteq born'[f],
         SameIssues, UNCHANGED run, \A c \in Callers : Holds(c)' => phase'[c] = phase[c]
  PROVE  /\ Filings' /\ RunOk' /\ AllSound(saved, born', issues')
         /\ \A s \in Signals :
              s.at <= clock /\ BornFor(s) => s.at <= clock' /\ BornFor(s)'
         /\ \A e \in StateEvents : EventOk(e) => EventOk(e)'
<1>1. DOMAIN issues' = DOMAIN issues /\ \A i \in DOMAIN issues : issues[i].fp \in Fps
  <2>1. \A i \in DOMAIN issues : issues[i] \in GitHubIssues
    BY DEF IInv, Filings
  <2> QED BY <2>1 DEF GitHubIssues, SameIssues
<1>2. Filings'
  BY DEF SameIssues, Filings
<1>3. \A f \in Fps : IssuesOf(issues, f) \subseteq IssuesOf(issues', f)
  BY DEF IssuesOf, SameIssues
<1>4. AllSound(saved, born', issues')
  BY <1>3, AllSoundGrows DEF IInv
<1>5. RunSound(run, born, issues) => RunSound(run', born', issues')
  BY <1>3, AllSoundGrows DEF RunSound
<1>6. ASSUME NEW c \in Callers, phase'[c] = "created", phase[c] = "created"
      PROVE  /\ run'.todo # {} /\ Fileable(Episode)'
             /\ Len(issues') > 0 /\ issues'[Len(issues')].fp = Fp'
  <2>1. /\ run.todo # {} /\ Fileable(Episode)
        /\ Len(issues) > 0 /\ issues[Len(issues)].fp = Fp
    BY <1>6 DEF IInv, RunOk
  <2>2. Len(issues) \in DOMAIN issues
    BY <2>1 DEF IInv, Filings
  <2>3. Episode' = Episode /\ Fp' = Fp
    BY DEF Episode, Fp
  <2> QED BY <2>1, <2>2, <2>3 DEF Fileable, Handled, Eligible, SameIssues
<1>7. RunOk'
  BY <1>5, <1>6 DEF IInv, RunOk, Holds
<1>8. ASSUME NEW s \in Signals, s.at <= clock, BornFor(s) PROVE s.at <= clock' /\ BornFor(s)'
  BY <1>8 DEF IInv, Births, Signals, BornFor
<1>9. ASSUME NEW e \in StateEvents, EventOk(e) PROVE EventOk(e)'
  <2>1. e.signal \in Signals
    BY DEF StateEvents
  <2> QED BY <1>1, <1>8, <1>9, <2>1 DEF EventOk, SameIssues
<1> QED BY <1>2, <1>4, <1>7, <1>8, <1>9

\* Nobody else becomes a holder.
LEMMA StillAlone ==
  ASSUME IInv, \A c \in Callers : Holds(c)' => Holds(c),
         phase' \in [Callers -> {"idle", "failed", "cursor", "collected", "running", "created",
                                 "saved"}]
  PROVE  Alone'
BY DEF IInv, Alone

\* Something happens to an incident at the next time.
LEMMA Occurring ==
  ASSUME IInv, NEW f \in Fps, Occurs(f)
  PROVE  /\ Births' /\ clock' = clock + 1 /\ clock \in Nat /\ clock <= clock'
         /\ \A g \in Fps : born[g] \subseteq born'[g]
         /\ clock + 1 \in born'[f]
BY DEF IInv, Births, Occurs

\* The signal of that time.
LEMMA NewSignalIs ==
  ASSUME IInv, NEW f \in Incidents, NEW kind \in Observed \cup Committed, NEW r \in NextRuns(f)
  PROVE  NewSignal(f, kind, r) \in Signals /\ NewSignal(f, kind, r).at = clock + 1
         /\ NewSignal(f, kind, r).fp = f /\ f \in Fps
<1>1. clock + 1 \in Nat /\ f \in Fps
  BY FpsAre DEF IInv, Births
<1>2. kind \in Kinds /\ r \in RunIDs
  BY CallersAssumption DEF NextRuns
<1> HIDE DEF Kinds, Fps
<1>3. /\ NewSignal(f, kind, r) = [at |-> clock + 1, fp |-> f, kind |-> kind, run |-> r]
      /\ NewSignal(f, kind, r) \in Signals
  BY <1>1, <1>2 DEF NewSignal, Signals
<1> QED BY <1>1, <1>3

\* What is recorded or stored happened by now.
LEMMA AllDated ==
  ASSUME IInv
  PROVE  /\ \A s \in signals : s \in Signals /\ s.at <= clock /\ s.at \in Nat
         /\ \A n \in DOMAIN events :
              /\ events[n] \in StateEvents /\ events[n].signal \in Signals
              /\ events[n].signal.at <= clock /\ events[n].signal.at \in Nat
         /\ \A c \in Callers : phase[c] = "saved" =>
              \A s \in run.circuits : s \in Signals /\ s.at <= clock /\ s.at \in Nat
<1>1. \A s \in Signals : s.at \in Nat
  BY DEF Signals
<1>2. \A n \in DOMAIN events : events[n] \in StateEvents
  <2>1. events \in Seq(StateEvents)
    BY DEF IInv, Stored
  <2> QED BY <2>1
<1>3. \A e \in StateEvents : e.signal \in Signals
  BY DEF StateEvents
<1> QED BY <1>1, <1>2, <1>3 DEF IInv, Recorded, Dated, Stored, EventOk, AnnouncedOk

\* The scheduler records a signal.
LEMMA RecordStep ==
  ASSUME IInv, NEW f \in Incidents, NEW kind \in Observed, NEW r \in NextRuns(f),
         Record(f, kind, r)
  PROVE  IInv'
<1>0. PICK new : new = NewSignal(f, kind, r)
  OBVIOUS
<1>1. /\ new \in Signals /\ new.at = clock + 1 /\ new.fp = f /\ f \in Fps
      /\ Occurs(f) /\ signals' = signals \cup {new}
      /\ UNCHANGED <<events, cursor, read, saved, issues, phase, run>>
  BY <1>0, NewSignalIs DEF Record
<1>2. /\ Births' /\ clock' = clock + 1 /\ clock \in Nat /\ clock <= clock'
      /\ \A g \in Fps : born[g] \subseteq born'[g]
      /\ clock + 1 \in born'[f]
  BY <1>1, Occurring
<1>3. Alone'
  BY <1>1, StillAlone DEF IInv, Alone, Holds
<1>4. /\ Filings' /\ RunOk' /\ AllSound(saved, born', issues')
      /\ \A s \in Signals :
           s.at <= clock /\ BornFor(s) => s.at <= clock' /\ BornFor(s)'
      /\ \A e \in StateEvents : EventOk(e) => EventOk(e)'
  BY <1>1, <1>2, Retold, Beside
<1>5. BornFor(new)' /\ new.at <= clock'
  BY <1>1, <1>2 DEF BornFor
<1>6. Recorded'
  <2>1. \A s \in signals : s.at # new.at
    BY <1>1, <1>2, AllDated
  <2> QED BY <1>1, <1>4, <1>5, <2>1 DEF IInv, Recorded, Dated, Distinct
<1>7. Stored'
  BY <1>1, <1>4, AllDated DEF IInv, Stored
<1>8. AnnouncedOk'
  <2>1. ASSUME NEW c \in Callers, phase[c] = "saved"
        PROVE  \A s \in run.circuits : s.at # new.at
    BY <1>1, <1>2, <2>1, AllDated
  <2> QED BY <1>1, <1>4, <2>1 DEF IInv, AnnouncedOk, Dated
<1> QED BY <1>1, <1>2, <1>3, <1>4, <1>6, <1>7, <1>8 DEF IInv

\* An event is appended with the next time.
LEMMA EventStep ==
  ASSUME IInv, Births', clock' = clock + 1, \A f \in Fps : born[f] \subseteq born'[f],
         NEW e \in StateEvents, EventOk(e)', e.signal.at = clock + 1,
         events' = Append(events, e), UNCHANGED <<cursor, read, signals, saved, phase, run>>,
         SameIssues
  PROVE  IInv'
<1>1. clock \in Nat /\ clock <= clock'
  BY DEF IInv, Births
<1>2. Alone'
  BY StillAlone DEF IInv, Alone, Holds
<1>3. /\ Filings' /\ RunOk' /\ AllSound(saved, born', issues')
      /\ \A s \in Signals :
           s.at <= clock /\ BornFor(s) => s.at <= clock' /\ BornFor(s)'
      /\ \A d \in StateEvents : EventOk(d) => EventOk(d)'
  BY <1>1, Beside
<1>4. Recorded'
  BY <1>3 DEF IInv, Recorded, Dated, Distinct
<1>5. /\ events' \in Seq(StateEvents)
      /\ DOMAIN events' = DOMAIN events \cup {Len(events) + 1}
      /\ \A n \in DOMAIN events : events'[n] = events[n]
      /\ events'[Len(events) + 1] = e
  BY DEF IInv, Stored
<1>6. \A n \in DOMAIN events : events[n].signal.at # clock + 1
  BY <1>1, AllDated
<1>7. Stored'
  <2>1. \A d \in {events'[n] : n \in DOMAIN events'} : EventOk(d)'
    BY <1>3, <1>5, AllDated DEF IInv, Stored
  <2>2. \A m, n \in DOMAIN events' :
          events'[m].signal.at = events'[n].signal.at => m = n
    BY <1>5, <1>6 DEF IInv, Stored
  <2> QED BY <1>5, <2>1, <2>2 DEF IInv, Stored, EventOk
<1>8. AnnouncedOk'
  <2>1. ASSUME NEW c \in Callers, phase[c] = "saved", NEW s \in run.circuits
        PROVE  \A n \in DOMAIN events' : s.at # events'[n].signal.at
    <3>1. s.at # clock + 1
      BY <1>1, <2>1, AllDated
    <3> QED BY <1>5, <2>1, <3>1 DEF IInv, AnnouncedOk
  <2> QED BY <1>3, <2>1 DEF IInv, AnnouncedOk, Dated
<1> QED BY <1>2, <1>3, <1>4, <1>7, <1>8 DEF IInv

\* The state store commits one.
LEMMA CommitStep ==
  ASSUME IInv, NEW f \in Incidents, NEW kind \in Committed, NEW r \in NextRuns(f),
         CommitEvent(f, kind, r)
  PROVE  IInv'
<1>0. PICK new : new = NewSignal(f, kind, r)
  OBVIOUS
<1> DEFINE e == [signal |-> new, issue |-> 0]
<1>1. /\ new \in Signals /\ new.at = clock + 1 /\ new.fp = f /\ f \in Fps
      /\ Occurs(f) /\ events' = Append(events, e)
      /\ UNCHANGED <<cursor, read, signals, saved, issues, phase, run>>
  BY <1>0, NewSignalIs DEF CommitEvent
<1>2. /\ Births' /\ clock' = clock + 1 /\ clock \in Nat
      /\ \A g \in Fps : born[g] \subseteq born'[g]
      /\ clock + 1 \in born'[f]
  BY <1>1, Occurring
<1>3. e \in StateEvents /\ e.signal.at = clock + 1 /\ EventOk(e)'
  BY <1>1, <1>2 DEF EventOk, BornFor, StateEvents
<1> HIDE DEF e
<1>4. SameIssues
  BY <1>1, Retold
<1> QED BY <1>1, <1>2, <1>3, <1>4, EventStep

\* An Issue with one of its marks set stays an Issue of its fingerprint.
LEMMA MarkedIs ==
  ASSUME IInv, NEW i \in DOMAIN issues,
         \/ issues' = [issues EXCEPT ![i].merged = TRUE]
         \/ issues' = [issues EXCEPT ![i].indexed = TRUE]
  PROVE  /\ SameIssues
         /\ \A j \in DOMAIN issues :
              /\ issues'[j].lost = issues[j].lost
              /\ issues[j].indexed => issues'[j].indexed
<1>1. \A j \in DOMAIN issues : issues[j] \in GitHubIssues
  BY DEF IInv, Filings
<1>2. PICK t \in BOOLEAN : t = TRUE
  OBVIOUS
<1>3. \/ issues' = [issues EXCEPT ![i] = [issues[i] EXCEPT !.merged = t]]
      \/ issues' = [issues EXCEPT ![i] = [issues[i] EXCEPT !.indexed = t]]
  BY <1>2
<1>4. ASSUME NEW x \in GitHubIssues
      PROVE  /\ [x EXCEPT !.merged = t] \in GitHubIssues
             /\ [x EXCEPT !.merged = t].fp = x.fp
             /\ [x EXCEPT !.merged = t].lost = x.lost
             /\ [x EXCEPT !.merged = t].indexed = x.indexed
             /\ [x EXCEPT !.indexed = t] \in GitHubIssues
             /\ [x EXCEPT !.indexed = t].fp = x.fp
             /\ [x EXCEPT !.indexed = t].lost = x.lost
             /\ [x EXCEPT !.indexed = t].indexed = t
  BY DEF GitHubIssues
<1>5. PICK x : /\ issues' = [issues EXCEPT ![i] = x]
               /\ x \in GitHubIssues /\ x.fp = issues[i].fp /\ x.lost = issues[i].lost
               /\ x.indexed = issues[i].indexed \/ x.indexed = t
  BY <1>1, <1>3, <1>4
<1>6. issues' = [j \in DOMAIN issues |-> IF j = i THEN x ELSE issues[j]]
  BY <1>5
<1>7. SameIssues
  BY <1>1, <1>5, <1>6, Retold
<1>8. ASSUME NEW j \in DOMAIN issues
      PROVE  issues'[j].lost = issues[j].lost /\ (issues[j].indexed => issues'[j].indexed)
  BY <1>2, <1>5, <1>6
<1> QED BY <1>7, <1>8

\* The pull request of an Issue is merged.
LEMMA MergeStep ==
  ASSUME IInv, NEW i \in DOMAIN issues, MergePullRequest(i)
  PROVE  IInv'
<1>0. PICK new : new = [at |-> clock + 1, fp |-> 0, kind |-> "merged", run |-> 0]
  OBVIOUS
<1> DEFINE e == [signal |-> new, issue |-> i]
<1>1. issues \in Seq(GitHubIssues) /\ i \in Nat /\ issues[i] \in GitHubIssues
  BY DEF IInv, Filings
<1>2. issues[i].fp \in Fps
  BY <1>1 DEF GitHubIssues
<1>3. /\ Occurs(issues[i].fp) /\ events' = Append(events, e)
      /\ issues' = [issues EXCEPT ![i].merged = TRUE]
      /\ UNCHANGED <<cursor, read, signals, saved, phase, run>>
  BY <1>0 DEF MergePullRequest
<1>4. /\ Births' /\ clock' = clock + 1 /\ clock \in Nat
      /\ \A g \in Fps : born[g] \subseteq born'[g]
      /\ clock + 1 \in born'[issues[i].fp]
  BY <1>2, <1>3, Occurring
<1>5. SameIssues
  BY <1>3, MarkedIs
<1>6. new \in Signals
  <2>1. "merged" \in Kinds
    BY DEF Kinds, FeaturesOf
  <2> HIDE DEF Kinds
  <2>2. clock + 1 \in Nat
    BY <1>4
  <2> QED BY <1>0, <2>1, <2>2 DEF Signals
<1>7. EventOk(e)'
  <2>1. new.at = clock + 1 /\ new.fp = 0
    BY <1>0
  <2>2. issues'[i].fp = issues[i].fp /\ i \in DOMAIN issues'
    BY <1>5 DEF SameIssues
  <2> QED BY <1>4, <2>1, <2>2 DEF EventOk, BornFor
<1>8. e \in StateEvents /\ e.signal.at = clock + 1
  BY <1>0, <1>1, <1>6 DEF StateEvents
<1> HIDE DEF e
<1> QED BY <1>3, <1>4, <1>5, <1>7, <1>8, EventStep

\* A step that changes no episode on disk and no signal.
LEMMA PlainStep ==
  ASSUME IInv, UNCHANGED <<clock, events, signals, saved, born>>, SameIssues,
         cursor' \in Nat, read' \in Nat, Alone', RunOk', AnnouncedOk'
  PROVE  IInv'
<1>1. Births' /\ Filings' /\ Recorded'
  BY DEF IInv, Births, Filings, SameIssues, Recorded, Dated, Distinct, BornFor
<1>2. AllSound(saved, born, issues)'
  BY StillSound DEF IInv
<1>3. Stored'
  BY DEF IInv, Stored, EventOk, BornFor, SameIssues
<1> QED BY <1>1, <1>2, <1>3 DEF IInv

\* A caller that holds nothing moves on and leaves the run alone.
LEMMA Idling ==
  ASSUME IInv, NEW c \in Callers, ~Holds(c), NEW p \in {"idle", "failed", "cursor", "collected"},
         phase' = [phase EXCEPT ![c] = p], UNCHANGED run
  PROVE  /\ Alone' /\ \A d \in Callers : Holds(d)' => phase'[d] = phase[d]
<1>1. /\ phase' \in [Callers -> {"idle", "failed", "cursor", "collected", "running", "created",
                                "saved"}]
      /\ \A d \in Callers : Holds(d)' => phase'[d] = phase[d] /\ Holds(d)
  BY DEF IInv, Alone, Holds
<1> QED BY <1>1, StillAlone

\* It changes nothing else.
LEMMA IdleStep ==
  ASSUME IInv, NEW c \in Callers, ~Holds(c), NEW p \in {"idle", "failed", "cursor", "collected"},
         phase' = [phase EXCEPT ![c] = p],
         UNCHANGED <<clock, events, signals, saved, issues, born, run>>,
         cursor' \in Nat, read' \in Nat
  PROVE  IInv'
<1>1. Alone' /\ \A d \in Callers : Holds(d)' => phase'[d] = phase[d]
  BY Idling
<1>2. RunOk' /\ AnnouncedOk'
  BY <1>1 DEF IInv, RunOk, AnnouncedOk, Holds, Episode, Fp, Fileable, Handled, Eligible, Dated,
              Distinct, BornFor
<1> QED BY <1>1, <1>2, Retold, PlainStep

\* The search index takes up an Issue.
LEMMA IndexStep ==
  ASSUME IInv, NEW i \in DOMAIN issues, Index(i)
  PROVE  IInv'
<1>1. UNCHANGED <<clock, events, cursor, read, signals, saved, phase, run, born>> /\ SameIssues
  BY MarkedIs DEF Index
<1>2. Births' /\ clock <= clock' /\ \A f \in Fps : born[f] \subseteq born'[f]
  BY <1>1 DEF IInv, Births
<1>3. RunOk'
  BY <1>1, <1>2, Beside DEF Holds
<1>4. Alone' /\ AnnouncedOk' /\ cursor' \in Nat /\ read' \in Nat
  BY <1>1 DEF IInv, Alone, Holds, AnnouncedOk, Dated, Distinct, BornFor, Stored
<1> QED BY <1>1, <1>3, <1>4, PlainStep

\* An event becomes a signal of its own time, and of the fingerprint whose saved episode
\* names its Issue.
LEMMA LinkedIs ==
  ASSUME IInv, NEW n \in DOMAIN events
  PROVE  /\ Linked(events[n]) \in Signals /\ Linked(events[n]).at = events[n].signal.at
         /\ Linked(events[n]).at <= clock /\ BornFor(Linked(events[n]))
<1> DEFINE e == events[n]
           Named(f) == saved[f] # None /\ saved[f].issue = e.issue
<1>1. e \in StateEvents /\ e.signal \in Signals /\ e.signal.at <= clock /\ EventOk(e)
  BY AllDated DEF IInv, Stored
<1>2. CASE ~ \E f \in Fps : e.issue # 0 /\ Named(f)
  <2>1. Linked(e) = e.signal
    BY <1>2 DEF Linked
  <2> QED BY <1>1, <2>1 DEF EventOk
<1>3. CASE \E f \in Fps : e.issue # 0 /\ Named(f)
  <2>1. PICK f : f = CHOOSE g \in Fps : saved[g] # None /\ saved[g].issue = e.issue
    OBVIOUS
  <2>2. f \in Fps /\ Named(f) /\ e.issue # 0
    BY <1>3, <2>1
  <2>3. Linked(e) = [e.signal EXCEPT !.fp = f]
    BY <1>3, <2>1 DEF Linked
  <2>4. Sound(saved[f], born[f], IssuesOf(issues, f))
    BY <2>2 DEF IInv, AllSound
  <2>5. issues[e.issue].fp = f
    BY <2>2, <2>4 DEF Sound, IssuesOf
  <2>6. e.signal.at \in born[f]
    BY <1>1, <2>2, <2>5 DEF EventOk
  <2>7. /\ Linked(e) \in Signals /\ Linked(e).at = e.signal.at /\ Linked(e).fp = f
    BY <1>1, <2>2, <2>3 DEF Signals
  <2> QED BY <1>1, <2>6, <2>7 DEF BornFor
<1> QED BY <1>2, <1>3

\* The batch has the times of its events.
LEMMA BatchIs ==
  ASSUME IInv
  PROVE  /\ Dated(Batch) /\ Distinct(Batch)
         /\ \A s \in Batch : \E n \in DOMAIN events : s.at = events[n].signal.at
<1>1. \A n \in cursor + 1..Len(events) : n \in DOMAIN events
  <2>1. DOMAIN events = 1..Len(events) /\ Len(events) \in Nat /\ cursor \in Nat
    BY DEF IInv, Stored
  <2> QED BY <2>1
<1>2. \A s \in Batch : \E n \in DOMAIN events : s = Linked(events[n])
  BY <1>1 DEF Batch
<1>3. Dated(Batch)
  BY <1>2, LinkedIs DEF Dated
<1>4. \A s \in Batch : \E n \in DOMAIN events :
        s = Linked(events[n]) /\ s.at = events[n].signal.at
  BY <1>2, LinkedIs
<1>5. Distinct(Batch)
  <2> SUFFICES ASSUME NEW s \in Batch, NEW t \in Batch, s.at = t.at PROVE s = t
    BY DEF Distinct
  <2>1. PICK m \in DOMAIN events : s = Linked(events[m]) /\ s.at = events[m].signal.at
    BY <1>4
  <2>2. PICK n \in DOMAIN events : t = Linked(events[n]) /\ t.at = events[n].signal.at
    BY <1>4
  <2>3. m = n
    BY <2>1, <2>2 DEF IInv, Stored
  <2> QED BY <2>1, <2>2, <2>3
<1> QED BY <1>3, <1>4, <1>5

\* Collecting adds no second signal of a time.
LEMMA CollectStep ==
  ASSUME IInv, NEW c \in Callers, Collect(c)
  PROVE  IInv'
<1>1. ~Holds(c) /\ UNCHANGED <<clock, events, cursor, saved, issues, run, born>>
  BY DEF Collect, Holds
<1>2. cursor \in Nat /\ read \in Nat /\ Len(events) \in Nat
  BY DEF IInv, Stored
<1>3. CASE phase' = [phase EXCEPT ![c] = "collected"] /\ UNCHANGED <<read, signals>>
  BY <1>1, <1>2, <1>3, IdleStep
<1>4. CASE /\ phase' = [phase EXCEPT ![c] = "cursor"]
           /\ read' = Len(events) /\ signals' = signals \cup Batch /\ ~Conflicts
  <2>1. Alone' /\ \A d \in Callers : Holds(d)' => phase'[d] = phase[d]
    BY <1>1, <1>4, Idling
  <2>2. RunOk'
    BY <1>1, <2>1 DEF IInv, RunOk, Holds, Episode, Fp, Fileable, Handled, Eligible
  <2>3. Births' /\ Filings' /\ AllSound(saved, born, issues)'
    BY <1>1 DEF IInv, Births, Filings
  <2>4. Recorded'
    <3>1. Dated(signals \cup Batch)
      BY BatchIs DEF IInv, Recorded, Dated
    <3>2. Distinct(signals \cup Batch)
      BY <1>4, BatchIs DEF IInv, Recorded, Distinct, Conflicts
    <3> QED BY <1>1, <1>4, <3>1, <3>2 DEF Recorded, Dated, Distinct, BornFor
  <2>5. Stored'
    BY <1>1, <1>2, <1>4 DEF IInv, Stored, EventOk, BornFor
  <2>6. AnnouncedOk'
    <3> SUFFICES ASSUME NEW d \in Callers, phase'[d] = "saved"
                 PROVE  /\ Dated(run.circuits)' /\ Distinct(run.circuits)'
                        /\ \A s \in run.circuits :
                             /\ \A t \in signals' : s.at # t.at
                             /\ \A n \in DOMAIN events : s.at # events[n].signal.at
      BY <1>1 DEF AnnouncedOk
    <3>1. /\ Dated(run.circuits) /\ Distinct(run.circuits)
          /\ \A s \in run.circuits :
               /\ \A t \in signals : s.at # t.at
               /\ \A n \in DOMAIN events : s.at # events[n].signal.at
      BY <2>1 DEF IInv, AnnouncedOk, Holds
    <3>2. Dated(run.circuits)' /\ Distinct(run.circuits)'
      BY <1>1, <3>1 DEF Dated, Distinct, BornFor
    <3> QED BY <1>4, <3>1, <3>2, BatchIs
  <2> QED BY <2>1, <2>2, <2>3, <2>4, <2>5, <2>6 DEF IInv
<1> QED BY <1>3, <1>4 DEF Collect

\* The steps of a caller that holds nothing, but for the beginning of a run.
LEMMA WaitingStep ==
  ASSUME IInv, NEW c \in Callers,
         CollectRefused(c) \/ StartAgain(c) \/ SaveCursor(c) \/ Busy(c)
  PROVE  IInv'
<1>1. cursor \in Nat /\ read \in Nat
  BY DEF IInv, Stored
<1>2. CASE CollectRefused(c)
  BY <1>1, <1>2, IdleStep DEF CollectRefused, Holds
<1>3. CASE StartAgain(c)
  BY <1>1, <1>3, IdleStep DEF StartAgain, Holds
<1>4. CASE SaveCursor(c)
  BY <1>1, <1>4, IdleStep DEF SaveCursor, Holds
<1>5. CASE Busy(c)
  BY <1>1, <1>5, IdleStep DEF Busy, Holds
<1> QED BY <1>2, <1>3, <1>4, <1>5

\* Rotation drops a signal.
LEMMA RotateStep ==
  ASSUME IInv, Rotate
  PROVE  IInv'
<1>1. /\ UNCHANGED <<clock, events, cursor, read, saved, issues, phase, run, born>>
      /\ signals' \subseteq signals
  BY DEF Rotate
<1>2. Births' /\ Filings' /\ AllSound(saved, born, issues)' /\ Alone'
  BY <1>1 DEF IInv, Births, Filings, Alone, Holds
<1>3. Recorded' /\ Stored'
  BY <1>1 DEF IInv, Recorded, Dated, Distinct, BornFor, Stored, EventOk
<1>4. RunOk' /\ AnnouncedOk'
  BY <1>1 DEF IInv, RunOk, AnnouncedOk, Episode, Fp, Fileable, Handled, Eligible, Dated, Distinct,
              BornFor
<1> QED BY <1>2, <1>3, <1>4 DEF IInv

-----------------------------------------------------------------------------
(* A run. *)

\* The holder goes on, and nobody else holds the lock.
LEMMA Holding ==
  ASSUME IInv, NEW c \in Callers, \A d \in Callers : Holds(d) => d = c,
         NEW p \in {"idle", "running", "created", "saved"}, phase' = [phase EXCEPT ![c] = p]
  PROVE  /\ Alone' /\ phase'[c] = p
         /\ \A d \in Callers \ {c} : ~Holds(d)' /\ phase'[d] \notin {"running", "created", "saved"}
<1>1. phase' \in [Callers -> {"idle", "failed", "cursor", "collected", "running", "created",
                             "saved"}]
  BY DEF IInv, Alone
<1>2. \A d \in Callers \ {c} : phase'[d] = phase[d] /\ ~Holds(d)
  BY DEF IInv, Alone
<1>3. phase'[c] = p
  BY DEF IInv, Alone
<1> QED BY <1>1, <1>2, <1>3 DEF Alone, Holds

\* A caller whose phase is of a run is the one that holds the lock.
LEMMA Holder ==
  ASSUME IInv, NEW c \in Callers, Holds(c)
  PROVE  \A d \in Callers : Holds(d) => d = c
BY DEF IInv, Alone

\* A step of the holder within its run, or its end.
LEMMA HeldStep ==
  ASSUME IInv, UNCHANGED <<clock, events, cursor, read, signals, saved, born>>, SameIssues,
         NEW c \in Callers, \A d \in Callers : Holds(d) => d = c,
         NEW p \in {"idle", "running"}, phase' = [phase EXCEPT ![c] = p],
         p = "running" => RunSound(run', born, issues)
  PROVE  IInv'
<1>1. /\ Alone' /\ phase'[c] = p
      /\ \A d \in Callers \ {c} : phase'[d] \notin {"running", "created", "saved"}
  BY Holding
<1>2. p = "running" => RunSound(run', born, issues')
  BY StillSound
<1>3. RunOk' /\ AnnouncedOk'
  BY <1>1, <1>2 DEF RunOk, AnnouncedOk
<1>4. cursor' \in Nat /\ read' \in Nat
  BY DEF IInv, Stored
<1> QED BY <1>1, <1>3, <1>4, PlainStep

\* The episodes that a run begins with.
LEMMA BeginStep ==
  ASSUME IInv, NEW c \in Callers, BeginRun(c)
  PROVE  IInv'
<1> DEFINE work == BuildEpisodes(signals, saved)
<1>1. /\ Free /\ run' = [todo |-> FpsOf(work), work |-> work, circuits |-> {}]
      /\ phase' = [phase EXCEPT ![c] = "running"]
      /\ UNCHANGED <<clock, events, cursor, read, signals, saved, issues, born>>
  BY DEF BeginRun
<1>2. clock \in Nat /\ born \in [Fps -> SUBSET (1..clock)]
  BY DEF IInv, Births
<1>3. Distinct(signals) /\ \A s \in signals : s.fp \in Fps => s.at \in born[s.fp]
  <2>1. 0 \notin Fps
    BY DEF Fps
  <2> QED BY <2>1 DEF IInv, Recorded, Dated, BornFor
<1>4. AllSound(work, born, issues)
  BY <1>2, <1>3, BuildAllSound DEF IInv
<1> HIDE DEF work
<1>5. RunSound(run', born, issues)
  BY <1>1, <1>4 DEF RunSound, FpsOf
<1> QED BY <1>1, <1>5, Retold, HeldStep DEF Free

\* What a run looks at is an episode of its fingerprint.
LEMMA LooksAt ==
  ASSUME IInv, NEW c \in Callers, Looking(c) \/ phase[c] = "created"
  PROVE  /\ RunSound(run, born, issues) /\ run.todo # {} /\ Fp \in run.todo /\ Fp \in Fps
         /\ Episode # None /\ Sound(Episode, born[Fp], IssuesOf(issues, Fp))
         /\ \A d \in Callers : Holds(d) => d = c
<1>1. RunSound(run, born, issues) /\ run.todo # {}
  BY DEF IInv, RunOk, Looking
<1>2. run.todo \subseteq Fps /\ run.todo \in SUBSET Nat
  BY <1>1, FpsAre DEF RunSound
<1>3. Fp \in run.todo
  BY <1>1, <1>2, Minimum DEF Fp
<1>4. Episode # None /\ Sound(Episode, born[Fp], IssuesOf(issues, Fp))
  BY <1>1, <1>2, <1>3 DEF RunSound, AllSound, Episode
<1>5. Holds(c)
  BY DEF Looking, Holds
<1> QED BY <1>1, <1>2, <1>3, <1>4, <1>5, Holder

\* A sound episode in the place of the one looked at.
LEMMA Replaced ==
  ASSUME RunSound(run, born, issues), Fp \in Fps,
         NEW e, Sound(e, born[Fp], IssuesOf(issues, Fp)), Keeps(e) \/ Leaves(e) \/ Opens(e)
  PROVE  RunSound(run', born, issues)
<1>1. run = [todo |-> run.todo, work |-> run.work, circuits |-> run.circuits]
  BY DEF RunSound
<1>2. PICK t, w, x : run = [todo |-> t, work |-> w, circuits |-> x]
  BY <1>1
<1>3. run.todo = t /\ run.work = w /\ run.circuits = x
  BY <1>2
<1>4. PICK f : f = Fp
  OBVIOUS
<1> DEFINE v == [w EXCEPT ![f] = e]
<1>5. \/ run' = [todo |-> t, work |-> v, circuits |-> x]
      \/ run' = [todo |-> t \ {f}, work |-> v, circuits |-> x]
      \/ run' = [todo |-> t \ {f}, work |-> v, circuits |-> x \cup {f}]
  BY <1>2, <1>4 DEF Keeps, Leaves, Opens
<1>6. e # None
  BY Alikes DEF Sound
<1>7. /\ v = [g \in Fps |-> v[g]] /\ v[f] = e
      /\ \A g \in Fps \ {f} : v[g] = w[g]
  BY <1>3, <1>4 DEF RunSound, AllSound
<1>8. t \subseteq Fps /\ x \subseteq Fps /\ AllSound(w, born, issues) /\ \A g \in t : w[g] # None
  BY <1>3 DEF RunSound
<1> HIDE DEF v
<1>9. AllSound(v, born, issues)
  BY <1>4, <1>7, <1>8 DEF AllSound
<1>10. \A g \in t : v[g] # None
  BY <1>6, <1>7, <1>8
<1> QED BY <1>4, <1>5, <1>8, <1>9, <1>10 DEF RunSound

\* So a run goes on after a verdict, a failure or an Issue.
LEMMA LookStep ==
  ASSUME IInv, NEW c \in Callers, Looking(c) \/ phase[c] = "created",
         phase' = [phase EXCEPT ![c] = "running"],
         UNCHANGED <<clock, events, cursor, read, signals, saved, born>>, SameIssues,
         NEW e, Sound(e, born[Fp], IssuesOf(issues, Fp)), Keeps(e) \/ Leaves(e) \/ Opens(e)
  PROVE  IInv'
<1>1. /\ RunSound(run, born, issues) /\ Fp \in Fps
      /\ \A d \in Callers : Holds(d) => d = c
  BY LooksAt
<1>2. RunSound(run', born, issues)
  BY <1>1, Replaced
<1> QED BY <1>1, <1>2, HeldStep

\* The phase of a caller that looks stays as it is.
LEMMA StillRunning ==
  ASSUME IInv, NEW c \in Callers, Looking(c), UNCHANGED phase
  PROVE  phase' = [phase EXCEPT ![c] = "running"]
BY DEF IInv, Alone, Looking

\* A verdict is about what the episode counts.
LEMMA AnalyseStep ==
  ASSUME IInv, NEW c \in Callers, Skip(c) \/ Analyse(c) \/ AnalysisFails(c)
  PROVE  IInv'
<1>1. /\ Looking(c) /\ UNCHANGED <<clock, events, cursor, read, signals, saved, issues, born>>
      /\ UNCHANGED phase
  BY DEF Skip, Analyse, AnalysisFails
<1>2. Sound(Episode, born[Fp], IssuesOf(issues, Fp)) /\ Shaped(Episode)
  BY <1>1, LooksAt DEF Sound
<1>3. phase' = [phase EXCEPT ![c] = "running"] /\ SameIssues
  BY <1>1, StillRunning, Retold
<1>4. CASE Skip(c)
  BY <1>1, <1>2, <1>3, <1>4, LookStep DEF Skip
<1>5. CASE Analyse(c)
  <2>1. PICK verdict, e :
          /\ e = [Episode EXCEPT !.ai = verdict, !.judged = Episode.count,
                                 !.attempts = @ + 1, !.wait = FALSE]
          /\ Keeps(e)
    BY <1>5 DEF Analyse
  <2>2. /\ Shaped(e) /\ e.count = Episode.count /\ e.ids = Episode.ids
        /\ e.last = Episode.last /\ e.issue = Episode.issue /\ e.judged = Episode.count
    BY <1>2, <2>1 DEF Shaped, Fields
  <2>3. Sound(e, born[Fp], IssuesOf(issues, Fp))
    BY <1>2, <2>2 DEF Sound, Counted
  <2> QED BY <1>1, <1>3, <2>1, <2>3, LookStep
<1>6. CASE AnalysisFails(c)
  <2>1. PICK e :
          /\ \/ e = [Episode EXCEPT !.attempts = @ + 1, !.open = TRUE, !.gen = @ + 1]
             \/ e = [Episode EXCEPT !.attempts = @ + 1, !.wait = TRUE]
          /\ Opens(e) \/ Leaves(e)
    BY <1>6 DEF AnalysisFails
  <2>2. Alike(e, Episode)
    BY <1>2, <2>1 DEF Alike, Shaped, Fields
  <2>3. Sound(e, born[Fp], IssuesOf(issues, Fp))
    BY <1>2, <2>2, Alikes
  <2> QED BY <1>1, <1>3, <2>1, <2>3, LookStep
<1> QED BY <1>4, <1>5, <1>6

\* A link is to an Issue of the fingerprint.
LEMMA FiledSound ==
  ASSUME NEW e, NEW times, NEW own, Sound(e, times, own), NEW i \in own, i # 0
  PROVE  Sound(Filed(e, i), times, own)
<1>1. PICK x : x = Filed(e, i)
  OBVIOUS
<1>2. /\ Shaped(x) /\ x.count = e.count /\ x.ids = e.ids /\ x.last = e.last /\ x.issue = i
  BY <1>1 DEF Filed, Sound, Shaped, Fields
<1>3. Sound(x, times, own)
  BY <1>2 DEF Sound, Counted
<1> QED BY <1>1, <1>3

\* What the end of a run gives up keeps everything else.
LEMMA AbandonIs ==
  ASSUME IInv, NEW gone, Abandon(gone)
  PROVE  /\ SameIssues
         /\ \A i \in DOMAIN issues :
              /\ issues'[i].indexed = issues[i].indexed
              /\ issues[i].lost => issues'[i].lost
              /\ i \in gone /\ ~issues[i].indexed => issues'[i].lost
<1>1. \A i \in DOMAIN issues : issues[i] \in GitHubIssues
  BY DEF IInv, Filings
<1>2. PICK t \in BOOLEAN : t = TRUE
  OBVIOUS
<1>3. ASSUME NEW x \in GitHubIssues
      PROVE  /\ [x EXCEPT !.lost = t] \in GitHubIssues
             /\ [x EXCEPT !.lost = t].fp = x.fp
             /\ [x EXCEPT !.lost = t].lost = t
             /\ [x EXCEPT !.lost = t].indexed = x.indexed
  BY DEF GitHubIssues
<1>4. \A i \in DOMAIN issues :
        issues'[i] = IF i \in gone /\ ~issues[i].indexed
                     THEN [issues[i] EXCEPT !.lost = t] ELSE issues[i]
  BY <1>2 DEF Abandon
<1>5. issues' = [i \in DOMAIN issues |-> issues'[i]]
  BY DEF Abandon
<1>6. \A i \in DOMAIN issues : issues'[i] \in GitHubIssues /\ issues'[i].fp = issues[i].fp
  BY <1>1, <1>3, <1>4
<1>7. SameIssues
  BY <1>5, <1>6, Retold
<1>8. ASSUME NEW i \in DOMAIN issues
      PROVE  /\ issues'[i].indexed = issues[i].indexed
             /\ issues[i].lost => issues'[i].lost
             /\ i \in gone /\ ~issues[i].indexed => issues'[i].lost
  BY <1>1, <1>2, <1>3, <1>4
<1> QED BY <1>7, <1>8

\* An Issue that was found, or read back, or neither.
LEMMA FileStep ==
  ASSUME IInv, NEW c \in Callers, Reuse(c) \/ ReadBack(c) \/ IssueFails(c) \/ Ambiguous(c)
  PROVE  IInv'
<1>1. /\ Looking(c) \/ phase[c] = "created"
      /\ UNCHANGED <<clock, events, cursor, read, signals, saved, born>>
  BY DEF Reuse, ReadBack, IssueFails, Ambiguous
<1>0. SameIssues
  BY Retold, AbandonIs DEF Reuse, ReadBack, IssueFails, Ambiguous
<1>2. Sound(Episode, born[Fp], IssuesOf(issues, Fp)) /\ Shaped(Episode)
  BY <1>1, LooksAt DEF Sound
<1>3. \A i \in DOMAIN issues : i # 0
  BY DEF IInv, Filings
<1>4. CASE Reuse(c)
  <2>1. PICK i \in IssuesOf(issues, Fp) : Leaves(Filed(Episode, i))
    BY <1>4 DEF Reuse, Matches, IssuesOf
  <2>2. Sound(Filed(Episode, i), born[Fp], IssuesOf(issues, Fp))
    BY <1>2, <1>3, FiledSound DEF IssuesOf
  <2>3. phase' = [phase EXCEPT ![c] = "running"]
    BY <1>4, StillRunning DEF Reuse
  <2> QED BY <1>0, <1>1, <2>1, <2>2, <2>3, LookStep
<1>5. CASE ReadBack(c)
  <2>1. /\ phase[c] = "created" /\ Leaves(Filed(Episode, Len(issues)))
        /\ phase' = [phase EXCEPT ![c] = "running"]
    BY <1>5 DEF ReadBack
  <2>2. Len(issues) > 0 /\ issues[Len(issues)].fp = Fp
    BY <2>1 DEF IInv, RunOk
  <2>3. Len(issues) \in DOMAIN issues
    BY <2>2 DEF IInv, Filings
  <2>4. Len(issues) \in IssuesOf(issues, Fp) /\ Len(issues) # 0
    BY <1>3, <2>2, <2>3 DEF IssuesOf
  <2>5. Sound(Filed(Episode, Len(issues)), born[Fp], IssuesOf(issues, Fp))
    BY <1>2, <2>4, FiledSound
  <2> QED BY <1>0, <1>1, <2>1, <2>5, LookStep
<1>6. CASE IssueFails(c) \/ Ambiguous(c)
  <2>1. phase' = [phase EXCEPT ![c] = "running"]
    BY <1>6, StillRunning DEF IssueFails, Ambiguous
  <2>2. PICK e :
          /\ \/ e = [Episode EXCEPT !.issueAttempts = @ + 1, !.issueOpen = TRUE,
                                    !.issueGen = @ + 1]
             \/ e = [Episode EXCEPT !.issueAttempts = @ + 1, !.issueWait = TRUE]
          /\ Opens(e) \/ Leaves(e)
    BY <1>6 DEF IssueFails, Ambiguous, Fails
  <2>3. Alike(e, Episode)
    BY <1>2, <2>2 DEF Alike, Shaped, Fields
  <2>4. Sound(e, born[Fp], IssuesOf(issues, Fp))
    BY <1>2, <2>3, Alikes
  <2> QED BY <1>0, <1>1, <2>1, <2>2, <2>4, LookStep
<1> QED BY <1>4, <1>5, <1>6

\* A cancelled run leaves its episodes as they are.
LEMMA CancelStep ==
  ASSUME IInv, NEW c \in Callers, Cancel(c)
  PROVE  IInv'
<1>1. /\ RunSound(run, born, issues) /\ \A d \in Callers : Holds(d) => d = c
  BY LooksAt DEF Cancel
<1>2. PICK t, w, x : run = [todo |-> t, work |-> w, circuits |-> x]
  BY <1>1 DEF RunSound
<1>3. run' = [todo |-> {}, work |-> w, circuits |-> x]
  BY <1>2 DEF Cancel
<1>4. RunSound(run', born, issues)
  BY <1>1, <1>2, <1>3 DEF RunSound
<1>5. SameIssues
  BY Retold, AbandonIs DEF Cancel
<1> QED BY <1>1, <1>4, <1>5, HeldStep DEF Cancel

\* An Issue is created where there is none, on the verdict that is looked at.
LEMMA CreateStep ==
  ASSUME IInv, NEW c \in Callers, Create(c)
  PROVE  IInv'
<1>1. /\ Looking(c) /\ Fileable(Episode) /\ Matches = {}
      /\ phase' = [phase EXCEPT ![c] = "created"]
      /\ UNCHANGED <<clock, events, cursor, read, signals, saved, run, born>>
  BY DEF Create
<1>2. /\ RunSound(run, born, issues) /\ run.todo # {} /\ Fp \in Fps
      /\ \A d \in Callers : Holds(d) => d = c
  BY <1>1, LooksAt
<1>0. PICK no \in BOOLEAN : no = FALSE
  OBVIOUS
<1>3. PICK new : new = [fp |-> Fp, merged |-> no, indexed |-> no, lost |-> no]
  OBVIOUS
<1>4. new \in GitHubIssues /\ new.fp = Fp /\ issues' = Append(issues, new)
  <2>1. issues' = Append(issues, new)
    BY <1>0, <1>3 DEF Create
  <2> QED BY <1>2, <1>3, <2>1 DEF GitHubIssues
<1>5. /\ issues \in Seq(GitHubIssues) /\ issues' \in Seq(GitHubIssues)
      /\ Len(issues') = Len(issues) + 1 /\ Len(issues) \in Nat
      /\ DOMAIN issues' = DOMAIN issues \cup {Len(issues) + 1}
      /\ \A i \in DOMAIN issues : issues'[i] = issues[i]
      /\ issues'[Len(issues) + 1] = new
  BY <1>4 DEF IInv, Filings
<1>7. Filings'
  BY <1>5 DEF Filings
<1>8. \A f \in Fps : IssuesOf(issues, f) \subseteq IssuesOf(issues', f)
  BY <1>5 DEF IssuesOf
<1>9. Births' /\ Recorded'
  BY <1>1 DEF IInv, Births, Recorded, Dated, Distinct, BornFor
<1>10. Stored'
  BY <1>1, <1>5 DEF IInv, Stored, EventOk, BornFor
<1>11. AllSound(saved, born', issues') /\ AllSound(run.work, born', issues')
  BY <1>1, <1>2, <1>8, <1>9, AllSoundGrows DEF IInv, RunSound
<1>12. /\ Alone' /\ phase'[c] = "created"
       /\ \A d \in Callers \ {c} : phase'[d] \notin {"running", "created", "saved"}
  BY <1>1, <1>2, Holding
<1>13. RunOk'
  <2>1. RunSound(run', born', issues')
    BY <1>1, <1>2, <1>11 DEF RunSound
  <2>2. Fp' = Fp /\ Episode' = Episode /\ Fileable(Episode)'
    BY <1>1 DEF Fp, Episode, Fileable, Handled, Eligible
  <2> QED BY <1>1, <1>2, <1>4, <1>5, <1>12, <2>1, <2>2 DEF RunOk
<1>14. AnnouncedOk'
  BY <1>12 DEF AnnouncedOk
<1> QED BY <1>1, <1>7, <1>9, <1>10, <1>11, <1>12, <1>13, <1>14 DEF IInv

-----------------------------------------------------------------------------
(* The end of a run. *)

\* Rank by rank: a greater one is behind more.
LEMMA Ranks ==
  ASSUME NEW S, S \subseteq Fps
  PROVE  /\ IsFiniteSet(S) /\ Cardinality(S) \in Nat
         /\ \A f \in S : /\ Cardinality({g \in S : g <= f}) \in Nat \ {0}
                         /\ Cardinality({g \in S : g <= f}) <= Cardinality(S)
         /\ \A f, h \in S :
              Cardinality({g \in S : g <= f}) = Cardinality({g \in S : g <= h}) => f = h
<1> DEFINE Upto(f) == {g \in S : g <= f}
<1>1. IsFiniteSet(Fps)
  BY FpsAre
<1>2. IsFiniteSet(S) /\ Cardinality(S) \in Nat
  BY <1>1, FS_Subset, FS_CardinalityType
<1>3. \A f \in S : f \in Nat
  BY FpsAre
<1>4. \A f : Upto(f) \subseteq S
  OBVIOUS
<1>5. \A f : /\ IsFiniteSet(Upto(f)) /\ Cardinality(Upto(f)) \in Nat
             /\ Cardinality(Upto(f)) <= Cardinality(S)
  <2> HIDE DEF Upto
  <2> QED BY <1>2, <1>4, FS_Subset, FS_CardinalityType
<1>6. ASSUME NEW f \in S PROVE Cardinality(Upto(f)) # 0
  <2>1. f \in Upto(f)
    BY <1>3, <1>6
  <2> HIDE DEF Upto
  <2> QED BY <1>5, <2>1, FS_EmptySet
<1>7. ASSUME NEW f \in S, NEW h \in S, f < h PROVE Cardinality(Upto(f)) < Cardinality(Upto(h))
  <2>1. Upto(f) \cup {h} \subseteq Upto(h) /\ h \notin Upto(f)
    BY <1>3, <1>7
  <2> HIDE DEF Upto
  <2>2. Cardinality(Upto(f) \cup {h}) = Cardinality(Upto(f)) + 1
    BY <1>5, <2>1, FS_AddElement
  <2>3. Cardinality(Upto(f) \cup {h}) <= Cardinality(Upto(h))
    BY <1>5, <2>1, FS_Subset
  <2> QED BY <1>5, <2>2, <2>3
<1> HIDE DEF Upto
<1>8. ASSUME NEW f \in S, NEW h \in S, Cardinality(Upto(f)) = Cardinality(Upto(h)) PROVE f = h
  <2>1. /\ ~(Cardinality(Upto(f)) < Cardinality(Upto(h)))
        /\ ~(Cardinality(Upto(h)) < Cardinality(Upto(f)))
    BY <1>5, <1>8
  <2>2. ~(f < h) /\ ~(h < f)
    BY <1>7, <2>1
  <2> QED BY <1>3, <2>2
<1> QED BY <1>2, <1>5, <1>6, <1>8 DEF Upto

\* The announcements take the next timestamps, one each.
LEMMA AnnouncedIs ==
  ASSUME clock \in Nat, run.circuits \subseteq Fps
  PROVE  /\ Cardinality(Announced) \in Nat /\ Distinct(Announced)
         /\ \A s \in Announced :
              /\ s \in Signals /\ s.fp \in Fps
              /\ s.at \in clock + 1..clock + Cardinality(Announced)
<1> DEFINE open == {f \in run.circuits : f + Width \in Fps}
           Rank(f) == Cardinality({g \in open : g <= f})
           Of(f) == [at |-> clock + Rank(f), fp |-> f + Width, kind |-> "circuit", run |-> 0]
           m == [f \in open |-> Of(f)]
<1>1. Announced = {Of(f) : f \in open}
  BY DEF Announced
<1>2. open \subseteq Fps /\ \A f \in open : f \in Nat /\ f + Width \in Fps
  BY FpsAre
<1> HIDE DEF open
<1>3. /\ IsFiniteSet(open) /\ Cardinality(open) \in Nat
      /\ \A f \in open : Rank(f) \in Nat \ {0} /\ Rank(f) <= Cardinality(open)
      /\ \A f, h \in open : Rank(f) = Rank(h) => f = h
  BY <1>2, Ranks
<1> HIDE DEF Rank
<1>4. "circuit" \in Kinds
  BY DEF Kinds, FeaturesOf
<1>5. \A f \in open : /\ Of(f).at = clock + Rank(f) /\ Of(f).fp = f + Width
                      /\ Of(f) \in Signals
  BY <1>2, <1>3, <1>4 DEF Signals
<1> HIDE DEF Of
<1>6. m \in Injection(open, Announced) /\ m \in Surjection(open, Announced)
  <2>1. \A f, h \in open : Of(f) = Of(h) => f = h
    BY <1>3, <1>5
  <2>2. m \in [open -> Announced]
    BY <1>1
  <2> QED BY <1>1, <2>1, <2>2 DEF Injection, Surjection, IsInjective
<1> HIDE DEF m
<1>7. IsFiniteSet(Announced) /\ Cardinality(Announced) = Cardinality(open)
  BY <1>3, <1>6, FS_Surjection
<1>8. Distinct(Announced)
  <2>1. \A f, h \in open : Of(f).at = Of(h).at => f = h
    BY <1>3, <1>5
  <2> QED BY <1>1, <2>1 DEF Distinct
<1>9. ASSUME NEW f \in open
      PROVE  Of(f).at \in clock + 1..clock + Cardinality(Announced)
  BY <1>3, <1>5, <1>7
<1> QED BY <1>1, <1>2, <1>3, <1>5, <1>7, <1>8, <1>9

\* The episodes are saved with the announcements counted.
LEMMA SaveStep ==
  ASSUME IInv, NEW c \in Callers, Save(c)
  PROVE  IInv'
<1>1. /\ phase[c] = "running" /\ saved' = BuildEpisodes(Announced, run.work)
      /\ clock' = clock + Cardinality(Announced)
      /\ born' = [f \in Fps |-> born[f] \cup Ats({s \in Announced : s.fp = f})]
      /\ phase' = [phase EXCEPT ![c] = "saved"]
      /\ UNCHANGED <<events, cursor, read, signals, issues>>
  BY DEF Save
<1>2. run'.circuits = Announced
  BY DEF Save
<1>3. RunSound(run, born, issues) /\ \A d \in Callers : Holds(d) => d = c
  BY <1>1, Holder DEF IInv, RunOk, Holds
<1>4. clock \in Nat /\ born \in [Fps -> SUBSET (1..clock)]
  BY DEF IInv, Births
<1>5. /\ Cardinality(Announced) \in Nat /\ Distinct(Announced)
      /\ \A s \in Announced :
           /\ s \in Signals /\ s.fp \in Fps
           /\ s.at \in clock + 1..clock + Cardinality(Announced)
  BY <1>3, <1>4, AnnouncedIs DEF RunSound
<1>6. PICK ann : ann = Announced
  OBVIOUS
<1>7. \A s \in ann : /\ s \in Signals /\ s.fp \in Fps /\ s.at \in 1..clock' /\ s.at > clock
                     /\ s.at \in Nat /\ s.at <= clock'
  BY <1>1, <1>4, <1>5, <1>6
<1>8. /\ \A f \in Fps : born'[f] = born[f] \cup Ats({s \in ann : s.fp = f})
      /\ clock' \in Nat /\ clock <= clock'
  BY <1>1, <1>4, <1>5, <1>6
<1>9. Births'
  <2>1. \A f \in Fps : Ats({s \in ann : s.fp = f}) \subseteq 1..clock'
    BY <1>7 DEF Ats
  <2>2. \A f \in Fps : born[f] \subseteq 1..clock'
    BY <1>4, <1>8
  <2>3. \A f \in Fps : born'[f] \subseteq 1..clock'
    BY <1>8, <2>1, <2>2
  <2>4. born' = [f \in Fps |-> born'[f]]
    BY <1>1
  <2> QED BY <1>8, <2>3, <2>4 DEF Births
<1>10. \A f \in Fps : born[f] \subseteq born'[f]
  BY <1>8
<1>11. \A s \in ann : s.at \in born'[s.fp]
  BY <1>7, <1>8 DEF Ats
<1>12. /\ Filings' /\ \A f \in Fps : IssuesOf(issues, f) \subseteq IssuesOf(issues', f)
  BY <1>1 DEF IInv, Filings
<1>13. AllSound(saved', born', issues')
  <2>1. AllSound(run.work, born', issues')
    BY <1>3, <1>9, <1>10, <1>12, AllSoundGrows DEF RunSound
  <2>2. clock' \in Nat /\ born' \in [Fps -> SUBSET (1..clock')]
    BY <1>9 DEF Births
  <2>3. Distinct(ann)
    BY <1>5, <1>6
  <2>4. AllSound(BuildEpisodes(ann, run.work), born', issues')
    BY <1>11, <2>1, <2>2, <2>3, BuildAllSound
  <2> QED BY <1>1, <1>6, <2>4
<1>14. \A s \in Signals : s.at <= clock /\ BornFor(s) => s.at <= clock' /\ BornFor(s)'
  <2>1. \A s \in Signals : s.at \in Nat /\ (s.fp # 0 => s.fp \in Fps)
    BY DEF Signals
  <2> QED BY <1>4, <1>8, <1>10, <2>1 DEF BornFor
<1>15. Recorded'
  BY <1>1, <1>14 DEF IInv, Recorded, Dated, Distinct
<1>16. Stored'
  <2>1. ASSUME NEW e \in StateEvents, EventOk(e) PROVE EventOk(e)'
    <3>1. e.signal \in Signals
      BY DEF StateEvents
    <3>2. \A i \in DOMAIN issues : issues[i] \in GitHubIssues
      BY DEF IInv, Filings
    <3>3. \A i \in DOMAIN issues : issues[i].fp \in Fps
      BY <3>2 DEF GitHubIssues
    <3> QED BY <1>1, <1>10, <1>14, <2>1, <3>1, <3>3 DEF EventOk
  <2> QED BY <1>1, <2>1, AllDated DEF IInv, Stored
<1>17. /\ Alone' /\ phase'[c] = "saved"
       /\ \A d \in Callers \ {c} : phase'[d] \notin {"running", "created", "saved"}
  BY <1>1, <1>3, Holding
<1>18. RunOk'
  BY <1>17 DEF RunOk
<1>19. AnnouncedOk'
  <2>1. Dated(ann)'
    BY <1>7, <1>11 DEF Dated, BornFor
  <2>2. \A s \in ann : /\ \A t \in signals : s.at # t.at
                       /\ \A n \in DOMAIN events : s.at # events[n].signal.at
    BY <1>4, <1>7, AllDated
  <2>3. Distinct(ann)
    BY <1>5, <1>6
  <2>4. run'.circuits = ann
    BY <1>2, <1>6
  <2> QED BY <1>1, <1>17, <2>1, <2>2, <2>3, <2>4 DEF AnnouncedOk, Dated, Distinct
<1> QED BY <1>9, <1>12, <1>13, <1>15, <1>16, <1>17, <1>18, <1>19 DEF IInv

\* The announcements are recorded beside the signals.
LEMMA AnnounceStep ==
  ASSUME IInv, NEW c \in Callers, Announce(c)
  PROVE  IInv'
<1>1. /\ phase[c] = "saved" /\ signals' = signals \cup run.circuits
      /\ phase' = [phase EXCEPT ![c] = "idle"]
      /\ UNCHANGED <<clock, events, cursor, read, saved, issues, born>>
  BY DEF Announce
<1>2. \A d \in Callers : Holds(d) => d = c
  BY <1>1, Holder DEF Holds
<1>3. /\ Dated(run.circuits) /\ Distinct(run.circuits)
      /\ \A s \in run.circuits, t \in signals : s.at # t.at
  BY <1>1 DEF IInv, AnnouncedOk
<1>4. Dated(signals) /\ Distinct(signals)
  BY DEF IInv, Recorded
<1>5. PICK ss : ss = signals \cup run.circuits
  OBVIOUS
<1>6. Dated(ss)
  BY <1>3, <1>4, <1>5 DEF Dated
<1>7. Distinct(ss)
  BY <1>3, <1>4, <1>5 DEF Distinct
<1>8. Recorded'
  BY <1>1, <1>5, <1>6, <1>7 DEF Recorded, Dated, Distinct, BornFor
<1>9. Births' /\ Filings' /\ AllSound(saved, born, issues)'
  BY <1>1 DEF IInv, Births, Filings
<1>10. Stored'
  BY <1>1 DEF IInv, Stored, EventOk, BornFor
<1>11. /\ Alone' /\ phase'[c] = "idle"
       /\ \A d \in Callers \ {c} : phase'[d] \notin {"running", "created", "saved"}
  BY <1>1, <1>2, Holding
<1>12. RunOk' /\ AnnouncedOk'
  BY <1>11 DEF RunOk, AnnouncedOk
<1> QED BY <1>8, <1>9, <1>10, <1>11, <1>12 DEF IInv

\* A crash loses what is in the process, and releases its locks.
LEMMA CrashStep ==
  ASSUME IInv, NEW c \in Callers, Crash(c)
  PROVE  IInv'
<1>1. /\ phase' = [phase EXCEPT ![c] = "idle"]
      /\ run' = IF Holds(c) THEN NoRun ELSE run
      /\ read' = IF phase[c] = "cursor" THEN 0 ELSE read
      /\ UNCHANGED <<clock, events, cursor, signals, saved, born>>
      /\ ~Holds(c) => UNCHANGED issues
  BY DEF Crash, Holds
<1>2. cursor \in Nat /\ read \in Nat
  BY DEF IInv, Stored
<1>3. CASE Holds(c)
  <2>1. read' = read
    BY <1>1, <1>3 DEF Holds
  <2>2. \A d \in Callers : Holds(d) => d = c
    BY <1>3, Holder
  <2>3. SameIssues
    BY Retold, AbandonIs DEF Crash
  <2> QED BY <1>1, <2>1, <2>2, <2>3, HeldStep
<1>4. CASE ~Holds(c)
  BY <1>1, <1>2, <1>4, IdleStep
<1> QED BY <1>3, <1>4

\* Nobody runs: the episodes on disk are exchanged for sound ones.
LEMMA RewriteStep ==
  ASSUME IInv, Free, UNCHANGED <<events, cursor, read, signals, issues, phase, run, born>>,
         clock' \in Nat, clock <= clock', AllSound(saved', born, issues)
  PROVE  IInv'
<1>1. Births'
  BY DEF IInv, Births
<1>2. Filings' /\ Alone'
  BY DEF IInv, Filings, Alone, Holds
<1>3. \A s \in Signals : s.at <= clock => s.at <= clock'
  BY DEF IInv, Births, Signals
<1>4. Recorded'
  BY <1>3 DEF IInv, Recorded, Dated, Distinct, BornFor
<1>5. Stored'
  <2>1. \A n \in DOMAIN events : events[n].signal.at <= clock'
    BY <1>3, AllDated
  <2> QED BY <2>1 DEF IInv, Stored, EventOk, BornFor
<1>6. AllSound(saved, born, issues)'
  OBVIOUS
<1>7. RunOk' /\ AnnouncedOk'
  BY DEF RunOk, AnnouncedOk, Free, Holds
<1> QED BY <1>1, <1>2, <1>4, <1>5, <1>6, <1>7 DEF IInv

\* An attention episode recovers at the next time, and counts no more than before.
LEMMA RecoveredSound ==
  ASSUME clock \in Nat, NEW times \in SUBSET (1..clock), NEW own, NEW e,
         Sound(e, times, own)
  PROVE  Sound(Recovered(e), times, own)
<1>1. PICK x : x = Recovered(e)
  OBVIOUS
<1>2. /\ Shaped(x) /\ x.count = e.count /\ x.ids = e.ids /\ x.last = clock + 1
      /\ x.ai = e.ai /\ x.judged = e.judged /\ x.issue = e.issue
  BY <1>1 DEF Recovered, Sound, Shaped, Fields
<1> DEFINE P == {b \in times : b <= e.last}
           Q == {b \in times : b <= x.last}
<1>3. Q = times
  <2>1. \A b \in times : b \in Nat /\ b <= clock + 1
    OBVIOUS
  <2>2. \A b \in times : b <= x.last
    BY <1>2, <2>1
  <2> QED BY <2>2
<1>4. IsFiniteSet(times)
  <2>1. IsFiniteSet(1..clock)
    BY Finite
  <2> QED BY <2>1, FS_Subset
<1>5. P \subseteq times
  OBVIOUS
<1>6. e.count \in Nat /\ e.ids \subseteq P /\ e.count <= Cardinality(P)
  BY DEF Sound, Counted
<1> HIDE DEF P
<1>7. /\ Cardinality(P) <= Cardinality(times) /\ IsFiniteSet(P)
  BY <1>4, <1>5, FS_Subset
<1>8. Cardinality(P) \in Nat /\ Cardinality(times) \in Nat
  BY <1>4, <1>7, FS_CardinalityType
<1>9. e.count <= Cardinality(times)
  BY <1>6, <1>7, <1>8
<1>10. Counted(x, times)
  <2>0. clock + 1 \in Nat
    OBVIOUS
  <2> HIDE DEF Q
  <2>1. x.count \in Nat /\ x.last \in Nat
    BY <1>2, <1>6, <2>0
  <2>2. x.ids \subseteq Q
    BY <1>2, <1>3, <1>5, <1>6
  <2>3. x.count <= Cardinality(Q)
    BY <1>2, <1>3, <1>9
  <2> QED BY <2>1, <2>2, <2>3 DEF Counted, Q
<1>11. Sound(x, times, own)
  BY <1>2, <1>10 DEF Sound
<1> QED BY <1>1, <1>11

\* A retry renews the episode and recovers its attention episode.
LEMMA ResetStep ==
  ASSUME IInv, NEW f \in Fps, Reset(f)
  PROVE  IInv'
<1>1. /\ Free /\ clock' = clock + 1 /\ saved[f] # None
      /\ saved' = [g \in Fps |->
                    IF g = f THEN Renewed(saved[g])
                    ELSE IF g = f + Width /\ saved[g] # None THEN Recovered(saved[g])
                    ELSE saved[g]]
      /\ UNCHANGED <<events, cursor, read, signals, issues, phase, run, born>>
  BY DEF Reset
<1>2. clock \in Nat /\ clock' \in Nat /\ clock <= clock'
  BY <1>1 DEF IInv, Births
<1>3. ASSUME NEW g \in Fps, saved'[g] # None
      PROVE  Sound(saved'[g], born[g], IssuesOf(issues, g))
  <2>1. saved[g] # None => Sound(saved[g], born[g], IssuesOf(issues, g))
    BY DEF IInv, AllSound
  <2>2. CASE g = f
    <3>1. saved'[g] = Renewed(saved[g]) /\ saved[g] # None
      BY <1>1, <2>2
    <3>2. Alike(Renewed(saved[g]), saved[g])
      BY <2>1, <3>1, RenewedAlike DEF Sound
    <3> QED BY <2>1, <3>1, <3>2, Alikes
  <2>3. CASE g # f /\ saved'[g] = saved[g]
    BY <1>3, <2>1, <2>3
  <2>4. CASE g # f /\ saved[g] # None /\ saved'[g] = Recovered(saved[g])
    <3>1. born[g] \in SUBSET (1..clock)
      BY DEF IInv, Births
    <3> QED BY <1>2, <2>1, <2>4, <3>1, RecoveredSound
  <2> QED BY <1>1, <2>2, <2>3, <2>4
<1>4. AllSound(saved', born, issues)
  BY <1>1, <1>3 DEF AllSound
<1> QED BY <1>1, <1>2, <1>4, RewriteStep

\* A backoff that ends leaves everything else of its episode.
LEMMA BackoffStep ==
  ASSUME IInv, NEW f \in Fps, BackoffEnds(f)
  PROVE  IInv'
<1>1. /\ Free /\ saved[f] # None
      /\ saved' = [saved EXCEPT ![f].wait = FALSE, ![f].issueWait = FALSE]
      /\ UNCHANGED <<clock, events, cursor, read, signals, issues, phase, run, born>>
  BY DEF BackoffEnds
<1>2. /\ saved = [g \in Fps |-> saved[g]]
      /\ \A g \in Fps : saved[g] # None => Sound(saved[g], born[g], IssuesOf(issues, g))
  BY DEF IInv, AllSound
<1>3. PICK x : x = [saved[f] EXCEPT !.wait = FALSE, !.issueWait = FALSE]
  OBVIOUS
<1>4. Alike(x, saved[f])
  BY <1>1, <1>2, <1>3 DEF Alike, Sound, Shaped, Fields
<1>5. Sound(x, born[f], IssuesOf(issues, f))
  BY <1>1, <1>2, <1>4, Alikes
<1>6. saved' = [saved EXCEPT ![f] = x]
  BY <1>1, <1>2, <1>3
<1>7. AllSound(saved', born, issues)
  BY <1>2, <1>5, <1>6 DEF AllSound
<1>8. clock' \in Nat /\ clock <= clock'
  BY <1>1 DEF IInv, Births
<1> QED BY <1>1, <1>7, <1>8, RewriteStep

-----------------------------------------------------------------------------
(* Issues: one that no search finds is named by an episode, or lost. *)

AtWork == \E c \in Callers : phase[c] \in {"running", "created"}

\* The episodes that the Issues' links are in: a run's own, or those on disk.
Latest == IF AtWork THEN run.work ELSE saved

Named(i) == Latest[issues[i].fp] # None /\ Latest[issues[i].fp].issue = i

\* What a run has created and not read back.
Fresh(i) == i = Len(issues) /\ \E c \in Callers : phase[c] = "created"

Unfound(i) == ~issues[i].indexed /\ ~issues[i].lost

Links == \A i \in DOMAIN issues : Unfound(i) => Named(i) \/ Fresh(i)

\* The index and the history lose nothing.
Grows ==
  /\ SameIssues
  /\ \A i \in DOMAIN issues : /\ issues[i].lost => issues'[i].lost
                              /\ issues[i].indexed => issues'[i].indexed

\* Without a new Issue, the links have to stay, and the new one has to become a link.
LEMMA Upheld ==
  ASSUME Links, OneIssue, Grows,
         \A i \in DOMAIN issues : Unfound(i)' =>
           /\ Named(i) => Named(i)'
           /\ Fresh(i) => Named(i)' \/ Fresh(i)'
  PROVE  Links' /\ OneIssue'
<1>1. \A i \in DOMAIN issues : Unfound(i)' => Unfound(i)
  BY DEF Grows, Unfound
<1>2. Links'
  BY <1>1 DEF Links, Grows, SameIssues
<1>3. OneIssue'
  BY DEF OneIssue, Grows, SameIssues
<1> QED BY <1>2, <1>3

\* Unchanged Issues lose nothing.
LEMMA StillGrows ==
  ASSUME IInv, UNCHANGED issues
  PROVE  Grows
BY Retold DEF Grows

\* A step of a caller that is not at work.
LEMMA Steady ==
  ASSUME Links, OneIssue, Grows, UNCHANGED saved, AtWork => UNCHANGED run,
         \A c \in Callers :
           {phase[c], phase'[c]} \cap {"running", "created"} # {} => phase'[c] = phase[c]
  PROVE  Links' /\ OneIssue'
<1>1. /\ AtWork' = AtWork
      /\ (\E c \in Callers : phase'[c] = "created") = (\E c \in Callers : phase[c] = "created")
  BY DEF AtWork
<1>2. Latest' = Latest
  BY <1>1 DEF Latest
<1>3. \A i \in DOMAIN issues : Named(i) => Named(i)'
  BY <1>2 DEF Named, Grows, SameIssues
<1>4. \A i \in DOMAIN issues : Fresh(i) => Fresh(i)'
  BY <1>1 DEF Fresh, Grows, SameIssues
<1> QED BY <1>3, <1>4, Upheld

\* The episode looked at keeps the link it has, or gets the one that was missing.
LEMMA Worked ==
  ASSUME IInv, Links, OneIssue, Grows,
         NEW c \in Callers, Looking(c) \/ phase[c] = "created",
         phase' = [phase EXCEPT ![c] = "running"],
         NEW e, Shaped(e), Keeps(e) \/ Leaves(e) \/ Opens(e),
         e.issue = Episode.issue \/ Episode.issue = 0,
         \A i \in DOMAIN issues : Unfound(i)' /\ Fresh(i) => issues[i].fp = Fp /\ e.issue = i
  PROVE  Links' /\ OneIssue'
<1>1. RunSound(run, born, issues) /\ Fp \in Fps
  BY LooksAt
<1>2. AtWork /\ AtWork'
  <2>1. phase'[c] = "running"
    BY DEF IInv, Alone
  <2> QED BY <2>1 DEF AtWork, Looking
<1>3. PICK f : f = Fp
  OBVIOUS
<1>4. Latest = run.work /\ Latest' = [run.work EXCEPT ![f] = e]
  <2>1. Latest = run.work /\ Latest' = run'.work
    BY <1>2 DEF Latest
  <2>2. run = [todo |-> run.todo, work |-> run.work, circuits |-> run.circuits]
    BY <1>1 DEF RunSound
  <2>3. PICK t, w, x : run = [todo |-> t, work |-> w, circuits |-> x]
    BY <2>2
  <2>4. run'.work = [w EXCEPT ![f] = e] /\ run.work = w
    BY <1>3, <2>3 DEF Keeps, Leaves, Opens
  <2> QED BY <2>1, <2>4
<1>5. e # None
  BY Alikes
<1>6. /\ Latest'[f] = e /\ Latest[f] = Episode
      /\ \A g \in Fps \ {f} : Latest'[g] = Latest[g]
  BY <1>1, <1>3, <1>4 DEF RunSound, AllSound, Episode
<1>7. \A i \in DOMAIN issues : i # 0 /\ issues[i].fp \in Fps /\ issues'[i].fp = issues[i].fp
  <2>1. issues \in Seq(GitHubIssues)
    BY DEF IInv, Filings
  <2>2. \A i \in DOMAIN issues : issues[i] \in GitHubIssues /\ i # 0
    BY <2>1
  <2> QED BY <2>2 DEF GitHubIssues, Grows, SameIssues
<1>8. ASSUME NEW i \in DOMAIN issues, Named(i) PROVE Named(i)'
  <2>1. CASE issues[i].fp = f
    BY <1>5, <1>6, <1>7, <1>8, <2>1 DEF Named
  <2>2. CASE issues[i].fp # f
    BY <1>6, <1>7, <1>8, <2>2 DEF Named
  <2> QED BY <2>1, <2>2
<1>9. ASSUME NEW i \in DOMAIN issues, Unfound(i)', Fresh(i) PROVE Named(i)'
  <2>1. issues[i].fp = f /\ e.issue = i
    BY <1>3, <1>9
  <2> QED BY <1>5, <1>6, <1>7, <2>1 DEF Named
<1> QED BY <1>8, <1>9, Upheld

\* The episodes are exchanged for others with the same links.
LEMMA Exchanged ==
  ASSUME IInv, Links, OneIssue, UNCHANGED issues,
         \A c \in Callers : phase[c] # "created",
         \A f \in Fps : Latest[f] # None => Latest'[f] # None /\ Latest'[f].issue = Latest[f].issue
  PROVE  Links' /\ OneIssue'
<1>1. Grows
  BY StillGrows
<1>2. \A i \in DOMAIN issues : issues[i].fp \in Fps
  <2>1. \A i \in DOMAIN issues : issues[i] \in GitHubIssues
    BY DEF IInv, Filings
  <2> QED BY <2>1 DEF GitHubIssues
<1>3. \A i \in DOMAIN issues : Named(i) => Named(i)'
  BY <1>2 DEF Named
<1> QED BY <1>1, <1>3, Upheld DEF Fresh

\* Building keeps every link.
LEMMA BuildKeepsLink ==
  ASSUME NEW b, NEW q, NEW episodes, AllSound(episodes, b, q), NEW ss, NEW f \in Fps,
         episodes[f] # None
  PROVE  /\ BuildEpisodes(ss, episodes)[f] # None
         /\ BuildEpisodes(ss, episodes)[f].issue = episodes[f].issue
<1> DEFINE old == episodes[f]
           u == Unseen({s \in ss : s.fp = f}, old)
<1>1. DOMAIN episodes = Fps /\ Shaped(old)
  BY DEF AllSound, Sound
<1>2. BuildEpisodes(ss, episodes)[f] = IF u = {} THEN old ELSE MergeEpisode(old, u)
  BY <1>1 DEF BuildEpisodes, BuildOf
<1> HIDE DEF u
<1>3. Shaped(MergeEpisode(old, u)) /\ MergeEpisode(old, u).issue = old.issue
  <2> DEFINE delta == BuildEpisode(u)
             runs == old.runs \cup delta.runs
             features == old.features \cup Features(u, runs)
             life == Max({old.life, delta.life})
             changed == Classify(features) # Class(old)
             m == [old EXCEPT !.count = @ + Cardinality(u),
                              !.ids = Bounded(@ \cup Ats(u)),
                              !.last = Max({@, delta.last}),
                              !.features = features, !.runs = runs, !.life = life,
                              !.state = MergedState(old, delta, life, features),
                              !.ai = Verdict(old, changed)]
  <2>1. MergeEpisode(old, u) = IF changed THEN Renewed(m) ELSE m
    BY DEF MergeEpisode
  <2> HIDE DEF delta, runs, features, life, changed
  <2>2. DOMAIN old = Fields
    BY <1>1 DEF Shaped
  <2>3. Shaped(m) /\ m.issue = old.issue
    BY <2>2 DEF Shaped, Fields
  <2> HIDE DEF m
  <2>4. Shaped(Renewed(m)) /\ Renewed(m).issue = m.issue
    BY <2>3, RenewedAlike DEF Alike
  <2> QED BY <2>1, <2>3, <2>4
<1> QED BY <1>1, <1>2, <1>3, Alikes

\* What happens outside a run leaves the links.
LEMMA OutsideLinks ==
  ASSUME IInv, Links, OneIssue, UNCHANGED <<saved, phase, run>>,
         \/ UNCHANGED issues
         \/ \E i \in DOMAIN issues : MergePullRequest(i) \/ Index(i)
  PROVE  Links' /\ OneIssue'
<1>1. Grows
  BY StillGrows, MarkedIs DEF Grows, MergePullRequest, Index
<1> QED BY <1>1, Steady

\* So does a caller that is not at work.
LEMMA WaitingLinks ==
  ASSUME IInv, Links, OneIssue, NEW c \in Callers, UNCHANGED <<saved, issues>>,
         AtWork => UNCHANGED run, phase[c] \notin {"running", "created"},
         NEW p, p \notin {"running", "created"}, phase' = [phase EXCEPT ![c] = p]
  PROVE  Links' /\ OneIssue'
<1>1. \A d \in Callers :
        {phase[d], phase'[d]} \cap {"running", "created"} # {} => phase'[d] = phase[d]
  BY DEF IInv, Alone
<1> QED BY <1>1, StillGrows, Steady

\* A run takes over the links on disk.
LEMMA BeginLinks ==
  ASSUME IInv, Links, OneIssue, NEW c \in Callers, BeginRun(c)
  PROVE  Links' /\ OneIssue'
<1>1. /\ Free /\ run'.work = BuildEpisodes(signals, saved)
      /\ phase' = [phase EXCEPT ![c] = "running"] /\ UNCHANGED issues
  BY DEF BeginRun
<1>2. /\ ~AtWork /\ \A d \in Callers : phase[d] # "created"
  BY <1>1 DEF Free, Holds, AtWork
<1>3. AtWork'
  <2>1. phase'[c] = "running"
    BY <1>1 DEF IInv, Alone
  <2> QED BY <2>1 DEF AtWork
<1>4. Latest = saved /\ Latest' = BuildEpisodes(signals, saved)
  BY <1>1, <1>2, <1>3 DEF Latest
<1>5. AllSound(saved, born, issues)
  BY DEF IInv
<1>6. \A f \in Fps : saved[f] # None =>
        /\ BuildEpisodes(signals, saved)[f] # None
        /\ BuildEpisodes(signals, saved)[f].issue = saved[f].issue
  BY <1>5, BuildKeepsLink
<1> QED BY <1>1, <1>2, <1>4, <1>6, Exchanged

\* A verdict or a failed analysis is not about the link.
LEMMA LookLinks ==
  ASSUME IInv, Links, OneIssue, NEW c \in Callers, Skip(c) \/ Analyse(c) \/ AnalysisFails(c)
  PROVE  Links' /\ OneIssue'
<1>1. Looking(c) /\ UNCHANGED <<phase, issues>>
  BY DEF Skip, Analyse, AnalysisFails
<1>2. Shaped(Episode)
  BY <1>1, LooksAt DEF Sound
<1>3. phase' = [phase EXCEPT ![c] = "running"]
  BY <1>1, StillRunning
<1>4. PICK e : /\ Shaped(e) /\ e.issue = Episode.issue
               /\ Keeps(e) \/ Leaves(e) \/ Opens(e)
  <2>1. CASE Skip(c)
    BY <1>2, <2>1 DEF Skip
  <2>2. CASE Analyse(c)
    <3>1. PICK verdict, e :
            /\ e = [Episode EXCEPT !.ai = verdict, !.judged = Episode.count,
                                   !.attempts = @ + 1, !.wait = FALSE]
            /\ Keeps(e)
      BY <2>2 DEF Analyse
    <3>2. Shaped(e) /\ e.issue = Episode.issue
      BY <1>2, <3>1 DEF Shaped, Fields
    <3> QED BY <3>1, <3>2
  <2>3. CASE AnalysisFails(c)
    <3>1. PICK e :
            /\ \/ e = [Episode EXCEPT !.attempts = @ + 1, !.open = TRUE, !.gen = @ + 1]
               \/ e = [Episode EXCEPT !.attempts = @ + 1, !.wait = TRUE]
            /\ Opens(e) \/ Leaves(e)
      BY <2>3 DEF AnalysisFails
    <3>2. Shaped(e) /\ e.issue = Episode.issue
      BY <1>2, <3>1 DEF Shaped, Fields
    <3> QED BY <3>1, <3>2
  <2> QED BY <2>1, <2>2, <2>3
<1>5. \A i : ~Fresh(i)
  <2>1. \A d \in Callers : Holds(d) => d = c
    BY <1>1, LooksAt
  <2> QED BY <1>1, <2>1 DEF Fresh, Looking, Holds
<1>6. Grows
  BY <1>1, StillGrows
<1> QED BY <1>1, <1>3, <1>4, <1>5, <1>6, Worked

\* An Issue that was found or read back becomes the link; one that was not is lost.
LEMMA FileLinks ==
  ASSUME IInv, Links, OneIssue, NEW c \in Callers,
         Reuse(c) \/ ReadBack(c) \/ IssueFails(c) \/ Ambiguous(c)
  PROVE  Links' /\ OneIssue'
<1>1. Looking(c) \/ phase[c] = "created"
  BY DEF Reuse, ReadBack, IssueFails, Ambiguous
<1>2. /\ Shaped(Episode) /\ Fp \in Fps
      /\ \A d \in Callers : Holds(d) => d = c
  BY <1>1, LooksAt DEF Sound
<1>3. Looking(c) => \A i : ~Fresh(i)
  BY <1>2 DEF Fresh, Looking, Holds
<1>4. phase[c] = "created" =>
        Episode.issue = 0 /\ Len(issues) > 0 /\ issues[Len(issues)].fp = Fp
  BY DEF IInv, RunOk, Fileable
<1>5. CASE Reuse(c)
  <2>1. PICK i \in Matches : Leaves(Filed(Episode, i))
    BY <1>5 DEF Reuse
  <2>2. PICK e : e = Filed(Episode, i)
    OBVIOUS
  <2>3. Shaped(e)
    BY <1>2, <2>2 DEF Filed, Shaped, Fields
  <2>4. /\ Looking(c) /\ Episode.issue = 0 /\ Grows
        /\ phase' = [phase EXCEPT ![c] = "running"]
    BY <1>5, StillGrows, StillRunning DEF Reuse, Fileable
  <2> QED BY <1>3, <2>1, <2>2, <2>3, <2>4, Worked
<1>6. CASE ReadBack(c)
  <2>1. PICK e : e = Filed(Episode, Len(issues))
    OBVIOUS
  <2>2. Shaped(e) /\ e.issue = Len(issues)
    BY <1>2, <2>1 DEF Filed, Shaped, Fields
  <2>3. /\ phase[c] = "created" /\ Leaves(e) /\ Grows
        /\ phase' = [phase EXCEPT ![c] = "running"]
    BY <1>6, <2>1, StillGrows DEF ReadBack
  <2>4. \A i : Fresh(i) => issues[i].fp = Fp /\ e.issue = i
    BY <1>4, <2>2, <2>3 DEF Fresh
  <2> QED BY <1>4, <2>2, <2>3, <2>4, Worked
<1>7. CASE IssueFails(c) \/ Ambiguous(c)
  <2>1. Fails
    BY <1>7 DEF IssueFails, Ambiguous
  <2>2. PICK e :
          /\ \/ e = [Episode EXCEPT !.issueAttempts = @ + 1, !.issueOpen = TRUE,
                                    !.issueGen = @ + 1]
             \/ e = [Episode EXCEPT !.issueAttempts = @ + 1, !.issueWait = TRUE]
          /\ Opens(e) \/ Leaves(e)
    BY <2>1 DEF Fails
  <2>3. Shaped(e) /\ e.issue = Episode.issue
    BY <1>2, <2>2 DEF Shaped, Fields
  <2>4. phase' = [phase EXCEPT ![c] = "running"]
    BY <1>7, StillRunning DEF IssueFails, Ambiguous
  <2>5. CASE Looking(c)
    <3>1. UNCHANGED issues
      BY <1>7, <2>5 DEF IssueFails, Ambiguous, Looking
    <3> QED BY <1>3, <2>2, <2>3, <2>4, <2>5, <3>1, StillGrows, Worked
  <2>6. CASE phase[c] = "created"
    <3>1. Abandon({Len(issues)})
      BY <1>7, <2>6 DEF IssueFails, Ambiguous, Looking
    <3>2. Grows /\ \A i \in DOMAIN issues : Fresh(i) => ~Unfound(i)'
      BY <3>1, AbandonIs DEF Grows, Fresh, Unfound
    <3> QED BY <2>2, <2>3, <2>4, <2>6, <3>2, Worked
  <2> QED BY <1>1, <2>5, <2>6
<1> QED BY <1>5, <1>6, <1>7

\* A second Issue is created only beside lost ones: of those that the search does not
\* find the episode would name the one that is not.
LEMMA CreateLinks ==
  ASSUME IInv, Links, OneIssue, NEW c \in Callers, Create(c)
  PROVE  Links' /\ OneIssue'
<1>1. /\ Looking(c) /\ Fileable(Episode) /\ Matches = {}
      /\ phase' = [phase EXCEPT ![c] = "created"]
      /\ UNCHANGED <<saved, run>>
  BY DEF Create
<1>2. \A d \in Callers : Holds(d) => d = c
  BY <1>1, LooksAt
<1>3. PICK new :
        /\ new = [fp |-> Fp, merged |-> FALSE, indexed |-> FALSE, lost |-> FALSE]
        /\ issues' = Append(issues, new)
  BY DEF Create
<1>4. issues \in Seq(GitHubIssues) /\ Len(issues) \in Nat
  BY DEF IInv, Filings
<1>5. /\ DOMAIN issues = 1..Len(issues)
      /\ DOMAIN issues' = DOMAIN issues \cup {Len(issues) + 1}
      /\ Len(issues') = Len(issues) + 1
      /\ \A i \in DOMAIN issues : issues'[i] = issues[i]
      /\ issues'[Len(issues) + 1] = new
  BY <1>3, <1>4
<1>6. /\ AtWork /\ \A i : ~Fresh(i)
  BY <1>1, <1>2 DEF AtWork, Fresh, Looking, Holds
<1>7. phase'[c] = "created"
  BY <1>1 DEF IInv, Alone
<1>8. Latest' = Latest
  <2>1. AtWork'
    BY <1>7 DEF AtWork
  <2> QED BY <1>1, <1>6, <2>1 DEF Latest
<1>9. \A n : n = Len(issues) + 1 => Fresh(n)'
  BY <1>5, <1>7 DEF Fresh
<1>10. Links'
  <2>1. ASSUME NEW i \in DOMAIN issues, Unfound(i)' PROVE Named(i)'
    <3>1. Unfound(i) /\ issues'[i] = issues[i]
      BY <1>5, <2>1 DEF Unfound
    <3> QED BY <1>6, <1>8, <3>1 DEF Links, Named
  <2> QED BY <1>5, <1>9, <2>1 DEF Links
<1>11. ASSUME NEW i \in DOMAIN issues, issues[i].fp = Fp PROVE issues[i].lost
  <2>1. ~issues[i].indexed
    BY <1>1, <1>11 DEF Matches
  <2>2. Latest[Fp].issue = 0
    BY <1>1, <1>6 DEF Latest, Episode, Fileable
  <2>3. i # 0
    BY <1>5
  <2> QED BY <1>6, <1>11, <2>1, <2>2, <2>3 DEF Links, Unfound, Named
<1>12. new.fp = Fp
  BY <1>3
<1>13. OneIssue'
  <2> SUFFICES ASSUME NEW i \in DOMAIN issues', NEW j \in DOMAIN issues', i < j,
                      issues'[i].fp = issues'[j].fp
               PROVE  issues'[i].lost
    BY DEF OneIssue
  <2>1. i \in DOMAIN issues
    BY <1>4, <1>5
  <2>2. CASE j \in DOMAIN issues
    BY <1>5, <2>1, <2>2 DEF OneIssue
  <2>3. CASE j = Len(issues) + 1
    BY <1>5, <1>11, <1>12, <2>1, <2>3
  <2> QED BY <1>5, <2>2, <2>3
<1> QED BY <1>10, <1>13

\* A cancelled run saves the other links.
LEMMA CancelLinks ==
  ASSUME IInv, Links, OneIssue, NEW c \in Callers, Cancel(c)
  PROVE  Links' /\ OneIssue'
<1>1. /\ Looking(c) \/ phase[c] = "created"
      /\ run' = [run EXCEPT !.todo = {}] /\ phase' = [phase EXCEPT ![c] = "running"]
  BY DEF Cancel
<1>2. RunSound(run, born, issues) /\ \A d \in Callers : Holds(d) => d = c
  BY <1>1, LooksAt
<1>3. AtWork /\ AtWork'
  <2>1. phase'[c] = "running"
    BY <1>1 DEF IInv, Alone
  <2> QED BY <1>1, <2>1 DEF AtWork, Looking
<1>4. Latest' = Latest
  <2>1. PICK t, w, x : run = [todo |-> t, work |-> w, circuits |-> x]
    BY <1>2 DEF RunSound
  <2>2. run'.work = w /\ run.work = w
    BY <1>1, <2>1
  <2> QED BY <1>3, <2>2 DEF Latest
<1>5. Grows
  BY StillGrows, AbandonIs DEF Cancel, Grows
<1>6. \A i \in DOMAIN issues : Named(i) => Named(i)'
  BY <1>4, <1>5 DEF Named, Grows, SameIssues
<1>7. \A i \in DOMAIN issues : Fresh(i) => ~Unfound(i)'
  <2>1. CASE phase[c] = "created"
    BY <2>1, AbandonIs DEF Cancel, Looking, Fresh, Unfound
  <2>2. CASE Looking(c)
    BY <1>2, <2>2 DEF Looking, Holds, Fresh
  <2> QED BY <1>1, <2>1, <2>2
<1> QED BY <1>5, <1>6, <1>7, Upheld

\* The links reach the disk.
LEMMA SaveLinks ==
  ASSUME IInv, Links, OneIssue, NEW c \in Callers, Save(c)
  PROVE  Links' /\ OneIssue'
<1>1. /\ phase[c] = "running" /\ saved' = BuildEpisodes(Announced, run.work)
      /\ phase' = [phase EXCEPT ![c] = "saved"] /\ UNCHANGED issues
  BY DEF Save
<1>2. RunSound(run, born, issues) /\ \A d \in Callers : Holds(d) => d = c
  BY <1>1, Holder DEF IInv, RunOk, Holds
<1>3. /\ AtWork /\ ~AtWork' /\ \A d \in Callers : phase[d] # "created"
  <2>1. \A d \in Callers : phase'[d] = IF d = c THEN "saved" ELSE phase[d]
    BY <1>1 DEF IInv, Alone
  <2> QED BY <1>1, <1>2, <2>1 DEF AtWork, Holds
<1>4. Latest = run.work /\ Latest' = BuildEpisodes(Announced, run.work)
  BY <1>1, <1>3 DEF Latest
<1>5. AllSound(run.work, born, issues)
  BY <1>2 DEF RunSound
<1>6. \A f \in Fps : run.work[f] # None =>
        /\ BuildEpisodes(Announced, run.work)[f] # None
        /\ BuildEpisodes(Announced, run.work)[f].issue = run.work[f].issue
  BY <1>5, BuildKeepsLink
<1> QED BY <1>1, <1>3, <1>4, <1>6, Exchanged

\* A crash loses the Issues that are neither on disk nor in the index.
LEMMA CrashLinks ==
  ASSUME IInv, Links, OneIssue, NEW c \in Callers, Crash(c)
  PROVE  Links' /\ OneIssue'
<1>1. /\ phase' = [phase EXCEPT ![c] = "idle"] /\ UNCHANGED saved
      /\ run' = IF Holds(c) THEN NoRun ELSE run
  BY DEF Crash
<1>2. CASE phase[c] \in {"running", "created"}
  <2>1. Abandon(Unsaved)
    BY <1>2 DEF Crash
  <2>2. \A d \in Callers : Holds(d) => d = c
    BY <1>2, Holder DEF Holds
  <2>3. ~AtWork'
    <3>1. \A d \in Callers : phase'[d] = IF d = c THEN "idle" ELSE phase[d]
      BY <1>1 DEF IInv, Alone
    <3> QED BY <2>2, <3>1 DEF AtWork, Holds
  <2>4. Latest' = saved
    BY <1>1, <2>3 DEF Latest
  <2>5. Grows
    BY <2>1, AbandonIs DEF Grows
  <2>6. \A i \in DOMAIN issues : Unfound(i)' => i \notin Unsaved
    BY <2>1, AbandonIs DEF Unfound
  <2>7. \A i \in DOMAIN issues : Unfound(i)' => Named(i)'
    BY <2>4, <2>5, <2>6 DEF Unsaved, Named, Grows, SameIssues
  <2> QED BY <2>5, <2>7, Upheld
<1>3. CASE phase[c] \notin {"running", "created"}
  <2>1. UNCHANGED issues
    BY <1>3 DEF Crash
  <2>2. AtWork => UNCHANGED run
    BY <1>1, <1>3 DEF IInv, Alone, AtWork, Holds
  <2> QED BY <1>1, <1>3, <2>1, <2>2, WaitingLinks
<1> QED BY <1>2, <1>3

\* A retry and the end of a backoff are not about links.
LEMMA RewriteLinks ==
  ASSUME IInv, Links, OneIssue, NEW f \in Fps, Reset(f) \/ BackoffEnds(f)
  PROVE  Links' /\ OneIssue'
<1>1. Free /\ UNCHANGED <<issues, phase, run>> /\ saved[f] # None
  BY DEF Reset, BackoffEnds
<1>2. ~AtWork /\ ~AtWork' /\ \A d \in Callers : phase[d] # "created"
  BY <1>1 DEF Free, Holds, AtWork
<1>3. Latest = saved /\ Latest' = saved'
  BY <1>2 DEF Latest
<1>4. /\ saved = [g \in Fps |-> saved[g]]
      /\ \A g \in Fps : saved[g] # None => Shaped(saved[g])
  BY DEF IInv, AllSound, Sound
<1>5. ASSUME NEW g \in Fps, saved[g] # None
      PROVE  saved'[g] # None /\ saved'[g].issue = saved[g].issue
  <2>1. PICK e : e = saved[g]
    OBVIOUS
  <2>2. Shaped(e) /\ DOMAIN e = Fields
    BY <1>4, <1>5, <2>1 DEF Shaped
  <2>3. /\ Shaped(Renewed(e)) /\ Renewed(e).issue = e.issue
    BY <2>2, RenewedAlike DEF Alike
  <2>4. /\ Shaped(Recovered(e)) /\ Recovered(e).issue = e.issue
    BY <2>2 DEF Recovered, Shaped, Fields
  <2>5. /\ Shaped([e EXCEPT !.wait = FALSE, !.issueWait = FALSE])
        /\ [e EXCEPT !.wait = FALSE, !.issueWait = FALSE].issue = e.issue
    BY <2>2 DEF Shaped, Fields
  <2>6. CASE Reset(f)
    <3>1. saved'[g] \in {Renewed(e), Recovered(e), e}
      BY <2>1, <2>6 DEF Reset
    <3> QED BY <1>5, <2>1, <2>3, <2>4, <3>1, Alikes
  <2>7. CASE BackoffEnds(f)
    <3>1. saved'[g] = e \/ saved'[g] = [e EXCEPT !.wait = FALSE, !.issueWait = FALSE]
      BY <1>4, <2>1, <2>7 DEF BackoffEnds
    <3> QED BY <1>5, <2>1, <2>5, <3>1, Alikes
  <2> QED BY <1>1, <2>6, <2>7
<1> QED BY <1>1, <1>2, <1>3, <1>5, Exchanged

\* Every step keeps the links, and with them one Issue that is not lost.
LEMMA NextLinks ==
  ASSUME IInv, Links, OneIssue, [Next]_vars
  PROVE  Links' /\ OneIssue'
<1>1. ASSUME NEW f \in Incidents, NEW kind \in Observed, NEW r \in NextRuns(f), Record(f, kind, r)
      PROVE  Links' /\ OneIssue'
  BY <1>1, OutsideLinks DEF Record
<1>2. ASSUME NEW f \in Incidents, NEW kind \in Committed, NEW r \in NextRuns(f),
             CommitEvent(f, kind, r)
      PROVE  Links' /\ OneIssue'
  BY <1>2, OutsideLinks DEF CommitEvent
<1>3. ASSUME NEW i \in DOMAIN issues, MergePullRequest(i) \/ Index(i) PROVE Links' /\ OneIssue'
  BY <1>3, OutsideLinks DEF MergePullRequest, Index
<1>4. CASE Rotate
  BY <1>4, OutsideLinks DEF Rotate
<1>5. ASSUME NEW c \in Callers,
             \/ Collect(c) \/ CollectRefused(c) \/ StartAgain(c) \/ SaveCursor(c) \/ Busy(c)
      PROVE  Links' /\ OneIssue'
  <2>1. /\ UNCHANGED <<saved, issues, run>> /\ phase[c] \notin {"running", "created"}
        /\ \E p \in {"idle", "failed", "cursor", "collected"} : phase' = [phase EXCEPT ![c] = p]
    BY <1>5 DEF Collect, CollectRefused, StartAgain, SaveCursor, Busy
  <2> QED BY <2>1, WaitingLinks
<1>6. ASSUME NEW c \in Callers, Announce(c) PROVE Links' /\ OneIssue'
  <2>1. /\ UNCHANGED <<saved, issues>> /\ phase[c] = "saved"
        /\ phase' = [phase EXCEPT ![c] = "idle"]
    BY <1>6 DEF Announce
  <2>2. ~AtWork
    BY <2>1 DEF IInv, Alone, AtWork, Holds
  <2> QED BY <2>1, <2>2, WaitingLinks
<1>7. ASSUME NEW c \in Callers, Step(c) \/ Cancel(c) \/ Crash(c) PROVE Links' /\ OneIssue'
  BY <1>5, <1>6, <1>7, BeginLinks, LookLinks, FileLinks, CreateLinks, CancelLinks, SaveLinks,
     CrashLinks DEF Step
<1>8. ASSUME NEW f \in Fps, Reset(f) \/ BackoffEnds(f) PROVE Links' /\ OneIssue'
  BY <1>8, RewriteLinks
<1>9. CASE UNCHANGED vars
  BY <1>9, OutsideLinks DEF vars
<1> QED BY <1>1, <1>2, <1>3, <1>4, <1>5, <1>7, <1>8, <1>9 DEF Next

-----------------------------------------------------------------------------
(* The theorems about incidents. *)

\* Nothing is recorded, stored or filed at first.
LEMMA IncidentInit ==
  ASSUME Init
  PROVE  IInv
<1>1. Births
  BY DEF Init, Births
<1>2. Filings /\ Recorded
  BY DEF Init, Filings, Recorded, Dated, Distinct
<1>3. Stored
  BY DEF Init, Stored
<1>4. Alone
  BY DEF Init, Alone, Holds
<1>5. AllSound(saved, born, issues)
  BY DEF Init, AllSound
<1>6. RunOk /\ AnnouncedOk
  BY DEF Init, RunOk, AnnouncedOk
<1> QED BY <1>1, <1>2, <1>3, <1>4, <1>5, <1>6 DEF IInv

\* A stutter.
LEMMA Stutter ==
  ASSUME IInv, UNCHANGED vars
  PROVE  IInv'
<1>1. Births' /\ Filings' /\ Recorded' /\ AllSound(saved, born, issues)'
  BY DEF IInv, vars, Births, Filings, Recorded, Dated, Distinct, BornFor
<1>2. Stored' /\ Alone'
  BY DEF IInv, vars, Stored, EventOk, BornFor, Alone, Holds
<1>3. RunOk' /\ AnnouncedOk'
  BY DEF IInv, vars, RunOk, AnnouncedOk, Episode, Fp, Fileable, Handled, Eligible, Dated,
         Distinct, BornFor
<1> QED BY <1>1, <1>2, <1>3 DEF IInv

\* A step of a cycle that has begun.
LEMMA CycleStep ==
  ASSUME IInv, NEW c \in Callers, Step(c)
  PROVE  IInv'
<1>1. CASE SaveCursor(c) \/ Busy(c)
  BY <1>1, WaitingStep
<1>2. CASE BeginRun(c)
  BY <1>2, BeginStep
<1>3. CASE Skip(c) \/ Analyse(c) \/ AnalysisFails(c)
  BY <1>3, AnalyseStep
<1>4. CASE Reuse(c) \/ ReadBack(c) \/ IssueFails(c) \/ Ambiguous(c)
  BY <1>4, FileStep
<1>5. CASE Create(c)
  BY <1>5, CreateStep
<1>6. CASE Save(c)
  BY <1>6, SaveStep
<1>7. CASE Announce(c)
  BY <1>7, AnnounceStep
<1> QED BY <1>1, <1>2, <1>3, <1>4, <1>5, <1>6, <1>7 DEF Step

\* Every step keeps the invariant.
LEMMA NextHolds ==
  ASSUME IInv, [Next]_vars
  PROVE  IInv'
<1>0. ASSUME NEW f \in Incidents, NEW kind \in Observed, NEW r \in NextRuns(f), Record(f, kind, r)
      PROVE  IInv'
  BY <1>0, RecordStep
<1>1. ASSUME NEW f \in Incidents, NEW kind \in Committed, NEW r \in NextRuns(f),
             CommitEvent(f, kind, r)
      PROVE  IInv'
  BY <1>1, CommitStep
<1>2. ASSUME NEW i \in DOMAIN issues, MergePullRequest(i) \/ Index(i) PROVE IInv'
  BY <1>2, MergeStep, IndexStep
<1>3. CASE Rotate
  BY <1>3, RotateStep
<1>4. ASSUME NEW c \in Callers,
             \/ Collect(c) \/ CollectRefused(c) \/ StartAgain(c)
             \/ Step(c) \/ Cancel(c) \/ Crash(c)
      PROVE  IInv'
  BY <1>4, CollectStep, WaitingStep, CycleStep, CancelStep, CrashStep
<1>5. ASSUME NEW f \in Fps, Reset(f) \/ BackoffEnds(f) PROVE IInv'
  BY <1>5, ResetStep, BackoffStep
<1>6. CASE UNCHANGED vars
  BY <1>6, Stutter
<1> QED BY <1>0, <1>1, <1>2, <1>3, <1>4, <1>5, <1>6 DEF Next

\* The invariant holds of every behaviour.
THEOREM IncidentInvariant == Spec => []IInv
<1>1. Init => IInv
  BY IncidentInit
<1>2. IInv /\ [Next]_vars => IInv'
  BY NextHolds
<1> QED BY <1>1, <1>2, PTL DEF Spec

\* A fingerprint gets a second Issue only when the earlier one was lost: the run that
\* filed it ended before it was saved and before the search index had it (ensureIssue).
THEOREM OneIncidentOneIssue == Spec => []OneIssue
<1>1. Init => Links /\ OneIssue
  BY DEF Init, Links, OneIssue
<1>2. IInv /\ Links /\ OneIssue /\ [Next]_vars => Links' /\ OneIssue'
  BY NextLinks
<1> QED BY <1>1, <1>2, IncidentInvariant, PTL DEF Spec

\* No episode counts more signals than happened: none twice that is collected again
\* after a crash, or whose ID was cut off.
THEOREM NoSignalTwice == Spec => []CountedOnce
<1>1. IInv => CountedOnce
  <2> SUFFICES ASSUME IInv, NEW f \in Fps, saved[f] # None
               PROVE  saved[f].count <= Cardinality(born[f])
    BY DEF CountedOnce
  <2> DEFINE past == {b \in born[f] : b <= saved[f].last}
  <2>1. clock \in Nat /\ born[f] \in SUBSET (1..clock)
    BY DEF IInv, Births
  <2>2. saved[f].count \in Nat /\ saved[f].count <= Cardinality(past)
    BY DEF IInv, AllSound, Sound, Counted
  <2>3. past \subseteq born[f]
    OBVIOUS
  <2> HIDE DEF past
  <2>4. IsFiniteSet(born[f])
    <3>1. IsFiniteSet(1..clock)
      BY <2>1, Finite
    <3> QED BY <2>1, <3>1, FS_Subset
  <2>5. IsFiniteSet(past) /\ Cardinality(past) <= Cardinality(born[f])
    BY <2>3, <2>4, FS_Subset
  <2>6. Cardinality(past) \in Nat /\ Cardinality(born[f]) \in Nat
    BY <2>4, <2>5, FS_CardinalityType
  <2> QED BY <2>2, <2>5, <2>6
<1> QED BY <1>1, IncidentInvariant, PTL

\* An Issue is created on a verdict about every signal of its episode.
THEOREM CurrentEvidence == Spec => []FiledOnCurrentEvidence
<1>1. IInv => FiledOnCurrentEvidence
  <2> SUFFICES ASSUME IInv, NEW c \in Callers, phase[c] = "created"
               PROVE  Episode.judged = Episode.count
    BY DEF FiledOnCurrentEvidence
  <2>1. Fileable(Episode)
    BY DEF IInv, RunOk
  <2>2. Sound(Episode, born[Fp], IssuesOf(issues, Fp))
    BY LooksAt
  <2> QED BY <2>1, <2>2 DEF Fileable, Eligible, Sound
<1> QED BY <1>1, IncidentInvariant, PTL


-----------------------------------------------------------------------------
(* Migrations: the inductive invariants. *)

Journalled == journal.status # "none"

Converts == op.kind \in {"startup", "apply"}

\* The converted files of repository r.
SnapOut(r) == ConvertedSnap(journal.backup[r].snap)
LogOut(r) == ConvertedLog(journal.backup[r].snap, journal.backup[r].log, journal.id)

\* A migration or a rollback has the stores for itself, and the journal it goes by.
OpInv ==
  /\ op.kind = "none" => op = NoOp
  /\ op # NoOp => \A r \in Repos : runtime[r] \notin {"old", "up"}
  /\ op.kind = "startup" => op.repo \in Repos
  /\ Converts => Prepared /\ Unprogressed
  /\ op.kind = "rollback" => Journalled

\* What the backup holds belongs together, and is never newer than the files.
BackupInv ==
  Journalled =>
    \A r \in Repos :
      LET b == journal.backup[r] IN
      /\ Readable(b.snap, b.log)
      /\ b.snap.version = 6 => snap[r].version = 6

\* A converted snapshot has its log beside it, whatever was cut, and this is what the
\* order of the files is for.
WholeInv ==
  /\ \A r \in Repos : snap[r].version = 6 => Readable(snap[r], log[r])
  /\ \A r \in Repos : runtime[r] = "up" => snap[r].version = 6
  /\ Converts => \A r \in Repos : <<r, "log">> \notin op.todo => log[r] = LogOut(r)
  /\ op.kind = "rollback" =>
       \A r \in Repos :
         LET b == journal.backup[r] IN
         /\ <<r, "snap">> \notin op.todo => snap[r] = b.snap
         /\ b.snap.version = 6 => snap[r].revision = b.snap.revision

\* The old binary runs only where somebody starts it, and so does not touch the files of
\* a prepared migration.
OldInv ==
  /\ \A r \in Repos : runtime[r] = "old" => journal.status \in OldStatuses
  /\ PreparedResumable

\* It reads its own version only.
OldReads == \A r \in Repos : runtime[r] = "old" => snap[r].version = 5

\* The files of r are those of the backup or converted ones, and all the work is in both.
Kept(r) ==
  LET b == journal.backup[r] IN
  /\ snap[r] \in {b.snap, SnapOut(r)}
  /\ log[r] \in {b.log, LogOut(r)}
  /\ WorkIn(b.log.entries) = done[r]

\* The new binary has gone on, which a rollback notices.
Ahead(r) ==
  /\ snap[r].version = 6 /\ snap[r].revision > SnapOut(r).revision
  /\ Durable(r)

\* The old binary has, which a rollback may take for the migration.
OldAhead(r) ==
  /\ snap[r].version = 5 /\ snap[r].revision > journal.backup[r].snap.revision
  /\ Durable(r)

\* Where no rollback went back behind the old binary.
WorkInv ==
  /\ ~Journalled => MigrationKeepsWork
  /\ Journalled => \A r \in Repos \ undone : Kept(r) \/ Ahead(r) \/ OldAhead(r)
  /\ Prepared => \A r \in Repos \ undone : Kept(r) \/ OldAhead(r)
  /\ op # NoOp => \A r \in Repos \ undone : Kept(r)

-----------------------------------------------------------------------------
(* Counting the work in a log. *)

\* The positions of work are finitely many.
LEMMA WorkFinite ==
  ASSUME NEW e \in Seq(IDs \cup {Work})
  PROVE  IsFiniteSet({i \in DOMAIN e : e[i] = Work}) /\ WorkIn(e) \in Nat
<1> DEFINE W == {i \in DOMAIN e : e[i] = Work}
<1>1. IsFiniteSet(1..Len(e))
  BY FS_Interval
<1>2. W \in SUBSET (1..Len(e))
  OBVIOUS
<1>3. IsFiniteSet(W)
  BY <1>1, <1>2, FS_Subset
<1> QED BY <1>3, FS_CardinalityType DEF WorkIn

\* A commit adds one piece of work, the audit of a migration none.
LEMMA WorkAppend ==
  ASSUME NEW e \in Seq(IDs \cup {Work}), NEW x \in IDs \cup {Work}
  PROVE  /\ x = Work => WorkIn(Append(e, x)) = WorkIn(e) + 1
         /\ x # Work => WorkIn(Append(e, x)) = WorkIn(e)
<1> DEFINE W == {i \in DOMAIN e : e[i] = Work}
           f == Append(e, x)
           V == {i \in DOMAIN f : f[i] = Work}
<1>1. IsFiniteSet(W) /\ WorkIn(e) = Cardinality(W) /\ WorkIn(f) = Cardinality(V)
  BY WorkFinite DEF WorkIn
<1>2. /\ DOMAIN f = DOMAIN e \cup {Len(e) + 1}
      /\ \A i \in DOMAIN e : f[i] = e[i]
      /\ f[Len(e) + 1] = x /\ Len(e) + 1 \notin DOMAIN e
  OBVIOUS
<1> HIDE DEF f
<1>3. ASSUME x = Work PROVE WorkIn(f) = WorkIn(e) + 1
  <2>1. V = W \cup {Len(e) + 1} /\ Len(e) + 1 \notin W
    BY <1>2, <1>3
  <2> HIDE DEF W, V
  <2>2. Cardinality(W \cup {Len(e) + 1}) = Cardinality(W) + 1
    BY <1>1, <2>1, FS_AddElement
  <2> QED BY <1>1, <2>1, <2>2
<1>4. ASSUME x # Work PROVE WorkIn(f) = WorkIn(e)
  <2>1. V = W
    BY <1>2, <1>4
  <2> QED BY <1>1, <2>1
<1> QED BY <1>3, <1>4 DEF f

-----------------------------------------------------------------------------
(* What the conversion and a commit make of the files. *)

\* The conversion keeps types and work; a pair that belongs together becomes one of
\* version 6 that does, one revision on, and one of version 6 stays as it is.
LEMMA Conversion ==
  ASSUME NEW s \in Snapshots, NEW l \in Logs, NEW id \in IDs
  PROVE  /\ ConvertedSnap(s) \in Snapshots /\ ConvertedSnap(s).version = 6
         /\ ConvertedLog(s, l, id) \in Logs
         /\ WorkIn(ConvertedLog(s, l, id).entries) = WorkIn(l.entries)
         /\ s.version = 6 => ConvertedSnap(s) = s /\ ConvertedLog(s, l, id) = l
         /\ s.version # 6 => s.version = 5 /\ ConvertedSnap(s).revision = s.revision + 1
         /\ Readable(s, l) => Readable(ConvertedSnap(s), ConvertedLog(s, l, id))
<1>1. CASE s.version = 6
  BY <1>1 DEF Snapshots, ConvertedSnap, ConvertedLog
<1>2. CASE s.version = 5
  <2>1. /\ ConvertedSnap(s) \in Snapshots /\ ConvertedSnap(s).version = 6
        /\ ConvertedSnap(s).revision = s.revision + 1
    <3>1. s.busy \in BOOLEAN /\ s.revision \in Nat
      BY DEF Snapshots
    <3>2. s = [version |-> s.version, revision |-> s.revision, busy |-> s.busy]
      BY DEF Snapshots
    <3>3. ConvertedSnap(s) = [version |-> 6, revision |-> s.revision + 1, busy |-> s.busy]
      BY <1>2, <3>2, Zenon DEF ConvertedSnap
    <3>4. s.revision + 1 \in Nat
      BY <3>1
    <3> QED BY <3>1, <3>3, <3>4 DEF Snapshots
  <2>2. l.entries \in Seq(IDs \cup {Work}) /\ id # Work /\ id \in IDs \cup {Work}
    BY DEF Logs, IDs, Work
  <2>3. ConvertedLog(s, l, id) = [version |-> 6, entries |-> Append(l.entries, id)]
    BY <1>2 DEF ConvertedLog
  <2>4. ConvertedLog(s, l, id) \in Logs
    BY <2>2, <2>3 DEF Logs
  <2>5. WorkIn(ConvertedLog(s, l, id).entries) = WorkIn(l.entries)
    BY <2>2, <2>3, WorkAppend
  <2>6. Len(Append(l.entries, id)) = Len(l.entries) + 1
    BY <2>2
  <2> QED BY <1>2, <2>1, <2>3, <2>4, <2>5, <2>6 DEF Readable
<1> QED BY <1>1, <1>2 DEF Snapshots

\* A commit is one revision and one event on.
LEMMA CommitMoves ==
  ASSUME MigrationTypeOK, NEW r \in Repos, NEW busy \in BOOLEAN, Commit(r, busy)
  PROVE  /\ snap' \in [Repos -> Snapshots] /\ log' \in [Repos -> Logs]
         /\ done' \in [Repos -> Nat]
         /\ \A q \in Repos \ {r} : snap'[q] = snap[q] /\ log'[q] = log[q] /\ done'[q] = done[q]
         /\ snap'[r].version = snap[r].version /\ log'[r].version = log[r].version
         /\ snap'[r].revision = snap[r].revision + 1
         /\ Len(log'[r].entries) = Len(log[r].entries) + 1
         /\ WorkIn(log'[r].entries) = WorkIn(log[r].entries) + 1
         /\ done'[r] = done[r] + 1
<1>1. snap[r] \in Snapshots /\ log[r] \in Logs /\ done[r] \in Nat
  BY DEF MigrationTypeOK
<1>2. /\ snap'[r] = [snap[r] EXCEPT !.revision = @ + 1, !.busy = busy]
      /\ log'[r] = [log[r] EXCEPT !.entries = Append(@, Work)]
      /\ done'[r] = done[r] + 1
      /\ \A q \in Repos \ {r} : snap'[q] = snap[q] /\ log'[q] = log[q] /\ done'[q] = done[q]
      /\ snap' \in [Repos -> {snap[q] : q \in Repos} \cup {snap'[r]}]
      /\ log' \in [Repos -> {log[q] : q \in Repos} \cup {log'[r]}]
      /\ done' = [done EXCEPT ![r] = @ + 1]
  BY DEF Commit, MigrationTypeOK
<1>3. /\ snap'[r] \in Snapshots
      /\ snap'[r].version = snap[r].version /\ snap'[r].revision = snap[r].revision + 1
  <2>1. /\ snap[r].revision + 1 \in Nat /\ snap[r].version \in {5, 6}
        /\ snap[r] = [version |-> snap[r].version, revision |-> snap[r].revision,
                      busy |-> snap[r].busy]
    BY <1>1 DEF Snapshots
  <2>2. snap'[r] = [version |-> snap[r].version, revision |-> snap[r].revision + 1,
                    busy |-> busy]
    BY <1>2, <2>1, Zenon
  <2> QED BY <2>1, <2>2 DEF Snapshots
<1>4. /\ log[r].entries \in Seq(IDs \cup {Work}) /\ log[r].version \in {5, 6}
      /\ log'[r] = [version |-> log[r].version, entries |-> Append(log[r].entries, Work)]
  BY <1>1, <1>2 DEF Logs
<1>5. /\ log'[r] \in Logs /\ log'[r].version = log[r].version
      /\ Len(log'[r].entries) = Len(log[r].entries) + 1
  BY <1>4 DEF Logs
<1>6. WorkIn(log'[r].entries) = WorkIn(log[r].entries) + 1
  BY <1>4, WorkAppend
<1>7. done' \in [Repos -> Nat]
  BY <1>1, <1>2 DEF MigrationTypeOK
<1>8. snap' \in [Repos -> Snapshots] /\ log' \in [Repos -> Logs]
  BY <1>2, <1>3, <1>5 DEF MigrationTypeOK
<1> QED BY <1>2, <1>3, <1>5, <1>6, <1>7, <1>8

-----------------------------------------------------------------------------
(* The types of the stores. *)

Backups == [Repos -> [snap : Snapshots, log : Logs]]

\* A journal that exists names a whole backup.
LEMMA JournalType ==
  ASSUME MigrationTypeOK, Journalled
  PROVE  /\ journal \in [status : Statuses \ {"none"}, id : IDs, backup : Backups]
         /\ journal.id \in IDs /\ journal.backup \in Backups
         /\ \A r \in Repos : journal.backup[r].snap \in Snapshots /\ journal.backup[r].log \in Logs
         /\ \A r \in Repos : SnapOut(r) \in Snapshots /\ LogOut(r) \in Logs
<1>1. journal \in [status : Statuses \ {"none"}, id : IDs, backup : Backups]
  BY DEF MigrationTypeOK, Journalled, Backups
<1>2. journal.id \in IDs /\ journal.backup \in Backups
  BY <1>1
<1>3. \A r \in Repos : journal.backup[r].snap \in Snapshots /\ journal.backup[r].log \in Logs
  BY <1>2 DEF Backups
<1> QED BY <1>1, <1>2, <1>3, Conversion DEF SnapOut, LogOut

\* A migration begins anew, with a backup of the files as they are, or is taken up.
LEMMA BeginMoves ==
  ASSUME MigrationTypeOK, NEW kind \in {"startup", "apply"}, NEW repo \in Repos \cup {0},
         Begin(kind, repo)
  PROVE  /\ op' = [kind |-> kind, repo |-> repo, todo |-> Outputs(journal'.backup)]
         /\ op'.todo = Outputs(journal'.backup) /\ op' # NoOp
         /\ op' \in [kind : {"none", "startup", "apply", "rollback"}, repo : Repos \cup {0},
                    todo : SUBSET Files]
         /\ journal' \in [status : Statuses \ {"none"}, id : IDs, backup : Backups]
         /\ journal'.status = "prepared"
         /\ \/ Prepared /\ Unprogressed /\ journal' = journal
            \/ /\ ~Prepared /\ journal'.backup = Current
               /\ \A r \in Repos : Convertible(snap[r], log[r], txn[r])
<1>1. /\ op' = [kind |-> kind, repo |-> repo, todo |-> Outputs(journal'.backup)]
      /\ op'.kind = kind /\ op'.repo = repo /\ op'.todo = Outputs(journal'.backup)
  BY DEF Begin
<1>2. op' \in [kind : {"none", "startup", "apply", "rollback"}, repo : Repos \cup {0},
              todo : SUBSET Files]
  BY <1>1 DEF Outputs
<1>3. CASE Prepared /\ Unprogressed /\ journal' = journal
  BY <1>1, <1>2, <1>3, JournalType DEF Prepared, Journalled, NoOp
<1>4. CASE /\ ~Prepared /\ journal.id < MaxBackups
           /\ journal' = [status |-> "prepared", id |-> journal.id + 1, backup |-> Current]
           /\ \A r \in Repos : Convertible(snap[r], log[r], txn[r])
  <2>1. Current \in Backups
    BY DEF Current, Backups, MigrationTypeOK
  <2>2. journal.id \in Nat
    BY DEF MigrationTypeOK, IDs
  <2>3. journal.id + 1 \in IDs
    BY <1>4, <2>2, BoundsAssumption DEF IDs
  <2>4. journal' \in [status : Statuses \ {"none"}, id : IDs, backup : Backups]
    BY <1>4, <2>1, <2>3 DEF Statuses
  <2> QED BY <1>1, <1>2, <1>4, <2>4 DEF NoOp
<1> QED BY <1>3, <1>4 DEF Begin

\* One file is written: the next of the migration, or of the rollback.
Writes(r, file, first) ==
  /\ IsNext(<<r, file>>, op.todo, first)
  /\ op' = [op EXCEPT !.todo = @ \ {<<r, file>>}]

\* It leaves the list, and is the first of its repository or comes after that one.
LEMMA WriteMoves ==
  ASSUME MigrationTypeOK, NEW r \in Repos, NEW file \in {"snap", "log"}, NEW first,
         Writes(r, file, first)
  PROVE  /\ op' \in [kind : {"none", "startup", "apply", "rollback"}, repo : Repos \cup {0},
                    todo : SUBSET Files]
         /\ op'.kind = op.kind /\ op'.repo = op.repo /\ op'.todo = op.todo \ {<<r, file>>}
         /\ file # first => <<r, first>> \notin op.todo \/ first \notin {"snap", "log"}
<1>1. /\ op'.kind = op.kind /\ op'.repo = op.repo /\ op'.todo = op.todo \ {<<r, file>>}
      /\ op' = [kind |-> op.kind, repo |-> op.repo, todo |-> op.todo \ {<<r, file>>}]
  BY DEF MigrationTypeOK, Writes
<1>2. op' \in [kind : {"none", "startup", "apply", "rollback"}, repo : Repos \cup {0},
              todo : SUBSET Files]
  BY <1>1 DEF MigrationTypeOK
<1>3. ASSUME file # first, <<r, first>> \in op.todo PROVE FALSE
  <2>1. <<r, first>> \in op.todo \ {<<r, file>>}
    BY <1>3
  <2>2. r < r
    BY <1>3, <2>1 DEF Writes, IsNext
  <2> QED BY <2>2, ReposAssumption DEF Repos
<1> QED BY <1>1, <1>2, <1>3

\* The files while one of repository r is converted or restored.
LEMMA ConvertMoves ==
  ASSUME MigrationTypeOK, OpInv, Convert
  PROVE  /\ Converts /\ Journalled /\ Prepared /\ Unprogressed
         /\ UNCHANGED <<txn, journal, runtime, done, undone, stops>>
         /\ \E r \in Repos, file \in {"snap", "log"} :
              /\ Writes(r, file, "log")
              /\ IF file = "snap" THEN snap' = [snap EXCEPT ![r] = SnapOut(r)] /\ log' = log
                 ELSE log' = [log EXCEPT ![r] = LogOut(r)] /\ snap' = snap
BY DEF Convert, Converts, OpInv, Prepared, Journalled, Writes, SnapOut, LogOut

\* So does a rollback, from the backup.
LEMMA RestoreMoves ==
  ASSUME MigrationTypeOK, OpInv, RestoreFile
  PROVE  /\ op.kind = "rollback" /\ Journalled
         /\ UNCHANGED <<txn, journal, runtime, done, undone, stops>>
         /\ \E r \in Repos, file \in {"snap", "log"} :
              /\ Writes(r, file, "snap")
              /\ IF file = "snap"
                 THEN snap' = [snap EXCEPT ![r] = journal.backup[r].snap] /\ log' = log
                 ELSE log' = [log EXCEPT ![r] = journal.backup[r].log] /\ snap' = snap
BY DEF RestoreFile, OpInv, Writes

\* Every step keeps the types.
LEMMA TypeStep ==
  ASSUME MigrationTypeOK, OpInv, [MigrationNext]_migrationVars
  PROVE  MigrationTypeOK'
<1> DEFINE Runtimes == {"off", "old", "starting", "up", "blocked"}
           Ops == [kind : {"none", "startup", "apply", "rollback"}, repo : Repos \cup {0},
                   todo : SUBSET Files]
           Journals == [status : Statuses \ {"none"}, id : IDs, backup : Backups]
<1>0. NoOp \in Ops
  BY DEF NoOp
<1>1. CASE Convert
  <2>1. PICK r \in Repos, file \in {"snap", "log"} :
          /\ Writes(r, file, "log")
          /\ IF file = "snap" THEN snap' = [snap EXCEPT ![r] = SnapOut(r)] /\ log' = log
             ELSE log' = [log EXCEPT ![r] = LogOut(r)] /\ snap' = snap
    BY <1>1, ConvertMoves
  <2>2. SnapOut(r) \in Snapshots /\ LogOut(r) \in Logs
    BY <1>1, ConvertMoves, JournalType
  <2>3. snap' \in [Repos -> Snapshots] /\ log' \in [Repos -> Logs]
    BY <2>1, <2>2 DEF MigrationTypeOK
  <2>4. op' \in Ops
    BY <2>1, WriteMoves
  <2> QED BY <1>1, <2>3, <2>4, ConvertMoves DEF MigrationTypeOK
<1>2. CASE RestoreFile
  <2>1. PICK r \in Repos, file \in {"snap", "log"} :
          /\ Writes(r, file, "snap")
          /\ IF file = "snap"
             THEN snap' = [snap EXCEPT ![r] = journal.backup[r].snap] /\ log' = log
             ELSE log' = [log EXCEPT ![r] = journal.backup[r].log] /\ snap' = snap
    BY <1>2, RestoreMoves
  <2>2. journal.backup[r].snap \in Snapshots /\ journal.backup[r].log \in Logs
    BY <1>2, RestoreMoves, JournalType
  <2>3. snap' \in [Repos -> Snapshots] /\ log' \in [Repos -> Logs]
    BY <2>1, <2>2 DEF MigrationTypeOK
  <2>4. op' \in Ops
    BY <2>1, WriteMoves
  <2> QED BY <1>2, <2>3, <2>4, RestoreMoves DEF MigrationTypeOK
<1>3. ASSUME NEW status \in {"completed", "rolled_back"}, Journalled,
             journal' = [journal EXCEPT !.status = status]
      PROVE  journal' \in Journals
  BY <1>3, JournalType DEF Statuses
<1>4. CASE Complete
  <2>1. journal' \in Journals
    BY <1>3, <1>4 DEF Complete, OpInv, Converts, Prepared, Journalled
  <2> QED BY <1>0, <1>4, <2>1 DEF Complete, MigrationTypeOK, Backups
<1>5. CASE EndRollback
  <2>1. journal' \in Journals
    BY <1>3, <1>5 DEF EndRollback, OpInv
  <2> QED BY <1>0, <1>5, <2>1 DEF EndRollback, MigrationTypeOK, Backups
<1>6. CASE BeginRollback
  BY <1>6 DEF BeginRollback, MigrationTypeOK, Entries, OldProgress
<1>7. CASE Stop
  <2>1. stops' \in 0..MaxStops
    BY <1>7, BoundsAssumption DEF Stop, MigrationTypeOK
  <2>2. runtime' \in [Repos -> Runtimes]
    BY <1>7 DEF Stop, MigrationTypeOK
  <2> QED BY <1>0, <1>7, <2>1, <2>2 DEF Stop, MigrationTypeOK
<1>8. CASE Apply
  <2>1. op' \in Ops /\ journal' \in Journals
    BY <1>8, BeginMoves DEF Apply
  <2> QED BY <1>8, <2>1 DEF Apply, MigrationTypeOK, Backups
<1>9. ASSUME NEW r \in Repos, StartConverts(r) PROVE MigrationTypeOK'
  <2>1. op' \in Ops /\ journal' \in Journals
    BY <1>9, BeginMoves DEF StartConverts
  <2> QED BY <1>9, <2>1 DEF StartConverts, MigrationTypeOK, Backups
<1>10. ASSUME NEW r \in Repos,
              Start(r) \/ StartConverted(r) \/ StartRefused(r) \/ Exit(r)
       PROVE  MigrationTypeOK'
  BY <1>10 DEF Start, StartConverted, StartRefused, Exit, MigrationTypeOK
<1>11. ASSUME NEW r \in Repos, Update(r) \/ OldUpdate(r) PROVE MigrationTypeOK'
  <2>1. PICK busy \in BOOLEAN : Commit(r, busy)
    BY <1>11 DEF Update, OldUpdate
  <2> QED BY <1>11, <2>1, CommitMoves DEF Update, OldUpdate, MigrationTypeOK
<1>12. ASSUME NEW r \in Repos, OldStart(r) PROVE MigrationTypeOK'
  <2>1. runtime' \in [Repos -> Runtimes] /\ txn' \in [Repos -> BOOLEAN]
    BY <1>12 DEF OldStart, MigrationTypeOK
  <2>2. snap[r].busy \in BOOLEAN
    BY DEF MigrationTypeOK, Snapshots
  <2>3. snap' \in [Repos -> Snapshots] /\ log' \in [Repos -> Logs] /\ done' \in [Repos -> Nat]
    BY <1>12, <2>2, CommitMoves DEF OldStart, MigrationTypeOK
  <2> QED BY <1>12, <2>1, <2>3 DEF OldStart, MigrationTypeOK
<1>13. ASSUME NEW r \in Repos, OldEnd(r) PROVE MigrationTypeOK'
  BY <1>13 DEF OldEnd, MigrationTypeOK
<1>14. CASE UNCHANGED migrationVars
  BY <1>14 DEF MigrationTypeOK, migrationVars
<1> QED
  BY <1>1, <1>2, <1>4, <1>5, <1>6, <1>7, <1>8, <1>9, <1>10, <1>11, <1>12, <1>13, <1>14
     DEF MigrationNext

-----------------------------------------------------------------------------
(* The stores are the migration's own. *)

\* What is written is the backup's or converted.
LEMMA StillUnprogressed ==
  ASSUME MigrationTypeOK, Unprogressed, UNCHANGED journal, Journalled,
         \A r \in Repos : /\ snap'[r] \in {snap[r], SnapOut(r), journal.backup[r].snap}
                          /\ log'[r] \in {log[r], LogOut(r), journal.backup[r].log}
  PROVE  Unprogressed'
BY DEF Unprogressed, SnapOut, LogOut

\* A commit needs the stores to be free.
LEMMA Committing ==
  ASSUME MigrationTypeOK, OpInv, NEW r \in Repos, Update(r) \/ OldUpdate(r) \/ OldStart(r)
  PROVE  /\ op = NoOp /\ UNCHANGED <<journal, op, undone, stops>>
         /\ \/ UNCHANGED <<snap, log, done>>
            \/ \E busy \in BOOLEAN : Commit(r, busy)
         /\ runtime' = runtime \/ OldStart(r)
<1>1. snap[r].busy \in BOOLEAN
  BY DEF MigrationTypeOK, Snapshots
<1> QED BY <1>1 DEF Update, OldUpdate, OldStart, OpInv

\* The other steps of a runtime touch no file.
ComesOrGoes(r) == Start(r) \/ StartConverted(r) \/ StartRefused(r) \/ Exit(r) \/ OldEnd(r)

\* They move one runtime, up only over converted files.
LEMMA Running ==
  ASSUME MigrationTypeOK, NEW r \in Repos, ComesOrGoes(r)
  PROVE  /\ UNCHANGED <<snap, log, journal, op, done, undone, stops>>
         /\ \A q \in Repos \ {r} : runtime'[q] = runtime[q]
         /\ runtime'[r] \in {"off", "starting", "blocked", "up"}
         /\ runtime'[r] = "up" => op = NoOp /\ ~Prepared /\ snap[r].version = 6
BY DEF ComesOrGoes, Start, StartConverted, StartRefused, Exit, OldEnd, MigrationTypeOK

\* Every step keeps the stores for the one migration or rollback under way.
LEMMA OpStep ==
  ASSUME MigrationTypeOK, OpInv, [MigrationNext]_migrationVars
  PROVE  OpInv'
<1>1. CASE Convert
  <2>1. PICK r \in Repos, file \in {"snap", "log"} :
          /\ Writes(r, file, "log")
          /\ IF file = "snap" THEN snap' = [snap EXCEPT ![r] = SnapOut(r)] /\ log' = log
             ELSE log' = [log EXCEPT ![r] = LogOut(r)] /\ snap' = snap
    BY <1>1, ConvertMoves
  <2>2. Unprogressed'
    BY <1>1, <2>1, ConvertMoves, StillUnprogressed DEF MigrationTypeOK
  <2>3. op'.kind = op.kind /\ op'.repo = op.repo
    BY <2>1, WriteMoves
  <2>4. op # NoOp
    BY <1>1, ConvertMoves DEF NoOp, Converts
  <2> QED BY <1>1, <2>2, <2>3, <2>4, ConvertMoves DEF OpInv, Converts, Prepared, Journalled
<1>2. CASE RestoreFile
  <2>1. PICK r \in Repos, file \in {"snap", "log"} : Writes(r, file, "snap")
    BY <1>2, RestoreMoves
  <2>2. op'.kind = op.kind /\ op'.repo = op.repo
    BY <2>1, WriteMoves
  <2>3. op # NoOp
    BY <1>2, RestoreMoves DEF NoOp
  <2> QED BY <1>2, <2>2, <2>3, RestoreMoves DEF OpInv, Converts, Prepared, Journalled
<1>3. ASSUME op' = NoOp PROVE OpInv'
  BY <1>3 DEF OpInv, NoOp, Converts
<1>4. CASE Complete \/ EndRollback \/ Stop
  BY <1>3, <1>4 DEF Complete, EndRollback, Stop
<1>5. CASE BeginRollback
  BY <1>5 DEF BeginRollback, MayRestore, OpInv, Converts, Journalled
<1>6. ASSUME NEW kind \in {"startup", "apply"}, NEW repo \in Repos \cup {0}, Begin(kind, repo),
             UNCHANGED <<snap, log, runtime>>,
             \/ kind = "startup" /\ repo \in Repos /\ runtime[repo] = "starting"
             \/ kind = "apply" /\ repo = 0
      PROVE  OpInv'
  <2>1. op'.kind = kind /\ op'.repo = repo /\ journal'.status = "prepared"
    BY <1>6, BeginMoves
  <2>2. \A r \in Repos : runtime'[r] \notin {"old", "up"}
    <3>1. \A r \in Repos \ {repo} : runtime[r] \notin {"old", "up"}
      BY <1>6 DEF Begin, StoresFree, Locking
    <3>2. 0 \notin Repos
      BY ReposAssumption DEF Repos
    <3> QED BY <1>6, <3>1, <3>2
  <2>3. Unprogressed'
    <3>1. CASE Unprogressed /\ journal' = journal
      BY <1>6, <3>1 DEF Unprogressed
    <3>2. CASE journal'.backup = Current
      BY <1>6, <3>2 DEF Unprogressed, Current
    <3> QED BY <1>6, <3>1, <3>2, BeginMoves
  <2> QED BY <1>6, <2>1, <2>2, <2>3 DEF OpInv, Converts, Prepared
<1>7. CASE Apply
  BY <1>6, <1>7 DEF Apply
<1>8. ASSUME NEW r \in Repos, StartConverts(r) PROVE OpInv'
  BY <1>6, <1>8 DEF StartConverts
<1>9. ASSUME NEW r \in Repos, ComesOrGoes(r) PROVE OpInv'
  <2>1. op # NoOp => \A q \in Repos : runtime'[q] \notin {"old", "up"}
    BY <1>9, Running DEF OpInv
  <2> QED BY <1>9, <2>1, Running DEF OpInv, Converts, Prepared, Unprogressed, Journalled
<1>10. ASSUME NEW r \in Repos, Update(r) \/ OldUpdate(r) \/ OldStart(r) PROVE OpInv'
  BY <1>3, <1>10, Committing
<1>11. CASE UNCHANGED migrationVars
  BY <1>11 DEF migrationVars, OpInv, Converts, Prepared, Unprogressed, Journalled
<1> QED
  BY <1>1, <1>2, <1>4, <1>5, <1>7, <1>8, <1>9, <1>10, <1>11 DEF MigrationNext, ComesOrGoes

-----------------------------------------------------------------------------
(* The files belong together. *)

\* The end of an operation, by success or not, touches no file and keeps the backup.
LEMMA Ending ==
  ASSUME MigrationTypeOK, OpInv, Complete \/ EndRollback \/ Stop
  PROVE  /\ UNCHANGED <<snap, log, done, undone>> /\ op' = NoOp /\ op # NoOp
         /\ journal'.backup = journal.backup /\ journal'.id = journal.id
         /\ Journalled /\ journal'.status # "none"
         /\ journal'.status # "prepared" \/ journal' = journal
         /\ \A r \in Repos : \/ runtime'[r] \in {runtime[r], "off", "blocked"}
                             \/ runtime'[r] = "up" /\ snap[r].version = 6
<1>0. op # NoOp /\ Journalled
  <2>1. op # NoOp
    BY DEF Complete, EndRollback, Stop, NoOp
  <2>2. op.kind \in {"startup", "apply", "rollback"}
    BY <2>1 DEF OpInv, MigrationTypeOK
  <2> QED BY <2>1, <2>2 DEF OpInv, Converts, Prepared, Journalled
<1>1. CASE Complete
  <2>1. \A r \in Repos : snap[r].version = 6
    BY <1>1 DEF Complete, MustMigrate, MigrationTypeOK, Snapshots
  <2> QED BY <1>0, <1>1, <2>1, JournalType DEF Complete, MigrationTypeOK, Journalled
<1>2. CASE EndRollback
  BY <1>0, <1>2, JournalType DEF EndRollback
<1>3. CASE Stop
  BY <1>0, <1>3 DEF Stop, MigrationTypeOK, Journalled
<1> QED BY <1>1, <1>2, <1>3

\* Every step keeps a whole backup, no newer than the files.
LEMMA BackupStep ==
  ASSUME MigrationTypeOK, OpInv, BackupInv, [MigrationNext]_migrationVars
  PROVE  BackupInv'
<1>1. CASE Convert
  <2>1. \A r \in Repos : snap'[r] \in {snap[r], SnapOut(r)}
    BY <1>1, ConvertMoves DEF MigrationTypeOK
  <2>2. \A r \in Repos : SnapOut(r).version = 6
    BY <1>1, ConvertMoves, JournalType, Conversion DEF SnapOut
  <2>3. journal' = journal
    BY <1>1, ConvertMoves
  <2> QED BY <2>1, <2>2, <2>3 DEF BackupInv, Readable, Journalled
<1>2. CASE RestoreFile
  <2>1. \A r \in Repos : snap'[r] \in {snap[r], journal.backup[r].snap}
    BY <1>2, RestoreMoves DEF MigrationTypeOK
  <2>2. journal' = journal
    BY <1>2, RestoreMoves
  <2> QED BY <2>1, <2>2 DEF BackupInv, Readable, Journalled
<1>3. CASE Complete \/ EndRollback \/ Stop
  BY <1>3, Ending DEF BackupInv, Readable, Journalled
<1>4. CASE BeginRollback
  BY <1>4 DEF BeginRollback, BackupInv, Readable, Journalled
<1>5. ASSUME NEW kind \in {"startup", "apply"}, NEW repo \in Repos \cup {0}, Begin(kind, repo),
             UNCHANGED <<snap, log>>
      PROVE  BackupInv'
  <2>1. CASE Prepared /\ journal' = journal
    BY <1>5, <2>1 DEF BackupInv, Readable, Journalled
  <2>2. CASE journal'.backup = Current /\ \A r \in Repos : Convertible(snap[r], log[r], txn[r])
    BY <1>5, <2>2 DEF BackupInv, Current, Convertible, Readable
  <2> QED BY <1>5, <2>1, <2>2, BeginMoves
<1>6. CASE Apply
  BY <1>5, <1>6 DEF Apply
<1>7. ASSUME NEW r \in Repos, StartConverts(r) PROVE BackupInv'
  BY <1>5, <1>7 DEF StartConverts
<1>8. ASSUME NEW r \in Repos, ComesOrGoes(r) PROVE BackupInv'
  BY <1>8, Running DEF BackupInv, Readable, Journalled
<1>9. ASSUME NEW r \in Repos, Update(r) \/ OldUpdate(r) \/ OldStart(r) PROVE BackupInv'
  BY <1>9, Committing, CommitMoves DEF BackupInv, Readable, Journalled
<1>10. CASE UNCHANGED migrationVars
  BY <1>10 DEF migrationVars, BackupInv, Readable, Journalled
<1> QED
  BY <1>1, <1>2, <1>3, <1>4, <1>6, <1>7, <1>8, <1>9, <1>10 DEF MigrationNext, ComesOrGoes

\* No step loads or leaves a converted snapshot without its log.
LEMMA WholeStep ==
  ASSUME MigrationTypeOK, OpInv, BackupInv, WholeInv, [MigrationNext]_migrationVars
  PROVE  WholeInv'
<1>1. CASE Convert
  <2>1. PICK r \in Repos, file \in {"snap", "log"} :
          /\ Writes(r, file, "log")
          /\ IF file = "snap" THEN snap' = [snap EXCEPT ![r] = SnapOut(r)] /\ log' = log
             ELSE log' = [log EXCEPT ![r] = LogOut(r)] /\ snap' = snap
    BY <1>1, ConvertMoves
  <2>2. /\ op'.kind = op.kind /\ op'.todo = op.todo \ {<<r, file>>}
        /\ file = "snap" => <<r, "log">> \notin op.todo
    BY <2>1, WriteMoves
  <2>3. /\ Converts /\ Journalled /\ UNCHANGED <<journal, runtime>>
        /\ \A q \in Repos : log[q] \in {journal.backup[q].log, LogOut(q)}
        /\ \A q \in Repos : snap[q] \in {journal.backup[q].snap, SnapOut(q)}
    BY <1>1, ConvertMoves DEF Unprogressed, SnapOut, LogOut
  <2>4. \A q \in Repos : /\ SnapOut(q).version = 6 /\ Readable(SnapOut(q), LogOut(q))
                         /\ journal.backup[q].snap.version = 6 =>
                              SnapOut(q) = journal.backup[q].snap
    BY <2>3, JournalType, Conversion DEF BackupInv, SnapOut, LogOut
  <2>5. \A q \in Repos : LogOut(q)' = LogOut(q)
    BY <2>3 DEF LogOut
  <2>6. /\ \A q \in Repos \ {r} : snap'[q] = snap[q] /\ log'[q] = log[q]
        /\ file = "snap" => snap'[r] = SnapOut(r) /\ log'[r] = log[r]
        /\ file = "log" => snap'[r] = snap[r] /\ log'[r] = LogOut(r)
    BY <2>1 DEF MigrationTypeOK
  <2>7. \A q \in Repos : <<q, "log">> \notin op'.todo => log'[q] = LogOut(q)
    BY <2>2, <2>3, <2>6 DEF WholeInv
  <2>8. \A q \in Repos : snap'[q].version = 6 => Readable(snap'[q], log'[q])
    BY <2>2, <2>3, <2>4, <2>6 DEF WholeInv
  <2>9. \A q \in Repos : runtime'[q] = "up" => snap'[q].version = 6
    BY <2>3, <2>4, <2>6 DEF WholeInv
  <2>10. op'.kind # "rollback" /\ Converts'
    BY <2>2, <2>3 DEF Converts
  <2> QED BY <2>5, <2>7, <2>8, <2>9, <2>10 DEF WholeInv, Readable
<1>2. CASE RestoreFile
  <2>1. PICK r \in Repos, file \in {"snap", "log"} :
          /\ Writes(r, file, "snap")
          /\ IF file = "snap"
             THEN snap' = [snap EXCEPT ![r] = journal.backup[r].snap] /\ log' = log
             ELSE log' = [log EXCEPT ![r] = journal.backup[r].log] /\ snap' = snap
    BY <1>2, RestoreMoves
  <2>2. /\ op'.kind = op.kind /\ op'.todo = op.todo \ {<<r, file>>}
        /\ file = "log" => <<r, "snap">> \notin op.todo
    BY <2>1, WriteMoves
  <2>3. op.kind = "rollback" /\ Journalled /\ UNCHANGED <<journal, runtime>>
    BY <1>2, RestoreMoves
  <2>4. \A q \in Repos : runtime[q] # "up"
    BY <2>3 DEF OpInv, NoOp
  <2>5. /\ \A q \in Repos \ {r} : snap'[q] = snap[q] /\ log'[q] = log[q]
        /\ file = "snap" => snap'[r] = journal.backup[r].snap /\ log'[r] = log[r]
        /\ file = "log" => snap'[r] = snap[r] /\ log'[r] = journal.backup[r].log
    BY <2>1 DEF MigrationTypeOK
  <2>6. \A q \in Repos :
          LET b == journal.backup[q] IN
          /\ <<q, "snap">> \notin op'.todo => snap'[q] = b.snap
          /\ b.snap.version = 6 => snap'[q].revision = b.snap.revision
    BY <2>2, <2>3, <2>5 DEF WholeInv
  <2>7. \A q \in Repos : snap'[q].version = 6 => Readable(snap'[q], log'[q])
    <3>1. CASE file = "snap"
      <4>1. ASSUME journal.backup[r].snap.version = 6
            PROVE  Readable(journal.backup[r].snap, log[r])
        <5>1. snap[r].version = 6 /\ Readable(snap[r], log[r])
          BY <2>3, <4>1 DEF WholeInv, BackupInv
        <5>2. snap[r].revision = journal.backup[r].snap.revision
          BY <2>3, <4>1 DEF WholeInv
        <5> QED BY <4>1, <5>1, <5>2 DEF Readable
      <4> QED BY <2>5, <3>1, <4>1 DEF WholeInv
    <3>2. CASE file = "log"
      BY <2>2, <2>3, <2>5, <3>2 DEF WholeInv, BackupInv, Readable
    <3> QED BY <3>1, <3>2
  <2> QED BY <2>2, <2>3, <2>4, <2>6, <2>7 DEF WholeInv, Readable, Converts
<1>3. CASE Complete \/ EndRollback \/ Stop
  BY <1>3, Ending DEF WholeInv, Readable, Converts, NoOp
<1>4. CASE BeginRollback
  <2>1. /\ op'.kind = "rollback" /\ op'.todo = Files /\ Journalled
        /\ UNCHANGED <<snap, log, journal, runtime>>
    BY <1>4 DEF BeginRollback, MayRestore, Journalled, Entries
  <2>2. \A r \in Repos : journal.backup[r].snap.version = 6 =>
          snap[r].revision = journal.backup[r].snap.revision
    BY <1>4, <2>1, JournalType, Conversion DEF BeginRollback, MayRestore
  <2>3. \A r \in Repos : <<r, "snap">> \in Files
    BY DEF Files
  <2> QED BY <2>1, <2>2, <2>3 DEF WholeInv, Readable, Converts
<1>5. ASSUME NEW kind \in {"startup", "apply"}, NEW repo \in Repos \cup {0}, Begin(kind, repo),
             UNCHANGED <<snap, log, runtime>>
      PROVE  WholeInv'
  <2>1. /\ op'.kind = kind /\ op'.todo = Outputs(journal'.backup)
        /\ journal'.id \in IDs
        /\ \A r \in Repos : /\ journal'.backup[r].snap \in Snapshots
                            /\ journal'.backup[r].log \in Logs
    BY <1>5, BeginMoves DEF Backups
  <2>2. \A r \in Repos : log[r] \in {journal'.backup[r].log, LogOut(r)'}
    <3>1. CASE Unprogressed /\ journal' = journal
      BY <3>1 DEF Unprogressed, LogOut
    <3>2. CASE journal'.backup = Current
      BY <3>2 DEF Current
    <3> QED BY <1>5, <3>1, <3>2, BeginMoves
  <2>3. ASSUME NEW r \in Repos, <<r, "log">> \notin op'.todo PROVE log'[r] = LogOut(r)'
    <3>1. journal'.backup[r].snap.version # 5
      BY <2>1, <2>3 DEF Outputs, Files
    <3>2. LogOut(r)' = journal'.backup[r].log
      BY <3>1 DEF LogOut, ConvertedLog
    <3> QED BY <1>5, <2>2, <3>2
  <2> QED BY <1>5, <2>1, <2>3 DEF WholeInv, Readable
<1>6. CASE Apply
  BY <1>5, <1>6 DEF Apply
<1>7. ASSUME NEW r \in Repos, StartConverts(r) PROVE WholeInv'
  BY <1>5, <1>7 DEF StartConverts
<1>8. ASSUME NEW r \in Repos, ComesOrGoes(r) PROVE WholeInv'
  BY <1>8, Running DEF WholeInv, Readable, Converts, LogOut
<1>9. ASSUME NEW r \in Repos, Update(r) \/ OldUpdate(r) \/ OldStart(r) PROVE WholeInv'
  <2>1. \A q \in Repos : runtime'[q] = "up" => runtime[q] = "up"
    BY <1>9, Committing DEF OldStart, MigrationTypeOK
  <2>2. \A q \in Repos : /\ snap'[q].version = snap[q].version
                         /\ Readable(snap[q], log[q]) => Readable(snap'[q], log'[q])
    BY <1>9, Committing, CommitMoves DEF Readable
  <2> QED BY <1>9, <2>1, <2>2, Committing DEF WholeInv, Readable, Converts, NoOp
<1>10. CASE UNCHANGED migrationVars
  BY <1>10 DEF migrationVars, WholeInv, Readable, Converts, LogOut
<1> QED
  BY <1>1, <1>2, <1>3, <1>4, <1>6, <1>7, <1>8, <1>9, <1>10 DEF MigrationNext, ComesOrGoes

-----------------------------------------------------------------------------
(* The old binary and a prepared migration. *)

\* The old binary runs only where somebody starts it.
LEMMA OldRuns ==
  ASSUME MigrationTypeOK, OpInv, OldInv, MigrationNext
  PROVE  \A r \in Repos : runtime'[r] = "old" => journal'.status \in OldStatuses
<1>0. OpInv'
  BY OpStep
<1>1. CASE op' # NoOp
  BY <1>0, <1>1 DEF OpInv
<1>2. CASE op # NoOp /\ op' = NoOp
  <2>1. \A r \in Repos : runtime[r] # "old"
    BY <1>2 DEF OpInv
  <2>2. Complete \/ EndRollback \/ Stop
    <3>1. Convert \/ RestoreFile => op' # NoOp
      <4>1. Convert \/ RestoreFile =>
              /\ op.kind # "none"
              /\ \E r \in Repos, file \in {"snap", "log"}, first \in {"snap", "log"} :
                   Writes(r, file, first)
        BY ConvertMoves, RestoreMoves, Zenon DEF Converts
      <4>2. Convert \/ RestoreFile => op'.kind # "none"
        BY <4>1, WriteMoves
      <4> QED BY <4>2 DEF NoOp
    <3>2. \A r \in Repos : ComesOrGoes(r) \/ Update(r) \/ OldUpdate(r) \/ OldStart(r) => op' = op
      BY Committing, Running
    <3>3. ~BeginRollback /\ ~Apply /\ \A r \in Repos : ~StartConverts(r)
      BY <1>2 DEF BeginRollback, Apply, StartConverts
    <3> QED BY <1>2, <3>1, <3>2, <3>3 DEF MigrationNext, ComesOrGoes
  <2>3. \A r \in Repos : runtime'[r] # "old"
    BY <2>1, <2>2, Ending
  <2> QED BY <2>3
<1>3. CASE op = NoOp /\ op' = NoOp
  <2>1. PICK r \in Repos : ComesOrGoes(r) \/ Update(r) \/ OldUpdate(r) \/ OldStart(r)
    <3>1. ~Convert /\ ~RestoreFile /\ ~Complete /\ ~EndRollback /\ ~Stop
      BY <1>3 DEF Convert, RestoreFile, Complete, EndRollback, Stop, NoOp
    <3>2. ~BeginRollback /\ ~Apply /\ \A r \in Repos : ~StartConverts(r)
      BY <1>3, BeginMoves DEF BeginRollback, NoOp, Apply, StartConverts
    <3> QED BY <3>1, <3>2 DEF MigrationNext, ComesOrGoes
  <2>2. journal' = journal
    BY <2>1, Running, Committing
  <2>3. CASE ComesOrGoes(r)
    BY <2>2, <2>3, Running DEF OldInv
  <2>4. CASE OldStart(r)
    BY <2>2, <2>4 DEF OldInv, OldStart, MigrationTypeOK
  <2>5. CASE Update(r) \/ OldUpdate(r)
    BY <2>2, <2>5 DEF OldInv, Update, OldUpdate
  <2> QED BY <2>1, <2>3, <2>4, <2>5
<1> QED BY <1>1, <1>2, <1>3

\* Only a migration or rollback touches the files of a prepared one.
LEMMA OldStep ==
  ASSUME MigrationTypeOK, OpInv, OldInv, [MigrationNext]_migrationVars
  PROVE  OldInv'
<1> SUFFICES ASSUME MigrationNext PROVE OldInv'
  BY DEF OldInv, PreparedResumable, Prepared, Unprogressed, migrationVars
<1> SUFFICES ASSUME journal'.status = "prepared", "prepared" \notin OldStatuses
             PROVE  Unprogressed'
  BY OldRuns DEF OldInv, PreparedResumable, Prepared
<1>1. CASE Convert
  <2>1. PICK r \in Repos, file \in {"snap", "log"} :
          /\ Writes(r, file, "log")
          /\ IF file = "snap" THEN snap' = [snap EXCEPT ![r] = SnapOut(r)] /\ log' = log
             ELSE log' = [log EXCEPT ![r] = LogOut(r)] /\ snap' = snap
    BY <1>1, ConvertMoves
  <2> QED BY <1>1, <2>1, ConvertMoves, StillUnprogressed DEF MigrationTypeOK
<1>2. CASE RestoreFile
  <2>1. PICK r \in Repos, file \in {"snap", "log"} :
          /\ Writes(r, file, "snap")
          /\ IF file = "snap"
             THEN snap' = [snap EXCEPT ![r] = journal.backup[r].snap] /\ log' = log
             ELSE log' = [log EXCEPT ![r] = journal.backup[r].log] /\ snap' = snap
    BY <1>2, RestoreMoves
  <2>2. journal' = journal /\ Journalled /\ Unprogressed
    BY <1>2, RestoreMoves DEF OldInv, PreparedResumable, Prepared
  <2> QED BY <2>1, <2>2, StillUnprogressed DEF MigrationTypeOK
<1>3. ASSUME UNCHANGED <<snap, log, journal>> PROVE Unprogressed'
  BY <1>3 DEF OldInv, PreparedResumable, Prepared, Unprogressed
<1>4. CASE Complete \/ EndRollback \/ Stop
  BY <1>3, <1>4, Ending
<1>5. CASE BeginRollback
  BY <1>3, <1>5 DEF BeginRollback
<1>6. ASSUME NEW kind \in {"startup", "apply"}, NEW repo \in Repos \cup {0}, Begin(kind, repo),
             UNCHANGED <<snap, log>>
      PROVE  Unprogressed'
  <2>1. CASE journal' = journal
    BY <1>3, <1>6, <2>1
  <2>2. CASE journal'.backup = Current
    BY <1>6, <2>2 DEF Unprogressed, Current
  <2> QED BY <1>6, <2>1, <2>2, BeginMoves
<1>7. CASE Apply
  BY <1>6, <1>7 DEF Apply
<1>8. ASSUME NEW r \in Repos, StartConverts(r) PROVE Unprogressed'
  BY <1>6, <1>8 DEF StartConverts
<1>9. ASSUME NEW r \in Repos, ComesOrGoes(r) PROVE Unprogressed'
  BY <1>3, <1>9, Running
<1>10. ASSUME NEW r \in Repos, Update(r) \/ OldUpdate(r) \/ OldStart(r) PROVE Unprogressed'
  <2>1. journal' = journal /\ Prepared
    BY <1>10, Committing DEF Prepared
  <2>2. ~Update(r) /\ ~OldUpdate(r) /\ ~OldStart(r)
    BY <2>1 DEF Update, OldUpdate, OldStart, OldInv, Prepared
  <2> QED BY <1>10, <2>2
<1> QED
  BY <1>1, <1>2, <1>4, <1>5, <1>7, <1>8, <1>9, <1>10 DEF MigrationNext, ComesOrGoes

-----------------------------------------------------------------------------
(* No work is dropped. *)

\* The old binary runs over files of its own version, and nobody converts them meanwhile.
LEMMA OldReadsStep ==
  ASSUME MigrationTypeOK, OpInv, OldReads, [MigrationNext]_migrationVars
  PROVE  OldReads'
<1>1. CASE Convert \/ RestoreFile
  <2>1. op # NoOp /\ runtime' = runtime
    BY <1>1, ConvertMoves, RestoreMoves DEF Converts, NoOp
  <2> QED BY <2>1 DEF OpInv, OldReads
<1>2. CASE Complete \/ EndRollback \/ Stop
  BY <1>2, Ending DEF OpInv, OldReads
<1>3. ASSUME UNCHANGED <<snap, runtime>> PROVE OldReads'
  BY <1>3 DEF OldReads
<1>4. CASE BeginRollback \/ Apply
  BY <1>3, <1>4 DEF BeginRollback, Apply
<1>5. ASSUME NEW r \in Repos, StartConverts(r) PROVE OldReads'
  BY <1>3, <1>5 DEF StartConverts
<1>6. ASSUME NEW r \in Repos, ComesOrGoes(r) PROVE OldReads'
  BY <1>6, Running DEF OldReads
<1>7. ASSUME NEW r \in Repos, Update(r) \/ OldUpdate(r) \/ OldStart(r) PROVE OldReads'
  <2>1. \A q \in Repos : snap'[q].version = snap[q].version
    <3>1. CASE UNCHANGED <<snap, log, done>>
      BY <3>1
    <3>2. ASSUME NEW busy \in BOOLEAN, Commit(r, busy)
          PROVE  \A q \in Repos : snap'[q].version = snap[q].version
      BY <3>2, CommitMoves
    <3> QED BY <1>7, <3>1, <3>2, Committing
  <2>2. CASE runtime' = runtime
    BY <2>1, <2>2 DEF OldReads
  <2>3. CASE OldStart(r)
    <3>1. snap[r].version = 5 /\ \A q \in Repos \ {r} : runtime'[q] = runtime[q]
      BY <2>3 DEF OldStart, MigrationTypeOK
    <3> QED BY <2>1, <3>1 DEF OldReads
  <2> QED BY <1>7, <2>2, <2>3, Committing
<1>8. CASE UNCHANGED migrationVars
  BY <1>3, <1>8 DEF migrationVars
<1> QED BY <1>1, <1>2, <1>4, <1>5, <1>6, <1>7, <1>8 DEF MigrationNext, ComesOrGoes

\* Work is in the log of a repository whose files are the backup's or converted; its
\* snapshot is then the one or the other by its version.
LEMMA KeptWork ==
  ASSUME MigrationTypeOK, Journalled, NEW r \in Repos, Kept(r)
  PROVE  /\ Durable(r)
         /\ snap[r].version = 6 => snap[r] = SnapOut(r)
         /\ snap[r].version = 5 => snap[r] = journal.backup[r].snap
<1>1. /\ WorkIn(LogOut(r).entries) = WorkIn(journal.backup[r].log.entries)
      /\ journal.backup[r].snap.version = 6 => SnapOut(r) = journal.backup[r].snap
  BY JournalType, Conversion DEF SnapOut, LogOut
<1>2. SnapOut(r).version = 6
  BY JournalType DEF SnapOut, ConvertedSnap, Snapshots
<1> QED BY <1>1, <1>2 DEF Kept, Durable

\* The invariant holds the property.
LEMMA WorkInvImplies ==
  ASSUME MigrationTypeOK, WorkInv
  PROVE  MigrationKeepsWork
BY KeptWork DEF WorkInv, MigrationKeepsWork, Ahead, OldAhead

\* Where neither the journal nor the backup changes, only what is written can be lost.
LEMMA StillKept ==
  ASSUME MigrationTypeOK, NEW r \in Repos, Kept(r), UNCHANGED done,
         journal'.backup = journal.backup, journal'.id = journal.id,
         snap'[r] \in {snap[r], SnapOut(r), journal.backup[r].snap},
         log'[r] \in {log[r], LogOut(r), journal.backup[r].log}
  PROVE  Kept(r)'
BY DEF Kept, SnapOut, LogOut

\* A rollback begins only where no runtime went on, or goes behind the old binary.
LEMMA RollbackBegins ==
  ASSUME MigrationTypeOK, WorkInv, BeginRollback, NEW r \in Repos \ undone'
  PROVE  Kept(r)
<1>1. MayRestore /\ Journalled /\ r \in Repos \ undone
      /\ ~(snap[r].version = 5 /\ snap[r] # journal.backup[r].snap)
  BY DEF BeginRollback, MayRestore, Journalled, OldProgress
<1>2. /\ snap[r].revision \in Nat /\ SnapOut(r).revision \in Nat
      /\ journal.backup[r].snap.revision \in Nat
  BY <1>1, JournalType DEF MigrationTypeOK, Snapshots
<1>3. ~OldAhead(r)
  BY <1>1, <1>2 DEF OldAhead
<1>4. ASSUME Ahead(r), ~Prepared PROVE FALSE
  <2>1. snap[r].revision = SnapOut(r).revision
    BY <1>1, <1>4 DEF MayRestore, SnapOut
  <2> QED BY <1>2, <1>4, <2>1 DEF Ahead
<1> QED BY <1>1, <1>3, <1>4 DEF WorkInv

\* A runtime that commits goes ahead of the backup.
LEMMA CommitKeeps ==
  ASSUME MigrationTypeOK, OpInv, BackupInv, OldReads, WorkInv, NEW r \in Repos,
         Update(r) \/ OldUpdate(r) \/ OldStart(r), NEW busy \in BOOLEAN, Commit(r, busy)
  PROVE  WorkInv'
<1>1. /\ \A q \in Repos \ {r} : snap'[q] = snap[q] /\ log'[q] = log[q] /\ done'[q] = done[q]
      /\ snap'[r].version = snap[r].version
      /\ snap'[r].revision = snap[r].revision + 1
      /\ WorkIn(log'[r].entries) = WorkIn(log[r].entries) + 1
      /\ done'[r] = done[r] + 1
  BY CommitMoves
<1>2. op = NoOp /\ UNCHANGED <<journal, op, undone>>
  BY Committing
<1>3. r \notin undone => Durable(r) /\ Durable(r)'
  <2>1. r \notin undone => Durable(r)
    BY WorkInvImplies DEF MigrationKeepsWork
  <2> QED BY <1>1, <2>1 DEF Durable
<1>4. CASE ~Journalled
  <2>1. ~Journalled' /\ ~Prepared' /\ op' = NoOp
    BY <1>2, <1>4 DEF Journalled, Prepared
  <2>2. MigrationKeepsWork'
    BY <1>1, <1>2, <1>3, <1>4 DEF WorkInv, MigrationKeepsWork, Durable
  <2> QED BY <2>1, <2>2 DEF WorkInv
<1>5. CASE Journalled
  <2>1. /\ Update(r) => snap[r].version = 6 /\ ~Prepared
        /\ ~Update(r) => snap[r].version = 5
    BY DEF Update, OldUpdate, OldStart, OldReads
  <2>2. /\ snap[r].revision \in Nat /\ SnapOut(r).revision \in Nat
        /\ journal.backup[r].snap.revision \in Nat
    BY <1>5, JournalType DEF MigrationTypeOK, Snapshots
  <2>3. SnapOut(r)' = SnapOut(r) /\ Prepared' = Prepared /\ Journalled' = Journalled
    BY <1>2 DEF SnapOut, Prepared, Journalled
  <2>4. r \notin undone => Kept(r) \/ Ahead(r) \/ OldAhead(r)
    BY <1>5 DEF WorkInv
  <2>4a. \A q \in Repos \ {r} :
          (Kept(q) => Kept(q)') /\ (Ahead(q) => Ahead(q)') /\ (OldAhead(q) => OldAhead(q)')
    BY <1>1, <1>2 DEF Kept, Ahead, OldAhead, Durable, SnapOut, LogOut
  <2>5. CASE Update(r)
    <3>1. r \notin undone => snap[r].revision >= SnapOut(r).revision
      <4>1. Kept(r) => snap[r] = SnapOut(r)
        BY <1>5, <2>1, <2>5, KeptWork
      <4> QED BY <2>1, <2>2, <2>4, <2>5, <4>1 DEF Ahead, OldAhead
    <3>2. r \notin undone => Ahead(r)'
      BY <1>1, <1>3, <2>1, <2>2, <2>3, <2>5, <3>1 DEF Ahead
    <3> QED BY <1>2, <1>5, <2>1, <2>3, <2>4a, <2>5, <3>2 DEF WorkInv
  <2>6. CASE ~Update(r)
    <3>1. r \notin undone => snap[r].revision >= journal.backup[r].snap.revision
      <4>1. Kept(r) => snap[r] = journal.backup[r].snap
        BY <1>5, <2>1, <2>6, KeptWork
      <4> QED BY <2>1, <2>2, <2>4, <2>6, <4>1 DEF Ahead, OldAhead
    <3>2. r \notin undone => OldAhead(r)'
      BY <1>1, <1>2, <1>3, <2>1, <2>2, <2>6, <3>1 DEF OldAhead
    <3> QED BY <1>2, <1>5, <2>3, <2>4a, <3>2 DEF WorkInv
  <2> QED BY <2>5, <2>6
<1> QED BY <1>4, <1>5

\* No step drops work where no rollback went back behind the old binary.
LEMMA WorkStep ==
  ASSUME MigrationTypeOK, OpInv, BackupInv, OldReads, WorkInv, [MigrationNext]_migrationVars
  PROVE  WorkInv'
<1>1. CASE Convert
  <2>1. PICK r \in Repos, file \in {"snap", "log"} :
          /\ Writes(r, file, "log")
          /\ IF file = "snap" THEN snap' = [snap EXCEPT ![r] = SnapOut(r)] /\ log' = log
             ELSE log' = [log EXCEPT ![r] = LogOut(r)] /\ snap' = snap
    BY <1>1, ConvertMoves
  <2>2. op # NoOp /\ Journalled /\ UNCHANGED <<journal, done, undone>>
    BY <1>1, ConvertMoves DEF Converts, NoOp
  <2>3. \A q \in Repos \ undone' : Kept(q)'
    BY <2>1, <2>2, StillKept DEF WorkInv, MigrationTypeOK
  <2> QED BY <2>2, <2>3 DEF WorkInv, Journalled
<1>2. CASE RestoreFile
  <2>1. PICK r \in Repos, file \in {"snap", "log"} :
          /\ Writes(r, file, "snap")
          /\ IF file = "snap"
             THEN snap' = [snap EXCEPT ![r] = journal.backup[r].snap] /\ log' = log
             ELSE log' = [log EXCEPT ![r] = journal.backup[r].log] /\ snap' = snap
    BY <1>2, RestoreMoves
  <2>2. op # NoOp /\ Journalled /\ UNCHANGED <<journal, done, undone>>
    BY <1>2, RestoreMoves DEF NoOp
  <2>3. \A q \in Repos \ undone' : Kept(q)'
    BY <2>1, <2>2, StillKept DEF WorkInv, MigrationTypeOK
  <2> QED BY <2>2, <2>3 DEF WorkInv, Journalled
<1>3. CASE Complete \/ EndRollback \/ Stop
  <2>1. \A q \in Repos \ undone' : Kept(q)'
    BY <1>3, Ending, StillKept DEF WorkInv
  <2> QED BY <1>3, <2>1, Ending DEF WorkInv, Journalled
<1>4. CASE BeginRollback
  <2>1. Journalled /\ UNCHANGED <<snap, log, journal, done>>
    BY <1>4 DEF BeginRollback, MayRestore, Journalled
  <2>2. \A q \in Repos \ undone' : Kept(q)'
    BY <1>4, <2>1, RollbackBegins, StillKept
  <2> QED BY <2>1, <2>2 DEF WorkInv, Journalled
<1>5. ASSUME NEW kind \in {"startup", "apply"}, NEW repo \in Repos \cup {0}, Begin(kind, repo),
             UNCHANGED <<snap, log, done, undone>>
      PROVE  WorkInv'
  <2>1. journal'.status = "prepared"
    BY <1>5, BeginMoves
  <2>2. CASE Prepared /\ Unprogressed /\ journal' = journal
    <3>1. ASSUME NEW q \in Repos \ undone PROVE Kept(q)
      <4>1. Journalled /\ (Kept(q) \/ OldAhead(q))
        BY <2>2, <3>1 DEF WorkInv, Prepared, Journalled
      <4>2. Journalled /\ SnapOut(q).version = 6 /\ snap[q] \in {journal.backup[q].snap, SnapOut(q)}
        BY <2>2, JournalType DEF Unprogressed, SnapOut, ConvertedSnap, Snapshots, Prepared, Journalled
      <4>3. journal.backup[q].snap.revision \in Nat
        BY <4>2, JournalType DEF Snapshots
      <4> QED BY <4>1, <4>2, <4>3 DEF OldAhead
    <3>2. \A q \in Repos \ undone' : Kept(q)'
      BY <1>5, <2>2, <3>1, StillKept
    <3> QED BY <2>1, <3>2 DEF WorkInv, Journalled
  <2>3. CASE journal'.backup = Current
    <3>1. \A q \in Repos \ undone : WorkIn(log[q].entries) = done[q]
      BY WorkInvImplies DEF MigrationKeepsWork, Durable
    <3>2. \A q \in Repos \ undone' : Kept(q)'
      BY <1>5, <2>3, <3>1 DEF Kept, Current
    <3> QED BY <2>1, <3>2 DEF WorkInv, Journalled
  <2> QED BY <1>5, <2>2, <2>3, BeginMoves
<1>6. CASE Apply
  BY <1>5, <1>6 DEF Apply
<1>7. ASSUME NEW r \in Repos, StartConverts(r) PROVE WorkInv'
  BY <1>5, <1>7 DEF StartConverts
<1>8. ASSUME UNCHANGED <<snap, log, journal, op, done, undone>> PROVE WorkInv'
  BY <1>8 DEF WorkInv, MigrationKeepsWork, Durable, Journalled, Prepared, Kept, Ahead, OldAhead,
              SnapOut, LogOut
<1>9. ASSUME NEW r \in Repos, ComesOrGoes(r) PROVE WorkInv'
  BY <1>8, <1>9, Running
<1>10. ASSUME NEW r \in Repos, Update(r) \/ OldUpdate(r) \/ OldStart(r) PROVE WorkInv'
  <2>1. op = NoOp /\ UNCHANGED <<journal, op, undone>>
    BY <1>10, Committing
  <2>2. CASE UNCHANGED <<snap, log, done>>
    BY <1>8, <2>1, <2>2
  <2> QED BY <1>10, <2>2, Committing, CommitKeeps
<1>11. CASE UNCHANGED migrationVars
  BY <1>8, <1>11 DEF migrationVars
<1> QED
  BY <1>1, <1>2, <1>3, <1>4, <1>6, <1>7, <1>9, <1>10, <1>11 DEF MigrationNext, ComesOrGoes

-----------------------------------------------------------------------------
(* The theorems about migrations. *)

\* The initial files are of the old version and empty.
LEMMA MigrationStarts ==
  ASSUME MigrationInit
  PROVE  MigrationTypeOK /\ OpInv /\ BackupInv /\ WholeInv /\ OldInv /\ OldReads /\ WorkInv
<1>1. \A r \in Repos : WorkIn(log[r].entries) = 0
  <2>1. \A r \in Repos : {i \in DOMAIN log[r].entries : log[r].entries[i] = Work} = {}
    BY DEF MigrationInit
  <2> QED BY <2>1, FS_EmptySet DEF WorkIn
<1>2. MigrationTypeOK
  <2>1. <<>> \in Seq(IDs \cup {Work}) /\ 0 \in Nat /\ FALSE \in BOOLEAN
    OBVIOUS
  <2>2. snap \in [Repos -> Snapshots] /\ log \in [Repos -> Logs]
    BY <2>1 DEF MigrationInit, Snapshots, Logs
  <2> QED BY <2>2, BoundsAssumption DEF MigrationInit, MigrationTypeOK, NoOp
<1>3. OpInv /\ BackupInv /\ WholeInv /\ OldInv /\ OldReads
  BY DEF MigrationInit, OpInv, BackupInv, WholeInv, OldInv, OldReads, Journalled, Converts, NoOp,
         PreparedResumable, Prepared
<1>4. WorkInv
  BY <1>1 DEF MigrationInit, WorkInv, MigrationKeepsWork, Durable, Journalled, Prepared
<1> QED BY <1>2, <1>3, <1>4

\* The types, the operation under way and the files that belong together, wherever the
\* old binary is started.
LEMMA Always == MigrationSpec => [](MigrationTypeOK /\ OpInv /\ BackupInv /\ WholeInv /\ OldInv)
<1>1. /\ MigrationTypeOK /\ OpInv /\ BackupInv /\ WholeInv /\ OldInv
      /\ [MigrationNext]_migrationVars
      => (MigrationTypeOK /\ OpInv /\ BackupInv /\ WholeInv /\ OldInv)'
  BY TypeStep, OpStep, BackupStep, WholeStep, OldStep
<1> QED BY <1>1, MigrationStarts, PTL DEF MigrationSpec

\* The type invariant: a journal that exists names a whole backup (validated before the
\* first file is replaced, ApplySnapshots).
THEOREM StoresTyped == MigrationSpec => []MigrationTypeOK
BY Always, PTL

\* A runtime of the new binary never runs over a half migrated or half restored pair,
\* whatever is cut, refused or rolled back, and whenever the old binary is started: the
\* log is converted before its snapshot and restored after it, and both versions keep
\* off the stores meanwhile.
THEOREM WholePairs == MigrationSpec => []RuntimeSeesWhole
<1>1. WholeInv => RuntimeSeesWhole
  BY DEF WholeInv, RuntimeSeesWhole
<1> QED BY <1>1, Always, PTL

\* A migration that was interrupted can be taken up again: every file is the backup's or
\* the converted one until the journal is completed or rolled back.
THEOREM Resumable == MigrationSpec => []PreparedResumable
<1>1. OldInv => PreparedResumable
  BY DEF OldInv
<1> QED BY <1>1, Always, PTL

\* Neither a migration, nor one that is taken up again, nor a rollback drops work that a
\* runtime was told is durable, whenever the old binary is started; save that a rollback
\* goes back behind the old binary where its revision is the migration's
\* (ensureRollbackHasNoProgress compares no more).
THEOREM WorkIsKept == MigrationSpec => []MigrationKeepsWork
<1> DEFINE Inv == MigrationTypeOK /\ OpInv /\ BackupInv /\ OldReads /\ WorkInv
<1>1. MigrationInit => Inv
  BY MigrationStarts
<1>2. Inv /\ [MigrationNext]_migrationVars => Inv'
  BY TypeStep, OpStep, BackupStep, OldReadsStep, WorkStep
<1>3. Inv => MigrationKeepsWork
  BY WorkInvImplies
<1> QED BY <1>1, <1>2, <1>3, PTL DEF MigrationSpec
===============================================================================
