----------------------------- MODULE LedgerProofs -----------------------------
(***************************************************************************)
(* The ledger, for any handlers, aggregates, snapshots and page limit.     *)
(*                                                                         *)
(* A number is read long before the event that carries it is inserted, and *)
(* nothing is locked in between.  What saves the streams is that a number  *)
(* is at most one beyond the last committed one: when it is still free at  *)
(* the insert, it is the next.  So all open transactions that have         *)
(* written one aggregate would have inserted the same key, which the       *)
(* unique index allows to one of them.                                     *)
(***************************************************************************)
EXTENDS LedgerTransactions, FiniteSetTheorems, SequenceTheorems, TLAPS

Numbers(a) == {e.seq : e \in EventsOf(a)}

\* The committed events of a stream are numbered from 1, without gap or repetition.
Streamed ==
  \A a \in Streams :
    /\ \E m \in Nat \ {0} : Numbers(a) = 1 .. m
    /\ \A d, e \in EventsOf(a) : d.seq = e.seq => d = e

\* A transaction that is not open holds nothing.
ClosedIsEmpty ==
  \A h \in Handlers : pc[h] # "open" => /\ todo[h] = << >>
                                        /\ number[h] = 0
                                        /\ inserted[h] = {}

\* A number is at most the next of its stream.
AtMostNext(a, n) == n \in Nat \ {0} /\ \A k \in 1 .. (n - 1) : k \in Numbers(a)

NumbersRead ==
  \A h \in Handlers : number[h] # 0 =>
    todo[h] # << >> /\ AtMostNext(Head(todo[h]).on, number[h])

\* An inserted event has the next number of its stream, and no other has its key.
InsertedNext ==
  \A h \in Handlers : \A e \in inserted[h] :
    AtMostNext(e.on, e.seq) /\ e.seq \notin Numbers(e.on)
InsertedOnce ==
  \A g, h \in Handlers : \A d \in inserted[g], e \in inserted[h] :
    d.on = e.on /\ d.seq = e.seq => g = h /\ d = e

LedgerInv ==
  /\ TypeOK
  /\ Streamed
  /\ ClosedIsEmpty
  /\ NumbersRead
  /\ InsertedNext
  /\ InsertedOnce
  /\ ReplayGivesRow

-----------------------------------------------------------------------------

\* The last number of a page is one that is committed.
LEMMA LastIsCommitted ==
  ASSUME Streamed, NEW a \in Streams
  PROVE  /\ lastSequence(a) \in Nat
         /\ \A k \in 1 .. lastSequence(a) : k \in Numbers(a)
<1>1. PICK m \in Nat \ {0} : Numbers(a) = 1 .. m
  BY DEF Streamed
<1> DEFINE page == {d \in EventsOf(a) : d.seq <= PageLimit}
           n == IF m <= PageLimit THEN m ELSE PageLimit
<1>2. PageLimit \in Nat \ {0} /\ n \in 1 .. m /\ n <= PageLimit
  BY LedgerAssumption
<1>3. \A d \in page : d.seq \in 1 .. m /\ d.seq <= PageLimit /\ d.seq <= n
  <2>1. \A d \in page : d.seq \in 1 .. m /\ d.seq <= PageLimit
    BY <1>1 DEF Numbers
  <2> QED
    BY <1>2, <2>1
<1>4. PICK e \in EventsOf(a) : e.seq = n
  BY <1>1, <1>2 DEF Numbers
<1> HIDE DEF n
<1>5. e \in page
  BY <1>2, <1>4
<1>6. e \in Latest(page)
  BY <1>3, <1>4, <1>5 DEF Latest
<1> DEFINE f == CHOOSE x \in Latest(page) : TRUE
<1>7. f \in Latest(page)
  BY <1>6
<1>8. f.seq \in 1 .. m
  BY <1>3, <1>7 DEF Latest
<1>9. lastSequence(a) = f.seq
  BY DEF lastSequence
<1> HIDE DEF f
<1> QED
  BY <1>1, <1>8, <1>9

\* There is one next number of a stream.
LEMMA OneNext ==
  ASSUME Streamed, NEW a \in Streams, NEW j, NEW k,
         AtMostNext(a, j), j \notin Numbers(a), AtMostNext(a, k), k \notin Numbers(a)
  PROVE  j = k
<1>1. PICK m \in Nat \ {0} : Numbers(a) = 1 .. m
  BY DEF Streamed
<1>2. \A n : AtMostNext(a, n) /\ n \notin Numbers(a) => n = m + 1
  <2> SUFFICES ASSUME NEW n \in Nat \ {0}, n \notin 1 .. m,
                      \A i \in 1 .. (n - 1) : i \in 1 .. m
               PROVE  n = m + 1
    BY <1>1 DEF AtMostNext
  <2>1. n > m
    OBVIOUS
  <2>2. n - 1 \in 1 .. (n - 1) => n - 1 \in 1 .. m
    OBVIOUS
  <2> QED
    BY <2>1, <2>2
<1> QED
  BY <1>2

\* At most one open transaction has written a stream, and once.
LEMMA OneWriter ==
  ASSUME LedgerInv, NEW g \in Handlers, NEW h \in Handlers,
         NEW d \in inserted[g], NEW e \in inserted[h], d.on = e.on
  PROVE  g = h /\ d = e
<1>1. e \in Event
  BY DEF LedgerInv, TypeOK
<1>2. e.on \in Streams
  BY <1>1 DEF Event
<1> QED
  <2>1. /\ AtMostNext(e.on, d.seq) /\ d.seq \notin Numbers(e.on)
        /\ AtMostNext(e.on, e.seq) /\ e.seq \notin Numbers(e.on)
    BY DEF LedgerInv, InsertedNext
  <2>2. d.seq = e.seq
    BY <1>2, <2>1, OneNext DEF LedgerInv
  <2> QED
    BY <2>2 DEF LedgerInv, InsertedOnce

-----------------------------------------------------------------------------
(* The steps. *)

\* A step sets the variables of h, and to values that fit.
Sets(h, p, s, t, n, i, r) ==
  /\ pc' = [pc EXCEPT ![h] = p]
  /\ seen' = [seen EXCEPT ![h] = s]
  /\ todo' = [todo EXCEPT ![h] = t]
  /\ number' = [number EXCEPT ![h] = n]
  /\ inserted' = [inserted EXCEPT ![h] = i]
  /\ rolled' = [rolled EXCEPT ![h] = r]
Fits(h, p, s, t, n, i, r) ==
  /\ p \in {"idle", "open", "committed", "aborted"}
  /\ s \in Status
  /\ t \in Seq(Snapshot)
  /\ n \in Nat
  /\ i \in SUBSET Event
  /\ r \in BOOLEAN
  /\ p # "open" => t = << >> /\ n = 0 /\ i = {}
  /\ n # 0 => t # << >> /\ AtMostNext(Head(t).on, n)
  /\ \A d, e \in i : d.on = e.on /\ d.seq = e.seq => d = e
  /\ \A e \in i : \/ e \in inserted[h]
                  \/ /\ AtMostNext(e.on, e.seq)
                     /\ e.seq \notin Numbers(e.on)
                     /\ \A g \in Handlers : \A d \in inserted[g] : d.on # e.on

\* The tables grow as they should, and take no number from another handler, nor
\* from i, the events the handler then has inserted.
Grown(h, i) ==
  /\ Streamed'
  /\ ReplayGivesRow'
  /\ row' \in [Streams -> Status]
  /\ ledger' \subseteq Event
  /\ \A a \in Streams : \A k \in Numbers(a) : k \in Numbers(a)'
  /\ \A g \in Handlers \ {h} : \A e \in inserted[g] : e.seq \notin Numbers(e.on)'
  /\ \A e \in i : e.seq \notin Numbers(e.on)'

\* A step of one handler keeps the invariant.
LEMMA OwnStep ==
  ASSUME LedgerInv, NEW h \in Handlers, NEW p, NEW s, NEW t, NEW n, NEW i, NEW r,
         Sets(h, p, s, t, n, i, r), Fits(h, p, s, t, n, i, r), Grown(h, i)
  PROVE  LedgerInv'
<1>a. \A a \in Streams : \A k \in Numbers(a) : k \in Numbers(a)'
  BY DEF Grown
<1>b. \A g \in Handlers \ {h} : \A d \in inserted[g], e \in i : d.on # e.on
  BY OneWriter DEF Fits
<1>c. \A e \in i : AtMostNext(e.on, e.seq) /\ e.seq \notin Numbers(e.on)'
  BY DEF Fits, Grown, LedgerInv, InsertedNext
<1>1. TypeOK'
  BY DEF Sets, Fits, Grown, LedgerInv, TypeOK
<1>2. /\ pc'[h] = p /\ todo'[h] = t /\ number'[h] = n /\ inserted'[h] = i
      /\ \A g \in Handlers \ {h} : /\ pc'[g] = pc[g]
                                   /\ todo'[g] = todo[g]
                                   /\ number'[g] = number[g]
                                   /\ inserted'[g] = inserted[g]
  BY DEF Sets, LedgerInv, TypeOK
<1>3. \A a \in Streams, k \in Nat : AtMostNext(a, k) => AtMostNext(a, k)'
  BY <1>a DEF AtMostNext
<1>4. ClosedIsEmpty'
  <2> SUFFICES ASSUME NEW g \in Handlers, pc'[g] # "open"
               PROVE  todo'[g] = << >> /\ number'[g] = 0 /\ inserted'[g] = {}
    BY DEF ClosedIsEmpty
  <2> QED
    BY <1>2 DEF LedgerInv, ClosedIsEmpty, Fits
<1>5. NumbersRead'
  <2> SUFFICES ASSUME NEW g \in Handlers, number'[g] # 0
               PROVE  (todo[g] # << >> /\ AtMostNext(Head(todo[g]).on, number[g]))'
    BY DEF NumbersRead
  <2>1. todo'[g] # << >> /\ AtMostNext(Head(todo'[g]).on, number'[g])
    BY <1>2 DEF LedgerInv, NumbersRead, Fits
  <2>2. todo'[g] \in Seq(Snapshot) /\ number'[g] \in Nat
    BY <1>1 DEF TypeOK
  <2>3. Head(todo'[g]) \in Snapshot
    BY <2>1, <2>2
  <2>4. Head(todo'[g]).on \in Streams
    BY <2>3 DEF Snapshot
  <2> QED
    BY <1>3, <2>1, <2>2, <2>4
<1>6. InsertedNext'
  <2> SUFFICES ASSUME NEW g \in Handlers, NEW e \in inserted'[g]
               PROVE  AtMostNext(e.on, e.seq)' /\ e.seq \notin Numbers(e.on)'
    BY DEF InsertedNext
  <2>1. e \in Event
    BY <1>1 DEF TypeOK
  <2>2. e.on \in Streams /\ e.seq \in Nat
    BY <2>1 DEF Event
  <2>3. AtMostNext(e.on, e.seq) /\ e.seq \notin Numbers(e.on)'
    BY <1>2, <1>c DEF LedgerInv, InsertedNext, Grown
  <2> QED
    BY <1>3, <2>2, <2>3
<1>7. InsertedOnce'
  <2> SUFFICES ASSUME NEW f \in Handlers, NEW g \in Handlers,
                      NEW d \in inserted'[f], NEW e \in inserted'[g],
                      d.on = e.on, d.seq = e.seq
               PROVE  f = g /\ d = e
    BY DEF InsertedOnce
  <2>1. CASE f = h /\ g = h
    BY <1>2, <2>1 DEF Fits
  <2>2. CASE f = h /\ g # h
    BY <1>b, <1>2, <2>2
  <2>3. CASE f # h /\ g = h
    BY <1>b, <1>2, <2>3
  <2>4. CASE f # h /\ g # h
    BY <1>2, <2>4 DEF LedgerInv, InsertedOnce
  <2> QED
    BY <2>1, <2>2, <2>3, <2>4
<1> QED
  BY <1>1, <1>4, <1>5, <1>6, <1>7 DEF LedgerInv, Grown

\* The same for a step that commits nothing.
LEMMA OpenStep ==
  ASSUME LedgerInv, NEW h \in Handlers, UNCHANGED <<row, ledger>>,
         NEW p, NEW s, NEW t, NEW n, NEW i, NEW r,
         Sets(h, p, s, t, n, i, r), Fits(h, p, s, t, n, i, r)
  PROVE  LedgerInv'
<1>1. Streamed' /\ ReplayGivesRow' /\ \A a : Numbers(a)' = Numbers(a)
  BY DEF LedgerInv, Streamed, ReplayGivesRow, Numbers, EventsOf
<1>2. row' \in [Streams -> Status] /\ ledger' \subseteq Event
  BY DEF LedgerInv, TypeOK
<1>3. \A g \in Handlers : \A e \in inserted[g] : e.seq \notin Numbers(e.on)'
  BY <1>1 DEF LedgerInv, InsertedNext
<1>4. \A e \in i : e.seq \notin Numbers(e.on)'
  BY <1>1 DEF LedgerInv, InsertedNext, Fits
<1>5. Grown(h, i)
  BY <1>1, <1>2, <1>3, <1>4 DEF Grown
<1> QED
  BY <1>5, OwnStep

LEMMA Begin_Inv ==
  ASSUME LedgerInv, NEW h \in Handlers, Begin(h)
  PROVE  LedgerInv'
<1>1. Writes[h] \in Seq(Snapshot)
  <2>1. Writes[h] \in Seq([on : Items \cup Runs, status : Status])
    BY LedgerAssumption
  <2>2. [on : Items \cup Runs, status : Status] \subseteq Snapshot
    BY DEF Snapshot, Streams
  <2> QED
    BY <2>1, <2>2, SeqMonotonic
<1>2. row[Objective] \in Status /\ rolled[h] \in BOOLEAN
  BY DEF LedgerInv, TypeOK, Streams
<1>3. pc[h] # "open" /\ number[h] = 0 /\ inserted[h] = {}
  BY DEF LedgerInv, ClosedIsEmpty, Begin
<1>4. /\ number' = [number EXCEPT ![h] = 0]
      /\ inserted' = [inserted EXCEPT ![h] = {}]
      /\ rolled' = [rolled EXCEPT ![h] = rolled[h]]
  BY <1>3 DEF LedgerInv, TypeOK, Begin
<1>5. Sets(h, "open", row[Objective], Writes[h], 0, {}, rolled[h])
  BY <1>4 DEF Begin, Sets
<1>6. Fits(h, "open", row[Objective], Writes[h], 0, {}, rolled[h])
  BY <1>1, <1>2 DEF Fits
<1> QED
  BY <1>5, <1>6, OpenStep DEF Begin

LEMMA getNextSequence_Inv ==
  ASSUME LedgerInv, NEW h \in Handlers, getNextSequence(h)
  PROVE  LedgerInv'
<1> DEFINE on == Head(todo[h]).on
           n == lastSequence(on) + 1
<1>1. todo[h] # << >> /\ todo[h] \in Seq(Snapshot)
  BY DEF getNextSequence, LedgerInv, TypeOK
<1>2. on \in Streams
  <2>1. Head(todo[h]) \in Snapshot
    BY <1>1
  <2> QED
    BY <2>1 DEF Snapshot
<1>3. n \in Nat /\ AtMostNext(on, n)
  BY <1>2, LastIsCommitted DEF LedgerInv, AtMostNext
<1>4. pc[h] = "open"
  BY <1>1 DEF LedgerInv, ClosedIsEmpty
<1>5. /\ pc[h] \in {"idle", "open", "committed", "aborted"} /\ seen[h] \in Status
      /\ inserted[h] \in SUBSET Event /\ rolled[h] \in BOOLEAN
  BY DEF LedgerInv, TypeOK
<1>6. /\ pc' = [pc EXCEPT ![h] = pc[h]] /\ seen' = [seen EXCEPT ![h] = seen[h]]
      /\ todo' = [todo EXCEPT ![h] = todo[h]]
      /\ inserted' = [inserted EXCEPT ![h] = inserted[h]]
      /\ rolled' = [rolled EXCEPT ![h] = rolled[h]]
      /\ number' = [number EXCEPT ![h] = n]
      /\ UNCHANGED <<row, ledger>>
  BY DEF LedgerInv, TypeOK, getNextSequence
<1>7. \A d, e \in inserted[h] : d.on = e.on /\ d.seq = e.seq => d = e
  BY DEF LedgerInv, InsertedOnce
<1> HIDE DEF n
<1>8. Sets(h, pc[h], seen[h], todo[h], n, inserted[h], rolled[h])
  BY <1>6 DEF Sets
<1>9. Fits(h, pc[h], seen[h], todo[h], n, inserted[h], rolled[h])
  BY <1>1, <1>3, <1>4, <1>5, <1>7 DEF Fits
<1> QED
  BY <1>6, <1>8, <1>9, OpenStep

\* The number read is free and nobody's, so it is the next and nobody else has it.
LEMMA persistSnapshot_Inv ==
  ASSUME LedgerInv, NEW h \in Handlers, persistSnapshot(h)
  PROVE  LedgerInv'
<1> DEFINE s == Head(todo[h])
           event == [on |-> s.on, seq |-> number[h], status |-> s.status]
           i == inserted[h] \cup {event}
           t == Tail(todo[h])
<1>1. /\ todo[h] # << >> /\ number[h] > 0 /\ ~ Duplicate(h)
      /\ \A g \in Handlers : ~ WaitsFor(h, g)
      /\ inserted' = [inserted EXCEPT ![h] = i]
      /\ todo' = [todo EXCEPT ![h] = t]
      /\ number' = [number EXCEPT ![h] = 0]
      /\ UNCHANGED <<row, ledger, pc, seen, rolled>>
  BY DEF persistSnapshot, LedgerInv, TypeOK
<1>2. todo[h] \in Seq(Snapshot) /\ number[h] \in Nat
  BY DEF LedgerInv, TypeOK
<1>3. s \in Snapshot /\ t \in Seq(Snapshot)
  BY <1>1, <1>2
<1>4. s.on \in Streams /\ s.status \in Status
  BY <1>3 DEF Snapshot
<1>5. event \in Event /\ i \in SUBSET Event
  BY <1>1, <1>2, <1>4 DEF LedgerInv, TypeOK, Event
<1>6. AtMostNext(s.on, number[h])
  BY <1>1 DEF LedgerInv, NumbersRead
<1>7. number[h] \notin Numbers(s.on)
  BY <1>1 DEF Duplicate, SameKey, Numbers, EventsOf
<1>8. \A g \in Handlers : \A d \in inserted[g] : d.on # s.on
  <2> SUFFICES ASSUME NEW g \in Handlers, NEW d \in inserted[g], d.on = s.on
               PROVE  FALSE
    OBVIOUS
  <2>1. d.seq = number[h]
    <3>1. AtMostNext(d.on, d.seq) /\ d.seq \notin Numbers(d.on)
      BY DEF LedgerInv, InsertedNext
    <3> QED
      BY <1>4, <1>6, <1>7, <3>1, OneNext DEF LedgerInv
  <2> QED
    BY <1>1, <2>1 DEF WaitsFor, SameKey
<1>9. /\ pc[h] = "open" /\ seen[h] \in Status /\ rolled[h] \in BOOLEAN
      /\ pc' = [pc EXCEPT ![h] = pc[h]] /\ seen' = [seen EXCEPT ![h] = seen[h]]
      /\ rolled' = [rolled EXCEPT ![h] = rolled[h]]
  BY <1>1 DEF LedgerInv, TypeOK, ClosedIsEmpty
<1>10. event.on = s.on /\ event.seq = number[h]
  OBVIOUS
<1>11. \A d, e \in inserted[h] : d.on = e.on /\ d.seq = e.seq => d = e
  BY DEF LedgerInv, InsertedOnce
<1>12. \A d, e \in i : d.on = e.on /\ d.seq = e.seq => d = e
  BY <1>8, <1>10, <1>11
<1>13. \A e \in i : \/ e \in inserted[h]
                    \/ /\ AtMostNext(e.on, e.seq)
                       /\ e.seq \notin Numbers(e.on)
                       /\ \A g \in Handlers : \A d \in inserted[g] : d.on # e.on
  BY <1>6, <1>7, <1>8, <1>10
<1> HIDE DEF i, t
<1>14. Sets(h, pc[h], seen[h], t, 0, i, rolled[h])
  BY <1>1, <1>9 DEF Sets
<1>15. Fits(h, pc[h], seen[h], t, 0, i, rolled[h])
  BY <1>3, <1>5, <1>9, <1>12, <1>13 DEF Fits
<1> QED
  BY <1>1, <1>14, <1>15, OpenStep

LEMMA VisibleIsStatus ==
  ASSUME LedgerInv, NEW h \in Handlers, NEW a \in Streams
  PROVE  Visible(h, a) \in Status
<1>1. row[a] \in Status /\ inserted[h] \subseteq Event
  BY DEF LedgerInv, TypeOK
<1>2. CASE WrittenBy(h, a)
  <2> DEFINE e == CHOOSE d \in inserted[h] : d.on = a
  <2>1. e \in inserted[h]
    BY <1>2 DEF WrittenBy
  <2>2. e.status \in Status
    BY <1>1, <2>1 DEF Event
  <2> QED
    BY <1>2, <2>2 DEF Visible
<1>3. CASE ~ WrittenBy(h, a)
  BY <1>1, <1>3 DEF Visible
<1> QED
  BY <1>2, <1>3

LEMMA syncObjectiveStatus_Inv ==
  ASSUME LedgerInv, NEW h \in Handlers, syncObjectiveStatus(h)
  PROVE  LedgerInv'
<1> DEFINE next == deriveObjectiveStatus({Visible(h, a) : a \in Items})
           t == IF next = seen[h] THEN << >> ELSE <<[on |-> Objective, status |-> next]>>
<1>1. /\ pc[h] = "open" /\ todo[h] = << >>
      /\ rolled' = [rolled EXCEPT ![h] = TRUE]
      /\ todo' = [todo EXCEPT ![h] = t]
      /\ UNCHANGED <<row, ledger, pc, seen, number, inserted>>
  BY DEF syncObjectiveStatus
<1>2. t \in Seq(Snapshot)
  <2>1. next \in Status
    BY DEF deriveObjectiveStatus, Status, ObjectiveStatus
  <2>2. [on |-> Objective, status |-> next] \in Snapshot
    BY <2>1 DEF Snapshot, Streams
  <2> QED
    BY <2>2
<1>3. number[h] = 0
  BY <1>1 DEF LedgerInv, NumbersRead
<1>4. /\ seen[h] \in Status /\ inserted[h] \in SUBSET Event
      /\ pc' = [pc EXCEPT ![h] = pc[h]] /\ seen' = [seen EXCEPT ![h] = seen[h]]
      /\ number' = [number EXCEPT ![h] = 0]
      /\ inserted' = [inserted EXCEPT ![h] = inserted[h]]
  BY <1>1, <1>3 DEF LedgerInv, TypeOK
<1>5. \A d, e \in inserted[h] : d.on = e.on /\ d.seq = e.seq => d = e
  BY DEF LedgerInv, InsertedOnce
<1> HIDE DEF t
<1>6. Sets(h, pc[h], seen[h], t, 0, inserted[h], TRUE)
  BY <1>1, <1>4 DEF Sets
<1>7. Fits(h, pc[h], seen[h], t, 0, inserted[h], TRUE)
  BY <1>1, <1>2, <1>4, <1>5 DEF Fits
<1> QED
  BY <1>1, <1>6, <1>7, OpenStep

\* A handler that throws leaves nothing.
LEMMA Abort_Inv ==
  ASSUME LedgerInv, NEW h \in Handlers, Finish(h, "aborted"), UNCHANGED <<row, ledger>>
  PROVE  LedgerInv'
<1>1. seen[h] \in Status /\ seen' = [seen EXCEPT ![h] = seen[h]] /\ << >> \in Seq(Snapshot)
  BY DEF LedgerInv, TypeOK, Finish
<1>2. Sets(h, "aborted", seen[h], << >>, 0, {}, FALSE)
  BY <1>1 DEF Sets, Finish
<1>3. Fits(h, "aborted", seen[h], << >>, 0, {}, FALSE)
  BY <1>1 DEF Fits
<1> QED
  BY <1>2, <1>3, OpenStep

LEMMA dequeueQueuedRun_Inv ==
  ASSUME LedgerInv, NEW r \in Runs, dequeueQueuedRun(r)
  PROVE  LedgerInv'
<1>1. r \notin Items \cup {Objective}
  BY LedgerAssumption
<1>2. /\ row' = [row EXCEPT ![r] = "running"] /\ row \in [Streams -> Status]
      /\ UNCHANGED <<ledger, pc, seen, todo, number, inserted, rolled>>
  BY DEF dequeueQueuedRun, LedgerInv, TypeOK
<1>3. TypeOK'
  BY <1>2 DEF LedgerInv, TypeOK, Status, RunStatus
<1>4. \A a \in Items \cup {Objective} : row'[a] = row[a]
  BY <1>1, <1>2 DEF Streams
<1>5. ReplayGivesRow'
  BY <1>2, <1>4 DEF LedgerInv, ReplayGivesRow, EventsOf
<1>6. Streamed' /\ ClosedIsEmpty' /\ InsertedOnce'
  BY <1>2 DEF LedgerInv, Streamed, ClosedIsEmpty, InsertedOnce, Numbers, EventsOf
<1>7. NumbersRead' /\ InsertedNext'
  BY <1>2 DEF LedgerInv, NumbersRead, InsertedNext, AtMostNext, Numbers, EventsOf
<1> QED
  BY <1>3, <1>5, <1>6, <1>7 DEF LedgerInv

\* A commit leaves what the handler has not written alone.
LEMMA CommitLeaves ==
  ASSUME LedgerInv, NEW h \in Handlers, Commit(h), NEW a \in Streams, ~ WrittenBy(h, a)
  PROVE  EventsOf(a)' = EventsOf(a) /\ Numbers(a)' = Numbers(a) /\ row'[a] = row[a]
BY DEF Commit, WrittenBy, EventsOf, Numbers, Visible

\* It adds its one event to a stream it has written, with the status of the row.
LEMMA CommitAppends ==
  ASSUME LedgerInv, NEW h \in Handlers, Commit(h), NEW a \in Streams,
         NEW e \in inserted[h], e.on = a
  PROVE  /\ EventsOf(a)' = EventsOf(a) \cup {e}
         /\ Numbers(a)' = Numbers(a) \cup {e.seq}
         /\ row'[a] = e.status
<1>1. \A d \in inserted[h] : d.on = a => d = e
  BY OneWriter
<1>2. EventsOf(a)' = EventsOf(a) \cup {e}
  BY <1>1 DEF Commit, EventsOf
<1>3. Numbers(a)' = Numbers(a) \cup {e.seq}
  BY <1>2 DEF Numbers
<1>4. (CHOOSE d \in inserted[h] : d.on = a) = e
  BY <1>1
<1>5. row'[a] = e.status
  BY <1>4 DEF Commit, Visible, WrittenBy
<1> QED
  BY <1>2, <1>3, <1>5

\* That event has the next number.
LEMMA CommitNumbersNext ==
  ASSUME LedgerInv, NEW h \in Handlers, Commit(h), NEW a \in Streams,
         NEW e \in inserted[h], e.on = a
  PROVE  \E m \in Nat \ {0} : /\ Numbers(a) = 1 .. m
                              /\ e.seq = m + 1
                              /\ Numbers(a)' = 1 .. (m + 1)
<1>1. PICK m \in Nat \ {0} : Numbers(a) = 1 .. m
  BY DEF LedgerInv, Streamed
<1>2. AtMostNext(a, m + 1) /\ m + 1 \notin Numbers(a)
  BY <1>1 DEF AtMostNext
<1>3. AtMostNext(a, e.seq) /\ e.seq \notin Numbers(a)
  BY DEF LedgerInv, InsertedNext
<1>4. e.seq = m + 1
  BY <1>2, <1>3, OneNext DEF LedgerInv
<1>5. Numbers(a)' = (1 .. m) \cup {m + 1}
  BY <1>1, <1>4, CommitAppends
<1>6. (1 .. m) \cup {m + 1} = 1 .. (m + 1)
  OBVIOUS
<1> QED
  BY <1>1, <1>4, <1>5, <1>6

\* A commit adds the next event to every stream it writes, and writes its status.
LEMMA Commit_Inv ==
  ASSUME LedgerInv, NEW h \in Handlers, Commit(h)
  PROVE  LedgerInv'
<1>1. /\ pc[h] = "open"
      /\ row' = [a \in Streams |-> Visible(h, a)]
      /\ ledger' = ledger \cup inserted[h]
      /\ Finish(h, "committed")
  BY DEF Commit
<1>2. inserted[h] \subseteq Event /\ ledger \subseteq Event /\ seen[h] \in Status
  BY DEF LedgerInv, TypeOK
<1>3. row' \in [Streams -> Status] /\ ledger' \subseteq Event
  BY <1>1, <1>2, VisibleIsStatus
<1>4. Streamed'
  <2> SUFFICES ASSUME NEW a \in Streams
               PROVE  /\ \E m \in Nat \ {0} : Numbers(a)' = 1 .. m
                      /\ \A d, e \in EventsOf(a)' : d.seq = e.seq => d = e
    BY DEF Streamed
  <2>1. CASE ~ WrittenBy(h, a)
    BY CommitLeaves, <2>1 DEF LedgerInv, Streamed
  <2>2. CASE WrittenBy(h, a)
    <3>1. PICK e \in inserted[h] : e.on = a
      BY <2>2 DEF WrittenBy
    <3>2. \E m \in Nat \ {0} : Numbers(a)' = 1 .. m
      BY CommitNumbersNext, <3>1
    <3>3. EventsOf(a)' = EventsOf(a) \cup {e}
      BY CommitAppends, <3>1
    <3>4. \A d \in EventsOf(a) : d.seq # e.seq
      BY <3>1 DEF LedgerInv, InsertedNext, Numbers
    <3>5. \A c, d \in EventsOf(a) : c.seq = d.seq => c = d
      BY DEF LedgerInv, Streamed
    <3> QED
      BY <3>2, <3>3, <3>4, <3>5
  <2> QED
    BY <2>1, <2>2
<1>5. ReplayGivesRow'
  <2> SUFFICES ASSUME NEW a \in Items \cup {Objective}, NEW f \in Latest(EventsOf(a))'
               PROVE  f.status = row'[a]
    BY DEF ReplayGivesRow
  <2>1. a \in Streams
    BY DEF Streams
  <2>2. f \in EventsOf(a)' /\ \A d \in EventsOf(a)' : d.seq <= f.seq
    BY DEF Latest
  <2>3. CASE ~ WrittenBy(h, a)
    <3>1. EventsOf(a)' = EventsOf(a) /\ row'[a] = row[a]
      BY CommitLeaves, <2>1, <2>3
    <3>2. f \in Latest(EventsOf(a))
      BY <2>2, <3>1 DEF Latest
    <3> QED
      BY <3>1, <3>2 DEF LedgerInv, ReplayGivesRow
  <2>4. CASE WrittenBy(h, a)
    <3>1. PICK e \in inserted[h] : e.on = a
      BY <2>4 DEF WrittenBy
    <3>2. /\ EventsOf(a)' = EventsOf(a) \cup {e}
          /\ row'[a] = e.status
      BY CommitAppends, <2>1, <3>1
    <3>3. PICK m \in Nat \ {0} : Numbers(a) = 1 .. m /\ e.seq = m + 1
      BY CommitNumbersNext, <2>1, <3>1
    <3>4. \A d \in EventsOf(a) : d.seq \in 1 .. m
      BY <3>3 DEF Numbers
    <3>5. f \notin EventsOf(a)
      BY <2>2, <3>2, <3>3, <3>4
    <3> QED
      BY <2>2, <3>2, <3>5
  <2> QED
    BY <2>3, <2>4
<1>6. \A a \in Streams : \A k \in Numbers(a) : k \in Numbers(a)'
  BY <1>1 DEF Numbers, EventsOf
<1>7. \A g \in Handlers \ {h} : \A e \in inserted[g] : e.seq \notin Numbers(e.on)'
  <2> SUFFICES ASSUME NEW g \in Handlers \ {h}, NEW e \in inserted[g]
               PROVE  e.seq \notin Numbers(e.on)'
    OBVIOUS
  <2>1. e \in Event
    BY DEF LedgerInv, TypeOK
  <2>2. ~ WrittenBy(h, e.on)
    BY OneWriter DEF WrittenBy
  <2>3. Numbers(e.on)' = Numbers(e.on)
    BY CommitLeaves, <2>1, <2>2 DEF Event
  <2> QED
    BY <2>3 DEF LedgerInv, InsertedNext
<1>8. /\ << >> \in Seq(Snapshot)
       /\ seen' = [seen EXCEPT ![h] = seen[h]]
       /\ pc' = [pc EXCEPT ![h] = "committed"]
       /\ todo' = [todo EXCEPT ![h] = << >>]
       /\ number' = [number EXCEPT ![h] = 0]
       /\ inserted' = [inserted EXCEPT ![h] = {}]
       /\ rolled' = [rolled EXCEPT ![h] = FALSE]
  BY <1>1 DEF Finish, LedgerInv, TypeOK
<1>9. Sets(h, "committed", seen[h], << >>, 0, {}, FALSE)
  BY <1>8 DEF Sets
<1>10. Fits(h, "committed", seen[h], << >>, 0, {}, FALSE)
  BY <1>2, <1>8 DEF Fits
<1>11. Grown(h, {})
  BY <1>3, <1>4, <1>5, <1>6, <1>7 DEF Grown
<1> QED
  BY <1>9, <1>10, <1>11, OwnStep

-----------------------------------------------------------------------------

LEMMA LedgerInit == Init => LedgerInv
<1> SUFFICES ASSUME Init
             PROVE  LedgerInv
  OBVIOUS
<1>1. TypeOK
  BY LedgerAssumption DEF Init, TypeOK, Event, Status, ObjectiveStatus
<1>2. \A a \in Streams : EventsOf(a) = {[on |-> a, seq |-> 1, status |-> Initial[a]]}
  BY DEF Init, EventsOf
<1>3. \A a \in Streams : Numbers(a) = {1}
  <2> SUFFICES ASSUME NEW a \in Streams
               PROVE  Numbers(a) = {1}
    OBVIOUS
  <2>1. \A e \in EventsOf(a) : e.seq = 1
    BY <1>2
  <2>2. \E e \in EventsOf(a) : e.seq = 1
    <3>1. [on |-> a, seq |-> 1, status |-> Initial[a]] \in EventsOf(a)
      BY <1>2
    <3> QED
      BY <3>1
  <2> QED
    BY <2>1, <2>2 DEF Numbers
<1>4. Streamed
  <2>1. {1} = 1 .. 1 /\ 1 \in Nat \ {0}
    OBVIOUS
  <2>2. \A a \in Streams : \E m \in Nat \ {0} : Numbers(a) = 1 .. m
    BY <1>3, <2>1
  <2>3. \A a \in Streams : \A d, e \in EventsOf(a) : d = e
    BY <1>2
  <2> QED
    BY <2>2, <2>3 DEF Streamed
<1>5. ClosedIsEmpty /\ NumbersRead /\ InsertedNext /\ InsertedOnce
  BY DEF Init, ClosedIsEmpty, NumbersRead, InsertedNext, InsertedOnce
<1>6. ReplayGivesRow
  BY <1>2 DEF ReplayGivesRow, Latest, Init, Streams
<1> QED
  BY <1>1, <1>4, <1>5, <1>6 DEF LedgerInv

LEMMA LedgerStep == LedgerInv /\ [Next]_vars => LedgerInv'
<1> SUFFICES ASSUME LedgerInv, [Next]_vars
             PROVE  LedgerInv'
  OBVIOUS
<1>1. ASSUME NEW h \in Handlers, Statement(h)
      PROVE  LedgerInv'
  BY <1>1, Begin_Inv, getNextSequence_Inv, persistSnapshot_Inv, syncObjectiveStatus_Inv,
     Commit_Inv, Abort_Inv DEF Statement, UniqueViolation, DeadlockVictim
<1>2. ASSUME NEW h \in Handlers, Fail(h)
      PROVE  LedgerInv'
  BY <1>2, Abort_Inv DEF Fail
<1>3. CASE UNCHANGED vars
  <2>1. (TypeOK /\ Streamed /\ ReplayGivesRow)'
    BY <1>3 DEF vars, LedgerInv, TypeOK, Streamed, ReplayGivesRow, Numbers, EventsOf
  <2>2. (ClosedIsEmpty /\ InsertedOnce)'
    BY <1>3 DEF vars, LedgerInv, ClosedIsEmpty, InsertedOnce
  <2>3. (NumbersRead /\ InsertedNext)'
    BY <1>3 DEF vars, LedgerInv, NumbersRead, InsertedNext, AtMostNext, Numbers, EventsOf
  <2> QED
    BY <2>1, <2>2, <2>3 DEF LedgerInv
<1> QED
  BY <1>1, <1>2, <1>3, dequeueQueuedRun_Inv DEF Next

\* Events numbered from 1 without gap or repetition are as many as their numbers.
LEMMA NumberedCount ==
  ASSUME NEW events, NEW m \in Nat, {e.seq : e \in events} = 1 .. m,
         \A d, e \in events : d.seq = e.seq => d = e
  PROVE  Cardinality(events) = m
<1> DEFINE f == [k \in 1 .. m |-> CHOOSE e \in events : e.seq = k]
<1>1. \A k \in 1 .. m : f[k] \in events /\ f[k].seq = k
  OBVIOUS
<1>2. \A e \in events : e.seq \in 1 .. m /\ f[e.seq] = e
  <2>1. \A e \in events : e.seq \in 1 .. m
    OBVIOUS
  <2> QED
    BY <1>1, <2>1
<1>3. f \in [1 .. m -> events]
  BY <1>1
<1> HIDE DEF f
<1>4. f \in Bijection(1 .. m, events)
  BY <1>1, <1>2, <1>3 DEF Bijection, Injection, Surjection, IsInjective
<1> QED
  BY <1>4, FS_CountingElements DEF ExistsBijection

LEMMA StreamCounts ==
  ASSUME Streamed
  PROVE  StreamsAreSequences
<1> SUFFICES ASSUME NEW a \in Streams
             PROVE  Numbers(a) = 1 .. Cardinality(EventsOf(a))
  BY DEF StreamsAreSequences, Streamed, Numbers
<1>1. PICK m \in Nat \ {0} : Numbers(a) = 1 .. m
  BY DEF Streamed
<1>2. \A d, e \in EventsOf(a) : d.seq = e.seq => d = e
  BY DEF Streamed
<1>3. Cardinality(EventsOf(a)) = m
  BY <1>1, <1>2, NumberedCount DEF Numbers
<1> QED
  BY <1>1, <1>3

-----------------------------------------------------------------------------

\* Rows, events and what transactions hold keep their types.
THEOREM LedgerTypes == Spec => []TypeOK
<1>1. LedgerInv => TypeOK
  BY DEF LedgerInv
<1> QED
  BY <1>1, LedgerInit, LedgerStep, PTL DEF Spec

\* The committed events of an aggregate are numbered 1, 2, ... without gap or
\* repetition, though getNextSequence locks nothing.
THEOREM StreamNumbering == Spec => []StreamsAreSequences
<1>1. LedgerInv => StreamsAreSequences
  BY StreamCounts DEF LedgerInv
<1> QED
  BY <1>1, LedgerInit, LedgerStep, PTL DEF Spec

\* The last event of a work item or of the objective has the status of its row.
THEOREM ReplayIsRow == Spec => []ReplayGivesRow
<1>1. LedgerInv => ReplayGivesRow
  BY DEF LedgerInv
<1> QED
  BY <1>1, LedgerInit, LedgerStep, PTL DEF Spec

\* Of two open transactions that persist the same aggregate at most one has
\* written it, so RunLifecycle may take a transaction as one step.
THEOREM WritersTakeTurns == Spec => []OneOpenWriterPerStream
<1>1. LedgerInv => OneOpenWriterPerStream
  BY OneWriter DEF OneOpenWriterPerStream, WrittenBy
<1> QED
  BY <1>1, LedgerInit, LedgerStep, PTL DEF Spec

-----------------------------------------------------------------------------
(* A transaction takes effect as a whole. *)

Persisted(h) == {[on |-> e.on, status |-> e.status] : e \in inserted[h]}
Left(h) == {todo[h][i] : i \in 1 .. Len(todo[h])}

\* What an open transaction has persisted and has left are its writes, and after
\* its roll-up perhaps the objective.
RolledUp(h) ==
  /\ rolled[h]
  /\ \E status \in ObjectiveStatus :
       /\ Atomic!Agrees(h, status)
       /\ Persisted(h) \cup Left(h)
            = Atomic!Written(h) \cup {[on |-> Objective, status |-> status]}
Accounted ==
  \A h \in Handlers : pc[h] = "open" =>
    Persisted(h) \cup Left(h) = Atomic!Written(h) \/ RolledUp(h)

AtomicInv == LedgerInv /\ Accounted

\* The elements of a sequence of snapshots are its head and those of its tail.
LEMMA HeadAndTail ==
  ASSUME NEW S, NEW s \in Seq(S), s # << >>
  PROVE  {s[i] : i \in 1 .. Len(s)} = {Head(s)} \cup {Tail(s)[i] : i \in 1 .. Len(Tail(s))}
<1>1. Len(s) \in Nat \ {0} /\ Len(Tail(s)) = Len(s) - 1 /\ Head(s) = s[1]
  OBVIOUS
<1>2. \A i \in 1 .. Len(Tail(s)) : Tail(s)[i] = s[i + 1]
  OBVIOUS
<1>3. ASSUME NEW i \in 1 .. Len(s)
      PROVE  s[i] \in {Head(s)} \cup {Tail(s)[j] : j \in 1 .. Len(Tail(s))}
  <2>1. CASE i = 1
    BY <1>1, <2>1
  <2>2. CASE i # 1
    <3>1. i - 1 \in 1 .. Len(Tail(s)) /\ (i - 1) + 1 = i
      BY <1>1, <2>2
    <3>2. Tail(s)[i - 1] = s[i]
      BY <1>2, <3>1
    <3> QED
      BY <3>1, <3>2
  <2> QED
    BY <2>1, <2>2
<1>4. ASSUME NEW j \in 1 .. Len(Tail(s))
      PROVE  Tail(s)[j] \in {s[i] : i \in 1 .. Len(s)}
  <2>1. j + 1 \in 1 .. Len(s)
    BY <1>1
  <2> QED
    BY <1>2, <2>1
<1>5. Head(s) \in {s[i] : i \in 1 .. Len(s)}
  <2>1. 1 \in 1 .. Len(s)
    BY <1>1
  <2> QED
    BY <1>1, <2>1
<1> QED
  BY <1>3, <1>4, <1>5

\* A step of one handler accounts for its own writes only.
LEMMA OthersAccounted ==
  ASSUME AtomicInv, NEW h \in Handlers,
         \A g \in Handlers \ {h} : /\ pc'[g] = pc[g] /\ todo'[g] = todo[g]
                                   /\ inserted'[g] = inserted[g] /\ rolled'[g] = rolled[g],
         pc'[h] = "open" =>
           (Persisted(h) \cup Left(h) = Atomic!Written(h) \/ RolledUp(h))'
  PROVE  Accounted'
<1> SUFFICES ASSUME NEW g \in Handlers, pc'[g] = "open"
             PROVE  (Persisted(g) \cup Left(g) = Atomic!Written(g) \/ RolledUp(g))'
  BY DEF Accounted
<1>1. CASE g = h
  BY <1>1
<1>2. CASE g # h
  <2>1. Persisted(g)' = Persisted(g) /\ Left(g)' = Left(g)
    BY <1>2 DEF Persisted, Left
  <2>2. rolled'[g] = rolled[g] /\ pc[g] = "open"
    BY <1>2
  <2>3. Persisted(g) \cup Left(g) = Atomic!Written(g) \/ RolledUp(g)
    BY <2>2 DEF AtomicInv, Accounted
  <2> QED
    BY <2>1, <2>2, <2>3 DEF RolledUp
<1> QED
  BY <1>1, <1>2

LEMMA AccountedBegin ==
  ASSUME AtomicInv, NEW h \in Handlers, Begin(h)
  PROVE  Accounted'
<1>1. inserted[h] = {}
  BY DEF Begin, AtomicInv, LedgerInv, ClosedIsEmpty
<1>2. Persisted(h)' = {} /\ Left(h)' = Atomic!Written(h)
  BY <1>1 DEF Begin, Persisted, Left, Atomic!Written, AtomicInv, LedgerInv, TypeOK
<1>3. \A g \in Handlers \ {h} : /\ pc'[g] = pc[g] /\ todo'[g] = todo[g]
                                /\ inserted'[g] = inserted[g] /\ rolled'[g] = rolled[g]
  BY DEF Begin, AtomicInv, LedgerInv, TypeOK
<1> QED
  BY <1>2, <1>3, OthersAccounted

LEMMA AccountedPersist ==
  ASSUME AtomicInv, NEW h \in Handlers, persistSnapshot(h)
  PROVE  Accounted'
<1> DEFINE s == Head(todo[h])
           event == [on |-> s.on, seq |-> number[h], status |-> s.status]
<1>1. /\ todo[h] # << >> /\ todo[h] \in Seq(Snapshot) /\ pc[h] = "open"
      /\ inserted'[h] = inserted[h] \cup {event}
      /\ todo'[h] = Tail(todo[h])
      /\ UNCHANGED <<pc, rolled>>
  BY DEF persistSnapshot, AtomicInv, LedgerInv, TypeOK, ClosedIsEmpty
<1>2. s \in Snapshot
  BY <1>1
<1>3. [on |-> event.on, status |-> event.status] = s
  BY <1>2 DEF Snapshot
<1>4. Persisted(h)' = Persisted(h) \cup {s}
  BY <1>1, <1>3 DEF Persisted
<1>5. Left(h) = {s} \cup Left(h)'
  BY <1>1, HeadAndTail DEF Left
<1>6. (Persisted(h) \cup Left(h))' = Persisted(h) \cup Left(h)
  BY <1>4, <1>5
<1>7. Persisted(h) \cup Left(h) = Atomic!Written(h) \/ RolledUp(h)
  BY <1>1 DEF AtomicInv, Accounted
<1>8. (Persisted(h) \cup Left(h) = Atomic!Written(h) \/ RolledUp(h))'
  BY <1>1, <1>6, <1>7 DEF RolledUp
<1>9. \A g \in Handlers \ {h} : /\ pc'[g] = pc[g] /\ todo'[g] = todo[g]
                                /\ inserted'[g] = inserted[g] /\ rolled'[g] = rolled[g]
  BY DEF persistSnapshot, AtomicInv, LedgerInv, TypeOK
<1> QED
  BY <1>8, <1>9, OthersAccounted

\* A roll-up that says completed or cancelled has seen the writes of its handler.
LEMMA RollUpAgrees ==
  ASSUME AtomicInv, NEW h \in Handlers, Persisted(h) = Atomic!Written(h)
  PROVE  Atomic!Agrees(h, deriveObjectiveStatus({Visible(h, a) : a \in Items}))
<1> DEFINE seenStatuses == {Visible(h, a) : a \in Items}
           next == deriveObjectiveStatus(seenStatuses)
<1> SUFFICES ASSUME next \in {"completed", "cancelled"},
                    NEW s \in Atomic!Written(h), s.on \in Items
             PROVE  s.status = next
  BY DEF Atomic!Agrees
<1>1. PICK e \in inserted[h] : s = [on |-> e.on, status |-> e.status]
  BY DEF Persisted
<1>2. \A d \in inserted[h] : d.on = s.on => d = e
  BY <1>1, OneWriter DEF AtomicInv
<1>3. Visible(h, s.on) = s.status
  BY <1>1, <1>2 DEF Visible, WrittenBy
<1>4. s.status \in seenStatuses
  BY <1>3
<1>5. seenStatuses = {next}
  BY DEF deriveObjectiveStatus
<1> QED
  BY <1>4, <1>5

LEMMA AccountedRollUp ==
  ASSUME AtomicInv, NEW h \in Handlers, syncObjectiveStatus(h)
  PROVE  Accounted'
<1> DEFINE next == deriveObjectiveStatus({Visible(h, a) : a \in Items})
           t == IF next = seen[h] THEN << >> ELSE <<[on |-> Objective, status |-> next]>>
<1>1. /\ pc[h] = "open" /\ todo[h] = << >> /\ ~ rolled[h]
      /\ rolled'[h] = TRUE /\ todo'[h] = t
      /\ UNCHANGED <<pc, inserted>>
  BY DEF syncObjectiveStatus, AtomicInv, LedgerInv, TypeOK
<1>2. Left(h) = {} /\ Persisted(h)' = Persisted(h)
  BY <1>1 DEF Left, Persisted
<1>3. Persisted(h) = Atomic!Written(h)
  BY <1>1, <1>2 DEF AtomicInv, Accounted, RolledUp
<1>4. next \in ObjectiveStatus /\ Atomic!Agrees(h, next)
  BY <1>3, RollUpAgrees DEF deriveObjectiveStatus, ObjectiveStatus
<1> HIDE DEF next
<1>5. \A g \in Handlers \ {h} : /\ pc'[g] = pc[g] /\ todo'[g] = todo[g]
                                /\ inserted'[g] = inserted[g] /\ rolled'[g] = rolled[g]
  BY DEF syncObjectiveStatus, AtomicInv, LedgerInv, TypeOK
<1>6. CASE next = seen[h]
  <2>1. Left(h)' = {}
    BY <1>1, <1>6 DEF Left
  <2>2. (Persisted(h) \cup Left(h) = Atomic!Written(h))'
    BY <1>2, <1>3, <2>1
  <2> QED
    BY <1>5, <2>2, OthersAccounted
<1>7. CASE next # seen[h]
  <2>1. Left(h)' = {[on |-> Objective, status |-> next]}
    BY <1>1, <1>7 DEF Left
  <2>2. RolledUp(h)'
    BY <1>1, <1>2, <1>3, <1>4, <2>1 DEF RolledUp
  <2> QED
    BY <1>5, <2>2, OthersAccounted
<1> QED
  BY <1>6, <1>7

LEMMA AccountedFinish ==
  ASSUME AtomicInv, NEW h \in Handlers, NEW how, how # "open", Finish(h, how)
  PROVE  Accounted'
<1>1. pc'[h] # "open"
  BY DEF Finish, AtomicInv, LedgerInv, TypeOK
<1>2. \A g \in Handlers \ {h} : /\ pc'[g] = pc[g] /\ todo'[g] = todo[g]
                                /\ inserted'[g] = inserted[g] /\ rolled'[g] = rolled[g]
  BY DEF Finish, AtomicInv, LedgerInv, TypeOK
<1> QED
  BY <1>1, <1>2, OthersAccounted

LEMMA AtomicStep == AtomicInv /\ [Next]_vars => AtomicInv'
<1> SUFFICES ASSUME AtomicInv, [Next]_vars
             PROVE  Accounted'
  BY LedgerStep DEF AtomicInv
<1>1. ASSUME NEW h \in Handlers, getNextSequence(h)
      PROVE  Accounted'
  BY <1>1 DEF getNextSequence, AtomicInv, Accounted, RolledUp, Persisted, Left
<1>2. ASSUME NEW h \in Handlers, Statement(h)
      PROVE  Accounted'
  BY <1>1, <1>2, AccountedBegin, AccountedPersist, AccountedRollUp, AccountedFinish
     DEF Statement, Commit, UniqueViolation, DeadlockVictim
<1>3. ASSUME NEW h \in Handlers, Fail(h)
      PROVE  Accounted'
  BY <1>3, AccountedFinish DEF Fail
<1>4. ASSUME NEW r \in Runs, dequeueQueuedRun(r)
      PROVE  Accounted'
  BY <1>4 DEF dequeueQueuedRun, AtomicInv, Accounted, RolledUp, Persisted, Left
<1>5. CASE UNCHANGED vars
  BY <1>5 DEF vars, AtomicInv, Accounted, RolledUp, Persisted, Left
<1> QED
  BY <1>2, <1>3, <1>4, <1>5 DEF Next

LEMMA AtomicInit == Init => AtomicInv
<1>1. Init => Accounted
  BY DEF Init, Accounted
<1> QED
  BY <1>1, LedgerInit DEF AtomicInv

\* A stream that gets an event gets it at its end.
LEMMA HistoryGrows ==
  ASSUME LedgerInv, LedgerInv', NEW h \in Handlers, Commit(h), NEW a \in Streams,
         NEW e \in inserted[h], e.on = a
  PROVE  histories'[a] = Append(histories[a], e.status)
<1>1. PICK m \in Nat \ {0} : /\ Numbers(a) = 1 .. m
                             /\ e.seq = m + 1
                             /\ Numbers(a)' = 1 .. (m + 1)
  BY CommitNumbersNext
<1>2. EventsOf(a)' = EventsOf(a) \cup {e}
  BY CommitAppends
<1> DEFINE old == EventsOf(a)
           new == EventsOf(a) \cup {e}
           At(k) == (CHOOSE d \in old : d.seq = k).status
           AtNext(k) == (CHOOSE d \in new : d.seq = k).status
<1>3. Cardinality(old) = m /\ Cardinality(new) = m + 1
  <2>1. \A c, d \in old : c.seq = d.seq => c = d
    BY DEF LedgerInv, Streamed
  <2>2. \A c, d \in EventsOf(a)' : c.seq = d.seq => c = d
    BY DEF LedgerInv, Streamed
  <2>3. {d.seq : d \in old} = 1 .. m /\ {d.seq : d \in new} = 1 .. (m + 1)
    BY <1>1, <1>2 DEF Numbers
  <2> QED
    BY <1>2, <2>1, <2>2, <2>3, NumberedCount
<1>4. histories[a] = historyOf(old) /\ histories'[a] = historyOf(new)
  BY <1>2 DEF histories
<1>5. historyOf(old) = [k \in 1 .. m |-> At(k)]
      /\ historyOf(new) = [k \in 1 .. (m + 1) |-> AtNext(k)]
  BY <1>3 DEF historyOf
<1>6. ASSUME NEW k \in 1 .. m
      PROVE  AtNext(k) = At(k)
  <2>1. PICK d \in EventsOf(a) : d.seq = k
    BY <1>1 DEF Numbers
  <2>2. \A c \in EventsOf(a) \cup {e} : c.seq = k => c = d
    BY <1>1, <2>1 DEF LedgerInv, Streamed
  <2>3. (CHOOSE c \in old : c.seq = k) = d /\ (CHOOSE c \in new : c.seq = k) = d
    BY <2>1, <2>2
  <2> QED
    BY <2>3
<1>7. AtNext(m + 1) = e.status
  <2>1. \A c \in EventsOf(a) : c.seq \in 1 .. m
    BY <1>1 DEF Numbers
  <2>2. \A c \in new : c.seq = m + 1 => c = e
    BY <2>1
  <2>3. (CHOOSE c \in new : c.seq = m + 1) = e
    BY <1>1, <2>2
  <2> QED
    BY <2>3
<1> HIDE DEF At, AtNext
<1>8. Append([k \in 1 .. m |-> At(k)], e.status)
        = [k \in 1 .. (m + 1) |-> IF k = m + 1 THEN e.status ELSE At(k)]
  <2> DEFINE s == [k \in 1 .. m |-> At(k)]
  <2>1. s \in Seq({At(k) : k \in 1 .. m}) /\ Len(s) = m
    OBVIOUS
  <2> QED
    BY <2>1
<1>9. \A k \in 1 .. (m + 1) : AtNext(k) = IF k = m + 1 THEN e.status ELSE At(k)
  BY <1>6, <1>7
<1>10. [k \in 1 .. (m + 1) |-> AtNext(k)]
         = [k \in 1 .. (m + 1) |-> IF k = m + 1 THEN e.status ELSE At(k)]
  BY <1>9
<1> QED
  BY <1>4, <1>5, <1>8, <1>10

\* A commit is a step of the abstract ledger.
LEMMA CommitIsAtomic ==
  ASSUME AtomicInv, AtomicInv', NEW h \in Handlers, Commit(h)
  PROVE  Atomic!Commit(h, Persisted(h))
<1> DEFINE On(a) == {s \in Persisted(h) : s.on = a}
           StatusOn(a) == (CHOOSE s \in On(a) : TRUE).status
<1>1. /\ pc[h] = "open" /\ Finish(h, "committed")
      /\ row' = [a \in Streams |-> Visible(h, a)]
  BY DEF Commit
<1>2. ASSUME NEW a \in Streams, On(a) = {}
      PROVE  row'[a] = row[a] /\ histories'[a] = histories[a]
  <2>1. ASSUME NEW e \in inserted[h], e.on = a
        PROVE  FALSE
    <3>1. [on |-> e.on, status |-> e.status] \in On(a)
      BY <2>1 DEF Persisted
    <3> QED
      BY <1>2, <3>1
  <2>2. EventsOf(a)' = EventsOf(a) /\ row'[a] = row[a]
    BY <2>1, CommitLeaves DEF AtomicInv, WrittenBy
  <2> QED
    BY <2>2 DEF histories
<1>3. ASSUME NEW a \in Streams, On(a) # {}
      PROVE  row'[a] = StatusOn(a) /\ histories'[a] = Append(histories[a], StatusOn(a))
  <2>1. PICK e \in inserted[h] : e.on = a
    BY <1>3 DEF Persisted
  <2>2. \A d \in inserted[h] : d.on = a => d = e
    BY <2>1, OneWriter DEF AtomicInv
  <2>3. On(a) = {[on |-> e.on, status |-> e.status]}
    BY <2>1, <2>2 DEF Persisted
  <2>4. StatusOn(a) = e.status
    <3>1. (CHOOSE s \in {[on |-> e.on, status |-> e.status]} : TRUE)
            = [on |-> e.on, status |-> e.status]
      OBVIOUS
    <3> QED
      BY <2>3, <3>1
  <2>5. row'[a] = e.status
    BY <2>1, CommitAppends DEF AtomicInv
  <2>6. histories'[a] = Append(histories[a], e.status)
    BY <2>1, HistoryGrows DEF AtomicInv
  <2> QED
    BY <2>4, <2>5, <2>6
<1>4. Atomic!Aggregates = Streams
  BY DEF Atomic!Aggregates, Streams
<1> HIDE DEF On, StatusOn
<1>5. row' = [a \in Streams |-> IF On(a) = {} THEN row[a] ELSE StatusOn(a)]
  BY <1>1, <1>2, <1>3
<1>6. histories' = [a \in Streams |-> IF On(a) = {} THEN histories[a]
                                     ELSE Append(histories[a], StatusOn(a))]
  <2>1. histories' = [a \in Streams |-> histories'[a]]
    BY DEF histories
  <2> QED
    BY <1>2, <1>3, <2>1
<1>7. outcomes[h] = "pending" /\ outcomes' = [outcomes EXCEPT ![h] = "committed"]
  BY <1>1 DEF outcomes, Finish, AtomicInv, LedgerInv, TypeOK
<1> QED
  BY <1>4, <1>5, <1>6, <1>7 DEF Atomic!Commit, On, StatusOn

\* A handler that ends without commit was pending and leaves nothing.
LEMMA AbortIsAtomic ==
  ASSUME AtomicInv, NEW h \in Handlers, pc[h] = "open", Finish(h, "aborted"),
         UNCHANGED <<row, ledger>>
  PROVE  Atomic!Abort(h)
<1>1. outcomes[h] = "pending" /\ outcomes' = [outcomes EXCEPT ![h] = "aborted"]
  BY DEF outcomes, Finish, AtomicInv, LedgerInv, TypeOK
<1>2. histories' = histories
  BY DEF histories, EventsOf
<1> QED
  BY <1>1, <1>2 DEF Atomic!Abort

LEMMA AtomicSteps ==
  AtomicInv /\ AtomicInv' /\ [Next]_vars => [Atomic!Next]_<<row, histories, outcomes>>
<1> SUFFICES ASSUME AtomicInv, AtomicInv', [Next]_vars
             PROVE  Atomic!Next \/ UNCHANGED <<row, histories, outcomes>>
  OBVIOUS
<1>1. ASSUME NEW h \in Handlers, Commit(h)
      PROVE  Atomic!Next
  <2>1. pc[h] = "open" /\ todo[h] = << >>
    BY <1>1 DEF Commit
  <2>2. Left(h) = {}
    BY <2>1 DEF Left
  <2>3. \/ Persisted(h) = Atomic!Written(h)
        \/ \E status \in ObjectiveStatus :
             /\ Atomic!Agrees(h, status)
             /\ Persisted(h) = Atomic!Written(h) \cup {[on |-> Objective, status |-> status]}
    BY <2>1, <2>2 DEF AtomicInv, Accounted, RolledUp
  <2> QED
    BY <1>1, <2>3, CommitIsAtomic DEF Atomic!Next, Atomic!CommitRolledUp
<1>2. ASSUME NEW h \in Handlers, UniqueViolation(h) \/ DeadlockVictim(h) \/ Fail(h)
      PROVE  Atomic!Next
  <2>1. Finish(h, "aborted") /\ UNCHANGED <<row, ledger>>
    BY <1>2 DEF UniqueViolation, DeadlockVictim, Fail
  <2>2. todo[h] # << >> \/ pc[h] = "open"
    BY <1>2 DEF UniqueViolation, DeadlockVictim, Fail, Duplicate, Deadlocked, WaitsFor
  <2>3. pc[h] = "open"
    BY <2>2 DEF AtomicInv, LedgerInv, ClosedIsEmpty
  <2> QED
    BY <2>1, <2>3, AbortIsAtomic DEF Atomic!Next
<1>3. ASSUME NEW h \in Handlers, Begin(h)
      PROVE  UNCHANGED <<row, histories, outcomes>>
  BY <1>3 DEF Begin, histories, outcomes, EventsOf, AtomicInv, LedgerInv, TypeOK
<1>4. ASSUME NEW h \in Handlers,
             getNextSequence(h) \/ persistSnapshot(h) \/ syncObjectiveStatus(h)
      PROVE  UNCHANGED <<row, histories, outcomes>>
  <2>1. UNCHANGED <<row, ledger, pc>>
    BY <1>4 DEF getNextSequence, persistSnapshot, syncObjectiveStatus
  <2> QED
    BY <2>1 DEF histories, outcomes, EventsOf
<1>5. ASSUME NEW r \in Runs, dequeueQueuedRun(r)
      PROVE  Atomic!Next
  <2>1. Atomic!Dequeue(r)
    BY <1>5 DEF dequeueQueuedRun, histories, outcomes, EventsOf, Atomic!Dequeue
  <2> QED
    BY <2>1 DEF Atomic!Next
<1>6. CASE UNCHANGED vars
  BY <1>6 DEF vars, histories, outcomes, EventsOf
<1> QED
  BY <1>1, <1>2, <1>3, <1>4, <1>5, <1>6 DEF Next, Statement

LEMMA AtomicBegins == Init => Atomic!Init
<1> SUFFICES ASSUME Init
             PROVE  Atomic!Init
  OBVIOUS
<1>1. outcomes = [h \in Handlers |-> "pending"]
  BY DEF Init, outcomes
<1>2. ASSUME NEW a \in Streams
      PROVE  histories[a] = <<Initial[a]>>
  <2> DEFINE e == [on |-> a, seq |-> 1, status |-> Initial[a]]
  <2>1. EventsOf(a) = {e}
    BY DEF Init, EventsOf
  <2>2. Cardinality(EventsOf(a)) = 1
    BY <2>1, FS_Singleton
  <2>3. (CHOOSE d \in EventsOf(a) : d.seq = 1) = e
    BY <2>1
  <2>4. historyOf(EventsOf(a)) = [k \in 1 .. 1 |-> (CHOOSE d \in EventsOf(a) : d.seq = k).status]
    BY <2>2 DEF historyOf
  <2>5. \A k \in 1 .. 1 : (CHOOSE d \in EventsOf(a) : d.seq = k).status = Initial[a]
    <3> SUFFICES ASSUME NEW k \in 1 .. 1
                 PROVE  (CHOOSE d \in EventsOf(a) : d.seq = k).status = Initial[a]
      OBVIOUS
    <3>1. k = 1 /\ e.status = Initial[a]
      OBVIOUS
    <3> QED
      BY <2>3, <3>1
  <2>6. historyOf(EventsOf(a)) = <<Initial[a]>>
    BY <2>4, <2>5
  <2> QED
    BY <2>6 DEF histories
<1>3. histories = [a \in Streams |-> <<Initial[a]>>]
  <2>1. histories = [a \in Streams |-> histories[a]]
    BY DEF histories
  <2> QED
    BY <1>2, <2>1
<1> QED
  BY <1>1, <1>3 DEF Init, Atomic!Init, Atomic!Aggregates, Streams

\* Transactions that overlap, fail and deadlock implement calls that take effect one
\* at a time and as a whole: the projections and the ledger change together.
THEOREM LedgerRefinement == Spec => ImplementsAtomicLedger
<1> QED
  BY AtomicInit, AtomicStep, AtomicSteps, AtomicBegins, PTL
  DEF Spec, ImplementsAtomicLedger, Atomic!Spec

-----------------------------------------------------------------------------
(* The roll-up without overlap. *)

derived(h) == deriveObjectiveStatus({Visible(h, a) : a \in Items})

\* The objective of an open call is the one it has read; after its roll-up, what the
\* call will commit is what its items derive: written already, or still to write.
RollUpFits ==
  \A h \in Handlers :
    /\ pc[h] # "open" => ~ rolled[h]
    /\ pc[h] = "open" => seen[h] = row[Objective]
    /\ pc[h] = "open" /\ rolled[h] =>
         \/ /\ todo[h] = <<[on |-> Objective, status |-> derived(h)]>>
            /\ ~ WrittenBy(h, Objective)
         \/ /\ todo[h] = << >>
            /\ Visible(h, Objective) = derived(h)

RollUpInv == AtomicInv /\ RollUpFits /\ RollUpHolds

\* Before its roll-up a call writes no objective.
LEMMA ObjectiveUnwritten ==
  ASSUME AtomicInv, NEW h \in Handlers, pc[h] = "open", ~ rolled[h]
  PROVE  ~ WrittenBy(h, Objective)
<1> SUFFICES ASSUME NEW e \in inserted[h], e.on = Objective
             PROVE  FALSE
  BY DEF WrittenBy
<1>1. [on |-> e.on, status |-> e.status] \in Atomic!Written(h)
  BY DEF AtomicInv, Accounted, RolledUp, Persisted
<1>2. PICK i \in 1 .. Len(Writes[h]) : Writes[h][i].on = Objective
  BY <1>1 DEF Atomic!Written
<1>3. Writes[h][i] \in [on : Items \cup Runs, status : Status]
  <2>1. Writes[h] \in Seq([on : Items \cup Runs, status : Status])
    BY LedgerAssumption
  <2>2. ASSUME NEW S, NEW s \in Seq(S), NEW j \in 1 .. Len(s)
        PROVE  s[j] \in S
    OBVIOUS
  <2> QED
    BY <1>2, <2>1, <2>2
<1>4. Objective \in Items \cup Runs
  BY <1>2, <1>3
<1> QED
  BY <1>4, LedgerAssumption

\* A step of h that leaves the rows alone, while no other call is open, keeps the
\* roll-ups right if it keeps that of h.
LEMMA OwnRollUp ==
  ASSUME RollUpInv, NEW h \in Handlers, UNCHANGED row,
         \A g \in Handlers \ {h} : pc'[g] = pc[g] /\ rolled'[g] = rolled[g] /\ pc[g] # "open",
         pc'[h] # "committed",
         pc'[h] # "open" => ~ rolled'[h],
         pc'[h] = "open" => seen'[h] = row[Objective],
         pc'[h] = "open" /\ rolled'[h] =>
           (\/ /\ todo[h] = <<[on |-> Objective, status |-> derived(h)]>>
               /\ ~ WrittenBy(h, Objective)
            \/ /\ todo[h] = << >>
               /\ Visible(h, Objective) = derived(h))'
  PROVE  RollUpFits' /\ RollUpHolds'
<1>1. RollUpFits'
  <2> SUFFICES ASSUME NEW g \in Handlers
               PROVE  (/\ pc[g] # "open" => ~ rolled[g]
                       /\ pc[g] = "open" => seen[g] = row[Objective]
                       /\ pc[g] = "open" /\ rolled[g] =>
                            \/ /\ todo[g] = <<[on |-> Objective, status |-> derived(g)]>>
                               /\ ~ WrittenBy(g, Objective)
                            \/ /\ todo[g] = << >>
                               /\ Visible(g, Objective) = derived(g))'
    BY DEF RollUpFits
  <2>1. CASE g = h
    BY <2>1
  <2>2. CASE g # h
    BY <2>2 DEF RollUpInv, RollUpFits
  <2> QED
    BY <2>1, <2>2
<1>2. RollUpHolds'
  <2> SUFFICES ASSUME NEW g \in Handlers, pc'[g] = "committed"
               PROVE  row[Objective] = deriveObjectiveStatus({row[a] : a \in Items})
    BY DEF RollUpHolds
  <2>1. pc[g] = "committed"
    BY DEF RollUpInv
  <2> QED
    BY <2>1 DEF RollUpInv, RollUpHolds
<1> QED
  BY <1>1, <1>2

LEMMA RollUpOfBegin ==
  ASSUME RollUpInv, NEW h \in Handlers, Begin(h), ~ Overlap'
  PROVE  RollUpFits' /\ RollUpHolds'
<1>1. /\ pc'[h] = "open" /\ seen'[h] = row[Objective] /\ UNCHANGED <<row, rolled>>
      /\ \A g \in Handlers \ {h} : pc'[g] = pc[g]
  BY DEF Begin, RollUpInv, AtomicInv, LedgerInv, TypeOK
<1>2. \A g \in Handlers \ {h} : pc[g] # "open"
  BY <1>1 DEF Overlap
<1>3. ~ rolled'[h]
  BY <1>1 DEF Begin, RollUpInv, RollUpFits
<1> QED
  BY <1>1, <1>2, <1>3, OwnRollUp

\* What an open call has written is seen by its later statements.
LEMMA RollUpOfPersist ==
  ASSUME RollUpInv, NEW h \in Handlers, persistSnapshot(h), ~ Overlap
  PROVE  RollUpFits' /\ RollUpHolds'
<1> DEFINE s == Head(todo[h])
           event == [on |-> s.on, seq |-> number[h], status |-> s.status]
<1>1. /\ todo[h] # << >> /\ pc[h] = "open"
      /\ inserted'[h] = inserted[h] \cup {event}
      /\ todo'[h] = Tail(todo[h])
      /\ UNCHANGED <<row, pc, seen, rolled>>
  BY DEF persistSnapshot, RollUpInv, AtomicInv, LedgerInv, TypeOK, ClosedIsEmpty
<1>2. \A g \in Handlers \ {h} : pc[g] # "open"
  BY <1>1 DEF Overlap
<1>3. ASSUME rolled[h]
      PROVE  (/\ todo[h] = << >>
              /\ Visible(h, Objective) = derived(h))'
  <2>1. /\ todo[h] = <<[on |-> Objective, status |-> derived(h)]>>
        /\ ~ WrittenBy(h, Objective)
    BY <1>1, <1>3 DEF RollUpInv, RollUpFits
  <2>2. event.on = Objective /\ event.status = derived(h) /\ todo'[h] = << >>
    BY <1>1, <2>1
  <2> HIDE DEF event
  <2>3. \A e \in inserted'[h] : e.on = Objective <=> e = event
    BY <1>1, <2>1, <2>2 DEF WrittenBy
  <2>4. Visible(h, Objective)' = derived(h)
    <3>1. (CHOOSE e \in inserted'[h] : e.on = Objective) = event
      BY <1>1, <2>3
    <3>2. WrittenBy(h, Objective)'
      BY <1>1, <2>3 DEF WrittenBy
    <3> QED
      BY <2>2, <3>1, <3>2 DEF Visible
  <2>5. ASSUME NEW a \in Items
        PROVE  Visible(h, a)' = Visible(h, a)
    <3>1. a # Objective
      BY LedgerAssumption
    <3>2. \A e \in inserted'[h] : e.on = a <=> (e \in inserted[h] /\ e.on = a)
      BY <1>1, <2>2, <3>1
    <3>3. (CHOOSE e \in inserted'[h] : e.on = a) = (CHOOSE e \in inserted[h] : e.on = a)
      BY <1>1, <3>2
    <3>4. WrittenBy(h, a)' <=> WrittenBy(h, a)
      BY <1>1, <3>2 DEF WrittenBy
    <3>5. CASE WrittenBy(h, a)
      <4>1. Visible(h, a)' = (CHOOSE e \in inserted'[h] : e.on = a).status
        BY <3>4, <3>5 DEF Visible
      <4>2. Visible(h, a) = (CHOOSE e \in inserted[h] : e.on = a).status
        BY <3>5 DEF Visible
      <4> QED
        BY <3>3, <4>1, <4>2
    <3>6. CASE ~ WrittenBy(h, a)
      BY <1>1, <3>4, <3>6 DEF Visible
    <3> QED
      BY <3>5, <3>6
  <2>6. derived(h)' = derived(h)
    BY <2>5 DEF derived
  <2> QED
    BY <2>2, <2>4, <2>6
<1>4. seen'[h] = row[Objective]
  BY <1>1 DEF RollUpInv, RollUpFits
<1> HIDE DEF event, s
<1> QED
  BY <1>1, <1>2, <1>3, <1>4, OwnRollUp

LEMMA RollUpOfSync ==
  ASSUME RollUpInv, NEW h \in Handlers, syncObjectiveStatus(h), ~ Overlap
  PROVE  RollUpFits' /\ RollUpHolds'
<1>1. /\ pc[h] = "open" /\ todo[h] = << >> /\ ~ rolled[h]
      /\ rolled'[h] = TRUE
      /\ todo'[h] = IF derived(h) = seen[h] THEN << >>
                    ELSE <<[on |-> Objective, status |-> derived(h)]>>
      /\ UNCHANGED <<row, pc, seen, inserted>>
      /\ \A g \in Handlers \ {h} : rolled'[g] = rolled[g]
  BY DEF syncObjectiveStatus, derived, RollUpInv, AtomicInv, LedgerInv, TypeOK
<1>2. \A g \in Handlers \ {h} : pc[g] # "open"
  BY <1>1 DEF Overlap
<1>3. \A a : Visible(h, a)' = Visible(h, a) /\ WrittenBy(h, a)' = WrittenBy(h, a)
  BY <1>1 DEF Visible, WrittenBy
<1>4. derived(h)' = derived(h)
  BY <1>3 DEF derived
<1>5. ~ WrittenBy(h, Objective) /\ seen[h] = row[Objective]
  BY <1>1, ObjectiveUnwritten DEF RollUpInv, RollUpFits
<1>6. Visible(h, Objective) = seen[h]
  BY <1>5 DEF Visible
<1> QED
  BY <1>1, <1>2, <1>3, <1>4, <1>5, <1>6, OwnRollUp

\* A commit leaves the objective its roll-up has derived from what it leaves of the items.
LEMMA RollUpOfCommit ==
  ASSUME RollUpInv, NEW h \in Handlers, Commit(h), ~ Overlap
  PROVE  RollUpFits' /\ RollUpHolds'
<1>1. /\ pc[h] = "open" /\ todo[h] = << >> /\ rolled[h]
      /\ row' = [a \in Streams |-> Visible(h, a)]
      /\ pc'[h] = "committed" /\ ~ rolled'[h]
      /\ \A g \in Handlers \ {h} : pc'[g] = pc[g] /\ rolled'[g] = rolled[g]
  BY DEF Commit, Finish, RollUpInv, AtomicInv, LedgerInv, TypeOK
<1>2. \A g \in Handlers \ {h} : pc[g] # "open"
  BY <1>1 DEF Overlap
<1>3. RollUpFits'
  <2>1. ASSUME NEW g \in Handlers
        PROVE  pc'[g] # "open" /\ ~ rolled'[g]
    BY <1>1, <1>2 DEF RollUpInv, RollUpFits
  <2> SUFFICES ASSUME NEW g \in Handlers
               PROVE  (/\ pc[g] # "open" => ~ rolled[g]
                       /\ pc[g] = "open" => seen[g] = row[Objective]
                       /\ pc[g] = "open" /\ rolled[g] =>
                            \/ /\ todo[g] = <<[on |-> Objective, status |-> derived(g)]>>
                               /\ ~ WrittenBy(g, Objective)
                            \/ /\ todo[g] = << >>
                               /\ Visible(g, Objective) = derived(g))'
    BY DEF RollUpFits
  <2> QED
    BY <2>1
<1>4. Visible(h, Objective) = derived(h)
  <2>1. \A x : <<x>> # << >>
    OBVIOUS
  <2>2. todo[h] # <<[on |-> Objective, status |-> derived(h)]>>
    BY <1>1, <2>1
  <2> QED
    BY <1>1, <2>2 DEF RollUpInv, RollUpFits
<1>5. row'[Objective] = Visible(h, Objective) /\ \A a \in Items : row'[a] = Visible(h, a)
  BY <1>1 DEF Streams
<1>6. {row'[a] : a \in Items} = {Visible(h, a) : a \in Items}
  BY <1>5
<1> QED
  BY <1>3, <1>4, <1>5, <1>6 DEF RollUpHolds, derived

LEMMA RollUpOfAbort ==
  ASSUME RollUpInv, NEW h \in Handlers, pc[h] = "open", Finish(h, "aborted"),
         UNCHANGED row, ~ Overlap
  PROVE  RollUpFits' /\ RollUpHolds'
<1>1. /\ pc'[h] = "aborted" /\ ~ rolled'[h]
      /\ \A g \in Handlers \ {h} : pc'[g] = pc[g] /\ rolled'[g] = rolled[g]
  BY DEF Finish, RollUpInv, AtomicInv, LedgerInv, TypeOK
<1>2. \A g \in Handlers \ {h} : pc[g] # "open"
  BY DEF Overlap
<1> QED
  BY <1>1, <1>2, OwnRollUp

LEMMA RollUpOfDequeue ==
  ASSUME RollUpInv, NEW r \in Runs, dequeueQueuedRun(r)
  PROVE  RollUpFits' /\ RollUpHolds'
<1>1. /\ row' = [row EXCEPT ![r] = "running"] /\ row \in [Streams -> Status]
      /\ UNCHANGED <<pc, seen, todo, inserted, rolled>>
  BY DEF dequeueQueuedRun, RollUpInv, AtomicInv, LedgerInv, TypeOK
<1>2. \A a \in Items \cup {Objective} : row'[a] = row[a]
  BY <1>1, LedgerAssumption DEF Streams
<1>3. \A h \in Handlers : \A a \in Items \cup {Objective} :
        Visible(h, a)' = Visible(h, a) /\ WrittenBy(h, a)' = WrittenBy(h, a)
  BY <1>1, <1>2 DEF Visible, WrittenBy
<1>4. \A h \in Handlers : derived(h)' = derived(h)
  <2> SUFFICES ASSUME NEW h \in Handlers
               PROVE  derived(h)' = derived(h)
    OBVIOUS
  <2>1. {Visible(h, a)' : a \in Items} = {Visible(h, a) : a \in Items}
    BY <1>3
  <2> QED
    BY <2>1 DEF derived
<1>5. RollUpFits'
  BY <1>1, <1>2, <1>3, <1>4 DEF RollUpInv, RollUpFits
<1>6. {row'[a] : a \in Items} = {row[a] : a \in Items}
  BY <1>2
<1>7. RollUpHolds'
  BY <1>1, <1>2, <1>6 DEF RollUpInv, RollUpHolds
<1> QED
  BY <1>5, <1>7

\* A step that only reads keeps all of it.
LEMMA RollUpOfRead ==
  ASSUME RollUpInv, UNCHANGED <<row, pc, seen, todo, inserted, rolled>>
  PROVE  RollUpFits' /\ RollUpHolds'
<1>1. \A h, a : Visible(h, a)' = Visible(h, a) /\ WrittenBy(h, a)' = WrittenBy(h, a)
  BY DEF Visible, WrittenBy
<1>2. \A h : derived(h)' = derived(h)
  BY <1>1 DEF derived
<1> QED
  BY <1>1, <1>2 DEF RollUpInv, RollUpFits, RollUpHolds

LEMMA RollUpStep ==
  RollUpInv /\ [Next]_vars /\ ~ Overlap /\ ~ Overlap' => RollUpInv'
<1> SUFFICES ASSUME RollUpInv, [Next]_vars, ~ Overlap, ~ Overlap'
             PROVE  RollUpFits' /\ RollUpHolds'
  BY AtomicStep DEF RollUpInv
<1>1. ASSUME NEW h \in Handlers, getNextSequence(h)
      PROVE  RollUpFits' /\ RollUpHolds'
  BY <1>1, RollUpOfRead DEF getNextSequence
<1>2. ASSUME NEW h \in Handlers, UniqueViolation(h) \/ DeadlockVictim(h) \/ Fail(h)
      PROVE  RollUpFits' /\ RollUpHolds'
  <2>1. Finish(h, "aborted") /\ UNCHANGED row
    BY <1>2 DEF UniqueViolation, DeadlockVictim, Fail
  <2>2. todo[h] # << >> \/ pc[h] = "open"
    BY <1>2 DEF UniqueViolation, DeadlockVictim, Fail, Duplicate, Deadlocked, WaitsFor
  <2>3. pc[h] = "open"
    BY <2>2 DEF RollUpInv, AtomicInv, LedgerInv, ClosedIsEmpty
  <2> QED
    BY <2>1, <2>3, RollUpOfAbort
<1>3. CASE UNCHANGED vars
  BY <1>3, RollUpOfRead DEF vars
<1> QED
  BY <1>1, <1>2, <1>3, RollUpOfBegin, RollUpOfPersist, RollUpOfSync, RollUpOfCommit,
     RollUpOfDequeue DEF Next, Statement

LEMMA RollUpInit == Init => RollUpInv
<1>1. Init => RollUpFits /\ RollUpHolds
  BY DEF Init, RollUpFits, RollUpHolds
<1> QED
  BY <1>1, AtomicInit DEF RollUpInv

\* Calls that follow each other leave the objective what its work items make it, though
\* a roll-up trusts the status read before the transaction (syncObjectiveStatus).
THEOREM RollUpWithoutOverlap == Spec => RollUpHoldsWithoutOverlap
<1>1. RollUpInv => RollUpHolds
  BY DEF RollUpInv
<1> QED
  BY <1>1, RollUpInit, RollUpStep, PTL DEF Spec, RollUpHoldsWithoutOverlap
=============================================================================
