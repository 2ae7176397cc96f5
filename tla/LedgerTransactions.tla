------------------------- MODULE LedgerTransactions -------------------------
(***************************************************************************)
(* The transactions of the control plane, statement by statement, on the   *)
(* PostgreSQL of db/: read committed isolation, the unique index on        *)
(* (aggregate, stream_sequence) of ledger_events, and the lock waits and   *)
(* deadlock detection that follow from it.                                 *)
(*                                                                         *)
(* A handler (an endpoint of server.ts or a settlement of worker.ts) reads *)
(* the objective, then in one transaction persists a snapshot of each      *)
(* aggregate it changes, in the order of its source, and rolls up the      *)
(* objective.  Persisting a snapshot is: number the event after the last   *)
(* committed one of its stream, insert it, write the row.  RunLifecycle    *)
(* takes such a transaction as one step; the properties here say when that *)
(* is right (OneOpenWriterPerStream) and what it hides (the roll-up).      *)
(***************************************************************************)
EXTENDS Integers, Sequences, FiniteSets, Orchestration

CONSTANTS
  Items,        \* the work items of one objective
  Runs,         \* their runs
  Objective,    \* the objective
  Handlers,     \* one call of an endpoint or of a worker settlement each
  Writes,       \* the snapshots [on, status] a handler persists, in order
  Initial,      \* the status of every row before
  PageLimit     \* the limit of the query behind getNextSequence, 1000 in the code

Streams == Items \cup Runs \cup {Objective}
RunStatus == {"queued", "running", "valid_success", "invalid_output",
              "transient_failure", "permanent_failure", "cancelled"}
Status == ItemStatus \cup RunStatus \cup ObjectiveStatus
Snapshot == [on : Streams, status : Status]
Event == [on : Streams, seq : Nat \ {0}, status : Status]

ASSUME LedgerAssumption ==
  /\ Objective \notin Items \cup Runs
  /\ Items \cap Runs = {}
  /\ Writes \in [Handlers -> Seq([on : Items \cup Runs, status : Status])]
  \* No handler persists an aggregate twice.
  /\ \A h \in Handlers : \A i, j \in 1 .. Len(Writes[h]) :
       Writes[h][i].on = Writes[h][j].on => i = j
  /\ Initial \in [Streams -> Status]
  /\ PageLimit \in Nat \ {0}

VARIABLES
  row,       \* the committed status of every aggregate
  ledger,    \* the committed events
  pc,        \* "idle", "open" (in its transaction), "committed" or "aborted"
  seen,      \* the objective status a handler read before its transaction
  todo,      \* the snapshots a transaction has still to persist
  number,    \* the sequence number of the snapshot at its head, 0 if not read
  inserted,  \* the events a transaction has inserted
  rolled     \* whether a transaction has rolled up the objective

vars == <<row, ledger, pc, seen, todo, number, inserted, rolled>>

EventsOf(a) == {e \in ledger : e.on = a}
Latest(events) == {e \in events : \A d \in events : d.seq <= e.seq}
\* The highest number on the first page of the stream, which is in order of time.
lastSequence(a) ==
  (CHOOSE e \in Latest({d \in EventsOf(a) : d.seq <= PageLimit}) : TRUE).seq
WrittenBy(h, a) == \E e \in inserted[h] : e.on = a

-----------------------------------------------------------------------------

Init ==
  /\ row = Initial
  /\ ledger = {[on |-> a, seq |-> 1, status |-> Initial[a]] : a \in Streams}
  /\ pc = [h \in Handlers |-> "idle"]
  /\ seen = [h \in Handlers |-> "draft"]
  /\ todo = [h \in Handlers |-> << >>]
  /\ number = [h \in Handlers |-> 0]
  /\ inserted = [h \in Handlers |-> {}]
  /\ rolled = [h \in Handlers |-> FALSE]

Finish(h, how) ==
  /\ pc' = [pc EXCEPT ![h] = how]
  /\ todo' = [todo EXCEPT ![h] = << >>]
  /\ number' = [number EXCEPT ![h] = 0]
  /\ inserted' = [inserted EXCEPT ![h] = {}]
  /\ rolled' = [rolled EXCEPT ![h] = FALSE]
  /\ UNCHANGED seen

\* getObjectiveById, then begin.
Begin(h) ==
  /\ pc[h] = "idle"
  /\ pc' = [pc EXCEPT ![h] = "open"]
  /\ seen' = [seen EXCEPT ![h] = row[Objective]]
  /\ todo' = [todo EXCEPT ![h] = Writes[h]]
  /\ UNCHANGED <<row, ledger, number, inserted, rolled>>

getNextSequence(h) ==
  /\ todo[h] # << >>
  /\ number[h] = 0
  /\ number' = [number EXCEPT ![h] = lastSequence(Head(todo[h]).on) + 1]
  /\ UNCHANGED <<row, ledger, pc, seen, todo, inserted, rolled>>

SameKey(e, a, n) == e.on = a /\ e.seq = n
\* Mutant: inserting the same key does not wait for the transaction that did.
WaitsForNobody(h, g) == FALSE
\* Another open transaction has inserted the event h is about to insert.
WaitsFor(h, g) ==
  /\ todo[h] # << >>
  /\ number[h] > 0
  /\ \E e \in inserted[g] : SameKey(e, Head(todo[h]).on, number[h])
\* Mutant: no unique index on the stream and its sequence numbers.
NoUniqueIndex(h) == FALSE
\* A committed event has the number h read before that event was committed.
Duplicate(h) ==
  /\ todo[h] # << >>
  /\ \E e \in ledger : SameKey(e, Head(todo[h]).on, number[h])

\* Mutant: the event is built before its number is read.
persistUnnumbered(h) ==
  LET s == Head(todo[h])
  IN  /\ todo[h] # << >>
      /\ inserted' = [inserted EXCEPT ![h] =
           @ \cup {[on |-> s.on, seq |-> number[h], status |-> s.status]}]
      /\ todo' = [todo EXCEPT ![h] = Tail(@)]
      /\ number' = [number EXCEPT ![h] = 0]
      /\ UNCHANGED <<row, ledger, pc, seen, rolled>>
\* Mutant: the snapshot is written through the pool instead of the transaction.
persistThroughPool(h) ==
  LET s == Head(todo[h])
  IN  /\ todo[h] # << >>
      /\ number[h] > 0
      /\ ~ Duplicate(h)
      /\ ledger' = ledger \cup {[on |-> s.on, seq |-> number[h], status |-> s.status]}
      /\ row' = [row EXCEPT ![s.on] = s.status]
      /\ todo' = [todo EXCEPT ![h] = Tail(@)]
      /\ number' = [number EXCEPT ![h] = 0]
      /\ UNCHANGED <<pc, seen, inserted, rolled>>
\* appendDomainEvent and the upsert of the row, which no other open transaction
\* holds: one that did would have inserted this very event.
persistSnapshot(h) ==
  LET s == Head(todo[h])
  IN  /\ todo[h] # << >>
      /\ number[h] > 0
      /\ ~ Duplicate(h)
      /\ \A g \in Handlers : ~ WaitsFor(h, g)
      /\ inserted' = [inserted EXCEPT ![h] =
           @ \cup {[on |-> s.on, seq |-> number[h], status |-> s.status]}]
      /\ todo' = [todo EXCEPT ![h] = Tail(@)]
      /\ number' = [number EXCEPT ![h] = 0]
      /\ UNCHANGED <<row, ledger, pc, seen, rolled>>

\* The statuses a statement of h sees: its own writes over the committed rows.
Visible(h, a) ==
  IF WrittenBy(h, a) THEN (CHOOSE e \in inserted[h] : e.on = a).status ELSE row[a]

\* Mutant: the items are listed through the pool, without the transaction's own writes.
rollUpThroughPool(h) ==
  LET next == deriveObjectiveStatus({row[a] : a \in Items})
  IN  /\ pc[h] = "open"
      /\ todo[h] = << >>
      /\ ~ rolled[h]
      /\ rolled' = [rolled EXCEPT ![h] = TRUE]
      /\ todo' = [todo EXCEPT ![h] =
           IF next = seen[h] THEN << >> ELSE <<[on |-> Objective, status |-> next]>>]
      /\ UNCHANGED <<row, ledger, pc, seen, number, inserted>>
syncObjectiveStatus(h) ==
  LET next == deriveObjectiveStatus({Visible(h, a) : a \in Items})
  IN  /\ pc[h] = "open"
      /\ todo[h] = << >>
      /\ ~ rolled[h]
      /\ rolled' = [rolled EXCEPT ![h] = TRUE]
      /\ todo' = [todo EXCEPT ![h] =
           IF next = seen[h] THEN << >> ELSE <<[on |-> Objective, status |-> next]>>]
      /\ UNCHANGED <<row, ledger, pc, seen, number, inserted>>

\* Mutant: returning early, without commit, when the objective is as it was.
CommitChangedObjective(h) ==
  /\ pc[h] = "open"
  /\ todo[h] = << >>
  /\ rolled[h]
  /\ WrittenBy(h, Objective)
  /\ row' = [a \in Streams |-> Visible(h, a)]
  /\ ledger' = ledger \cup inserted[h]
  /\ Finish(h, "committed")
Commit(h) ==
  /\ pc[h] = "open"
  /\ todo[h] = << >>
  /\ rolled[h]
  /\ row' = [a \in Streams |-> Visible(h, a)]
  /\ ledger' = ledger \cup inserted[h]
  /\ Finish(h, "committed")

\* The unique index refuses the event: the handler rolls back and throws.
UniqueViolation(h) ==
  /\ Duplicate(h)
  /\ Finish(h, "aborted")
  /\ UNCHANGED <<row, ledger>>

\* Transactions that wait for each other in a ring; PostgreSQL aborts one of them.
Deadlocked(h) ==
  \E S \in SUBSET Handlers :
    /\ h \in S
    /\ \A g \in S : \E f \in S : WaitsFor(g, f)
    /\ \A g \in S : \E f \in S : WaitsFor(f, g)
DeadlockVictim(h) ==
  /\ Deadlocked(h)
  /\ Finish(h, "aborted")
  /\ UNCHANGED <<row, ledger>>

\* A database error, or the process dies: the server rolls the transaction back.
Fail(h) ==
  /\ pc[h] = "open"
  /\ Finish(h, "aborted")
  /\ UNCHANGED <<row, ledger>>

\* dequeueQueuedRun: for update skip locked, and no event.
dequeueQueuedRun(r) ==
  /\ row[r] = "queued"
  /\ \A h \in Handlers : ~ WrittenBy(h, r)
  /\ row' = [row EXCEPT ![r] = "running"]
  /\ UNCHANGED <<ledger, pc, seen, todo, number, inserted, rolled>>

-----------------------------------------------------------------------------

Statement(h) ==
  \/ Begin(h)
  \/ getNextSequence(h)
  \/ persistSnapshot(h)
  \/ syncObjectiveStatus(h)
  \/ Commit(h)
  \/ UniqueViolation(h)
  \/ DeadlockVictim(h)

Next ==
  \/ \E h \in Handlers : Statement(h) \/ Fail(h)
  \/ \E r \in Runs : dequeueQueuedRun(r)

Spec == Init /\ [][Next]_vars

\* Every statement returns, a lock wait ends when its holder does, and the
\* deadlock detector runs; nothing is assumed of Fail.
FairSpec == Spec /\ \A h \in Handlers : WF_vars(Statement(h))

-----------------------------------------------------------------------------
(* Properties. *)

TypeOK ==
  /\ row \in [Streams -> Status]
  /\ ledger \subseteq Event
  /\ pc \in [Handlers -> {"idle", "open", "committed", "aborted"}]
  /\ seen \in [Handlers -> Status]
  /\ todo \in [Handlers -> Seq(Snapshot)]
  /\ number \in [Handlers -> Nat]
  /\ inserted \in [Handlers -> SUBSET Event]
  /\ rolled \in [Handlers -> BOOLEAN]

\* The committed events of a stream are numbered 1, 2, ... with no gap and no
\* number twice, whatever transactions overlap, fail or deadlock.
StreamsAreSequences ==
  \A a \in Streams :
    /\ {e.seq : e \in EventsOf(a)} = 1 .. Cardinality(EventsOf(a))
    /\ \A d, e \in EventsOf(a) : d.seq = e.seq => d = e

\* Replaying the stream of a work item or of the objective gives the row: the last
\* event committed is the last write of the row, though both were chosen earlier.
ReplayGivesRow ==
  \A a \in Items \cup {Objective} :
    \A e \in Latest(EventsOf(a)) : e.status = row[a]

\* At most one open transaction has written an aggregate: of two that overlap on
\* one, the second waits and then fails.  So they take effect one after the other.
OneOpenWriterPerStream ==
  \A g, h \in Handlers, a \in Streams :
    WrittenBy(g, a) /\ WrittenBy(h, a) => g = h

\* Calls take effect one at a time and as a whole, each appending the next event to
\* what it writes, though its numbers are read and its events inserted one by one
\* among the statements of others, and any of them may fail in between.
historyOf(events) ==
  [k \in 1 .. Cardinality(events) |-> (CHOOSE e \in events : e.seq = k).status]
histories == [a \in Streams |-> historyOf(EventsOf(a))]
outcomes ==
  [h \in Handlers |-> IF pc[h] \in {"idle", "open"} THEN "pending" ELSE pc[h]]
Atomic == INSTANCE AtomicLedger WITH history <- histories, outcome <- outcomes
ImplementsAtomicLedger == Atomic!Spec

\* Every call ends, committed or rolled back, though cancel locks the item before
\* the run and settle and complete lock the run before the item.
EveryCallEnds == \A h \in Handlers : <>(pc[h] \in {"committed", "aborted"})

\* As long as no two calls overlap, from their read of the objective to their commit,
\* the objective is what its work items make it once any call has committed, though
\* each roll-up writes it only if it differs from the status read before.  (With
\* overlap it may be left behind: ObjectiveFollowsItems.)
Overlap == \E g, h \in Handlers : g # h /\ pc[g] = "open" /\ pc[h] = "open"
RollUpHolds ==
  (\E h \in Handlers : pc[h] = "committed") =>
    row[Objective] = deriveObjectiveStatus({row[a] : a \in Items})
RollUpHoldsWithoutOverlap == []~Overlap => []RollUpHolds

-----------------------------------------------------------------------------
(* What the documents state and the code does not do. *)

\* docs/kernel/canonical-domain-model.md:75: objective completion is derived from
\* the outcomes of the work items, here whenever no call is under way.
ObjectiveFollowsItems ==
  (\A h \in Handlers : pc[h] # "open") =>
    (row[Objective] = "completed" <=> \A a \in Items : row[a] = "completed")
=============================================================================
