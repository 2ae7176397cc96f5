------------------------ MODULE GitHubOutboundProofs ------------------------
(***************************************************************************)
(* The projection into GitHub, for any surfaces, repositories and calls.   *)
(*                                                                         *)
(* A binding leads to the object of its own surface because every binding  *)
(* is made from the object just created or updated, and an update keeps    *)
(* the surface of an object.  That repeated calls create nothing twice     *)
(* holds because, as long as calls do not overlap, what a surface has on   *)
(* GitHub is what its binding says, or what the call in progress knows.    *)
(***************************************************************************)
EXTENDS GitHubOutbound, TLAPS

Made(result) == result \in {"applied", "drift_detected"}
Active(c) == sync[c].pc # "idle"

\* What is still to do belongs to a repository, has no result yet, and is a creation
\* exactly when no binding is known.
TodoFits ==
  \A c \in Syncs :
    /\ sync[c].pc # "applying" => sync[c].todo = {}
    /\ sync[c].pc \in {"idle", "reading"} => \A s \in Surfaces : sync[c].result[s] = "none"
    /\ \A s \in sync[c].todo :
         /\ sync[c].repo[s] \in Repositories
         /\ sync[c].result[s] = "none"
         /\ sync[c].action[s] = "create" <=> ~IsBound(sync[c].known[s])

\* What was done is known under its object, what failed opens an alert.
ResultsFit ==
  \A c \in Syncs, s \in Surfaces :
    /\ Made(sync[c].result[s]) =>
         /\ IsBound(sync[c].known[s])
         /\ sync[c].on[s] = sync[c].known[s].object
         /\ sync[c].known[s].repo = sync[c].repo[s]
    /\ sync[c].result[s] = "failed" => sync[c].severity[s] = "high"

StoredNames == \A s \in Surfaces : Names(binding[s], s)
KnownNames == \A c \in Syncs, s \in Surfaces : Names(sync[c].known[s], s)

Base ==
  /\ OutboundTypeOK
  /\ TodoFits
  /\ ResultsFit
  /\ StoredNames
  /\ KnownNames
  /\ CommentsUnderTheirIssue

-----------------------------------------------------------------------------
(* Calls and what they hold. *)

\* An idle call is a call that holds nothing.
LEMMA IdleFits ==
  /\ IdleSync \in Sync
  /\ IdleSync.pc = "idle" /\ IdleSync.todo = {}
  /\ \A a \in Aggregates : IdleSync.event[a] = 0 /\ IdleSync.row[a] = 0
  /\ \A s \in Surfaces : /\ IdleSync.result[s] = "none"
                         /\ IdleSync.known[s] = Unbound
                         /\ IdleSync.severity[s] = "none"
<1>1. 0 \in Versions
  BY OutboundAssumption DEF Versions
<1>2. Unbound \in Binding
  BY <1>1 DEF Unbound, Binding, Repository
<1> QED
  BY <1>1, <1>2 DEF IdleSync, Sync, Action, Repository, Result, Severity

\* One call changes, the others do not.
LEMMA StoreCall ==
  ASSUME sync \in [Syncs -> Sync], NEW c \in Syncs, NEW q \in Sync,
         sync' = [sync EXCEPT ![c] = q]
  PROVE  /\ sync' \in [Syncs -> Sync]
         /\ sync'[c] = q
         /\ \A d \in Syncs : d # c => sync'[d] = sync[d]
OBVIOUS

\* What Keep changes of a call.
LEMMA KeepFacts ==
  ASSUME sync \in [Syncs -> Sync], NEW c \in Syncs, NEW s \in Surfaces,
         NEW r \in Result, NEW b \in Binding, NEW n \in Nat, NEW v \in Severity,
         Keep(c, s, r, b, n, v)
  PROVE  /\ sync' \in [Syncs -> Sync]
         /\ \A d \in Syncs : d # c => sync'[d] = sync[d]
         /\ sync'[c].pc = sync[c].pc /\ sync'[c].event = sync[c].event
         /\ sync'[c].row = sync[c].row /\ sync'[c].action = sync[c].action
         /\ sync'[c].repo = sync[c].repo /\ sync'[c].batch = sync[c].batch
         /\ sync'[c].todo = sync[c].todo \ {s}
         /\ \A t \in Surfaces :
              /\ sync'[c].result[t] = IF t = s THEN r ELSE sync[c].result[t]
              /\ sync'[c].known[t] = IF t = s THEN b ELSE sync[c].known[t]
              /\ sync'[c].on[t] = IF t = s THEN n ELSE sync[c].on[t]
              /\ sync'[c].severity[t] = IF t = s THEN v ELSE sync[c].severity[t]
<1> DEFINE q == [sync[c] EXCEPT !.todo = sync[c].todo \ {s}, !.result[s] = r, !.known[s] = b,
                                !.on[s] = n, !.severity[s] = v]
<1>1. sync[c] \in Sync
  OBVIOUS
<1>2. sync' = [sync EXCEPT ![c] = q]
  BY DEF Keep
<1>3. q \in Sync
  BY <1>1 DEF Sync
<1>4. /\ q.pc = sync[c].pc /\ q.event = sync[c].event /\ q.row = sync[c].row
      /\ q.action = sync[c].action /\ q.repo = sync[c].repo /\ q.batch = sync[c].batch
      /\ q.todo = sync[c].todo \ {s}
      /\ q.result = [sync[c].result EXCEPT ![s] = r]
      /\ q.known = [sync[c].known EXCEPT ![s] = b]
      /\ q.on = [sync[c].on EXCEPT ![s] = n]
      /\ q.severity = [sync[c].severity EXCEPT ![s] = v]
  BY <1>1 DEF Sync
<1> HIDE DEF q
<1>5. /\ sync[c].result \in [Surfaces -> Result] /\ sync[c].known \in [Surfaces -> Binding]
      /\ sync[c].on \in [Surfaces -> Nat] /\ sync[c].severity \in [Surfaces -> Severity]
  BY <1>1 DEF Sync
<1>6. /\ sync' \in [Syncs -> Sync] /\ sync'[c] = q
      /\ \A d \in Syncs : d # c => sync'[d] = sync[d]
  BY <1>2, <1>3, StoreCall
<1> QED
  BY <1>4, <1>5, <1>6

-----------------------------------------------------------------------------
(* The calls of GitHub. *)

\* No object disappears, and what it is stays.
Grows ==
  \A n \in DOMAIN object :
    /\ n \in DOMAIN object'
    /\ object'[n].surface = object[n].surface
    /\ object'[n].repo = object[n].repo
    /\ object'[n].under = object[n].under

\* What a call keeps of a surface it handled: a failure as it was known before, or the
\* object it wrote, which is the one it knew or a new one.
Handles(c, s, r, b, n, v) ==
  /\ Keep(c, s, r, b, n, v)
  /\ r = "failed" \/ Made(r)
  /\ r = "failed" => b = sync[c].known[s] /\ v = "high"
  /\ Made(r) =>
       /\ b = toBinding(c, s, n)
       /\ n \in DOMAIN object'
       /\ object'[n].surface = s
       /\ object'[n].repo = sync[c].batch
       /\ object'[n].wrote = rendered(c, s)
       /\ IsBound(sync[c].known[s]) => n = sync[c].known[s].object

\* What it did on GitHub: nothing, a new object of the surface, or an update of the
\* object it knew.  A new object is known, or its answer is lost.
Writes(c, s, r, n) ==
  \/ object' = object
  \/ /\ sync[c].action[s] = "create"
     /\ \E under \in Nat :
          /\ object' = Append(object, projection(c, s, under))
          /\ s \in Comments => /\ IsBound(parentIssueBinding(c, s))
                              /\ under = parentIssueBinding(c, s).object
     /\ lost' \/ (Made(r) /\ n = Len(object) + 1)
  \/ /\ IsBound(sync[c].known[s])
     /\ sync[c].known[s].repo = sync[c].batch
     /\ object' = [object EXCEPT ![sync[c].known[s].object] =
                     projection(c, s, object[sync[c].known[s].object].under)]

\* The next surface belongs to the batch.
LEMMA NextFits ==
  ASSUME Base, NEW c \in Syncs, NEW s \in Surfaces, IsNext(c, s)
  PROVE  /\ sync[c] \in Sync
         /\ s \in sync[c].todo /\ sync[c].repo[s] = sync[c].batch
         /\ sync[c].batch \in Repositories
         /\ sync[c].pc = "applying"
         /\ sync[c].result[s] = "none"
         /\ sync[c].action[s] \in Action
         /\ sync[c].known[s] \in Binding
         /\ AggregateOf[s] \in Aggregates
         /\ sync[c].row[AggregateOf[s]] \in Versions
         /\ sync[c].event[AggregateOf[s]] \in Versions
         /\ sync[c].action[s] = "create" <=> ~IsBound(sync[c].known[s])
<1>1. sync[c] \in Sync
  BY DEF Base, OutboundTypeOK
<1>2. s \in sync[c].todo /\ sync[c].repo[s] = sync[c].batch
  BY DEF IsNext, Todo
<1>3. AggregateOf[s] \in Aggregates
  BY OutboundAssumption
<1> QED
  BY <1>1, <1>2, <1>3 DEF Base, TodoFits, Sync

\* What is bound in the batch is bound, in its repository.
LEMMA InBatchFits ==
  ASSUME Base, NEW c \in Syncs, NEW s \in Surfaces
  PROVE  /\ inBatch(c, s) \in Binding
         /\ IsBound(inBatch(c, s)) =>
              /\ inBatch(c, s) = sync[c].known[s]
              /\ inBatch(c, s).repo = sync[c].batch
              /\ inBatch(c, s).object \in DOMAIN object
              /\ object[inBatch(c, s).object].surface = s
              /\ object[inBatch(c, s).object].repo = sync[c].batch
<1>1. sync[c] \in Sync /\ Names(sync[c].known[s], s)
  BY DEF Base, OutboundTypeOK, KnownNames
<1>2. sync[c].known[s] \in Binding /\ Unbound \in Binding
  BY <1>1, OutboundAssumption DEF Sync, Unbound, Binding, Repository, Versions
<1> QED
  BY <1>1, <1>2 DEF inBatch, Names, IsBound, Unbound

\* The binding and the object a call makes are of their types.
LEMMA MadeTypes ==
  ASSUME Base, NEW c \in Syncs, NEW s \in Surfaces, IsNext(c, s), NEW n \in Nat
  PROVE  toBinding(c, s, n) \in Binding /\ projection(c, s, n) \in Object
BY NextFits DEF toBinding, sourceEvent, Binding, Repository, projection, rendered, Object

LEMMA CreateFacts ==
  ASSUME Base, NEW c \in Syncs, NEW s \in Surfaces, Create(c, s)
  PROVE  \E r \in Result, b \in Binding, n \in Nat, v \in Severity :
           Handles(c, s, r, b, n, v) /\ Writes(c, s, r, n)
<1> DEFINE new == Len(object) + 1
           under == IF s \in Comments THEN parentIssueBinding(c, s).object ELSE 0
           creates == object' = Append(object, projection(c, s, under))
<1>1. IsNext(c, s) /\ sync[c].action[s] = "create" /\ parentBound(c, s)
  BY DEF Create
<1>2. /\ ~IsBound(sync[c].known[s]) /\ sync[c].known[s] \in Binding
      /\ object \in Seq(Object) /\ new \in Nat
  BY <1>1, NextFits DEF Base, OutboundTypeOK
<1>3. s \in Comments => Commented[s] \in Surfaces
  BY OutboundAssumption DEF Comments
<1>4. /\ under \in Nat
      /\ s \in Comments => /\ IsBound(parentIssueBinding(c, s))
                           /\ under = parentIssueBinding(c, s).object
  BY <1>1, <1>3, InBatchFits DEF parentBound, parentIssueBinding, Binding
<1> HIDE DEF under
<1>5. projection(c, s, under) \in Object /\ toBinding(c, s, new) \in Binding
  BY <1>1, <1>2, <1>4, MadeTypes
<1>6. CASE creates /\ Detected(c, s, new) /\ UNCHANGED lost
  <2>1. /\ new \in DOMAIN object'
        /\ object'[new] = projection(c, s, under)
    BY <1>2, <1>5, <1>6
  <2>2. PICK r \in {"applied", "drift_detected"}, v \in Severity :
          Keep(c, s, r, toBinding(c, s, new), new, v)
    BY <1>6 DEF Detected, detectDrift, detectIssueDrift, detectCommentDrift, Severity
  <2>3. Handles(c, s, r, toBinding(c, s, new), new, v)
    BY <1>2, <2>1, <2>2 DEF Handles, Made, projection
  <2>4. Writes(c, s, r, new)
    BY <1>1, <1>4, <1>6, <2>2 DEF Writes, Made
  <2> QED
    BY <1>2, <1>5, <2>2, <2>3, <2>4 DEF Result
<1>7. CASE (creates \/ UNCHANGED <<object, lost>>) /\ Failed(c, s) /\ (creates => lost' = TRUE)
  <2>1. Handles(c, s, "failed", sync[c].known[s], 0, "high")
    BY <1>7 DEF Failed, Handles, Made
  <2>2. Writes(c, s, "failed", 0)
    BY <1>1, <1>4, <1>7 DEF Writes
  <2> QED
    BY <1>2, <2>1, <2>2 DEF Result, Severity
<1> QED
  <2>1. \/ creates /\ Detected(c, s, new) /\ UNCHANGED lost
        \/ creates /\ Failed(c, s) /\ lost' = TRUE
        \/ UNCHANGED <<object, lost>> /\ Failed(c, s)
    BY DEF Create, post, under
  <2>2. UNCHANGED object => ~creates
    BY <1>2, <1>5
  <2> QED
    BY <1>6, <1>7, <2>1, <2>2

LEMMA UpdateFacts ==
  ASSUME Base, NEW c \in Syncs, NEW s \in Surfaces, Update(c, s)
  PROVE  \E r \in Result, b \in Binding, n \in Nat, v \in Severity :
           Handles(c, s, r, b, n, v) /\ Writes(c, s, r, n)
<1> DEFINE n == inBatch(c, s).object
           old == object[n].under
           writes == object' = [object EXCEPT ![n] = projection(c, s, old)]
<1>1. IsNext(c, s) /\ IsBound(inBatch(c, s))
  BY DEF Update, IsBound
<1>2. /\ inBatch(c, s) = sync[c].known[s] /\ sync[c].known[s] \in Binding
      /\ sync[c].known[s].repo = sync[c].batch
      /\ n \in DOMAIN object /\ n \in Nat
      /\ object[n].surface = s /\ object[n].repo = sync[c].batch
  BY <1>1, InBatchFits DEF Binding
<1>3. object \in Seq(Object) /\ object[n] \in Object /\ old \in Nat
  <2>1. object \in Seq(Object)
    BY DEF Base, OutboundTypeOK
  <2>2. object[n] \in Object
    BY <1>2, <2>1
  <2> QED
    BY <2>1, <2>2 DEF Object
<1>4. projection(c, s, old) \in Object /\ toBinding(c, s, n) \in Binding
  BY <1>1, <1>2, <1>3, MadeTypes
<1>5. CASE writes /\ Detected(c, s, n)
  <2>1. n \in DOMAIN object' /\ object'[n] = projection(c, s, old)
    BY <1>2, <1>3, <1>5
  <2>2. PICK r \in {"applied", "drift_detected"}, v \in Severity :
          Keep(c, s, r, toBinding(c, s, n), n, v)
    BY <1>5 DEF Detected, detectDrift, detectIssueDrift, detectCommentDrift, Severity
  <2>3. Handles(c, s, r, toBinding(c, s, n), n, v)
    BY <1>2, <2>1, <2>2 DEF Handles, Made, projection
  <2>4. Writes(c, s, r, n)
    BY <1>1, <1>2, <1>5 DEF Writes
  <2> QED
    BY <1>2, <1>4, <2>2, <2>3, <2>4 DEF Result
<1>6. CASE (writes \/ UNCHANGED object) /\ Failed(c, s)
  <2>1. Handles(c, s, "failed", sync[c].known[s], 0, "high")
    BY <1>6 DEF Failed, Handles, Made
  <2>2. Writes(c, s, "failed", 0)
    BY <1>1, <1>2, <1>6 DEF Writes
  <2> QED
    BY <1>2, <2>1, <2>2 DEF Result, Severity
<1> QED
  BY <1>5, <1>6 DEF Update, patch

LEMMA FailClosedFacts ==
  ASSUME Base, NEW c \in Syncs, NEW s \in Surfaces, FailClosed(c, s)
  PROVE  \E r \in Result, b \in Binding, n \in Nat, v \in Severity :
           Handles(c, s, r, b, n, v) /\ Writes(c, s, r, n)
<1>1. sync[c].known[s] \in Binding
  BY NextFits DEF FailClosed
<1>2. Handles(c, s, "failed", sync[c].known[s], 0, "high") /\ Writes(c, s, "failed", 0)
  BY DEF FailClosed, Handles, Writes, Made
<1> QED
  BY <1>1, <1>2 DEF Result, Severity

\* What is written is well formed and replaces nothing.
LEMMA WritesGrow ==
  ASSUME Base, NEW c \in Syncs, NEW s \in Surfaces, IsNext(c, s),
         NEW r, NEW n, Writes(c, s, r, n)
  PROVE  Grows /\ object' \in Seq(Object) /\ CommentsUnderTheirIssue'
<1>1. /\ object \in Seq(Object) /\ CommentsUnderTheirIssue
      /\ Names(sync[c].known[s], s)
  BY DEF Base, OutboundTypeOK, KnownNames
<1>2. CASE object' = object
  BY <1>1, <1>2 DEF Grows, CommentsUnderTheirIssue
<1>3. ASSUME NEW under \in Nat,
             object' = Append(object, projection(c, s, under)),
             s \in Comments => IsBound(parentIssueBinding(c, s))
                               /\ under = parentIssueBinding(c, s).object
      PROVE  Grows /\ object' \in Seq(Object) /\ CommentsUnderTheirIssue'
  <2>1. projection(c, s, under) \in Object
    BY MadeTypes
  <2>2. /\ DOMAIN object = 1..Len(object) /\ Len(object) \in Nat
        /\ DOMAIN object' = 1..(Len(object) + 1)
        /\ \A m \in DOMAIN object : m \in DOMAIN object' /\ object'[m] = object[m]
        /\ object'[Len(object) + 1] = projection(c, s, under)
        /\ object' \in Seq(Object)
    BY <1>1, <1>3, <2>1
  <2>3. Grows
    BY <2>2 DEF Grows
  <2>4. /\ projection(c, s, under).surface = s
        /\ projection(c, s, under).repo = sync[c].batch
        /\ projection(c, s, under).under = under
    BY DEF projection
  <2>5. s \in Comments =>
          /\ under \in DOMAIN object
          /\ object[under].surface = Commented[s]
          /\ object[under].repo = sync[c].batch
    <3>1. s \in Comments => Commented[s] \in Surfaces
      BY OutboundAssumption DEF Comments
    <3> QED
      BY <1>3, <3>1, InBatchFits DEF parentIssueBinding
  <2>6. \A m \in DOMAIN object' : m \in DOMAIN object \/ m = Len(object) + 1
    BY <2>2
  <2>7. CommentsUnderTheirIssue'
    <3> SUFFICES ASSUME NEW m \in DOMAIN object', object'[m].surface \in Comments
                 PROVE  /\ object'[m].under \in DOMAIN object'
                        /\ object'[object'[m].under].surface = Commented[object'[m].surface]
                        /\ object'[object'[m].under].repo = object'[m].repo
      BY DEF CommentsUnderTheirIssue
    <3>1. CASE m \in DOMAIN object
      BY <1>1, <2>2, <3>1 DEF CommentsUnderTheirIssue
    <3>2. CASE m = Len(object) + 1
      BY <2>2, <2>4, <2>5, <3>2
    <3> QED
      BY <2>6, <3>1, <3>2
  <2> QED
    BY <2>2, <2>3, <2>7
<1>4. ASSUME IsBound(sync[c].known[s]), sync[c].known[s].repo = sync[c].batch,
             object' = [object EXCEPT ![sync[c].known[s].object] =
                          projection(c, s, object[sync[c].known[s].object].under)]
      PROVE  Grows /\ object' \in Seq(Object) /\ CommentsUnderTheirIssue'
  <2> DEFINE m == sync[c].known[s].object
             p == projection(c, s, object[m].under)
  <2>1. m \in DOMAIN object /\ object[m].surface = s /\ object[m].repo = sync[c].batch
    BY <1>1, <1>4 DEF Names
  <2>2. object[m] \in Object /\ object[m].under \in Nat
    <3>1. object[m] \in Object
      BY <1>1, <2>1
    <3> QED
      BY <3>1 DEF Object
  <2>3. p \in Object
    BY <2>2, MadeTypes
  <2>4. p.surface = s /\ p.repo = sync[c].batch /\ p.under = object[m].under
    BY DEF projection
  <2> HIDE DEF p
  <2>5. /\ DOMAIN object' = DOMAIN object
        /\ object' \in Seq(Object)
        /\ \A k \in DOMAIN object : object'[k] = IF k = m THEN p ELSE object[k]
    <3>1. object' = [object EXCEPT ![m] = p]
      BY <1>4 DEF p
    <3> QED
      BY <1>1, <2>1, <2>3, <3>1
  <2>6. Grows
    BY <2>1, <2>4, <2>5 DEF Grows
  <2>7. CommentsUnderTheirIssue'
    BY <1>1, <2>5, <2>6 DEF CommentsUnderTheirIssue, Grows
  <2> QED
    BY <2>5, <2>6, <2>7
<1> QED
  BY <1>2, <1>3, <1>4 DEF Writes

\* A call that handled a surface keeps what is known in order.
LEMMA HandledKeepsBase ==
  ASSUME Base, NEW c \in Syncs, NEW s \in Surfaces, IsNext(c, s),
         NEW r \in Result, NEW b \in Binding, NEW n \in Nat, NEW v \in Severity,
         Handles(c, s, r, b, n, v), Writes(c, s, r, n),
         UNCHANGED <<version, linked, binding, delivery, alert>>,
         faults' \in 0..MaxFaults, lost' \in BOOLEAN, overlap' \in BOOLEAN
  PROVE  Base'
<1>1. Grows /\ object' \in Seq(Object) /\ CommentsUnderTheirIssue'
  BY WritesGrow
<1>2. sync \in [Syncs -> Sync]
  BY DEF Base, OutboundTypeOK
<1>3. /\ sync' \in [Syncs -> Sync]
      /\ \A d \in Syncs : d # c => sync'[d] = sync[d]
      /\ sync'[c].pc = sync[c].pc
      /\ sync'[c].action = sync[c].action
      /\ sync'[c].repo = sync[c].repo
      /\ sync'[c].todo = sync[c].todo \ {s}
      /\ \A t \in Surfaces :
           /\ sync'[c].result[t] = IF t = s THEN r ELSE sync[c].result[t]
           /\ sync'[c].known[t] = IF t = s THEN b ELSE sync[c].known[t]
           /\ sync'[c].on[t] = IF t = s THEN n ELSE sync[c].on[t]
           /\ sync'[c].severity[t] = IF t = s THEN v ELSE sync[c].severity[t]
  BY <1>2, KeepFacts DEF Handles
<1>4. /\ sync[c].pc = "applying" /\ sync[c].repo[s] = sync[c].batch
      /\ sync[c].todo \subseteq Surfaces
  BY NextFits DEF Sync
<1>5. OutboundTypeOK'
  BY <1>1, <1>3 DEF Base, OutboundTypeOK
<1>6. TodoFits'
  <2> SUFFICES ASSUME NEW d \in Syncs
               PROVE  /\ sync'[d].pc # "applying" => sync'[d].todo = {}
                      /\ sync'[d].pc \in {"idle", "reading"} =>
                           \A t \in Surfaces : sync'[d].result[t] = "none"
                      /\ \A t \in sync'[d].todo :
                           /\ sync'[d].repo[t] \in Repositories
                           /\ sync'[d].result[t] = "none"
                           /\ sync'[d].action[t] = "create" <=> ~IsBound(sync'[d].known[t])
    BY DEF TodoFits, IsBound
  <2>1. CASE d # c
    BY <1>3, <2>1 DEF Base, TodoFits
  <2>2. CASE d = c
    BY <1>3, <1>4, <2>2 DEF Base, TodoFits
  <2> QED
    BY <2>1, <2>2
<1>7. Made(r) => /\ IsBound(b) /\ n = b.object /\ b.repo = sync[c].repo[s]
                 /\ n \in DOMAIN object' /\ object'[n].surface = s /\ object'[n].repo = b.repo
  <2>1. DOMAIN object' \subseteq Nat \ {0}
    BY <1>1
  <2> QED
    BY <1>4, <2>1 DEF Handles, toBinding, IsBound
<1>8. r = "failed" \/ Made(r)
  BY DEF Handles
<1>9. r = "failed" => ~Made(r) /\ b = sync[c].known[s] /\ v = "high"
  BY DEF Handles, Made
<1>10. ResultsFit'
  <2> SUFFICES ASSUME NEW d \in Syncs, NEW t \in Surfaces
               PROVE  /\ Made(sync'[d].result[t]) =>
                           /\ IsBound(sync'[d].known[t])
                           /\ sync'[d].on[t] = sync'[d].known[t].object
                           /\ sync'[d].known[t].repo = sync'[d].repo[t]
                      /\ sync'[d].result[t] = "failed" => sync'[d].severity[t] = "high"
    BY DEF ResultsFit, Made, IsBound
  <2>1. CASE d # c \/ t # s
    BY <1>3, <2>1 DEF Base, ResultsFit
  <2>2. CASE d = c /\ t = s
    BY <1>3, <1>7, <1>9, <2>2
  <2> QED
    BY <2>1, <2>2
<1>11. StoredNames'
  BY <1>1 DEF Base, StoredNames, Names, Grows, IsBound
<1>12. KnownNames'
  <2> SUFFICES ASSUME NEW d \in Syncs, NEW t \in Surfaces, IsBound(sync'[d].known[t])
               PROVE  /\ sync'[d].known[t].object \in DOMAIN object'
                      /\ object'[sync'[d].known[t].object].surface = t
                      /\ object'[sync'[d].known[t].object].repo = sync'[d].known[t].repo
    BY DEF KnownNames, Names, IsBound
  <2>1. CASE d # c \/ t # s \/ ~Made(r)
    <3>1. sync'[d].known[t] = sync[d].known[t]
      BY <1>3, <1>8, <1>9, <2>1
    <3> QED
      BY <1>1, <3>1 DEF Base, KnownNames, Names, Grows
  <2>2. CASE d = c /\ t = s /\ Made(r)
    BY <1>3, <1>7, <2>2
  <2> QED
    BY <2>1, <2>2
<1> QED
  BY <1>1, <1>5, <1>6, <1>10, <1>11, <1>12 DEF Base

-----------------------------------------------------------------------------
(* The other steps. *)

\* What a call holds when it holds what the tables said.
Fits(q) ==
  /\ q.pc # "applying" => q.todo = {}
  /\ q.pc \in {"idle", "reading"} => \A s \in Surfaces : q.result[s] = "none"
  /\ \A s \in q.todo :
       /\ q.repo[s] \in Repositories
       /\ q.result[s] = "none"
       /\ q.action[s] = "create" <=> ~IsBound(q.known[s])
  /\ \A s \in Surfaces :
       /\ Made(q.result[s]) =>
            /\ IsBound(q.known[s])
            /\ q.on[s] = q.known[s].object
            /\ q.known[s].repo = q.repo[s]
       /\ q.result[s] = "failed" => q.severity[s] = "high"
       /\ Names(q.known[s], s)

LEMMA BaseGivesFits ==
  ASSUME Base, NEW c \in Syncs
  PROVE  sync[c] \in Sync /\ Fits(sync[c])
BY DEF Base, OutboundTypeOK, TodoFits, ResultsFit, KnownNames, Fits

LEMMA IdleSyncFits == IdleSync \in Sync /\ Fits(IdleSync)
BY IdleFits DEF Fits, Made, Names, IsBound, Unbound

\* A step that touches nothing on GitHub and gives a call what fits.
LEMMA CallChanges ==
  ASSUME Base, NEW c \in Syncs, NEW q \in Sync, Fits(q),
         sync' = [sync EXCEPT ![c] = q], object' = object,
         version' \in [Aggregates -> Versions], linked' \subseteq Repositories,
         binding' \in [Surfaces -> Binding], delivery' \in [DeliveryKey -> Delivery],
         alert' \in [AlertId -> Severity], faults' \in 0..MaxFaults,
         lost' \in BOOLEAN, overlap' \in BOOLEAN,
         \A s \in Surfaces :
           binding'[s] = binding[s] \/ \E d \in Syncs : binding'[s] = sync[d].known[s]
  PROVE  Base'
<1>1. /\ sync' \in [Syncs -> Sync] /\ sync'[c] = q
      /\ \A d \in Syncs : d # c => sync'[d] = sync[d]
  BY StoreCall DEF Base, OutboundTypeOK
<1>2. \A d \in Syncs : Fits(sync'[d])
  BY <1>1, BaseGivesFits
<1>3. OutboundTypeOK'
  BY <1>1 DEF Base, OutboundTypeOK
<1>4. TodoFits'
  BY <1>2 DEF Fits, TodoFits, IsBound
<1>5. ResultsFit'
  BY <1>2 DEF Fits, ResultsFit, IsBound, Made
<1>6. KnownNames'
  BY <1>2 DEF Fits, KnownNames, IsBound, Names
<1>7. StoredNames'
  BY DEF Base, StoredNames, KnownNames, Names, IsBound
<1>8. CommentsUnderTheirIssue'
  BY DEF Base, CommentsUnderTheirIssue
<1> QED
  BY <1>3, <1>4, <1>5, <1>6, <1>7, <1>8 DEF Base

\* A repository that is resolved and linked is a repository.
LEMMA PlanFits ==
  ASSUME Base, NEW c \in Syncs, PlanAccepted(c)
  PROVE  \E q \in Sync : /\ Fits(q) /\ sync' = [sync EXCEPT ![c] = q]
                         /\ q.pc = "applying" /\ q.event = sync[c].event /\ q.row = version
                         /\ q.known = binding /\ q.todo \subseteq Surfaces
                         /\ q.result = sync[c].result
<1> DEFINE repo == [s \in Surfaces |-> IF s \in Planned(c) THEN resolveRepository(s) ELSE NoRepository]
           action == [s \in Surfaces |-> actionFor(s)]
           known == [s \in Surfaces |-> findBinding(s)]
           q == [sync[c] EXCEPT !.pc = "applying", !.event = mapLatestEventIds(c),
                                !.row = version, !.todo = Planned(c), !.action = action,
                                !.repo = repo, !.known = known]
<1>1. sync[c] \in Sync /\ Fits(sync[c]) /\ sync[c].pc = "reading"
  BY BaseGivesFits DEF PlanAccepted
<1>2. /\ binding \in [Surfaces -> Binding] /\ version \in [Aggregates -> Versions]
      /\ linked \subseteq Repositories /\ Planned(c) \subseteq Surfaces
  BY DEF Base, OutboundTypeOK, Planned
<1>3. /\ \A s \in Surfaces : repo[s] \in Repository
      /\ \A s \in Planned(c) : repo[s] \in Repositories
  BY <1>2 DEF PlanAccepted, Repository
<1>4. action \in [Surfaces -> Action] /\ known = binding /\ repo \in [Surfaces -> Repository]
  BY <1>2, <1>3 DEF actionFor, Action, findBinding
<1>5. sync[c].event \in [Aggregates -> Versions]
  BY <1>1 DEF Sync
<1> HIDE DEF repo, known
<1>6. q \in Sync
  BY <1>1, <1>2, <1>4, <1>5 DEF Sync, mapLatestEventIds, eventsThenRows
<1>7. /\ q.pc = "applying" /\ q.event = sync[c].event /\ q.row = version /\ q.todo = Planned(c)
      /\ q.action = action /\ q.repo = repo /\ q.known = binding /\ q.result = sync[c].result
  BY <1>1, <1>4 DEF Sync, mapLatestEventIds, eventsThenRows
<1>8. \A s \in Surfaces : action[s] = "create" <=> ~IsBound(binding[s])
  BY DEF actionFor, findBinding
<1>9. \A s \in Surfaces : Names(binding[s], s)
  BY DEF Base, StoredNames
<1>10. \A s \in Surfaces : sync[c].result[s] = "none"
  BY <1>1 DEF Fits
<1>11. sync' = [sync EXCEPT ![c] = q]
  BY DEF PlanAccepted, eventsThenRows, repo, known
<1> HIDE DEF q, action
<1>12. Fits(q)
  BY <1>2, <1>3, <1>7, <1>8, <1>9, <1>10 DEF Fits, Made
<1> QED
  BY <1>2, <1>6, <1>7, <1>11, <1>12

\* Queueing a delivery keeps the deliveries of their type.
LEMMA QueueFits ==
  ASSUME Base, NEW c \in Syncs, NEW S, Queue(c, S)
  PROVE  delivery' \in [DeliveryKey -> Delivery]
BY DEF Base, OutboundTypeOK, Queue, Delivery, DeliveryStatus

LEMMA BaseStep ==
  ASSUME Base, [OutboundNext]_outboundVars
  PROVE  Base'
<1> USE DEF outboundVars
<1>1. /\ version \in [Aggregates -> Versions] /\ linked \subseteq Repositories
      /\ binding \in [Surfaces -> Binding] /\ delivery \in [DeliveryKey -> Delivery]
      /\ alert \in [AlertId -> Severity] /\ faults \in 0..MaxFaults
      /\ lost \in BOOLEAN /\ overlap \in BOOLEAN /\ sync \in [Syncs -> Sync]
  BY DEF Base, OutboundTypeOK
<1>2. ASSUME UNCHANGED outboundVars PROVE Base'
  BY <1>2 DEF Base, OutboundTypeOK, TodoFits, ResultsFit, StoredNames, KnownNames, Names,
              IsBound, CommentsUnderTheirIssue
<1>3. ASSUME NEW a \in Aggregates, Change(a) PROVE Base'
  <2>1. version' \in [Aggregates -> Versions]
    <3>1. version[a] + 1 \in Versions
      BY <1>1, <1>3, OutboundAssumption DEF Change, Versions
    <3> QED
      BY <1>1, <1>3, <3>1 DEF Change
  <2> QED
    BY <1>3, <2>1 DEF Change, Base, OutboundTypeOK, TodoFits, ResultsFit, StoredNames,
                      KnownNames, Names, IsBound, CommentsUnderTheirIssue
<1>4. ASSUME NEW r \in Repositories, linkGitHubInstallation(r) PROVE Base'
  BY <1>4 DEF linkGitHubInstallation, Base, OutboundTypeOK, TodoFits, ResultsFit, StoredNames,
              KnownNames, Names, IsBound, CommentsUnderTheirIssue
<1>5. ASSUME NEW c \in Syncs, listDomainEvents(c) PROVE Base'
  <2> DEFINE q == [IdleSync EXCEPT !.pc = "reading", !.event = version]
  <2>1. q \in Sync
    BY <1>1, IdleFits DEF Sync
  <2>2. /\ q.pc = "reading" /\ q.todo = {}
        /\ q.result = IdleSync.result /\ q.known = IdleSync.known
    BY IdleFits DEF Sync
  <2>3. sync' = [sync EXCEPT ![c] = q] /\ overlap' \in BOOLEAN
    BY <1>1, <1>5 DEF listDomainEvents
  <2> HIDE DEF q
  <2>4. Fits(q)
    BY <2>2, IdleFits DEF Fits, Made, Names, IsBound, Unbound
  <2> QED
    BY <1>1, <1>5, <2>1, <2>3, <2>4, CallChanges DEF listDomainEvents
<1>6. ASSUME NEW c \in Syncs, PlanAccepted(c) PROVE Base'
  <2>1. PICK q \in Sync : Fits(q) /\ sync' = [sync EXCEPT ![c] = q]
    BY <1>6, PlanFits
  <2>2. delivery' \in [DeliveryKey -> Delivery]
    BY <1>6, QueueFits DEF PlanAccepted
  <2> QED
    BY <1>1, <1>6, <2>1, <2>2, CallChanges DEF PlanAccepted
<1>7. ASSUME NEW c \in Syncs, PlanRefused(c) PROVE Base'
  <2>1. delivery' \in [DeliveryKey -> Delivery]
    BY <1>7, QueueFits DEF PlanRefused
  <2>2. sync' = [sync EXCEPT ![c] = IdleSync]
    BY <1>7 DEF PlanRefused
  <2> QED
    BY <1>1, <1>7, <2>1, <2>2, IdleSyncFits, CallChanges DEF PlanRefused
<1>8. ASSUME NEW c \in Syncs, NEW r \in Repositories, requestGitHubInstallationAccessToken(c, r)
      PROVE  Base'
  <2> DEFINE q == [sync[c] EXCEPT !.batch = r]
  <2>1. sync[c] \in Sync /\ Fits(sync[c])
    BY BaseGivesFits
  <2>2. /\ q \in Sync /\ q.pc = sync[c].pc /\ q.todo = sync[c].todo /\ q.result = sync[c].result
        /\ q.known = sync[c].known /\ q.repo = sync[c].repo /\ q.action = sync[c].action
        /\ q.on = sync[c].on /\ q.severity = sync[c].severity
    BY <2>1 DEF Sync, Repository
  <2>3. sync' = [sync EXCEPT ![c] = q]
    BY <1>8 DEF requestGitHubInstallationAccessToken
  <2> HIDE DEF q
  <2>4. Fits(q)
    BY <2>1, <2>2 DEF Fits
  <2> QED
    BY <1>1, <1>8, <2>2, <2>3, <2>4, CallChanges DEF requestGitHubInstallationAccessToken
<1>9. ASSUME NEW c \in Syncs, NEW s \in Surfaces, Create(c, s) \/ Update(c, s) \/ FailClosed(c, s)
      PROVE  Base'
  <2>1. PICK r \in Result, b \in Binding, n \in Nat, v \in Severity :
          Handles(c, s, r, b, n, v) /\ Writes(c, s, r, n)
    BY <1>9, CreateFacts, UpdateFacts, FailClosedFacts
  <2>2. IsNext(c, s)
    BY <1>9 DEF Create, Update, FailClosed
  <2>3. UNCHANGED <<version, linked, binding, delivery, alert, overlap>>
    BY <1>9 DEF Create, Update, FailClosed
  <2>4. lost' \in BOOLEAN
    BY <1>1, <1>9 DEF Create, Update, FailClosed
  <2>5. faults' = faults \/ (faults < MaxFaults /\ faults' = faults + 1)
    BY <1>9 DEF Create, Update, FailClosed, Detected, Failed
  <2>6. faults' \in 0..MaxFaults
    BY <1>1, <2>5, OutboundAssumption
  <2> QED
    BY <1>1, <2>1, <2>2, <2>3, <2>4, <2>6, HandledKeepsBase
<1>10. ASSUME NEW c \in Syncs, upsertBindings(c) PROVE Base'
  <2> DEFINE q == [sync[c] EXCEPT !.pc = "deliveries"]
  <2>1. sync[c] \in Sync /\ Fits(sync[c]) /\ sync[c].todo = {}
    BY <1>10, BaseGivesFits DEF upsertBindings
  <2>2. /\ q \in Sync /\ q.pc = "deliveries" /\ q.todo = {} /\ q.result = sync[c].result
        /\ q.known = sync[c].known /\ q.repo = sync[c].repo /\ q.action = sync[c].action
        /\ q.on = sync[c].on /\ q.severity = sync[c].severity
    BY <2>1 DEF Sync
  <2>3. sync' = [sync EXCEPT ![c] = q]
    BY <1>10 DEF upsertBindings
  <2> HIDE DEF q
  <2>4. Fits(q)
    BY <2>1, <2>2 DEF Fits
  <2>5. sync[c].known \in [Surfaces -> Binding]
    BY <2>1 DEF Sync
  <2>6. /\ binding' \in [Surfaces -> Binding]
        /\ \A s \in Surfaces : binding'[s] = binding[s] \/ binding'[s] = sync[c].known[s]
    BY <1>1, <1>10, <2>5 DEF upsertBindings
  <2> QED
    BY <1>1, <1>10, <2>2, <2>3, <2>4, <2>6, CallChanges DEF upsertBindings
<1>11. ASSUME NEW c \in Syncs, upsertDeliveries(c) PROVE Base'
  <2> DEFINE q == [sync[c] EXCEPT !.pc = "alerts"]
  <2>1. sync[c] \in Sync /\ Fits(sync[c]) /\ sync[c].pc = "deliveries"
    BY <1>11, BaseGivesFits DEF upsertDeliveries
  <2>2. /\ q \in Sync /\ q.pc = "alerts" /\ q.todo = sync[c].todo /\ q.result = sync[c].result
        /\ q.known = sync[c].known /\ q.repo = sync[c].repo /\ q.action = sync[c].action
        /\ q.on = sync[c].on /\ q.severity = sync[c].severity
    BY <2>1 DEF Sync
  <2>3. sync' = [sync EXCEPT ![c] = q]
    BY <1>11 DEF upsertDeliveries
  <2> HIDE DEF q
  <2>4. Fits(q)
    BY <2>1, <2>2 DEF Fits
  <2>5. /\ sync[c].result \in [Surfaces -> Result] /\ sync[c].on \in [Surfaces -> Nat]
    BY <2>1 DEF Sync
  <2>6. \A k \in DeliveryKey : k.surface \in Surfaces
    BY DEF DeliveryKey
  <2>7. delivery' \in [DeliveryKey -> Delivery]
    <3> SUFFICES ASSUME NEW k \in DeliveryKey
                 PROVE  (IF k.surface \in Handled(c) /\ k = handledKey(c, k.surface)
                         THEN [status |-> sync[c].result[k.surface],
                               object |-> sync[c].on[k.surface]]
                         ELSE delivery[k]) \in Delivery
      BY <1>11 DEF upsertDeliveries
    <3>1. sync[c].result[k.surface] \in Result /\ sync[c].on[k.surface] \in Nat
      BY <2>5, <2>6
    <3> QED
      BY <1>1, <3>1 DEF Delivery, DeliveryStatus, Result
  <2> QED
    BY <1>1, <1>11, <2>2, <2>3, <2>4, <2>7, CallChanges DEF upsertDeliveries
<1>12. ASSUME NEW c \in Syncs, upsertDriftAlerts(c) PROVE Base'
  <2>1. sync[c] \in Sync
    BY <1>1
  <2>2. sync[c].severity \in [Surfaces -> Severity]
    BY <2>1 DEF Sync
  <2>3. \A i \in AlertId : i.surface \in Surfaces
    BY DEF AlertId
  <2>4. alert' \in [AlertId -> Severity]
    <3> DEFINE raised == {s \in Handled(c) : sync[c].severity[s] # "none"}
    <3> SUFFICES ASSUME NEW i \in AlertId
                 PROVE  (IF i.surface \in raised /\ i = alertOf(c, i.surface)
                         THEN sync[c].severity[i.surface] ELSE alert[i]) \in Severity
      BY <1>12 DEF upsertDriftAlerts
    <3> QED
      BY <1>1, <2>2, <2>3
  <2>5. sync' = [sync EXCEPT ![c] = IdleSync]
    BY <1>12 DEF upsertDriftAlerts
  <2> QED
    BY <1>1, <1>12, <2>4, <2>5, IdleSyncFits, CallChanges DEF upsertDriftAlerts
<1>13. ASSUME NEW c \in Syncs, Abort(c) PROVE Base'
  <2>1. faults' \in 0..MaxFaults /\ lost' \in BOOLEAN
    BY <1>1, <1>13, OutboundAssumption DEF Abort
  <2>2. sync' = [sync EXCEPT ![c] = IdleSync]
    BY <1>13 DEF Abort
  <2> QED
    BY <1>1, <1>13, <2>1, <2>2, IdleSyncFits, CallChanges DEF Abort
<1> QED
  BY <1>2, <1>3, <1>4, <1>5, <1>6, <1>7, <1>8, <1>9, <1>10, <1>11, <1>12, <1>13
     DEF OutboundNext

LEMMA InitGivesBase == OutboundInit => Base
<1> SUFFICES ASSUME OutboundInit PROVE Base
  OBVIOUS
<1>1. 0 \in Versions /\ Unbound \in Binding /\ NoDelivery \in Delivery /\ 0 \in 0..MaxFaults
  BY OutboundAssumption
     DEF Versions, Unbound, Binding, Repository, NoDelivery, Delivery, DeliveryStatus
<1>2. OutboundTypeOK
  <2>1. /\ version \in [Aggregates -> Versions] /\ linked \subseteq Repositories
        /\ binding \in [Surfaces -> Binding] /\ delivery \in [DeliveryKey -> Delivery]
        /\ alert \in [AlertId -> Severity]
    BY <1>1 DEF OutboundInit, Severity
  <2>2. object \in Seq(Object)
    BY DEF OutboundInit
  <2>3. sync \in [Syncs -> Sync]
    BY IdleSyncFits DEF OutboundInit
  <2>4. faults \in 0..MaxFaults /\ lost \in BOOLEAN /\ overlap \in BOOLEAN
    BY <1>1 DEF OutboundInit
  <2> QED
    BY <2>1, <2>2, <2>3, <2>4 DEF OutboundTypeOK
<1>3. \A c \in Syncs : sync[c] = IdleSync
  BY DEF OutboundInit
<1>4. TodoFits /\ ResultsFit /\ KnownNames
  BY <1>3, IdleSyncFits DEF Fits, TodoFits, ResultsFit, KnownNames
<1>5. StoredNames
  BY DEF OutboundInit, StoredNames, Names, Unbound, IsBound
<1>6. CommentsUnderTheirIssue
  BY DEF OutboundInit, CommentsUnderTheirIssue
<1> QED
  BY <1>2, <1>4, <1>5, <1>6 DEF Base

LEMMA BaseHolds == OutboundSpec => []Base
BY InitGivesBase, BaseStep, PTL DEF OutboundSpec

\* The tables, what is on GitHub and what a call holds keep their types.
THEOREM OutboundTypeCorrect == OutboundSpec => []OutboundTypeOK
<1>1. Base => OutboundTypeOK
  BY DEF Base
<1> QED
  BY <1>1, BaseHolds, PTL

\* A binding leads to the object of its own surface, whatever calls overlap, die or
\* lose their answers.
THEOREM BindingsFit == OutboundSpec => []BindingsNameTheirObject
<1>1. Base => BindingsNameTheirObject
  BY DEF Base, StoredNames, KnownNames, BindingsNameTheirObject
<1> QED
  BY <1>1, BaseHolds, PTL

\* Every comment hangs on the issue of its work item, in its repository.
THEOREM CommentsFit == OutboundSpec => []CommentsUnderTheirIssue
<1>1. Base => CommentsUnderTheirIssue
  BY DEF Base
<1> QED
  BY <1>1, BaseHolds, PTL

-----------------------------------------------------------------------------
(* The steps, by what they do to the tables and to the call that takes them. *)

Others(c) == \A d \in Syncs : d # c => sync'[d] = sync[d]

\* The call moves on with what it holds.
Continues(c, pc) ==
  /\ Others(c)
  /\ sync'[c].pc = pc
  /\ sync'[c].event = sync[c].event /\ sync'[c].row = sync[c].row
  /\ sync'[c].action = sync[c].action /\ sync'[c].known = sync[c].known
  /\ sync'[c].result = sync[c].result /\ sync'[c].on = sync[c].on

Elsewhere ==
  /\ UNCHANGED <<binding, delivery, alert, object, sync, lost, overlap>>
  /\ \A a \in Aggregates : version[a] <= version'[a]

Begins(c) ==
  /\ sync[c].pc = "idle" /\ Others(c)
  /\ sync'[c].pc = "reading" /\ sync'[c].event = version
  /\ \A a \in Aggregates : sync'[c].row[a] = 0
  /\ \A s \in Surfaces : sync'[c].result[s] = "none"
  /\ overlap' = (overlap \/ \E d \in Syncs \ {c} : Active(d))
  /\ UNCHANGED <<version, binding, delivery, alert, object, lost>>

QueuesOnly ==
  \A k \in DeliveryKey : delivery'[k] = delivery[k] \/ delivery'[k].status = "queued"

Plans(c) ==
  /\ sync[c].pc = "reading" /\ Others(c)
  /\ sync'[c].pc = "applying" /\ sync'[c].event = sync[c].event /\ sync'[c].row = version
  /\ sync'[c].known = binding /\ sync'[c].result = sync[c].result
  /\ QueuesOnly
  /\ UNCHANGED <<version, binding, alert, object, lost, overlap>>

Ends(c) ==
  /\ Others(c) /\ sync'[c] = IdleSync
  /\ UNCHANGED <<version, binding, object, overlap>>
  /\ \/ sync[c].pc = "reading" /\ QueuesOnly /\ UNCHANGED <<alert, lost>>
     \/ lost' = (lost \/ Handled(c) # {}) /\ UNCHANGED <<delivery, alert>>
     \/ upsertDriftAlerts(c)

HandlesOne(c, s) ==
  /\ IsNext(c, s)
  /\ \E r \in Result, b \in Binding, n \in Nat, v \in Severity :
       Handles(c, s, r, b, n, v) /\ Writes(c, s, r, n)
  /\ lost => lost'
  /\ UNCHANGED <<version, binding, delivery, alert, overlap>>

Same == UNCHANGED <<version, binding, delivery, alert, object, lost, overlap>>

CallStep(c) ==
  \/ Begins(c)
  \/ Plans(c)
  \/ Ends(c)
  \/ Continues(c, "applying") /\ sync[c].pc = "applying" /\ Same
  \/ \E s \in Surfaces : HandlesOne(c, s)
  \/ upsertBindings(c) /\ Continues(c, "deliveries")
  \/ upsertDeliveries(c) /\ Continues(c, "alerts")

LEMMA Steps ==
  ASSUME Base, [OutboundNext]_outboundVars
  PROVE  Elsewhere \/ \E c \in Syncs : CallStep(c)
<1>1. /\ version \in [Aggregates -> Versions] /\ sync \in [Syncs -> Sync]
      /\ Versions \subseteq Int /\ lost \in BOOLEAN
      /\ delivery \in [DeliveryKey -> Delivery]
  BY OutboundAssumption DEF Base, OutboundTypeOK, Versions
<1>2. /\ \A c \in Syncs : sync[c] \in Sync
      /\ \A a \in Aggregates :
           /\ version[a] \in Int
           /\ version[a] <= version[a] /\ version[a] <= version[a] + 1
  <2>1. \A a \in Aggregates : version[a] \in Int
    BY <1>1
  <2> QED
    BY <1>1, <2>1
<1>3. ASSUME UNCHANGED outboundVars PROVE Elsewhere
  BY <1>2, <1>3 DEF outboundVars, Elsewhere
<1>4. ASSUME NEW a \in Aggregates, Change(a) PROVE Elsewhere
  <2>1. \A x \in Aggregates : version'[x] = version[x] \/ version'[x] = version[x] + 1
    BY <1>1, <1>4 DEF Change
  <2> QED
    BY <1>2, <1>4, <2>1 DEF Change, Elsewhere
<1>5. ASSUME NEW r \in Repositories, linkGitHubInstallation(r) PROVE Elsewhere
  BY <1>2, <1>5 DEF linkGitHubInstallation, Elsewhere
<1>6. ASSUME NEW c \in Syncs, NEW S, Queue(c, S) PROVE QueuesOnly
  BY <1>6 DEF Queue, QueuesOnly
<1>7. ASSUME NEW c \in Syncs, listDomainEvents(c) PROVE Begins(c)
  <2> DEFINE q == [IdleSync EXCEPT !.pc = "reading", !.event = version]
  <2>1. q \in Sync
    BY <1>1, IdleFits DEF Sync
  <2>2. q.pc = "reading" /\ q.event = version /\ q.row = IdleSync.row /\ q.result = IdleSync.result
    BY <1>1, IdleFits DEF Sync
  <2>3. sync' = [sync EXCEPT ![c] = q]
    BY <1>7 DEF listDomainEvents
  <2> HIDE DEF q
  <2>4. sync'[c] = q /\ Others(c)
    BY <1>1, <2>1, <2>3, StoreCall DEF Others
  <2> QED
    BY <1>7, <2>2, <2>4, IdleFits DEF listDomainEvents, Begins, Active
<1>8. ASSUME NEW c \in Syncs, PlanAccepted(c) PROVE Plans(c)
  <2>1. PICK q \in Sync : /\ sync' = [sync EXCEPT ![c] = q]
                          /\ q.pc = "applying" /\ q.event = sync[c].event /\ q.row = version
                          /\ q.known = binding /\ q.result = sync[c].result
    BY <1>8, PlanFits
  <2>2. sync'[c] = q /\ Others(c)
    BY <1>1, <2>1, StoreCall DEF Others
  <2> QED
    BY <1>6, <1>8, <2>1, <2>2 DEF PlanAccepted, Plans
<1>9. ASSUME NEW c \in Syncs, PlanRefused(c) \/ upsertDriftAlerts(c) \/ Abort(c) PROVE Ends(c)
  <2>1. sync' = [sync EXCEPT ![c] = IdleSync] /\ UNCHANGED <<version, binding, object, overlap>>
    BY <1>9 DEF PlanRefused, upsertDriftAlerts, Abort
  <2>2. sync'[c] = IdleSync /\ Others(c)
    BY <1>1, <2>1, IdleFits, StoreCall DEF Others
  <2>3. \/ sync[c].pc = "reading" /\ QueuesOnly /\ UNCHANGED <<alert, lost>>
        \/ lost' = (lost \/ Handled(c) # {}) /\ UNCHANGED <<delivery, alert>>
        \/ upsertDriftAlerts(c)
    BY <1>6, <1>9 DEF PlanRefused, Abort
  <2> QED
    BY <2>1, <2>2, <2>3 DEF Ends
<1>10. ASSUME NEW c \in Syncs, NEW r \in Repositories, requestGitHubInstallationAccessToken(c, r)
       PROVE  Continues(c, "applying") /\ sync[c].pc = "applying" /\ Same
  <2> DEFINE q == [sync[c] EXCEPT !.batch = r]
  <2>1. q \in Sync /\ q.pc = sync[c].pc /\ q.event = sync[c].event /\ q.row = sync[c].row
        /\ q.action = sync[c].action /\ q.known = sync[c].known /\ q.result = sync[c].result
        /\ q.on = sync[c].on
    BY <1>2 DEF Sync, Repository
  <2>2. sync' = [sync EXCEPT ![c] = q]
    BY <1>10 DEF requestGitHubInstallationAccessToken
  <2> HIDE DEF q
  <2>3. sync'[c] = q /\ Others(c)
    BY <1>1, <2>1, <2>2, StoreCall DEF Others
  <2> QED
    BY <1>10, <2>1, <2>3 DEF requestGitHubInstallationAccessToken, Continues, Same
<1>11. ASSUME NEW c \in Syncs, NEW s \in Surfaces, Create(c, s) \/ Update(c, s) \/ FailClosed(c, s)
       PROVE  HandlesOne(c, s)
  <2>1. \E r \in Result, b \in Binding, n \in Nat, v \in Severity :
          Handles(c, s, r, b, n, v) /\ Writes(c, s, r, n)
    BY <1>11, CreateFacts, UpdateFacts, FailClosedFacts
  <2>2. IsNext(c, s) /\ UNCHANGED <<version, binding, delivery, alert, overlap>>
    BY <1>11 DEF Create, Update, FailClosed
  <2>3. lost => lost'
    BY <1>11 DEF Create, Update, FailClosed
  <2> QED
    BY <2>1, <2>2, <2>3 DEF HandlesOne
<1>12. ASSUME NEW c \in Syncs, NEW pc \in {"deliveries", "alerts"},
              sync' = [sync EXCEPT ![c].pc = pc]
       PROVE  Continues(c, pc)
  <2> DEFINE q == [sync[c] EXCEPT !.pc = pc]
  <2>1. q \in Sync /\ q.pc = pc /\ q.event = sync[c].event /\ q.row = sync[c].row
        /\ q.action = sync[c].action /\ q.known = sync[c].known /\ q.result = sync[c].result
        /\ q.on = sync[c].on
    BY <1>2 DEF Sync
  <2>2. sync' = [sync EXCEPT ![c] = q]
    BY <1>12
  <2> HIDE DEF q
  <2>3. sync'[c] = q /\ Others(c)
    BY <1>1, <2>1, <2>2, StoreCall DEF Others
  <2> QED
    BY <2>1, <2>3 DEF Continues
<1>13. ASSUME NEW c \in Syncs, upsertBindings(c) PROVE Continues(c, "deliveries")
  BY <1>12, <1>13 DEF upsertBindings
<1>14. ASSUME NEW c \in Syncs, upsertDeliveries(c) PROVE Continues(c, "alerts")
  BY <1>12, <1>14 DEF upsertDeliveries
<1> QED
  BY <1>3, <1>4, <1>5, <1>7, <1>8, <1>9, <1>10, <1>11, <1>13, <1>14 DEF OutboundNext, CallStep

\* What handling one surface changes of the call.
LEMMA HandledFacts ==
  ASSUME Base, NEW c \in Syncs, NEW s \in Surfaces, IsNext(c, s),
         NEW r \in Result, NEW b \in Binding, NEW n \in Nat, NEW v \in Severity,
         Handles(c, s, r, b, n, v)
  PROVE  /\ Others(c)
         /\ sync[c].pc = "applying" /\ sync'[c].pc = "applying"
         /\ sync'[c].event = sync[c].event /\ sync'[c].row = sync[c].row
         /\ sync'[c].action = sync[c].action
         /\ \A t \in Surfaces :
              /\ sync'[c].result[t] = IF t = s THEN r ELSE sync[c].result[t]
              /\ sync'[c].known[t] = IF t = s THEN b ELSE sync[c].known[t]
              /\ sync'[c].on[t] = IF t = s THEN n ELSE sync[c].on[t]
BY KeepFacts, NextFits DEF Handles, Others, Base, OutboundTypeOK

-----------------------------------------------------------------------------
(* Calls that do not overlap. *)

Alone == ~overlap => \A c \in Syncs, d \in Syncs : Active(c) /\ Active(d) => c = d

LEMMA AloneStep ==
  ASSUME Base, Alone, [OutboundNext]_outboundVars
  PROVE  Alone'
<1> SUFFICES ASSUME ~overlap', NEW d \in Syncs, NEW e \in Syncs,
                    sync'[d].pc # "idle", sync'[e].pc # "idle"
             PROVE  d = e
  BY DEF Alone, Active
<1>1. CASE Elsewhere
  BY <1>1 DEF Elsewhere, Alone, Active
<1>2. ASSUME NEW c \in Syncs, Begins(c) PROVE d = e
  <2>1. \A x \in Syncs \ {c} : ~Active(x)
    BY <1>2 DEF Begins
  <2>2. \A x \in Syncs \ {c} : sync'[x] = sync[x]
    BY <1>2 DEF Begins, Others
  <2> QED
    BY <2>1, <2>2 DEF Active
<1>3. ASSUME NEW c \in Syncs, Ends(c) PROVE d = e
  BY <1>3, IdleFits DEF Ends, Others, Alone, Active
<1>4. ASSUME NEW c \in Syncs, Active(c), Others(c), overlap' = overlap PROVE d = e
  BY <1>4 DEF Others, Alone, Active
<1>5. ASSUME NEW c \in Syncs, Plans(c) PROVE d = e
  BY <1>4, <1>5 DEF Plans, Active
<1>6. ASSUME NEW c \in Syncs, NEW pc, Continues(c, pc), sync[c].pc # "idle", overlap' = overlap
      PROVE  d = e
  BY <1>4, <1>6 DEF Continues, Active
<1>7. ASSUME NEW c \in Syncs, NEW s \in Surfaces, HandlesOne(c, s) PROVE d = e
  <2>1. Others(c) /\ sync[c].pc = "applying" /\ overlap' = overlap
    BY <1>7, HandledFacts DEF HandlesOne
  <2> QED
    BY <1>4, <2>1 DEF Active
<1> QED
  BY <1>1, <1>2, <1>3, <1>5, <1>6, <1>7, Steps DEF CallStep, Same, upsertBindings, upsertDeliveries

-----------------------------------------------------------------------------
(* One object per surface. *)

\* What is bound is known to the call in progress under the same object.
KnownAsStored ==
  ~overlap => \A c \in Syncs, s \in Surfaces :
    sync[c].pc = "applying" /\ IsBound(binding[s]) => sync[c].known[s].object = binding[s].object

HeldBy(c, n) ==
  /\ sync[c].pc = "applying"
  /\ Made(sync[c].result[object[n].surface])
  /\ sync[c].known[object[n].surface].object = n

\* An object is the bound one of its surface, or the call that made it still runs.
ObjectKnown ==
  ~overlap /\ ~lost => \A n \in DOMAIN object :
    binding[object[n].surface].object = n \/ \E c \in Syncs : HeldBy(c, n)

LEMMA KnownAsStoredStep ==
  ASSUME Base, Alone, KnownAsStored, [OutboundNext]_outboundVars
  PROVE  KnownAsStored'
<1> SUFFICES ASSUME ~overlap', NEW d \in Syncs, NEW t \in Surfaces,
                    sync'[d].pc = "applying", binding'[t].object # 0
             PROVE  sync'[d].known[t].object = binding'[t].object
  BY DEF KnownAsStored, IsBound
<1> USE DEF KnownAsStored, IsBound
<1>1. CASE Elsewhere
  BY <1>1 DEF Elsewhere
<1>2. ASSUME NEW c \in Syncs, Begins(c) PROVE sync'[d].known[t].object = binding'[t].object
  BY <1>2 DEF Begins, Others
<1>3. ASSUME NEW c \in Syncs, Plans(c) PROVE sync'[d].known[t].object = binding'[t].object
  BY <1>3 DEF Plans, Others
<1>4. ASSUME NEW c \in Syncs, Ends(c) PROVE sync'[d].known[t].object = binding'[t].object
  BY <1>4, IdleFits DEF Ends, Others
<1>5. ASSUME NEW c \in Syncs, NEW pc, Continues(c, pc), binding' = binding, overlap' = overlap,
             pc = "applying" => sync[c].pc = "applying"
      PROVE  sync'[d].known[t].object = binding'[t].object
  BY <1>5 DEF Continues, Others
<1>6. ASSUME NEW c \in Syncs, upsertBindings(c), Continues(c, "deliveries")
      PROVE  sync'[d].known[t].object = binding'[t].object
  BY <1>6 DEF upsertBindings, Continues, Others, Alone, Active
<1>7. ASSUME NEW c \in Syncs, NEW s \in Surfaces, HandlesOne(c, s)
      PROVE  sync'[d].known[t].object = binding'[t].object
  <2>1. PICK r \in Result, b \in Binding, n \in Nat, v \in Severity : Handles(c, s, r, b, n, v)
    BY <1>7 DEF HandlesOne
  <2>2. IsNext(c, s) /\ binding' = binding /\ overlap' = overlap
    BY <1>7 DEF HandlesOne
  <2>3. /\ Others(c) /\ sync[c].pc = "applying"
        /\ sync'[c].known[t] = IF t = s THEN b ELSE sync[c].known[t]
    BY <2>1, <2>2, HandledFacts
  <2>4. CASE d # c \/ t # s
    BY <2>2, <2>3, <2>4 DEF Others
  <2>5. CASE d = c /\ t = s
    <3>1. sync[c].known[s].object = binding[s].object /\ IsBound(sync[c].known[s])
      BY <2>2, <2>3, <2>5
    <3>2. b = sync[c].known[s] \/ b.object = sync[c].known[s].object
      BY <2>1, <3>1 DEF Handles, toBinding
    <3> QED
      BY <2>2, <2>3, <2>5, <3>1, <3>2
  <2> QED
    BY <2>4, <2>5
<1> QED
  <2>1. Elsewhere \/ \E c \in Syncs : CallStep(c)
    BY Steps
  <2> QED
    BY <1>1, <1>2, <1>3, <1>4, <1>5, <1>6, <1>7, <2>1 DEF CallStep, Same, upsertDeliveries

LEMMA ObjectKnownStep ==
  ASSUME Base, Alone, KnownAsStored, ObjectKnown, [OutboundNext]_outboundVars
  PROVE  ObjectKnown'
<1> DEFINE Known(n) ==
      \/ binding'[object'[n].surface].object = n
      \/ \E d \in Syncs : /\ sync'[d].pc = "applying"
                          /\ Made(sync'[d].result[object'[n].surface])
                          /\ sync'[d].known[object'[n].surface].object = n
<1> SUFFICES ASSUME ~overlap', ~lost', NEW m \in DOMAIN object'
             PROVE  Known(m)
  BY DEF ObjectKnown, HeldBy, Made
<1>1. object \in Seq(Object) /\ object' \in Seq(Object)
  BY BaseStep DEF Base, OutboundTypeOK
<1>2. \A n \in DOMAIN object : object[n].surface \in Surfaces /\ n # 0
  <2>1. \A n \in DOMAIN object : object[n] \in Object
    BY <1>1
  <2> QED
    BY <1>1, <2>1 DEF Object
<1>3. CASE Elsewhere
  BY <1>3 DEF Elsewhere, ObjectKnown, HeldBy
<1>4. ASSUME NEW c \in Syncs, Others(c), UNCHANGED <<object, binding>>,
             overlap => overlap', lost => lost',
             ~lost' => \A s \in Surfaces : sync[c].pc = "applying" => ~Made(sync[c].result[s])
      PROVE  Known(m)
  BY <1>2, <1>4 DEF Others, ObjectKnown, HeldBy
<1>5. ASSUME NEW c \in Syncs, Begins(c) PROVE Known(m)
  <2>1. /\ Others(c) /\ UNCHANGED <<object, binding, lost>> /\ sync[c].pc = "idle"
        /\ overlap => overlap'
    BY <1>5 DEF Begins
  <2> QED
    BY <1>4, <2>1
<1>6. ASSUME NEW c \in Syncs, Plans(c) PROVE Known(m)
  BY <1>4, <1>6 DEF Plans
<1>7. ASSUME NEW c \in Syncs, Ends(c) PROVE Known(m)
  <2>1. CASE sync[c].pc = "reading" /\ UNCHANGED <<alert, lost>>
    BY <1>4, <1>7, <2>1 DEF Ends
  <2>2. CASE lost' = (lost \/ Handled(c) # {})
    <3>1. ~lost /\ Handled(c) = {}
      BY <2>2
    <3>2. \A s \in Surfaces : ~Made(sync[c].result[s])
      BY <3>1 DEF Handled, Made
    <3> QED
      BY <1>4, <1>7, <3>1, <3>2 DEF Ends
  <2>3. CASE upsertDriftAlerts(c)
    <3>1. sync[c].pc = "alerts" /\ lost' = lost
      BY <2>3 DEF upsertDriftAlerts
    <3> QED
      BY <1>4, <1>7, <3>1 DEF Ends
  <2> QED
    BY <1>7, <2>1, <2>2, <2>3 DEF Ends
<1>8. ASSUME NEW c \in Syncs, NEW pc, Continues(c, pc), sync[c].pc = "applying" => pc = "applying",
             UNCHANGED <<object, binding, overlap, lost>>
      PROVE  Known(m)
  BY <1>8 DEF Continues, Others, ObjectKnown, HeldBy
<1>9. ASSUME NEW c \in Syncs, upsertBindings(c) PROVE Known(m)
  <2> DEFINE s == object[m].surface
  <2>1. /\ sync[c].pc = "applying" /\ UNCHANGED <<object, overlap, lost>>
        /\ \A u \in Surfaces :
             binding'[u] = IF u \in Posted(c) THEN sync[c].known[u] ELSE binding[u]
    BY <1>9 DEF upsertBindings
  <2>2. s \in Surfaces /\ m # 0
    BY <1>2, <2>1
  <2>3. CASE binding[s].object = m
    <3>1. sync[c].known[s].object = binding[s].object
      BY <2>1, <2>2, <2>3 DEF KnownAsStored, IsBound
    <3> QED
      BY <2>1, <2>2, <2>3, <3>1
  <2>4. ASSUME NEW d \in Syncs, HeldBy(d, m) PROVE Known(m)
    <3>1. d = c
      BY <2>1, <2>4 DEF Alone, Active, HeldBy
    <3>2. /\ Made(sync[c].result[s]) /\ sync[c].known[s].object = m
          /\ IsBound(sync[c].known[s]) /\ sync[c].known[s].repo = sync[c].repo[s]
      BY <2>2, <2>4, <3>1 DEF HeldBy, Base, ResultsFit
    <3>3. s \in Posted(c)
      BY <2>2, <3>2 DEF Posted, Handled, Made
    <3> QED
      BY <2>1, <2>2, <3>2, <3>3
  <2> QED
    BY <2>1, <2>3, <2>4 DEF ObjectKnown
<1>10. ASSUME NEW c \in Syncs, NEW s \in Surfaces, HandlesOne(c, s) PROVE Known(m)
  <2>1. PICK r \in Result, b \in Binding, n \in Nat, v \in Severity :
          Handles(c, s, r, b, n, v) /\ Writes(c, s, r, n)
    BY <1>10 DEF HandlesOne
  <2>2. IsNext(c, s) /\ binding' = binding /\ overlap' = overlap /\ (lost => lost')
    BY <1>10 DEF HandlesOne
  <2>3. /\ Others(c) /\ sync[c].pc = "applying" /\ sync'[c].pc = "applying"
        /\ \A t \in Surfaces :
             /\ sync'[c].result[t] = IF t = s THEN r ELSE sync[c].result[t]
             /\ sync'[c].known[t] = IF t = s THEN b ELSE sync[c].known[t]
    BY <2>1, <2>2, HandledFacts
  <2>4. /\ sync[c].result[s] = "none" /\ sync[c].known[s] \in Binding
        /\ sync[c].action[s] = "create" <=> ~IsBound(sync[c].known[s])
    BY <2>2, NextFits
  <2>5. Grows
    BY <2>1, <2>2, WritesGrow
  <2>6. CASE m \in DOMAIN object
    <3>1. object'[m].surface = object[m].surface /\ object[m].surface \in Surfaces
      BY <1>2, <2>5, <2>6 DEF Grows
    <3>2. CASE binding[object[m].surface].object = m
      BY <2>2, <3>1, <3>2
    <3>3. ASSUME NEW d \in Syncs, HeldBy(d, m) PROVE Known(m)
      <4>1. ~(d = c /\ object[m].surface = s)
        BY <2>4, <3>3 DEF HeldBy, Made
      <4>2. /\ sync'[d].pc = "applying"
            /\ sync'[d].result[object[m].surface] = sync[d].result[object[m].surface]
            /\ sync'[d].known[object[m].surface] = sync[d].known[object[m].surface]
        BY <2>3, <3>1, <3>3, <4>1 DEF Others, HeldBy
      <4> QED
        BY <3>1, <3>3, <4>2 DEF HeldBy
    <3> QED
      BY <2>2, <2>6, <3>2, <3>3 DEF ObjectKnown
  <2>7. CASE m \notin DOMAIN object
    <3>1. PICK under \in Nat : object' = Append(object, projection(c, s, under))
      <4>1. DOMAIN [object EXCEPT ![sync[c].known[s].object] =
                      projection(c, s, object[sync[c].known[s].object].under)] = DOMAIN object
        OBVIOUS
      <4> QED
        BY <2>1, <2>7, <4>1 DEF Writes
    <3>2. m = Len(object) + 1 /\ object'[m] = projection(c, s, under)
      BY <1>1, <2>7, <3>1
    <3>3. object' # object
      BY <2>7
    <3>4. object' # [object EXCEPT ![sync[c].known[s].object] =
                      projection(c, s, object[sync[c].known[s].object].under)]
      BY <2>7
    <3>5. Made(r) /\ n = m
      BY <2>1, <3>2, <3>3, <3>4 DEF Writes
    <3>6. b.object = m
      BY <2>1, <3>5 DEF Handles, toBinding
    <3>7. object'[m].surface = s
      BY <3>2 DEF projection
    <3> QED
      BY <2>3, <3>5, <3>6, <3>7
  <2> QED
    BY <2>6, <2>7
<1> QED
  <2>1. Elsewhere \/ \E c \in Syncs : CallStep(c)
    BY Steps
  <2> HIDE DEF Known
  <2> QED
    BY <1>3, <1>5, <1>6, <1>7, <1>8, <1>9, <1>10, <2>1 DEF CallStep, Same, upsertDeliveries

\* Two objects of a surface are both the bound one, or both what the one call knows.
LEMMA KnownIsOne ==
  Base /\ Alone /\ KnownAsStored /\ ObjectKnown => OneObjectPerSurface
<1> SUFFICES ASSUME Base, Alone, KnownAsStored, ObjectKnown, ~overlap, ~lost,
                    NEW m \in DOMAIN object, NEW n \in DOMAIN object,
                    object[m].surface = object[n].surface
             PROVE  m = n
  BY DEF OneObjectPerSurface
<1> DEFINE s == object[m].surface
<1>1. s \in Surfaces /\ m # 0 /\ n # 0
  <2>1. object \in Seq(Object)
    BY DEF Base, OutboundTypeOK
  <2>2. object[m] \in Object
    BY <2>1
  <2> QED
    BY <2>1, <2>2 DEF Object
<1>2. /\ binding[s].object = m \/ \E c \in Syncs : HeldBy(c, m)
      /\ binding[s].object = n \/ \E c \in Syncs : HeldBy(c, n)
  BY DEF ObjectKnown
<1>3. ASSUME NEW c \in Syncs, HeldBy(c, m), NEW d \in Syncs, HeldBy(d, n) PROVE m = n
  BY <1>3 DEF HeldBy, Alone, Active
<1>4. ASSUME NEW c \in Syncs, HeldBy(c, m), binding[s].object = n PROVE m = n
  BY <1>1, <1>4 DEF HeldBy, KnownAsStored, IsBound
<1>5. ASSUME NEW c \in Syncs, HeldBy(c, n), binding[s].object = m PROVE m = n
  BY <1>1, <1>5 DEF HeldBy, KnownAsStored, IsBound
<1> QED
  BY <1>2, <1>3, <1>4, <1>5

LEMMA InitGivesKnown == OutboundInit => Alone /\ KnownAsStored /\ ObjectKnown
<1>1. OutboundInit => \A c \in Syncs : sync[c].pc = "idle"
  BY IdleFits DEF OutboundInit
<1> QED
  BY <1>1 DEF OutboundInit, Alone, Active, KnownAsStored, ObjectKnown

LEMMA KnownHolds == OutboundSpec => [](Alone /\ KnownAsStored /\ ObjectKnown)
BY InitGivesKnown, InitGivesBase, BaseStep, AloneStep, KnownAsStoredStep, ObjectKnownStep,
   PTL DEF OutboundSpec

\* A surface has two objects on GitHub only if two calls overlapped or one ended
\* without posting what it did.
THEOREM OneObject == OutboundSpec => []OneObjectPerSurface
BY BaseHolds, KnownHolds, KnownIsOne, PTL

-----------------------------------------------------------------------------
(* What an applied delivery shows. *)

aggregate(n) == AggregateOf[object[n].surface]

\* What a call read of an aggregate is not newer than it, and its row was read after
\* its event.
Versioned ==
  \A c \in Syncs, a \in Aggregates :
    /\ sync[c].event[a] <= version[a]
    /\ sync[c].row[a] <= version[a]
    /\ sync[c].pc = "applying" => sync[c].event[a] <= sync[c].row[a]

\* An object is not newer than its row, nor than the row as the one call that writes
\* objects read it.
Written ==
  \A n \in DOMAIN object :
    /\ object[n].wrote <= version[aggregate(n)]
    /\ \A c \in Syncs : ~overlap /\ sync[c].pc = "applying" =>
         object[n].wrote <= sync[c].row[aggregate(n)]

\* What a call applied shows the event it was applied for.
Shown ==
  ~overlap => \A c \in Syncs, s \in Surfaces :
    Made(sync[c].result[s]) => object[sync[c].on[s]].wrote >= sourceEvent(c, s)

\* The numbers a call and the objects hold.
LEMMA Numbers ==
  ASSUME Base
  PROVE  /\ \A a \in Aggregates : version[a] \in Int /\ version[a] >= 0
         /\ \A c \in Syncs, a \in Aggregates : sync[c].event[a] \in Int /\ sync[c].row[a] \in Int
         /\ object \in Seq(Object)
         /\ \A n \in DOMAIN object : /\ object[n].wrote \in Int /\ object[n].surface \in Surfaces
                                     /\ aggregate(n) \in Aggregates
         /\ \A s \in Surfaces : AggregateOf[s] \in Aggregates
<1>1. \A v \in Versions : v \in Int /\ v >= 0
  BY OutboundAssumption DEF Versions
<1>2. /\ version \in [Aggregates -> Versions] /\ object \in Seq(Object)
      /\ \A c \in Syncs : sync[c] \in Sync
  BY DEF Base, OutboundTypeOK
<1>3. \A n \in DOMAIN object : object[n] \in Object
  BY <1>2
<1>4. \A c \in Syncs : /\ sync[c].event \in [Aggregates -> Versions]
                       /\ sync[c].row \in [Aggregates -> Versions]
  BY <1>2 DEF Sync
<1>5. \A s \in Surfaces : AggregateOf[s] \in Aggregates
  BY OutboundAssumption
<1>6. \A n \in DOMAIN object : object[n].wrote \in Int /\ object[n].surface \in Surfaces
  BY <1>1, <1>3 DEF Object
<1>7. \A a \in Aggregates : version[a] \in Int /\ version[a] >= 0
  BY <1>1, <1>2
<1>8. \A c \in Syncs, a \in Aggregates : sync[c].event[a] \in Int /\ sync[c].row[a] \in Int
  BY <1>1, <1>4
<1> QED
  BY <1>2, <1>5, <1>6, <1>7, <1>8 DEF aggregate

LEMMA VersionedStep ==
  ASSUME Base, Versioned, [OutboundNext]_outboundVars
  PROVE  Versioned'
<1> SUFFICES ASSUME NEW d \in Syncs, NEW a \in Aggregates
             PROVE  /\ sync'[d].event[a] <= version'[a]
                    /\ sync'[d].row[a] <= version'[a]
                    /\ sync'[d].pc = "applying" => sync'[d].event[a] <= sync'[d].row[a]
  BY DEF Versioned
<1> DEFINE Goal == /\ sync'[d].event[a] <= version'[a]
                   /\ sync'[d].row[a] <= version'[a]
                   /\ sync'[d].pc = "applying" => sync'[d].event[a] <= sync'[d].row[a]
<1>1. /\ version[a] \in Int /\ version[a] >= 0 /\ version'[a] \in Int
      /\ sync[d].event[a] \in Int /\ sync[d].row[a] \in Int
  <2>1. Base'
    BY BaseStep
  <2>2. \A x \in Aggregates : version'[x] \in Int
    <3>1. version' \in [Aggregates -> Versions] /\ Versions \subseteq Int
      BY <2>1, OutboundAssumption DEF Base, OutboundTypeOK, Versions
    <3> QED
      BY <3>1
  <2> QED
    BY <2>2, Numbers
<1>2. /\ sync[d].event[a] <= version[a] /\ sync[d].row[a] <= version[a]
      /\ sync[d].pc = "applying" => sync[d].event[a] <= sync[d].row[a]
  BY DEF Versioned
<1>3. CASE Elsewhere
  <2>1. sync' = sync /\ version[a] <= version'[a]
    BY <1>3 DEF Elsewhere
  <2> QED
    BY <1>1, <1>2, <2>1
<1>4. ASSUME sync'[d] = sync[d], version' = version PROVE Goal
  BY <1>2, <1>4
<1>5. ASSUME NEW c \in Syncs, Begins(c) PROVE Goal
  BY <1>1, <1>4, <1>5 DEF Begins, Others
<1>6. ASSUME NEW c \in Syncs, Plans(c) PROVE Goal
  BY <1>1, <1>2, <1>4, <1>6 DEF Plans, Others
<1>7. ASSUME NEW c \in Syncs, Ends(c) PROVE Goal
  BY <1>1, <1>4, <1>7, IdleFits DEF Ends, Others
<1>8. ASSUME NEW c \in Syncs, Others(c), version' = version, sync'[c].event = sync[c].event,
             sync'[c].row = sync[c].row, sync'[c].pc = "applying" => sync[c].pc = "applying"
      PROVE  Goal
  BY <1>2, <1>4, <1>8 DEF Others
<1>9. ASSUME NEW c \in Syncs, NEW pc, Continues(c, pc), version' = version,
             pc = "applying" => sync[c].pc = "applying"
      PROVE  Goal
  BY <1>8, <1>9 DEF Continues
<1>10. ASSUME NEW c \in Syncs, NEW s \in Surfaces, HandlesOne(c, s) PROVE Goal
  <2>1. /\ Others(c) /\ version' = version /\ sync'[c].event = sync[c].event
        /\ sync'[c].row = sync[c].row /\ sync[c].pc = "applying"
    BY <1>10, HandledFacts DEF HandlesOne
  <2> QED
    BY <1>8, <2>1
<1> QED
  <2>1. Elsewhere \/ \E c \in Syncs : CallStep(c)
    BY Steps
  <2> QED
    BY <1>3, <1>5, <1>6, <1>7, <1>9, <1>10, <2>1
       DEF CallStep, Same, upsertBindings, upsertDeliveries

\* An object that is written is written from the row the call read; it does not go
\* back as long as calls do not overlap.
LEMMA WriteFacts ==
  ASSUME Base, Versioned, Written, NEW c \in Syncs, NEW s \in Surfaces, IsNext(c, s),
         NEW r, NEW n, Writes(c, s, r, n)
  PROVE  /\ \A m \in DOMAIN object' :
              \/ m \in DOMAIN object /\ object'[m] = object[m]
              \/ /\ object'[m].surface = s
                 /\ object'[m].wrote = sync[c].row[AggregateOf[s]]
         /\ ~overlap => \A m \in DOMAIN object :
              /\ m \in DOMAIN object' /\ object'[m].wrote \in Int
              /\ object[m].wrote <= object'[m].wrote
<1>1. object \in Seq(Object) /\ sync[c].pc = "applying"
  BY NextFits DEF Base, OutboundTypeOK
<1>2. \A m \in DOMAIN object : /\ object[m].wrote \in Int
                               /\ object[m].wrote <= object[m].wrote
  <2>1. \A m \in DOMAIN object : object[m].wrote \in Int
    BY Numbers
  <2> QED
    BY <2>1
<1>3. CASE object' = object
  BY <1>2, <1>3
<1>4. ASSUME NEW under \in Nat, object' = Append(object, projection(c, s, under))
      PROVE  /\ \A m \in DOMAIN object :
                  m \in DOMAIN object' /\ object'[m] = object[m]
             /\ \A m \in DOMAIN object' :
                  \/ m \in DOMAIN object /\ object'[m] = object[m]
                  \/ object'[m] = projection(c, s, under)
  <2>1. projection(c, s, under) \in Object
    BY MadeTypes
  <2> QED
    BY <1>1, <1>4, <2>1
<1>5. ASSUME IsBound(sync[c].known[s]),
             object' = [object EXCEPT ![sync[c].known[s].object] =
                          projection(c, s, object[sync[c].known[s].object].under)]
      PROVE  /\ \A m \in DOMAIN object' :
                  \/ m \in DOMAIN object /\ object'[m] = object[m]
                  \/ /\ object'[m].surface = s
                     /\ object'[m].wrote = sync[c].row[AggregateOf[s]]
             /\ ~overlap => \A m \in DOMAIN object :
                  /\ m \in DOMAIN object' /\ object'[m].wrote \in Int
                  /\ object[m].wrote <= object'[m].wrote
  <2> DEFINE k == sync[c].known[s].object
             p == projection(c, s, object[k].under)
  <2>1. k \in DOMAIN object /\ object[k].surface = s
    BY <1>5 DEF Base, KnownNames, Names
  <2>2. p.surface = s /\ p.wrote = sync[c].row[AggregateOf[s]]
    BY DEF projection, rendered
  <2>3. sync[c].row[AggregateOf[s]] \in Int
    BY Numbers
  <2>4. ~overlap => object[k].wrote <= sync[c].row[AggregateOf[s]]
    BY <1>1, <2>1 DEF Written, aggregate
  <2>5. object' = [object EXCEPT ![k] = p]
    BY <1>5
  <2> HIDE DEF p, k
  <2>6. /\ DOMAIN object' = DOMAIN object
        /\ \A m \in DOMAIN object : object'[m] = IF m = k THEN p ELSE object[m]
    BY <1>1, <2>1, <2>5
  <2> QED
    BY <1>2, <2>1, <2>2, <2>3, <2>4, <2>6
<1>6. \A under \in Nat : /\ projection(c, s, under).surface = s
                         /\ projection(c, s, under).wrote = sync[c].row[AggregateOf[s]]
  BY DEF projection, rendered
<1>7. CASE \E under \in Nat : object' = Append(object, projection(c, s, under))
  BY <1>2, <1>4, <1>6, <1>7
<1> QED
  BY <1>3, <1>5, <1>7 DEF Writes

LEMMA WrittenStep ==
  ASSUME Base, Alone, Versioned, Written, [OutboundNext]_outboundVars
  PROVE  Written'
<1> DEFINE a(m) == AggregateOf[object'[m].surface]
           Fit(m) == /\ object'[m].wrote <= version'[a(m)]
                     /\ \A d \in Syncs : ~overlap' /\ sync'[d].pc = "applying" =>
                          object'[m].wrote <= sync'[d].row[a(m)]
<1> SUFFICES ASSUME NEW m \in DOMAIN object' PROVE Fit(m)
  BY DEF Written, aggregate
<1>1. /\ \A x \in Aggregates : version[x] \in Int /\ version'[x] \in Int
      /\ \A n \in DOMAIN object : /\ object[n].wrote \in Int
                                  /\ AggregateOf[object[n].surface] \in Aggregates
  <2>1. Base'
    BY BaseStep
  <2>2. \A x \in Aggregates : version'[x] \in Int
    <3>1. version' \in [Aggregates -> Versions] /\ Versions \subseteq Int
      BY <2>1, OutboundAssumption DEF Base, OutboundTypeOK, Versions
    <3> QED
      BY <3>1
  <2> QED
    BY <2>2, Numbers DEF aggregate
<1>2. \A n \in DOMAIN object :
        /\ object[n].wrote <= version[AggregateOf[object[n].surface]]
        /\ \A d \in Syncs : ~overlap /\ sync[d].pc = "applying" =>
             object[n].wrote <= sync[d].row[AggregateOf[object[n].surface]]
  BY DEF Written, aggregate
<1>3. CASE Elsewhere
  <2>1. /\ UNCHANGED <<object, sync, overlap>>
        /\ version[AggregateOf[object[m].surface]] <= version'[AggregateOf[object[m].surface]]
    BY <1>1, <1>3 DEF Elsewhere
  <2>2. /\ object[m].wrote \in Int
        /\ version[AggregateOf[object[m].surface]] \in Int
        /\ version'[AggregateOf[object[m].surface]] \in Int
        /\ object[m].wrote <= version[AggregateOf[object[m].surface]]
    BY <1>1, <1>2, <2>1
  <2>3. object[m].wrote <= version'[AggregateOf[object[m].surface]]
    BY <2>1, <2>2
  <2> QED
    BY <1>2, <2>1, <2>3
<1>4. ASSUME NEW c \in Syncs, Others(c), UNCHANGED <<version, object>>, overlap => overlap',
             sync'[c].pc = "applying" => sync[c].pc = "applying" /\ sync'[c].row = sync[c].row
      PROVE  Fit(m)
  BY <1>2, <1>4 DEF Others
<1>5. ASSUME NEW c \in Syncs, Begins(c) PROVE Fit(m)
  <2>1. /\ Others(c) /\ UNCHANGED <<version, object>>
        /\ overlap => overlap'
        /\ sync'[c].pc # "applying"
    BY <1>5 DEF Begins
  <2> QED
    BY <1>4, <2>1
<1>6. ASSUME NEW c \in Syncs, Plans(c) PROVE Fit(m)
  <2>1. /\ Others(c) /\ UNCHANGED <<version, object, overlap>> /\ sync'[c].row = version
    BY <1>6 DEF Plans
  <2> QED
    BY <1>2, <2>1 DEF Others
<1>7. ASSUME NEW c \in Syncs, Ends(c) PROVE Fit(m)
  BY <1>4, <1>7, IdleFits DEF Ends
<1>8. ASSUME NEW c \in Syncs, NEW pc, Continues(c, pc), UNCHANGED <<version, object, overlap>>,
             pc = "applying" => sync[c].pc = "applying"
      PROVE  Fit(m)
  BY <1>4, <1>8 DEF Continues
<1>9. ASSUME NEW c \in Syncs, NEW s \in Surfaces, HandlesOne(c, s) PROVE Fit(m)
  <2>1. PICK r \in Result, b \in Binding, n \in Nat, v \in Severity :
          Handles(c, s, r, b, n, v) /\ Writes(c, s, r, n)
    BY <1>9 DEF HandlesOne
  <2>2. IsNext(c, s) /\ version' = version /\ overlap' = overlap
    BY <1>9 DEF HandlesOne
  <2>3. /\ Others(c) /\ sync[c].pc = "applying" /\ sync'[c].pc = "applying"
        /\ sync'[c].row = sync[c].row
    BY <2>1, <2>2, HandledFacts
  <2>4. \A d \in Syncs : sync'[d].pc = "applying" =>
          sync[d].pc = "applying" /\ sync'[d].row = sync[d].row
    BY <2>3 DEF Others
  <2>5. CASE m \in DOMAIN object /\ object'[m] = object[m]
    BY <1>2, <2>2, <2>4, <2>5
  <2>6. CASE object'[m].surface = s /\ object'[m].wrote = sync[c].row[AggregateOf[s]]
    <3>1. /\ AggregateOf[s] \in Aggregates
          /\ sync[c].row[AggregateOf[s]] \in Int
          /\ sync[c].row[AggregateOf[s]] <= sync[c].row[AggregateOf[s]]
      <4>1. AggregateOf[s] \in Aggregates /\ sync[c].row[AggregateOf[s]] \in Int
        BY Numbers
      <4> QED
        BY <4>1
    <3>2. sync[c].row[AggregateOf[s]] <= version[AggregateOf[s]]
      BY <3>1 DEF Versioned
    <3>3. \A d \in Syncs : ~overlap /\ sync[d].pc = "applying" => d = c
      BY <2>3 DEF Alone, Active
    <3> QED
      BY <2>2, <2>3, <2>4, <2>6, <3>1, <3>2, <3>3
  <2> QED
    BY <2>1, <2>2, <2>5, <2>6, WriteFacts
<1> QED
  <2>1. Elsewhere \/ \E c \in Syncs : CallStep(c)
    BY Steps
  <2> HIDE DEF Fit
  <2> QED
    BY <1>3, <1>5, <1>6, <1>7, <1>8, <1>9, <2>1
       DEF CallStep, Same, upsertBindings, upsertDeliveries

\* What a call made is on GitHub, under its surface.
LEMMA MadeIsThere ==
  ASSUME Base, NEW c \in Syncs, NEW s \in Surfaces, Made(sync[c].result[s])
  PROVE  sync[c].on[s] \in DOMAIN object /\ object[sync[c].on[s]].surface = s
BY DEF Base, ResultsFit, KnownNames, Names

LEMMA ShownStep ==
  ASSUME Base, Versioned, Written, Shown, [OutboundNext]_outboundVars
  PROVE  Shown'
<1> SUFFICES ASSUME ~overlap', NEW d \in Syncs, NEW t \in Surfaces, Made(sync'[d].result[t])
             PROVE  object'[sync'[d].on[t]].wrote >= sync'[d].event[AggregateOf[t]]
  BY DEF Shown, Made, sourceEvent
<1> DEFINE Goal == object'[sync'[d].on[t]].wrote >= sync'[d].event[AggregateOf[t]]
<1>1. ~overlap => \A c \in Syncs, s \in Surfaces :
        Made(sync[c].result[s]) => object[sync[c].on[s]].wrote >= sync[c].event[AggregateOf[s]]
  BY DEF Shown, sourceEvent
<1>2. CASE Elsewhere
  BY <1>1, <1>2 DEF Elsewhere
<1>3. ASSUME NEW c \in Syncs, Others(c), object' = object, overlap => overlap',
             \/ ~Made(sync'[c].result[t])
             \/ /\ sync'[c].result[t] = sync[c].result[t] /\ sync'[c].on[t] = sync[c].on[t]
                /\ sync'[c].event = sync[c].event
      PROVE  Goal
  BY <1>1, <1>3 DEF Others
<1>4. ASSUME NEW c \in Syncs, Begins(c) PROVE Goal
  <2>1. /\ Others(c)
        /\ object' = object
        /\ overlap => overlap'
        /\ ~Made(sync'[c].result[t])
    BY <1>4 DEF Begins, Made
  <2> QED
    BY <1>3, <2>1
<1>5. ASSUME NEW c \in Syncs, Plans(c) PROVE Goal
  <2>1. sync[c].result[t] = "none"
    BY <1>5 DEF Plans, Base, TodoFits
  <2>2. /\ Others(c)
        /\ object' = object
        /\ overlap => overlap'
        /\ ~Made(sync'[c].result[t])
    BY <1>5, <2>1 DEF Plans, Made
  <2> QED
    BY <1>3, <2>2
<1>6. ASSUME NEW c \in Syncs, Ends(c) PROVE Goal
  <2>1. /\ Others(c)
        /\ object' = object
        /\ overlap => overlap'
        /\ ~Made(sync'[c].result[t])
    BY <1>6, IdleFits DEF Ends, Made
  <2> QED
    BY <1>3, <2>1
<1>7. ASSUME NEW c \in Syncs, NEW pc, Continues(c, pc), UNCHANGED <<object, overlap>> PROVE Goal
  BY <1>3, <1>7 DEF Continues
<1>8. ASSUME NEW c \in Syncs, NEW s \in Surfaces, HandlesOne(c, s) PROVE Goal
  <2>1. PICK r \in Result, b \in Binding, n \in Nat, v \in Severity :
          Handles(c, s, r, b, n, v) /\ Writes(c, s, r, n)
    BY <1>8 DEF HandlesOne
  <2>2. IsNext(c, s) /\ overlap' = overlap
    BY <1>8 DEF HandlesOne
  <2>3. /\ Others(c) /\ sync[c].pc = "applying" /\ sync'[c].event = sync[c].event
        /\ \A u \in Surfaces :
             /\ sync'[c].result[u] = IF u = s THEN r ELSE sync[c].result[u]
             /\ sync'[c].on[u] = IF u = s THEN n ELSE sync[c].on[u]
    BY <2>1, <2>2, HandledFacts
  <2>4. CASE ~(d = c /\ t = s)
    <3> DEFINE m == sync[d].on[t]
    <3>1. /\ sync'[d].result[t] = sync[d].result[t] /\ sync'[d].on[t] = m
          /\ sync'[d].event = sync[d].event
      BY <2>3, <2>4 DEF Others
    <3>2. m \in DOMAIN object
      BY <3>1, MadeIsThere
    <3>3. object[m].wrote >= sync[d].event[AggregateOf[t]]
      BY <1>1, <2>2, <3>1
    <3>4. object[m].wrote <= object'[m].wrote /\ object'[m].wrote \in Int
      BY <2>1, <2>2, <3>2, WriteFacts
    <3>5. object[m].wrote \in Int /\ sync[d].event[AggregateOf[t]] \in Int
      BY <3>2, Numbers
    <3> HIDE DEF m
    <3> QED
      BY <3>1, <3>3, <3>4, <3>5
  <2>5. CASE d = c /\ t = s
    <3>1. sync'[c].on[s] = n /\ Made(r)
      BY <2>3, <2>5
    <3>2. object'[n].wrote = sync[c].row[AggregateOf[s]]
      BY <2>1, <3>1 DEF Handles, rendered
    <3>3. /\ sync[c].row[AggregateOf[s]] \in Int /\ sync[c].event[AggregateOf[s]] \in Int
          /\ sync[c].event[AggregateOf[s]] <= sync[c].row[AggregateOf[s]]
      BY <2>3, Numbers DEF Versioned
    <3>4. sync[c].row[AggregateOf[s]] >= sync[c].event[AggregateOf[s]]
      BY <3>3
    <3> QED
      BY <2>3, <2>5, <3>1, <3>2, <3>4
  <2> QED
    BY <2>4, <2>5
<1> QED
  <2>1. Elsewhere \/ \E c \in Syncs : CallStep(c)
    BY Steps
  <2> QED
    BY <1>2, <1>4, <1>5, <1>6, <1>7, <1>8, <2>1
       DEF CallStep, Same, upsertBindings, upsertDeliveries

LEMMA AppliedStep ==
  ASSUME Base, Versioned, Written, Shown, AppliedMeansShown, [OutboundNext]_outboundVars
  PROVE  AppliedMeansShown'
<1> SUFFICES ASSUME NEW k \in DeliveryKey, delivery'[k].status = "applied"
             PROVE  /\ delivery'[k].object \in DOMAIN object'
                    /\ object'[delivery'[k].object].surface = k.surface
                    /\ ~overlap' => object'[delivery'[k].object].wrote >= k.event
  BY DEF AppliedMeansShown
<1> DEFINE Goal == /\ delivery'[k].object \in DOMAIN object'
                   /\ object'[delivery'[k].object].surface = k.surface
                   /\ ~overlap' => object'[delivery'[k].object].wrote >= k.event
<1>1. ASSUME object' = object, overlap => overlap',
             delivery'[k] = delivery[k] \/ delivery'[k].status = "queued"
      PROVE  Goal
  BY <1>1 DEF AppliedMeansShown
<1>2. CASE Elsewhere
  BY <1>1, <1>2 DEF Elsewhere
<1>3. ASSUME NEW c \in Syncs, Begins(c) PROVE Goal
  <2>1. /\ object' = object /\ delivery' = delivery
        /\ overlap => overlap'
    BY <1>3 DEF Begins
  <2> QED
    BY <1>1, <2>1
<1>4. ASSUME NEW c \in Syncs, Plans(c) PROVE Goal
  BY <1>1, <1>4 DEF Plans, QueuesOnly
<1>5. ASSUME NEW c \in Syncs, Ends(c) PROVE Goal
  BY <1>1, <1>5 DEF Ends, QueuesOnly, upsertDriftAlerts
<1>6. ASSUME UNCHANGED <<object, overlap, delivery>> PROVE Goal
  BY <1>1, <1>6
<1>7. ASSUME NEW c \in Syncs, NEW s \in Surfaces, HandlesOne(c, s) PROVE Goal
  <2>1. PICK r \in Result, b \in Binding, n \in Nat, v \in Severity : Writes(c, s, r, n)
    BY <1>7 DEF HandlesOne
  <2>2. IsNext(c, s) /\ overlap' = overlap /\ delivery' = delivery
    BY <1>7 DEF HandlesOne
  <2> DEFINE m == delivery[k].object
  <2>3. /\ m \in DOMAIN object /\ object[m].surface = k.surface
        /\ ~overlap => object[m].wrote >= k.event
    BY <2>2 DEF AppliedMeansShown
  <2>4. Grows
    BY <2>1, <2>2, WritesGrow
  <2>5. ~overlap => object[m].wrote <= object'[m].wrote /\ object'[m].wrote \in Int
    BY <2>1, <2>2, <2>3, WriteFacts
  <2>6. object[m].wrote \in Int /\ k.event \in Int
    <3>1. k.event \in Int
      BY OutboundAssumption DEF DeliveryKey, Versions
    <3> QED
      BY <2>3, <3>1, Numbers
  <2> HIDE DEF m
  <2>7. ~overlap => object'[m].wrote >= k.event
    BY <2>3, <2>5, <2>6
  <2> QED
    BY <2>2, <2>3, <2>4, <2>7 DEF m, Grows
<1>8. ASSUME NEW c \in Syncs, upsertDeliveries(c) PROVE Goal
  <2> DEFINE s == k.surface
  <2>1. /\ UNCHANGED <<object, overlap>> /\ s \in Surfaces
        /\ delivery'[k] = IF s \in Handled(c) /\ k = handledKey(c, s)
                          THEN [status |-> sync[c].result[s], object |-> sync[c].on[s]]
                          ELSE delivery[k]
    BY <1>8 DEF upsertDeliveries, DeliveryKey
  <2>2. CASE s \in Handled(c) /\ k = handledKey(c, s)
    <3>1. sync[c].result[s] = "applied" /\ delivery'[k].object = sync[c].on[s]
      BY <2>1, <2>2
    <3>2. Made(sync[c].result[s])
      BY <3>1 DEF Made
    <3>3. sync[c].on[s] \in DOMAIN object /\ object[sync[c].on[s]].surface = s
      BY <2>1, <3>2, MadeIsThere
    <3>4. k.event = sourceEvent(c, s)
      BY <2>2 DEF handledKey, deliveryKey
    <3>5. ~overlap => object[sync[c].on[s]].wrote >= k.event
      BY <2>1, <3>2, <3>4 DEF Shown
    <3> QED
      BY <2>1, <3>1, <3>3, <3>5
  <2>3. CASE ~(s \in Handled(c) /\ k = handledKey(c, s))
    BY <1>1, <2>1, <2>3
  <2> QED
    BY <2>2, <2>3
<1> QED
  <2>1. Elsewhere \/ \E c \in Syncs : CallStep(c)
    BY Steps
  <2> HIDE DEF Goal
  <2> QED
    BY <1>2, <1>3, <1>4, <1>5, <1>6, <1>7, <1>8, <2>1 DEF CallStep, Same, upsertBindings, Goal

LEMMA InitGivesShown ==
  OutboundInit => Versioned /\ Written /\ Shown /\ AppliedMeansShown
<1> SUFFICES ASSUME OutboundInit PROVE Versioned /\ Written /\ Shown /\ AppliedMeansShown
  OBVIOUS
<1>1. \A c \in Syncs : sync[c] = IdleSync
  BY DEF OutboundInit
<1>2. Versioned
  BY <1>1, IdleFits DEF OutboundInit, Versioned
<1>3. Written
  BY DEF OutboundInit, Written
<1>4. Shown
  BY <1>1, IdleFits DEF Shown, Made
<1>5. AppliedMeansShown
  BY DEF OutboundInit, AppliedMeansShown, NoDelivery
<1> QED
  BY <1>2, <1>3, <1>4, <1>5

LEMMA ShownHolds == OutboundSpec => [](Versioned /\ Written /\ Shown /\ AppliedMeansShown)
BY BaseHolds, KnownHolds, InitGivesShown, VersionedStep, WrittenStep, ShownStep, AppliedStep,
   PTL DEF OutboundSpec

\* As long as calls do not overlap, a delivery that says applied for an event has its
\* object on GitHub, showing that event or a later one.
THEOREM AppliedIsShown == OutboundSpec => []AppliedMeansShown
BY ShownHolds, PTL

-----------------------------------------------------------------------------
(* What a failure leaves. *)

failureOf(k) == [surface |-> k.surface, event |-> k.event, kind |-> "delivery_failure"]

\* A failed delivery has its alert, or the call that stored it is about to store it.
FailedAlerted ==
  ~lost => \A k \in DeliveryKey : delivery[k].status = "failed" =>
    \/ alert[failureOf(k)] = "high"
    \/ \E c \in Syncs : /\ sync[c].pc = "alerts"
                        /\ sync[c].result[k.surface] = "failed"
                        /\ handledKey(c, k.surface) = k

LEMMA FailedAlertedStep ==
  ASSUME Base, FailedAlerted, [OutboundNext]_outboundVars
  PROVE  FailedAlerted'
<1> DEFINE Stores(c, k) == /\ sync[c].pc = "alerts"
                           /\ sync[c].result[k.surface] = "failed"
                           /\ k = deliveryKey(k.surface, sync[c].event[AggregateOf[k.surface]],
                                              sync[c].action[k.surface])
           Stored(c, k) == /\ sync'[c].pc = "alerts"
                           /\ sync'[c].result[k.surface] = "failed"
                           /\ k = deliveryKey(k.surface, sync'[c].event[AggregateOf[k.surface]],
                                              sync'[c].action[k.surface])
<1> SUFFICES ASSUME ~lost', NEW k \in DeliveryKey, delivery'[k].status = "failed"
             PROVE  alert'[failureOf(k)] = "high" \/ \E c \in Syncs : Stored(c, k)
  BY DEF FailedAlerted, handledKey, sourceEvent, failureOf, deliveryKey
<1> DEFINE Goal == alert'[failureOf(k)] = "high" \/ \E c \in Syncs : Stored(c, k)
<1>1. ~lost /\ delivery[k].status = "failed" =>
        alert[failureOf(k)] = "high" \/ \E c \in Syncs : Stores(c, k)
  BY DEF FailedAlerted, handledKey, sourceEvent
<1>2. k.surface \in Surfaces /\ k.event \in Versions /\ failureOf(k) \in AlertId
  BY DEF DeliveryKey, failureOf, AlertId
<1>3. ASSUME NEW c \in Syncs, Others(c), alert' = alert, lost => lost',
             delivery'[k] = delivery[k] \/ delivery'[k].status = "queued",
             ~lost' => ~Stores(c, k)
      PROVE  Goal
  BY <1>1, <1>3 DEF Others
<1>4. CASE Elsewhere
  BY <1>1, <1>4 DEF Elsewhere
<1>5. ASSUME NEW c \in Syncs, Begins(c) PROVE Goal
  BY <1>3, <1>5 DEF Begins
<1>6. ASSUME NEW c \in Syncs, Plans(c) PROVE Goal
  BY <1>3, <1>6 DEF Plans, QueuesOnly
<1>7. ASSUME NEW c \in Syncs, Ends(c) PROVE Goal
  <2>1. CASE sync[c].pc = "reading" /\ QueuesOnly /\ UNCHANGED <<alert, lost>>
    BY <1>3, <1>7, <2>1 DEF Ends, QueuesOnly
  <2>2. CASE lost' = (lost \/ Handled(c) # {}) /\ UNCHANGED <<delivery, alert>>
    <3>1. ~lost /\ Handled(c) = {}
      BY <2>2
    <3>2. sync[c].result[k.surface] = "none"
      BY <1>2, <3>1 DEF Handled
    <3> QED
      BY <1>3, <1>7, <2>2, <3>1, <3>2 DEF Ends
  <2>3. CASE upsertDriftAlerts(c)
    <3> DEFINE i == failureOf(k)
    <3>1. /\ lost' = lost /\ delivery' = delivery
          /\ alert'[i] = IF /\ i.surface \in {s \in Handled(c) : sync[c].severity[s] # "none"}
                            /\ i = alertOf(c, i.surface)
                         THEN sync[c].severity[i.surface] ELSE alert[i]
      BY <1>2, <2>3 DEF upsertDriftAlerts
    <3>2. i.surface = k.surface /\ i.event = k.event /\ i.kind = "delivery_failure"
      BY DEF failureOf
    <3>3. i = alertOf(c, i.surface) => sync[c].severity[i.surface] = "high"
      BY <1>2, <3>2 DEF alertOf, Base, ResultsFit
    <3>4. CASE alert[i] = "high"
      BY <3>1, <3>3, <3>4
    <3>5. CASE Stores(c, k)
      <4>1. sync[c].result[k.surface] = "failed" /\ k.event = sourceEvent(c, k.surface)
        BY <3>5 DEF deliveryKey, sourceEvent
      <4>2. i = alertOf(c, i.surface)
        BY <3>2, <4>1 DEF alertOf, failureOf
      <4>3. sync[c].severity[i.surface] = "high" /\ i.surface \in Handled(c)
        BY <1>2, <3>2, <3>3, <4>1, <4>2 DEF Handled
      <4> QED
        BY <3>1, <4>2, <4>3
    <3>6. ASSUME NEW d \in Syncs, d # c, Stores(d, k) PROVE Goal
      BY <1>7, <3>6 DEF Ends, Others
    <3> QED
      BY <1>1, <3>1, <3>4, <3>5, <3>6
  <2> QED
    BY <1>7, <2>1, <2>2, <2>3 DEF Ends
<1>8. ASSUME NEW c \in Syncs, NEW pc, Continues(c, pc), sync[c].pc # "alerts",
             UNCHANGED <<alert, lost, delivery>>
      PROVE  Goal
  BY <1>3, <1>8 DEF Continues
<1>9. ASSUME NEW c \in Syncs, NEW s \in Surfaces, HandlesOne(c, s) PROVE Goal
  <2>1. Others(c) /\ sync[c].pc = "applying"
    BY <1>9, HandledFacts DEF HandlesOne
  <2> QED
    BY <1>3, <1>9, <2>1 DEF HandlesOne
<1>10. ASSUME NEW c \in Syncs, upsertDeliveries(c), Continues(c, "alerts") PROVE Goal
  <2> DEFINE s == k.surface
  <2>1. /\ UNCHANGED <<alert, lost>> /\ sync[c].pc = "deliveries"
        /\ delivery'[k] = IF s \in Handled(c) /\ k = handledKey(c, s)
                          THEN [status |-> sync[c].result[s], object |-> sync[c].on[s]]
                          ELSE delivery[k]
    BY <1>10 DEF upsertDeliveries
  <2>2. CASE s \in Handled(c) /\ k = handledKey(c, s)
    BY <1>10, <2>1, <2>2 DEF Continues, handledKey, sourceEvent
  <2>3. CASE ~(s \in Handled(c) /\ k = handledKey(c, s))
    BY <1>3, <1>10, <2>1, <2>3 DEF Continues
  <2> QED
    BY <2>2, <2>3
<1> QED
  <2>1. Elsewhere \/ \E c \in Syncs : CallStep(c)
    BY Steps
  <2> HIDE DEF Goal
  <2> QED
    BY <1>4, <1>5, <1>6, <1>7, <1>8, <1>9, <1>10, <2>1 DEF CallStep, Same, upsertBindings, Goal

LEMMA FailedHolds == OutboundSpec => []FailedAlerted
<1>1. OutboundInit => FailedAlerted
  BY DEF OutboundInit, FailedAlerted, NoDelivery
<1> QED
  BY <1>1, BaseHolds, FailedAlertedStep, PTL DEF OutboundSpec

\* A failed delivery leaves the projection drifted, except while the call that stored it
\* has still to store its alerts or when it died before.
THEOREM FailureShows == OutboundSpec => []FailureShowsInHealth
<1>1. FailedAlerted => FailureShowsInHealth
  <2> SUFFICES ASSUME FailedAlerted, projectionHealth # "drifted", ~lost,
                      NEW k \in DeliveryKey, delivery[k].status = "failed"
               PROVE  \E c \in Syncs : /\ sync[c].pc = "alerts"
                                       /\ k.surface \in Handled(c)
                                       /\ handledKey(c, k.surface) = k
    BY DEF FailureShowsInHealth
  <2>1. failureOf(k) \in AlertId /\ k.surface \in Surfaces
    BY DEF DeliveryKey, failureOf, AlertId
  <2>2. alert[failureOf(k)] # "high"
    BY <2>1 DEF projectionHealth
  <2> QED
    BY <2>1, <2>2 DEF FailedAlerted, Handled
<1> QED
  BY <1>1, FailedHolds, PTL
=============================================================================
