--------------------------- MODULE GitHubOutbound ---------------------------
(***************************************************************************)
(* Projection of the runtime into GitHub.                                  *)
(*                                                                         *)
(* A call of /companies/:id/sync of the GitHub app asks the control plane  *)
(* for a plan (the latest event of each aggregate, then its row and its    *)
(* bindings), which queues one delivery per surface; it then calls GitHub  *)
(* once per surface and last posts what it learned: bindings, deliveries,  *)
(* drift alerts.  No lock covers this: two calls may overlap, a call may   *)
(* die at any step, and an answer of GitHub may be lost.  The reads of a   *)
(* plan and the upserts of its deliveries are one step here, and so are    *)
(* the upserts of each kind of result.                                     *)
(*                                                                         *)
(* A surface is one (aggregate, GitHub object type): the issue of an       *)
(* objective or work item, the comment of an approval or run, the check    *)
(* run of a run.  Titles, bodies and labels are the version of the row     *)
(* they were rendered from.                                                *)
(***************************************************************************)
EXTENDS Integers, Sequences, FiniteSets

CONSTANTS
  Aggregates,    \* objectives, work items, approvals and runs of one company
  Surfaces,      \* what is projected of them
  AggregateOf,   \* the aggregate of a surface
  Commented,     \* [comment surface -> the issue surface of its work item]
  Fallback,      \* the surfaces whose bindings tell its repository, first to last
  Position,      \* the place of a surface in a plan
  Repositories,
  Target,        \* the repositoryTarget of a surface's objective, or NoRepository
  NoRepository,
  Syncs,         \* calls of the sync endpoint that may be in progress at once
  MaxVersion,    \* bound: changes of one aggregate
  MaxChanges,    \* bound: changes of all aggregates
  MaxFaults      \* bound: crashes, refusals, lost answers and drifting records

ASSUME OutboundAssumption ==
  /\ AggregateOf \in [Surfaces -> Aggregates]
  /\ DOMAIN Commented \subseteq Surfaces
  /\ Commented \in [DOMAIN Commented -> Surfaces]
  /\ Fallback \in [Surfaces -> Seq(Surfaces)]
  /\ Position \in [Surfaces -> Nat]
  /\ \A s, t \in Surfaces : Position[s] = Position[t] => s = t
  /\ \A k \in DOMAIN Commented : Position[Commented[k]] < Position[k]
  /\ Target \in [Surfaces -> Repositories \cup {NoRepository}]
  /\ NoRepository \notin Repositories
  /\ MaxVersion \in Nat \ {0}
  /\ MaxChanges \in Nat
  /\ MaxFaults \in Nat

VARIABLES
  version,   \* of the row of an aggregate, and of its last ledger event; 0 before
  linked,    \* github_installations, by repository
  binding,   \* github_projection_bindings
  delivery,  \* github_projection_deliveries, by delivery key
  alert,     \* drift_alerts of deliveries: the severity of each open alert
  object,    \* the objects on GitHub, in order of creation
  sync,      \* what each call holds in memory
  faults,    \* faults so far
  lost,      \* whether a call ended without posting what it did on GitHub
  overlap    \* whether two calls have been in progress at once

outboundVars == <<version, linked, binding, delivery, alert, object, sync, faults,
                  lost, overlap>>

-----------------------------------------------------------------------------
(* Rows. *)

Versions == 0..MaxVersion
Repository == Repositories \cup {NoRepository}
Comments == DOMAIN Commented

\* A surface without a row has object 0, which no object has.
Binding == [object : Nat, repo : Repository, event : Versions]
Unbound == [object |-> 0, repo |-> NoRepository, event |-> 0]
IsBound(b) == b.object # 0

Action == {"create", "update"}
DeliveryKey == [surface : Surfaces, event : Versions, action : Action]
deliveryKey(s, e, a) == [surface |-> s, event |-> e, action |-> a]
DeliveryStatus == {"none", "queued", "applied", "drift_detected", "failed"}
Delivery == [status : DeliveryStatus, object : Nat]
NoDelivery == [status |-> "none", object |-> 0]
Exists(k) == delivery[k].status # "none"

Severity == {"none", "warn", "high"}   \* high: critical included
AlertId == [surface : Surfaces, event : Versions, kind : {"drift", "delivery_failure"}]

\* wrote is the version the object was last written from, by event as the sync
\* that wrote it knew it; under is the issue a comment hangs on.
Object == [surface : Surfaces, repo : Repositories, wrote : Versions, under : Nat]

Result == {"none", "applied", "drift_detected", "failed"}
Sync == [pc : {"idle", "reading", "applying", "deliveries", "alerts"},
         event : [Aggregates -> Versions], row : [Aggregates -> Versions],
         todo : SUBSET Surfaces, action : [Surfaces -> Action],
         repo : [Surfaces -> Repository], batch : Repository,
         known : [Surfaces -> Binding], result : [Surfaces -> Result],
         on : [Surfaces -> Nat], severity : [Surfaces -> Severity]]
IdleSync ==
  [pc |-> "idle", event |-> [a \in Aggregates |-> 0], row |-> [a \in Aggregates |-> 0],
   todo |-> {}, action |-> [s \in Surfaces |-> "create"],
   repo |-> [s \in Surfaces |-> NoRepository], batch |-> NoRepository,
   known |-> [s \in Surfaces |-> Unbound], result |-> [s \in Surfaces |-> "none"],
   on |-> [s \in Surfaces |-> 0], severity |-> [s \in Surfaces |-> "none"]]

\* The event a sync projects a surface for.
sourceEvent(c, s) == sync[c].event[AggregateOf[s]]

OutboundInit ==
  /\ version = [a \in Aggregates |-> 0]
  /\ linked = {}
  /\ binding = [s \in Surfaces |-> Unbound]
  /\ delivery = [k \in DeliveryKey |-> NoDelivery]
  /\ alert = [i \in AlertId |-> "none"]
  /\ object = << >>
  /\ sync = [c \in Syncs |-> IdleSync]
  /\ faults = 0
  /\ lost = FALSE
  /\ overlap = FALSE

-----------------------------------------------------------------------------
(* The runtime and the installations. *)

Changes == {v \in Aggregates \X (1 .. MaxVersion) : v[2] <= version[v[1]]}

\* A transaction of the runtime writes the row of an aggregate and its event.
Change(a) ==
  /\ version[a] < MaxVersion
  /\ Cardinality(Changes) < MaxChanges
  /\ version' = [version EXCEPT ![a] = @ + 1]
  /\ UNCHANGED <<linked, binding, delivery, alert, object, sync, faults, lost, overlap>>

linkGitHubInstallation(r) ==
  /\ linked' = linked \cup {r}
  /\ UNCHANGED <<version, binding, delivery, alert, object, sync, faults, lost, overlap>>

-----------------------------------------------------------------------------
(* The plan. *)

listDomainEvents(c) ==
  /\ sync[c].pc = "idle"
  /\ sync' = [sync EXCEPT ![c] = [IdleSync EXCEPT !.pc = "reading", !.event = version]]
  /\ overlap' = (overlap \/ \E d \in Syncs \ {c} : sync[d].pc # "idle")
  /\ UNCHANGED <<version, linked, binding, delivery, alert, object, faults, lost>>

\* Mutant: the rows are read when the events were, and the events last.
rowsThenEvents(c) == [event |-> version, row |-> sync[c].event]
\* The events were read first; the rows are read now.
eventsThenRows(c) == [event |-> sync[c].event, row |-> version]
mapLatestEventIds(c) == eventsThenRows(c).event

findBinding(s) == binding[s]

resolveRepository(s) ==
  LET bound == SelectSeq(Fallback[s], LAMBDA u : IsBound(findBinding(u)))
  IN  IF Target[s] # NoRepository THEN Target[s]
      ELSE IF bound # << >> THEN findBinding(Head(bound)).repo
      ELSE IF Cardinality(linked) = 1 THEN CHOOSE r \in linked : TRUE
      ELSE NoRepository

\* The plan has the surfaces of the rows it read.
Planned(c) == {s \in Surfaces : eventsThenRows(c).row[AggregateOf[s]] > 0}
actionFor(s) == IF IsBound(findBinding(s)) THEN "update" ELSE "create"
plannedKey(c, s) == deliveryKey(s, mapLatestEventIds(c)[AggregateOf[s]], actionFor(s))

\* The id of a delivery does not hold its action, its key does; the id is the
\* primary key and on conflict names the other.
DuplicateId(c, s) ==
  /\ ~Exists(plannedKey(c, s))
  /\ \E a \in Action : Exists([plannedKey(c, s) EXCEPT !.action = a])

Queue(c, S) ==
  delivery' = [k \in DeliveryKey |->
                IF \E s \in S : k = plannedKey(c, s)
                THEN [status |-> "queued", object |-> 0] ELSE delivery[k]]

\* queueGitHubSyncPlanForCompany, when there is an installation, every surface has
\* a linked repository and no delivery is refused.
PlanAccepted(c) ==
  /\ sync[c].pc = "reading"
  /\ linked # {}
  /\ \A s \in Planned(c) : resolveRepository(s) \in linked /\ ~DuplicateId(c, s)
  /\ Queue(c, Planned(c))
  /\ sync' = [sync EXCEPT ![c] =
       [@ EXCEPT !.pc = "applying", !.event = mapLatestEventIds(c),
                 !.row = eventsThenRows(c).row,
                 !.todo = Planned(c), !.action = [s \in Surfaces |-> actionFor(s)],
                 !.repo = [s \in Surfaces |-> IF s \in Planned(c) THEN resolveRepository(s)
                                              ELSE NoRepository],
                 !.known = [s \in Surfaces |-> findBinding(s)]]]
  /\ UNCHANGED <<version, linked, binding, alert, object, faults, lost, overlap>>

\* The plan is refused: there is no installation or a surface has no repository
\* (before anything is queued), a delivery violates the primary key (after the ones
\* before it are queued), or a repository is not linked (after all are).
PlanRefused(c) ==
  LET refused == {s \in Planned(c) : DuplicateId(c, s)}
      nowhere == {s \in Planned(c) : resolveRepository(s) = NoRepository}
  IN  /\ sync[c].pc = "reading"
      /\ \/ (linked = {} \/ nowhere # {}) /\ Queue(c, {})
         \/ /\ linked # {} /\ nowhere = {}
            /\ \E s \in refused :
                 /\ \A t \in refused : Position[s] <= Position[t]
                 /\ Queue(c, {t \in Planned(c) : Position[t] < Position[s]})
         \/ /\ linked # {} /\ nowhere = {} /\ refused = {}
            /\ \E s \in Planned(c) : resolveRepository(s) \notin linked
            /\ Queue(c, Planned(c))
      /\ sync' = [sync EXCEPT ![c] = IdleSync]
      /\ UNCHANGED <<version, linked, binding, alert, object, faults, lost, overlap>>

-----------------------------------------------------------------------------
(* The calls of GitHub. *)

Todo(c) == {s \in sync[c].todo : sync[c].repo[s] = sync[c].batch}
Handled(c) == {s \in Surfaces : sync[c].result[s] # "none"}

\* The batch of the next installation, with the token for it.
requestGitHubInstallationAccessToken(c, r) ==
  /\ sync[c].pc = "applying"
  /\ Todo(c) = {}
  /\ \E s \in sync[c].todo : sync[c].repo[s] = r
  /\ sync' = [sync EXCEPT ![c].batch = r]
  /\ UNCHANGED <<version, linked, binding, delivery, alert, object, faults, lost, overlap>>

\* The binding of a surface in the bindings of the batch.
inBatch(c, s) ==
  IF sync[c].known[s].repo = sync[c].batch THEN sync[c].known[s] ELSE Unbound

parentIssueBinding(c, s) == inBatch(c, Commented[s])

\* Mutant: a comment is created whether or not its issue is bound.
parentUnchecked(c, s) == TRUE
parentBound(c, s) == s \in Comments => IsBound(parentIssueBinding(c, s))

IsNext(c, s) == s \in Todo(c) /\ \A t \in Todo(c) : Position[s] <= Position[t]

\* What a call of applyGitHubSyncPlan keeps of one surface.
Keep(c, s, result, b, n, severity) ==
  sync' = [sync EXCEPT ![c] =
    [@ EXCEPT !.todo = sync[c].todo \ {s}, !.result[s] = result, !.known[s] = b,
              !.on[s] = n, !.severity[s] = severity]]

\* Mutant: the binding of a created object is not kept.
ForgetBinding(c, s, n) == sync[c].known[s]
\* Mutant: the binding of a comment takes the number of the issue it was put on.
BindToParent(c, s, n) ==
  [object |-> IF s \in Comments THEN parentIssueBinding(c, s).object ELSE n,
   repo |-> sync[c].batch, event |-> sourceEvent(c, s)]
\* toIssueBinding, toCommentBinding, toCheckRunBinding.
toBinding(c, s, n) ==
  [object |-> n, repo |-> sync[c].batch, event |-> sourceEvent(c, s)]

\* How bad drift can be: labels that differ are worth a warning (and so is some of what
\* differs in a check run), a comment that differs is always more.
detectIssueDrift == {"warn", "high"}
detectCommentDrift == {"high"}
detectDrift(s) == IF s \in Comments THEN detectCommentDrift ELSE detectIssueDrift

\* The record GitHub answers with matches the projection, or drift is detected.
Detected(c, s, n) ==
  \/ Keep(c, s, "applied", toBinding(c, s, n), n, "none") /\ UNCHANGED faults
  \/ /\ faults < MaxFaults
     /\ faults' = faults + 1
     /\ \E severity \in detectDrift(s) :
          Keep(c, s, "drift_detected", toBinding(c, s, n), n, severity)
\* Mutants: a call that throws opens no alert, or an alert of a severity nothing reads.
FailedQuietly(c, s) ==
  /\ faults < MaxFaults
  /\ faults' = faults + 1
  /\ Keep(c, s, "failed", sync[c].known[s], 0, "none")
FailedCritically(c, s) ==
  /\ faults < MaxFaults
  /\ faults' = faults + 1
  /\ Keep(c, s, "failed", sync[c].known[s], 0, "fatal")
\* The call throws, whether or not GitHub did it.
Failed(c, s) ==
  /\ faults < MaxFaults
  /\ faults' = faults + 1
  /\ Keep(c, s, "failed", sync[c].known[s], 0, "high")

\* Titles, bodies, labels and the state of a check run: the version of the row.
rendered(c, s) == sync[c].row[AggregateOf[s]]
projection(c, s, under) ==
  [surface |-> s, repo |-> sync[c].batch, wrote |-> rendered(c, s), under |-> under]

\* POST and PATCH of the transport.
post(o) == object' = Append(object, o)
patch(n, o) == object' = [object EXCEPT ![n] = o]

\* createIssue, createComment or createCheckRun.
Create(c, s) ==
  LET n == Len(object) + 1
      under == IF s \in Comments THEN parentIssueBinding(c, s).object ELSE 0
      creates == post(projection(c, s, under))
  IN  /\ IsNext(c, s)
      /\ sync[c].action[s] = "create"
      /\ parentBound(c, s)
      /\ \/ creates /\ Detected(c, s, n) /\ UNCHANGED lost
         \/ creates /\ Failed(c, s) /\ lost' = TRUE
         \/ UNCHANGED <<object, lost>> /\ Failed(c, s)
      /\ UNCHANGED <<version, linked, binding, delivery, alert, overlap>>

\* updateIssue, updateComment or updateCheckRun.
Update(c, s) ==
  LET n == inBatch(c, s).object
      writes == patch(n, projection(c, s, object[n].under))
  IN  /\ IsNext(c, s)
      /\ sync[c].action[s] = "update"
      /\ n # 0
      /\ \/ writes /\ Detected(c, s, n)
         \/ writes /\ Failed(c, s)
         \/ UNCHANGED object /\ Failed(c, s)
      /\ UNCHANGED <<version, linked, binding, delivery, alert, lost, overlap>>

\* A comment whose parent issue is not bound, or an update of what is not.
FailClosed(c, s) ==
  /\ IsNext(c, s)
  /\ IF sync[c].action[s] = "create"
     THEN ~parentBound(c, s)
     ELSE ~IsBound(inBatch(c, s))
  /\ Keep(c, s, "failed", sync[c].known[s], 0, "high")
  /\ UNCHANGED <<version, linked, binding, delivery, alert, object, faults, lost, overlap>>

-----------------------------------------------------------------------------
(* The results, one statement after another. *)

\* The bindings of every batch, the ones it left as it read them included.
Posted(c) == {s \in Surfaces : /\ IsBound(sync[c].known[s])
                               /\ \E t \in Handled(c) : sync[c].repo[t] = sync[c].known[s].repo}

upsertBindings(c) ==
  /\ sync[c].pc = "applying"
  /\ sync[c].todo = {}
  /\ binding' = [s \in Surfaces |-> IF s \in Posted(c) THEN sync[c].known[s] ELSE binding[s]]
  /\ sync' = [sync EXCEPT ![c].pc = "deliveries"]
  /\ UNCHANGED <<version, linked, delivery, alert, object, faults, lost, overlap>>

handledKey(c, s) == deliveryKey(s, sourceEvent(c, s), sync[c].action[s])

upsertDeliveries(c) ==
  /\ sync[c].pc = "deliveries"
  /\ delivery' = [k \in DeliveryKey |->
       IF k.surface \in Handled(c) /\ k = handledKey(c, k.surface)
       THEN [status |-> sync[c].result[k.surface], object |-> sync[c].on[k.surface]]
       ELSE delivery[k]]
  /\ sync' = [sync EXCEPT ![c].pc = "alerts"]
  /\ UNCHANGED <<version, linked, binding, alert, object, faults, lost, overlap>>

\* createDriftAlert: its id is the delivery's with what went wrong.
alertOf(c, s) ==
  [surface |-> s, event |-> sourceEvent(c, s),
   kind |-> IF sync[c].result[s] = "failed" THEN "delivery_failure" ELSE "drift"]

upsertDriftAlerts(c) ==
  LET raised == {s \in Handled(c) : sync[c].severity[s] # "none"}
  IN  /\ sync[c].pc = "alerts"
      /\ alert' = [i \in AlertId |->
           IF i.surface \in raised /\ i = alertOf(c, i.surface)
           THEN sync[c].severity[i.surface] ELSE alert[i]]
      /\ sync' = [sync EXCEPT ![c] = IdleSync]
      /\ UNCHANGED <<version, linked, binding, delivery, object, faults, lost, overlap>>

\* deriveProjectionHealth: no alert is ever marked repaired, so every alert is open.
projectionHealth ==
  IF \E i \in AlertId : alert[i] = "high" THEN "drifted"
  ELSE IF \E k \in DeliveryKey : delivery[k].status = "failed" THEN "lagging"
  ELSE "healthy"

\* The GitHub app or the control plane dies, a token is refused, or the results
\* cannot be posted: what the call holds is gone.
Abort(c) ==
  /\ sync[c].pc # "idle"
  /\ faults < MaxFaults
  /\ faults' = faults + 1
  /\ lost' = (lost \/ Handled(c) # {})
  /\ sync' = [sync EXCEPT ![c] = IdleSync]
  /\ UNCHANGED <<version, linked, binding, delivery, alert, object, overlap>>

OutboundNext ==
  \/ \E a \in Aggregates : Change(a)
  \/ \E r \in Repositories : linkGitHubInstallation(r)
  \/ \E c \in Syncs :
       \/ listDomainEvents(c)
       \/ PlanAccepted(c)
       \/ PlanRefused(c)
       \/ \E r \in Repositories : requestGitHubInstallationAccessToken(c, r)
       \/ \E s \in Surfaces : Create(c, s) \/ Update(c, s) \/ FailClosed(c, s)
       \/ upsertBindings(c)
       \/ upsertDeliveries(c)
       \/ upsertDriftAlerts(c)
       \/ Abort(c)

OutboundSpec == OutboundInit /\ [][OutboundNext]_outboundVars

-----------------------------------------------------------------------------
(* Properties. *)

\* Type invariant of the tables, of GitHub and of what a sync call holds.
OutboundTypeOK ==
  /\ version \in [Aggregates -> Versions]
  /\ linked \subseteq Repositories
  /\ binding \in [Surfaces -> Binding]
  /\ delivery \in [DeliveryKey -> Delivery]
  /\ alert \in [AlertId -> Severity]
  /\ object \in Seq(Object)
  /\ sync \in [Syncs -> Sync]
  /\ faults \in 0..MaxFaults
  /\ lost \in BOOLEAN
  /\ overlap \in BOOLEAN

\* The object of a binding is the one that was made for its surface, in its
\* repository.
Names(b, s) ==
  IsBound(b) => /\ b.object \in DOMAIN object
                /\ object[b.object].surface = s
                /\ object[b.object].repo = b.repo

\* Whatever calls overlap, die or lose their answers, a binding stored by the
\* control plane or held by a call leads to the object of its own surface, so an
\* update never overwrites the issue, comment or check run of another aggregate.
BindingsNameTheirObject ==
  \A s \in Surfaces :
    /\ Names(binding[s], s)
    /\ \A c \in Syncs : sync[c].pc # "idle" => Names(sync[c].known[s], s)

\* Every comment hangs on an issue of the work item it belongs to, in the same
\* repository, also when that issue was made by an earlier item of the same plan.
CommentsUnderTheirIssue ==
  \A n \in DOMAIN object :
    object[n].surface \in Comments =>
      /\ object[n].under \in DOMAIN object
      /\ object[object[n].under].surface = Commented[object[n].surface]
      /\ object[object[n].under].repo = object[n].repo

\* A surface has two objects on GitHub only if two calls overlapped or a call
\* ended without posting what it did: the bindings make repeated calls idempotent.
OneObjectPerSurface ==
  ~overlap /\ ~lost =>
    \A m \in DOMAIN object, n \in DOMAIN object :
      object[m].surface = object[n].surface => m = n

\* As long as calls do not overlap, a delivery that says applied for an event has
\* its object on GitHub, showing that event or a later one.
AppliedMeansShown ==
  \A k \in DeliveryKey :
    delivery[k].status = "applied" =>
      /\ delivery[k].object \in DOMAIN object
      /\ object[delivery[k].object].surface = k.surface
      /\ ~overlap => object[delivery[k].object].wrote >= k.event

\* A delivery that failed leaves the projection drifted, not merely lagging, except
\* while the call that stored it has still to store its alerts or when it died
\* before: health is sticky, because nothing closes an alert.
FailureShowsInHealth ==
  projectionHealth # "drifted" /\ ~lost =>
    \A k \in DeliveryKey : delivery[k].status = "failed" =>
      \E c \in Syncs : /\ sync[c].pc = "alerts"
                       /\ k.surface \in Handled(c)
                       /\ handledKey(c, k.surface) = k

-----------------------------------------------------------------------------
(* What the documents state and the code does not do. *)

\* docs/github-backbone/outbound-github-synchronization.md:5 and :44: repeated
\* processing is idempotent; here: a plan is never refused because a delivery for the
\* same event was queued before.
ResyncIsAccepted ==
  \A c \in Syncs : sync[c].pc = "reading" =>
    \A s \in Planned(c) : ~DuplicateId(c, s)
=============================================================================
