-------------------------- MODULE MemoryLifecycle ---------------------------
(***************************************************************************)
(* From evidence to knowledge: memory candidates are extracted from runs,  *)
(* approvals and GitHub events, promoted to knowledge memories by a        *)
(* reviewer, superseded and invalidated.                                   *)
(*                                                                         *)
(* Every endpoint reads the rows it works on, leaves the database, and     *)
(* writes what it computed from them in one transaction: between the two   *)
(* the source may move on and other calls may commit.  Ids are hashes of   *)
(* the source and the class, so that extracting or promoting again meets   *)
(* the same row.                                                           *)
(*                                                                         *)
(* What a memory says is the evidence it was extracted from.  Freshness    *)
(* and confidence, which only a retrieval looks at, are left out.          *)
(***************************************************************************)
EXTENDS FiniteSets, Naturals

CONSTANTS
  Runs,        \* runs and approvals of one company, with their work items
  Approvals,
  Inbound,     \* rows of github_inbound_events
  Callers,     \* requests in progress
  Reasons,     \* the reasons an invalidation may give
  MaxCandidates  \* bound: the candidates there may be at a time

Source == Runs \cup Approvals \cup Inbound

MemoryStatus == {"active", "expired", "superseded", "revoked", "quarantined"}

ASSUME MemoryAssumption ==
  /\ Runs \cap Approvals = {} /\ Runs \cap Inbound = {} /\ Approvals \cap Inbound = {}
  /\ Reasons \subseteq MemoryStatus \ {"active"}
  /\ MaxCandidates \in Nat

VARIABLES
  source,      \* the row of each run, approval and inbound event
  candidate,   \* memory_candidates
  memory,      \* knowledge_memories, by the id of their candidate
  edges,       \* memory_provenance_edges
  call         \* what each request has read and is about to write

vars == <<source, candidate, memory, edges, call>>

-----------------------------------------------------------------------------
(* Rows. *)

\* What the row of a source tells, if it tells anything worth keeping: a row is silent
\* when its summary and failure class, its reason or its notes are not, when an approval
\* is pending, and when an event is not recorded or of a classification of no interest.
OfRun == {"unfinished", "valid_success", "failure"}   \* unfinished: queued or running
OfApproval == {"decided"}                             \* granted or denied
OfInbound == {"accepted_intent", "authoritative_conflict"}
SourceStatus == {"silent"} \cup OfRun \cup OfApproval \cup OfInbound
\* gated: the work item of a run requires approval.
SourceRow == [status : SourceStatus, gated : BOOLEAN]

Class == {"workflow_convention", "integration_constraint", "failure_signature",
          "operator_preference"}
\* The class in an id is what stableId hashes, which need not be the class of the row.
CandidateId ==
  [source : Runs, class : {"workflow_convention", "failure_signature"}]
    \cup [source : Approvals, class : {"operator_preference"}]
    \cup [source : Inbound, class : {"operator_preference", "integration_constraint"}]
\* Mutant: the class is no part of the id.
IdOfSource(s, k) == [source |-> s, class |-> "workflow_convention"]
stableId(s, k) == [source |-> s, class |-> k]

CandidateStatus == {"none", "pending_review", "promoted", "quarantined"}
Candidate == [status : CandidateStatus, class : Class, evidence : SourceStatus]
Memory == [status : MemoryStatus \cup {"none"}, class : Class, evidence : SourceStatus]
NoRow == [status |-> "none", class |-> "workflow_convention", evidence |-> "silent"]
NoCandidate == NoRow
NoMemory == NoRow
Retired(m) == m.status \in MemoryStatus \ {"active"}

candidates == {i \in CandidateId : candidate[i] # NoCandidate}
Edge == [type : {"derived_from", "approved_by"}, to : CandidateId]

-----------------------------------------------------------------------------
(* packages/memory. *)

\* What is hashed into the id of a candidate, and its class.
Named(hashed, class) == [hashed |-> hashed, class |-> class]
Same(class) == Named(class, class)

\* The pattern of an ungated success is stored as a constraint, under the id of a
\* convention; every other run that tells something, settled or not, is a failure.
extractMemoryCandidatesFromRun(row) ==
  CASE row.status = "silent" -> {}
    [] row.status = "valid_success" ->
         {Named("workflow_convention",
                IF row.gated THEN "workflow_convention" ELSE "integration_constraint")}
    [] OTHER -> {Same("failure_signature")}

extractMemoryCandidateFromApproval(row) ==
  IF row.status = "silent" THEN {} ELSE {Same("operator_preference")}

extractMemoryCandidateFromGitHubEvent(row) ==
  CASE row.status = "silent" -> {}
    [] row.status = "accepted_intent" -> {Same("operator_preference")}
    [] OTHER -> {Same("integration_constraint")}

extracted(s, row) ==
  CASE s \in Runs -> extractMemoryCandidatesFromRun(row)
    [] s \in Approvals -> extractMemoryCandidateFromApproval(row)
    [] s \in Inbound -> extractMemoryCandidateFromGitHubEvent(row)

\* The memory of a candidate: its row, with a status of its own.
promoteMemoryCandidate(row) ==
  [row EXCEPT !.status = IF row.status = "quarantined" THEN "quarantined" ELSE "active"]

\* Mutant: a reason is stored as the status.
InvalidatedFor(reason) == "invalidated"
\* The status invalidateKnowledgeMemory gives, which is the reason's name.
invalidatedStatus(reason) == reason

\* Mutant: provenance is not stored.
KeepEdges(new) == edges
insertProvenanceEdges(new) == edges \cup new

\* An upsert rewrites a row but for its class, which it has from its first insert.
classKept(old, row) == IF old.status = "none" THEN row.class ELSE old.class

\* Whatever the status of the row has become since it was read is overwritten.
upsertKnowledgeMemory(old, row) ==
  [status |-> row.status, class |-> classKept(old, row), evidence |-> row.evidence]

\* Mutant: extracting again puts a candidate up for review again.
UpsertAnew(old, row) ==
  [status |-> row.status, class |-> classKept(old, row), evidence |-> row.evidence]
upsertMemoryCandidate(old, row) ==
  [status |-> IF old.status \in {"promoted", "rejected", "quarantined"}
              THEN old.status ELSE row.status,
   class |-> classKept(old, row), evidence |-> row.evidence]

-----------------------------------------------------------------------------
(* Requests. *)

Idle == [op |-> "idle"]

MemoryInit ==
  /\ source \in [Source -> {r \in SourceRow : r.status \in {"silent", "unfinished"}}]
  /\ \A s \in Source \ Runs : source[s] = [status |-> "silent", gated |-> FALSE]
  /\ candidate = [i \in CandidateId |-> NoCandidate]
  /\ memory = [i \in CandidateId |-> NoMemory]
  /\ edges = {}
  /\ call = [c \in Callers |-> Idle]

\* A retry is queued with a summary already; what settles a run gives it one or not, and
\* a worker or an operator that read the run before it was settled settles it again.
RunSettles(r) ==
  /\ \E status \in {"silent", "valid_success", "failure"} :
       source' = [source EXCEPT ![r].status = status]
  /\ UNCHANGED <<candidate, memory, edges, call>>

\* Grant and deny act on decided approvals too.
ApprovalDecided(a) ==
  /\ \E status \in {"silent"} \cup OfApproval :
       source' = [source EXCEPT ![a].status = status]
  /\ UNCHANGED <<candidate, memory, edges, call>>

\* A webhook is recorded, with the notes of its classification.
InboundRecorded(e) ==
  /\ source[e].status = "silent"
  /\ \E status \in OfInbound : source' = [source EXCEPT ![e].status = status]
  /\ UNCHANGED <<candidate, memory, edges, call>>

\* POST .../memory/extract, up to its transaction: nothing to extract is answered.
ReadSource(c, s) ==
  /\ call[c] = Idle
  /\ extracted(s, source[s]) # {}
  /\ call' = [call EXCEPT ![c] = [op |-> "extract", source |-> s, row |-> source[s]]]
  /\ UNCHANGED <<source, candidate, memory, edges>>

Extract(c) ==
  LET s == call[c].source
      row == call[c].row
      ids == {stableId(s, k.hashed) : k \in extracted(s, row)}
      new(k) == [status |-> "pending_review", class |-> k.class, evidence |-> row.status]
  IN  /\ call[c].op = "extract"
      /\ Cardinality(candidates \cup ids) <= MaxCandidates
      /\ \E k \in extracted(s, row) :
           candidate' = [candidate EXCEPT ![stableId(s, k.hashed)] =
                          upsertMemoryCandidate(@, new(k))]
      /\ edges' = insertProvenanceEdges({[type |-> "derived_from", to |-> i] : i \in ids})
      /\ call' = [call EXCEPT ![c] = Idle]
      /\ UNCHANGED <<source, memory>>

\* POST /memory-candidates/:candidateId/promote reads the candidate, whatever its
\* status, and checks the memory it is to supersede.
ReadCandidate(c, i) ==
  /\ call[c] = Idle
  /\ candidate[i] # NoCandidate
  /\ \E over \in {{}} \cup {{j} : j \in {j \in CandidateId \ {i} : memory[j] # NoMemory}} :
       call' = [call EXCEPT ![c] =
         [op |-> "promote", id |-> i, row |-> candidate[i], over |-> over]]
  /\ UNCHANGED <<source, candidate, memory, edges>>

Promote(c) ==
  LET i == call[c].id
      row == call[c].row
  IN  /\ call[c].op = "promote"
      /\ memory' = [j \in CandidateId |->
           IF j = i THEN upsertKnowledgeMemory(memory[i], promoteMemoryCandidate(row))
           ELSE IF j \in call[c].over
           THEN [memory[j] EXCEPT !.status = invalidatedStatus("superseded")]
           ELSE memory[j]]
      /\ candidate' = [candidate EXCEPT ![i].status =
           IF row.status = "quarantined" THEN "quarantined" ELSE "promoted"]
      /\ edges' = insertProvenanceEdges({[type |-> "approved_by", to |-> i]})
      /\ call' = [call EXCEPT ![c] = Idle]
      /\ UNCHANGED source

\* POST /memory/:memoryId/invalidate rewrites the row it has read.
ReadMemory(c, i) ==
  /\ call[c] = Idle
  /\ memory[i] # NoMemory
  /\ \E reason \in Reasons :
       call' = [call EXCEPT ![c] =
         [op |-> "invalidate", id |-> i, row |-> memory[i], reason |-> reason]]
  /\ UNCHANGED <<source, candidate, memory, edges>>

Invalidate(c) ==
  /\ call[c].op = "invalidate"
  /\ memory' = [memory EXCEPT ![call[c].id] = upsertKnowledgeMemory(
       @, [call[c].row EXCEPT !.status = invalidatedStatus(call[c].reason)])]
  /\ call' = [call EXCEPT ![c] = Idle]
  /\ UNCHANGED <<source, candidate, edges>>

\* The transaction is rolled back, or the process dies.
Rollback(c) ==
  /\ call[c] # Idle
  /\ call' = [call EXCEPT ![c] = Idle]
  /\ UNCHANGED <<source, candidate, memory, edges>>

MemoryNext ==
  \/ \E r \in Runs : RunSettles(r)
  \/ \E a \in Approvals : ApprovalDecided(a)
  \/ \E e \in Inbound : InboundRecorded(e)
  \/ \E c \in Callers :
       \/ \E s \in Source : ReadSource(c, s)
       \/ Extract(c)
       \/ \E i \in CandidateId : ReadCandidate(c, i) \/ ReadMemory(c, i)
       \/ Promote(c)
       \/ Invalidate(c)
       \/ Rollback(c)

MemorySpec == MemoryInit /\ [][MemoryNext]_vars

-----------------------------------------------------------------------------
(* Properties. *)

Call ==
  {Idle}
    \cup [op : {"extract"}, source : Source, row : SourceRow]
    \cup [op : {"promote"}, id : CandidateId, row : Candidate, over : SUBSET CandidateId]
    \cup [op : {"invalidate"}, id : CandidateId, row : Memory, reason : Reasons]

\* Type invariant of the rows and of what a request has read.
MemoryTypeOK ==
  /\ source \in [Source -> SourceRow]
  /\ candidate \in [CandidateId -> Candidate]
  /\ memory \in [CandidateId -> Memory]
  /\ edges \subseteq Edge
  /\ call \in [Callers -> Call]

\* No orphaned knowledge: whatever its status, a memory leads back to the candidate
\* it was promoted from and from there to its source, by edges that are stored.
KnowledgeHasProvenance ==
  \A i \in CandidateId : memory[i] # NoMemory =>
    /\ candidate[i].status = "promoted"
    /\ [type |-> "derived_from", to |-> i] \in edges
    /\ [type |-> "approved_by", to |-> i] \in edges

\* What a row of a class may rest on.
Supports(evidence, class) ==
  CASE class = "workflow_convention" -> evidence = "valid_success"
    [] class = "integration_constraint" ->
         evidence \in {"valid_success", "authoritative_conflict"}
    [] class = "failure_signature" -> evidence = "failure"
    [] class = "operator_preference" -> evidence \in {"decided", "accepted_intent"}

\* What the code takes for a failure too soon: a run that waits to be retried.
TooSoon(row) == row.class = "failure_signature" /\ row.evidence = "unfinished"

\* However extractions and promotions overtake each other and a source that is settled
\* again with another outcome, a stored candidate or memory never speaks of success on
\* the evidence of a failure, nor the reverse, although an upsert rewrites what a row
\* says and not its class (db/memory.ts:309, :546).  The one exception is not excused by
\* this property but left out of it: a run that is not settled is stored as a failure.
ClassFitsEvidence ==
  \A i \in CandidateId : \A row \in {candidate[i], memory[i]} :
    row.status # "none" /\ ~TooSoon(row) => Supports(row.evidence, row.class)

\* The decision of a reviewer outlives every later extraction of the same source.
ReviewIsKept ==
  [][\A i \in CandidateId :
       candidate[i].status = "promoted" => candidate'[i].status = "promoted"]_vars

\* A memory that has been superseded, revoked, expired or quarantined is active again
\* only when its own candidate is promoted once more, never by a call that had read it
\* before it was retired.
RevivedOnlyByReview ==
  [][\A i \in CandidateId :
       Retired(memory[i]) /\ memory'[i].status = "active" =>
         \E c \in Callers : /\ call[c].op = "promote"
                            /\ call[c].id = i
                            /\ call'[c] = Idle]_vars

\* However extractions, promotions and invalidations overlap and write back rows that
\* others have written since, what is known changes as KnowledgeBase says: by a review
\* in progress, by one supersession with it, or by retiring it, and no review is undone.
promoted == {i \in CandidateId : candidate[i].status = "promoted"}
knownAs(i) ==
  CASE memory[i] = NoMemory -> "none"
    [] memory[i] # NoMemory /\ memory[i].status = "active" -> "active"
    [] OTHER -> "retired"
knowledgeOfAll == [i \in CandidateId |-> knownAs(i)]
promotions == [c \in Callers |-> IF call[c].op = "promote" THEN {call[c].id} ELSE {}]
Knowledge ==
  INSTANCE KnowledgeBase WITH Ids <- CandidateId, Reviewers <- Callers,
    proposed <- candidates, reviewed <- promoted, knowledge <- knowledgeOfAll,
    review <- promotions
ImplementsKnowledgeBase == Knowledge!Spec
=============================================================================
