---------------------------- MODULE MemoryProofs ----------------------------
(***************************************************************************)
(* What the properties of MemoryLifecycle say, for any number of sources   *)
(* and requests.                                                           *)
(*                                                                         *)
(* A request works on rows as they were when it read them.  What it has    *)
(* read stays true enough: rows are never removed, provenance is never     *)
(* removed, and a row speaks of its class whenever it was read.            *)
(***************************************************************************)
EXTENDS MemoryLifecycle, TLAPS

\* What the row of a source may say depends on the kind of source.
Fits(s, row) ==
  /\ s \in Runs => row.status \in {"silent"} \cup OfRun
  /\ s \in Approvals => row.status \in {"silent"} \cup OfApproval
  /\ s \in Inbound => row.status \in {"silent"} \cup OfInbound

SourcesFit == \A s \in Source : Fits(s, source[s])

\* What a row with an id may be of, and rest on.
ClassFits(i, class) ==
  \/ i.class = "workflow_convention" /\ class \in {i.class, "integration_constraint"}
  \/ i.class # "workflow_convention" /\ class = i.class
EvidenceOf(i, evidence) ==
  \/ i.class = "workflow_convention" /\ evidence = "valid_success"
  \/ i.class = "failure_signature" /\ evidence \in {"unfinished", "failure"}
  \/ i.class = "operator_preference" /\ evidence \in {"decided", "accepted_intent"}
  \/ i.class = "integration_constraint" /\ evidence = "authoritative_conflict"
RowFits(i, row) == ClassFits(i, row.class) /\ EvidenceOf(i, row.evidence)

RowsFit ==
  \A i \in CandidateId :
    /\ candidate[i] # NoCandidate => RowFits(i, candidate[i])
    /\ memory[i] # NoMemory => memory[i].status # "none" /\ RowFits(i, memory[i])

DerivedFrom(i) == [type |-> "derived_from", to |-> i]
ApprovedBy(i) == [type |-> "approved_by", to |-> i]

\* A candidate that is there was extracted; nothing quarantines one.
CandidatesFit ==
  \A i \in CandidateId : candidate[i] # NoCandidate =>
    /\ candidate[i].status \in {"pending_review", "promoted"}
    /\ DerivedFrom(i) \in edges

\* What a request is about to write.
ExtractFits(q) ==
  q.op = "extract" => q.source \in Source /\ q.row \in SourceRow /\ Fits(q.source, q.row)
PromoteFits(q) ==
  q.op = "promote" =>
    /\ q.id \in CandidateId
    /\ candidate[q.id] # NoCandidate
    /\ q.row.status \in {"pending_review", "promoted"}
    /\ q.row \in Candidate
    /\ RowFits(q.id, q.row)
    /\ \A j \in q.over : j \in CandidateId => memory[j] # NoMemory
    /\ q.over \in {{}} \cup {{j} : j \in CandidateId \ {q.id}}
InvalidateFits(q) ==
  q.op = "invalidate" =>
    /\ q.id \in CandidateId
    /\ memory[q.id] # NoMemory
    /\ q.row \in Memory
    /\ RowFits(q.id, q.row)
    /\ q.reason \in Reasons
CallsFit ==
  \A c \in Callers : ExtractFits(call[c]) /\ PromoteFits(call[c]) /\ InvalidateFits(call[c])

Inv == /\ MemoryTypeOK
       /\ SourcesFit
       /\ CandidatesFit
       /\ CallsFit
       /\ KnowledgeHasProvenance
       /\ RowsFit

-----------------------------------------------------------------------------

\* Whatever is extracted has an id, and the class and the evidence of that id.
LEMMA ExtractedFits ==
  ASSUME NEW s \in Source, NEW row \in SourceRow, Fits(s, row), NEW k \in extracted(s, row)
  PROVE  /\ stableId(s, k.hashed) \in CandidateId /\ k.class \in Class
         /\ ClassFits(stableId(s, k.hashed), k.class)
         /\ EvidenceOf(stableId(s, k.hashed), row.status)
<1> USE DEF Same, Named, stableId
<1>1. CASE s \in Runs
  <2>1. k \in extractMemoryCandidatesFromRun(row)
    BY <1>1, MemoryAssumption DEF extracted
  <2>2. \/ /\ k.hashed = "workflow_convention" /\ row.status = "valid_success"
           /\ k.class \in {"workflow_convention", "integration_constraint"}
        \/ /\ k = Same("failure_signature")
           /\ row.status \notin {"silent", "valid_success"}
    BY <2>1 DEF extractMemoryCandidatesFromRun
  <2> QED
    BY <1>1, <2>2 DEF Fits, OfRun, Class, CandidateId, ClassFits, EvidenceOf
<1>2. CASE s \in Approvals
  <2>1. k \in extractMemoryCandidateFromApproval(row)
    BY <1>2, MemoryAssumption DEF extracted
  <2>2. k = Same("operator_preference") /\ row.status # "silent"
    BY <2>1 DEF extractMemoryCandidateFromApproval
  <2> QED
    BY <1>2, <2>2 DEF Fits, OfApproval, Class, CandidateId, ClassFits, EvidenceOf
<1>3. CASE s \in Inbound
  <2>1. k \in extractMemoryCandidateFromGitHubEvent(row)
    BY <1>3, MemoryAssumption DEF extracted
  <2>2. \/ k = Same("operator_preference") /\ row.status = "accepted_intent"
        \/ /\ k = Same("integration_constraint")
           /\ row.status \notin {"silent", "accepted_intent"}
    BY <2>1 DEF extractMemoryCandidateFromGitHubEvent
  <2> QED
    BY <1>3, <2>2 DEF Fits, OfInbound, Class, CandidateId, ClassFits, EvidenceOf
<1> QED
  BY <1>1, <1>2, <1>3 DEF Source

\* An upsert keeps the class a row has, and with its id any evidence that comes fits it.
LEMMA UpsertFits ==
  ASSUME NEW i, NEW old, NEW row, RowFits(i, row), old # NoRow => RowFits(i, old),
         old.status = "none" => old = NoRow
  PROVE  ClassFits(i, classKept(old, row)) /\ EvidenceOf(i, row.evidence)
BY DEF RowFits, classKept, NoRow

\* A request that starts or ends changes no row.
LEMMA CallChanges ==
  ASSUME Inv, NEW c \in Callers, NEW q \in Call,
         ExtractFits(q), PromoteFits(q), InvalidateFits(q),
         call' = [call EXCEPT ![c] = q], UNCHANGED <<source, candidate, memory, edges>>
  PROVE  Inv'
<1>1. /\ call' \in [Callers -> Call] /\ call'[c] = q
      /\ \A d \in Callers : d # c => call'[d] = call[d]
  BY DEF Inv, MemoryTypeOK
<1>2. MemoryTypeOK'
  BY <1>1 DEF Inv, MemoryTypeOK
<1>3. CallsFit'
  BY <1>1 DEF Inv, CallsFit, ExtractFits, PromoteFits, InvalidateFits
<1> QED
  BY <1>2, <1>3 DEF Inv, SourcesFit, CandidatesFit, KnowledgeHasProvenance, RowsFit

LEMMA IdleFits == Idle \in Call /\ ExtractFits(Idle) /\ PromoteFits(Idle) /\ InvalidateFits(Idle)
BY DEF Idle, Call, ExtractFits, PromoteFits, InvalidateFits

\* A source that moves on leaves everything else alone.
LEMMA SourceChanges ==
  ASSUME Inv, NEW s \in Source, NEW status \in SourceStatus, Fits(s, [status |-> status]),
         source' = [source EXCEPT ![s].status = status], UNCHANGED <<candidate, memory, edges, call>>
  PROVE  Inv'
<1>1. /\ source' \in [Source -> SourceRow] /\ source'[s].status = status
      /\ \A t \in Source : t # s => source'[t] = source[t]
  BY DEF Inv, MemoryTypeOK, SourceRow
<1>2. SourcesFit'
  BY <1>1 DEF Inv, SourcesFit, Fits
<1> QED
  BY <1>1, <1>2 DEF Inv, MemoryTypeOK, CandidatesFit, CallsFit, ExtractFits, PromoteFits,
                    InvalidateFits, KnowledgeHasProvenance, RowsFit

LEMMA Sources_Inv ==
  ASSUME Inv,
         \/ \E r \in Runs : RunSettles(r)
         \/ \E a \in Approvals : ApprovalDecided(a)
         \/ \E e \in Inbound : InboundRecorded(e)
  PROVE  Inv'
<1>1. ASSUME NEW r \in Runs, RunSettles(r) PROVE Inv'
  <2>1. PICK status \in {"silent", "valid_success", "failure"} :
          source' = [source EXCEPT ![r].status = status]
    BY <1>1 DEF RunSettles
  <2>2. r \in Source /\ status \in SourceStatus /\ Fits(r, [status |-> status])
    BY MemoryAssumption DEF Source, SourceStatus, OfRun, Fits
  <2> QED
    BY <1>1, <2>1, <2>2, SourceChanges DEF RunSettles
<1>2. ASSUME NEW a \in Approvals, ApprovalDecided(a) PROVE Inv'
  <2>1. PICK status \in {"silent"} \cup OfApproval :
          source' = [source EXCEPT ![a].status = status]
    BY <1>2 DEF ApprovalDecided
  <2>2. a \in Source /\ status \in SourceStatus /\ Fits(a, [status |-> status])
    BY MemoryAssumption DEF Source, SourceStatus, Fits
  <2> QED
    BY <1>2, <2>1, <2>2, SourceChanges DEF ApprovalDecided
<1>3. ASSUME NEW e \in Inbound, InboundRecorded(e) PROVE Inv'
  <2>1. PICK status \in OfInbound : source' = [source EXCEPT ![e].status = status]
    BY <1>3 DEF InboundRecorded
  <2>2. e \in Source /\ status \in SourceStatus /\ Fits(e, [status |-> status])
    BY MemoryAssumption DEF Source, SourceStatus, Fits
  <2> QED
    BY <1>3, <2>1, <2>2, SourceChanges DEF InboundRecorded
<1> QED
  BY <1>1, <1>2, <1>3

LEMMA ReadSource_Inv ==
  ASSUME Inv, NEW c \in Callers, NEW s \in Source, ReadSource(c, s)
  PROVE  Inv'
<1> DEFINE q == [op |-> "extract", source |-> s, row |-> source[s]]
<1>1. q \in Call
  BY DEF Inv, MemoryTypeOK, Call
<1>2. ExtractFits(q) /\ PromoteFits(q) /\ InvalidateFits(q)
  BY DEF Inv, MemoryTypeOK, SourcesFit, ExtractFits, PromoteFits, InvalidateFits
<1> QED
  BY <1>1, <1>2, CallChanges DEF ReadSource

LEMMA ReadCandidate_Inv ==
  ASSUME Inv, NEW c \in Callers, NEW i \in CandidateId, ReadCandidate(c, i)
  PROVE  Inv'
<1>1. PICK over \in {{}} \cup {{j} : j \in {j \in CandidateId \ {i} : memory[j] # NoMemory}} :
        call' = [call EXCEPT ![c] =
          [op |-> "promote", id |-> i, row |-> candidate[i], over |-> over]]
  BY DEF ReadCandidate
<1> DEFINE q == [op |-> "promote", id |-> i, row |-> candidate[i], over |-> over]
<1>2. /\ over \in SUBSET CandidateId /\ \A j \in over : memory[j] # NoMemory
      /\ over \in {{}} \cup {{j} : j \in CandidateId \ {i}}
  OBVIOUS
<1>3. candidate[i] \in Candidate /\ candidate[i] # NoCandidate
  BY DEF ReadCandidate, Inv, MemoryTypeOK
<1>4. q \in Call
  BY <1>2, <1>3 DEF Call
<1>5. PromoteFits(q)
  BY <1>2, <1>3 DEF PromoteFits, Inv, CandidatesFit, RowsFit
<1>6. ExtractFits(q) /\ InvalidateFits(q)
  BY DEF ExtractFits, InvalidateFits
<1> QED
  BY <1>1, <1>4, <1>5, <1>6, CallChanges DEF ReadCandidate

LEMMA ReadMemory_Inv ==
  ASSUME Inv, NEW c \in Callers, NEW i \in CandidateId, ReadMemory(c, i)
  PROVE  Inv'
<1>1. PICK reason \in Reasons :
        call' = [call EXCEPT ![c] =
          [op |-> "invalidate", id |-> i, row |-> memory[i], reason |-> reason]]
  BY DEF ReadMemory
<1> DEFINE q == [op |-> "invalidate", id |-> i, row |-> memory[i], reason |-> reason]
<1>2. memory[i] \in Memory /\ memory[i] # NoMemory
  BY DEF ReadMemory, Inv, MemoryTypeOK
<1>3. q \in Call
  BY <1>2 DEF Call
<1>4. ExtractFits(q) /\ PromoteFits(q) /\ InvalidateFits(q)
  BY <1>2 DEF ExtractFits, PromoteFits, InvalidateFits, Inv, RowsFit
<1> QED
  BY <1>1, <1>3, <1>4, CallChanges DEF ReadMemory

LEMMA Rollback_Inv ==
  ASSUME Inv, NEW c \in Callers, Rollback(c)
  PROVE  Inv'
BY IdleFits, CallChanges DEF Rollback

LEMMA Extract_Inv ==
  ASSUME Inv, NEW c \in Callers, Extract(c)
  PROVE  Inv'
<1> DEFINE s == call[c].source
           row == call[c].row
           ids == {stableId(s, k.hashed) : k \in extracted(s, row)}
           Proposed(k) == [status |-> "pending_review", class |-> k.class,
                           evidence |-> row.status]
<1>1. s \in Source /\ row \in SourceRow /\ Fits(s, row)
  BY DEF Extract, Inv, CallsFit, ExtractFits
<1>2. PICK k \in extracted(s, row) :
        candidate' = [candidate EXCEPT ![stableId(s, k.hashed)] =
                       upsertMemoryCandidate(@, Proposed(k))]
  BY DEF Extract
<1> DEFINE i == stableId(s, k.hashed)
           new == Proposed(k)
<1>3. /\ ids \subseteq CandidateId /\ i \in ids
      /\ new \in Candidate /\ new.status = "pending_review" /\ RowFits(i, new)
  BY <1>1, ExtractedFits DEF RowFits, Candidate, CandidateStatus, SourceRow
<1>4. edges' = edges \cup {DerivedFrom(j) : j \in ids}
  BY DEF Extract, insertProvenanceEdges, DerivedFrom
<1>5. call' = [call EXCEPT ![c] = Idle] /\ UNCHANGED <<source, memory>>
  BY DEF Extract
<1>6. candidate' = [candidate EXCEPT ![i] = upsertMemoryCandidate(@, new)]
  BY <1>2
<1> HIDE DEF s, row, ids, i, new, Proposed
<1>7. /\ call' \in [Callers -> Call] /\ call'[c] = Idle
      /\ \A d \in Callers : d # c => call'[d] = call[d]
  BY <1>5, IdleFits DEF Inv, MemoryTypeOK
<1>8. ASSUME NEW j \in CandidateId
      PROVE  /\ candidate'[j] \in Candidate
             /\ candidate[j] # NoCandidate => candidate'[j] # NoCandidate
             /\ candidate[j].status = "promoted" => candidate'[j].status = "promoted"
             /\ candidate'[j] # NoCandidate =>
                  /\ candidate'[j].status \in {"pending_review", "promoted"}
                  /\ DerivedFrom(j) \in edges'
                  /\ RowFits(j, candidate'[j])
  <2>1. candidate[j] \in Candidate /\ candidate \in [CandidateId -> Candidate]
    BY DEF Inv, MemoryTypeOK
  <2>2. CASE j = i
    <3>1. candidate'[j] = upsertMemoryCandidate(candidate[j], new)
      BY <1>6, <2>1, <2>2
    <3>2. /\ candidate[j] # NoCandidate =>
                candidate[j].status \in {"pending_review", "promoted"} /\ RowFits(j, candidate[j])
          /\ candidate[j].status = "none" => candidate[j] = NoRow
      BY <2>1 DEF Inv, CandidatesFit, RowsFit, NoCandidate
    <3>3. classKept(candidate[j], new) \in Class
      BY <1>3, <2>1 DEF classKept, Candidate
    <3>4. /\ candidate'[j] \in Candidate
          /\ candidate'[j].class = classKept(candidate[j], new)
          /\ candidate'[j].evidence = new.evidence
          /\ candidate'[j].status \in {"pending_review", "promoted"}
          /\ candidate[j].status = "promoted" => candidate'[j].status = "promoted"
      BY <1>3, <3>1, <3>2, <3>3
         DEF upsertMemoryCandidate, Candidate, CandidateStatus, NoCandidate, NoRow
    <3>5. RowFits(j, candidate'[j])
      BY <1>3, <2>2, <3>2, <3>4, UpsertFits DEF RowFits, NoCandidate
    <3>6. DerivedFrom(j) \in edges'
      BY <1>3, <1>4, <2>2
    <3> QED
      BY <3>4, <3>5, <3>6 DEF NoCandidate, NoRow
  <2>3. CASE j # i
    BY <1>4, <1>6, <2>1, <2>3 DEF Inv, CandidatesFit, RowsFit
  <2> QED
    BY <2>2, <2>3
<1>9. MemoryTypeOK'
  <2>1. edges' \subseteq Edge
    BY <1>3, <1>4 DEF Inv, MemoryTypeOK, Edge, DerivedFrom
  <2>2. candidate' \in [CandidateId -> Candidate]
    BY <1>6, <1>8 DEF Inv, MemoryTypeOK
  <2> QED
    BY <1>5, <1>7, <2>1, <2>2 DEF Inv, MemoryTypeOK
<1>10. CandidatesFit'
  BY <1>8 DEF CandidatesFit
<1>11. CallsFit'
  <2>1. ExtractFits(Idle)' /\ PromoteFits(Idle)' /\ InvalidateFits(Idle)'
    BY DEF Idle, ExtractFits, PromoteFits, InvalidateFits
  <2>2. ASSUME NEW d \in Callers, d # c
        PROVE  (ExtractFits(call[d]) /\ PromoteFits(call[d]) /\ InvalidateFits(call[d]))'
    BY <1>5, <1>7, <1>8, <2>2 DEF Inv, CallsFit, ExtractFits, PromoteFits, InvalidateFits
  <2> QED
    BY <1>7, <2>1, <2>2 DEF CallsFit
<1>12. KnowledgeHasProvenance'
  BY <1>4, <1>5, <1>8 DEF Inv, KnowledgeHasProvenance
<1>13. RowsFit'
  BY <1>5, <1>8 DEF Inv, RowsFit
<1>14. SourcesFit'
  BY <1>5 DEF Inv, SourcesFit
<1> QED
  BY <1>9, <1>10, <1>11, <1>12, <1>13, <1>14 DEF Inv

LEMMA Promote_Inv ==
  ASSUME Inv, NEW c \in Callers, Promote(c)
  PROVE  Inv'
<1> DEFINE i == call[c].id
           row == call[c].row
           over == call[c].over
<1>1. /\ i \in CandidateId /\ candidate[i] # NoCandidate
      /\ row.status \in {"pending_review", "promoted"} /\ row \in Candidate
      /\ RowFits(i, row)
      /\ \A j \in over : j \in CandidateId => memory[j] # NoMemory
  BY DEF Promote, Inv, CallsFit, PromoteFits
<1>2. memory' = [j \in CandidateId |->
        IF j = i THEN upsertKnowledgeMemory(memory[i], [row EXCEPT !.status = "active"])
        ELSE IF j \in over THEN [memory[j] EXCEPT !.status = "superseded"]
        ELSE memory[j]]
  BY <1>1 DEF Promote, promoteMemoryCandidate, invalidatedStatus
<1>3. candidate' = [candidate EXCEPT ![i].status = "promoted"]
  BY <1>1 DEF Promote
<1>4. edges' = edges \cup {ApprovedBy(i)}
  BY DEF Promote, insertProvenanceEdges, ApprovedBy
<1>5. call' = [call EXCEPT ![c] = Idle] /\ UNCHANGED source
  BY DEF Promote
<1> HIDE DEF i, row, over
<1>6. /\ call' \in [Callers -> Call] /\ call'[c] = Idle
      /\ \A d \in Callers : d # c => call'[d] = call[d]
  BY <1>5, IdleFits DEF Inv, MemoryTypeOK
<1>7. candidate \in [CandidateId -> Candidate] /\ memory \in [CandidateId -> Memory]
  BY DEF Inv, MemoryTypeOK
<1>8. /\ candidate' \in [CandidateId -> Candidate]
      /\ candidate'[i].status = "promoted" /\ candidate'[i].evidence = candidate[i].evidence
      /\ candidate'[i].class = candidate[i].class
      /\ \A j \in CandidateId : j # i => candidate'[j] = candidate[j]
  BY <1>1, <1>3, <1>7 DEF Candidate, CandidateStatus
<1>9. ASSUME NEW j \in CandidateId
      PROVE  /\ memory'[j] \in Memory
             /\ memory[j] # NoMemory => memory'[j] # NoMemory
             /\ memory'[j] # NoMemory => j = i \/ memory[j] # NoMemory
             /\ memory'[j] # NoMemory => memory'[j].status # "none" /\ RowFits(j, memory'[j])
  <2>1. CASE j = i
    <3>1. /\ memory[j] \in Memory
          /\ memory[j] # NoMemory => memory[j].status # "none" /\ RowFits(j, memory[j])
      BY <1>7 DEF Inv, RowsFit
    <3> DEFINE new == [row EXCEPT !.status = "active"]
    <3>2. /\ new \in Memory /\ new.status = "active" /\ new.evidence = row.evidence
          /\ new.class = row.class /\ RowFits(j, new)
      BY <1>1, <2>1 DEF Candidate, Memory, MemoryStatus, RowFits
    <3>3. memory'[j] = upsertKnowledgeMemory(memory[j], new)
      BY <1>2, <2>1
    <3> HIDE DEF new
    <3>4. classKept(memory[j], new) \in Class
      BY <3>1, <3>2 DEF classKept, Memory
    <3>5. /\ memory'[j] \in Memory /\ memory'[j].status = "active"
          /\ memory'[j].class = classKept(memory[j], new)
          /\ memory'[j].evidence = new.evidence
      BY <3>2, <3>3, <3>4 DEF upsertKnowledgeMemory, Memory
    <3>6. RowFits(j, memory'[j])
      BY <3>1, <3>2, <3>5, UpsertFits DEF RowFits, NoMemory
    <3>7. memory'[j] # NoMemory /\ memory'[j].status # "none"
      BY <3>5 DEF NoMemory, NoRow
    <3> QED
      BY <2>1, <3>5, <3>6, <3>7
  <2>2. CASE j # i /\ j \in over
    <3>1. memory[j] \in Memory /\ memory[j] # NoMemory
      BY <1>1, <1>7, <2>2
    <3>2. /\ memory'[j] \in Memory /\ memory'[j].status = "superseded"
          /\ memory'[j].evidence = memory[j].evidence
          /\ memory'[j].class = memory[j].class
      BY <1>2, <2>2, <3>1 DEF Memory, MemoryStatus
    <3> QED
      BY <3>1, <3>2 DEF Inv, RowsFit, RowFits, NoMemory, NoRow
  <2>3. CASE j # i /\ j \notin over
    BY <1>2, <1>7, <2>3 DEF Inv, RowsFit
  <2> QED
    BY <2>1, <2>2, <2>3
<1>10. MemoryTypeOK'
  <2>1. edges' \subseteq Edge
    BY <1>1, <1>4 DEF Inv, MemoryTypeOK, Edge, ApprovedBy
  <2>2. memory' \in [CandidateId -> Memory]
    BY <1>2, <1>9
  <2> QED
    BY <1>5, <1>6, <1>8, <2>1, <2>2 DEF Inv, MemoryTypeOK
<1>11. CandidatesFit'
  BY <1>1, <1>4, <1>8 DEF Inv, CandidatesFit
<1>12. candidate'[i] # NoCandidate
  BY <1>8 DEF NoCandidate, NoRow
<1>13. CallsFit'
  <2>1. ExtractFits(Idle)' /\ PromoteFits(Idle)' /\ InvalidateFits(Idle)'
    BY DEF Idle, ExtractFits, PromoteFits, InvalidateFits
  <2>2. ASSUME NEW d \in Callers, d # c
        PROVE  (ExtractFits(call[d]) /\ PromoteFits(call[d]) /\ InvalidateFits(call[d]))'
    BY <1>6, <1>8, <1>9, <1>12, <2>2
       DEF Inv, CallsFit, ExtractFits, PromoteFits, InvalidateFits
  <2> QED
    BY <1>6, <2>1, <2>2 DEF CallsFit
<1>14. KnowledgeHasProvenance'
  <2> SUFFICES ASSUME NEW j \in CandidateId, memory'[j] # NoMemory
               PROVE  /\ candidate'[j].status = "promoted"
                      /\ DerivedFrom(j) \in edges'
                      /\ ApprovedBy(j) \in edges'
    BY DEF KnowledgeHasProvenance, DerivedFrom, ApprovedBy
  <2>1. CASE j = i
    BY <1>1, <1>4, <1>8, <2>1 DEF Inv, CandidatesFit
  <2>2. CASE j # i
    BY <1>4, <1>8, <1>9, <2>2 DEF Inv, KnowledgeHasProvenance, DerivedFrom, ApprovedBy
  <2> QED
    BY <2>1, <2>2
<1>15. RowsFit'
  BY <1>1, <1>8, <1>9 DEF Inv, RowsFit, RowFits
<1>16. SourcesFit'
  BY <1>5 DEF Inv, SourcesFit
<1> QED
  BY <1>10, <1>11, <1>13, <1>14, <1>15, <1>16 DEF Inv

LEMMA Invalidate_Inv ==
  ASSUME Inv, NEW c \in Callers, Invalidate(c)
  PROVE  Inv'
<1> DEFINE i == call[c].id
           row == call[c].row
           reason == call[c].reason
<1>1. /\ i \in CandidateId /\ memory[i] # NoMemory /\ row \in Memory /\ reason \in Reasons
      /\ RowFits(i, row)
  BY DEF Invalidate, Inv, CallsFit, InvalidateFits
<1>2. memory' = [memory EXCEPT ![i] = upsertKnowledgeMemory(@, [row EXCEPT !.status = reason])]
  BY DEF Invalidate, invalidatedStatus
<1>3. call' = [call EXCEPT ![c] = Idle] /\ UNCHANGED <<source, candidate, edges>>
  BY DEF Invalidate
<1> HIDE DEF i, row, reason
<1>4. /\ call' \in [Callers -> Call] /\ call'[c] = Idle
      /\ \A d \in Callers : d # c => call'[d] = call[d]
  BY <1>3, IdleFits DEF Inv, MemoryTypeOK
<1>5. reason \in MemoryStatus
  BY <1>1, MemoryAssumption
<1> DEFINE new == [row EXCEPT !.status = reason]
<1>6. /\ new \in Memory /\ new.status = reason /\ new.evidence = row.evidence
      /\ new.class = row.class /\ RowFits(i, new)
  BY <1>1, <1>5 DEF Memory, RowFits
<1> HIDE DEF new
<1>7. /\ memory' \in [CandidateId -> Memory]
      /\ memory'[i].status = reason /\ memory'[i].evidence = new.evidence
      /\ memory'[i].class = classKept(memory[i], new)
      /\ \A j \in CandidateId : j # i => memory'[j] = memory[j]
  <2>1. memory \in [CandidateId -> Memory] /\ memory[i] \in Memory
    BY <1>1 DEF Inv, MemoryTypeOK
  <2>2. classKept(memory[i], new) \in Class
    BY <1>6, <2>1 DEF classKept, Memory
  <2>3. memory' = [memory EXCEPT ![i] = upsertKnowledgeMemory(memory[i], new)]
    BY <1>2 DEF new
  <2>4. upsertKnowledgeMemory(memory[i], new) \in Memory
    BY <1>6, <2>2 DEF upsertKnowledgeMemory, Memory
  <2> QED
    BY <1>1, <1>6, <2>1, <2>3, <2>4 DEF upsertKnowledgeMemory
<1>8. memory'[i] # NoMemory /\ memory'[i].status # "none"
  BY <1>5, <1>7 DEF NoMemory, NoRow, MemoryStatus
<1>9. MemoryTypeOK'
  BY <1>3, <1>4, <1>7 DEF Inv, MemoryTypeOK
<1>10. CallsFit'
  <2>1. ExtractFits(Idle)' /\ PromoteFits(Idle)' /\ InvalidateFits(Idle)'
    BY DEF Idle, ExtractFits, PromoteFits, InvalidateFits
  <2>2. ASSUME NEW d \in Callers, d # c
        PROVE  (ExtractFits(call[d]) /\ PromoteFits(call[d]) /\ InvalidateFits(call[d]))'
    BY <1>3, <1>4, <1>7, <1>8, <2>2
       DEF Inv, CallsFit, ExtractFits, PromoteFits, InvalidateFits
  <2> QED
    BY <1>4, <2>1, <2>2 DEF CallsFit
<1>11. KnowledgeHasProvenance'
  BY <1>1, <1>3, <1>7 DEF Inv, KnowledgeHasProvenance
<1>12. RowsFit'
  <2>1. memory[i].status # "none" /\ RowFits(i, memory[i])
    BY <1>1 DEF Inv, RowsFit
  <2>2. RowFits(i, memory'[i])
    BY <1>6, <1>7, <2>1, UpsertFits DEF RowFits
  <2> QED
    BY <1>1, <1>3, <1>7, <1>8, <2>2 DEF Inv, RowsFit
<1> QED
  BY <1>3, <1>9, <1>10, <1>11, <1>12 DEF Inv, SourcesFit, CandidatesFit

-----------------------------------------------------------------------------

LEMMA Init_Inv == MemoryInit => Inv
<1> SUFFICES ASSUME MemoryInit PROVE Inv
  OBVIOUS
<1>1. MemoryTypeOK
  BY IdleFits DEF MemoryInit, MemoryTypeOK, Candidate, CandidateStatus, Memory, NoCandidate,
                  NoMemory, NoRow, Class, SourceStatus
<1>2. SourcesFit
  BY MemoryAssumption DEF MemoryInit, SourcesFit, Fits, OfRun, Source
<1>3. CallsFit
  BY IdleFits DEF MemoryInit, CallsFit
<1>4. CandidatesFit /\ KnowledgeHasProvenance /\ RowsFit
  BY DEF MemoryInit, CandidatesFit, KnowledgeHasProvenance, RowsFit
<1> QED
  BY <1>1, <1>2, <1>3, <1>4 DEF Inv

LEMMA Next_Inv == Inv /\ [MemoryNext]_vars => Inv'
<1> SUFFICES ASSUME Inv, [MemoryNext]_vars PROVE Inv'
  OBVIOUS
<1>1. CASE UNCHANGED vars
  BY <1>1 DEF vars, Inv, MemoryTypeOK, SourcesFit, CandidatesFit, CallsFit, ExtractFits,
              PromoteFits, InvalidateFits, KnowledgeHasProvenance, RowsFit
<1>2. CASE MemoryNext
  BY <1>2, Sources_Inv, ReadSource_Inv, Extract_Inv, ReadCandidate_Inv, ReadMemory_Inv,
     Promote_Inv, Invalidate_Inv, Rollback_Inv DEF MemoryNext
<1> QED
  BY <1>1, <1>2

LEMMA Next_Review ==
  Inv /\ [MemoryNext]_vars =>
    \A i \in CandidateId : candidate[i].status = "promoted" => candidate'[i].status = "promoted"
<1> SUFFICES ASSUME Inv, [MemoryNext]_vars, NEW i \in CandidateId,
                    candidate[i].status = "promoted"
             PROVE  candidate'[i].status = "promoted"
  OBVIOUS
<1>1. ASSUME NEW c \in Callers, Extract(c) PROVE candidate'[i].status = "promoted"
  BY <1>1 DEF Extract, upsertMemoryCandidate
<1>2. ASSUME NEW c \in Callers, Promote(c) PROVE candidate'[i].status = "promoted"
  <2>1. call[c].row.status # "quarantined"
    BY <1>2 DEF Promote, Inv, CallsFit, PromoteFits
  <2>2. candidate \in [CandidateId -> Candidate]
    BY DEF Inv, MemoryTypeOK
  <2>3. candidate' = [candidate EXCEPT ![call[c].id].status = "promoted"]
    BY <1>2, <2>1 DEF Promote
  <2> QED
    BY <2>2, <2>3 DEF Candidate
<1>3. CASE UNCHANGED candidate
  BY <1>3
<1> QED
  BY <1>1, <1>2, <1>3 DEF MemoryNext, vars, RunSettles, ApprovalDecided, InboundRecorded,
     ReadSource, ReadCandidate, ReadMemory, Invalidate, Rollback

LEMMA Next_Revived ==
  Inv /\ [MemoryNext]_vars =>
    \A i \in CandidateId :
      Retired(memory[i]) /\ memory'[i].status = "active" =>
        \E c \in Callers : call[c].op = "promote" /\ call[c].id = i /\ call'[c] = Idle
<1> SUFFICES ASSUME Inv, [MemoryNext]_vars, NEW i \in CandidateId,
                    Retired(memory[i]), memory'[i].status = "active"
             PROVE  \E c \in Callers : call[c].op = "promote" /\ call[c].id = i /\ call'[c] = Idle
  OBVIOUS
<1>1. memory[i].status # "active"
  BY DEF Retired
<1>2. memory \in [CandidateId -> Memory] /\ call \in [Callers -> Call]
  BY DEF Inv, MemoryTypeOK
<1>3. ASSUME NEW c \in Callers, Promote(c)
      PROVE  call[c].op = "promote" /\ call[c].id = i /\ call'[c] = Idle
  <2>1. call[c].id = i
    <3> SUFFICES ASSUME i # call[c].id PROVE FALSE
      OBVIOUS
    <3>1. memory'[i] = IF i \in call[c].over
                       THEN [memory[i] EXCEPT !.status = "superseded"] ELSE memory[i]
      BY <1>3 DEF Promote, invalidatedStatus
    <3> QED
      BY <1>1, <1>2, <3>1 DEF Memory
  <2> QED
    BY <1>2, <1>3, <2>1 DEF Promote
<1>4. ASSUME NEW c \in Callers, Invalidate(c) PROVE FALSE
  <2>1. call[c].id \in CandidateId /\ call[c].row \in Memory /\ call[c].reason # "active"
    BY <1>4, MemoryAssumption DEF Invalidate, Inv, CallsFit, InvalidateFits
  <2>2. memory' = [memory EXCEPT ![call[c].id] =
          upsertKnowledgeMemory(@, [call[c].row EXCEPT !.status = call[c].reason])]
    BY <1>4 DEF Invalidate, invalidatedStatus
  <2>3. upsertKnowledgeMemory(memory[call[c].id], [call[c].row EXCEPT !.status = call[c].reason])
          .status # "active"
    BY <2>1 DEF upsertKnowledgeMemory, Memory
  <2> QED
    BY <1>1, <1>2, <2>1, <2>2, <2>3
<1>5. CASE UNCHANGED memory
  BY <1>1, <1>5
<1> QED
  BY <1>3, <1>4, <1>5 DEF MemoryNext, vars, RunSettles, ApprovalDecided, InboundRecorded,
     ReadSource, Extract, ReadCandidate, ReadMemory, Rollback

\* The types of the rows and of what a request has read.
THEOREM MemoryTypeCorrect == MemorySpec => []MemoryTypeOK
<1>1. Inv => MemoryTypeOK
  BY DEF Inv
<1> QED
  BY <1>1, Init_Inv, Next_Inv, PTL DEF MemorySpec

\* There is no orphaned knowledge.
THEOREM NoOrphanedKnowledge == MemorySpec => []KnowledgeHasProvenance
<1>1. Inv => KnowledgeHasProvenance
  BY DEF Inv
<1> QED
  BY <1>1, Init_Inv, Next_Inv, PTL DEF MemorySpec

\* A row that is there fits its id, and what fits an id is supported or told too soon.
LEMMA RowsAreSupported == RowsFit => ClassFitsEvidence
<1> SUFFICES ASSUME RowsFit, NEW i \in CandidateId, NEW row \in {candidate[i], memory[i]},
                    row.status # "none", ~TooSoon(row)
             PROVE  Supports(row.evidence, row.class)
  BY DEF ClassFitsEvidence
<1>1. row # NoRow
  BY DEF NoRow
<1>2. RowFits(i, row)
  BY <1>1 DEF RowsFit, NoCandidate, NoMemory
<1>3. i.class \in Class
  BY DEF CandidateId, Class
<1> QED
  BY <1>2, <1>3 DEF RowFits, ClassFits, EvidenceOf, Supports, TooSoon, Class

\* No candidate and no memory speaks of success on the evidence of anything else, and
\* none of failure on the evidence of a success: a row keeps the class it was inserted
\* with while its evidence is rewritten, and only an id made of source and class makes
\* the two fit, whichever outcome of the run came first.
THEOREM EvidenceFits == MemorySpec => []ClassFitsEvidence
<1>1. Inv => ClassFitsEvidence
  BY RowsAreSupported DEF Inv
<1> QED
  BY <1>1, Init_Inv, Next_Inv, PTL DEF MemorySpec

\* No extraction undoes a review.
THEOREM ReviewKept == MemorySpec => ReviewIsKept
<1>1. Inv /\ [MemoryNext]_vars =>
        [\A i \in CandidateId :
           candidate[i].status = "promoted" => candidate'[i].status = "promoted"]_vars
  BY Next_Review
<1> QED
  BY <1>1, Init_Inv, Next_Inv, PTL DEF MemorySpec, ReviewIsKept

\* Nothing but the promotion of its own candidate makes a retired memory active.
THEOREM RevivedByReview == MemorySpec => RevivedOnlyByReview
<1>1. Inv /\ [MemoryNext]_vars =>
        [\A i \in CandidateId :
           Retired(memory[i]) /\ memory'[i].status = "active" =>
             \E c \in Callers : /\ call[c].op = "promote"
                                /\ call[c].id = i
                                /\ call'[c] = Idle]_vars
  BY Next_Revived
<1> QED
  BY <1>1, Init_Inv, Next_Inv, PTL DEF MemorySpec, RevivedOnlyByReview

-----------------------------------------------------------------------------
(* ImplementsKnowledgeBase *)

Known == <<candidates, promoted, knowledgeOfAll, promotions>>

LEMMA NotNone == \A i \in CandidateId : knownAs(i) # "none" <=> memory[i] # NoMemory
BY DEF knownAs

\* A row changes what is known of it only as far as its status does.
LEMMA SameKnowledge == UNCHANGED memory => UNCHANGED knowledgeOfAll
BY DEF knowledgeOfAll, knownAs

LEMMA SameCandidates == UNCHANGED candidate => UNCHANGED <<candidates, promoted>>
BY DEF candidates, promoted

\* What a request holds is nobody's review but a promotion's.
LEMMA Promotions ==
  ASSUME Inv, NEW c \in Callers, NEW q, call' = [call EXCEPT ![c] = q]
  PROVE  promotions' = [promotions EXCEPT ![c] = IF q.op = "promote" THEN {q.id} ELSE {}]
<1>1. call'[c] = q /\ \A d \in Callers : d # c => call'[d] = call[d]
  BY DEF Inv, MemoryTypeOK
<1> QED
  BY <1>1 DEF promotions

LEMMA SamePromotions ==
  ASSUME Inv, NEW c \in Callers, NEW q, call' = [call EXCEPT ![c] = q],
         q.op # "promote", call[c].op # "promote"
  PROVE  UNCHANGED promotions
<1>1. call'[c] = q /\ \A d \in Callers : d # c => call'[d] = call[d]
  BY DEF Inv, MemoryTypeOK
<1> QED
  BY <1>1 DEF promotions

LEMMA Extract_Proposes ==
  ASSUME Inv, NEW c \in Callers, Extract(c)
  PROVE  Knowledge!Next
<1> DEFINE s == call[c].source
           row == call[c].row
           Proposed(k) == [status |-> "pending_review", class |-> k.class,
                           evidence |-> row.status]
<1>1. PICK k \in extracted(s, row) :
        candidate' = [candidate EXCEPT ![stableId(s, k.hashed)] =
                       upsertMemoryCandidate(@, Proposed(k))]
  BY DEF Extract
<1> DEFINE j == stableId(s, k.hashed)
           new == Proposed(k)
<1>2. /\ candidate' = [candidate EXCEPT ![j] = upsertMemoryCandidate(@, new)]
      /\ new.status = "pending_review"
  BY <1>1
<1> HIDE DEF s, row, j, new, Proposed
<1>3. ASSUME NEW i \in CandidateId
      PROVE  /\ candidate[i] # NoCandidate => candidate'[i] # NoCandidate
             /\ candidate'[i].status = "promoted" <=> candidate[i].status = "promoted"
  <2>1. candidate \in [CandidateId -> Candidate]
    BY DEF Inv, MemoryTypeOK
  <2>2. CASE i = j
    <3>1. candidate'[i].status =
            IF candidate[i].status \in {"promoted", "rejected", "quarantined"}
            THEN candidate[i].status ELSE "pending_review"
      BY <1>2, <2>1, <2>2 DEF upsertMemoryCandidate
    <3> QED
      BY <3>1 DEF NoCandidate, NoRow
  <2>3. CASE i # j
    BY <1>2, <2>1, <2>3
  <2> QED
    BY <2>2, <2>3
<1>4. candidates' \in SUBSET CandidateId /\ candidates \subseteq candidates'
  BY <1>3 DEF candidates
<1>5. UNCHANGED promoted
  BY <1>3 DEF promoted
<1>6. UNCHANGED promotions
  <2>1. Idle.op # "promote"
    BY DEF Idle
  <2> QED
    BY <2>1, SamePromotions DEF Extract
<1>7. UNCHANGED memory
  BY DEF Extract
<1> QED
  BY <1>4, <1>5, <1>6, <1>7, SameKnowledge DEF Knowledge!Next, Knowledge!Propose

LEMMA ReadCandidate_TakesUp ==
  ASSUME Inv, NEW c \in Callers, NEW i \in CandidateId, ReadCandidate(c, i)
  PROVE  Knowledge!Next
<1>1. PICK over :
        call' = [call EXCEPT ![c] =
          [op |-> "promote", id |-> i, row |-> candidate[i], over |-> over]]
  BY DEF ReadCandidate
<1> DEFINE q == [op |-> "promote", id |-> i, row |-> candidate[i], over |-> over]
<1>2. call' = [call EXCEPT ![c] = q] /\ q.op = "promote" /\ q.id = i
  BY <1>1
<1> HIDE DEF q
<1>3. promotions' = [promotions EXCEPT ![c] = {i}]
  BY <1>2, Promotions
<1>4. promotions[c] = {}
  BY DEF ReadCandidate, Idle, promotions
<1>5. i \in candidates
  BY DEF ReadCandidate, candidates
<1>6. UNCHANGED <<candidates, promoted, knowledgeOfAll>>
  BY SameKnowledge, SameCandidates DEF ReadCandidate
<1> QED
  BY <1>3, <1>4, <1>5, <1>6 DEF Knowledge!Next, Knowledge!TakeUp

LEMMA Promote_Approves ==
  ASSUME Inv, NEW c \in Callers, Promote(c)
  PROVE  Knowledge!Next
<1> DEFINE i == call[c].id
           row == call[c].row
           over == call[c].over
<1>1. /\ i \in CandidateId /\ candidate[i] # NoCandidate
      /\ row.status \in {"pending_review", "promoted"}
      /\ row \in Candidate
      /\ \A j \in over : j \in CandidateId => memory[j] # NoMemory
      /\ over \in {{}} \cup {{j} : j \in CandidateId \ {i}}
  BY DEF Promote, Inv, CallsFit, PromoteFits
<1>2. memory' = [j \in CandidateId |->
        IF j = i THEN upsertKnowledgeMemory(memory[i], [row EXCEPT !.status = "active"])
        ELSE IF j \in over THEN [memory[j] EXCEPT !.status = "superseded"]
        ELSE memory[j]]
  BY <1>1 DEF Promote, promoteMemoryCandidate, invalidatedStatus
<1>3. candidate' = [candidate EXCEPT ![i].status = "promoted"]
  BY <1>1 DEF Promote
<1>4. call[c].op = "promote" /\ call' = [call EXCEPT ![c] = Idle]
  BY DEF Promote
<1>5. i \in promotions[c]
  BY <1>4 DEF promotions
<1> HIDE DEF i, row, over
<1>6. candidate \in [CandidateId -> Candidate] /\ memory \in [CandidateId -> Memory]
  BY DEF Inv, MemoryTypeOK
<1>7. /\ candidate'[i].status = "promoted"
      /\ \A j \in CandidateId : j # i => candidate'[j] = candidate[j]
  BY <1>1, <1>3, <1>6 DEF Candidate
<1>8. UNCHANGED candidates
  BY <1>1, <1>7 DEF candidates, NoCandidate, NoRow
<1>9. promoted' = promoted \cup {i}
  BY <1>1, <1>7 DEF promoted
<1>10. promotions' = [promotions EXCEPT ![c] = {}]
  <2>1. Idle.op # "promote"
    BY DEF Idle
  <2> QED
    BY <1>4, <2>1, Promotions
<1>11. over \in {{}} \cup {{j} : j \in Knowledge!Replaceable(i)}
  <2>1. CASE over = {}
    BY <2>1
  <2>2. CASE over # {}
    <3>1. PICK j \in CandidateId \ {i} : over = {j}
      BY <1>1, <2>2
    <3>2. knowledgeOfAll[j] # "none"
      BY <1>1, <3>1, NotNone DEF knowledgeOfAll
    <3> QED
      BY <3>1, <3>2 DEF Knowledge!Replaceable
  <2> QED
    BY <2>1, <2>2
<1>12. ASSUME NEW j \in CandidateId
       PROVE  knownAs(j)' = CASE j = i -> "active"
                              [] j \in over -> "retired"
                              [] OTHER -> knowledgeOfAll[j]
  <2>1. CASE j = i
    <3>1. memory'[j].status = "active"
      BY <1>1, <1>2, <2>1 DEF upsertKnowledgeMemory, Candidate
    <3> QED
      BY <2>1, <3>1, <1>1, <1>11 DEF knownAs, NoMemory, NoRow
  <2>2. CASE j # i /\ j \in over
    <3>1. memory'[j].status = "superseded"
      BY <1>2, <1>6, <2>2 DEF Memory
    <3> QED
      BY <2>2, <3>1 DEF knownAs, NoMemory, NoRow
  <2>3. CASE j # i /\ j \notin over
    <3>1. memory'[j] = memory[j]
      BY <1>2, <2>3
    <3> QED
      BY <2>3, <3>1 DEF knownAs, knowledgeOfAll
  <2> QED
    BY <2>1, <2>2, <2>3
<1>13. knowledgeOfAll' = [j \in CandidateId |-> CASE j = i -> "active"
                                                  [] j \in over -> "retired"
                                                  [] OTHER -> knowledgeOfAll[j]]
  BY <1>12 DEF knowledgeOfAll
<1>14. Knowledge!Approve(c, i)
  BY <1>8, <1>9, <1>10, <1>11, <1>13 DEF Knowledge!Approve
<1> QED
  BY <1>5, <1>14 DEF Knowledge!Next

LEMMA Invalidate_Retires ==
  ASSUME Inv, NEW c \in Callers, Invalidate(c)
  PROVE  Knowledge!Next
<1> DEFINE i == call[c].id
           row == call[c].row
           reason == call[c].reason
<1>1. /\ i \in CandidateId /\ memory[i] # NoMemory /\ row \in Memory
      /\ reason \in MemoryStatus \ {"active"}
  BY MemoryAssumption DEF Invalidate, Inv, CallsFit, InvalidateFits
<1>2. memory' = [memory EXCEPT ![i] = upsertKnowledgeMemory(@, [row EXCEPT !.status = reason])]
  BY DEF Invalidate, invalidatedStatus
<1>3. call[c].op = "invalidate" /\ call' = [call EXCEPT ![c] = Idle] /\ UNCHANGED candidate
  BY DEF Invalidate
<1> HIDE DEF i, row, reason
<1>4. /\ memory'[i].status = reason
      /\ \A j \in CandidateId : j # i => memory'[j] = memory[j]
  BY <1>1, <1>2 DEF Inv, MemoryTypeOK, Memory, upsertKnowledgeMemory
<1>5. ASSUME NEW j \in CandidateId
      PROVE  knownAs(j)' = IF j = i THEN "retired" ELSE knownAs(j)
  <2>1. CASE j = i
    <3>1. memory'[j].status \notin {"none", "active"}
      BY <1>1, <1>4, <2>1 DEF MemoryStatus
    <3>2. memory'[j] # NoMemory
      BY <3>1 DEF NoMemory, NoRow
    <3> QED
      BY <2>1, <3>1, <3>2 DEF knownAs
  <2>2. CASE j # i
    BY <1>4, <2>2 DEF knownAs
  <2> QED
    BY <2>1, <2>2
<1>6. knowledgeOfAll' = [knowledgeOfAll EXCEPT ![i] = "retired"]
  BY <1>1, <1>5 DEF knowledgeOfAll
<1>7. knowledgeOfAll[i] # "none"
  BY <1>1, NotNone DEF knowledgeOfAll
<1>8. UNCHANGED promotions
  <2>1. Idle.op # "promote"
    BY DEF Idle
  <2> QED
    BY <1>3, <2>1, SamePromotions
<1> QED
  BY <1>1, <1>3, <1>6, <1>7, <1>8, SameCandidates DEF Knowledge!Next, Knowledge!Retire

LEMMA Rollback_PutsDown ==
  ASSUME Inv, NEW c \in Callers, Rollback(c)
  PROVE  Knowledge!Next
<1>1. promotions' = [promotions EXCEPT ![c] = {}]
  <2>1. Idle.op # "promote"
    BY DEF Idle
  <2> QED
    BY <2>1, Promotions DEF Rollback
<1> QED
  BY <1>1, SameCandidates, SameKnowledge DEF Rollback, Knowledge!Next, Knowledge!PutDown

LEMMA Next_Knowledge == Inv /\ [MemoryNext]_vars => [Knowledge!Next]_Known
<1> SUFFICES ASSUME Inv, [MemoryNext]_vars
             PROVE  Knowledge!Next \/ UNCHANGED Known
  OBVIOUS
<1>1. CASE UNCHANGED <<candidate, memory, call>>
  <2>1. UNCHANGED promotions
    BY <1>1 DEF promotions
  <2> QED
    BY <1>1, <2>1, SameCandidates, SameKnowledge DEF Known
<1>2. ASSUME NEW c \in Callers, NEW s \in Source, ReadSource(c, s)
      PROVE  UNCHANGED Known
  <2> DEFINE q == [op |-> "extract", source |-> s, row |-> source[s]]
  <2>1. /\ call' = [call EXCEPT ![c] = q] /\ q.op # "promote"
        /\ call[c].op # "promote" /\ UNCHANGED <<candidate, memory>>
    BY <1>2 DEF ReadSource, Idle
  <2> HIDE DEF q
  <2> QED
    BY <2>1, SamePromotions, SameCandidates, SameKnowledge DEF Known
<1>3. ASSUME NEW c \in Callers, NEW i \in CandidateId, ReadMemory(c, i)
      PROVE  UNCHANGED Known
  <2>1. PICK reason :
          call' = [call EXCEPT ![c] =
            [op |-> "invalidate", id |-> i, row |-> memory[i], reason |-> reason]]
    BY <1>3 DEF ReadMemory
  <2> DEFINE q == [op |-> "invalidate", id |-> i, row |-> memory[i], reason |-> reason]
  <2>2. call' = [call EXCEPT ![c] = q] /\ q.op # "promote"
    BY <2>1
  <2>3. call[c].op # "promote" /\ UNCHANGED <<candidate, memory>>
    BY <1>3 DEF ReadMemory, Idle
  <2> HIDE DEF q
  <2> QED
    BY <2>2, <2>3, SamePromotions, SameCandidates, SameKnowledge DEF Known
<1>4. CASE \/ UNCHANGED vars
           \/ \E r \in Runs : RunSettles(r)
           \/ \E a \in Approvals : ApprovalDecided(a)
           \/ \E e \in Inbound : InboundRecorded(e)
  BY <1>1, <1>4 DEF vars, RunSettles, ApprovalDecided, InboundRecorded
<1> QED
  BY <1>2, <1>3, <1>4, Extract_Proposes, ReadCandidate_TakesUp, Promote_Approves,
     Invalidate_Retires, Rollback_PutsDown DEF MemoryNext

\* What is known changes as KnowledgeBase says, although every request writes rows back
\* as it read them: whatever a promotion read was there to be promoted, a memory it
\* supersedes is still there and not its own, and no stale row makes a memory active.
THEOREM KnowledgeRefinement == MemorySpec => ImplementsKnowledgeBase
<1>1. MemoryInit => Knowledge!Init
  BY DEF MemoryInit, Knowledge!Init, candidates, promoted, knowledgeOfAll, knownAs, promotions,
         NoCandidate, NoMemory, NoRow, Idle
<1> QED
  BY <1>1, Init_Inv, Next_Inv, Next_Knowledge, PTL
     DEF MemorySpec, ImplementsKnowledgeBase, Knowledge!Spec, Known
=============================================================================
