------------------------ MODULE KnowledgeReviewProofs ------------------------
(***************************************************************************)
(* Proofs about KnowledgeReview, for every set of candidates, reviewers    *)
(* and review calls, every text and every combination of faults.           *)
(***************************************************************************)
EXTENDS KnowledgeReview, TLAPS

-----------------------------------------------------------------------------
(* The inductive invariant.                                                *)

Row(q) == candidates[Cand(q)]

\* Call q has taken a final decision that its audit event does not show yet.
Deciding(q) == \/ pc[q] \in {"audit_block", "reload", "audit"}
               \/ At(q, "load") /\ ~call[q].approved

\* Call q has the say over its row: it is publishing, has just decided, or
\* has published for good.
Holder(q) == Claims(q) \/ Deciding(q) \/ (At(q, "returned") /\ call[q].approved)

\* What a holder's row shows.
HeldStatus(q) == IF Claims(q) THEN "publishing"
                 ELSE IF call[q].approved /\ ~At(q, "audit_block")
                      THEN "published" ELSE "rejected"

\* What one call knows of itself, its row, its document and its own copies.
CallInv(q) ==
  /\ pc[q] # "idle" => call[q] \in Arguments
  /\ pc[q] \in {"reclaim", "block", "audit_block", "fail", "audit_fail",
                "finalize", "reload"} \cup GuardedAwaits => call[q].approved
  /\ Holder(q) => /\ Row(q).status = HeldStatus(q)
                  /\ Row(q).reviewed_by = call[q].reviewer
  /\ pc[q] \in GuardedAwaits => /\ copy[q].status = "publishing"
                                /\ copy[q].reviewed_by = call[q].reviewer
  /\ pc[q] \in {"flag", "upsert", "finalize"} => Cand(q) \notin Blocked
  /\ At(q, "block") => Cand(q) \in Blocked
  /\ At(q, "finalize") => documents[Cand(q)] = call[q].reviewer
  /\ /\ pc[q] \in {"upsert", "finalize", "reload", "audit", "returned"}
     /\ call[q].approved /\ flags[q] # {}
     => Row(q).risk_flags = flags[q]
  /\ pc[q] \notin {"release", "unexpected"}

\* A candidate has one holder, and a holder that still has to audit its
\* decision finds no decision in the trail.
Exclusive ==
  /\ \A p, q \in Requests : Holder(p) /\ Holder(q) /\ Cand(p) = Cand(q) => p = q
  /\ \A q \in Requests, e \in Decisions : Deciding(q) => e.entity # Cand(q)

\* What is served follows the status of the candidate.
ServedInv ==
  /\ \A c \in Candidates :
       candidates[c].status \in {"absent", "pending"} => documents[c] = None
  /\ PublishedIsServed
  /\ RejectedNotServed
  /\ BlockedNeverServed

IInv == /\ TypeOK
        /\ \A q \in Requests : CallInv(q)
        /\ Exclusive
        /\ ServedInv
        /\ DecisionAuditedOnce

-----------------------------------------------------------------------------
(* What the helpers of the handler do.                                     *)

\* A call that has started names a candidate and a reviewer.
LEMMA StartedCall ==
  ASSUME IInv, NEW q \in Requests, pc[q] # "idle"
  PROVE  /\ Cand(q) \in Candidates
         /\ call[q].reviewer \in Reviewers
         /\ call[q].approved \in BOOLEAN
  BY DEF IInv, CallInv, Arguments, Cand

\* The conditional update of update_candidate_status touches one row, only if
\* its status is the expected one, and leaves its flags alone.
LEMMA UpdateEffect ==
  ASSUME TypeOK, NEW q \in Requests, Cand(q) \in Candidates,
         call[q].reviewer \in Reviewers,
         NEW expected, NEW new \in Statuses,
         CompareAndSet(q, expected, new)
  PROVE  /\ candidates' \in [Candidates -> Candidate]
         /\ \A c \in Candidates \ {Cand(q)} : candidates'[c] = candidates[c]
         /\ Row(q).status = expected =>
              /\ candidates'[Cand(q)].status = new
              /\ candidates'[Cand(q)].reviewed_by = call[q].reviewer
              /\ candidates'[Cand(q)].risk_flags = Row(q).risk_flags
         /\ Row(q).status # expected => candidates' = candidates
<1>1. CASE Holds(Cand(q), expected)
  <2>. DEFINE new_row == [Row(q) EXCEPT !.status = new,
                                        !.reviewed_by = call[q].reviewer]
  <2>1. candidates' = [candidates EXCEPT ![Cand(q)] = new_row]
    BY <1>1 DEF CompareAndSet, Row, TypeOK
  <2>2. /\ new_row \in Candidate
        /\ new_row.status = new
        /\ new_row.reviewed_by = call[q].reviewer
        /\ new_row.risk_flags = Row(q).risk_flags
    BY DEF TypeOK, Candidate, Row
  <2>. HIDE DEF new_row
  <2>. QED
    BY <1>1, <2>1, <2>2 DEF TypeOK, Holds, Row
<1>2. CASE ~Holds(Cand(q), expected)
  BY <1>2 DEF CompareAndSet, TypeOK, Holds, Row
<1>. QED
  BY <1>1, <1>2

-----------------------------------------------------------------------------
(* A step of one call and the other calls.                                 *)

\* Nobody but call q holds the candidate of q.
Unheld(q) == \A p \in Requests \ {q} : Holder(p) => Cand(p) # Cand(q)

\* A step of call q: it moves q alone and writes the row and the document of
\* its candidate only when it is undecided and no other call holds it.
OwnStep(q) ==
  /\ \A p \in Requests \ {q} :
       /\ pc'[p] = pc[p]
       /\ call'[p] = call[p]
       /\ copy'[p] = copy[p]
       /\ flags'[p] = flags[p]
  /\ \/ UNCHANGED <<candidates, documents>>
     \/ /\ Unheld(q)
        /\ Row(q).status \notin {"published", "rejected"}
        /\ \A c \in Candidates \ {Cand(q)} : /\ candidates'[c] = candidates[c]
                                             /\ documents'[c] = documents[c]

\* A holder, and a claimable row, exclude every other holder.
LEMMA NoOtherHolder ==
  ASSUME IInv, NEW q \in Requests, Cand(q) \in Candidates,
         Holder(q) \/ Row(q).status \in {"pending", "publish_failed"}
  PROVE  Unheld(q)
<1>. SUFFICES ASSUME NEW p \in Requests \ {q}, Holder(p), Cand(p) = Cand(q)
              PROVE  FALSE
  BY DEF Unheld
<1>1. CASE Holder(q)
  BY <1>1 DEF IInv, Exclusive
<1>2. CASE Row(q).status \in {"pending", "publish_failed"}
  <2>1. Row(p).status = HeldStatus(p)
    BY DEF IInv, CallInv
  <2>2. HeldStatus(p) \in {"publishing", "published", "rejected"}
    BY DEF HeldStatus
  <2>. QED
    BY <1>2, <2>1, <2>2 DEF Row
<1>. QED
  BY <1>1, <1>2

\* A step of q leaves what every other call knows as it was.
LEMMA OthersKeep ==
  ASSUME IInv, NEW q \in Requests, OwnStep(q), NEW p \in Requests \ {q}
  PROVE  /\ CallInv(p)'
         /\ Cand(p)' = Cand(p)
         /\ Holder(p)' = Holder(p)
         /\ Deciding(p)' = Deciding(p)
<1>1. /\ pc'[p] = pc[p] /\ call'[p] = call[p]
      /\ copy'[p] = copy[p] /\ flags'[p] = flags[p]
  BY DEF OwnStep
<1>2. /\ Cand(p)' = Cand(p)
      /\ Holder(p)' = Holder(p)
      /\ Deciding(p)' = Deciding(p)
      /\ HeldStatus(p)' = HeldStatus(p)
      /\ \A label : At(p, label)' = At(p, label)
  BY <1>1 DEF Cand, Holder, Deciding, Claims, HeldStatus, At
<1>3. Holder(p) => /\ Row(p)' = Row(p)
                   /\ documents'[Cand(p)] = documents[Cand(p)]
  <2>1. ASSUME Holder(p) PROVE Cand(p) \in Candidates
    BY <2>1, StartedCall DEF Holder, Claims, Deciding, At, GuardedAwaits
  <2>. QED
    BY <1>2, <2>1 DEF OwnStep, Unheld, Row
<1>4. CallInv(p)
  BY DEF IInv
<1>5. pc[p] \in {"upsert", "finalize", "reload", "audit", "returned"}
      /\ call[p].approved => Holder(p)
  BY DEF Holder, Claims, Deciding, At, GuardedAwaits
<1>6. At(p, "finalize") => Holder(p)
  BY DEF Holder, Claims, At
<1>7. CallInv(p)'
  BY <1>1, <1>2, <1>3, <1>4, <1>5, <1>6 DEF CallInv, At
<1>. QED
  BY <1>2, <1>7

\* A step of q that audits nothing keeps the invariant when q itself is left
\* with what CallInv says, and q becomes a holder of an unheld candidate only.
LEMMA OwnStepKeeps ==
  ASSUME IInv, NEW q \in Requests, OwnStep(q), UNCHANGED audit,
         TypeOK', CallInv(q)', ServedInv',
         Holder(q)' => Unheld(q) /\ Cand(q)' = Cand(q),
         Deciding(q)' => Deciding(q) \/ Row(q).status \notin {"published", "rejected"}
  PROVE  IInv'
<1>. USE DEF IInv
<1>1. \A p \in Requests : CallInv(p)'
  BY OthersKeep
<1>2. \A e \in Decisions : e \in Event /\ e.entity \in Candidates
  BY DEF TypeOK, Decisions, Event
<1>3. Decisions' = Decisions
  BY DEF Decisions
<1>4. Exclusive'
  <2>1. ASSUME NEW p \in Requests, NEW r \in Requests,
               Holder(p)', Holder(r)', Cand(p)' = Cand(r)', p # r
        PROVE  FALSE
    <3>1. CASE p = q
      BY <2>1, <3>1, OthersKeep DEF Unheld
    <3>2. CASE r = q
      BY <2>1, <3>2, OthersKeep DEF Unheld
    <3>3. CASE p # q /\ r # q
      BY <2>1, <3>3, OthersKeep DEF Exclusive
    <3>. QED
      BY <3>1, <3>2, <3>3
  <2>2. ASSUME NEW p \in Requests, NEW e \in Decisions, Deciding(p)'
        PROVE  e.entity # Cand(p)'
    <3>1. CASE p # q
      BY <2>2, <3>1, OthersKeep DEF Exclusive
    <3>2. CASE p = q
      <4>1. Cand(q)' = Cand(q)
        BY <2>2, <3>2 DEF Holder
      <4>2. CASE Deciding(q)
        BY <3>2, <4>1, <4>2 DEF Exclusive
      <4>3. CASE Row(q).status \notin {"published", "rejected"}
        BY <3>2, <4>1, <4>3 DEF DecisionAuditedOnce, StatusOf, Row
      <4>. QED
        BY <2>2, <3>2, <4>2, <4>3
    <3>. QED
      BY <3>1, <3>2
  <2>. QED
    BY <1>3, <2>1, <2>2 DEF Exclusive
<1>5. DecisionAuditedOnce'
  <2>1. ASSUME NEW e \in Decisions
        PROVE  candidates'[e.entity] = candidates[e.entity]
    <3>1. candidates[e.entity].status \in {"published", "rejected"}
      BY DEF DecisionAuditedOnce, StatusOf
    <3>. QED
      BY <1>2, <3>1 DEF OwnStep, Row
  <2>. QED
    BY <1>3, <2>1 DEF DecisionAuditedOnce, StatusOf
<1>. QED
  BY <1>1, <1>4, <1>5

\* The same for a step that writes neither rows nor documents.
LEMMA QuietStepKeeps ==
  ASSUME IInv, NEW q \in Requests, OwnStep(q),
         UNCHANGED <<candidates, documents, audit>>,
         TypeOK', CallInv(q)',
         Holder(q)' => Holder(q) /\ Cand(q) \in Candidates /\ Cand(q)' = Cand(q),
         Deciding(q)' => Deciding(q)
  PROVE  IInv'
<1>1. ServedInv'
  BY DEF IInv, ServedInv, PublishedIsServed, RejectedNotServed, BlockedNeverServed
<1>. QED
  BY <1>1, NoOtherHolder, OwnStepKeeps

-----------------------------------------------------------------------------
(* The quiet actions.                                                      *)

LEMMA ReviewKeeps ==
  ASSUME IInv, NEW q \in Requests, Review(q)
  PROVE  IInv'
<1>1. PICK args \in Arguments : call' = [call EXCEPT ![q] = args]
  BY DEF Review
<1>2. /\ pc' = [pc EXCEPT ![q] = "claim"]
      /\ UNCHANGED <<candidates, documents, audit, copy, flags>>
  BY DEF Review, Goto
<1>3. TypeOK'
  BY <1>1, <1>2 DEF IInv, TypeOK, Running, StoreAwaits
<1>4. pc'[q] = "claim" /\ call'[q] \in Arguments
  BY <1>1, <1>2 DEF IInv, TypeOK
<1>5. CallInv(q)'
  BY <1>4 DEF CallInv, Holder, Claims, Deciding, GuardedAwaits, At
<1>6. ~Holder(q)'
  BY <1>4 DEF Holder, Claims, Deciding, GuardedAwaits, At
<1>7. OwnStep(q)
  BY <1>1, <1>2 DEF OwnStep, IInv, TypeOK
<1>. QED
  BY <1>2, <1>3, <1>5, <1>6, <1>7, QuietStepKeeps DEF Holder

\* An error outside the try block, a crash, and a conditional update that
\* found another status all end or redirect a call without any other effect.
LEMMA DropKeeps ==
  ASSUME IInv, NEW q \in Requests, pc[q] # "idle",
         NEW label \in {"broken", "reclaim", "explain", "not_found", "already_reviewed"},
         label = "reclaim" => call[q].approved,
         Goto(q, label), UNCHANGED <<candidates, documents, audit, call, copy, flags>>
  PROVE  IInv'
<1>1. TypeOK' /\ pc'[q] = label
  BY DEF IInv, TypeOK, Goto, Running, StoreAwaits, Ended
<1>2. ~Holder(q)'
  BY <1>1 DEF Holder, Claims, Deciding, GuardedAwaits, At
<1>3. CallInv(q)'
  BY <1>1, <1>2 DEF IInv, CallInv, GuardedAwaits, At
<1>4. OwnStep(q)
  BY DEF OwnStep, IInv, TypeOK, Goto
<1>. QED
  BY <1>1, <1>2, <1>3, <1>4, QuietStepKeeps DEF Holder

\* A document that cannot be built ends its call, which keeps nothing.
LEMMA UnbuildableKeeps ==
  ASSUME IInv, NEW q \in Requests, Load(q), call[q].approved, ~Buildable(q)
  PROVE  IInv'
<1>1. /\ Cand(q) \in Candidates
      /\ pc' = [pc EXCEPT ![q] = "invalid_document"]
      /\ copy' = [copy EXCEPT ![q] = Row(q)]
      /\ UNCHANGED <<candidates, documents, audit, call, flags>>
  BY StartedCall DEF Load, At, Goto, Row
<1>2. TypeOK' /\ pc'[q] = "invalid_document"
  BY <1>1 DEF IInv, TypeOK, Ended, Row
<1>3. ~Holder(q)'
  BY <1>2 DEF Holder, Claims, Deciding, GuardedAwaits, At
<1>4. CallInv(q)'
  BY <1>1, <1>2, <1>3 DEF IInv, CallInv, Load, GuardedAwaits, At
<1>5. OwnStep(q)
  BY <1>1 DEF OwnStep, IInv, TypeOK
<1>. QED
  BY <1>1, <1>2, <1>3, <1>4, <1>5, QuietStepKeeps DEF Holder

LEMMA ReadKeeps ==
  ASSUME IInv, NEW q \in Requests,
         (Load(q) /\ (call[q].approved => Buildable(q))) \/ Reload(q)
  PROVE  IInv'
<1>1. /\ Cand(q) \in Candidates
      /\ call[q].approved \in BOOLEAN
      /\ call[q].reviewer \in Reviewers
  BY StartedCall DEF Load, Reload, At
<1>2. /\ copy' = [copy EXCEPT ![q] = Row(q)]
      /\ UNCHANGED <<candidates, documents, audit, call, flags>>
  BY DEF Load, Reload, Row
<1>3. /\ Load(q) => pc[q] = "load"
      /\ Reload(q) => pc[q] = "reload"
      /\ pc' = [pc EXCEPT ![q] = IF pc[q] = "load" /\ call[q].approved
                                 THEN "scan" ELSE "audit"]
  BY DEF Load, Reload, At, Goto
<1>4. Row(q) \in Candidate
  BY <1>1 DEF IInv, TypeOK, Row
<1>5. /\ copy'[q] = Row(q)
      /\ pc'[q] = IF pc[q] = "load" /\ call[q].approved THEN "scan" ELSE "audit"
      /\ TypeOK'
  BY <1>2, <1>3, <1>4 DEF IInv, TypeOK, Running, StoreAwaits, GuardedAwaits
<1>6. /\ Holder(q)
      /\ pc[q] = "load" \/ (pc[q] = "reload" /\ call[q].approved)
  BY <1>3 DEF Holder, Claims, Deciding, At, IInv, CallInv
<1>7. HeldStatus(q)' = HeldStatus(q) /\ Row(q)' = Row(q)
  BY <1>2, <1>5, <1>6 DEF HeldStatus, Claims, At, GuardedAwaits, Row, Cand
<1>8. CallInv(q)'
  BY <1>1, <1>2, <1>5, <1>6, <1>7 DEF IInv, CallInv, GuardedAwaits, At, Row, Cand,
     HeldStatus, Claims
<1>9. Cand(q)' = Cand(q) /\ (Deciding(q)' => Deciding(q))
  BY <1>2, <1>5, <1>6 DEF Cand, Deciding, At
<1>10. OwnStep(q)
  BY <1>2, <1>3 DEF OwnStep, IInv, TypeOK
<1>. QED
  BY <1>1, <1>2, <1>5, <1>6, <1>8, <1>9, <1>10, QuietStepKeeps

LEMMA ScanKeeps ==
  ASSUME IInv, NEW q \in Requests, Scan(q)
  PROVE  IInv'
<1>1. /\ Cand(q) \in Candidates
      /\ call[q] \in Arguments
      /\ call[q].approved
  BY StartedCall DEF Scan, At, IInv, CallInv, GuardedAwaits
<1>2. /\ pc[q] = "scan"
      /\ pc' = [pc EXCEPT ![q] = AfterScan(Cand(q))]
      /\ flags' = [flags EXCEPT ![q] = RiskFlags(Cand(q))]
      /\ UNCHANGED <<candidates, documents, audit, call, copy>>
  BY DEF Scan, At, Goto
<1>3. /\ AfterScan(Cand(q)) \in {"block", "flag", "upsert"}
      /\ AfterScan(Cand(q)) = "block" <=> Cand(q) \in Blocked
      /\ AfterScan(Cand(q)) = "upsert" => RiskFlags(Cand(q)) = {}
      /\ RiskFlags(Cand(q)) \subseteq Candidates
  BY DEF AfterScan, RiskFlags
<1>4. /\ TypeOK'
      /\ pc'[q] = AfterScan(Cand(q))
      /\ flags'[q] = RiskFlags(Cand(q))
  BY <1>2, <1>3 DEF IInv, TypeOK, Running, StoreAwaits, GuardedAwaits
<1>5. Claims(q) /\ Claims(q)' /\ ~Deciding(q)'
  BY <1>2, <1>3, <1>4 DEF Claims, Deciding, GuardedAwaits, At
<1>6. Cand(q)' = Cand(q) /\ Row(q)' = Row(q)
  BY <1>2 DEF Cand, Row
<1>7. CallInv(q)'
  BY <1>1, <1>2, <1>3, <1>4, <1>5, <1>6
     DEF IInv, CallInv, Holder, HeldStatus, GuardedAwaits, At
<1>8. OwnStep(q)
  BY <1>2 DEF OwnStep, IInv, TypeOK
<1>. QED
  BY <1>1, <1>2, <1>4, <1>5, <1>6, <1>7, <1>8, QuietStepKeeps DEF Holder

LEMMA ExplainKeeps ==
  ASSUME IInv, NEW q \in Requests, Explain(q)
  PROVE  IInv'
<1>1. PICK label \in {"not_found", "already_reviewed"} : Goto(q, label)
  BY DEF Explain
<1>. QED
  BY <1>1, DropKeeps DEF Explain, At

LEMMA StoreErrorKeeps ==
  ASSUME IInv, NEW q \in Requests, StoreError(q)
  PROVE  IInv'
<1>1. pc[q] # "idle" /\ Goto(q, "broken")
  BY DEF StoreError, StoreAwaits
<1>. QED
  BY <1>1, DropKeeps DEF StoreError

LEMMA CrashKeeps ==
  ASSUME IInv, NEW q \in Requests, Crash(q)
  PROVE  IInv'
<1>1. pc[q] # "idle" /\ Goto(q, "broken")
  BY DEF Crash, Running, StoreAwaits, GuardedAwaits
<1>. QED
  BY <1>1, DropKeeps DEF Crash

-----------------------------------------------------------------------------
(* The conditional updates.                                                *)

\* A conditional update that finds the expected status, made by a call that
\* holds the claim or takes it, with the label each new status leads to.
LEMMA UpdateKeeps ==
  ASSUME IInv, NEW q \in Requests, pc[q] # "idle",
         NEW expected, NEW new \in Statuses, NEW label,
         CompareAndSet(q, expected, new), Goto(q, label),
         UNCHANGED <<documents, audit, call, copy, flags>>,
         Row(q).status = expected,
         \/ expected \in {"pending", "publish_failed"}
         \/ expected = "publishing" /\ Claims(q),
         \/ /\ label = "load"
            /\ new = IF call[q].approved THEN "publishing" ELSE "rejected"
         \/ /\ label = "audit_block" /\ call[q].approved
            /\ new = "rejected"
         \/ /\ label = "audit_fail" /\ call[q].approved
            /\ new = "publish_failed"
         \/ /\ label = "reload" /\ call[q].approved
            /\ new = "published"
            /\ documents[Cand(q)] = call[q].reviewer
            /\ flags[q] # {} => Row(q).risk_flags = flags[q],
         new = "rejected" => documents[Cand(q)] = None
  PROVE  IInv'
<1>1. /\ Cand(q) \in Candidates
      /\ call[q] \in Arguments
      /\ call[q].reviewer \in Reviewers
      /\ call[q].approved \in BOOLEAN
  BY StartedCall DEF IInv, CallInv
<1>2. TypeOK
  BY DEF IInv
<1>3. /\ candidates' \in [Candidates -> Candidate]
      /\ \A c \in Candidates \ {Cand(q)} : candidates'[c] = candidates[c]
      /\ candidates'[Cand(q)].status = new
      /\ candidates'[Cand(q)].reviewed_by = call[q].reviewer
      /\ candidates'[Cand(q)].risk_flags = Row(q).risk_flags
  BY <1>1, <1>2, UpdateEffect
<1>4. TypeOK' /\ pc'[q] = label
  BY <1>2, <1>3 DEF TypeOK, Goto, Running, StoreAwaits
<1>5. Unheld(q)
  BY <1>1, NoOtherHolder DEF Holder
<1>6. Row(q).status \notin {"published", "rejected"}
  OBVIOUS
<1>7. OwnStep(q)
  BY <1>2, <1>3, <1>5, <1>6 DEF OwnStep, TypeOK, Goto
<1>8. /\ Row(q)' = candidates'[Cand(q)]
      /\ Cand(q)' = Cand(q)
  BY DEF Row, Cand
<1>9. CallInv(q)'
  BY <1>1, <1>3, <1>4, <1>8
     DEF CallInv, Holder, HeldStatus, Claims, Deciding, GuardedAwaits, At
<1>10. ServedInv'
  <2>1. new \notin {"absent", "pending"}
    OBVIOUS
  <2>2. ASSUME NEW c \in Candidates
        PROVE  /\ candidates'[c].status \in {"absent", "pending"} => documents[c] = None
               /\ candidates'[c].status = "published" =>
                    documents[c] # None /\ documents[c] = candidates'[c].reviewed_by
               /\ candidates'[c].status = "rejected" => documents[c] = None
    <3>1. CASE c = Cand(q)
      BY <1>1, <1>3, <2>1, <3>1, ReviewAssumption
    <3>2. CASE c # Cand(q)
      BY <1>3, <3>2 DEF IInv, ServedInv, PublishedIsServed, RejectedNotServed
    <3>. QED
      BY <3>1, <3>2
  <2>. QED
    BY <2>2 DEF IInv, ServedInv, PublishedIsServed, RejectedNotServed, BlockedNeverServed
<1>. QED
  BY <1>4, <1>5, <1>6, <1>7, <1>8, <1>9, <1>10, OwnStepKeeps

LEMMA ClaimPendingKeeps ==
  ASSUME IInv, NEW q \in Requests, ClaimPending(q)
  PROVE  IInv'
<1>1. /\ Cand(q) \in Candidates
      /\ call[q].reviewer \in Reviewers
      /\ call[q].approved \in BOOLEAN
      /\ pc[q] # "idle"
  BY StartedCall DEF ClaimPending, At
<1>2. /\ CompareAndSet(q, "pending", ClaimedStatus(q))
      /\ UNCHANGED <<documents, audit, call, copy, flags>>
      /\ ClaimedStatus(q) = IF call[q].approved THEN "publishing" ELSE "rejected"
      /\ ClaimedStatus(q) \in Statuses
  BY <1>1 DEF ClaimPending, ClaimedStatus, Statuses
<1>3. CASE Row(q).status = "pending"
  <2>1. Goto(q, "load")
    BY <1>3 DEF ClaimPending, Holds, Row
  <2>2. documents[Cand(q)] = None
    BY <1>1, <1>3 DEF IInv, ServedInv, Row
  <2>. QED
    BY <1>1, <1>2, <1>3, <2>1, <2>2, UpdateKeeps
<1>4. CASE Row(q).status # "pending"
  <2>1. UNCHANGED candidates
    BY <1>2, <1>4 DEF CompareAndSet, Holds, Row
  <2>2. PICK label \in {"reclaim", "explain"} :
          Goto(q, label) /\ (label = "reclaim" => call[q].approved)
    BY <1>4 DEF ClaimPending, Holds, Row
  <2>. QED
    BY <1>1, <1>2, <2>1, <2>2, DropKeeps
<1>. QED
  BY <1>3, <1>4

LEMMA ClaimFailedKeeps ==
  ASSUME IInv, NEW q \in Requests, ClaimFailed(q)
  PROVE  IInv'
<1>1. pc[q] = "reclaim" /\ call[q].approved
  BY DEF ClaimFailed, At, IInv, CallInv
<1>2. /\ CompareAndSet(q, "publish_failed", "publishing")
      /\ UNCHANGED <<documents, audit, call, copy, flags>>
      /\ "publishing" \in Statuses
  BY DEF ClaimFailed, RetryableStatus, Statuses
<1>3. CASE Row(q).status = "publish_failed"
  <2>1. Goto(q, "load")
    BY <1>3 DEF ClaimFailed, RetryableStatus, Holds, Row
  <2>. QED
    BY <1>1, <1>2, <1>3, <2>1, UpdateKeeps
<1>4. CASE Row(q).status # "publish_failed"
  <2>1. UNCHANGED candidates /\ Goto(q, "explain")
    BY <1>2, <1>4 DEF ClaimFailed, RetryableStatus, CompareAndSet, Holds, Row
  <2>. QED
    BY <1>1, <1>2, <2>1, DropKeeps
<1>. QED
  BY <1>3, <1>4

\* At every conditional update after the claim the row is still publishing.
LEMMA ClaimedRow ==
  ASSUME IInv, NEW q \in Requests,
         pc[q] \in {"block", "fail", "finalize"} \cup GuardedAwaits
  PROVE  /\ Claims(q)
         /\ call[q].approved
         /\ Row(q).status = "publishing"
         /\ Row(q).reviewed_by = call[q].reviewer
BY DEF IInv, CallInv, Holder, HeldStatus, Claims, GuardedAwaits

LEMMA BlockKeeps ==
  ASSUME IInv, NEW q \in Requests, Block(q)
  PROVE  IInv'
<1>1. /\ pc[q] = "block"
      /\ CompareAndSet(q, "publishing", "rejected")
      /\ Goto(q, "audit_block")
      /\ UNCHANGED <<documents, audit, call, copy, flags>>
      /\ "rejected" \in Statuses
  BY DEF Block, At, Statuses
<1>2. documents[Cand(q)] = None
  BY <1>1 DEF IInv, CallInv, At, ServedInv, BlockedNeverServed
<1>. QED
  BY <1>1, <1>2, ClaimedRow, UpdateKeeps

LEMMA MarkFailedKeeps ==
  ASSUME IInv, NEW q \in Requests, MarkFailed(q)
  PROVE  IInv'
<1>1. /\ pc[q] = "fail"
      /\ CompareAndSet(q, "publishing", "publish_failed")
      /\ Goto(q, "audit_fail")
      /\ UNCHANGED <<documents, audit, call, copy, flags>>
      /\ "publish_failed" \in Statuses
  BY DEF MarkFailed, At, Statuses, IInv, CallInv
<1>. QED
  BY <1>1, ClaimedRow, UpdateKeeps

LEMMA FinalizeKeeps ==
  ASSUME IInv, NEW q \in Requests, Finalize(q)
  PROVE  IInv'
<1>1. /\ pc[q] = "finalize"
      /\ CompareAndSet(q, "publishing", "published")
      /\ UNCHANGED <<documents, audit, call, copy, flags>>
      /\ "published" \in Statuses
  BY DEF Finalize, At, Statuses
<1>2. /\ Row(q).status = "publishing"
      /\ Claims(q)
      /\ call[q].approved
  BY <1>1, ClaimedRow
<1>3. Goto(q, "reload")
  BY <1>2 DEF Finalize, Holds, Row
<1>4. /\ documents[Cand(q)] = call[q].reviewer
      /\ flags[q] # {} => Row(q).risk_flags = flags[q]
  BY <1>1, <1>2 DEF IInv, CallInv, At
<1>. QED
  BY <1>1, <1>2, <1>3, <1>4, UpdateKeeps

-----------------------------------------------------------------------------
(* The writes of the try block, answered or not.                           *)

\* update_candidate writes the claimed row back with the flags of the scan.
LEMMA FlagWriteKeeps ==
  ASSUME IInv, NEW q \in Requests, pc[q] = "flag",
         candidates' = [candidates EXCEPT ![Cand(q)] = FlaggedRow(q)],
         NEW label \in {"upsert", "fail"}, Goto(q, label),
         UNCHANGED <<documents, audit, call, copy, flags>>
  PROVE  IInv'
<1>1. /\ Cand(q) \in Candidates
      /\ call[q] \in Arguments
      /\ call[q].reviewer \in Reviewers
  BY StartedCall DEF IInv, CallInv
<1>2. /\ Claims(q) /\ call[q].approved
      /\ Row(q).status = "publishing"
      /\ copy[q].status = "publishing"
      /\ copy[q].reviewed_by = call[q].reviewer
      /\ Cand(q) \notin Blocked
  BY ClaimedRow DEF GuardedAwaits, IInv, CallInv
<1>3. TypeOK /\ copy[q] \in Candidate /\ flags[q] \subseteq Candidates
  BY DEF IInv, TypeOK
<1>4. /\ FlaggedRow(q) \in Candidate
      /\ FlaggedRow(q).status = "publishing"
      /\ FlaggedRow(q).reviewed_by = call[q].reviewer
      /\ FlaggedRow(q).risk_flags = flags[q]
  BY <1>2, <1>3 DEF FlaggedRow, Candidate
<1>5. /\ Row(q)' = FlaggedRow(q)
      /\ \A c \in Candidates \ {Cand(q)} : candidates'[c] = candidates[c]
      /\ TypeOK'
      /\ pc'[q] = label
  BY <1>1, <1>3, <1>4 DEF TypeOK, Row, Cand, Goto, Running, StoreAwaits, GuardedAwaits
<1>6. Unheld(q)
  BY <1>1, <1>2, NoOtherHolder DEF Holder
<1>7. OwnStep(q)
  BY <1>2, <1>3, <1>5, <1>6 DEF OwnStep, TypeOK, Goto
<1>8. Cand(q)' = Cand(q) /\ Claims(q)' /\ ~Deciding(q)'
  BY <1>5 DEF Cand, Claims, Deciding, GuardedAwaits, At
<1>9. CallInv(q)'
  BY <1>1, <1>2, <1>4, <1>5, <1>8
     DEF CallInv, Holder, HeldStatus, GuardedAwaits, At
<1>10. ServedInv'
  BY <1>1, <1>4, <1>5 DEF IInv, ServedInv, PublishedIsServed, RejectedNotServed,
     BlockedNeverServed, Row, Cand
<1>. QED
  BY <1>5, <1>6, <1>7, <1>8, <1>9, <1>10, OwnStepKeeps

\* upsert serves the document of the claimed candidate.
LEMMA UpsertWriteKeeps ==
  ASSUME IInv, NEW q \in Requests, pc[q] = "upsert",
         documents' = [documents EXCEPT ![Cand(q)] = call[q].reviewer],
         NEW label \in {"finalize", "fail"}, Goto(q, label),
         UNCHANGED <<candidates, audit, call, copy, flags>>
  PROVE  IInv'
<1>1. /\ Cand(q) \in Candidates
      /\ call[q] \in Arguments
      /\ call[q].reviewer \in Reviewers
  BY StartedCall DEF IInv, CallInv
<1>2. /\ Claims(q) /\ call[q].approved
      /\ Row(q).status = "publishing"
      /\ Row(q).reviewed_by = call[q].reviewer
      /\ Cand(q) \notin Blocked
      /\ flags[q] # {} => Row(q).risk_flags = flags[q]
  BY ClaimedRow DEF GuardedAwaits, IInv, CallInv
<1>3. TypeOK
  BY DEF IInv
<1>4. /\ documents'[Cand(q)] = call[q].reviewer
      /\ \A c \in Candidates \ {Cand(q)} : documents'[c] = documents[c]
      /\ TypeOK'
      /\ pc'[q] = label
  BY <1>1, <1>3 DEF TypeOK, Goto, Running, StoreAwaits
<1>5. Unheld(q)
  BY <1>1, <1>2, NoOtherHolder DEF Holder
<1>6. OwnStep(q)
  BY <1>2, <1>3, <1>4, <1>5 DEF OwnStep, TypeOK, Goto
<1>7. Cand(q)' = Cand(q) /\ Row(q)' = Row(q) /\ Claims(q)' /\ ~Deciding(q)'
  BY <1>4 DEF Cand, Row, Claims, Deciding, GuardedAwaits, At
<1>8. CallInv(q)'
  BY <1>1, <1>2, <1>4, <1>7
     DEF CallInv, Holder, HeldStatus, GuardedAwaits, At
<1>9. ServedInv'
  BY <1>1, <1>2, <1>4 DEF IInv, ServedInv, PublishedIsServed, RejectedNotServed,
     BlockedNeverServed, Row
<1>. QED
  BY <1>4, <1>5, <1>6, <1>7, <1>8, <1>9, OwnStepKeeps

LEMMA GuardedErrorKeeps ==
  ASSUME IInv, NEW q \in Requests, GuardedError(q)
  PROVE  IInv'
<1>1. Goto(q, "fail") /\ UNCHANGED <<audit, call, copy, flags>>
  BY DEF GuardedError, ErrorHandler
<1>2. CASE At(q, "upsert") /\ documents' = [documents EXCEPT ![Cand(q)] = call[q].reviewer]
           /\ UNCHANGED candidates
  BY <1>1, <1>2, UpsertWriteKeeps DEF At
<1>3. CASE At(q, "flag") /\ candidates' = [candidates EXCEPT ![Cand(q)] = FlaggedRow(q)]
           /\ UNCHANGED documents
  BY <1>1, <1>3, FlagWriteKeeps DEF At
<1>4. CASE UNCHANGED <<candidates, documents>>
  <2>1. pc[q] \in GuardedAwaits
    BY DEF GuardedError, GuardedAwaits, At
  <2>2. /\ Claims(q) /\ call[q].approved
        /\ Row(q).status = "publishing"
        /\ Row(q).reviewed_by = call[q].reviewer
        /\ call[q] \in Arguments /\ Cand(q) \in Candidates
    BY <2>1, ClaimedRow, StartedCall DEF IInv, CallInv, GuardedAwaits
  <2>3. TypeOK' /\ pc'[q] = "fail"
    BY <1>1, <1>4 DEF IInv, TypeOK, Goto, Running, StoreAwaits
  <2>4. Cand(q)' = Cand(q) /\ Row(q)' = Row(q) /\ Claims(q)' /\ ~Deciding(q)'
    BY <1>1, <1>4, <2>3 DEF Cand, Row, Claims, Deciding, GuardedAwaits, At
  <2>5. CallInv(q)'
    BY <1>1, <2>2, <2>3, <2>4 DEF CallInv, Holder, HeldStatus, GuardedAwaits, At
  <2>6. OwnStep(q)
    BY <1>1, <1>4 DEF OwnStep, IInv, TypeOK, Goto
  <2>. QED
    BY <1>1, <1>4, <2>2, <2>3, <2>4, <2>5, <2>6, QuietStepKeeps DEF Holder
<1>. QED
  BY <1>2, <1>3, <1>4 DEF GuardedError

-----------------------------------------------------------------------------
(* The audit trail and the creation of candidates.                         *)

LEMMA RecordAuditKeeps ==
  ASSUME IInv, NEW q \in Requests, RecordAudit(q)
  PROVE  IInv'
<1>. DEFINE event == [type |-> AuditType(q), actor |-> call[q].reviewer,
                      entity |-> Cand(q), request |-> q]
<1>1. /\ Cand(q) \in Candidates
      /\ call[q] \in Arguments
      /\ call[q].reviewer \in Reviewers
      /\ call[q].approved \in BOOLEAN
      /\ TypeOK
  BY StartedCall DEF RecordAudit, IInv, CallInv
<1>2. /\ pc[q] \in {"audit", "audit_block", "audit_fail"}
      /\ audit' = audit \cup {event}
      /\ UNCHANGED <<candidates, documents, call, copy, flags>>
  BY DEF RecordAudit
<1>3. PICK label \in {"policy_violation", "publish_error", "returned"} :
        /\ pc' = [pc EXCEPT ![q] = label]
        /\ label = "returned" <=> pc[q] = "audit"
  <2>1. CASE pc[q] = "audit_block"
    BY <2>1 DEF RecordAudit, Goto, At
  <2>2. CASE pc[q] = "audit_fail"
    BY <2>2 DEF RecordAudit, Goto, At
  <2>3. CASE pc[q] = "audit"
    BY <2>3 DEF RecordAudit, Goto, At
  <2>. QED
    BY <1>2, <2>1, <2>2, <2>3
<1>4. /\ event.type = CASE pc[q] = "audit_block" -> "policy_rejected"
                        [] pc[q] = "audit_fail" -> "publish_failed"
                        [] OTHER -> IF call[q].approved THEN "published" ELSE "rejected"
      /\ event.actor = call[q].reviewer
      /\ event.entity = Cand(q)
      /\ event \in Event
  BY <1>1 DEF AuditType, At, Event, EventTypes
<1>. HIDE DEF event
<1>5. TypeOK' /\ pc'[q] = label
  BY <1>1, <1>2, <1>3, <1>4 DEF TypeOK, Ended
<1>6. OwnStep(q)
  BY <1>1, <1>2, <1>3 DEF OwnStep, TypeOK
<1>7. Cand(q)' = Cand(q) /\ Row(q)' = Row(q) /\ ~Deciding(q)' /\ ~Claims(q)'
  BY <1>2, <1>5 DEF Cand, Row, Claims, Deciding, GuardedAwaits, At
<1>8. pc[q] \in {"audit", "audit_block"} =>
        /\ Deciding(q) /\ Holder(q)
        /\ Row(q).status = IF pc[q] = "audit" /\ call[q].approved
                           THEN "published" ELSE "rejected"
        /\ Row(q).reviewed_by = call[q].reviewer
  BY <1>1 DEF IInv, CallInv, Holder, Deciding, HeldStatus, Claims, GuardedAwaits, At
<1>9. CallInv(q)'
  BY <1>1, <1>2, <1>3, <1>5, <1>7, <1>8
     DEF IInv, CallInv, Holder, HeldStatus, GuardedAwaits, At
<1>10. \A p \in Requests : CallInv(p)'
  BY <1>6, <1>9, OthersKeep
<1>11. ServedInv'
  BY <1>2 DEF IInv, ServedInv, PublishedIsServed, RejectedNotServed, BlockedNeverServed
<1>12. Holder(q)' => Holder(q)
  BY <1>2, <1>3, <1>5, <1>7, <1>8 DEF Holder, At
<1>13. \/ Decisions' = Decisions
       \/ /\ Decisions' = Decisions \cup {event}
          /\ pc[q] \in {"audit", "audit_block"}
  <2>1. CASE pc[q] = "audit_fail"
    BY <1>2, <1>4, <2>1 DEF Decisions
  <2>2. CASE pc[q] \in {"audit", "audit_block"}
    BY <1>1, <1>2, <1>4, <2>2 DEF Decisions
  <2>. QED
    BY <1>2, <2>1, <2>2
<1>14. \A e \in Decisions : Deciding(q) => e.entity # Cand(q)
  BY DEF IInv, Exclusive
<1>15. Exclusive'
  <2>1. ASSUME NEW p \in Requests, NEW r \in Requests,
               Holder(p)', Holder(r)', Cand(p)' = Cand(r)'
        PROVE  p = r
    BY <1>6, <1>7, <1>12, <2>1, OthersKeep DEF IInv, Exclusive
  <2>2. ASSUME NEW p \in Requests, NEW e \in Decisions', Deciding(p)'
        PROVE  e.entity # Cand(p)'
    <3>1. p # q /\ Deciding(p) /\ Cand(p)' = Cand(p)
      BY <1>6, <1>7, <2>2, OthersKeep
    <3>2. CASE e \in Decisions
      BY <3>1, <3>2 DEF IInv, Exclusive
    <3>3. CASE e = event /\ pc[q] \in {"audit", "audit_block"}
      BY <1>4, <1>8, <3>1, <3>3 DEF IInv, Exclusive, Holder
    <3>. QED
      BY <1>13, <3>2, <3>3
  <2>. QED
    BY <2>1, <2>2 DEF Exclusive
<1>16. DecisionAuditedOnce'
  <2>1. ASSUME NEW e \in Decisions'
        PROVE  /\ candidates[e.entity].status = StatusOf(e.type)
               /\ candidates[e.entity].reviewed_by = e.actor
    <3>1. CASE e \in Decisions
      BY <3>1 DEF IInv, DecisionAuditedOnce
    <3>2. CASE e = event /\ pc[q] = "audit"
      BY <1>1, <1>4, <1>8, <3>2 DEF StatusOf, Row
    <3>3. CASE e = event /\ pc[q] = "audit_block"
      BY <1>1, <1>4, <1>8, <3>3 DEF StatusOf, Row
    <3>. QED
      BY <1>13, <3>1, <3>2, <3>3
  <2>2. ASSUME NEW e \in Decisions', NEW f \in Decisions', e.entity = f.entity
        PROVE  e = f
    BY <1>4, <1>8, <1>13, <1>14, <2>2 DEF IInv, DecisionAuditedOnce
  <2>. QED
    BY <1>2, <2>1, <2>2 DEF DecisionAuditedOnce
<1>. QED
  BY <1>5, <1>10, <1>11, <1>15, <1>16 DEF IInv

LEMMA SaveCandidateKeeps ==
  ASSUME IInv, NEW c \in Candidates, SaveCandidate(c)
  PROVE  IInv'
<1>1. /\ candidates[c].status = "absent"
      /\ candidates' = [candidates EXCEPT ![c] = [candidates[c] EXCEPT !.status = "pending"]]
      /\ UNCHANGED <<documents, audit, pc, call, copy, flags>>
      /\ TypeOK
  BY DEF SaveCandidate, IInv
<1>2. /\ TypeOK'
      /\ \A d \in Candidates \ {c} : candidates'[d] = candidates[d]
      /\ candidates'[c].status = "pending"
  BY <1>1 DEF TypeOK, Candidate, Statuses
<1>3. ASSUME NEW q \in Requests
      PROVE  CallInv(q)' /\ Holder(q)' = Holder(q) /\ Deciding(q)' = Deciding(q)
             /\ Cand(q)' = Cand(q)
  <2>1. CallInv(q)
    BY DEF IInv
  <2>2. /\ Holder(q)' = Holder(q) /\ Deciding(q)' = Deciding(q)
        /\ Cand(q)' = Cand(q) /\ HeldStatus(q)' = HeldStatus(q)
        /\ \A label : At(q, label)' = At(q, label)
    BY <1>1 DEF Holder, Claims, Deciding, Cand, HeldStatus, At
  <2>3. Holder(q) => Row(q)' = Row(q)
    <3>1. ASSUME Holder(q) PROVE Cand(q) \in Candidates /\ Row(q).status # "absent"
      BY <2>1, <3>1, StartedCall
         DEF CallInv, HeldStatus, Holder, Claims, Deciding, At, GuardedAwaits
    <3>. QED
      BY <1>1, <1>2, <2>2, <3>1 DEF Row
  <2>4. pc[q] \in {"upsert", "finalize", "reload", "audit", "returned"}
        /\ call[q].approved => Holder(q)
    BY DEF Holder, Claims, Deciding, At, GuardedAwaits
  <2>5. CallInv(q)'
    BY <1>1, <2>1, <2>2, <2>3, <2>4 DEF CallInv, At
  <2>. QED
    BY <2>2, <2>5
<1>4. Decisions' = Decisions
  BY <1>1 DEF Decisions
<1>5. Exclusive'
  BY <1>3, <1>4 DEF IInv, Exclusive
<1>6. ServedInv'
  BY <1>1, <1>2 DEF IInv, ServedInv, PublishedIsServed, RejectedNotServed,
     BlockedNeverServed
<1>7. DecisionAuditedOnce'
  <2>1. ASSUME NEW e \in Decisions
        PROVE  candidates'[e.entity] = candidates[e.entity]
    BY <1>1, <1>2 DEF IInv, DecisionAuditedOnce, StatusOf, TypeOK, Decisions, Event
  <2>. QED
    BY <1>4, <2>1 DEF IInv, DecisionAuditedOnce
<1>. QED
  BY <1>2, <1>3, <1>5, <1>6, <1>7 DEF IInv

-----------------------------------------------------------------------------
(* The theorems.                                                           *)

LEMMA InitIInv == Init => IInv
<1>. SUFFICES ASSUME Init PROVE IInv
  OBVIOUS
<1>1. TypeOK
  BY DEF Init, TypeOK, AbsentRow, Candidate, Statuses, NoCall
<1>2. ASSUME NEW q \in Requests PROVE CallInv(q) /\ ~Holder(q) /\ ~Deciding(q)
  BY DEF Init, CallInv, Holder, Claims, Deciding, GuardedAwaits, At
<1>3. Decisions = {}
  BY DEF Init, Decisions
<1>4. ServedInv /\ DecisionAuditedOnce
  <2>1. \A c \in Candidates : documents[c] = None /\ candidates[c].status = "absent"
    BY DEF Init, AbsentRow
  <2>. QED
    BY <1>3, <2>1, ReviewAssumption DEF ServedInv, PublishedIsServed,
       RejectedNotServed, BlockedNeverServed, DecisionAuditedOnce
<1>. QED
  BY <1>1, <1>2, <1>3, <1>4 DEF IInv, Exclusive

LEMMA NextIInv == IInv /\ [Next]_vars => IInv'
<1>. SUFFICES ASSUME IInv, [Next]_vars PROVE IInv'
  OBVIOUS
<1>1. CASE \E c \in Candidates : SaveCandidate(c)
  BY <1>1, SaveCandidateKeeps
<1>2. ASSUME NEW q \in Requests, Review(q) \/ Step(q) \/ StoreError(q) \/ Crash(q)
      PROVE  IInv'
  BY <1>2, ReviewKeeps, ClaimPendingKeeps, ClaimFailedKeeps, ExplainKeeps, ReadKeeps, UnbuildableKeeps,
     ScanKeeps, GuardedErrorKeeps, BlockKeeps, MarkFailedKeeps, FinalizeKeeps,
     RecordAuditKeeps, StoreErrorKeeps, CrashKeeps, FlagWriteKeeps, UpsertWriteKeeps
     DEF Step, Flag, Upsert, At
<1>3. CASE UNCHANGED vars
  <2>1. UNCHANGED <<candidates, documents, audit, pc, call, copy, flags>>
    BY <1>3 DEF vars
  <2>2. ASSUME NEW q \in Requests
        PROVE  CallInv(q)' = CallInv(q) /\ Holder(q)' = Holder(q)
               /\ Deciding(q)' = Deciding(q) /\ Cand(q)' = Cand(q)
    BY <2>1 DEF CallInv, Holder, HeldStatus, Claims, Deciding, Row, Cand, At
  <2>3. Decisions' = Decisions
    BY <2>1 DEF Decisions
  <2>4. Exclusive'
    BY <2>2, <2>3 DEF IInv, Exclusive
  <2>5. (TypeOK /\ ServedInv /\ DecisionAuditedOnce)'
    BY <2>1, <2>3 DEF IInv, TypeOK, ServedInv, PublishedIsServed, RejectedNotServed,
       BlockedNeverServed, DecisionAuditedOnce
  <2>. QED
    BY <2>2, <2>4, <2>5 DEF IInv
<1>. QED
  BY <1>1, <1>2, <1>3 DEF Next

\* The inductive invariant holds of every state any set of concurrent review
\* calls, with any dependency errors and crashes, can reach.
THEOREM Invariance == Spec => []IInv
BY InitIInv, NextIInv, PTL DEF Spec

\* Rows, documents, events and local copies keep their types.
THEOREM TypeCorrect == Spec => []TypeOK
<1>1. IInv => TypeOK
  BY DEF IInv
<1>. QED
  BY <1>1, Invariance, PTL

\* However many reviewers act at once, one at most is publishing a candidate.
THEOREM MutualExclusion == Spec => []OneClaimant
<1>1. IInv => OneClaimant
  BY DEF IInv, CallInv, Exclusive, OneClaimant, Holder, HeldStatus, Row
<1>. QED
  BY <1>1, Invariance, PTL

\* A published candidate is served under the reviewer it names.
THEOREM ServedMatchesStatus == Spec => []PublishedIsServed
<1>1. IInv => PublishedIsServed
  BY DEF IInv, ServedInv
<1>. QED
  BY <1>1, Invariance, PTL

\* The text of a rejected candidate is not served, whatever attempts to publish
\* it went before.
THEOREM RejectedStaysUnserved == Spec => []RejectedNotServed
<1>1. IInv => RejectedNotServed
  BY DEF IInv, ServedInv
<1>. QED
  BY <1>1, Invariance, PTL

\* What the ingestion policy refuses is served to nobody, and no later attempt
\* gets round it.
THEOREM BlockedStaysUnserved == Spec => []BlockedNeverServed
<1>1. IInv => BlockedNeverServed
  BY DEF IInv, ServedInv
<1>. QED
  BY <1>1, Invariance, PTL

\* The audit trail and the candidate rows tell the same story, once.
THEOREM AuditMatchesRows == Spec => []DecisionAuditedOnce
<1>1. IInv => DecisionAuditedOnce
  BY DEF IInv
<1>. QED
  BY <1>1, Invariance, PTL

\* The RuntimeError of line 192 cannot be raised.
THEOREM FinalUpdateNeverLost == Spec => []NeverUnexpected
<1>1. IInv => NeverUnexpected
  BY DEF IInv, CallInv, NeverUnexpected
<1>. QED
  BY <1>1, Invariance, PTL

\* The flags found by the publishing call stay on the published row.
THEOREM FlagsAreKept == Spec => []FlagsSurvive
<1>1. IInv => FlagsSurvive
  BY DEF IInv, CallInv, FlagsSurvive, Row, At
<1>. QED
  BY <1>1, Invariance, PTL

-----------------------------------------------------------------------------
(* Refinement.                                                             *)

\* A step that changes one row's status and reviewer, seen by the life cycle.
LEMMA RowSeen ==
  ASSUME NEW c \in Candidates,
         \A d \in Candidates \ {c} : candidates'[d] = candidates[d]
  PROVE  /\ StatusBar' = [StatusBar EXCEPT ![c] = candidates'[c].status]
         /\ ReviewerBar' = [ReviewerBar EXCEPT ![c] = candidates'[c].reviewed_by]
         /\ StatusBar[c] = candidates[c].status
         /\ ReviewerBar[c] = candidates[c].reviewed_by
BY DEF StatusBar, ReviewerBar

LEMMA UnchangedSeen ==
  ASSUME UNCHANGED candidates
  PROVE  UNCHANGED <<StatusBar, ReviewerBar>>
BY DEF StatusBar, ReviewerBar

\* A conditional update is a step of the life cycle when the status it sets
\* may follow the one it expects, and nothing when it does not find it.
LEMMA UpdateImplements ==
  ASSUME IInv, NEW q \in Requests, pc[q] # "idle",
         NEW expected, NEW new \in Statuses,
         CompareAndSet(q, expected, new), UNCHANGED documents,
         \/ expected = "pending" /\ new \in {"publishing", "rejected"}
         \/ expected = "publish_failed" /\ new = "publishing"
         \/ /\ expected = "publishing" /\ Row(q).status = expected
            /\ Row(q).reviewed_by = call[q].reviewer
            /\ \/ new = "publish_failed"
               \/ new = "published" /\ documents[Cand(q)] = call[q].reviewer
               \/ new = "rejected" /\ documents[Cand(q)] = None
  PROVE  [Lifecycle!Next]_(Lifecycle!vars)
<1>. DEFINE c == Cand(q)
            r == call[q].reviewer
<1>1. c \in Candidates /\ r \in Reviewers /\ TypeOK
  BY StartedCall DEF IInv
<1>2. /\ \A d \in Candidates \ {c} : candidates'[d] = candidates[d]
      /\ Row(q).status = expected => /\ candidates'[c].status = new
                                     /\ candidates'[c].reviewed_by = r
      /\ Row(q).status # expected => candidates' = candidates
  BY <1>1, UpdateEffect
<1>. HIDE DEF c, r
<1>3. CASE Row(q).status # expected
  BY <1>2, <1>3, UnchangedSeen DEF Lifecycle!vars
<1>4. CASE Row(q).status = expected
  <2>1. /\ StatusBar' = [StatusBar EXCEPT ![c] = new]
        /\ ReviewerBar' = [ReviewerBar EXCEPT ![c] = r]
        /\ StatusBar[c] = expected
        /\ ReviewerBar[c] = Row(q).reviewed_by
    BY <1>1, <1>2, <1>4, RowSeen DEF Row, c
  <2>2. CASE expected \in {"pending", "publish_failed"} /\ new = "publishing"
    <3>1. Lifecycle!Claim(c, r)
      BY <2>1, <2>2 DEF Lifecycle!Claim, Lifecycle!Become
    <3>. QED
      BY <1>1, <3>1 DEF Lifecycle!Next
  <2>3. CASE expected = "pending" /\ new = "rejected"
    <3>1. Lifecycle!Decline(c, r)
      BY <2>1, <2>3 DEF Lifecycle!Decline, Lifecycle!Become
    <3>. QED
      BY <1>1, <3>1 DEF Lifecycle!Next
  <2>4. CASE expected = "publishing"
    <3>1. ReviewerBar[c] = r /\ UNCHANGED ReviewerBar
      BY <2>1, <2>4 DEF ReviewerBar, r
    <3>2. Lifecycle!Fail(c) \/ Lifecycle!Publish(c) \/ Lifecycle!Refuse(c)
      BY <2>1, <2>4, <3>1
         DEF Lifecycle!Fail, Lifecycle!Publish, Lifecycle!Refuse, Lifecycle!Become, c, r
    <3>. QED
      BY <1>1, <3>2 DEF Lifecycle!Next
  <2>. QED
    BY <2>2, <2>3, <2>4
<1>. QED
  BY <1>3, <1>4

\* The document write of a claimed candidate is the life cycle's Serve.
LEMMA UpsertImplements ==
  ASSUME IInv, NEW q \in Requests, pc[q] = "upsert",
         documents' = [documents EXCEPT ![Cand(q)] = call[q].reviewer],
         UNCHANGED candidates
  PROVE  [Lifecycle!Next]_(Lifecycle!vars)
<1>1. /\ Cand(q) \in Candidates
      /\ Row(q).status = "publishing"
      /\ Row(q).reviewed_by = call[q].reviewer
  BY StartedCall, ClaimedRow DEF GuardedAwaits
<1>2. /\ StatusBar[Cand(q)] = "publishing"
      /\ ReviewerBar[Cand(q)] = call[q].reviewer
      /\ UNCHANGED <<StatusBar, ReviewerBar>>
  BY <1>1, UnchangedSeen DEF StatusBar, ReviewerBar, Row
<1>3. Lifecycle!Serve(Cand(q))
  BY <1>2 DEF Lifecycle!Serve
<1>. QED
  BY <1>1, <1>3 DEF Lifecycle!Next

\* The whole-row write of the flags is invisible to the life cycle.
LEMMA FlagImplements ==
  ASSUME IInv, NEW q \in Requests, pc[q] = "flag",
         candidates' = [candidates EXCEPT ![Cand(q)] = FlaggedRow(q)],
         UNCHANGED documents
  PROVE  UNCHANGED Lifecycle!vars
<1>1. /\ Cand(q) \in Candidates
      /\ Row(q).status = "publishing"
      /\ Row(q).reviewed_by = call[q].reviewer
      /\ copy[q].status = "publishing"
      /\ copy[q].reviewed_by = call[q].reviewer
  BY StartedCall, ClaimedRow DEF GuardedAwaits, IInv, CallInv
<1>2. copy[q] \in Candidate /\ TypeOK
  BY DEF IInv, TypeOK
<1>3. /\ FlaggedRow(q).status = Row(q).status
      /\ FlaggedRow(q).reviewed_by = Row(q).reviewed_by
  BY <1>1, <1>2 DEF FlaggedRow, Candidate
<1>4. \A d \in Candidates : /\ candidates'[d].status = candidates[d].status
                            /\ candidates'[d].reviewed_by = candidates[d].reviewed_by
  BY <1>1, <1>2, <1>3 DEF TypeOK, Row
<1>. QED
  BY <1>4 DEF StatusBar, ReviewerBar, Lifecycle!vars

\* Every step of the review handlers is a step of the publication life cycle
\* or invisible to it.
THEOREM Refinement == Spec => ImplementsLifecycle
<1>1. Init => Lifecycle!Init
  BY DEF Init, AbsentRow, Lifecycle!Init, StatusBar, ReviewerBar
<1>2. IInv /\ [Next]_vars => [Lifecycle!Next]_(Lifecycle!vars)
  <2>. SUFFICES ASSUME IInv, [Next]_vars PROVE [Lifecycle!Next]_(Lifecycle!vars)
    OBVIOUS
  <2>1. CASE UNCHANGED vars
    BY <2>1, UnchangedSeen DEF vars, Lifecycle!vars
  <2>2. ASSUME NEW c \in Candidates, SaveCandidate(c)
        PROVE  Lifecycle!Create(c)
    <3>1. /\ candidates[c].status = "absent"
          /\ candidates' = [candidates EXCEPT ![c] = [candidates[c] EXCEPT !.status = "pending"]]
          /\ UNCHANGED documents
          /\ candidates \in [Candidates -> Candidate]
      BY <2>2 DEF SaveCandidate, IInv, TypeOK
    <3>2. /\ \A d \in Candidates \ {c} : candidates'[d] = candidates[d]
          /\ candidates'[c].status = "pending"
          /\ candidates'[c].reviewed_by = candidates[c].reviewed_by
      BY <3>1 DEF Candidate
    <3>3. /\ StatusBar' = [StatusBar EXCEPT ![c] = "pending"]
          /\ StatusBar[c] = "absent"
      BY <3>1, <3>2, RowSeen
    <3>4. \A d \in Candidates : candidates'[d].reviewed_by = candidates[d].reviewed_by
      BY <3>2
    <3>5. UNCHANGED ReviewerBar
      BY <3>4 DEF ReviewerBar
    <3>. QED
      BY <3>1, <3>3, <3>5 DEF Lifecycle!Create, Lifecycle!Become
  <2>3. ASSUME NEW q \in Requests, UNCHANGED <<candidates, documents>>
        PROVE  UNCHANGED Lifecycle!vars
    BY <2>3, UnchangedSeen DEF Lifecycle!vars
  <2>4. ASSUME NEW q \in Requests, ClaimPending(q)
        PROVE  [Lifecycle!Next]_(Lifecycle!vars)
    <3>1. ClaimedStatus(q) \in {"publishing", "rejected"}
      BY DEF ClaimedStatus
    <3>. QED
      BY <2>4, <3>1, UpdateImplements DEF ClaimPending, At, Statuses
  <2>5. ASSUME NEW q \in Requests, ClaimFailed(q)
        PROVE  [Lifecycle!Next]_(Lifecycle!vars)
    BY <2>5, UpdateImplements DEF ClaimFailed, At, RetryableStatus, Statuses
  <2>6. ASSUME NEW q \in Requests, Block(q)
        PROVE  [Lifecycle!Next]_(Lifecycle!vars)
    <3>1. documents[Cand(q)] = None
      BY <2>6 DEF Block, At, IInv, CallInv, ServedInv, BlockedNeverServed
    <3>. QED
      BY <2>6, <3>1, ClaimedRow, UpdateImplements DEF Block, At, Statuses
  <2>7. ASSUME NEW q \in Requests, MarkFailed(q)
        PROVE  [Lifecycle!Next]_(Lifecycle!vars)
    <3>1. pc[q] = "fail"
      BY <2>7 DEF MarkFailed, IInv, CallInv
    <3>. QED
      BY <2>7, <3>1, ClaimedRow, UpdateImplements DEF MarkFailed, Statuses
  <2>8. ASSUME NEW q \in Requests, Finalize(q)
        PROVE  [Lifecycle!Next]_(Lifecycle!vars)
    <3>1. documents[Cand(q)] = call[q].reviewer
      BY <2>8 DEF Finalize, At, IInv, CallInv
    <3>. QED
      BY <2>8, <3>1, ClaimedRow, UpdateImplements DEF Finalize, At, Statuses
  <2>9. ASSUME NEW q \in Requests, Flag(q) \/ Upsert(q) \/ GuardedError(q)
        PROVE  [Lifecycle!Next]_(Lifecycle!vars)
    BY <2>3, <2>9, FlagImplements, UpsertImplements
       DEF Flag, Upsert, GuardedError, At
  <2>10. ASSUME NEW q \in Requests,
               \/ Review(q) \/ Explain(q) \/ Load(q) \/ Scan(q) \/ Reload(q)
               \/ RecordAudit(q) \/ StoreError(q) \/ Crash(q)
         PROVE  UNCHANGED Lifecycle!vars
    BY <2>3, <2>10 DEF Review, Explain, Load, Scan, Reload, RecordAudit, StoreError, Crash
  <2>. QED
    BY <2>1, <2>2, <2>4, <2>5, <2>6, <2>7, <2>8, <2>9, <2>10
       DEF Next, Step, Lifecycle!Next
<1>. QED
  BY <1>1, <1>2, Invariance, PTL DEF Spec, ImplementsLifecycle, Lifecycle!Spec

=============================================================================
