--------------------------- MODULE KnowledgeReview ---------------------------
(***************************************************************************)
(* FeedbackLoopService.review: concurrent review calls on knowledge        *)
(* candidates.  Every await of the handler is one action; each store call  *)
(* is one atomic transaction of the operations store (the asyncio lock of  *)
(* InMemoryOperationsStore, the SQL transaction of the MySQL store).       *)
(*                                                                         *)
(* A request is one review call; a retry is another request.  Candidates   *)
(* appear when FeedbackLoopService.submit saves them.                      *)
(*                                                                         *)
(* Abstractions.  A document is its approver.  Its text is seen through    *)
(* two constants: Blocked, the candidates whose text trips the ingestion   *)
(* policy, and Conflicts, the pairs with the same title and another        *)
(* answer.  A feedback document carries one keyword and a title prefix of  *)
(* its own, so it can only conflict with another feedback document.        *)
(***************************************************************************)
CONSTANTS Candidates,   \* knowledge candidate identifiers
          Reviewers,    \* administrators who may call review
          LongNames,    \* those with a name of more than 128 characters
          Requests,     \* review calls
          Blocked,      \* candidates refused by scan_knowledge_document
          Conflicts,    \* pairs of candidates with conflicting documents
          Faults,       \* what may fail: "knowledge", "store", "crash"
          None          \* no reviewer, no document, no argument

ASSUME ReviewAssumption ==
  /\ LongNames \subseteq Reviewers
  /\ Blocked \subseteq Candidates
  /\ Conflicts \subseteq Candidates \X Candidates
  /\ None \notin Reviewers \cup Candidates

VARIABLES candidates,   \* the operations store: candidate rows
          documents,    \* the knowledge base: documents[c] = its approved_by
          audit,        \* the audit trail, a set of events
          pc,           \* pc[q]: where call q is
          call,         \* call[q]: the arguments of call q
          copy,         \* copy[q]: the row read on line 119
          flags         \* flags[q]: the conflicts found by call q's scan

vars == <<candidates, documents, audit, pc, call, copy, flags>>

-----------------------------------------------------------------------------
Statuses == {"absent", "pending", "publishing", "published",
             "publish_failed", "rejected"}

Candidate == [status : Statuses, reviewed_by : Reviewers \cup {None},
              risk_flags : SUBSET Candidates]

AbsentRow == [status |-> "absent", reviewed_by |-> None, risk_flags |-> {}]

Arguments == [cand : Candidates, approved : BOOLEAN, reviewer : Reviewers]

NoCall == [cand |-> None, approved |-> FALSE, reviewer |-> None]

EventTypes == {"published", "rejected", "policy_rejected", "publish_failed"}

Event == [type : EventTypes, actor : Reviewers, entity : Candidates,
          request : Requests]

\* How a call ends: returned, KeyError, ValueError, KnowledgePolicyViolation,
\* the document's ValidationError, the re-raised publication error,
\* RuntimeError, or no answer at all.
Ended == {"returned", "not_found", "already_reviewed", "policy_violation",
          "invalid_document", "publish_error", "unexpected", "broken"}

\* The awaits of the operations store outside the try block: an error there
\* leaves the handler at once.
StoreAwaits == {"claim", "reclaim", "explain", "load", "block", "audit_block",
                "fail", "audit_fail", "finalize", "release", "reload", "audit"}

\* The awaits inside the try block.
GuardedAwaits == {"scan", "flag", "upsert"}

Running == StoreAwaits \cup GuardedAwaits

-----------------------------------------------------------------------------
Init == /\ candidates = [c \in Candidates |-> AbsentRow]
        /\ documents = [c \in Candidates |-> None]
        /\ audit = {}
        /\ pc = [q \in Requests |-> "idle"]
        /\ call = [q \in Requests |-> NoCall]
        /\ copy = [q \in Requests |-> AbsentRow]
        /\ flags = [q \in Requests |-> {}]

Goto(q, label) == pc' = [pc EXCEPT ![q] = label]

Cand(q) == call[q].cand

At(q, label) == pc[q] = label

(***************************************************************************)
(* update_candidate_status: a conditional update.  Holds says whether the  *)
(* row has the expected status; CompareAndSet is the update itself.        *)
(***************************************************************************)
Bug_HoldsWhilePublishing(c, expected) ==
  candidates[c].status \in {expected, "publishing"}

Bug_HoldsFailedAsPending(c, expected) ==
  \/ candidates[c].status = expected
  \/ expected = "pending" /\ candidates[c].status = "publish_failed"

Holds(c, expected) == candidates[c].status = expected

Bug_CompareAndSetResetsFlags(q, expected, new) ==
  IF Holds(Cand(q), expected)
  THEN candidates' = [candidates EXCEPT ![Cand(q)] =
         [status |-> new, reviewed_by |-> call[q].reviewer, risk_flags |-> {}]]
  ELSE UNCHANGED candidates

CompareAndSet(q, expected, new) ==
  LET c == Cand(q) IN
  IF Holds(c, expected)
  THEN candidates' = [candidates EXCEPT ![c] =
         [@ EXCEPT !.status = new, !.reviewed_by = call[q].reviewer]]
  ELSE UNCHANGED candidates

-----------------------------------------------------------------------------
(* The environment: a candidate is saved, a review call arrives.           *)

SaveCandidate(c) ==
  /\ candidates[c].status = "absent"
  /\ candidates' = [candidates EXCEPT ![c].status = "pending"]
  /\ UNCHANGED <<documents, audit, pc, call, copy, flags>>

Review(q) ==
  /\ At(q, "idle")
  /\ \E args \in Arguments : call' = [call EXCEPT ![q] = args]
  /\ Goto(q, "claim")
  /\ UNCHANGED <<candidates, documents, audit, copy, flags>>

-----------------------------------------------------------------------------
(* The claim, lines 98 to 119.                                             *)

Bug_ClaimedStatus(q) == IF call[q].approved THEN "approved" ELSE "rejected"

ClaimedStatus(q) == IF call[q].approved THEN "publishing" ELSE "rejected"

ClaimPending(q) ==
  /\ At(q, "claim")
  /\ CompareAndSet(q, "pending", ClaimedStatus(q))
  /\ Goto(q, IF Holds(Cand(q), "pending") THEN "load"
             ELSE IF call[q].approved THEN "reclaim" ELSE "explain")
  /\ UNCHANGED <<documents, audit, call, copy, flags>>

RetryableStatus == "publish_failed"

ClaimFailed(q) ==
  /\ At(q, "reclaim")
  /\ CompareAndSet(q, RetryableStatus, "publishing")
  /\ Goto(q, IF Holds(Cand(q), RetryableStatus) THEN "load" ELSE "explain")
  /\ UNCHANGED <<documents, audit, call, copy, flags>>

Explain(q) ==
  /\ At(q, "explain")
  /\ Goto(q, IF candidates[Cand(q)].status = "absent"
             THEN "not_found" ELSE "already_reviewed")
  /\ UNCHANGED <<candidates, documents, audit, call, copy, flags>>

\* KnowledgeDocument refuses an approved_by of more than 128 characters.  It is
\* built before the try block: the error ends the call, the claim stays.
Buildable(q) == call[q].reviewer \notin LongNames

Load(q) ==
  /\ At(q, "load")
  /\ copy' = [copy EXCEPT ![q] = candidates[Cand(q)]]
  /\ Goto(q, CASE ~call[q].approved -> "audit"
               [] call[q].approved /\ Buildable(q) -> "scan"
               [] OTHER -> "invalid_document")
  /\ UNCHANGED <<candidates, documents, audit, call, flags>>

-----------------------------------------------------------------------------
(* The publication, lines 134 to 144, inside the try block.                *)

\* The risk flags of scan_knowledge_document: other documents of the domain
\* that list_documents returned and whose text conflicts.
RiskFlags(c) == {d \in Candidates \ {c} : documents[d] # None /\ <<c, d>> \in Conflicts}

Bug_AfterScan(c) == IF RiskFlags(c) # {} THEN "flag"
                    ELSE IF c \in Blocked THEN "block" ELSE "upsert"

AfterScan(c) == IF c \in Blocked THEN "block"
                ELSE IF RiskFlags(c) # {} THEN "flag" ELSE "upsert"

Scan(q) ==
  /\ At(q, "scan")
  /\ flags' = [flags EXCEPT ![q] = RiskFlags(Cand(q))]
  /\ Goto(q, AfterScan(Cand(q)))
  /\ UNCHANGED <<candidates, documents, audit, call, copy>>

\* update_candidate replaces the whole row by the copy read on line 119.
Bug_FlaggedRow(q) == [copy[q] EXCEPT !.risk_flags = flags[q], !.status = "pending"]

FlaggedRow(q) == [copy[q] EXCEPT !.risk_flags = flags[q]]

Flag(q) ==
  /\ At(q, "flag")
  /\ candidates' = [candidates EXCEPT ![Cand(q)] = FlaggedRow(q)]
  /\ Goto(q, "upsert")
  /\ UNCHANGED <<documents, audit, call, copy, flags>>

Upsert(q) ==
  /\ At(q, "upsert")
  /\ documents' = [documents EXCEPT ![Cand(q)] = call[q].reviewer]
  /\ Goto(q, "finalize")
  /\ UNCHANGED <<candidates, audit, call, copy, flags>>

Bug_ErrorSwallowed == "finalize"

Bug_ErrorUncaught == "broken"

ErrorHandler == "fail"

\* A dependency raises inside the try block: list_documents, update_candidate
\* or upsert.  A write that raised may have been applied.
GuardedError(q) ==
  /\ \/ "knowledge" \in Faults /\ pc[q] \in {"scan", "upsert"}
     \/ "store" \in Faults /\ At(q, "flag")
  /\ \/ UNCHANGED <<candidates, documents>>
     \/ /\ At(q, "upsert")
        /\ documents' = [documents EXCEPT ![Cand(q)] = call[q].reviewer]
        /\ UNCHANGED candidates
     \/ /\ At(q, "flag")
        /\ candidates' = [candidates EXCEPT ![Cand(q)] = FlaggedRow(q)]
        /\ UNCHANGED documents
  /\ Goto(q, ErrorHandler)
  /\ UNCHANGED <<audit, call, copy, flags>>

-----------------------------------------------------------------------------
(* The outcome, lines 145 to 204.                                          *)

Block(q) ==
  /\ At(q, "block")
  /\ CompareAndSet(q, "publishing", "rejected")
  /\ Goto(q, "audit_block")
  /\ UNCHANGED <<documents, audit, call, copy, flags>>

\* Line 163, and line 186 when the final update found another status.
MarkFailed(q) ==
  /\ pc[q] \in {"fail", "release"}
  /\ CompareAndSet(q, "publishing", "publish_failed")
  /\ Goto(q, IF At(q, "fail") THEN "audit_fail" ELSE "unexpected")
  /\ UNCHANGED <<documents, audit, call, copy, flags>>

Finalize(q) ==
  /\ At(q, "finalize")
  /\ CompareAndSet(q, "publishing", "published")
  /\ Goto(q, IF Holds(Cand(q), "publishing") THEN "reload" ELSE "release")
  /\ UNCHANGED <<documents, audit, call, copy, flags>>

Reload(q) ==
  /\ At(q, "reload")
  /\ copy' = [copy EXCEPT ![q] = candidates[Cand(q)]]
  /\ Goto(q, "audit")
  /\ UNCHANGED <<candidates, documents, audit, call, flags>>

Bug_AuditType(q) == IF call[q].approved THEN "published" ELSE "rejected"

AuditType(q) == CASE At(q, "audit_block") -> "policy_rejected"
                  [] At(q, "audit_fail") -> "publish_failed"
                  [] OTHER -> IF call[q].approved THEN "published" ELSE "rejected"

RecordAudit(q) ==
  /\ pc[q] \in {"audit", "audit_block", "audit_fail"}
  /\ audit' = audit \cup {[type |-> AuditType(q), actor |-> call[q].reviewer,
                           entity |-> Cand(q), request |-> q]}
  /\ Goto(q, CASE At(q, "audit_block") -> "policy_violation"
               [] At(q, "audit_fail") -> "publish_error"
               [] OTHER -> "returned")
  /\ UNCHANGED <<candidates, documents, call, copy, flags>>

\* The operations store raises outside the try block: the handler ends.  An
\* error reported after the write was applied is the write followed by an
\* error on the next await.
StoreError(q) ==
  /\ "store" \in Faults
  /\ pc[q] \in StoreAwaits
  /\ Goto(q, "broken")
  /\ UNCHANGED <<candidates, documents, audit, call, copy, flags>>

\* The pod dies or the task is cancelled while the call awaits.
Crash(q) ==
  /\ "crash" \in Faults
  /\ pc[q] \in Running
  /\ Goto(q, "broken")
  /\ UNCHANGED <<candidates, documents, audit, call, copy, flags>>

-----------------------------------------------------------------------------
\* The steps of the handler itself, dependency errors included.
Step(q) == \/ ClaimPending(q) \/ ClaimFailed(q) \/ Explain(q) \/ Load(q)
           \/ Scan(q) \/ Flag(q) \/ Upsert(q) \/ GuardedError(q)
           \/ Block(q) \/ MarkFailed(q) \/ Finalize(q) \/ Reload(q)
           \/ RecordAudit(q)

Next == \/ \E c \in Candidates : SaveCandidate(c)
        \/ \E q \in Requests : Review(q) \/ Step(q) \/ StoreError(q) \/ Crash(q)

Spec == Init /\ [][Next]_vars

\* The event loop resumes every call whose await has been answered.
FairSpec == Spec /\ \A q \in Requests : WF_vars(Step(q))

-----------------------------------------------------------------------------
(* Properties.                                                             *)

\* Rows, documents and events keep the shape the models of the code declare.
TypeOK ==
  /\ candidates \in [Candidates -> Candidate]
  /\ documents \in [Candidates -> Reviewers \cup {None}]
  /\ audit \subseteq Event
  /\ pc \in [Requests -> {"idle"} \cup Running \cup Ended]
  /\ call \in [Requests -> Arguments \cup {NoCall}]
  /\ copy \in [Requests -> Candidate]
  /\ flags \in [Requests -> SUBSET Candidates]

\* Call q has claimed its candidate for publication and not yet released it.
Claims(q) == \/ pc[q] \in GuardedAwaits \cup {"block", "fail", "finalize", "release"}
             \/ At(q, "load") /\ call[q].approved

\* Of any number of reviewers acting at once, one at most is publishing a
\* candidate, and the row names that reviewer (README.md:50).
OneClaimant ==
  /\ \A q \in Requests : Claims(q) =>
       /\ candidates[Cand(q)].status = "publishing"
       /\ candidates[Cand(q)].reviewed_by = call[q].reviewer
  /\ \A p, q \in Requests : Claims(p) /\ Claims(q) /\ Cand(p) = Cand(q) => p = q

\* A candidate is published only while the knowledge base serves its document,
\* approved by the very reviewer the candidate names, whatever earlier failed
\* attempts of other reviewers left behind.
PublishedIsServed ==
  \A c \in Candidates : candidates[c].status = "published" =>
    /\ documents[c] # None
    /\ documents[c] = candidates[c].reviewed_by

\* No rejected candidate is served, even when an upsert that reported an error
\* had been applied before the rejection.
RejectedNotServed ==
  \A c \in Candidates : candidates[c].status = "rejected" => documents[c] = None

Decisions == {e \in audit : e.type \in {"published", "rejected", "policy_rejected"}}

StatusOf(type) == IF type = "published" THEN "published" ELSE "rejected"

\* The audit trail holds one final decision per candidate, and it is the one
\* the candidate row shows, by the same reviewer.
DecisionAuditedOnce ==
  /\ \A e \in Decisions :
       /\ candidates[e.entity].status = StatusOf(e.type)
       /\ candidates[e.entity].reviewed_by = e.actor
  /\ \A e, f \in Decisions : e.entity = f.entity => e = f

\* "candidate publication state changed unexpectedly" (line 192) is never
\* raised: nobody takes a claimed candidate away from its claimant.
NeverUnexpected == \A q \in Requests : pc[q] \notin {"release", "unexpected"}

\* A conflict found by the call that published a candidate is on the row for
\* good: neither the final status update nor another call erases it.
FlagsSurvive ==
  \A q \in Requests :
    At(q, "returned") /\ call[q].approved /\ flags[q] # {} =>
      candidates[Cand(q)].risk_flags = flags[q]

\* README.md:96: content refused by the ingestion policy is never served, on
\* no attempt and in no order of attempts.
BlockedNeverServed == \A c \in Blocked : documents[c] = None

\* README.md:50: a publication whose dependencies fail reaches publish_failed,
\* from where it can be retried; no candidate stays in publishing for ever.
PublishingEnds ==
  \A c \in Candidates : candidates[c].status = "publishing"
                           ~> candidates[c].status # "publishing"

StatusBar == [c \in Candidates |-> candidates[c].status]
ReviewerBar == [c \in Candidates |-> candidates[c].reviewed_by]

Lifecycle == INSTANCE CandidateLifecycle WITH
  status <- StatusBar, reviewer <- ReviewerBar, served <- documents

\* The handler implements the publication life cycle: a row write of any
\* call, the whole-row write of line 143 included, is a legal transition.
ImplementsLifecycle == Lifecycle!Spec

=============================================================================
