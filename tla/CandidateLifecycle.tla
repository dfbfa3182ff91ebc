------------------------- MODULE CandidateLifecycle -------------------------
(***************************************************************************)
(* What the knowledge publication state machine promises, with no code in  *)
(* sight: a candidate is claimed by one reviewer at a time, its document   *)
(* is served only while that reviewer holds the claim, and it ends either  *)
(* published under the name of the reviewer whose document is served, or   *)
(* rejected with nothing served.  KnowledgeReview implements it.           *)
(***************************************************************************)
CONSTANTS Candidates,   \* knowledge candidate identifiers
          Reviewers,    \* administrators who may review
          None          \* no reviewer, no document

VARIABLES status,       \* status[c]: the state of the candidate
          reviewer,     \* reviewer[c]: who decided last
          served        \* served[c]: who approved the document served for c

vars == <<status, reviewer, served>>

Statuses == {"absent", "pending", "publishing", "published",
             "publish_failed", "rejected"}

Init == /\ status = [c \in Candidates |-> "absent"]
        /\ reviewer = [c \in Candidates |-> None]
        /\ served = [c \in Candidates |-> None]

Become(c, new) == status' = [status EXCEPT ![c] = new]

\* Negative feedback creates the candidate.
Create(c) == /\ status[c] = "absent"
             /\ Become(c, "pending")
             /\ UNCHANGED <<reviewer, served>>

\* A reviewer declines a candidate nobody has decided on.
Decline(c, r) == /\ status[c] = "pending"
                 /\ Become(c, "rejected")
                 /\ reviewer' = [reviewer EXCEPT ![c] = r]
                 /\ UNCHANGED served

\* A reviewer approves a new candidate, or retries a failed publication.
Claim(c, r) == /\ status[c] \in {"pending", "publish_failed"}
               /\ Become(c, "publishing")
               /\ reviewer' = [reviewer EXCEPT ![c] = r]
               /\ UNCHANGED served

\* The claimant's document goes live, before the candidate says so.
Serve(c) == /\ status[c] = "publishing"
            /\ served' = [served EXCEPT ![c] = reviewer[c]]
            /\ UNCHANGED <<status, reviewer>>

\* The publication is confirmed: only with the claimant's document live.
Publish(c) == /\ status[c] = "publishing"
              /\ served[c] = reviewer[c]
              /\ Become(c, "published")
              /\ UNCHANGED <<reviewer, served>>

\* A dependency failed: another attempt is possible.
Fail(c) == /\ status[c] = "publishing"
           /\ Become(c, "publish_failed")
           /\ UNCHANGED <<reviewer, served>>

\* The ingestion policy refuses the document: only if none is live.
Refuse(c) == /\ status[c] = "publishing"
             /\ served[c] = None
             /\ Become(c, "rejected")
             /\ UNCHANGED <<reviewer, served>>

Next == \E c \in Candidates :
          \/ Create(c) \/ Serve(c) \/ Publish(c) \/ Fail(c) \/ Refuse(c)
          \/ \E r \in Reviewers : Claim(c, r) \/ Decline(c, r)

Spec == Init /\ [][Next]_vars

=============================================================================
