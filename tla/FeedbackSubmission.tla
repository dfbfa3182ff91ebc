------------------------- MODULE FeedbackSubmission -------------------------
(***************************************************************************)
(* FeedbackLoopService.submit: concurrent and repeated submissions of user *)
(* feedback.  Each await of the handler is one action, each store call one *)
(* atomic transaction.  A submission is one call of submit; a client that  *)
(* retries makes another call with the same user and idempotency key.      *)
(*                                                                         *)
(* Identifiers are minted by the call (uuid4), so a call stands for the    *)
(* feedback and the candidate it would create.  A rating is low or not:    *)
(* low is rating <= 2 (line 51).                                           *)
(***************************************************************************)
CONSTANTS Calls,        \* calls of submit
          Users,        \* authenticated users
          Traces,       \* trace ids of chat interactions
          Keys,         \* idempotency keys
          NoKey,        \* the empty idempotency key, "" in the code
          Faults,       \* what may fail: "store", "crash"
          None          \* no interaction, no candidate, no call

ASSUME SubmissionAssumption == None \notin Users \cup Calls /\ NoKey \notin Keys

VARIABLES owner,        \* owner[t]: the user of interaction t, None if unknown
          feedback,     \* the feedback table: a set of rows
          candidates,   \* the ids of the stored knowledge candidates
          audit,        \* the ids of the audited feedback rows
          pc,           \* pc[q]: where call q is
          args,         \* args[q]: the arguments of call q
          reply         \* reply[q]: the feedback and candidate call q returns

vars == <<owner, feedback, candidates, audit, pc, args, reply>>

-----------------------------------------------------------------------------
Arguments == [user : Users, trace : Traces, key : Keys \cup {NoKey}, low : BOOLEAN]

NoArguments == [user |-> None, trace |-> None, key |-> NoKey, low |-> FALSE]

Row == [id : Calls, user : Users, trace : Traces, key : Keys \cup {NoKey},
        candidate : Calls \cup {None}]

Reply == [feedback : Calls \cup {None}, candidate : Calls \cup {None}]

NoReply == [feedback |-> None, candidate |-> None]

Awaits == {"lookup", "fetch", "interaction", "save", "candidate", "audit"}

Ended == {"returned", "not_found", "forbidden", "broken"}

Init == /\ owner = [t \in Traces |-> None]
        /\ feedback = {}
        /\ candidates = {}
        /\ audit = {}
        /\ pc = [q \in Calls |-> "idle"]
        /\ args = [q \in Calls |-> NoArguments]
        /\ reply = [q \in Calls |-> NoReply]

At(q, label) == pc[q] = label

Goto(q, label) == pc' = [pc EXCEPT ![q] = label]

\* The rows that the unique constraint on (user, key) would collide with: none
\* for the empty key, which the stores leave out of the constraint.
Bug_Twins(q) == {f \in feedback : /\ args[q].key # NoKey
                                  /\ f.key = args[q].key /\ f.trace = args[q].trace}

Twins(q) == {f \in feedback : /\ args[q].key # NoKey
                              /\ f.user = args[q].user /\ f.key = args[q].key}

-----------------------------------------------------------------------------
\* A chat turn records its interaction; the first record of a trace stays.
RecordInteraction(t, u) ==
  /\ owner[t] = None
  /\ owner' = [owner EXCEPT ![t] = u]
  /\ UNCHANGED <<feedback, candidates, audit, pc, args, reply>>

Submit(q) ==
  /\ At(q, "idle")
  /\ \E a \in Arguments : args' = [args EXCEPT ![q] = a]
  /\ Goto(q, "lookup")
  /\ UNCHANGED <<owner, feedback, candidates, audit, reply>>

Bug_Reuse(q) == \E f \in Twins(q) :
  /\ reply' = [reply EXCEPT ![q] = [feedback |-> f.id, candidate |-> f.candidate]]
  /\ Goto(q, IF f.candidate = None THEN "returned" ELSE "candidate")

\* Continue with the row of an earlier submission under the same key.
Reuse(q) == \E f \in Twins(q) :
  /\ reply' = [reply EXCEPT ![q] = [feedback |-> f.id, candidate |-> f.candidate]]
  /\ Goto(q, IF f.candidate = None THEN "returned" ELSE "fetch")

Lookup(q) ==
  /\ At(q, "lookup")
  /\ \/ Reuse(q)
     \/ Twins(q) = {} /\ Goto(q, "interaction") /\ UNCHANGED reply
  /\ UNCHANGED <<owner, feedback, candidates, audit, args>>

\* get_candidate of the reused row: None while the row's own call, or for ever
\* its crash, has left the candidate unsaved.
Fetch(q) ==
  /\ At(q, "fetch")
  /\ reply' = [reply EXCEPT ![q].candidate = IF @ \in candidates THEN @ ELSE None]
  /\ Goto(q, "returned")
  /\ UNCHANGED <<owner, feedback, candidates, audit, args>>

Bug_Allowed(q) == TRUE

Allowed(q) == owner[args[q].trace] = args[q].user

GetInteraction(q) ==
  /\ At(q, "interaction")
  /\ Goto(q, CASE owner[args[q].trace] = None -> "not_found"
               [] Allowed(q) -> "save"
               [] OTHER -> "forbidden")
  /\ UNCHANGED <<owner, feedback, candidates, audit, args, reply>>

Bug_NewRow(q) == [id |-> q, user |-> args[q].user, trace |-> args[q].trace,
                  key |-> IF args[q].key = NoKey THEN None ELSE args[q].key,
                  candidate |-> IF args[q].low THEN q ELSE None]

NewRow(q) == [id |-> q, user |-> args[q].user, trace |-> args[q].trace,
              key |-> args[q].key, candidate |-> IF args[q].low THEN q ELSE None]

Bug_SavedLabel(q) == IF args[q].low THEN "candidate" ELSE "returned"

Bug_SavedLabelSkips(q) == "audit"

SavedLabel(q) == IF args[q].low THEN "candidate" ELSE "audit"

\* save_feedback: insert, or return the row that took the key meanwhile.
SaveFeedback(q) ==
  /\ At(q, "save")
  /\ \/ Reuse(q) /\ UNCHANGED feedback
     \/ /\ Twins(q) = {}
        /\ feedback' = feedback \cup {NewRow(q)}
        /\ reply' = [reply EXCEPT ![q] =
             [feedback |-> q, candidate |-> NewRow(q).candidate]]
        /\ Goto(q, SavedLabel(q))
  /\ UNCHANGED <<owner, candidates, audit, args>>

SaveCandidate(q) ==
  /\ At(q, "candidate")
  /\ candidates' = candidates \cup {q}
  /\ Goto(q, "audit")
  /\ UNCHANGED <<owner, feedback, audit, args, reply>>

RecordAudit(q) ==
  /\ At(q, "audit")
  /\ audit' = audit \cup {q}
  /\ Goto(q, "returned")
  /\ UNCHANGED <<owner, feedback, candidates, args, reply>>

\* The store raises, the pod dies or the task is cancelled.  A write that was
\* applied before its error is the write followed by this.
Break(q) ==
  /\ Faults # {}
  /\ pc[q] \in Awaits
  /\ Goto(q, "broken")
  /\ UNCHANGED <<owner, feedback, candidates, audit, args, reply>>

-----------------------------------------------------------------------------
Step(q) == \/ Lookup(q) \/ Fetch(q) \/ GetInteraction(q) \/ SaveFeedback(q)
           \/ SaveCandidate(q) \/ RecordAudit(q)

Next == \/ \E t \in Traces, u \in Users : RecordInteraction(t, u)
        \/ \E q \in Calls : Submit(q) \/ Step(q) \/ Break(q)

Spec == Init /\ [][Next]_vars

-----------------------------------------------------------------------------
(* Properties.                                                             *)

\* Rows, arguments and replies keep the shape the code's models declare.
TypeOK ==
  /\ owner \in [Traces -> Users \cup {None}]
  /\ feedback \subseteq Row
  /\ candidates \subseteq Calls
  /\ audit \subseteq Calls
  /\ pc \in [Calls -> {"idle"} \cup Awaits \cup Ended]
  /\ args \in [Calls -> Arguments \cup {NoArguments}]
  /\ reply \in [Calls -> Reply]

\* However submissions of one user under one key interleave, all that return
\* return the same feedback (test_concurrent_feedback_submission_is_atomically_
\* idempotent), and the audit trail tells of it at most once.
SameKeySameAnswer ==
  \A p, q \in Calls :
    /\ args[p].user = args[q].user
    /\ args[p].key = args[q].key /\ args[p].key # NoKey
    => /\ At(p, "returned") /\ At(q, "returned")
            => reply[p].feedback = reply[q].feedback
       /\ p \in audit /\ q \in audit => p = q

\* No knowledge candidate without the feedback row that asked for it: the call
\* that loses the key leaves no candidate behind.
NoOrphanCandidate == candidates \subseteq {f.candidate : f \in feedback}

\* Feedback is stored only for the user the interaction belongs to, and a call
\* is answered only with feedback of its own user, whatever key it presents.
OwnFeedbackOnly ==
  /\ \A f \in feedback : owner[f.trace] = f.user
  /\ \A q \in Calls, f \in feedback :
       f.id = reply[q].feedback => f.user = args[q].user

\* An audited low rating has its candidate: a reader of the audit trail finds
\* the candidate the event names.
AuditedHasCandidate ==
  \A f \in feedback :
    f.id \in audit /\ f.candidate # None => f.candidate \in candidates

RowOf(q) == CHOOSE f \in feedback : f.id = reply[q].feedback

\* An answered submission is complete, whichever of the racing calls inserted
\* its row: candidate stored and audit event written, unless the inserting call
\* is still at work or broke.
AnswersComplete ==
  \A q \in Calls : At(q, "returned") =>
    \/ pc[RowOf(q).id] \in Awaits \cup {"broken"}
    \/ /\ RowOf(q).id \in audit
       /\ RowOf(q).candidate # None => RowOf(q).candidate \in candidates

\* README.md:61: a low rating generates a knowledge candidate.  Once a
\* submission has been answered, the candidate of its row is stored, or the
\* call that inserted the row is still at work on it.
LowRatingHasCandidate ==
  \A q \in Calls : At(q, "returned") /\ RowOf(q).candidate # None =>
    \/ RowOf(q).candidate \in candidates
    \/ pc[RowOf(q).id] \in Awaits

=============================================================================
