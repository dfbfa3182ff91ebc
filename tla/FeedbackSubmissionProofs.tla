---------------------- MODULE FeedbackSubmissionProofs ----------------------
(***************************************************************************)
(* Proofs about FeedbackSubmission, for every set of calls, users, traces  *)
(* and keys, finite or not, and every combination of faults.               *)
(***************************************************************************)
EXTENDS FeedbackSubmission, TLAPS

-----------------------------------------------------------------------------
(* The inductive invariant.                                                *)

\* A row is what its own call inserted, for the user of the interaction, and
\* that call has come past the insertion.  Where it ended well, candidate and
\* audit event are there.
RowInv(f) ==
  /\ args[f.id] \in Arguments
  /\ f = NewRow(f.id)
  /\ owner[f.trace] = f.user
  /\ pc[f.id] \in {"candidate", "audit", "returned", "broken"}
  /\ At(f.id, "returned") => f.id \in audit
  /\ f.candidate # None /\ pc[f.id] \in {"audit", "returned"}
       => f.candidate \in candidates

\* The unique constraint on (user, key).
OneRowPerKey ==
  \A f, g \in feedback :
    f.user = g.user /\ f.key = g.key /\ f.key # NoKey => f = g

\* The row a call answers with is of its own user and key.
Answered(q) ==
  \E f \in feedback : /\ f.id = reply[q].feedback
                      /\ f.user = args[q].user
                      /\ f.key = args[q].key

\* What a call knows at each of its awaits.
CallInv(q) ==
  /\ pc[q] # "idle" => args[q] \in Arguments
  /\ pc[q] \in {"idle", "lookup", "interaction", "save"} => reply[q] = NoReply
  /\ reply[q] # NoReply => Answered(q)
  /\ pc[q] \in {"fetch", "candidate", "audit", "returned"} => reply[q] # NoReply
  /\ At(q, "save") => Allowed(q)
  /\ pc[q] \in {"candidate", "audit"} => NewRow(q) \in feedback
  /\ At(q, "candidate") => args[q].low

\* Nothing is audited but rows whose call returned, and no candidate is stored
\* but for the low rating of its own call.
WritesInv ==
  /\ \A q \in audit : At(q, "returned") /\ NewRow(q) \in feedback
  /\ \A c \in candidates : NewRow(c) \in feedback /\ args[c].low

IInv == /\ TypeOK
        /\ \A f \in feedback : RowInv(f)
        /\ OneRowPerKey
        /\ \A q \in Calls : CallInv(q)
        /\ WritesInv

-----------------------------------------------------------------------------
(* What the helpers of the handler do.                                     *)

\* A row carries the id, the user and the key of its call.
LEMMA NewRowFields ==
  ASSUME NEW q
  PROVE  /\ NewRow(q).id = q
         /\ NewRow(q).user = args[q].user
         /\ NewRow(q).trace = args[q].trace
         /\ NewRow(q).key = args[q].key
         /\ NewRow(q).candidate = IF args[q].low THEN q ELSE None
  BY DEF NewRow

\* The row of a call with proper arguments is a row of the table.
LEMMA NewRowType ==
  ASSUME NEW q \in Calls, args[q] \in Arguments
  PROVE  NewRow(q) \in Row
  BY DEF NewRow, Row, Arguments

\* The step of a call that answers from a twin, and what the answer is then.
LEMMA ReuseEffect ==
  ASSUME TypeOK, NEW q \in Calls, Reuse(q), UNCHANGED args
  PROVE  /\ pc' \in [Calls -> {"idle"} \cup Awaits \cup Ended]
         /\ reply' \in [Calls -> Reply]
         /\ \A p \in Calls \ {q} : pc'[p] = pc[p] /\ reply'[p] = reply[p]
         /\ pc'[q] \in {"fetch", "returned"}
         /\ reply'[q] # NoReply
         /\ \E f \in feedback : /\ f.id = reply'[q].feedback
                                /\ f.user = args'[q].user
                                /\ f.key = args'[q].key
<1>1. PICK f \in Twins(q) :
        /\ reply' = [reply EXCEPT ![q] = [feedback |-> f.id, candidate |-> f.candidate]]
        /\ Goto(q, IF f.candidate = None THEN "returned" ELSE "fetch")
  BY DEF Reuse
<1>2. f \in feedback /\ f.user = args[q].user /\ f.key = args[q].key
  BY DEF Twins
<1>3. f.id \in Calls /\ f.candidate \in Calls \cup {None} /\ f.id # None
  BY <1>2, SubmissionAssumption DEF TypeOK, Row
<1>4. [feedback |-> f.id, candidate |-> f.candidate] \in Reply
  BY <1>3 DEF Reply
<1>5. [feedback |-> f.id, candidate |-> f.candidate] # NoReply
  BY <1>3 DEF NoReply
<1>. QED
  BY <1>1, <1>2, <1>4, <1>5 DEF TypeOK, Goto, Awaits, Ended

-----------------------------------------------------------------------------
(* A step of one call and the rest of the state.                           *)

\* A step of call q after its arguments are known.
OwnStep(q) ==
  /\ UNCHANGED <<owner, args>>
  /\ feedback \subseteq feedback'
  /\ candidates \subseteq candidates'
  /\ audit \subseteq audit'
  /\ \A p \in Calls \ {q} : pc'[p] = pc[p] /\ reply'[p] = reply[p]

\* It leaves true what every other call knows, and the rows of the others.
LEMMA OthersKeep ==
  ASSUME IInv, NEW q \in Calls, OwnStep(q)
  PROVE  /\ \A p \in Calls \ {q} : CallInv(p)'
         /\ \A f \in feedback : f.id # q => RowInv(f)'
<1>1. \A p : NewRow(p)' = NewRow(p)
  BY DEF OwnStep, NewRow
<1>2. ASSUME NEW p \in Calls \ {q} PROVE CallInv(p)'
  <2>1. /\ pc'[p] = pc[p] /\ reply'[p] = reply[p] /\ args' = args
        /\ owner' = owner /\ feedback \subseteq feedback'
    BY DEF OwnStep
  <2>2. CallInv(p)
    BY DEF IInv
  <2>3. Answered(p) => Answered(p)'
    BY <2>1 DEF Answered
  <2>. QED
    BY <1>1, <2>1, <2>2, <2>3 DEF CallInv, At, Allowed
<1>3. ASSUME NEW f \in feedback, f.id # q PROVE RowInv(f)'
  <2>1. RowInv(f) /\ f.id \in Calls
    BY DEF IInv, TypeOK, Row
  <2>. QED
    BY <1>1, <1>3, <2>1 DEF RowInv, OwnStep, At
<1>. QED
  BY <1>2, <1>3

\* A step of q that writes neither a row nor an audit event nor a candidate
\* keeps the invariant when q is left with what CallInv says.
LEMMA ReadKeeps ==
  ASSUME IInv, NEW q \in Calls, OwnStep(q), UNCHANGED <<feedback, candidates, audit>>,
         TypeOK', CallInv(q)',
         pc[q] \in {"lookup", "fetch", "interaction", "save"} \/ pc'[q] = "broken",
         pc[q] \in Awaits
  PROVE  IInv'
<1>1. \A p : NewRow(p)' = NewRow(p)
  BY DEF OwnStep, NewRow
<1>2. ASSUME NEW f \in feedback' PROVE RowInv(f)'
  <2>1. CASE f.id # q
    BY <2>1, OthersKeep
  <2>2. CASE f.id = q
    <3>1. RowInv(f)
      BY DEF IInv
    <3>2. pc'[q] = "broken"
      BY <2>2, <3>1 DEF RowInv
    <3>. QED
      BY <1>1, <2>2, <3>1, <3>2 DEF RowInv, OwnStep, At
  <2>. QED
    BY <2>1, <2>2
<1>3. OneRowPerKey'
  BY DEF IInv, OneRowPerKey
<1>4. WritesInv'
  <2>1. ASSUME NEW p \in audit PROVE At(p, "returned")'
    <3>1. At(p, "returned") /\ p \in Calls
      BY DEF IInv, WritesInv, TypeOK
    <3>2. p # q
      BY <3>1 DEF At, Awaits
    <3>. QED
      BY <3>1, <3>2 DEF OwnStep, At
  <2>. QED
    BY <1>1, <2>1 DEF IInv, WritesInv, OwnStep
<1>. QED
  BY <1>2, <1>3, <1>4, OthersKeep DEF IInv

-----------------------------------------------------------------------------
(* The invariant holds at the start and is kept by every action.           *)

LEMMA InitHolds == Init => IInv
<1>. SUFFICES ASSUME Init PROVE IInv
  OBVIOUS
<1>1. TypeOK
  BY DEF Init, TypeOK, Reply, NoReply
<1>2. \A q \in Calls : CallInv(q)
  BY DEF Init, CallInv, At
<1>3. OneRowPerKey /\ WritesInv /\ \A f \in feedback : RowInv(f)
  BY DEF Init, OneRowPerKey, WritesInv
<1>. QED
  BY <1>1, <1>2, <1>3 DEF IInv

\* A new interaction belongs to a trace no row is about yet.
LEMMA RecordInteractionStep ==
  ASSUME IInv, NEW t \in Traces, NEW u \in Users, RecordInteraction(t, u)
  PROVE  IInv'
<1>. USE DEF RecordInteraction
<1>1. TypeOK'
  BY DEF IInv, TypeOK
<1>2. \A p : NewRow(p)' = NewRow(p)
  BY DEF NewRow
<1>3. \A s \in Traces : owner[s] # None => owner'[s] = owner[s]
  BY DEF IInv, TypeOK
<1>4. ASSUME NEW f \in feedback PROVE RowInv(f)'
  <2>1. RowInv(f) /\ f.trace \in Traces /\ f.user # None
    BY SubmissionAssumption DEF IInv, TypeOK, Row
  <2>. QED
    BY <1>2, <1>3, <2>1 DEF RowInv, At
<1>5. ASSUME NEW q \in Calls PROVE CallInv(q)'
  <2>1. CallInv(q)
    BY DEF IInv
  <2>2. At(q, "save") => Allowed(q)'
    BY <1>3, <2>1, SubmissionAssumption DEF CallInv, Allowed, Arguments, At
  <2>. QED
    BY <1>2, <2>1, <2>2 DEF CallInv, At, Answered
<1>6. OneRowPerKey' /\ WritesInv'
  BY <1>2 DEF IInv, OneRowPerKey, WritesInv, At
<1>. QED
  BY <1>1, <1>4, <1>5, <1>6 DEF IInv

\* A call that begins has no row, no candidate and no answer yet.
LEMMA SubmitStep ==
  ASSUME IInv, NEW q \in Calls, Submit(q)
  PROVE  IInv'
<1>1. PICK a \in Arguments : args' = [args EXCEPT ![q] = a]
  BY DEF Submit
<1>2. /\ At(q, "idle") /\ Goto(q, "lookup")
      /\ UNCHANGED <<owner, feedback, candidates, audit, reply>>
  BY DEF Submit
<1>3. /\ args'[q] = a /\ pc'[q] = "lookup" /\ reply'[q] = NoReply
      /\ \A p \in Calls \ {q} :
           args'[p] = args[p] /\ pc'[p] = pc[p] /\ reply'[p] = reply[p]
  BY <1>1, <1>2 DEF IInv, TypeOK, CallInv, Goto, At
<1>4. TypeOK'
  BY <1>1, <1>2 DEF IInv, TypeOK, Goto, Awaits
<1>5. \A p \in Calls \ {q} : NewRow(p)' = NewRow(p)
  BY <1>3 DEF NewRow
<1>6. \A f \in feedback : f.id \in Calls \ {q}
  BY <1>2 DEF IInv, TypeOK, Row, RowInv, At
<1>7. ASSUME NEW f \in feedback PROVE RowInv(f)'
  <2>1. RowInv(f)
    BY DEF IInv
  <2>. QED
    BY <1>2, <1>3, <1>5, <1>6, <2>1 DEF RowInv, At
<1>8. ASSUME NEW p \in Calls PROVE CallInv(p)'
  <2>1. CASE p = q
    BY <1>3, <2>1 DEF CallInv, At
  <2>2. CASE p # q
    <3>1. CallInv(p)
      BY DEF IInv
    <3>2. Answered(p) => Answered(p)'
      BY <1>2, <1>3, <2>2 DEF Answered
    <3>. QED
      BY <1>2, <1>3, <1>5, <2>2, <3>1, <3>2 DEF CallInv, At, Allowed
  <2>. QED
    BY <2>1, <2>2
<1>9. OneRowPerKey'
  BY <1>2 DEF IInv, OneRowPerKey
<1>10. WritesInv'
  <2>1. ASSUME NEW p \in audit \cup candidates PROVE p \in Calls \ {q}
    BY <1>6, NewRowFields DEF IInv, WritesInv, TypeOK
  <2>. QED
    BY <1>2, <1>3, <1>5, <2>1 DEF IInv, WritesInv, At
<1>. QED
  BY <1>2, <1>4, <1>7, <1>8, <1>9, <1>10 DEF IInv

\* The lookup of the key finds a row of the same user, or nothing.
LEMMA LookupStep ==
  ASSUME IInv, NEW q \in Calls, Lookup(q)
  PROVE  IInv'
<1>1. /\ At(q, "lookup")
      /\ UNCHANGED <<owner, feedback, candidates, audit, args>>
  BY DEF Lookup
<1>2. args[q] \in Arguments /\ reply[q] = NoReply /\ TypeOK
  BY <1>1 DEF IInv, CallInv, At
<1>3. CASE Reuse(q)
  <2>1. TypeOK' /\ OwnStep(q)
    BY <1>1, <1>2, <1>3, ReuseEffect DEF TypeOK, OwnStep
  <2>2. CallInv(q)'
    BY <1>1, <1>2, <1>3, ReuseEffect DEF CallInv, At, Answered
  <2>. QED
    BY <1>1, <2>1, <2>2, ReadKeeps DEF At, Awaits
<1>4. CASE Goto(q, "interaction") /\ UNCHANGED reply
  <2>1. TypeOK' /\ OwnStep(q)
    BY <1>1, <1>2, <1>4 DEF TypeOK, OwnStep, Goto, Awaits
  <2>2. pc'[q] = "interaction"
    BY <1>2, <1>4 DEF TypeOK, Goto
  <2>3. CallInv(q)'
    BY <1>1, <1>2, <1>4, <2>2 DEF CallInv, At
  <2>. QED
    BY <1>1, <2>1, <2>3, ReadKeeps DEF At, Awaits
<1>. QED
  BY <1>3, <1>4 DEF Lookup

\* Reading the candidate of the reused row changes the candidate of the answer
\* and never its feedback.
LEMMA FetchStep ==
  ASSUME IInv, NEW q \in Calls, Fetch(q)
  PROVE  IInv'
<1>. DEFINE found == IF reply[q].candidate \in candidates
                     THEN reply[q].candidate ELSE None
<1>1. /\ At(q, "fetch") /\ Goto(q, "returned")
      /\ UNCHANGED <<owner, feedback, candidates, audit, args>>
      /\ reply' = [reply EXCEPT ![q].candidate = found]
  BY DEF Fetch
<1>2. CallInv(q) /\ TypeOK /\ reply[q] \in Reply
  BY DEF IInv, TypeOK
<1>3. reply'[q].feedback = reply[q].feedback /\ reply'[q] \in Reply
  BY <1>1, <1>2 DEF TypeOK, Reply
<1>4. TypeOK' /\ OwnStep(q) /\ pc'[q] = "returned"
  BY <1>1, <1>2, <1>3 DEF TypeOK, OwnStep, Goto, Ended
<1>5. reply[q] # NoReply /\ Answered(q)
  BY <1>1, <1>2 DEF CallInv, At
<1>6. Answered(q)'
  BY <1>1, <1>3, <1>5 DEF Answered
<1>7. reply'[q] # NoReply
  <2>1. reply[q].feedback \in Calls
    BY <1>5 DEF Answered, IInv, TypeOK, Row
  <2>. QED
    BY <1>3, <2>1, SubmissionAssumption DEF NoReply
<1>8. CallInv(q)'
  BY <1>1, <1>2, <1>4, <1>6, <1>7 DEF CallInv, At
<1>. QED
  BY <1>1, <1>4, <1>8, ReadKeeps DEF At, Awaits

\* The interaction decides whether the user may give feedback on it.
LEMMA GetInteractionStep ==
  ASSUME IInv, NEW q \in Calls, GetInteraction(q)
  PROVE  IInv'
<1>1. /\ At(q, "interaction")
      /\ UNCHANGED <<owner, feedback, candidates, audit, args, reply>>
      /\ Goto(q, CASE owner[args[q].trace] = None -> "not_found"
                   [] Allowed(q) -> "save"
                   [] OTHER -> "forbidden")
  BY DEF GetInteraction
<1>2. CallInv(q) /\ TypeOK
  BY DEF IInv
<1>3. /\ pc'[q] \in {"not_found", "save", "forbidden"}
      /\ pc'[q] = "save" => Allowed(q)
      /\ TypeOK' /\ OwnStep(q)
  BY <1>1, <1>2 DEF TypeOK, OwnStep, Goto, Awaits, Ended
<1>4. CallInv(q)'
  BY <1>1, <1>2, <1>3 DEF CallInv, At, Allowed
<1>. QED
  BY <1>1, <1>3, <1>4, ReadKeeps DEF At, Awaits

\* The insertion: the row that takes a free key, or an answer from the row that
\* took it since the lookup.
LEMMA SaveFeedbackStep ==
  ASSUME IInv, NEW q \in Calls, SaveFeedback(q)
  PROVE  IInv'
<1>1. At(q, "save") /\ UNCHANGED <<owner, candidates, audit, args>>
  BY DEF SaveFeedback
<1>2. /\ args[q] \in Arguments /\ TypeOK
      /\ owner[args[q].trace] = args[q].user
  BY <1>1 DEF IInv, CallInv, At, Allowed
<1>3. CASE Reuse(q) /\ UNCHANGED feedback
  <2>1. TypeOK' /\ OwnStep(q)
    BY <1>1, <1>2, <1>3, ReuseEffect DEF TypeOK, OwnStep
  <2>2. CallInv(q)'
    BY <1>1, <1>2, <1>3, ReuseEffect DEF CallInv, At, Answered
  <2>. QED
    BY <1>1, <1>3, <2>1, <2>2, ReadKeeps DEF At, Awaits
<1>4. CASE /\ Twins(q) = {}
           /\ feedback' = feedback \cup {NewRow(q)}
           /\ reply' = [reply EXCEPT ![q] =
                [feedback |-> q, candidate |-> NewRow(q).candidate]]
           /\ Goto(q, SavedLabel(q))
  <2>1. /\ pc'[q] = SavedLabel(q)
        /\ reply'[q] = [feedback |-> q, candidate |-> NewRow(q).candidate]
        /\ OwnStep(q)
    BY <1>1, <1>2, <1>4 DEF TypeOK, Goto, OwnStep
  <2>2. NewRow(q) \in Row /\ NewRow(q)' = NewRow(q)
    BY <1>1, <1>2, NewRowType DEF NewRow
  <2>3. SavedLabel(q) = IF args[q].low THEN "candidate" ELSE "audit"
    BY DEF SavedLabel
  <2>4. TypeOK'
    <3>1. reply'[q] \in Reply
      BY <2>1, <2>2 DEF Reply, Row
    <3>2. reply' \in [Calls -> Reply]
      BY <1>2, <1>4, <2>1, <3>1 DEF TypeOK
    <3>3. pc' \in [Calls -> {"idle"} \cup Awaits \cup Ended]
      BY <1>2, <1>4, <2>3 DEF TypeOK, Goto, Awaits
    <3>. QED
      BY <1>1, <1>2, <1>4, <2>2, <3>2, <3>3 DEF TypeOK
  <2>5. \A f \in feedback : f.id # q
    BY <1>1 DEF IInv, RowInv, At
  <2>6. RowInv(NewRow(q))'
    <3>1. /\ NewRow(q).id = q /\ NewRow(q).trace = args[q].trace
          /\ NewRow(q).user = args[q].user
          /\ args[q].low <=> NewRow(q).candidate # None
      BY NewRowFields, SubmissionAssumption
    <3>. QED
      BY <1>1, <1>2, <2>1, <2>2, <2>3, <3>1 DEF RowInv, At
  <2>7. OneRowPerKey'
    <3>1. \A f \in feedback : f.user = NewRow(q).user /\ f.key = NewRow(q).key
                              => f.key = NoKey
      BY <1>4, NewRowFields DEF Twins
    <3>. QED
      BY <1>4, <2>2, <3>1 DEF IInv, OneRowPerKey
  <2>8. CallInv(q)'
    <3>1. Answered(q)'
      BY <1>1, <1>4, <2>1, <2>2, NewRowFields DEF Answered
    <3>2. reply'[q] # NoReply
      BY <2>1, SubmissionAssumption DEF NoReply
    <3>3. NewRow(q)' \in feedback'
      BY <1>4, <2>2
    <3>. QED
      BY <1>1, <1>2, <2>1, <2>3, <3>1, <3>2, <3>3 DEF CallInv, At
  <2>9. WritesInv'
    <3>1. \A p : NewRow(p)' = NewRow(p)
      BY <1>1 DEF NewRow
    <3>2. \A p \in audit : p \in Calls \ {q} /\ At(p, "returned")
      BY <1>1 DEF IInv, WritesInv, TypeOK, At
    <3>. QED
      BY <1>1, <1>4, <2>1, <3>1, <3>2 DEF IInv, WritesInv, OwnStep, At
  <2>. QED
    BY <1>4, <2>1, <2>2, <2>4, <2>5, <2>6, <2>7, <2>8, <2>9, OthersKeep DEF IInv
<1>. QED
  BY <1>3, <1>4 DEF SaveFeedback

\* The candidate of the own row.
LEMMA SaveCandidateStep ==
  ASSUME IInv, NEW q \in Calls, SaveCandidate(q)
  PROVE  IInv'
<1>1. /\ At(q, "candidate") /\ candidates' = candidates \cup {q}
      /\ Goto(q, "audit")
      /\ UNCHANGED <<owner, feedback, audit, args, reply>>
  BY DEF SaveCandidate
<1>2. /\ TypeOK /\ CallInv(q)
      /\ NewRow(q) \in feedback /\ args[q].low
  BY <1>1 DEF IInv, CallInv, At
<1>3. TypeOK' /\ OwnStep(q) /\ pc'[q] = "audit"
  BY <1>1, <1>2 DEF TypeOK, OwnStep, Goto, Awaits
<1>4. \A p : NewRow(p)' = NewRow(p)
  BY <1>1 DEF NewRow
<1>5. ASSUME NEW f \in feedback, f.id = q PROVE RowInv(f)'
  <2>1. RowInv(f) /\ f.candidate = q
    BY <1>2, <1>5, NewRowFields DEF IInv, RowInv
  <2>. QED
    BY <1>1, <1>3, <1>4, <1>5, <2>1 DEF RowInv, At
<1>6. CallInv(q)'
  <2>1. Answered(q) => Answered(q)'
    BY <1>1 DEF Answered
  <2>. QED
    BY <1>1, <1>2, <1>3, <1>4, <2>1 DEF CallInv, At
<1>7. WritesInv'
  <2>1. \A p \in audit : p \in Calls \ {q} /\ At(p, "returned")
    BY <1>1 DEF IInv, WritesInv, TypeOK, At
  <2>. QED
    BY <1>1, <1>2, <1>3, <1>4, <2>1 DEF IInv, WritesInv, OwnStep, At
<1>8. OneRowPerKey'
  BY <1>1 DEF IInv, OneRowPerKey
<1>. QED
  BY <1>1, <1>3, <1>5, <1>6, <1>7, <1>8, OthersKeep DEF IInv

\* The audit event of the own row, after its candidate.
LEMMA RecordAuditStep ==
  ASSUME IInv, NEW q \in Calls, RecordAudit(q)
  PROVE  IInv'
<1>1. /\ At(q, "audit") /\ audit' = audit \cup {q}
      /\ Goto(q, "returned")
      /\ UNCHANGED <<owner, feedback, candidates, args, reply>>
  BY DEF RecordAudit
<1>2. TypeOK /\ CallInv(q) /\ NewRow(q) \in feedback
  BY <1>1 DEF IInv, CallInv, At
<1>3. TypeOK' /\ OwnStep(q) /\ pc'[q] = "returned"
  BY <1>1, <1>2 DEF TypeOK, OwnStep, Goto, Ended
<1>4. \A p : NewRow(p)' = NewRow(p)
  BY <1>1 DEF NewRow
<1>5. ASSUME NEW f \in feedback, f.id = q PROVE RowInv(f)'
  <2>1. RowInv(f)
    BY DEF IInv
  <2>. QED
    BY <1>1, <1>3, <1>4, <1>5, <2>1 DEF RowInv, At
<1>6. CallInv(q)'
  <2>1. Answered(q) => Answered(q)'
    BY <1>1 DEF Answered
  <2>. QED
    BY <1>1, <1>2, <1>3, <1>4, <2>1 DEF CallInv, At
<1>7. WritesInv'
  <2>1. \A p \in audit : p \in Calls \ {q} /\ At(p, "returned")
    BY <1>1 DEF IInv, WritesInv, TypeOK, At
  <2>. QED
    BY <1>1, <1>2, <1>3, <1>4, <2>1 DEF IInv, WritesInv, OwnStep, At
<1>8. OneRowPerKey'
  BY <1>1 DEF IInv, OneRowPerKey
<1>. QED
  BY <1>1, <1>3, <1>5, <1>6, <1>7, <1>8, OthersKeep DEF IInv

\* A call that breaks leaves its writes behind.
LEMMA BreakStep ==
  ASSUME IInv, NEW q \in Calls, Break(q)
  PROVE  IInv'
<1>1. /\ pc[q] \in Awaits /\ Goto(q, "broken")
      /\ UNCHANGED <<owner, feedback, candidates, audit, args, reply>>
  BY DEF Break
<1>2. TypeOK /\ CallInv(q)
  BY DEF IInv
<1>3. TypeOK' /\ OwnStep(q) /\ pc'[q] = "broken"
  BY <1>1, <1>2 DEF TypeOK, OwnStep, Goto, Ended
<1>4. CallInv(q)'
  <2>1. Answered(q) => Answered(q)'
    BY <1>1 DEF Answered
  <2>. QED
    BY <1>1, <1>2, <1>3, <2>1 DEF CallInv, At, Awaits
<1>. QED
  BY <1>1, <1>3, <1>4, ReadKeeps

LEMMA StepKeeps == IInv /\ [Next]_vars => IInv'
<1>. SUFFICES ASSUME IInv, [Next]_vars PROVE IInv'
  OBVIOUS
<1>1. CASE UNCHANGED vars
  <2>1. \A q : NewRow(q)' = NewRow(q)
    BY <1>1 DEF vars, NewRow
  <2>. QED
    BY <1>1, <2>1 DEF IInv, TypeOK, RowInv, OneRowPerKey, CallInv, WritesInv,
         Answered, Allowed, At, vars
<1>2. CASE \E t \in Traces, u \in Users : RecordInteraction(t, u)
  BY <1>2, RecordInteractionStep
<1>3. CASE \E q \in Calls : Submit(q) \/ Step(q) \/ Break(q)
  BY <1>3, SubmitStep, LookupStep, FetchStep, GetInteractionStep,
     SaveFeedbackStep, SaveCandidateStep, RecordAuditStep, BreakStep DEF Step
<1>. QED
  BY <1>1, <1>2, <1>3 DEF Next

\* The inductive invariant holds in every state the submissions can reach.
THEOREM Invariance == Spec => []IInv
  BY InitHolds, StepKeeps, PTL DEF Spec

-----------------------------------------------------------------------------
(* The properties.                                                         *)

\* Rows, arguments and replies keep their shape.
THEOREM TypeCorrect == Spec => []TypeOK
<1>1. IInv => TypeOK
  BY DEF IInv
<1>. QED
  BY <1>1, Invariance, PTL

\* The row of an answer is stored, and of the user and key of its call.
LEMMA RowOfAnswer ==
  ASSUME IInv, NEW q \in Calls, At(q, "returned")
  PROVE  /\ RowOf(q) \in feedback
         /\ RowOf(q).id = reply[q].feedback
         /\ RowOf(q).user = args[q].user
         /\ RowOf(q).key = args[q].key
<1>1. PICK f \in feedback : /\ f.id = reply[q].feedback
                            /\ f.user = args[q].user
                            /\ f.key = args[q].key
  BY DEF IInv, CallInv, At, Answered
<1>2. RowOf(q) \in feedback /\ RowOf(q).id = reply[q].feedback
  BY <1>1 DEF RowOf
<1>3. RowOf(q) = f
  BY <1>1, <1>2 DEF IInv, RowInv
<1>. QED
  BY <1>1, <1>2, <1>3

\* However submissions of one user under one key interleave and break, all
\* that return return the same feedback, and it is audited at most once.
THEOREM SameAnswer == Spec => []SameKeySameAnswer
<1>1. ASSUME IInv, NEW p \in Calls, NEW q \in Calls,
             args[p].user = args[q].user, args[p].key = args[q].key,
             args[p].key # NoKey
      PROVE  /\ At(p, "returned") /\ At(q, "returned")
                  => reply[p].feedback = reply[q].feedback
             /\ p \in audit /\ q \in audit => p = q
  <2>1. ASSUME At(p, "returned"), At(q, "returned")
        PROVE  reply[p].feedback = reply[q].feedback
    <3>1. RowOf(p) = RowOf(q)
      BY <1>1, <2>1, RowOfAnswer DEF IInv, OneRowPerKey
    <3>. QED
      BY <1>1, <2>1, <3>1, RowOfAnswer
  <2>2. ASSUME p \in audit, q \in audit
        PROVE  p = q
    <3>1. NewRow(p) \in feedback /\ NewRow(q) \in feedback
      BY <1>1, <2>2 DEF IInv, WritesInv
    <3>2. NewRow(p) = NewRow(q)
      BY <1>1, <3>1, NewRowFields DEF IInv, OneRowPerKey
    <3>. QED
      BY <3>2, NewRowFields
  <2>. QED
    BY <2>1, <2>2
<1>2. IInv => SameKeySameAnswer
  BY <1>1 DEF SameKeySameAnswer
<1>. QED
  BY <1>2, Invariance, PTL

\* No candidate is stored without the row that asked for it.
THEOREM NoOrphans == Spec => []NoOrphanCandidate
<1>1. IInv => NoOrphanCandidate
  <2>. SUFFICES ASSUME IInv, NEW c \in candidates
                PROVE  \E f \in feedback : f.candidate = c
    BY DEF NoOrphanCandidate
  <2>1. NewRow(c) \in feedback /\ args[c].low
    BY DEF IInv, WritesInv
  <2>. QED
    BY <2>1, NewRowFields
<1>. QED
  BY <1>1, Invariance, PTL

\* Feedback belongs to the user of its interaction, and no call is answered
\* with another user's.
THEOREM OwnFeedback == Spec => []OwnFeedbackOnly
<1>1. IInv => OwnFeedbackOnly
  <2>. SUFFICES ASSUME IInv PROVE OwnFeedbackOnly
    OBVIOUS
  <2>1. \A f \in feedback : owner[f.trace] = f.user
    BY DEF IInv, RowInv
  <2>2. ASSUME NEW q \in Calls, NEW f \in feedback, f.id = reply[q].feedback
        PROVE  f.user = args[q].user
    <3>1. f.id # None
      BY SubmissionAssumption DEF IInv, TypeOK, Row
    <3>2. reply[q] # NoReply
      BY <2>2, <3>1 DEF NoReply
    <3>3. PICK g \in feedback : g.id = reply[q].feedback /\ g.user = args[q].user
      BY <3>2 DEF IInv, CallInv, Answered
    <3>4. f = g
      BY <2>2, <3>3 DEF IInv, RowInv
    <3>. QED
      BY <3>3, <3>4
  <2>. QED
    BY <2>1, <2>2 DEF OwnFeedbackOnly
<1>. QED
  BY <1>1, Invariance, PTL

\* The audit trail names no candidate that is not stored.
THEOREM AuditTellsTheTruth == Spec => []AuditedHasCandidate
<1>1. IInv => AuditedHasCandidate
  BY DEF IInv, AuditedHasCandidate, WritesInv, RowInv, At
<1>. QED
  BY <1>1, Invariance, PTL

\* What is answered is complete, unless the call that inserted the row is
\* still at work or broke.
THEOREM CompleteAnswers == Spec => []AnswersComplete
<1>1. IInv => AnswersComplete
  <2>. SUFFICES ASSUME IInv, NEW q \in Calls, At(q, "returned")
                PROVE  \/ pc[RowOf(q).id] \in Awaits \cup {"broken"}
                       \/ /\ RowOf(q).id \in audit
                          /\ RowOf(q).candidate # None
                               => RowOf(q).candidate \in candidates
    BY DEF AnswersComplete
  <2>1. RowOf(q) \in feedback
    BY RowOfAnswer
  <2>2. RowInv(RowOf(q))
    BY <2>1 DEF IInv
  <2>. QED
    BY <2>2 DEF RowInv, At, Awaits
<1>. QED
  BY <1>1, Invariance, PTL

=============================================================================
