----------------------------- MODULE TicketPromise ----------------------------
(***************************************************************************)
(* What the creation of after-sales tickets promises, with no transport,   *)
(* thread or store in sight: one ticket for each key a user sends, however *)
(* often and however concurrently it is sent, and whoever is told of a     *)
(* ticket is told of the one of his own key.  TicketCreation implements it.*)
(***************************************************************************)
CONSTANTS Calls, None

VARIABLES asked,   \* asked[c]: the user and the key of call c
          made,    \* the tickets: whom each is for, with which key
          told     \* told[c]: the ticket call c was told of, or None

vars == <<asked, made, told>>

Init == made = {} /\ told = [c \in Calls |-> None]

\* A ticket for a user's key that has none yet, of which the call may be told
\* at once.
Make(c) == /\ \A t \in made : t.user # asked[c].user \/ t.key # asked[c].key
           /\ made' = made \cup {[id |-> c, user |-> asked[c].user, key |-> asked[c].key]}
           /\ told[c] = None
           /\ told' \in {told, [told EXCEPT ![c] = c]}
           /\ UNCHANGED asked

Tell(c) == /\ told[c] = None
           /\ \E t \in made :
                /\ t.user = asked[c].user /\ t.key = asked[c].key
                /\ told' = [told EXCEPT ![c] = t.id]
           /\ UNCHANGED <<asked, made>>

Next == \E c \in Calls : Make(c) \/ Tell(c)

Spec == Init /\ [][Next]_vars

=============================================================================
