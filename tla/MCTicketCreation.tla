--------------------------- MODULE MCTicketCreation ---------------------------
(* Small instances of TicketCreation for TLC.                               *)
EXTENDS TicketCreation

CONSTANTS c1, c2, u1, u2, o1, o2, k1, m1, partner

UserToken(user, live) ==
  [signer |-> "user", live |-> live, role |-> "user", subject |-> user,
   agent |-> None, raw |-> FALSE]

\* A token that is good for another purpose: an administrator's is signed with
\* the secret of the users'.
AdminToken(subject) == [UserToken(subject, TRUE) EXCEPT !.role = "admin"]

RawSecret == [UserToken(None, FALSE) EXCEPT !.signer = "nobody", !.raw = TRUE]

PartnerToken == ServiceToken(partner, "after_sales_agent")

\* Every query is text of one session; "apply" asks for a ticket.
Query(via, token, user, order, key, message, ask) ==
  [via |-> via, token |-> token, user |-> user, order |-> order, key |-> key,
   message |-> message, ask |-> ask, text |-> "text", names |-> c1, fits |-> TRUE]

Keyed == Query("chat", UserToken(u1, TRUE), u1, o1, k1, None, "apply")

Unkeyed == [Keyed EXCEPT !.key = None]

\* Another service: to the agent, to the orchestrator, to the tool.
FromPartner(token) == [Keyed EXCEPT !.via = "agent", !.token = token]

ToOrchestrator(token) == [Keyed EXCEPT !.via = "orchestrator", !.token = token]

ToTool(token) == [Keyed EXCEPT !.via = "tool", !.token = token]

\* c2 is c1 again, with its key or without, or somebody or something else.
MCQueries ==
  [c \in {c1, c2} |->
     IF c = c1 THEN {Keyed, Unkeyed}
     ELSE {Keyed,
           Unkeyed,
           [Unkeyed EXCEPT !.message = m1],
           [Keyed EXCEPT !.order = None],
           [Keyed EXCEPT !.order = o2],
           [Keyed EXCEPT !.ask = "status"],
           [Keyed EXCEPT !.ask = "policy"],
           [Keyed EXCEPT !.token = UserToken(u1, FALSE)],
           [Keyed EXCEPT !.token = AdminToken(u1)],
           [Keyed EXCEPT !.token = UserToken(u2, TRUE)],
           [Keyed EXCEPT !.token = UserToken(u2, TRUE), !.user = u2, !.order = o2],
           [Keyed EXCEPT !.token = None],
           FromPartner(PartnerToken),
           [FromPartner(PartnerToken) EXCEPT !.fits = FALSE],
           [FromPartner(RawSecret) EXCEPT !.key = None, !.message = m1],
           FromPartner(ServiceToken(partner, "order_agent")),
           FromPartner(None),
           ToOrchestrator(ServiceToken(partner, "order_agent")),
           [ToOrchestrator(None) EXCEPT !.ask = "status"],
           ToTool(PartnerToken),
           [ToTool(PartnerToken) EXCEPT !.ask = "status"],
           ToTool(ServiceToken(partner, "order_agent")),
           [ToTool(None) EXCEPT !.key = None]}]

MCOwnerOf == [o \in {o1, o2} |-> IF o = o1 THEN u1 ELSE u2]

Deployment(remote, mysql, production) ==
  [a2a |-> remote, mcp |-> remote, mysql |-> mysql, production |-> production]

MCDeployments == {Deployment(FALSE, FALSE, FALSE), Deployment(TRUE, FALSE, FALSE),
                  Deployment(FALSE, TRUE, FALSE), Deployment(TRUE, TRUE, TRUE)}

\* The partner asks for his tasks with another token than he sent them with.
MCReaders == {ServiceToken(partner, "order_agent"), RawSecret, None}

\* For the miss: one question about the rules.
PolicyQueries == [c \in {c1, c2} |-> {[Keyed EXCEPT !.ask = "policy"]}]

=============================================================================
