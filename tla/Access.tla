-------------------------------- MODULE Access --------------------------------
(***************************************************************************)
(* Who a request speaks for: the signed access tokens of tokens.py and the *)
(* checks that are made of them before a chat (api.py), an A2A request    *)
(* (api.py) or an MCP tool call (mcp_server.py) is served.                 *)
(*                                                                         *)
(* A token is a record: who signed it ("user" or "service" with that       *)
(* secret of the settings, "nobody" if it is no such token), whether it is *)
(* still live, its role, subject and agent, and whether it is, instead of  *)
(* a signed token, the raw service secret.                                 *)
(***************************************************************************)
CONSTANTS None,     \* no header, no agent
          Refused   \* 401 or 403

Principal(subject, agent) == [subject |-> subject, agent |-> agent]

\* issue_token, as the A2A client calls it.
ServiceToken(subject, agent) ==
  [signer |-> "service", live |-> TRUE, role |-> "service",
   subject |-> subject, agent |-> agent, raw |-> FALSE]

Verifies(secret, role, token) ==
  token # None /\ token.signer = secret /\ token.live /\ token.role = role

\* require_user: a token must be good wherever it is given, and in production
\* it must be given.
RequireUser(token, production) ==
  CASE Verifies("user", "user", token) -> Principal(token.subject, token.agent)
    [] token = None /\ ~production -> None
    [] OTHER -> Refused

\* require_service: outside production everyone is at least anonymous.
RequireService(token, production) ==
  CASE Verifies("service", "service", token) ->
         Principal(token.subject, token.agent)
    [] ~Verifies("service", "service", token) /\ production -> Refused
    [] OTHER ->
         Principal(IF token # None /\ token.raw THEN "development-service"
                   ELSE "anonymous", None)

\* ServiceAuthHTTPMiddleware: outside production whoever has no token of an
\* agent is the agent he claims to be.
ToolAgent(token, claimed, production) ==
  CASE Verifies("service", "service", token) /\ token.agent # None -> token.agent
    [] ~(Verifies("service", "service", token) /\ token.agent # None) /\ production ->
         Refused
    [] OTHER -> claimed

Bug_BoundUser(claimed, principal) ==
  IF principal = Refused THEN Refused ELSE claimed

\* _bound_user_id
BoundUser(claimed, principal) ==
  CASE principal = Refused -> Refused
    [] principal = None -> claimed
    [] OTHER -> IF claimed = principal.subject THEN claimed ELSE Refused

=============================================================================
