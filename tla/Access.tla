-------------------------------- MODULE Access --------------------------------
(***************************************************************************)
(* Who may do what on the server: the documents of client_permissions, the *)
(* restricted queues, the refresh tokens, and the requests that read and   *)
(* change them.  A request is handled in several calls of the database,    *)
(* and the handlers of several callers run at the same time.  A caller     *)
(* holds an access token, which says what its client was allowed to do     *)
(* when the token was made, and is good for as long as one tick.           *)
(***************************************************************************)
EXTENDS Integers, FiniteSets

CONSTANTS
    Clients, NoClient,
    OidcClients,    \* those that sign in through the OIDC provider
    Queues,
    Commands,       \* processes of the command line client
    Managers,       \* administrators and managers, who use the API
    Tokens,         \* refresh tokens: 0, which is there at the start, and on
    NoToken,
    MaxChanges,     \* bound: requests of the managers
    MaxFailures     \* bound: handlers that die, answers that are lost

ASSUME AccessAssumption ==
    /\ NoClient \notin Clients /\ OidcClients \subseteq Clients
    /\ Tokens \subseteq Nat /\ 0 \in Tokens /\ NoToken \notin Tokens
    /\ MaxChanges \in Nat /\ MaxFailures \in Nat

VARIABLES
    oidc,          \* whether the server has an OIDC provider
    clients,       \* client_permissions
    restricted,    \* restricted_queues
    refresh,       \* refresh_tokens
    request,       \* what the server does for a caller
    session,       \* the access token of a command
    changes, failures,
    withdrawn,     \* auxiliary: ticks since a client had the right to a queue
    revokedFor     \* auxiliary: ticks since a refresh token was revoked

server == <<clients, restricted, refresh>>
access == <<oidc, server, request, session, changes, failures, withdrawn, revokedFor>>

Callers == Commands \cup Managers
Free    == [at |-> "free"]
NoDoc   == [role |-> "none"]
NoEntry == [client |-> NoClient]

\* An access token; that of a client that is gone names none.
Anonymous == [kind |-> "none", client |-> NoClient, role |-> "contributor",
              queues |-> {}, more |-> FALSE, from |-> NoToken, age |-> 0]
Rights(c, from) ==
    IF clients[c] = NoDoc THEN [Anonymous EXCEPT !.kind = "token", !.from = from]
    ELSE [kind |-> "token", client |-> c, role |-> clients[c].role,
          queues |-> clients[c].queues, more |-> clients[c].more, from |-> from, age |-> 0]

\* ServerRoles.__lt__
Rank(role) == CASE role = "admin" -> 3 [] role = "manager" -> 2
                [] role = "contributor" -> 1 [] role = "agent" -> 0

\* Steps of a handler
Goes(c, r)      == request' = [request EXCEPT ![c] = r]
On(c, point)    == Goes(c, [request[c] EXCEPT !.at = point])
Answers(c, code, s, t) ==
    Goes(c, [at |-> "answered", code |-> code, session |-> s, token |-> t])
Refuses(c, code) == Answers(c, code, Anonymous, NoToken)
At(c, point)     == request[c].at = point
Reads            == UNCHANGED server

\* check_client_exists and check_queue_restricted
ClientExists(c)    == clients[c] # NoDoc
QueueRestricted(q) == q \in restricted

-----------------------------------------------------------------------------
(***************************************************************************)
(* Tokens                                                                  *)
(***************************************************************************)
\* retrieve_token: the client and the hash of its key are read; those that
\* sign in with OIDC have none.
ReadCredentials(c) ==
    /\ At(c, "token") /\ Reads
    /\ LET r == request[c] IN
       IF clients[r.client] # NoDoc /\ clients[r.client].secret /\ r.key
       THEN Goes(c, [at |-> "issue", client |-> r.client, rights |-> Rights(r.client, NoToken)])
       ELSE Refuses(c, "401")

\* issue_tokens, with the rights that were read before
IssueTokens(c) ==
    /\ At(c, "issue") /\ UNCHANGED <<clients, restricted>>
    /\ \E new \in Tokens :
         /\ refresh[new] = NoEntry /\ \A t \in Tokens : refresh[t] = NoEntry => new <= t
         /\ refresh' = [refresh EXCEPT ![new] =
               [client |-> request[c].client, revoked |-> FALSE, expired |-> FALSE]]
         /\ Answers(c, "200", [request[c].rights EXCEPT !.from = new], new)

\* validate_refresh_token
Usable(e) == e # NoEntry /\ ~e.revoked /\ ~e.expired

\* refresh_access_token: the token is looked up first, the permissions are
\* read after it.
LookUpToken(c) ==
    /\ At(c, "refresh") /\ Reads
    /\ IF Usable(refresh[request[c].token]) THEN On(c, "mint") ELSE Refuses(c, "400")

MintToken(c) ==
    /\ At(c, "mint") /\ Reads
    /\ LET t == request[c].token IN
       Answers(c, "200", Rights(refresh[t].client, t), NoToken)

\* revoke_refresh_token
FindToken(c) ==
    /\ At(c, "revoke") /\ Reads
    /\ LET e == refresh[request[c].token] IN
       IF e # NoEntry /\ ~e.revoked THEN On(c, "set-revoked") ELSE Refuses(c, "400")

SetRevoked(c) ==
    /\ At(c, "set-revoked") /\ UNCHANGED <<clients, restricted>>
    /\ refresh' = [refresh EXCEPT ![request[c].token].revoked = TRUE]
    /\ Refuses(c, "200")

-----------------------------------------------------------------------------
(***************************************************************************)
(* Submission of a job: what the token says is held against the restricted *)
(* queues of now.                                                          *)
(***************************************************************************)
\* Mutant: the time at which the token expires is not looked at.
NoExpiry(s) == {"go-on"}

\* decode_jwt_token: a token expires somewhere in the tick after the one it
\* was made in.
Decoded(s) == (IF s.age > 0 THEN {"401"} ELSE {}) \cup (IF s.age > 1 THEN {} ELSE {"go-on"})

\* authenticate and require_role: what may come of a request with a token, or
\* with none.
Authenticate(s) ==
    IF s = Anonymous THEN IF oidc THEN {"401"} ELSE {"go-on"}
    ELSE {IF x = "go-on" /\ s.client = NoClient THEN "500"
          ELSE IF x = "go-on" /\ s.role = "agent" THEN "403" ELSE x : x \in Decoded(s)}

\* check_max_priority and check_max_reservation_timeout, of a job that asks
\* for more than everyone may have
ReadSubmission(c) ==
    /\ At(c, "submit") /\ Reads
    /\ \E verdict \in Authenticate(session[c]) :
         IF verdict # "go-on" THEN Refuses(c, verdict)
         ELSE IF request[c].more /\ ~session[c].more
              THEN Refuses(c, IF session[c] = Anonymous THEN "401" ELSE "403")
              ELSE On(c, "restriction")

\* check_queue_restriction
Accepts(c) == ~QueueRestricted(request[c].queue) \/ request[c].queue \in session[c].queues
CheckRestriction(c) ==
    /\ At(c, "restriction") /\ Reads
    /\ Refuses(c, IF Accepts(c) THEN "200"
                  ELSE IF session[c] = Anonymous THEN "401" ELSE "403")

-----------------------------------------------------------------------------
(***************************************************************************)
(* What managers change                                                    *)
(***************************************************************************)
Merge(doc, body) ==
    [doc EXCEPT !.role   = IF body.role = "same" THEN @ ELSE body.role,
                !.more   = @ \/ body.more,
                !.secret = @ \/ body.secret]

NewDoc == [role |-> "contributor", queues |-> {}, more |-> FALSE, secret |-> FALSE]

\* The document was made by a sign-in, and not by a manager, who gives it a secret.
HasSub(c, doc) == c \in OidcClients /\ doc # NoDoc /\ ~doc.secret

\* set_client_permissions: the document is read and the request judged by it;
\* then all of the document is written back, or a new one made.
ReadPermissions(c) ==
    /\ At(c, "put") /\ Reads
    /\ LET r   == request[c]
           doc == clients[r.client]
           old == IF doc = NoDoc THEN "contributor" ELSE doc.role
       IN  IF HasSub(r.client, doc) /\ r.body.secret THEN Refuses(c, "422")
           ELSE IF doc = NoDoc /\ ~r.body.secret THEN Refuses(c, "400")
           ELSE IF Rank(r.role) < Rank(old) \/ (r.body.role # "same" /\ Rank(r.role) < Rank(r.body.role))
           THEN Refuses(c, "403")
           ELSE Goes(c, [at |-> "write", client |-> r.client, body |-> r.body, seen |-> doc])

\* A list of queues that was empty may not have been in the document at all,
\* and is then not written.
WrittenBack(seen, now) ==
    IF seen = NoDoc THEN {now}
    ELSE {seen} \cup (IF seen.queues = {} THEN {[seen EXCEPT !.queues = now.queues]} ELSE {})

WritePermissions(c) ==
    /\ At(c, "write") /\ UNCHANGED <<restricted, refresh>>
    /\ LET r   == request[c]
           now == IF clients[r.client] = NoDoc THEN NewDoc ELSE clients[r.client]
       IN  \E base \in WrittenBack(r.seen, now) :
             clients' = [clients EXCEPT ![r.client] = Merge(base, r.body)]
    /\ Refuses(c, "200")

\* delete_client_permissions; refresh tokens are left.
FindClient(c) ==
    /\ At(c, "delete") /\ Reads
    /\ IF ClientExists(request[c].client) THEN On(c, "remove") ELSE Refuses(c, "404")

RemoveClient(c) ==
    /\ At(c, "remove") /\ UNCHANGED <<restricted, refresh>>
    /\ clients' = [clients EXCEPT ![request[c].client] = NoDoc]
    /\ Refuses(c, "200")

\* add_restricted_queue
FindOwner(c) ==
    /\ At(c, "grant") /\ Reads
    /\ IF ClientExists(request[c].client) THEN On(c, "restrict") ELSE Refuses(c, "404")

RestrictQueue(c) ==
    /\ At(c, "restrict") /\ UNCHANGED <<clients, refresh>>
    /\ restricted' = restricted \cup {request[c].queue} /\ On(c, "allow")

Allow(c) ==
    /\ At(c, "allow") /\ UNCHANGED <<restricted, refresh>>
    /\ LET r == request[c] IN
       clients' = IF clients[r.client] = NoDoc THEN clients
                  ELSE [clients EXCEPT ![r.client].queues = @ \cup {r.queue}]
    /\ Refuses(c, "200")

\* delete_restricted_queue: the restriction is taken off for all owners, and
\* one owner forgotten.
FindRestriction(c) ==
    /\ At(c, "ungrant") /\ Reads
    /\ IF QueueRestricted(request[c].queue) THEN On(c, "unrestrict") ELSE Refuses(c, "404")

Unrestrict(c) ==
    /\ At(c, "unrestrict") /\ UNCHANGED <<clients, refresh>>
    /\ restricted' = restricted \ {request[c].queue} /\ On(c, "disallow")

Disallow(c) ==
    /\ At(c, "disallow") /\ UNCHANGED <<restricted, refresh>>
    /\ LET r == request[c] IN
       clients' = IF clients[r.client] = NoDoc THEN clients
                  ELSE [clients EXCEPT ![r.client].queues = @ \ {r.queue}]
    /\ Refuses(c, "200")

\* The tool on the server, which asks nobody's leave: each of these is one write,
\* after it was seen that the client or the restriction is there, or is not.
ByTool(c, secret) ==
    \E role \in {"manager", "contributor"}, q \in SUBSET Queues :
       clients' = [clients EXCEPT ![c] =
          [role |-> role, queues |-> q, more |-> role = "manager", secret |-> secret]]
CreateByTool(c)   == ~ClientExists(c) /\ c \notin OidcClients /\ ByTool(c, TRUE)
EditByTool(c)     == ClientExists(c) /\ ByTool(c, clients[c].secret)
RemoveByTool(c)   == ClientExists(c) /\ clients' = [clients EXCEPT ![c] = NoDoc]
RestrictByTool(q) == ~QueueRestricted(q) /\ restricted' = restricted \cup {q}
FreeByTool(q)     == QueueRestricted(q) /\ restricted' = restricted \ {q}

Tool ==
    /\ UNCHANGED refresh
    /\ \/ /\ \E c \in Clients : CreateByTool(c) \/ EditByTool(c) \/ RemoveByTool(c)
          /\ UNCHANGED restricted
       \/ /\ \E q \in Queues : RestrictByTool(q) \/ FreeByTool(q)
          /\ UNCHANGED clients

\* register_oidc_client
Registered(c) ==
    clients' = IF clients[c] # NoDoc THEN clients ELSE [clients EXCEPT ![c] = NewDoc]

-----------------------------------------------------------------------------
\* What managers ask for; only an admin may delete or revoke.
Bodies == {[role |-> "same", more |-> TRUE, secret |-> FALSE],
           [role |-> "same", more |-> FALSE, secret |-> TRUE]}
          \cup {[role |-> r, more |-> FALSE, secret |-> FALSE] : r \in {"admin", "agent"}}
AsksToSet(m) ==
    \E c \in Clients, role \in {"admin", "manager"}, b \in Bodies :
       Goes(m, [at |-> "put", client |-> c, role |-> role, body |-> b])
AsksToRemove(m)   == \E c \in Clients : Goes(m, [at |-> "delete", client |-> c])
AsksToRestrict(m) == \E c \in Clients, q \in Queues, what \in {"grant", "ungrant"} :
                        Goes(m, [at |-> what, client |-> c, queue |-> q])
Asks(m)           == AsksToSet(m) \/ AsksToRemove(m) \/ AsksToRestrict(m)
AsksToRevoke(m) == \E t \in {t \in Tokens : refresh[t] # NoEntry} : Goes(m, [at |-> "revoke", token |-> t])

ServerStep(c) ==
    \/ ReadCredentials(c) \/ IssueTokens(c) \/ LookUpToken(c) \/ MintToken(c)
    \/ FindToken(c) \/ SetRevoked(c) \/ ReadSubmission(c) \/ CheckRestriction(c)
    \/ ReadPermissions(c) \/ WritePermissions(c) \/ FindClient(c) \/ RemoveClient(c)
    \/ FindOwner(c) \/ RestrictQueue(c) \/ Allow(c)
    \/ FindRestriction(c) \/ Unrestrict(c) \/ Disallow(c)

InProgress(c) == request[c].at \notin {"free", "answered"}

\* A handler dies, or its answer is lost.
Fails(c) ==
    /\ failures > 0 /\ failures' = failures - 1 /\ Reads
    /\ \/ InProgress(c) /\ Refuses(c, "500")
       \/ At(c, "answered") /\ request[c].code # "timeout" /\ Refuses(c, "timeout")

(***************************************************************************)
(* Time: a tick is the life of an access token, and requests end within    *)
(* it.  A refresh token, which lives much longer, expires at some time.    *)
(***************************************************************************)
Older(n) == IF n < 2 THEN n + 1 ELSE n
Tick ==
    /\ \A c \in Callers : At(c, "free")
    /\ session' = [c \in Commands |->
                     IF session[c] = Anonymous THEN Anonymous
                     ELSE [session[c] EXCEPT !.age = Older(@)]]
    /\ revokedFor' = [t \in Tokens |->
                        IF refresh[t] # NoEntry /\ refresh[t].revoked THEN Older(revokedFor[t]) ELSE 0]
    /\ withdrawn' = [c \in Clients |-> [q \in Queues |->
                       IF q \in Rights(c, NoToken).queues THEN 0 ELSE Older(withdrawn[c][q])]]
    /\ UNCHANGED <<oidc, server, request, failures>>

TokenExpires(t) ==
    /\ refresh[t] # NoEntry /\ ~refresh[t].expired
    /\ refresh' = [refresh EXCEPT ![t].expired = TRUE]

\* Keeps withdrawn up to date in the other steps.
Watched ==
    withdrawn' = [c \in Clients |-> [q \in Queues |->
                    IF clients'[c] # NoDoc /\ q \in clients'[c].queues THEN 0 ELSE withdrawn[c][q]]]
=============================================================================
