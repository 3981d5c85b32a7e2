----------------------------- MODULE AccessSystem -----------------------------
(***************************************************************************)
(* Four parts of the system that keep rights, tokens and secrets, each with*)
(* the actors of its own: "rights", where clients submit jobs while managers*)
(* change what they may do; "sign-in", where commands sign in through the  *)
(* OIDC provider and share the stored token; the secrets store; and the    *)
(* agent host.  They do not call one another in the steps modelled, so a   *)
(* behaviour is one of one part.                                           *)
(***************************************************************************)
EXTENDS SignIn, Secrets, AgentHost

VARIABLE part
vars == <<part, access, signing, secrets, host>>

Parts == {"rights", "sign-in", "secrets", "agent-host"}
OfServer == part \in {"rights", "sign-in"}

\* A client with a secret, which may use the restricted queues in "rights"; a
\* user of the OIDC provider is known if the stored token is theirs.
Document(c) ==
    IF c \in OidcClients THEN IF oidc /\ file # NoToken THEN NewDoc ELSE NoDoc
    ELSE [NewDoc EXCEPT !.secret = TRUE, !.queues = IF oidc THEN {} ELSE Queues]

AccessInit ==
    /\ oidc = (part = "sign-in")
    /\ clients = [c \in Clients |-> Document(c)]
    /\ restricted = Queues
    /\ \E c \in IF oidc THEN OidcClients ELSE Clients \ OidcClients :
         refresh = [t \in Tokens |-> IF t = 0 THEN [client |-> c, revoked |-> FALSE, expired |-> FALSE]
                                     ELSE NoEntry]
    /\ request = [c \in Callers |-> Free] /\ session = [p \in Commands |-> Anonymous]
    /\ \/ part = "rights" /\ changes = MaxChanges /\ failures = 0
       \/ part = "sign-in" /\ changes = 1 /\ failures = 0
       \/ part = "sign-in" /\ changes = 0 /\ failures = MaxFailures
    /\ withdrawn = [c \in Clients |-> [q \in Queues |->
                      IF q \in Rights(c, NoToken).queues THEN 0 ELSE 2]]
    /\ revokedFor = [t \in Tokens |-> 0]

Init ==
    /\ part \in Parts
    /\ IF OfServer THEN SignInInit(IF part = "rights" THEN 1 ELSE MaxCommands) /\ AccessInit
       ELSE /\ oidc = FALSE /\ clients = [c \in Clients |-> NoDoc] /\ restricted = {}
            /\ refresh = [t \in Tokens |-> NoEntry]
            /\ request = [c \in Callers |-> Free] /\ session = [p \in Commands |-> Anonymous]
            /\ changes = 0 /\ failures = 0
            /\ withdrawn = [c \in Clients |-> [q \in Queues |-> 2]]
            /\ revokedFor = [t \in Tokens |-> 0]
            /\ command = [p \in Commands |-> Idle] /\ file = NoToken
            /\ code = [p \in Commands |-> "none"] /\ known = {} /\ left = 0
    /\ IF part = "secrets" THEN SecretsInit
       ELSE /\ store = "none" /\ entry = None /\ expiry = "never"
            /\ handler = [h \in Handlers |-> Resting] /\ writes = 0 /\ errors = 0
            /\ queued = 0 /\ sent = 0
            /\ given = [v \in 1..MaxWrites |-> 0] /\ shared = {}
    /\ IF part = "agent-host" THEN HostInit
       ELSE /\ repo = {} /\ dir = (CHOOSE d \in Dirs : TRUE) /\ checkout = {}
            /\ files = [a \in Agents |-> NoFile] /\ runs = [a \in Agents |-> NoFile]
            /\ busy = {} /\ taken = {} /\ phase = 0 /\ hook = Rest /\ token = "none" /\ looked = FALSE
            /\ status = "maintenance" /\ edits = 0 /\ crashes = 0 /\ lost = {}

-----------------------------------------------------------------------------
Elsewhere == UNCHANGED <<part, secrets, host>>
Same      == UNCHANGED <<oidc, revokedFor>> /\ Watched /\ Elsewhere

\* What managers ask for in a part; in "sign-in" they only revoke tokens.
ManagerAsks(m) ==
    /\ OfServer /\ At(m, "free") /\ changes > 0 /\ changes' = changes - 1
    /\ IF part = "rights" THEN Asks(m) \/ AsksToRevoke(m) ELSE AsksToRevoke(m)
    /\ Reads /\ UNCHANGED <<session, failures, signing>> /\ Same

ManagerHears(m) ==
    /\ OfServer /\ At(m, "answered") /\ Goes(m, Free)
    /\ Reads /\ UNCHANGED <<session, changes, failures, signing>> /\ Same

ServerWorks(c) ==
    /\ OfServer
    /\ \/ ServerStep(c) /\ UNCHANGED signing
       \/ c \in Commands /\ OidcStep(c) /\ UNCHANGED <<command, file, left>>
    /\ UNCHANGED <<session, changes, failures>> /\ Same

ToolEdits ==
    /\ part = "rights" /\ changes > 0 /\ changes' = changes - 1 /\ Tool
    /\ UNCHANGED <<request, session, failures, signing>> /\ Same

CallFails(c) ==
    /\ OfServer /\ Fails(c) /\ UNCHANGED <<session, changes, signing>> /\ Same

\* In "rights", jobs may ask for more than everyone may have.
CommandWorks(p) ==
    OfServer /\ CommandStep(p, IF part = "rights" THEN BOOLEAN ELSE {FALSE}) /\ Same
CommandStarts(p) ==
    /\ OfServer
    /\ Start(p, IF p = 1 THEN {"login", "submit"} ELSE {"submit"},
                IF oidc THEN {NoClient} ELSE (Clients \ OidcClients) \cup {NoClient})
    /\ Same
CommandRunsLate(p) ==
    /\ OfServer /\ RunsLate(p)
    /\ UNCHANGED <<server, request, session, changes, failures, file, code, known, left>> /\ Same

UserActs ==
    /\ part = "sign-in"
    /\ \/ changes > 0 /\ changes' = changes - 1 /\ WebSignIn /\ UNCHANGED <<code, known>>
       \/ (\E p \in Commands : Decides(p)) /\ Reads /\ UNCHANGED changes
    /\ UNCHANGED <<request, session, failures, command, file, left>> /\ Same

\* In "sign-in", what happens besides is bounded by changes, too.
TimePasses ==
    /\ OfServer
    /\ \/ Tick /\ IF part = "rights" THEN UNCHANGED changes
                  ELSE changes > 0 /\ changes' = changes - 1
       \/ /\ part = "sign-in" /\ changes > 0 /\ changes' = changes - 1 /\ TokenExpires(0)
          /\ UNCHANGED <<oidc, clients, restricted, request, session, failures, revokedFor>>
          /\ Watched
    /\ UNCHANGED signing /\ Elsewhere

StoreWorks == part = "secrets" /\ SecretsStep /\ UNCHANGED <<part, access, signing, host>>
HostWorks  == part = "agent-host" /\ HostStep /\ UNCHANGED <<part, access, signing, secrets>>

Next ==
    \/ \E m \in Managers : ManagerAsks(m) \/ ManagerHears(m)
    \/ \E c \in Callers : ServerWorks(c) \/ CallFails(c)
    \/ \E p \in Commands : CommandStarts(p) \/ CommandWorks(p) \/ CommandRunsLate(p)
    \/ ToolEdits \/ UserActs \/ TimePasses \/ StoreWorks \/ HostWorks

\* While commands sign in, a process or the handler of its request goes on, and
\* time passes; managers, users and the OIDC provider need not do anything.
Fairness ==
    \A p \in Commands :
        /\ WF_<<command, request>>(part = "sign-in" /\ (CommandWorks(p) \/ ServerWorks(p)))
        /\ WF_command(part = "sign-in" /\ CommandRunsLate(p))

Spec == Init /\ [][Next]_vars /\ Fairness

-----------------------------------------------------------------------------
Accepted(p) == At(p, "restriction") /\ request'[p].at = "answered" /\ request'[p].code = "200"

\* What was withdrawn stops to work: a job gets into a restricted queue only
\* with a right that the client had until the tick before, and with a refresh
\* token that was good until then; an access token outlives them by its own
\* life, however requests and changes overlap.
WithdrawalsTakeEffect ==
    [][\A p \in Commands :
         Accepted(p) /\ request[p].queue \in restricted =>
            /\ withdrawn[session[p].client][request[p].queue] <= 1
            /\ session[p].from # NoToken => revokedFor[session[p].from] <= 1]_vars

\* A command ends: it waits for the user no longer than the code is good for,
\* and repeats a request only once, whoever signs in, revokes a token or stores
\* one next to it.
SignInEnds ==
    \A p \in Commands :
        part = "sign-in" /\ command[p].at # "idle" ~> command[p].at = "idle"
=============================================================================
