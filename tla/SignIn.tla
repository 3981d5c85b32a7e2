-------------------------------- MODULE SignIn --------------------------------
(***************************************************************************)
(* The commands of the command line client, which sign in with credentials,*)
(* with the refresh token that is stored in a file all commands share, or  *)
(* through the OIDC provider: the server asks it for a code, the user      *)
(* approves the code there, and the command polls the server until it has. *)
(* A command repeats a request once with a new token when it gets a 401.   *)
(***************************************************************************)
EXTENDS Access

CONSTANT MaxCommands   \* bound: commands that are started

VARIABLES
    command,     \* what a command is doing
    file,        \* the stored refresh token
    code,        \* the device code of a command, as the provider has it
    known,       \* commands whose device code the server has
    left         \* commands that may still be started

signing == <<command, file, code, known, left>>

Idle == [at |-> "idle", task |-> "login", client |-> NoClient, seen |-> NoToken,
         rejected |-> FALSE, late |-> FALSE, again |-> FALSE]

SignInInit(n) ==
    /\ command = [p \in Commands |-> Idle] /\ file \in {NoToken, 0}
    /\ code = [p \in Commands |-> "none"] /\ known = {} /\ left = n

Becomes(p, to)    == command' = [command EXCEPT ![p] = to] /\ UNCHANGED <<session, code, known>>
Then(p, point)    == Becomes(p, [command[p] EXCEPT !.at = point])
\* The access token goes with the process, and nobody asks for its code again.
Ends(p)           == /\ command' = [command EXCEPT ![p] = Idle]
                     /\ session' = [session EXCEPT ![p] = Anonymous]
                     /\ code' = [code EXCEPT ![p] = "none"] /\ known' = known \ {p}
Got(p, codes)     == At(p, "answered") /\ request[p].code \in codes
Waits(p, point)   == command[p].at = point
Unclaimed         == UNCHANGED <<server, changes, failures>>

-----------------------------------------------------------------------------
(***************************************************************************)
(* The server's part of OIDC                                               *)
(***************************************************************************)
\* The device codes that the server keeps; a code that is gone is no error.
AddCode(p)    == known' = known \cup {p}
HasCode(p)    == p \in known
DeleteCode(p) == known' = known \ {p}

\* oidc_auth_init, which is not there without a provider
InitiateCode(p) ==
    /\ At(p, "oidc-init") /\ Reads
    /\ IF ~oidc THEN Refuses(p, "404") /\ UNCHANGED <<code, known>>
       ELSE /\ code' = [code EXCEPT ![p] = "pending"] /\ AddCode(p)
            /\ Refuses(p, "200")

\* oidc_auth_poll: the code is exchanged at the provider, which does so once.
ExchangeCode(p) ==
    /\ At(p, "poll") /\ Reads
    /\ IF ~HasCode(p) THEN Refuses(p, "error") /\ UNCHANGED <<code, known>>
       ELSE CASE code[p] = "pending"  -> Refuses(p, "pending") /\ UNCHANGED <<code, known>>
              [] code[p] = "approved" -> /\ code' = [code EXCEPT ![p] = "redeemed"]
                                         /\ On(p, "userinfo") /\ UNCHANGED known
              [] OTHER -> DeleteCode(p) /\ Refuses(p, "error") /\ UNCHANGED code

\* oidc_userinfo: the provider says who the user is, or fails, which is one of
\* the ways in which a handler dies (Fails); the code cannot be exchanged again.
ReadUser(p) ==
    /\ At(p, "userinfo") /\ Reads /\ UNCHANGED <<code, known>>
    /\ \E c \in OidcClients : Goes(p, [at |-> "register", client |-> c])

\* _register_and_issue_tokens
RegisterUser(p) ==
    /\ At(p, "register") /\ UNCHANGED <<restricted, refresh, code, known>>
    /\ Registered(request[p].client) /\ On(p, "permissions")
\* The code, which is this request's own, is deleted next.
ReadRights(p) ==
    /\ At(p, "permissions") /\ Reads /\ DeleteCode(p) /\ UNCHANGED code
    /\ LET c == request[p].client IN
       Goes(p, [at |-> "issue", client |-> c, rights |-> Rights(c, NoToken)])

OidcStep(p) ==
    InitiateCode(p) \/ ExchangeCode(p) \/ ReadUser(p) \/ RegisterUser(p) \/ ReadRights(p)

\* callback: a user signs in at the web pages.
WebSignIn == oidc /\ \E c \in OidcClients : Registered(c) /\ UNCHANGED <<restricted, refresh>>

\* The user allows or refuses, or the time the provider gives is over; it is
\* also the time after which the database drops the code.
Decides(p) ==
    /\ p \in known /\ ~Waits(p, "idle") /\ code[p] = "pending"
    /\ \/ \E d \in {"approved", "refused"} : code' = [code EXCEPT ![p] = d] /\ UNCHANGED known
       \/ code' = [code EXCEPT ![p] = "refused"] /\ known' = known \ {p}

-----------------------------------------------------------------------------
(***************************************************************************)
(* A command                                                               *)
(***************************************************************************)
\* login and submit, with the credentials of one of users, or none; login
\* forgets the stored token first.
Start(p, tasks, users) ==
    /\ Waits(p, "idle") /\ \A k \in Commands : Waits(k, "idle") => p <= k
    /\ left > 0 /\ left' = left - 1
    /\ \E task \in tasks, c \in users :
         /\ Becomes(p, [Idle EXCEPT !.at = "authenticate", !.task = task, !.client = c])
         /\ file' = IF task = "login" THEN NoToken ELSE file
    /\ UNCHANGED <<server, request, changes, failures>>

\* authenticate
Authenticates(p) ==
    /\ Waits(p, "authenticate") /\ Unclaimed /\ UNCHANGED <<file, left>>
    /\ IF command[p].client # NoClient
       THEN /\ Then(p, "credentials")
            /\ \E key \in BOOLEAN : Goes(p, [at |-> "token", client |-> command[p].client, key |-> key])
       ELSE IF file # NoToken
       THEN Then(p, "refresh") /\ Goes(p, [at |-> "refresh", token |-> file])
       ELSE Then(p, "init") /\ Goes(p, [at |-> "oidc-init"])

\* The access token, or none, is there, and the command goes on; a new refresh
\* token is stored.
SignedIn(p) ==
    /\ command' = [command EXCEPT ![p].at = "run"]
    /\ session' = [session EXCEPT ![p] = request[p].session] /\ Goes(p, Free)
    /\ file' = IF request[p].token # NoToken /\ request[p].session.client # NoClient
               THEN request[p].token ELSE file
    /\ Unclaimed /\ UNCHANGED <<code, known, left>>
GivesUp(p) ==
    /\ Ends(p) /\ Goes(p, Free) /\ Unclaimed /\ UNCHANGED <<file, left>>

\* _authenticate_with_credentials and _authenticate_with_refresh_token: other
\* errors of the server leave the command without a token, as it does
\* without OIDC; the token that is cleared need not be the one that was sent.
CredentialsAnswered(p) ==
    /\ Waits(p, "credentials")
    /\ \/ Got(p, {"200", "500"}) /\ SignedIn(p)
       \/ Got(p, {"401", "timeout"}) /\ GivesUp(p)

RefreshAnswered(p) ==
    /\ Waits(p, "refresh")
    /\ \/ Got(p, {"200", "500"}) /\ SignedIn(p)
       \/ Got(p, {"timeout"}) /\ GivesUp(p)
       \/ /\ Got(p, {"400"}) /\ file' = NoToken
          /\ Becomes(p, [command[p] EXCEPT !.at = "init", !.rejected = TRUE])
          /\ Goes(p, [at |-> "oidc-init"]) /\ Unclaimed /\ UNCHANGED left

\* _authenticate_with_oidc
InitAnswered(p) ==
    /\ Waits(p, "init")
    /\ \/ Got(p, {"404"}) /\ ~command[p].rejected /\ SignedIn(p)
       \/ (Got(p, {"500", "timeout"}) \/ (Got(p, {"404"}) /\ command[p].rejected)) /\ GivesUp(p)
       \/ /\ Got(p, {"200"}) /\ Goes(p, Free)
          /\ Becomes(p, [command[p] EXCEPT !.at = "watch", !.seen = file, !.late = FALSE])
          /\ Unclaimed /\ UNCHANGED <<file, left>>

\* Mutant: the loop goes on for as long as the answer is "pending".
NeverLate(p) ==
    /\ Waits(p, "watch") /\ Unclaimed /\ UNCHANGED <<file, left>>
    /\ IF file \notin {NoToken, command[p].seen}
       THEN Then(p, "found") /\ Goes(p, [at |-> "refresh", token |-> file])
       ELSE Then(p, "poll") /\ Goes(p, [at |-> "poll"])

\* The loop: monitor_for_refresh_token looks for a token that another command
\* has stored, then the server is polled.
Loop(p) ==
    /\ Waits(p, "watch") /\ Unclaimed /\ UNCHANGED <<file, left>>
    /\ IF command[p].late THEN Ends(p) /\ UNCHANGED request
       ELSE IF file \notin {NoToken, command[p].seen}
       THEN Then(p, "found") /\ Goes(p, [at |-> "refresh", token |-> file])
       ELSE Then(p, "poll") /\ Goes(p, [at |-> "poll"])

FoundAnswered(p) ==
    /\ Waits(p, "found")
    /\ \/ Got(p, {"200"}) /\ SignedIn(p)
       \/ Got(p, {"timeout"}) /\ GivesUp(p)
       \/ /\ Got(p, {"400"}) /\ file' = NoToken /\ Ends(p) /\ Goes(p, Free)
          /\ Unclaimed /\ UNCHANGED left
       \/ /\ Got(p, {"500"}) /\ Then(p, "poll") /\ Goes(p, [at |-> "poll"])
          /\ Unclaimed /\ UNCHANGED <<file, left>>

PollAnswered(p) ==
    /\ Waits(p, "poll")
    /\ \/ Got(p, {"200"}) /\ SignedIn(p)
       \/ Got(p, {"error", "500", "timeout"}) /\ GivesUp(p)
       \/ /\ Got(p, {"pending"}) /\ Then(p, "watch") /\ Goes(p, Free)
          /\ Unclaimed /\ UNCHANGED <<file, left>>

\* submit_job_data, with its one repetition; a login is done.
Run(p, mores) ==
    /\ Waits(p, "run") /\ Unclaimed /\ UNCHANGED <<file, left>>
    /\ IF command[p].task = "login" THEN Ends(p) /\ UNCHANGED request
       ELSE /\ Then(p, "submit")
            /\ \E q \in Queues, more \in mores :
                 Goes(p, [at |-> "submit", queue |-> q, more |-> more])

\* _handle_token_refresh
SubmitAnswered(p) ==
    /\ Waits(p, "submit") /\ At(p, "answered")
    /\ Unclaimed /\ UNCHANGED <<file, left>> /\ Goes(p, Free)
    /\ IF request[p].code = "401" /\ ~command[p].again
       THEN Becomes(p, [command[p] EXCEPT !.at = "authenticate", !.again = TRUE, !.rejected = FALSE])
       ELSE Ends(p)

CommandStep(p, mores) ==
    \/ Authenticates(p) \/ CredentialsAnswered(p) \/ RefreshAnswered(p) \/ InitAnswered(p)
    \/ Loop(p) \/ FoundAnswered(p) \/ PollAnswered(p) \/ Run(p, mores) \/ SubmitAnswered(p)

\* The time that a code is good for is over, for the command.
RunsLate(p) ==
    /\ command[p].at \in {"watch", "found", "poll"} /\ ~command[p].late
    /\ command' = [command EXCEPT ![p].late = TRUE]
=============================================================================
