------------------------------ MODULE AgentHost -------------------------------
(***************************************************************************)
(* The agent host charm: agents are directories of a repository, and have  *)
(* each a service file with the port of its metrics; supervisord runs what *)
(* the files say.  A hook fetches the repository, writes the files anew,   *)
(* lets supervisord take them over and asks the agents to restart when     *)
(* they are idle.  The charm also keeps a refresh token for its agents.    *)
(* Juju runs one hook at a time, and runs a hook that died again.          *)
(***************************************************************************)
EXTENDS Integers, FiniteSets, Sequences
LOCAL INSTANCE FiniteSetsExt

CONSTANTS
    Agents,
    Ports,        \* of the range for metrics
    Dirs,         \* values of the option config-dir
    MaxEdits,     \* bound: changes of the repository and of the option
    MaxCrashes    \* bound: hooks that die or cannot reach git or the server

ASSUME PortAssumption == Ports \subseteq Nat \ {0} /\ MaxEdits \in Nat /\ MaxCrashes \in Nat

VARIABLES
    repo,       \* agents in the repository
    dir,        \* the option config-dir
    checkout,   \* agents in the local copy, which may be missing
    files,      \* the service files: directory and port
    runs,       \* what supervisord runs an agent with
    busy,       \* agents that run a job
    taken,      \* ports that other programs listen on
    phase,      \* hooks of the deployment that are done: install, config changed, start
    hook,       \* what the charm executes
    token,      \* age of the stored refresh token
    looked,     \* update-status has looked at the token since it aged
    status,     \* of the unit
    edits, crashes,
    lost        \* auxiliary: agents that run, but whose service file was lost on the way

host == <<repo, dir, checkout, files, runs, busy, taken, phase, hook, token, looked,
          status, edits, crashes, lost>>

NoFile == [dir |-> "none", port |-> 0]
Rest   == [kind |-> "none", left |-> <<>>, clone |-> {}, todo |-> {},
           old |-> [a \in Agents |-> 0], used |-> {}]

\* Hooks of the deployment, in this order; hooks and actions that come after them
Deployment == <<"install", "config-changed", "start">>
Kinds == {"config-changed", "update-configs", "update-testflinger", "upgrade", "update-status",
          "secret-changed"}
Due   == IF phase < Len(Deployment) THEN {Deployment[phase + 1]} ELSE Kinds

\* on_install, on_config_changed, ...: what each does, in order
FetchRepo == <<"clone", "remove-copy", "move-copy">>
Service   == <<"read-files", "write-files", "supervisor", "restart">>
LogIn     == <<"token", "secret", "authenticate", "store">>
Plan(k)   ==
    CASE k = "install"            -> <<"packages", "scripts", "source">> \o FetchRepo
      [] k = "config-changed"     -> FetchRepo \o <<"keys", "scripts">> \o Service \o LogIn
      [] k = "update-configs"     -> FetchRepo \o Service
      [] k = "update-testflinger" -> <<"source", "restart">>
      [] k = "upgrade"            -> <<"packages", "scripts", "source">>
      [] OTHER                    -> LogIn

HostInit ==
    /\ repo \in SUBSET Agents /\ dir = (CHOOSE d \in Dirs : TRUE) /\ checkout = {}
    /\ files = [a \in Agents |-> NoFile] /\ runs = files /\ busy = {}
    /\ taken = {1} /\ phase = 0 /\ hook = Rest
    /\ token = "none" /\ looked = FALSE /\ status = "maintenance"
    /\ edits = 0 /\ crashes = 0 /\ lost = {}

NoHook          == hook = Rest
InHook(point)   == hook.left # <<>> /\ Head(hook.left) = point
Finishes(s)     == /\ hook' = Rest /\ status' = s
                   /\ phase' = Min({phase + 1, Len(Deployment)})
\* The step is done, with r kept for the next one; the hook's last one ends it.
GoesOn(r) == IF Len(r.left) > 1
             THEN hook' = [r EXCEPT !.left = Tail(@)] /\ UNCHANGED <<status, phase>>
             ELSE Finishes(IF r.kind = "install" THEN status ELSE "active")
Proceeds        == GoesOn(hook)
Fault           == crashes < MaxCrashes /\ crashes' = crashes + 1
\* Juju runs a hook that failed again, and an action only once.
Again           == hook' = IF hook.kind \in {"update-configs", "update-testflinger"} THEN Rest
                           ELSE [Rest EXCEPT !.kind = hook.kind, !.left = Plan(hook.kind)]
outside         == <<repo, dir, busy, taken, looked, edits>>

-----------------------------------------------------------------------------
(***************************************************************************)
(* The laboratory                                                          *)
(***************************************************************************)
\* Agents are added to or removed from the repository, or the option is changed or
\* taken away; a hook sees the option as it was when it began.
Edit ==
    /\ edits < MaxEdits /\ edits' = edits + 1
    /\ \/ \E a \in Agents : repo' = (repo \ {a}) \cup ({a} \ repo) /\ UNCHANGED dir
       \/ NoHook /\ dir' \in (Dirs \cup {"none"}) \ {dir} /\ UNCHANGED repo
    /\ UNCHANGED <<checkout, files, runs, busy, taken, phase, hook, token, looked, status, crashes,
                   lost>>

\* An agent takes a job, or is done with it.
TakeJob(a) ==
    /\ runs[a] # NoFile /\ busy' = (busy \ {a}) \cup ({a} \ busy)
    /\ UNCHANGED <<repo, dir, checkout, files, runs, taken, phase, hook, token, looked, status,
                   edits, crashes, lost>>

\* The token ages; update-status comes every few minutes, and an age takes days,
\* a hook only minutes.
Age ==
    /\ NoHook /\ (token = "young" \/ (token = "old" /\ looked))
    /\ token' = IF token = "young" THEN "old" ELSE "expired"
    /\ looked' = FALSE
    /\ UNCHANGED <<repo, dir, checkout, files, runs, busy, taken, phase, hook, status, edits,
                   crashes, lost>>

-----------------------------------------------------------------------------
(***************************************************************************)
(* Hooks and actions                                                       *)
(***************************************************************************)
\* Options that are not valid block the unit, and the hook does nothing.
ValidConfig == dir # "none"

Announced(k) ==
    IF k \in {"start", "update-status", "secret-changed"} \/ (k = "config-changed" /\ status = "blocked")
    THEN status ELSE "maintenance"
StartHook ==
    /\ NoHook
    /\ \E k \in Due :
         IF ValidConfig
         THEN /\ hook' = [Rest EXCEPT !.kind = k, !.left = Plan(k)]
              /\ status' = Announced(k) /\ UNCHANGED phase
         ELSE Finishes("blocked")
    /\ UNCHANGED <<outside, checkout, files, runs, token, crashes, lost>>

\* Steps by which only packages, scripts and keys on the host change: agents of
\* today keep what they have loaded. restart_agents marks agents, which restart
\* themselves when they are idle, and its failure is only logged. A package, a
\* repository or a file that cannot be had lets the hook die.
InstallDependencies == InHook("packages")
UpdateScripts       == InHook("scripts")
UpdateSource        == InHook("source")
CopyKeys            == InHook("keys")
RestartAgents       == InHook("restart")
HostChanges ==
    /\ InstallDependencies \/ UpdateScripts \/ UpdateSource \/ CopyKeys \/ RestartAgents
    /\ Proceeds /\ UNCHANGED <<outside, checkout, files, runs, token, crashes, lost>>

\* update_config_files: a clone is made next to the copy that is there, and then
\* moved in its place.  The hook ends as blocked when any of this fails, also when
\* the old copy is gone, or part of it, and nothing is in its place.
Clone ==
    /\ InHook("clone")
    /\ \/ GoesOn([hook EXCEPT !.clone = repo]) /\ UNCHANGED crashes
       \/ Fault /\ Finishes("blocked")
    /\ UNCHANGED <<outside, checkout, files, runs, token, lost>>
RemoveCopy ==
    /\ InHook("remove-copy")
    /\ \/ Proceeds /\ checkout' = {} /\ UNCHANGED crashes
       \/ Fault /\ Finishes("blocked") /\ checkout' \in SUBSET checkout
    /\ UNCHANGED <<outside, files, runs, token, lost>>
MoveCopy ==
    /\ InHook("move-copy")
    /\ \/ GoesOn([hook EXCEPT !.clone = {}]) /\ checkout' = hook.clone /\ UNCHANGED crashes
       \/ Fault /\ Finishes("blocked") /\ UNCHANGED checkout
    /\ UNCHANGED <<outside, files, runs, token, lost>>

\* parse_supervisor_config_file, 0 if there is none
PortIn(a) == files[a].port

\* write_supervisor_service_files: the ports in use are read, all files
\* removed, and written one by one.
ReadFiles ==
    /\ InHook("read-files") /\ checkout # {}
    /\ LET mapping == [a \in Agents |-> PortIn(a)] IN
       GoesOn([hook EXCEPT !.todo = checkout, !.old = mapping,
                           !.used = {mapping[a] : a \in Agents} \ {0}])
    /\ files' = [a \in Agents |-> NoFile]
    /\ UNCHANGED <<outside, checkout, runs, token, crashes, lost>>

\* There must be a directory of agents: the charm exits.
NoAgents ==
    /\ InHook("read-files") /\ checkout = {} /\ status' = "blocked" /\ Again
    /\ UNCHANGED <<outside, phase, checkout, files, runs, token, crashes, lost>>

\* A port that neither a service file names nor any program listens on
Listening == taken \cup ({runs[a].port : a \in Agents} \ {0})
Available == {x \in Ports \ hook.used : x \notin Listening}

\* Agents that run and have no service file, when what is done with the files
\* comes to an end before its time
WithoutFile == {a \in Agents : runs[a] # NoFile /\ files[a] = NoFile}

\* Mutant: the next port that is free, each time
AnyPort(a) == IF Available = {} THEN 0 ELSE Min(Available)

\* assign_metrics_port, 0 if there is none
Port(a) == IF hook.old[a] # 0 THEN hook.old[a]
           ELSE IF Available = {} THEN 0 ELSE Min(Available)

WriteFile(a) ==
    /\ InHook("write-files") /\ a \in hook.todo
    /\ IF Port(a) # 0
       THEN /\ files' = [files EXCEPT ![a] = [dir |-> dir, port |-> Port(a)]]
            /\ hook' = [hook EXCEPT !.todo = @ \ {a}, !.used = @ \cup {Port(a)}]
            /\ UNCHANGED <<status, lost>>
       ELSE /\ status' = "blocked" /\ lost' = lost \cup WithoutFile
            /\ hook' = [hook EXCEPT !.left = Tail(@), !.todo = {}] /\ UNCHANGED files
    /\ UNCHANGED <<outside, phase, checkout, runs, token, crashes>>

AllWritten ==
    /\ InHook("write-files") /\ hook.todo = {} /\ Proceeds
    /\ UNCHANGED <<outside, checkout, files, runs, token, crashes, lost>>

\* supervisor_update: programs whose file has changed are stopped and started
\* anew. That it fails is only logged.
SupervisorUpdate ==
    /\ InHook("supervisor") /\ Proceeds
    /\ \/ /\ runs' = files /\ busy' = {a \in busy : runs[a] = files[a]} /\ lost' = {}
          /\ UNCHANGED crashes
       \/ Fault /\ lost' = lost \cup WithoutFile /\ UNCHANGED <<runs, busy>>
    /\ UNCHANGED <<repo, dir, checkout, files, taken, token, looked, edits>>

\* token_update_needed, and the hooks after which it is not asked
UpdateNeeded(k) == token # "young" \/ k \in {"config-changed", "secret-changed"}

\* _update_refresh_token
CheckToken ==
    /\ InHook("token")
    /\ looked' = (looked \/ (hook.kind = "update-status" /\ token = "old"))
    /\ IF UpdateNeeded(hook.kind) THEN Proceeds ELSE Finishes("active")
    /\ UNCHANGED <<repo, dir, checkout, files, runs, busy, taken, token, edits, crashes, lost>>

\* _authenticate_with_server: the secret with the credentials must be there, and
\* the server must answer with a token.
ValidSecret  == InHook("secret")
LetIn        == InHook("authenticate")
LogsIn ==
    /\ ValidSecret \/ LetIn
    /\ (Proceeds /\ UNCHANGED crashes) \/ (Fault /\ Finishes("blocked"))
    /\ UNCHANGED <<outside, checkout, files, runs, token, lost>>

\* write_file replaces the old file by a new one at once.
StoreToken ==
    /\ InHook("store") /\ token' = "young" /\ Proceeds
    /\ UNCHANGED <<outside, checkout, files, runs, crashes, lost>>

\* A hook dies, also between the removal of the old copy and the move of the
\* new one; Juju runs it again.
HookDies ==
    /\ ~NoHook /\ Fault /\ Again
    /\ lost' = IF InHook("write-files") \/ InHook("supervisor") THEN lost \cup WithoutFile ELSE lost
    /\ UNCHANGED <<outside, phase, checkout, files, runs, token, status>>

HostStep ==
    \/ Edit \/ Age \/ StartHook \/ HostChanges \/ Clone \/ RemoveCopy \/ MoveCopy
    \/ ReadFiles \/ NoAgents \/ AllWritten \/ SupervisorUpdate
    \/ CheckToken \/ LogsIn \/ StoreToken \/ HookDies
    \/ \E a \in Agents : TakeJob(a) \/ WriteFile(a)

-----------------------------------------------------------------------------
\* An agent that runs a job is not stopped by a hook, whatever changes in the
\* repository for other agents -- unless it was removed itself, its directory
\* has another name now, or its service file was lost: because a hook died, or
\* found no port, before it had written all, or because supervisord had failed
\* to stop the agent when it was removed.
RunningJobsSurvive ==
    [][\A a \in busy : runs'[a] # runs[a] =>
          a \notin checkout \/ dir # runs[a].dir \/ a \in lost]_host

=============================================================================
