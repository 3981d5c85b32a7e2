------------------------------ MODULE MasterKey ------------------------------
(***************************************************************************)
(* The master key of the secrets: the units of the server charm, which     *)
(* follow the configured key, and the data encryption key (DEK) that the   *)
(* servers keep in the key vault, wrapped with the master key of a "local" *)
(* provider.  Secrets can be read by a server that can unwrap the DEK.     *)
(* When the key is changed the leader rewraps the DEK in two steps, for    *)
(* the provider "local:new" and back.  Juju runs one hook or action of a   *)
(* unit at a time, and runs a hook that died again; what a hook has stored *)
(* is committed when it ends.                                              *)
(***************************************************************************)
EXTENDS Integers

CONSTANTS
    Units,        \* units of the application
    Keys,         \* master keys
    NoKey,        \* the option is not set
    MaxChanges,   \* bound: changes of the configuration and of the leader
    MaxFailures   \* bound: hooks that die, database errors, container restarts

ASSUME KeyAssumption == NoKey \notin Keys /\ MaxChanges \in Nat /\ MaxFailures \in Nat

VARIABLES
    config,    \* testflinger_secrets_master_key, as the operator has set it
    leader,    \* the unit that leads
    pending,   \* units for which a config-changed hook is due
    hook,      \* what a unit executes
    stored,    \* previous_master_key in the StoredState of a unit
    ready,     \* units whose workload container answers
    server,    \* the key in the environment of the service of a unit
    dek,       \* the DEK: provider and key it is wrapped with
    changes, failures,
    mishaps    \* auxiliary: what has happened that the charm does not handle

vars == <<config, leader, pending, hook, stored, ready, server, dek, changes,
          failures, mishaps>>

Idle  == [at |-> "idle", new |-> NoKey, kind |-> "plain"]
Hooks == [at : {"idle", "rewrap", "rewrap back", "restart", "commit"},
          new : Keys \cup {NoKey}, kind : {"plain", "rotate", "retry"}]
NoDek == [provider |-> "none", key |-> NoKey]
Deks  == {NoDek} \cup [provider : {"local", "local:new"}, key : Keys]

TypeOK ==
    /\ config \in Keys \cup {NoKey} /\ leader \in Units /\ pending \subseteq Units
    /\ hook \in [Units -> Hooks] /\ stored \in [Units -> Keys \cup {NoKey}]
    /\ ready \subseteq Units /\ server \in [Units -> Keys \cup {NoKey}] /\ dek \in Deks
    /\ changes \in 0..MaxChanges /\ failures \in 0..MaxFailures
    /\ mishaps \subseteq {"hurried", "late", "broken off"}
    /\ \A u \in Units : hook[u].at \in {"rewrap", "rewrap back"} => hook[u].new \in Keys

IdleUnit(u) == hook[u].at = "idle"
Stays(u)    == stored[u] = config /\ IdleUnit(u) /\ u \notin pending

\* The last change has reached every unit.
Settled == \A u \in Units : Stays(u)

\* What ClientEncryption can unwrap with these keys
Opens(local, new) ==
    \/ dek = NoDek
    \/ dek.provider = "local" /\ dek.key = local
    \/ dek.provider = "local:new" /\ dek.key = new

Wrapped(provider, key) == IF dek = NoDek THEN NoDek ELSE [provider |-> provider, key |-> key]

Change == changes < MaxChanges /\ changes' = changes + 1
Fail   == failures < MaxFailures /\ failures' = failures + 1
Note(mishap, happened) == mishaps' = mishaps \cup (IF happened THEN {mishap} ELSE {})

-----------------------------------------------------------------------------
Init ==
    /\ config = NoKey /\ leader \in Units /\ pending = {}
    /\ hook = [u \in Units |-> Idle] /\ stored = [u \in Units |-> NoKey]
    /\ ready = Units /\ server = [u \in Units |-> NoKey] /\ dek = NoDek
    /\ changes = 0 /\ failures = 0 /\ mishaps = {}

(***************************************************************************)
(* The operator and Juju.  The charm does not keep a key that is unset     *)
(* while it is in use, and knows of one previous key and one leader only.  *)
(***************************************************************************)
ChangeKey(k) ==
    /\ Change
    /\ k # config /\ config' = k
    /\ pending' = Units
    /\ Note("hurried", ~Settled \/ (k = NoKey /\ dek # NoDek))
    /\ UNCHANGED <<leader, hook, stored, ready, server, dek, failures>>

LeaderMoves(u) ==
    /\ Change
    /\ u # leader /\ leader' = u
    /\ Note("hurried", ~Settled)
    /\ UNCHANGED <<config, pending, hook, stored, ready, server, dek, failures>>

ContainerStops(u) ==
    /\ Fail /\ u \in ready
    /\ ready' = ready \ {u} /\ server' = [server EXCEPT ![u] = NoKey]
    /\ UNCHANGED <<config, leader, pending, hook, stored, dek, changes, mishaps>>

-----------------------------------------------------------------------------
(***************************************************************************)
(* Hooks and actions of a unit.                                            *)
(***************************************************************************)
Starts(u, point, kind) ==
    hook' = [hook EXCEPT ![u] = [at |-> point, new |-> config, kind |-> kind]]

\* Mutant: every unit takes the new key over, and none rotates.
NeverRotate(u) ==
    /\ IdleUnit(u) /\ u \in pending /\ pending' = pending \ {u}
    /\ Starts(u, "restart", "plain")
    /\ UNCHANGED <<config, leader, stored, ready, server, dek, changes, failures, mishaps>>

\* _on_config_changed: a change is rotated by the leader, which gives up while
\* its container does not answer; else the key is only taken over.
ConfigChanged(u) ==
    /\ IdleUnit(u) /\ u \in pending /\ pending' = pending \ {u}
    /\ IF config # NoKey /\ stored[u] \notin {NoKey, config} /\ u = leader
       THEN IF u \in ready THEN Starts(u, "rewrap", "rotate") ELSE UNCHANGED hook
       ELSE Starts(u, "restart", "plain")
    /\ UNCHANGED <<config, leader, stored, ready, server, dek, changes, failures, mishaps>>

\* Mutant: the action asks for a stored key that is the configured one.
RetryOfNothing(u) ==
    /\ IdleUnit(u) /\ u = leader /\ u \in ready
    /\ config # NoKey /\ stored[u] = config
    /\ UNCHANGED vars

\* _on_retry_key_rotation_action
RetryKeyRotation(u) ==
    /\ IdleUnit(u) /\ u = leader /\ u \in ready
    /\ config # NoKey /\ stored[u] \notin {NoKey, config}
    /\ Starts(u, "rewrap", "retry")
    /\ UNCHANGED <<config, leader, pending, stored, ready, server, dek, changes, failures,
                   mishaps>>

\* Mutant: in place, without a second provider
RewrapInPlace(u) ==
    /\ hook[u].at = "rewrap" /\ Opens(stored[u], hook[u].new)
    /\ dek' = Wrapped("local", hook[u].new)
    /\ hook' = [hook EXCEPT ![u].at = "rewrap back"]
    /\ UNCHANGED <<config, leader, pending, stored, ready, server, changes, failures, mishaps>>

\* rotate_master_key, with the stored key as the old one
Rewrap(u) ==
    /\ hook[u].at = "rewrap" /\ Opens(stored[u], hook[u].new)
    /\ dek' = Wrapped("local:new", hook[u].new)
    /\ hook' = [hook EXCEPT ![u].at = "rewrap back"]
    /\ UNCHANGED <<config, leader, pending, stored, ready, server, changes, failures, mishaps>>

\* The action stores the key, and does not restart the service.
RewrapBack(u) ==
    /\ hook[u].at = "rewrap back" /\ Opens(hook[u].new, hook[u].new)
    /\ dek' = Wrapped("local", hook[u].new)
    /\ hook' = [hook EXCEPT ![u].at = IF hook[u].kind = "retry" THEN "commit" ELSE "restart"]
    /\ UNCHANGED <<config, leader, pending, stored, ready, server, changes, failures, mishaps>>

\* The script exits with an error: it cannot unwrap the DEK, or the database
\* does not answer, when a step may have been done.  The unit is blocked.
RotationFails(u) ==
    /\ LET new  == hook[u].new
           back == hook[u].at = "rewrap back"
       IN /\ hook[u].at \in {"rewrap", "rewrap back"}
          /\ \/ /\ ~Opens(IF back THEN new ELSE stored[u], new)
                /\ UNCHANGED <<dek, failures, mishaps>>
             \/ /\ Fail /\ Opens(IF back THEN new ELSE stored[u], new)
                /\ \/ UNCHANGED <<dek, mishaps>>
                   \/ /\ dek' = Wrapped(IF back THEN "local" ELSE "local:new", new)
                      /\ Note("broken off", back)
    /\ hook' = [hook EXCEPT ![u] = Idle]
    /\ UNCHANGED <<config, leader, pending, stored, ready, server, changes>>

\* _update_layer_and_restart, which gives up while the container does not answer
Restart(u) ==
    /\ hook[u].at = "restart"
    /\ server' = IF u \in ready THEN [server EXCEPT ![u] = hook[u].new] ELSE server
    /\ hook' = [hook EXCEPT ![u].at = "commit"]
    /\ UNCHANGED <<config, leader, pending, stored, ready, dek, changes, failures, mishaps>>

Commit(u) ==
    /\ hook[u].at = "commit"
    /\ stored' = [stored EXCEPT ![u] = hook[u].new]
    /\ hook' = [hook EXCEPT ![u] = Idle]
    /\ UNCHANGED <<config, leader, pending, ready, server, dek, changes, failures, mishaps>>

\* Killed, or an error that is not caught: nothing is stored.  A rotation that
\* was done cannot be repeated.
HookDies(u) ==
    /\ ~IdleUnit(u) /\ Fail
    /\ hook' = [hook EXCEPT ![u] = Idle]
    /\ pending' = IF hook[u].kind = "retry" THEN pending ELSE pending \cup {u}
    /\ Note("broken off", hook[u].kind # "plain" /\ hook[u].at \in {"restart", "commit"})
    /\ UNCHANGED <<config, leader, stored, ready, server, dek, changes>>

\* _on_testflinger_pebble_ready
PebbleReady(u) ==
    /\ IdleUnit(u) /\ u \notin ready
    /\ ready' = ready \cup {u} /\ server' = [server EXCEPT ![u] = config]
    /\ UNCHANGED <<config, leader, pending, hook, stored, dek, changes, failures, mishaps>>

\* _on_mongodb_client_relation_changed and _on_mongodb_keyvault_relation_changed
\* restart the service with the key that is configured, rotated or not.
RelationChanged(u) ==
    /\ IdleUnit(u) /\ u \in ready /\ server[u] # config
    /\ server' = [server EXCEPT ![u] = config]
    /\ UNCHANGED <<config, leader, pending, hook, stored, ready, dek, changes, failures,
                   mishaps>>

\* setup_mongo_store in a worker of the service that starts: the DEK is made if
\* there is none, perhaps with a key that is being replaced.
SetupMongoStore(u) ==
    /\ server[u] # NoKey /\ dek = NoDek
    /\ dek' = [provider |-> "local", key |-> server[u]]
    /\ Note("late", server[u] # config \/ stored[leader] \notin {NoKey, config})
    /\ UNCHANGED <<config, leader, pending, hook, stored, ready, server, changes, failures>>

-----------------------------------------------------------------------------
Next ==
    \/ \E k \in Keys \cup {NoKey} : ChangeKey(k)
    \/ \E u \in Units :
          \/ LeaderMoves(u) \/ ContainerStops(u) \/ HookDies(u)
          \/ ConfigChanged(u) \/ RetryKeyRotation(u) \/ Rewrap(u) \/ RewrapBack(u)
          \/ RotationFails(u) \/ Restart(u) \/ Commit(u) \/ PebbleReady(u)
          \/ RelationChanged(u) \/ SetupMongoStore(u)

Spec == Init /\ [][Next]_vars

\* Juju dispatches the hooks of a unit and lets each end, containers come back,
\* and the operator runs the action as the log of the charm asks for.
FairSpec ==
    /\ Spec
    /\ \A u \in Units :
          /\ WF_vars(ConfigChanged(u)) /\ WF_vars(RetryKeyRotation(u)) /\ WF_vars(Rewrap(u))
          /\ WF_vars(RewrapBack(u)) /\ WF_vars(RotationFails(u) /\ UNCHANGED failures)
          /\ WF_vars(Restart(u)) /\ WF_vars(Commit(u)) /\ WF_vars(PebbleReady(u))

-----------------------------------------------------------------------------
(***************************************************************************)
(* Properties.                                                             *)
(***************************************************************************)
\* The DEK is wrapped with a key that the leader still knows, the configured or
\* the stored one, whatever dies between the steps of _on_config_changed and of
\* the script, and in whatever order the units see the change.
NoKeyIsLost ==
    mishaps \subseteq {"broken off"} /\ dek # NoDek => dek.key \in {config, stored[leader]}

\* A rotation that was not completed can be taken up again by the action, from
\* any step at which it stopped: the two keys unwrap the DEK.
RetryWorks ==
    /\ mishaps = {} /\ IdleUnit(leader)
    /\ config # NoKey /\ stored[leader] \notin {NoKey, config}
    => Opens(stored[leader], config)

\* Every change comes to an end, at all units, and servers that start with the
\* configured key can read the secrets.
ChangesSettle ==
    <>[](mishaps # {} \/ (Settled /\ Opens(config, NoKey)))
=============================================================================
