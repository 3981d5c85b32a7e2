------------------------------- MODULE Secrets --------------------------------
(***************************************************************************)
(* A secret of one client, under one path, in the secrets store: a document*)
(* of MongoDB, or an entry of Vault with metadata of its own.  The client  *)
(* writes and deletes it, and submits jobs that refer to it; the value is  *)
(* read when an agent gets the job.  A read is several calls of the store, *)
(* and other requests come in between.                                     *)
(***************************************************************************)
EXTENDS Integers, FiniteSets

CONSTANTS
    Handlers,     \* requests of the client and of agents that run at a time
    MaxWrites,    \* bound: values that are written, 1 and on
    MaxJobs,      \* bound: jobs that refer to the secret
    MaxErrors     \* bound: calls of the store that fail

ASSUME SecretsAssumption == MaxWrites \in Nat /\ MaxJobs \in Nat /\ MaxErrors \in Nat

VARIABLES
    store,       \* "vault" or "mongo", or "none"
    entry,       \* the value, 0 for none; whether it is single-use
    expiry,      \* of the document, or the path in Vault: "never", "set" or "over"
    handler,     \* what is being done
    writes, errors,
    queued, sent,  \* jobs that wait, and that were given to an agent
    given,       \* auxiliary: how often a single-use value was given to a job
    shared       \* auxiliary: values that two reads had found at a time

secrets == <<store, entry, expiry, handler, writes, errors, queued, sent, given, shared>>

None    == [value |-> 0, ephemeral |-> FALSE]
Resting == [at |-> "rest", value |-> 0, ephemeral |-> FALSE, ttl |-> FALSE]

\* setup_vault_store and setup_mongo_store: what they need; a store that does
\* not let the server in is passed over.
Environment == {"vault-url", "vault-token", "vault-lets-in", "mongo-url", "master-key"}
VaultSetUp(env) == {"vault-url", "vault-token", "vault-lets-in"} \subseteq env
MongoSetUp(env) == {"mongo-url", "master-key"} \subseteq env
SetUp(env) == IF VaultSetUp(env) THEN "vault" ELSE IF MongoSetUp(env) THEN "mongo" ELSE "none"

SecretsInit ==
    /\ \E env \in SUBSET Environment : store = SetUp(env)
    /\ entry = None /\ expiry = "never"
    /\ handler = [h \in Handlers |-> Resting] /\ writes = 0 /\ errors = 0
    /\ queued = 0 /\ sent = 0
    /\ given = [v \in 1..MaxWrites |-> 0] /\ shared = {}

Does(h, point) == handler[h].at = point
Now(h, r)      == handler' = [handler EXCEPT ![h] = r]
Turns(h, point) == Now(h, [handler[h] EXCEPT !.at = point])
Rests(h)       == Now(h, Resting)
Known          == UNCHANGED <<entry, expiry>>
Besides        == UNCHANGED <<store, writes, queued, sent, shared>>

\* A handler dies, or a call of the store, of Vault's or the cipher's fails, by
\* which the request ends with an error, or the job gets an empty string. Of what
\* was done before, nothing is undone.
Breaks(h) ==
    /\ ~Does(h, "rest") /\ errors < MaxErrors /\ errors' = errors + 1 /\ Rests(h)
    /\ Known /\ Besides /\ UNCHANGED given

-----------------------------------------------------------------------------
(***************************************************************************)
(* Writing and deleting                                                    *)
(***************************************************************************)
\* secret write: single-use, or with a time to expire, or without one
AsksToWrite(h) ==
    /\ Does(h, "rest") /\ writes < MaxWrites /\ writes' = writes + 1
    /\ \E eph, ttl \in BOOLEAN : ~(eph /\ ttl) /\
         Now(h, [at |-> "put", value |-> writes', ephemeral |-> eph, ttl |-> ttl])
    /\ Known /\ UNCHANGED <<store, errors, queued, sent, given, shared>>

\* secret delete
AsksToDelete(h) ==
    /\ Does(h, "rest") /\ Turns(h, "delete")
    /\ Known /\ Besides /\ UNCHANGED <<errors, given>>

Value(h) == [value |-> handler[h].value, ephemeral |-> handler[h].ephemeral]

\* The document is replaced; there is an index for documents that expire by then.
MongoWrite(h) ==
    /\ entry' = Value(h) /\ Rests(h)
    /\ expiry' = IF handler[h].ttl THEN "set" ELSE "never"

\* The value is written, and then the time after which it is deleted, unless it
\* has none; the time of an older value stays.
VaultWrite(h) ==
    /\ entry' = Value(h) /\ UNCHANGED expiry
    /\ IF handler[h].ttl THEN Turns(h, "metadata") ELSE Rests(h)
VaultMetadata(h) ==
    /\ Does(h, "metadata") /\ Rests(h) /\ expiry' = "set" /\ UNCHANGED entry
    /\ Besides /\ UNCHANGED <<errors, given>>

\* secrets_put, which refuses if there is no store
Put(h) ==
    /\ Does(h, "put")
    /\ CASE store = "none"  -> Rests(h) /\ Known
         [] store = "mongo" -> MongoWrite(h)
         [] store = "vault" -> VaultWrite(h)
    /\ Besides /\ UNCHANGED <<errors, given>>

\* A document is deleted, or all versions under a path with their time; it is no
\* error if there are none.
MongoDelete == entry' = None /\ expiry' = "never"
VaultDelete == entry' = None /\ expiry' = "never"
Remove      == IF store = "mongo" THEN MongoDelete ELSE VaultDelete

\* secrets_delete
Delete(h) ==
    /\ Does(h, "delete") /\ Rests(h) /\ Remove /\ Besides /\ UNCHANGED <<errors, given>>

\* The time is over: Vault deletes the version, and the path keeps its time;
\* MongoDB's document is there until its index is gone through.
Expire ==
    /\ entry # None /\ expiry = "set"
    /\ IF store = "vault" THEN entry' = None /\ UNCHANGED expiry
       ELSE expiry' = "over" /\ UNCHANGED entry
    /\ Besides /\ UNCHANGED <<handler, errors, given>>

Purge == /\ store = "mongo" /\ expiry = "over" /\ MongoDelete
         /\ Besides /\ UNCHANGED <<handler, errors, given>>

-----------------------------------------------------------------------------
(***************************************************************************)
(* Reading                                                                 *)
(***************************************************************************)
MongoExists == entry # None /\ expiry # "over"
VaultExists == entry # None
Exists      == CASE store = "mongo" -> MongoExists [] store = "vault" -> VaultExists
                 [] store = "none"  -> FALSE

\* validate_secrets: a job is accepted if there is a store, and the secret in it.
Submit ==
    /\ Exists /\ queued + sent < MaxJobs /\ queued' = queued + 1
    /\ UNCHANGED <<store, entry, expiry, handler, writes, errors, sent, given, shared>>

\* A document is found, and not over its time; or a version under the path.
MongoFound == entry # None /\ expiry # "over"
VaultFound == entry # None

\* retrieve_secrets of a job that was popped: the secret is found, or the job gets
\* an empty string.
Find(h) ==
    /\ Does(h, "rest") /\ queued > 0 /\ queued' = queued - 1 /\ sent' = sent + 1
    /\ IF (store = "mongo" /\ MongoFound) \/ (store = "vault" /\ VaultFound)
       THEN /\ Now(h, [at |-> "found", value |-> entry.value, ephemeral |-> entry.ephemeral,
                       ttl |-> FALSE])
            /\ shared' = shared \cup
                 {entry.value : k \in {k \in Handlers : Does(k, "found") /\ handler[k].value = entry.value}}
       ELSE UNCHANGED <<handler, shared>>
    /\ UNCHANGED <<store, entry, expiry, writes, errors, given>>

\* Mutant: the value is given to the job and stays.
GiveAndKeep(h) ==
    /\ Does(h, "found") /\ Rests(h) /\ Known
    /\ given' = IF handler[h].ephemeral THEN [given EXCEPT ![handler[h].value] = @ + 1] ELSE given
    /\ Besides /\ UNCHANGED errors

\* A single-use secret is deleted, by its path, and its value given to the job; if
\* the value cannot be decrypted or the deletion fails (Breaks), the secret stays.
Give(h) ==
    /\ Does(h, "found") /\ Rests(h)
    /\ IF handler[h].ephemeral
       THEN Remove /\ given' = [given EXCEPT ![handler[h].value] = @ + 1]
       ELSE Known /\ UNCHANGED given
    /\ Besides /\ UNCHANGED errors

SecretsStep ==
    \/ \E h \in Handlers : AsksToWrite(h) \/ AsksToDelete(h) \/ Put(h) \/ VaultMetadata(h)
                       \/ Delete(h) \/ Find(h) \/ Give(h) \/ Breaks(h)
    \/ Expire \/ Purge \/ Submit

\* A single-use secret is given to one job, however many refer to it -- unless
\* it was found for two of them before it was deleted for the first.
SingleUse == \A v \in 1..MaxWrites : given[v] <= 1 \/ v \in shared
=============================================================================
