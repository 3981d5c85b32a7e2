-------------------------- MODULE AccessSystemProofs --------------------------
(***************************************************************************)
(* Theorems about AccessSystem, for every number of clients, queues,       *)
(* commands, managers, tokens, jobs that refer to a secret, agents and     *)
(* ports, and without the bounds on changes and failures.                  *)
(***************************************************************************)
EXTENDS AccessSystem, TLAPS

(***************************************************************************)
(* Secrets.  A value is written by one request, is found by others as long *)
(* as it is in the store, and is given to a job when it leaves the store.  *)
(***************************************************************************)
Values  == 0..MaxWrites
Handler == [at : {"rest", "put", "metadata", "delete", "found"}, value : Values,
            ephemeral : BOOLEAN, ttl : BOOLEAN]

SecretsTypeOK ==
    /\ store \in {"none", "mongo", "vault"}
    /\ entry \in [value : Values, ephemeral : BOOLEAN]
    /\ handler \in [Handlers -> Handler]
    /\ writes \in Values
    /\ given \in [1..MaxWrites -> Nat]

Carries(h, v) == Does(h, "found") /\ handler[h].value = v
Writing(h, v) == Does(h, "put") /\ handler[h].value = v

\* A value is not there before it is asked to be written, and is written once.
WrittenOnce ==
    /\ entry = None \/ entry.value \in 1..writes
    /\ \A v \in 1..MaxWrites, h \in Handlers :
          /\ Carries(h, v) => v <= writes
          /\ Writing(h, v) => /\ v <= writes /\ entry.value # v /\ given[v] = 0
                              /\ \A k \in Handlers : /\ Writing(k, v) => k = h
                                                     /\ ~Carries(k, v)
    /\ \A v \in 1..MaxWrites : v > writes => given[v] = 0
    /\ \A h \in Handlers : Does(h, "put") \/ Does(h, "found") => handler[h].value \in 1..MaxWrites

\* A single-use value that was given is not in the store any more, and two
\* reads that have a value found it at a time.
GivenAndGone ==
    /\ \A v \in 1..MaxWrites : given[v] > 0 => entry.value # v
    /\ \A v \in 1..MaxWrites, h, k \in Handlers : v \notin shared =>
          /\ Carries(h, v) /\ Carries(k, v) => h = k
          /\ Carries(h, v) => given[v] = 0

SecretsInv == SecretsTypeOK /\ WrittenOnce /\ GivenAndGone /\ SingleUse

\* What a step makes of one handler, and of nothing else
LEMMA OneHandler ==
    ASSUME SecretsInv, NEW h \in Handlers, NEW r \in Handler, Now(h, r)
    PROVE  /\ handler' \in [Handlers -> Handler]
           /\ \A k \in Handlers : handler'[k] = IF k = h THEN r ELSE handler[k]
  BY DEF SecretsInv, SecretsTypeOK, Now

\* A handler goes on without a value, or with the one it had, and not to read or
\* write it.
LEMMA QuietHandler ==
    ASSUME SecretsInv, NEW h \in Handlers, NEW r \in Handler, Now(h, r),
           r.at \notin {"put", "found"},
           store' = store, writes' = writes, given' = given, shared' = shared,
           entry' = entry \/ entry' = None
    PROVE  SecretsInv'
  <1>1. /\ handler' \in [Handlers -> Handler]
        /\ \A k \in Handlers : handler'[k] = IF k = h THEN r ELSE handler[k]
    BY OneHandler
  <1>2. \A k \in Handlers, v \in 1..MaxWrites :
            /\ Carries(k, v)' => Carries(k, v)
            /\ Writing(k, v)' => Writing(k, v)
    BY <1>1 DEF Carries, Writing, Does
  <1>n. None \in [value : Values, ephemeral : BOOLEAN] /\ None.value = 0
    BY SecretsAssumption DEF None, Values
  <1>e. entry'.value = entry.value \/ entry' = None
    OBVIOUS
  <1>3. SecretsTypeOK'
    BY <1>1, <1>n DEF SecretsInv, SecretsTypeOK
  <1>4. WrittenOnce'
    <2>1. \A k \in Handlers : (Does(k, "put") \/ Does(k, "found"))' => handler'[k].value \in 1..MaxWrites
      BY <1>1 DEF SecretsInv, WrittenOnce, Does
    <2>2. entry' = None \/ entry'.value \in 1..writes'
      BY DEF SecretsInv, WrittenOnce
    <2>3. \A v \in 1..MaxWrites : entry.value # v => entry'.value # v
      BY <1>n, <1>e
    <2>4. \A v \in 1..MaxWrites : v > writes' => given'[v] = 0
      BY DEF SecretsInv, WrittenOnce
    <2>5. ASSUME NEW v \in 1..MaxWrites, NEW k \in Handlers
          PROVE  /\ Carries(k, v)' => v <= writes'
                 /\ Writing(k, v)' =>
                       /\ v <= writes' /\ entry'.value # v /\ given'[v] = 0
                       /\ \A j \in Handlers : (Writing(j, v)' => j = k) /\ ~Carries(j, v)'
      BY <1>2, <2>3 DEF SecretsInv, WrittenOnce, Carries, Writing, Does
    <2> QED BY <2>1, <2>2, <2>4, <2>5 DEF WrittenOnce, Writing, Carries, Does
  <1>5. GivenAndGone' /\ SingleUse'
    <2>1. \A v \in 1..MaxWrites : entry.value # v => entry'.value # v
      BY <1>n, <1>e
    <2> QED BY <1>2, <2>1 DEF SecretsInv, GivenAndGone, SingleUse, Carries, Does
  <1> QED BY <1>3, <1>4, <1>5 DEF SecretsInv

LEMMA AsksToWriteSafe ==
    ASSUME SecretsInv, NEW h \in Handlers, AsksToWrite(h) PROVE SecretsInv'
  <1>1. PICK eph \in BOOLEAN, ttl \in BOOLEAN :
            Now(h, [at |-> "put", value |-> writes', ephemeral |-> eph, ttl |-> ttl])
    BY DEF AsksToWrite
  <1> DEFINE r == [at |-> "put", value |-> writes', ephemeral |-> eph, ttl |-> ttl]
  <1>2. /\ writes < MaxWrites /\ writes' = writes + 1 /\ writes' \in 1..MaxWrites
        /\ UNCHANGED <<store, entry, given, shared>> /\ writes \in 0..MaxWrites
    BY SecretsAssumption DEF AsksToWrite, Known, SecretsInv, SecretsTypeOK, Values
  <1>3. r \in Handler /\ r.at = "put" /\ r.value = writes + 1
    BY <1>2, SecretsAssumption DEF Handler, Values
  <1> HIDE DEF r
  <1>4. /\ handler' \in [Handlers -> Handler]
        /\ \A k \in Handlers : handler'[k] = IF k = h THEN r ELSE handler[k]
    BY <1>1, <1>3, OneHandler DEF r
  <1>5. \A k \in Handlers, v \in 1..MaxWrites :
            /\ Carries(k, v)' => Carries(k, v)
            /\ Writing(k, v)' => Writing(k, v) \/ (k = h /\ v = writes + 1)
    BY <1>3, <1>4 DEF Carries, Writing, Does
  <1>6. SecretsTypeOK'
    BY <1>2, <1>4, SecretsAssumption DEF SecretsInv, SecretsTypeOK, Values
  <1>7. WrittenOnce'
    <2>1. entry' = None \/ entry'.value \in 1..writes'
      BY <1>2 DEF SecretsInv, WrittenOnce
    <2>2. \A k \in Handlers : (Does(k, "put") \/ Does(k, "found"))' => handler'[k].value \in 1..MaxWrites
      BY <1>2, <1>3, <1>4 DEF SecretsInv, WrittenOnce, Does
    <2>3. \A v \in 1..MaxWrites : v > writes' => given'[v] = 0
      BY <1>2 DEF SecretsInv, WrittenOnce
    <2>4. ASSUME NEW v \in 1..MaxWrites, NEW k \in Handlers, Writing(k, v)'
          PROVE  /\ v <= writes' /\ entry'.value # v /\ given'[v] = 0
                 /\ \A j \in Handlers : (Writing(j, v)' => j = k) /\ ~Carries(j, v)'
      <3>1. CASE k = h /\ v = writes + 1
        BY <1>2, <1>5, <3>1 DEF SecretsInv, WrittenOnce, None
      <3>2. CASE Writing(k, v)
        BY <1>2, <1>5, <3>2 DEF SecretsInv, WrittenOnce
      <3> QED BY <1>5, <2>4, <3>1, <3>2
    <2>5. \A v \in 1..MaxWrites, k \in Handlers : Carries(k, v)' => v <= writes'
      BY <1>2, <1>5 DEF SecretsInv, WrittenOnce
    <2> QED BY <2>1, <2>2, <2>3, <2>4, <2>5 DEF WrittenOnce, Writing, Carries, Does
  <1>8. GivenAndGone' /\ SingleUse'
    BY <1>2, <1>5 DEF SecretsInv, GivenAndGone, SingleUse
  <1> QED BY <1>6, <1>7, <1>8 DEF SecretsInv

LEMMA PutSafe ==
    ASSUME SecretsInv, NEW h \in Handlers, Put(h) PROVE SecretsInv'
  <1> DEFINE v == handler[h].value
  <1>t. /\ handler[h] \in Handler /\ Does(h, "put") /\ UNCHANGED <<store, writes, given, shared>>
        /\ store \in {"none", "mongo", "vault"}
    BY DEF SecretsInv, SecretsTypeOK, Put, Besides
  <1>r. Resting \in Handler /\ Resting.at = "rest"
    BY SecretsAssumption DEF Resting, Handler, Values
  <1>1. CASE store = "none"
    BY <1>1, <1>r, <1>t, QuietHandler DEF Put, Known, Rests
  <1>2. CASE store \in {"mongo", "vault"}
    <2>1. PICK r \in Handler : r.at \in {"rest", "metadata"} /\ Now(h, r)
      <3>1. [handler[h] EXCEPT !.at = "metadata"] \in Handler
            /\ [handler[h] EXCEPT !.at = "metadata"].at = "metadata"
        BY <1>t DEF Handler
      <3> QED BY <1>2, <1>r, <3>1 DEF Put, MongoWrite, VaultWrite, Rests, Turns
    <2>2. entry' = Value(h)
      BY <1>2 DEF Put, MongoWrite, VaultWrite
    <2>3. /\ entry' \in [value : Values, ephemeral : BOOLEAN] /\ entry'.value = v
      BY <1>t, <2>2 DEF Value, Handler
    <2>4. v \in 1..writes /\ v \in 1..MaxWrites /\ Writing(h, v)
      BY <1>t DEF SecretsInv, WrittenOnce, Writing
    <2>5. /\ handler' \in [Handlers -> Handler]
          /\ \A k \in Handlers : handler'[k] = IF k = h THEN r ELSE handler[k]
      BY <2>1, OneHandler
    <2>6. \A k \in Handlers, u \in 1..MaxWrites :
              /\ Carries(k, u)' => Carries(k, u)
              /\ Writing(k, u)' => Writing(k, u) /\ k # h
      BY <2>1, <2>5 DEF Carries, Writing, Does
    <2>7. SecretsTypeOK'
      BY <1>t, <2>3, <2>5 DEF SecretsInv, SecretsTypeOK
    <2>8. WrittenOnce'
      <3>1. ASSUME NEW u \in 1..MaxWrites, NEW k \in Handlers, Writing(k, u)'
            PROVE  /\ u <= writes' /\ entry'.value # u /\ given'[u] = 0
                   /\ \A j \in Handlers : (Writing(j, u)' => j = k) /\ ~Carries(j, u)'
        <4>1. Writing(k, u) /\ k # h
          BY <2>6, <3>1
        <4>2. u # v
          BY <2>4, <4>1 DEF SecretsInv, WrittenOnce
        <4> QED BY <1>t, <2>3, <2>6, <4>1, <4>2 DEF SecretsInv, WrittenOnce
      <3>2. \A k \in Handlers : (Does(k, "put") \/ Does(k, "found"))' => handler'[k].value \in 1..MaxWrites
        BY <2>1, <2>5 DEF SecretsInv, WrittenOnce, Does
      <3>3. \A u \in 1..MaxWrites, k \in Handlers : Carries(k, u)' => u <= writes'
        BY <1>t, <2>6 DEF SecretsInv, WrittenOnce
      <3>4. \A u \in 1..MaxWrites : u > writes' => given'[u] = 0
        BY <1>t DEF SecretsInv, WrittenOnce
      <3> QED BY <1>t, <2>3, <2>4, <3>1, <3>2, <3>3, <3>4 DEF WrittenOnce, Writing, Carries, Does
    <2>9. GivenAndGone' /\ SingleUse'
      <3>1. given[v] = 0
        BY <2>4 DEF SecretsInv, WrittenOnce
      <3> QED BY <1>t, <2>3, <2>6, <3>1 DEF SecretsInv, GivenAndGone, SingleUse
    <2> QED BY <2>7, <2>8, <2>9 DEF SecretsInv
  <1> QED BY <1>t, <1>1, <1>2

\* A read takes the value with it; another one that found it is noted.
LEMMA FindSafe ==
    ASSUME SecretsInv, NEW h \in Handlers, Find(h) PROVE SecretsInv'
  <1>t. /\ Does(h, "rest") /\ UNCHANGED <<store, entry, writes, given>>
        /\ entry \in [value : Values, ephemeral : BOOLEAN]
    BY DEF Find, SecretsInv, SecretsTypeOK
  <1>1. CASE UNCHANGED <<handler, shared>>
    BY <1>1, <1>t
    DEF SecretsInv, SecretsTypeOK, WrittenOnce, GivenAndGone, SingleUse, Carries, Writing, Does
  <1>2. CASE ~ UNCHANGED <<handler, shared>>
    <2> DEFINE r == [at |-> "found", value |-> entry.value, ephemeral |-> entry.ephemeral,
                     ttl |-> FALSE]
               v == entry.value
    <2>1. /\ entry # None /\ Now(h, r)
          /\ shared' = shared \cup
                 {v : k \in {k \in Handlers : Does(k, "found") /\ handler[k].value = v}}
      BY <1>2 DEF Find, MongoFound, VaultFound
    <2>2. v \in 1..writes /\ v \in 1..MaxWrites
      BY <2>1, SecretsAssumption DEF SecretsInv, SecretsTypeOK, WrittenOnce, Values
    <2>3. r \in Handler /\ r.at = "found" /\ r.value = v
      BY <1>t DEF Handler
    <2>4. given[v] = 0
      BY <2>2 DEF SecretsInv, SecretsTypeOK, GivenAndGone
    <2>5. v \notin shared' => \A k \in Handlers : ~Carries(k, v)
      BY <2>1 DEF Carries
    <2>6. \A u : u \notin shared' => u \notin shared
      BY <2>1
    <2> HIDE DEF r
    <2>7. /\ handler' \in [Handlers -> Handler]
          /\ \A k \in Handlers : handler'[k] = IF k = h THEN r ELSE handler[k]
      BY <2>1, <2>3, OneHandler
    <2> HIDE DEF v
    <2>8. \A k \in Handlers, u \in 1..MaxWrites :
              /\ Carries(k, u)' <=> IF k = h THEN u = v ELSE Carries(k, u)
              /\ Writing(k, u)' => Writing(k, u)
      BY <2>3, <2>7 DEF Carries, Writing, Does
    <2>9. SecretsTypeOK'
      BY <1>t, <2>7 DEF SecretsInv, SecretsTypeOK
    <2>10. WrittenOnce'
      <3>1. \A k \in Handlers :
                (Does(k, "put") \/ Does(k, "found"))' => handler'[k].value \in 1..MaxWrites
        BY <2>2, <2>3, <2>7 DEF SecretsInv, WrittenOnce, Does
      <3>2. ASSUME NEW u \in 1..MaxWrites, NEW k \in Handlers, Writing(k, u)'
            PROVE  /\ u <= writes' /\ entry'.value # u /\ given'[u] = 0
                   /\ \A j \in Handlers : (Writing(j, u)' => j = k) /\ ~Carries(j, u)'
        <4>1. Writing(k, u) /\ u # v
          BY <2>8, <3>2 DEF SecretsInv, WrittenOnce, v
        <4> QED BY <1>t, <2>8, <4>1 DEF SecretsInv, WrittenOnce
      <3>3. \A u \in 1..MaxWrites, k \in Handlers : Carries(k, u)' => u <= writes'
        BY <1>t, <2>2, <2>8 DEF SecretsInv, WrittenOnce
      <3>4. \A u \in 1..MaxWrites : u > writes' => given'[u] = 0
        BY <1>t DEF SecretsInv, WrittenOnce
      <3>5. entry' = None \/ entry'.value \in 1..writes'
        BY <1>t DEF SecretsInv, WrittenOnce
      <3> QED BY <3>1, <3>2, <3>3, <3>4, <3>5 DEF WrittenOnce, Writing, Carries, Does
    <2>11. GivenAndGone'
      <3>1. ASSUME NEW u \in 1..MaxWrites, NEW j \in Handlers, NEW k \in Handlers, u \notin shared'
            PROVE  /\ Carries(j, u)' /\ Carries(k, u)' => j = k
                   /\ Carries(j, u)' => given'[u] = 0
        BY <1>t, <2>4, <2>5, <2>6, <2>8, <3>1 DEF SecretsInv, GivenAndGone
      <3> QED BY <1>t, <3>1 DEF SecretsInv, GivenAndGone, Carries, Does
    <2>12. SingleUse'
      BY <1>t, <2>6 DEF SecretsInv, SingleUse
    <2> QED BY <2>9, <2>10, <2>11, <2>12 DEF SecretsInv
  <1> QED BY <1>1, <1>2

\* A value that is given is gone from the store, and no other read has it.
LEMMA GiveSafe ==
    ASSUME SecretsInv, NEW h \in Handlers, Give(h) PROVE SecretsInv'
  <1> DEFINE v == handler[h].value
  <1>r. Resting \in Handler /\ Resting.at = "rest"
    BY SecretsAssumption DEF Resting, Handler, Values
  <1>t. /\ Does(h, "found") /\ Now(h, Resting) /\ store' = store /\ writes' = writes
        /\ shared' = shared /\ v \in 1..MaxWrites
    BY DEF Give, Besides, Rests, SecretsInv, WrittenOnce
  <1>1. CASE ~handler[h].ephemeral
    BY <1>1, <1>r, <1>t, QuietHandler DEF Give, Known
  <1>2. CASE handler[h].ephemeral
    <2>1. entry' = None /\ given' = [given EXCEPT ![v] = @ + 1]
      BY <1>2 DEF Give, Remove, MongoDelete, VaultDelete
    <2>2. /\ handler' \in [Handlers -> Handler]
          /\ \A k \in Handlers : handler'[k] = IF k = h THEN Resting ELSE handler[k]
      BY <1>r, <1>t, OneHandler
    <2>3. Carries(h, v)
      BY <1>t DEF Carries
    <2>4. \A u \in 1..MaxWrites : given'[u] = IF u = v THEN given[u] + 1 ELSE given[u]
      BY <1>t, <2>1 DEF SecretsInv, SecretsTypeOK
    <2>5. v <= writes /\ \A k \in Handlers : ~Writing(k, v)
      BY <1>t, <2>3 DEF SecretsInv, WrittenOnce
    <2>6. v \notin shared => given[v] = 0 /\ \A k \in Handlers : Carries(k, v) => k = h
      BY <1>t, <2>3 DEF SecretsInv, GivenAndGone
    <2>n. None \in [value : Values, ephemeral : BOOLEAN] /\ None.value = 0
      BY SecretsAssumption DEF None, Values
    <2> HIDE DEF v
    <2>7. \A k \in Handlers, u \in 1..MaxWrites :
              /\ Carries(k, u)' => Carries(k, u) /\ k # h
              /\ Writing(k, u)' => Writing(k, u)
      BY <1>r, <2>2 DEF Carries, Writing, Does
    <2>8. SecretsTypeOK'
      BY <1>t, <2>1, <2>2, <2>n DEF SecretsInv, SecretsTypeOK
    <2>9. WrittenOnce'
      <3>1. \A k \in Handlers :
                (Does(k, "put") \/ Does(k, "found"))' => handler'[k].value \in 1..MaxWrites
        BY <1>r, <2>2 DEF SecretsInv, WrittenOnce, Does
      <3>2. ASSUME NEW u \in 1..MaxWrites, NEW k \in Handlers, Writing(k, u)'
            PROVE  /\ u <= writes' /\ entry'.value # u /\ given'[u] = 0
                   /\ \A j \in Handlers : (Writing(j, u)' => j = k) /\ ~Carries(j, u)'
        <4>1. Writing(k, u) /\ u # v
          BY <2>5, <2>7, <3>2
        <4> QED BY <1>t, <2>1, <2>4, <2>7, <2>n, <4>1 DEF SecretsInv, WrittenOnce
      <3>3. \A u \in 1..MaxWrites, k \in Handlers : Carries(k, u)' => u <= writes'
        BY <1>t, <2>7 DEF SecretsInv, WrittenOnce
      <3>4. \A u \in 1..MaxWrites : u > writes' => given'[u] = 0
        <4>1. writes \in Values
          BY DEF SecretsInv, SecretsTypeOK
        <4> QED BY <1>t, <2>4, <2>5, <4>1 DEF SecretsInv, WrittenOnce, Values
      <3> QED BY <2>1, <3>1, <3>2, <3>3, <3>4 DEF WrittenOnce, Writing, Carries, Does
    <2>10. GivenAndGone'
      <3>1. ASSUME NEW u \in 1..MaxWrites, NEW j \in Handlers, NEW k \in Handlers, u \notin shared'
            PROVE  /\ Carries(j, u)' /\ Carries(k, u)' => j = k
                   /\ Carries(j, u)' => given'[u] = 0
        BY <1>t, <2>4, <2>6, <2>7, <3>1 DEF SecretsInv, GivenAndGone
      <3>2. \A u \in 1..MaxWrites : entry'.value # u
        BY <2>1, <2>n
      <3> QED BY <3>1, <3>2 DEF GivenAndGone, Carries, Does
    <2>11. SingleUse'
      BY <1>t, <2>4, <2>6 DEF SecretsInv, SingleUse
    <2> QED BY <2>8, <2>9, <2>10, <2>11 DEF SecretsInv
  <1> QED BY <1>1, <1>2

LEMMA SecretsStepSafe ==
    ASSUME SecretsInv, SecretsStep \/ UNCHANGED secrets PROVE SecretsInv'
  <1>r. Resting \in Handler /\ Resting.at = "rest"
    BY SecretsAssumption DEF Resting, Handler, Values
  <1>1. ASSUME NEW h \in Handlers, AsksToDelete(h) PROVE SecretsInv'
    <2> DEFINE r == [handler[h] EXCEPT !.at = "delete"]
    <2>1. r \in Handler /\ r.at = "delete" /\ Now(h, r)
      BY <1>1 DEF AsksToDelete, Turns, Handler, SecretsInv, SecretsTypeOK
    <2> HIDE DEF r
    <2> QED BY <1>1, <2>1, QuietHandler DEF AsksToDelete, Known, Besides
  <1>2. ASSUME NEW h \in Handlers, VaultMetadata(h) \/ Delete(h) \/ Breaks(h) PROVE SecretsInv'
    <2>1. Now(h, Resting) /\ store' = store /\ writes' = writes /\ shared' = shared
          /\ given' = given
      BY <1>2 DEF VaultMetadata, Delete, Breaks, Rests, Besides
    <2>2. entry' = entry \/ entry' = None
      BY <1>2 DEF VaultMetadata, Delete, Breaks, Known, Remove, MongoDelete, VaultDelete
    <2> QED BY <1>r, <2>1, <2>2, QuietHandler
  <1>3. CASE Expire \/ Purge \/ Submit \/ UNCHANGED secrets
    <2>1. /\ store' = store /\ writes' = writes /\ shared' = shared /\ given' = given
          /\ handler' = handler
      BY <1>3 DEF Expire, Purge, Submit, secrets, Besides
    <2>2. entry' = entry \/ entry' = None
      BY <1>3 DEF Expire, Purge, Submit, secrets, MongoDelete
    <2>n. None \in [value : Values, ephemeral : BOOLEAN] /\ None.value = 0
      BY SecretsAssumption DEF None, Values
    <2>3. \A v \in 1..MaxWrites : entry.value # v => entry'.value # v
      BY <2>2, <2>n
    <2>4. SecretsTypeOK'
      BY <2>1, <2>2, <2>n DEF SecretsInv, SecretsTypeOK
    <2>5. WrittenOnce'
      BY <2>1, <2>2, <2>3 DEF SecretsInv, WrittenOnce, Carries, Writing, Does
    <2>6. GivenAndGone' /\ SingleUse'
      BY <2>1, <2>3 DEF SecretsInv, GivenAndGone, SingleUse, Carries, Does
    <2> QED BY <2>4, <2>5, <2>6 DEF SecretsInv
  <1> QED BY <1>1, <1>2, <1>3, AsksToWriteSafe, PutSafe, FindSafe, GiveSafe DEF SecretsStep

\* A single-use secret is given to one job, however many requests write, delete
\* and read it, jobs refer to it, and calls of the store fail (SingleUse); the
\* only way round it are reads that found it before one of them deleted it.
THEOREM SecretsUsedOnce == Spec => []SingleUse
  <1>1. Init => SecretsInv
    <2> SUFFICES ASSUME Init PROVE SecretsInv
      OBVIOUS
    <2>1. /\ store \in {"none", "mongo", "vault"} /\ entry = None /\ writes = 0
          /\ handler = [h \in Handlers |-> Resting]
          /\ given = [v \in 1..MaxWrites |-> 0] /\ shared = {}
      BY DEF Init, SecretsInit, SetUp
    <2>2. Resting \in Handler /\ Resting.at = "rest"
      BY SecretsAssumption DEF Resting, Handler, Values
    <2>3. None \in [value : Values, ephemeral : BOOLEAN] /\ None.value = 0
      BY SecretsAssumption DEF None, Values
    <2> QED BY <2>1, <2>2, <2>3, SecretsAssumption
            DEF SecretsInv, SecretsTypeOK, WrittenOnce, GivenAndGone, SingleUse, Carries,
                Writing, Does, Values
  <1>2. SecretsInv /\ [Next]_vars => SecretsInv'
    <2> SUFFICES ASSUME SecretsInv, [Next]_vars PROVE SecretsInv'
      OBVIOUS
    <2>1. SecretsStep \/ UNCHANGED secrets
      BY DEF Next, vars, StoreWorks, HostWorks, ManagerAsks, ManagerHears, ServerWorks, CallFails,
             CommandStarts, CommandWorks, CommandRunsLate, ToolEdits, UserActs, TimePasses,
             Same, Elsewhere
    <2> QED BY <2>1, SecretsStepSafe
  <1>3. SecretsInv => SingleUse
    BY DEF SecretsInv
  <1> QED BY <1>1, <1>2, <1>3, PTL DEF Spec

(***************************************************************************)
(* The agent host.  A hook takes the ports from the service files before   *)
(* it removes them, and writes them back, so that the file of an agent     *)
(* that runs keeps its port for as long as it is not lost.                 *)
(***************************************************************************)
\* What a hook does is a sequence of these.
Points == {"packages", "scripts", "source", "clone", "remove-copy", "move-copy", "keys",
           "read-files", "write-files", "supervisor", "restart", "token", "secret",
           "authenticate", "store"}

\* The place of the steps on service files in what a hook does
Ordered(s) ==
    \A i \in 1..Len(s) :
       /\ s[i] \in {"read-files", "write-files"} => i < Len(s)
       /\ i < Len(s) => /\ s[i + 1] = "write-files" <=> s[i] = "read-files"
                        /\ s[i + 1] = "supervisor" <=> s[i] = "write-files"

HookOK ==
    /\ hook = [kind |-> hook.kind, left |-> hook.left, clone |-> hook.clone,
               todo |-> hook.todo, old |-> hook.old, used |-> hook.used]
    /\ hook.left \in Seq(Points) /\ Ordered(hook.left)

FilesOK ==
    /\ files = [a \in Agents |-> files[a]] /\ runs = [a \in Agents |-> runs[a]]
    /\ \A a \in Agents :
          /\ files[a] = [dir |-> files[a].dir, port |-> files[a].port]
          /\ runs[a] = [dir |-> runs[a].dir, port |-> runs[a].port]
          /\ files[a] # NoFile => files[a].port # 0
          /\ runs[a] # NoFile => runs[a].port # 0
    /\ busy \subseteq {a \in Agents : runs[a] # NoFile}

Handled == InHook("write-files") \/ InHook("supervisor")

\* The file of an agent while the files are written, and what it keeps then
Rewritten(a) ==
    /\ a \notin checkout => files[a] = NoFile
    /\ InHook("write-files") /\ a \in hook.todo =>
          /\ a \in checkout /\ files[a] = NoFile
          /\ runs[a] # NoFile /\ a \notin lost => hook.old[a] = runs[a].port
    /\ a \in checkout /\ ~(InHook("write-files") /\ a \in hook.todo) =>
          (runs[a] # NoFile /\ a \notin lost => files[a] = [dir |-> dir, port |-> runs[a].port])

PortsKept ==
    \A a \in Agents :
       /\ Handled => Rewritten(a)
       /\ ~Handled => (runs[a] # NoFile /\ a \notin lost => files[a].port = runs[a].port)

HostInv == HookOK /\ FilesOK /\ PortsKept

LEMMA HeadIsFirst ==
    ASSUME NEW S, NEW s \in Seq(S), s # <<>>
    PROVE  Len(s) \in Nat \ {0} /\ Head(s) = s[1]
  OBVIOUS

LEMMA ConcatOrdered ==
    ASSUME NEW s \in Seq(Points), NEW t \in Seq(Points), Ordered(s), Ordered(t),
           s # <<>>, t # <<>>,
           s[Len(s)] \notin {"read-files", "write-files"},
           t[1] \notin {"write-files", "supervisor"}
    PROVE  /\ s \o t \in Seq(Points) /\ s \o t # <<>> /\ Ordered(s \o t)
           /\ (s \o t)[1] = s[1] /\ (s \o t)[Len(s \o t)] = t[Len(t)]
  <1>1. /\ s \o t \in Seq(Points) /\ Len(s \o t) = Len(s) + Len(t)
        /\ \A i \in 1..(Len(s) + Len(t)) :
              (s \o t)[i] = IF i <= Len(s) THEN s[i] ELSE t[i - Len(s)]
        /\ Len(s) \in Nat \ {0} /\ Len(t) \in Nat \ {0}
    OBVIOUS
  <1>2. ASSUME NEW i \in 1..Len(s \o t)
        PROVE  /\ (s \o t)[i] \in {"read-files", "write-files"} => i < Len(s \o t)
               /\ i < Len(s \o t) =>
                     /\ (s \o t)[i + 1] = "write-files" <=> (s \o t)[i] = "read-files"
                     /\ (s \o t)[i + 1] = "supervisor" <=> (s \o t)[i] = "write-files"
    <2>1. CASE i < Len(s)
      <3>1. i \in 1..Len(s) /\ i + 1 \in 1..Len(s)
        BY <1>1, <2>1
      <3>2. (s \o t)[i] = s[i] /\ (s \o t)[i + 1] = s[i + 1]
        BY <1>1, <3>1
      <3> QED BY <1>1, <2>1, <3>1, <3>2 DEF Ordered
    <2>2. CASE i = Len(s)
      <3>1. (s \o t)[i] = s[Len(s)] /\ (s \o t)[i + 1] = t[1]
        BY <1>1, <2>2
      <3> QED BY <1>1, <2>2, <3>1
    <2>3. CASE i > Len(s)
      <3> DEFINE j == i - Len(s)
      <3>1. j \in 1..Len(t) /\ (s \o t)[i] = t[j]
        BY <1>1, <2>3
      <3>2. i < Len(s \o t) => j < Len(t) /\ (s \o t)[i + 1] = t[j + 1]
        BY <1>1, <2>3
      <3>3. j < Len(t) => i < Len(s \o t)
        BY <1>1, <2>3
      <3> HIDE DEF j
      <3> QED BY <3>1, <3>2, <3>3 DEF Ordered
    <2> QED BY <1>1, <2>1, <2>2, <2>3
  <1>3. Ordered(s \o t)
    BY <1>2 DEF Ordered
  <1> QED BY <1>1, <1>3

LEMMA Plans ==
    ASSUME NEW k
    PROVE  /\ Plan(k) \in Seq(Points) /\ Plan(k) # <<>> /\ Ordered(Plan(k))
           /\ Plan(k)[1] \notin {"write-files", "supervisor"}
  <1> DEFINE Good(s) == /\ s \in Seq(Points) /\ s # <<>> /\ Ordered(s)
                        /\ s[1] \notin {"write-files", "supervisor"}
                        /\ s[Len(s)] \notin {"read-files", "write-files"}
  <1>1. ASSUME NEW s, NEW t, Good(s), Good(t) PROVE Good(s \o t)
    BY <1>1, ConcatOrdered
  <1>a. ASSUME NEW x, NEW y, x \in Points, y \in Points
        PROVE  /\ <<x, y>> \in Seq(Points) /\ Len(<<x, y>>) = 2
               /\ <<x, y>>[1] = x /\ <<x, y>>[2] = y
    BY <1>a
  <1>b. ASSUME NEW x, NEW y, NEW z, x \in Points, y \in Points, z \in Points
        PROVE  /\ <<x, y, z>> \in Seq(Points) /\ Len(<<x, y, z>>) = 3
               /\ <<x, y, z>>[1] = x /\ <<x, y, z>>[2] = y /\ <<x, y, z>>[3] = z
    BY <1>b
  <1>c. ASSUME NEW x, NEW y, NEW z, NEW u, x \in Points, y \in Points, z \in Points, u \in Points
        PROVE  /\ <<x, y, z, u>> \in Seq(Points) /\ Len(<<x, y, z, u>>) = 4
               /\ <<x, y, z, u>>[1] = x /\ <<x, y, z, u>>[2] = y
               /\ <<x, y, z, u>>[3] = z /\ <<x, y, z, u>>[4] = u
    BY <1>c
  <1>d. ASSUME NEW s, s \in Seq(Points), Len(s) > 0 PROVE s # <<>>
    BY <1>d
  <1>2. Good(FetchRepo)
    <2>1. /\ FetchRepo \in Seq(Points) /\ Len(FetchRepo) = 3
          /\ FetchRepo[1] = "clone" /\ FetchRepo[2] = "remove-copy" /\ FetchRepo[3] = "move-copy"
      BY <1>b DEF FetchRepo, Points
    <2> QED BY <2>1, <1>d DEF Ordered
  <1>3. Good(Service)
    <2>1. /\ Service \in Seq(Points) /\ Len(Service) = 4
          /\ Service[1] = "read-files" /\ Service[2] = "write-files"
          /\ Service[3] = "supervisor" /\ Service[4] = "restart"
      BY <1>c DEF Service, Points
    <2> HIDE DEF Service
    <2>2. ASSUME NEW i \in 1..Len(Service)
          PROVE  /\ Service[i] \in {"read-files", "write-files"} => i < Len(Service)
                 /\ i < Len(Service) =>
                       /\ Service[i + 1] = "write-files" <=> Service[i] = "read-files"
                       /\ Service[i + 1] = "supervisor" <=> Service[i] = "write-files"
      <3>1. i = 1 \/ i = 2 \/ i = 3 \/ i = 4
        BY <2>1
      <3> QED BY <2>1, <3>1
    <2>3. Service[Len(Service)] \notin {"read-files", "write-files"}
      BY <2>1
    <2> QED BY <2>1, <2>2, <2>3, <1>d DEF Ordered
  <1>4. Good(LogIn)
    <2>1. /\ LogIn \in Seq(Points) /\ Len(LogIn) = 4
          /\ LogIn[1] = "token" /\ LogIn[2] = "secret"
          /\ LogIn[3] = "authenticate" /\ LogIn[4] = "store"
      BY <1>c DEF LogIn, Points
    <2> QED BY <2>1, <1>d DEF Ordered
  <1>5. Good(<<"packages", "scripts", "source">>) /\ Good(<<"keys", "scripts">>)
        /\ Good(<<"source", "restart">>)
    <2>1. ASSUME NEW s, s \in Seq(Points), Len(s) = 2 \/ Len(s) = 3,
                 \A i \in 1..Len(s) : s[i] \in {"packages", "scripts", "source", "keys", "restart"}
          PROVE  Good(s)
      BY <2>1, <1>d DEF Ordered
    <2> HIDE DEF Good
    <2>2. Good(<<"packages", "scripts", "source">>)
      <3> DEFINE s == <<"packages", "scripts", "source">>
      <3>1. s \in Seq(Points) /\ Len(s) = 3 /\ s[1] = "packages" /\ s[2] = "scripts" /\ s[3] = "source"
        BY <1>b DEF Points
      <3> HIDE DEF s
      <3>2. Good(s)
        BY <3>1, <2>1
      <3> QED BY <3>2 DEF s
    <2>3. Good(<<"keys", "scripts">>)
      <3> DEFINE s == <<"keys", "scripts">>
      <3>1. s \in Seq(Points) /\ Len(s) = 2 /\ s[1] = "keys" /\ s[2] = "scripts"
        BY <1>a DEF Points
      <3> HIDE DEF s
      <3>2. Good(s)
        BY <3>1, <2>1
      <3> QED BY <3>2 DEF s
    <2>4. Good(<<"source", "restart">>)
      <3> DEFINE s == <<"source", "restart">>
      <3>1. s \in Seq(Points) /\ Len(s) = 2 /\ s[1] = "source" /\ s[2] = "restart"
        BY <1>a DEF Points
      <3> HIDE DEF s
      <3>2. Good(s)
        BY <3>1, <2>1
      <3> QED BY <3>2 DEF s
    <2> QED BY <2>2, <2>3, <2>4
  <1>6. Plan(k) \in {<<"packages", "scripts", "source">> \o FetchRepo,
                     FetchRepo \o <<"keys", "scripts">> \o Service \o LogIn,
                     FetchRepo \o Service, <<"source", "restart">>,
                     <<"packages", "scripts", "source">>, LogIn}
    BY DEF Plan
  <1> HIDE DEF Good
  <1>7. Good(Plan(k))
    <2>1. Good(<<"packages", "scripts", "source">> \o FetchRepo)
      BY <1>1, <1>2, <1>5
    <2>2. Good(FetchRepo \o Service)
      BY <1>1, <1>2, <1>3
    <2>3. Good(FetchRepo \o <<"keys", "scripts">>)
      BY <1>1, <1>2, <1>5
    <2>4. Good(FetchRepo \o <<"keys", "scripts">> \o Service)
      BY <1>1, <1>3, <2>3
    <2>5. Good(FetchRepo \o <<"keys", "scripts">> \o Service \o LogIn)
      BY <1>1, <1>4, <2>4
    <2> QED BY <1>4, <1>5, <1>6, <2>1, <2>2, <2>5, Zenon
  <1> QED BY <1>7 DEF Good

\* A hook that rests or begins has nothing to do with files yet.
LEMMA Begins ==
    ASSUME hook' = Rest \/ \E k : hook' = [Rest EXCEPT !.kind = k, !.left = Plan(k)]
    PROVE  HookOK' /\ ~Handled'
  <1>1. CASE hook' = Rest
    BY <1>1 DEF Rest, HookOK, Ordered, Handled, InHook
  <1>2. ASSUME NEW k, hook' = [Rest EXCEPT !.kind = k, !.left = Plan(k)] PROVE HookOK' /\ ~Handled'
    <2>1. hook'.left = Plan(k)
      BY <1>2 DEF Rest
    <2>2. hook' = [kind |-> hook'.kind, left |-> hook'.left, clone |-> hook'.clone,
                   todo |-> hook'.todo, old |-> hook'.old, used |-> hook'.used]
      BY <1>2 DEF Rest
    <2>3. Head(Plan(k)) = Plan(k)[1]
      BY HeadIsFirst, Plans
    <2> QED BY <2>1, <2>2, <2>3, Plans DEF HookOK, Handled, InHook
  <1> QED BY <1>1, <1>2

\* A hook that goes on comes from reading the files to writing them, and from
\* that to supervisord.
LEMMA Advance ==
    ASSUME HookOK, hook.left # <<>>, NEW r,
           r = [kind |-> r.kind, left |-> hook.left, clone |-> r.clone,
                todo |-> r.todo, old |-> r.old, used |-> r.used],
           \/ hook' = [r EXCEPT !.left = Tail(@)]
           \/ hook' = Rest /\ ~(Len(hook.left) > 1)
    PROVE  /\ HookOK'
           /\ InHook("write-files")' <=> InHook("read-files")
           /\ InHook("supervisor")' <=> InHook("write-files")
           /\ InHook("read-files") => hook'.todo = r.todo /\ hook'.old = r.old
  <1> DEFINE s == hook.left
  <1>1. s \in Seq(Points) /\ Ordered(s) /\ Len(s) \in Nat \ {0} /\ Head(s) = s[1]
    BY DEF HookOK
  <1>2. /\ Head(s) \in {"read-files", "write-files"} => Len(s) > 1
        /\ Len(s) > 1 => /\ s[2] = "write-files" <=> s[1] = "read-files"
                         /\ s[2] = "supervisor" <=> s[1] = "write-files"
    <2>1. 1 \in 1..Len(s)
      BY <1>1
    <2> QED BY <1>1, <2>1 DEF Ordered
  <1>3. CASE hook' = Rest /\ ~(Len(s) > 1)
    BY <1>2, <1>3, Begins DEF Handled, InHook
  <1>4. CASE hook' = [r EXCEPT !.left = Tail(@)]
    <2>1. hook' = [kind |-> r.kind, left |-> Tail(s), clone |-> r.clone,
                   todo |-> r.todo, old |-> r.old, used |-> r.used]
      <3>1. ASSUME NEW t PROVE [r EXCEPT !.left = t] =
                  [kind |-> r.kind, left |-> t, clone |-> r.clone,
                   todo |-> r.todo, old |-> r.old, used |-> r.used]
        OBVIOUS
      <3>2. hook' = [r EXCEPT !.left = Tail(r.left)]
        BY <1>4
      <3>3. r.left = s
        OBVIOUS
      <3> QED BY <3>1, <3>2, <3>3
    <2>2. hook'.left = Tail(s) /\ hook'.todo = r.todo /\ hook'.old = r.old
      BY <2>1
    <2>3. hook' = [kind |-> hook'.kind, left |-> hook'.left, clone |-> hook'.clone,
                   todo |-> hook'.todo, old |-> hook'.old, used |-> hook'.used]
      BY <2>1
    <2>4. /\ Tail(s) \in Seq(Points) /\ Len(Tail(s)) = Len(s) - 1
          /\ \A i \in 1..(Len(s) - 1) : Tail(s)[i] = s[i + 1]
      BY <1>1
    <2>5. Ordered(Tail(s))
      <3>1. ASSUME NEW i \in 1..Len(Tail(s))
            PROVE  /\ Tail(s)[i] \in {"read-files", "write-files"} => i < Len(Tail(s))
                   /\ i < Len(Tail(s)) =>
                         /\ Tail(s)[i + 1] = "write-files" <=> Tail(s)[i] = "read-files"
                         /\ Tail(s)[i + 1] = "supervisor" <=> Tail(s)[i] = "write-files"
        <4>1. i + 1 \in 1..Len(s) /\ Tail(s)[i] = s[i + 1]
          BY <1>1, <2>4
        <4>2. i < Len(Tail(s)) => i + 1 < Len(s) /\ Tail(s)[i + 1] = s[(i + 1) + 1]
          BY <1>1, <2>4
        <4>3. i + 1 < Len(s) => i < Len(Tail(s))
          BY <1>1, <2>4
        <4> QED BY <1>1, <4>1, <4>2, <4>3 DEF Ordered
      <3> QED BY <3>1 DEF Ordered
    <2>6. Tail(s) # <<>> <=> Len(s) > 1
      <3>1. ASSUME NEW t \in Seq(Points) PROVE t # <<>> <=> Len(t) > 0
        OBVIOUS
      <3>2. Tail(s) # <<>> <=> Len(Tail(s)) > 0
        BY <2>4, <3>1
      <3> QED BY <1>1, <2>4, <3>2
    <2>7. Len(s) > 1 => Head(Tail(s)) = s[2]
      BY <1>1, <2>4
    <2> HIDE DEF s
    <2>8. HookOK'
      BY <2>2, <2>3, <2>4, <2>5 DEF HookOK
    <2>9. \A p : InHook(p)' <=> Tail(s) # <<>> /\ Head(Tail(s)) = p
      BY <2>2 DEF InHook
    <2>10. \A p : InHook(p) <=> s[1] = p
      BY <1>1 DEF InHook, s
    <2> QED BY <1>1, <1>2, <2>2, <2>6, <2>7, <2>8, <2>9, <2>10
  <1> QED BY <1>3, <1>4

\* A step that only goes on, from r
LEMMA Onward ==
    ASSUME HookOK, hook.left # <<>>, NEW r, GoesOn(r),
           r = [kind |-> r.kind, left |-> hook.left, clone |-> r.clone,
                todo |-> r.todo, old |-> r.old, used |-> r.used]
    PROVE  /\ HookOK'
           /\ InHook("write-files")' <=> InHook("read-files")
           /\ InHook("supervisor")' <=> InHook("write-files")
           /\ InHook("read-files") => hook'.todo = r.todo /\ hook'.old = r.old
  <1>1. r.left = hook.left
    OBVIOUS
  <1>2. \/ hook' = [r EXCEPT !.left = Tail(@)]
        \/ hook' = Rest /\ ~(Len(hook.left) > 1)
    BY <1>1 DEF GoesOn, Finishes
  <1> QED BY <1>2, Advance

LEMMA Shapes ==
    ASSUME HookOK
    PROVE  /\ hook = [kind |-> hook.kind, left |-> hook.left, clone |-> hook.clone,
                      todo |-> hook.todo, old |-> hook.old, used |-> hook.used]
           /\ \A c : [hook EXCEPT !.clone = c] =
                     [kind |-> hook.kind, left |-> hook.left, clone |-> c,
                      todo |-> hook.todo, old |-> hook.old, used |-> hook.used]
           /\ \A t : [hook EXCEPT !.todo = t] =
                     [kind |-> hook.kind, left |-> hook.left, clone |-> hook.clone,
                      todo |-> t, old |-> hook.old, used |-> hook.used]
           /\ \A t, o, u : [hook EXCEPT !.todo = t, !.old = o, !.used = u] =
                     [kind |-> hook.kind, left |-> hook.left, clone |-> hook.clone,
                      todo |-> t, old |-> o, used |-> u]
           /\ \A t, u : [hook EXCEPT !.todo = t, !.used = u] =
                     [kind |-> hook.kind, left |-> hook.left, clone |-> hook.clone,
                      todo |-> t, old |-> hook.old, used |-> u]
           /\ \A l, t : [hook EXCEPT !.left = l, !.todo = t] =
                     [kind |-> hook.kind, left |-> l, clone |-> hook.clone,
                      todo |-> t, old |-> hook.old, used |-> hook.used]
  <1>1. hook = [kind |-> hook.kind, left |-> hook.left, clone |-> hook.clone,
                todo |-> hook.todo, old |-> hook.old, used |-> hook.used]
    BY DEF HookOK
  <1>2. \A c : [hook EXCEPT !.clone = c] =
            [kind |-> hook.kind, left |-> hook.left, clone |-> c,
             todo |-> hook.todo, old |-> hook.old, used |-> hook.used]
    <2>1. ASSUME NEW c, NEW g, g = [hook EXCEPT !.clone = c]
          PROVE  g = [kind |-> hook.kind, left |-> hook.left, clone |-> c,
                      todo |-> hook.todo, old |-> hook.old, used |-> hook.used]
      BY <1>1, <2>1
    <2> QED BY <2>1, Zenon
  <1>3. \A t : [hook EXCEPT !.todo = t] =
            [kind |-> hook.kind, left |-> hook.left, clone |-> hook.clone,
             todo |-> t, old |-> hook.old, used |-> hook.used]
    <2>1. ASSUME NEW t, NEW g, g = [hook EXCEPT !.todo = t]
          PROVE  g = [kind |-> hook.kind, left |-> hook.left, clone |-> hook.clone,
                      todo |-> t, old |-> hook.old, used |-> hook.used]
      BY <1>1, <2>1
    <2> QED BY <2>1, Zenon
  <1>4. \A t, o, u : [hook EXCEPT !.todo = t, !.old = o, !.used = u] =
            [kind |-> hook.kind, left |-> hook.left, clone |-> hook.clone,
             todo |-> t, old |-> o, used |-> u]
    <2>1. ASSUME NEW t, NEW o, NEW u, NEW g, g = [hook EXCEPT !.todo = t, !.old = o, !.used = u]
          PROVE  g = [kind |-> hook.kind, left |-> hook.left, clone |-> hook.clone,
                      todo |-> t, old |-> o, used |-> u]
      BY <1>1, <2>1
    <2> QED BY <2>1, Zenon
  <1>5. \A t, u : [hook EXCEPT !.todo = t, !.used = u] =
            [kind |-> hook.kind, left |-> hook.left, clone |-> hook.clone,
             todo |-> t, old |-> hook.old, used |-> u]
    <2>1. ASSUME NEW t, NEW u, NEW g, g = [hook EXCEPT !.todo = t, !.used = u]
          PROVE  g = [kind |-> hook.kind, left |-> hook.left, clone |-> hook.clone,
                      todo |-> t, old |-> hook.old, used |-> u]
      BY <1>1, <2>1
    <2> QED BY <2>1, Zenon
  <1>6. \A l, t : [hook EXCEPT !.left = l, !.todo = t] =
            [kind |-> hook.kind, left |-> l, clone |-> hook.clone,
             todo |-> t, old |-> hook.old, used |-> hook.used]
    <2>1. ASSUME NEW l, NEW t, NEW g, g = [hook EXCEPT !.left = l, !.todo = t]
          PROVE  g = [kind |-> hook.kind, left |-> l, clone |-> hook.clone,
                      todo |-> t, old |-> hook.old, used |-> hook.used]
      BY <1>1, <2>1
    <2> QED BY <2>1, Zenon
  <1> QED BY <1>1, <1>2, <1>3, <1>4, <1>5, <1>6

\* Away from the steps on service files nothing changes for them.
LEMMA QuietStep ==
    ASSUME HostInv, HookOK', ~Handled, ~Handled', UNCHANGED <<files, runs, lost, busy>>
    PROVE  HostInv'
  <1>1. FilesOK'
    BY DEF HostInv, FilesOK
  <1>2. PortsKept'
    BY DEF HostInv, PortsKept
  <1> QED BY <1>1, <1>2 DEF HostInv

LEMMA QuietSteps ==
    ASSUME HostInv,
           StartHook \/ HostChanges \/ Clone \/ RemoveCopy \/ MoveCopy \/ NoAgents
              \/ CheckToken \/ LogsIn \/ StoreToken
    PROVE  HostInv'
  <1>1. HookOK
    BY DEF HostInv
  <1>2. UNCHANGED <<files, runs, lost, busy>>
    BY DEF StartHook, HostChanges, Clone, RemoveCopy, MoveCopy, NoAgents, CheckToken, LogsIn,
           StoreToken, outside
  <1>3. ASSUME hook' = Rest \/ (\E k : hook' = [Rest EXCEPT !.kind = k, !.left = Plan(k)]), ~Handled
        PROVE  HostInv'
    BY <1>2, <1>3, Begins, QuietStep
  <1>4. ASSUME NEW p, InHook(p), p \notin {"read-files", "write-files", "supervisor"}
        PROVE  ~Handled /\ ~InHook("read-files") /\ hook.left # <<>>
    BY <1>4 DEF Handled, InHook
  <1>5. ASSUME NEW p, InHook(p), p \notin {"read-files", "write-files", "supervisor"},
               NEW r, GoesOn(r),
               r = [kind |-> r.kind, left |-> hook.left, clone |-> r.clone,
                    todo |-> r.todo, old |-> r.old, used |-> r.used]
        PROVE  HostInv'
    <2>1. HookOK' /\ ~Handled'
      BY <1>1, <1>4, <1>5, Onward DEF Handled
    <2> QED BY <1>2, <1>4, <1>5, <2>1, QuietStep
  <1>6. ASSUME NEW p, InHook(p), p \notin {"read-files", "write-files", "supervisor"}, Proceeds
        PROVE  HostInv'
    BY <1>1, <1>5, <1>6, Shapes DEF Proceeds
  <1>7. CASE StartHook
    <2>1. ~Handled
      BY <1>7 DEF StartHook, NoHook, Rest, Handled, InHook
    <2>2. hook' = Rest \/ (\E k : hook' = [Rest EXCEPT !.kind = k, !.left = Plan(k)])
      BY <1>7 DEF StartHook, Finishes
    <2> QED BY <1>3, <2>1, <2>2
  <1>8. CASE HostChanges
    BY <1>6, <1>8 DEF HostChanges, InstallDependencies, UpdateScripts, UpdateSource, CopyKeys,
                      RestartAgents
  <1>9. CASE Clone
    <2>1. CASE GoesOn([hook EXCEPT !.clone = repo])
      <3> DEFINE r == [hook EXCEPT !.clone = repo]
      <3>1. r = [kind |-> r.kind, left |-> hook.left, clone |-> r.clone,
                 todo |-> r.todo, old |-> r.old, used |-> r.used]
        <4>1. r = [kind |-> hook.kind, left |-> hook.left, clone |-> repo,
                   todo |-> hook.todo, old |-> hook.old, used |-> hook.used]
          BY <1>1, Shapes
        <4> HIDE DEF r
        <4> QED BY <4>1
      <3>2. GoesOn(r) /\ InHook("clone")
        BY <1>9, <2>1 DEF Clone
      <3> HIDE DEF r
      <3> QED BY <1>5, <3>1, <3>2
    <2>2. CASE Finishes("blocked")
      BY <1>3, <1>4, <1>9, <2>2 DEF Clone, Finishes
    <2> QED BY <1>9, <2>1, <2>2 DEF Clone
  <1>10. CASE RemoveCopy
    BY <1>3, <1>4, <1>6, <1>10 DEF RemoveCopy, Finishes
  <1>11. CASE MoveCopy
    <2>0. CASE Finishes("blocked")
      BY <1>3, <1>4, <1>11, <2>0 DEF MoveCopy, Finishes
    <2> SUFFICES ASSUME ~Finishes("blocked")
                 PROVE  HostInv'
      BY <2>0
    <2> DEFINE r == [hook EXCEPT !.clone = {}]
    <2>1. r = [kind |-> r.kind, left |-> hook.left, clone |-> r.clone,
               todo |-> r.todo, old |-> r.old, used |-> r.used]
      <3>1. r = [kind |-> hook.kind, left |-> hook.left, clone |-> {},
                 todo |-> hook.todo, old |-> hook.old, used |-> hook.used]
        BY <1>1, Shapes
      <3> HIDE DEF r
      <3> QED BY <3>1
    <2>2. GoesOn(r) /\ InHook("move-copy")
      BY <1>11 DEF MoveCopy
    <2> HIDE DEF r
    <2> QED BY <1>5, <2>1, <2>2
  <1>12. CASE NoAgents
    <2>1. ~Handled
      BY <1>12 DEF NoAgents, Handled, InHook
    <2>2. hook' = Rest \/ (\E k : hook' = [Rest EXCEPT !.kind = k, !.left = Plan(k)])
      BY <1>12 DEF NoAgents, Again
    <2> QED BY <1>3, <2>1, <2>2
  <1>13. CASE CheckToken
    BY <1>3, <1>4, <1>6, <1>13 DEF CheckToken, Finishes
  <1>14. CASE LogsIn
    BY <1>3, <1>4, <1>6, <1>14 DEF LogsIn, ValidSecret, LetIn, Finishes
  <1>15. CASE StoreToken
    BY <1>6, <1>15 DEF StoreToken
  <1> QED BY <1>7, <1>8, <1>9, <1>10, <1>11, <1>12, <1>13, <1>14, <1>15

\* The directory of the local copy matters only while files are written.
LEMMA LaboratorySafe ==
    ASSUME HostInv, Edit \/ Age \/ (\E a \in Agents : TakeJob(a))
    PROVE  HostInv'
  <1>1. hook' = hook /\ files' = files /\ runs' = runs /\ lost' = lost /\ checkout' = checkout
    BY DEF Edit, Age, TakeJob
  <1>2. /\ HookOK' /\ (Handled' <=> Handled)
        /\ InHook("write-files")' <=> InHook("write-files")
    BY <1>1 DEF HostInv, HookOK, Handled, InHook
  <1>3. FilesOK'
    <2>1. busy' \subseteq {a \in Agents : runs[a] # NoFile}
      BY DEF HostInv, FilesOK, Edit, Age, TakeJob
    <2> QED BY <1>1, <2>1 DEF HostInv, FilesOK
  <1>4. Handled => dir' = dir
    BY DEF Edit, Age, TakeJob, NoHook, Rest, Handled, InHook
  <1>5. PortsKept'
    BY <1>1, <1>2, <1>4 DEF HostInv, PortsKept, Rewritten
  <1> QED BY <1>2, <1>3, <1>5 DEF HostInv

LEMMA ReadFilesSafe ==
    ASSUME HostInv, ReadFiles
    PROVE  HostInv'
  <1> DEFINE o == [a \in Agents |-> PortIn(a)]
             u == {o[a] : a \in Agents} \ {0}
             r == [hook EXCEPT !.todo = checkout, !.old = o, !.used = u]
  <1>1. /\ HookOK /\ hook.left # <<>> /\ InHook("read-files") /\ GoesOn(r)
        /\ files' = [a \in Agents |-> NoFile]
        /\ runs' = runs /\ lost' = lost /\ busy' = busy /\ checkout' = checkout /\ dir' = dir
    BY DEF HostInv, ReadFiles, InHook, outside
  <1>2. r = [kind |-> hook.kind, left |-> hook.left, clone |-> hook.clone,
             todo |-> checkout, old |-> o, used |-> u]
    BY <1>1, Shapes
  <1>3. \A a \in Agents : o[a] = files[a].port
    BY DEF PortIn
  <1> HIDE DEF o, u, r
  <1>4. /\ r = [kind |-> r.kind, left |-> hook.left, clone |-> r.clone,
                todo |-> r.todo, old |-> r.old, used |-> r.used]
        /\ r.todo = checkout /\ r.old = o
    BY <1>2
  <1>5. /\ HookOK' /\ InHook("write-files")' /\ hook'.todo = checkout /\ hook'.old = o
    BY <1>1, <1>4, Onward
  <1>6. FilesOK'
    BY <1>1 DEF HostInv, FilesOK, NoFile
  <1>7. ~Handled
    BY <1>1 DEF Handled, InHook
  <1>8. ASSUME NEW a \in Agents PROVE Rewritten(a)'
    <2>1. files'[a] = NoFile
      BY <1>1
    <2>2. runs[a] # NoFile /\ a \notin lost => o[a] = runs[a].port
      BY <1>3, <1>7 DEF HostInv, PortsKept
    <2> QED BY <1>1, <1>5, <2>1, <2>2 DEF Rewritten
  <1>9. PortsKept'
    BY <1>5, <1>8 DEF PortsKept, Handled
  <1> QED BY <1>5, <1>6, <1>9 DEF HostInv

LEMMA PortsFound ==
    ASSUME HostInv, NEW a \in Agents, Port(a) # 0, InHook("write-files"), a \in hook.todo
    PROVE  runs[a] # NoFile /\ a \notin lost => Port(a) = runs[a].port
  BY DEF HostInv, FilesOK, PortsKept, Rewritten, Handled, Port

LEMMA WriteFileSafe ==
    ASSUME HostInv, NEW b \in Agents, WriteFile(b)
    PROVE  HostInv'
  <1>1. /\ HookOK /\ FilesOK /\ hook.left # <<>> /\ InHook("write-files") /\ b \in hook.todo
        /\ runs' = runs /\ busy' = busy /\ checkout' = checkout /\ dir' = dir
    BY DEF HostInv, WriteFile, InHook, outside
  <1>2. ASSUME NEW a \in Agents PROVE Rewritten(a)
    BY <1>1, <1>2 DEF HostInv, PortsKept, Handled
  <1>3. CASE Port(b) # 0
    <2> DEFINE t == hook.todo \ {b}
               u == hook.used \cup {Port(b)}
    <2>1. /\ hook' = [hook EXCEPT !.todo = t, !.used = u] /\ lost' = lost
          /\ files' = [files EXCEPT ![b] = [dir |-> dir, port |-> Port(b)]]
      BY <1>1, <1>3, Shapes DEF WriteFile
    <2>2. hook' = [kind |-> hook.kind, left |-> hook.left, clone |-> hook.clone,
                   todo |-> t, old |-> hook.old, used |-> u]
      BY <1>1, <2>1, Shapes
    <2> HIDE DEF u
    <2>3. hook'.left = hook.left /\ hook'.todo = t /\ hook'.old = hook.old /\ HookOK'
      BY <1>1, <2>2 DEF HookOK
    <2>4. /\ files'[b] = [dir |-> dir, port |-> Port(b)]
          /\ \A a \in Agents : a # b => files'[a] = files[a]
          /\ files' = [a \in Agents |-> files'[a]]
      BY <1>1, <2>1 DEF FilesOK
    <2>5. FilesOK'
      <3>1. ASSUME NEW a \in Agents
            PROVE  /\ files'[a] = [dir |-> files'[a].dir, port |-> files'[a].port]
                   /\ files'[a] # NoFile => files'[a].port # 0
        <4>1. CASE a = b
          BY <1>3, <2>4, <4>1
        <4>2. CASE a # b
          BY <1>1, <2>4, <4>2 DEF FilesOK
        <4> QED BY <4>1, <4>2
      <3> QED BY <1>1, <2>4, <3>1 DEF FilesOK
    <2>6. InHook("write-files")'
      BY <1>1, <2>3 DEF InHook
    <2>7. ASSUME NEW a \in Agents PROVE Rewritten(a)'
      <3>1. CASE a = b
        BY <1>1, <1>2, <1>3, <2>1, <2>3, <2>4, <2>6, <3>1, PortsFound DEF Rewritten
      <3>2. CASE a # b
        BY <1>1, <1>2, <2>1, <2>3, <2>4, <2>6, <3>2 DEF Rewritten
      <3> QED BY <3>1, <3>2
    <2> QED BY <2>3, <2>5, <2>6, <2>7 DEF HostInv, PortsKept, Handled
  <1>4. CASE Port(b) = 0
    <2> DEFINE r == [hook EXCEPT !.todo = {}]
    <2>1. /\ hook' = [hook EXCEPT !.left = Tail(hook.left), !.todo = {}]
          /\ lost' = lost \cup WithoutFile /\ files' = files
      BY <1>4 DEF WriteFile
    <2>2. /\ hook' = [kind |-> hook.kind, left |-> Tail(hook.left), clone |-> hook.clone,
                      todo |-> {}, old |-> hook.old, used |-> hook.used]
      BY <1>1, <2>1, Shapes
    <2>3. r = [kind |-> hook.kind, left |-> hook.left, clone |-> hook.clone,
               todo |-> {}, old |-> hook.old, used |-> hook.used]
      BY <1>1, Shapes
    <2> HIDE DEF r
    <2>4. /\ r = [kind |-> r.kind, left |-> hook.left, clone |-> r.clone,
                  todo |-> r.todo, old |-> r.old, used |-> r.used]
          /\ hook' = [r EXCEPT !.left = Tail(@)]
      <3>1. \A x : [r EXCEPT !.left = x] =
                     [kind |-> hook.kind, left |-> x, clone |-> hook.clone,
                      todo |-> {}, old |-> hook.old, used |-> hook.used]
        BY <2>3
      <3>2. hook' = [r EXCEPT !.left = Tail(hook.left)] /\ r.left = hook.left
        BY <2>2, <2>3, <3>1
      <3> QED BY <2>3, <3>2
    <2>5. /\ HookOK' /\ InHook("supervisor")' /\ (InHook("write-files")' <=> InHook("read-files"))
      BY <1>1, <2>4, Advance
    <2>6. ~InHook("write-files")'
      BY <1>1, <2>5 DEF InHook
    <2>7. ASSUME NEW a \in Agents PROVE Rewritten(a)'
      BY <1>1, <1>2, <2>1, <2>6 DEF Rewritten, WithoutFile
    <2> QED BY <1>1, <2>1, <2>5, <2>6, <2>7 DEF HostInv, PortsKept, FilesOK, Handled
  <1> QED BY <1>3, <1>4

LEMMA AllWrittenSafe ==
    ASSUME HostInv, AllWritten
    PROVE  HostInv'
  <1>1. /\ HookOK /\ hook.left # <<>> /\ InHook("write-files") /\ GoesOn(hook) /\ hook.todo = {}
        /\ UNCHANGED <<files, runs, lost, busy, checkout, dir>>
    BY DEF HostInv, AllWritten, InHook, Proceeds, outside
  <1>2. /\ HookOK' /\ InHook("supervisor")' /\ (InHook("write-files")' <=> InHook("read-files"))
    BY <1>1, Onward, Shapes
  <1>3. ~InHook("write-files")'
    BY <1>1, <1>2 DEF InHook
  <1>4. ASSUME NEW a \in Agents PROVE Rewritten(a)'
    BY <1>1, <1>3 DEF HostInv, PortsKept, Rewritten, Handled
  <1> QED BY <1>1, <1>2, <1>4 DEF HostInv, FilesOK, PortsKept, Handled

LEMMA SupervisorSafe ==
    ASSUME HostInv, SupervisorUpdate
    PROVE  HostInv'
  <1>1. /\ HookOK /\ hook.left # <<>> /\ InHook("supervisor") /\ GoesOn(hook) /\ files' = files
        /\ ~InHook("write-files") /\ ~InHook("read-files")
    BY DEF HostInv, SupervisorUpdate, InHook, Proceeds
  <1>2. HookOK' /\ ~Handled'
    BY <1>1, Onward, Shapes DEF Handled
  <1>3. CASE runs' = files /\ busy' = {a \in busy : runs[a] = files[a]} /\ lost' = {}
    BY <1>1, <1>2, <1>3 DEF HostInv, FilesOK, PortsKept
  <1>4. CASE lost' = lost \cup WithoutFile /\ UNCHANGED <<runs, busy>>
    <2>1. ASSUME NEW a \in Agents, runs[a] # NoFile, a \notin lost'
          PROVE  files[a].port = runs[a].port
      <3>1. Rewritten(a) /\ a \notin WithoutFile /\ a \notin lost
        BY <1>1, <1>4, <2>1 DEF HostInv, PortsKept, Handled
      <3>2. files[a] # NoFile
        BY <2>1, <3>1 DEF WithoutFile
      <3>3. files[a] = [dir |-> dir, port |-> runs[a].port]
        BY <1>1, <2>1, <3>1, <3>2 DEF Rewritten
      <3> QED BY <3>3
    <2> QED BY <1>1, <1>2, <1>4, <2>1 DEF HostInv, FilesOK, PortsKept
  <1> QED BY <1>3, <1>4 DEF SupervisorUpdate

LEMMA HookDiesSafe ==
    ASSUME HostInv, HookDies
    PROVE  HostInv'
  <1>1. HookOK' /\ ~Handled'
    BY Begins DEF HookDies, Again
  <1>2. UNCHANGED <<files, runs, busy>>
    BY DEF HookDies, outside
  <1>3. CASE ~Handled
    BY <1>1, <1>2, <1>3, QuietStep DEF HookDies, Handled
  <1>4. CASE Handled
    <2>1. lost' = lost \cup WithoutFile
      BY <1>4 DEF HookDies, Handled
    <2>2. ASSUME NEW a \in Agents, runs[a] # NoFile, a \notin lost'
          PROVE  files[a].port = runs[a].port
      <3>1. Rewritten(a) /\ a \notin WithoutFile /\ a \notin lost
        BY <1>4, <2>1, <2>2 DEF HostInv, PortsKept
      <3>2. files[a] # NoFile
        BY <2>2, <3>1 DEF WithoutFile
      <3>3. files[a] = [dir |-> dir, port |-> runs[a].port]
        BY <2>2, <3>1, <3>2 DEF Rewritten
      <3> QED BY <3>3
    <2> QED BY <1>1, <1>2, <2>1, <2>2 DEF HostInv, FilesOK, PortsKept
  <1> QED BY <1>3, <1>4

LEMMA HostStepSafe ==
    ASSUME HostInv, HostStep \/ UNCHANGED host
    PROVE  HostInv'
  <1>1. CASE HostStep
    BY <1>1, QuietSteps, LaboratorySafe, ReadFilesSafe, WriteFileSafe, AllWrittenSafe,
       SupervisorSafe, HookDiesSafe DEF HostStep
  <1>2. CASE UNCHANGED host
    BY <1>2 DEF host, HostInv, HookOK, FilesOK, PortsKept, Handled, InHook, Rewritten
  <1> QED BY <1>1, <1>2

\* Agents that run jobs are not stopped by a hook: for every set of agents, of ports
\* and of directories, and every number of edits and of hooks that die.
THEOREM RunningJobsKept == Spec => RunningJobsSurvive
  <1>1. Init => HostInv
    <2> SUFFICES ASSUME Init PROVE HostInv
      OBVIOUS
    <2>1. /\ hook = Rest /\ files = [a \in Agents |-> NoFile] /\ runs = [a \in Agents |-> NoFile]
          /\ busy = {}
      BY DEF Init, HostInit
    <2>2. HookOK /\ ~Handled
      BY <2>1 DEF HookOK, Handled, InHook, Rest, Ordered
    <2>3. FilesOK
      BY <2>1 DEF FilesOK, NoFile
    <2> QED BY <2>1, <2>2, <2>3 DEF HostInv, PortsKept
  <1>2. HostInv /\ [Next]_vars => HostInv'
    <2> SUFFICES ASSUME HostInv, [Next]_vars PROVE HostInv'
      OBVIOUS
    <2>1. HostStep \/ UNCHANGED host
      BY DEF Next, vars, HostWorks, StoreWorks, ManagerAsks, ManagerHears, ServerWorks, CallFails,
             CommandStarts, CommandWorks, CommandRunsLate, ToolEdits, UserActs, TimePasses,
             Same, Elsewhere
    <2> QED BY <2>1, HostStepSafe
  <1>3. HostInv /\ [Next]_vars =>
           [\A a \in busy : runs'[a] # runs[a] =>
               a \notin checkout \/ dir # runs[a].dir \/ a \in lost]_host
    <2> SUFFICES ASSUME HostInv, [Next]_vars, NEW a \in busy, runs'[a] # runs[a],
                        a \in checkout, dir = runs[a].dir, a \notin lost
                 PROVE  FALSE
      OBVIOUS
    <2>1. HostStep \/ UNCHANGED host
      BY DEF Next, vars, HostWorks, StoreWorks, ManagerAsks, ManagerHears, ServerWorks, CallFails,
             CommandStarts, CommandWorks, CommandRunsLate, ToolEdits, UserActs, TimePasses,
             Same, Elsewhere
    <2>2. SupervisorUpdate
      BY <2>1 DEF HostStep, Edit, Age, StartHook, HostChanges, Clone, RemoveCopy, MoveCopy,
                  ReadFiles, NoAgents, WriteFile, AllWritten, SupervisorUpdate, CheckToken, LogsIn,
                  StoreToken, HookDies, TakeJob, host, outside
    <2>3. runs' = files /\ InHook("supervisor") /\ ~InHook("write-files")
      BY <2>2 DEF SupervisorUpdate, InHook
    <2>4. /\ a \in Agents /\ runs[a] # NoFile
          /\ runs[a] = [dir |-> runs[a].dir, port |-> runs[a].port]
      BY DEF HostInv, FilesOK
    <2>5. files[a] = [dir |-> dir, port |-> runs[a].port]
      BY <2>3, <2>4 DEF HostInv, PortsKept, Handled, Rewritten
    <2> QED BY <2>3, <2>4, <2>5
  <1> QED BY <1>1, <1>2, <1>3, PTL DEF Spec, RunningJobsSurvive

(***************************************************************************)
(* Rights and tokens.  What a command may do was true when its access token*)
(* was made, and the token is at least as old as what was withdrawn since. *)
(***************************************************************************)
DocOK(d) ==
    /\ d = [role |-> d.role, queues |-> d.queues, more |-> d.more, secret |-> d.secret]
    /\ d.queues \subseteq Queues

\* An access token against what was withdrawn in the meantime
SessionOK(s) ==
    /\ s = [kind |-> s.kind, client |-> s.client, role |-> s.role, queues |-> s.queues,
            more |-> s.more, from |-> s.from, age |-> s.age]
    /\ s.queues \subseteq Queues /\ s.age \in 0..2 /\ s.from \in Tokens \cup {NoToken}
    /\ \A q \in s.queues : s.client \in Clients /\ withdrawn[s.client][q] <= s.age
    /\ s.from # NoToken => revokedFor[s.from] <= s.age

Fresh(s) == SessionOK(s) /\ s.age = 0

Granting == {"grant", "restrict", "ungrant", "unrestrict"}

\* What the handler of a request holds while it works
RequestOK(c, r) ==
    /\ r.at \in {"token", "remove", "put", "permissions"} => r.client \in Clients
    /\ r.at = "issue" => r.client \in Clients /\ Fresh(r.rights)
    /\ r.at = "answered" => Fresh(r.session) /\ r.token \in Tokens \cup {NoToken}
    /\ r.at \in {"refresh", "revoke"} => r = [at |-> r.at, token |-> r.token] /\ r.token \in Tokens
    /\ r.at = "mint" => r.token \in Tokens /\ refresh[r.token] # NoEntry /\ revokedFor[r.token] = 0
    /\ r.at = "set-revoked" => r.token \in Tokens /\ refresh[r.token] # NoEntry
    /\ r.at = "submit" => r = [at |-> "submit", queue |-> r.queue, more |-> r.more]
    /\ r.at = "restriction" /\ c \in Commands => session[c].age <= 1
    /\ r.at = "write" => r.client \in Clients /\ (r.seen = NoDoc \/ DocOK(r.seen))
    /\ r.at \in {"delete", "register"} => r = [at |-> r.at, client |-> r.client] /\ r.client \in Clients
    /\ r.at \in Granting => r = [at |-> r.at, client |-> r.client, queue |-> r.queue]
    /\ r.at \in Granting \cup {"allow", "disallow"} => r.client \in Clients /\ r.queue \in Queues
    /\ r.at = "poll" => r = [at |-> "poll"]

CommandOK(k) ==
    /\ k = [at |-> k.at, task |-> k.task, client |-> k.client, seen |-> k.seen,
            rejected |-> k.rejected, late |-> k.late, again |-> k.again]
    /\ k.client \in Clients \cup {NoClient}

DocsKept ==
    /\ clients = [c \in Clients |-> clients[c]]
    /\ \A c \in Clients : clients[c] = NoDoc \/ DocOK(clients[c])

EntriesKept ==
    /\ refresh = [t \in Tokens |-> refresh[t]]
    /\ \A t \in Tokens : refresh[t] # NoEntry =>
          /\ refresh[t] = [client |-> refresh[t].client, revoked |-> refresh[t].revoked,
                           expired |-> refresh[t].expired]
          /\ refresh[t].client \in Clients /\ refresh[t].revoked \in BOOLEAN

\* The auxiliary clocks
ClocksKept ==
    /\ \A c \in Clients, q \in Queues :
          /\ withdrawn[c][q] \in 0..2
          /\ clients[c] # NoDoc /\ q \in clients[c].queues => withdrawn[c][q] = 0
    /\ \A t \in Tokens :
          /\ revokedFor[t] \in 0..2
          /\ revokedFor[t] # 0 => refresh[t] # NoEntry /\ refresh[t].revoked

SessionsKept ==
    /\ session = [p \in Commands |-> session[p]]
    /\ \A p \in Commands : SessionOK(session[p])

RequestsKept ==
    /\ request = [c \in Callers |-> request[c]]
    /\ \A c \in Callers : RequestOK(c, request[c])

CommandsKept ==
    /\ command = [p \in Commands |-> command[p]] /\ file \in Tokens \cup {NoToken}
    /\ \A p \in Commands : CommandOK(command[p])

AccessInv ==
    DocsKept /\ EntriesKept /\ ClocksKept /\ SessionsKept /\ RequestsKept /\ CommandsKept

\* Tokens are never forgotten, and never good again.
EntriesGrow ==
    \A t \in Tokens : refresh[t] # NoEntry =>
       refresh'[t] # NoEntry /\ (refresh[t].revoked => refresh'[t].revoked)

LEMMA AnonymousFresh == Fresh(Anonymous) /\ Fresh(Anonymous)'
  BY AccessAssumption DEF Fresh, SessionOK, Anonymous

LEMMA SessionStays ==
    ASSUME ClocksKept, Watched, revokedFor' = revokedFor, NEW s, SessionOK(s)
    PROVE  SessionOK(s)'
  <1>1. ASSUME NEW c \in Clients, NEW q \in Queues PROVE withdrawn'[c][q] <= withdrawn[c][q]
    BY DEF ClocksKept, Watched
  <1>2. ASSUME NEW q \in s.queues
        PROVE  s.client \in Clients /\ withdrawn'[s.client][q] <= s.age
    <2>1. /\ q \in Queues /\ s.client \in Clients /\ withdrawn[s.client][q] <= s.age /\ s.age \in 0..2
      BY DEF SessionOK
    <2>2. withdrawn[s.client][q] \in 0..2 /\ withdrawn'[s.client][q] \in 0..2
      BY <2>1 DEF ClocksKept, Watched
    <2> QED BY <1>1, <2>1, <2>2
  <1> QED BY <1>2 DEF SessionOK

LEMMA FreshStays ==
    ASSUME ClocksKept, Watched, revokedFor' = revokedFor, NEW s, Fresh(s)
    PROVE  Fresh(s)'
  BY SessionStays DEF Fresh

LEMMA RightsFresh ==
    ASSUME DocsKept, ClocksKept, NEW c \in Clients, NEW t \in Tokens \cup {NoToken},
           t # NoToken => revokedFor[t] = 0
    PROVE  Fresh(Rights(c, t))
  <1>1. CASE clients[c] = NoDoc
    <2>1. ASSUME NEW g, g = [Anonymous EXCEPT !.kind = "token", !.from = t]
          PROVE  g = [kind |-> "token", client |-> NoClient, role |-> "contributor",
                      queues |-> {}, more |-> FALSE, from |-> t, age |-> 0]
      BY <2>1 DEF Anonymous
    <2>2. Rights(c, t) = [kind |-> "token", client |-> NoClient, role |-> "contributor",
                          queues |-> {}, more |-> FALSE, from |-> t, age |-> 0]
      BY <1>1, <2>1, Zenon DEF Rights
    <2> QED BY <2>2 DEF Fresh, SessionOK
  <1>2. CASE clients[c] # NoDoc
    <2>1. DocOK(clients[c])
      BY <1>2 DEF DocsKept
    <2>2. Rights(c, t) = [kind |-> "token", client |-> c, role |-> clients[c].role,
                          queues |-> clients[c].queues, more |-> clients[c].more,
                          from |-> t, age |-> 0]
      BY <1>2 DEF Rights
    <2>3. \A q \in clients[c].queues : withdrawn[c][q] = 0
      BY <1>2, <2>1 DEF ClocksKept, DocOK
    <2> QED BY <2>1, <2>2, <2>3 DEF Fresh, SessionOK, DocOK
  <1> QED BY <1>1, <1>2

LEMMA RequestStays ==
    ASSUME ClocksKept, Watched, revokedFor' = revokedFor, EntriesGrow,
           NEW c, NEW r, RequestOK(c, r),
           c \in Commands => session'[c] = session[c] \/ session'[c].age <= 1
    PROVE  RequestOK(c, r)'
  <1>1. r.at = "issue" => Fresh(r.rights)'
    BY FreshStays DEF RequestOK
  <1>2. r.at = "answered" => Fresh(r.session)'
    BY FreshStays DEF RequestOK
  <1>3. r.at = "restriction" /\ c \in Commands => session'[c].age <= 1
    BY DEF RequestOK
  <1>4. r.at \in {"mint", "set-revoked"} => refresh'[r.token] # NoEntry
    BY DEF RequestOK, EntriesGrow
  <1> QED BY <1>1, <1>2, <1>3, <1>4 DEF RequestOK

\* What a step of one caller leaves as it is
LEMMA Frame ==
    ASSUME AccessInv, NEW c, DocsKept', EntriesKept', EntriesGrow, Watched,
           revokedFor' = revokedFor,
           \/ request' = request
           \/ request' = [request EXCEPT ![c] = request'[c]] /\ RequestOK(c, request[c])',
           \/ session' = session
           \/ /\ c \in Commands /\ session' = [session EXCEPT ![c] = session'[c]]
              /\ Fresh(session[c])',
           \/ command' = command
           \/ /\ c \in Commands /\ command' = [command EXCEPT ![c] = command'[c]]
              /\ CommandOK(command'[c]),
           file' \in Tokens \cup {NoToken}
    PROVE  AccessInv'
  <1>1. ClocksKept'
    BY DEF AccessInv, ClocksKept, Watched, EntriesGrow
  <1>2. SessionsKept'
    <2>1. ASSUME NEW p \in Commands PROVE SessionOK(session[p])'
      <3>1. CASE session'[p] = session[p]
        <4>1. PICK s : s = session[p]
          OBVIOUS
        <4>2. SessionOK(s)'
          BY <4>1, SessionStays DEF AccessInv, SessionsKept
        <4> QED BY <3>1, <4>1, <4>2
      <3>2. CASE session'[p] # session[p]
        <4>1. p = c /\ Fresh(session[c])'
          BY <3>2 DEF AccessInv, SessionsKept
        <4> QED BY <4>1 DEF Fresh
      <3> QED BY <3>1, <3>2
    <2> QED BY <2>1 DEF AccessInv, SessionsKept
  <1>3. RequestsKept'
    <2>1. ASSUME NEW d \in Callers PROVE RequestOK(d, request[d])'
      <3>1. CASE request'[d] = request[d]
        <4>1. PICK r : r = request[d]
          OBVIOUS
        <4>2. d \in Commands => session'[d] = session[d] \/ session'[d].age <= 1
          BY DEF AccessInv, SessionsKept, Fresh
        <4>3. RequestOK(d, r)'
          BY <4>1, <4>2, RequestStays DEF AccessInv, RequestsKept
        <4> QED BY <3>1, <4>1, <4>3
      <3>2. CASE request'[d] # request[d]
        BY <3>2 DEF AccessInv, RequestsKept
      <3> QED BY <3>1, <3>2
    <2> QED BY <2>1 DEF AccessInv, RequestsKept
  <1>4. CommandsKept'
    BY DEF AccessInv, CommandsKept
  <1> QED BY <1>1, <1>2, <1>3, <1>4 DEF AccessInv

LEMMA ReadsFrame ==
    ASSUME AccessInv, Reads
    PROVE  DocsKept' /\ EntriesKept' /\ EntriesGrow
  BY DEF AccessInv, Reads, server, DocsKept, EntriesKept, EntriesGrow

LEMMA Gone ==
    ASSUME RequestsKept, NEW c \in Callers, NEW r, Goes(c, r)
    PROVE  request'[c] = r /\ request' = [request EXCEPT ![c] = request'[c]]
  BY DEF RequestsKept, Goes

LEMMA Refused ==
    ASSUME RequestsKept, NEW c \in Callers, NEW k, Refuses(c, k)
    PROVE  request' = [request EXCEPT ![c] = request'[c]] /\ RequestOK(c, request[c])'
  <1>1. /\ request'[c] = [at |-> "answered", code |-> k, session |-> Anonymous, token |-> NoToken]
        /\ request' = [request EXCEPT ![c] = request'[c]]
    BY Gone DEF Refuses, Answers
  <1> QED BY <1>1, AnonymousFresh DEF RequestOK, Granting

\* The document of a client is replaced, or is as it was.
LEMMA DocsFrame ==
    ASSUME DocsKept,
           \/ clients' = clients
           \/ \E c \in Clients : \E d : /\ d = NoDoc \/ DocOK(d)
                                        /\ clients' = [clients EXCEPT ![c] = d]
    PROVE  DocsKept'
  BY DEF DocsKept

LEMMA EntriesFrame ==
    ASSUME EntriesKept, UNCHANGED refresh
    PROVE  EntriesKept' /\ EntriesGrow
  BY DEF EntriesKept, EntriesGrow

\* What a step of the server for c does not touch
ServesAlone == Watched /\ UNCHANGED <<revokedFor, session, command, file>>

LEMMA Served ==
    ASSUME AccessInv, NEW c \in Callers, ServesAlone, DocsKept', EntriesKept', EntriesGrow,
           request' = [request EXCEPT ![c] = request'[c]], RequestOK(c, request[c])'
    PROVE  AccessInv'
  BY Frame DEF ServesAlone, AccessInv, CommandsKept

LEMMA TokenSteps ==
    ASSUME AccessInv, NEW c \in Callers, ServesAlone,
           ReadCredentials(c) \/ LookUpToken(c) \/ MintToken(c) \/ FindToken(c)
    PROVE  AccessInv'
  <1> DEFINE r == request[c]
  <1>1. Reads /\ RequestOK(c, r) /\ RequestsKept /\ DocsKept /\ EntriesKept /\ ClocksKept
    BY DEF AccessInv, RequestsKept, ReadCredentials, LookUpToken, MintToken, FindToken
  <1>2. ASSUME NEW k, Refuses(c, k) PROVE AccessInv'
    BY <1>1, <1>2, ReadsFrame, Refused, Served
  <1>3. ASSUME request' = [request EXCEPT ![c] = request'[c]], RequestOK(c, request[c])'
        PROVE  AccessInv'
    BY <1>1, <1>3, ReadsFrame, Served
  <1>4. ClocksKept /\ Watched /\ revokedFor' = revokedFor
    BY <1>1 DEF ServesAlone
  <1>5. CASE ReadCredentials(c)
    <2>1. CASE Goes(c, [at |-> "issue", client |-> r.client, rights |-> Rights(r.client, NoToken)])
      <3>1. PICK s : s = Rights(r.client, NoToken)
        OBVIOUS
      <3>2. r.client \in Clients
        BY <1>1, <1>5 DEF ReadCredentials, At, RequestOK
      <3>3. Fresh(s)'
        BY <1>1, <1>4, <3>1, <3>2, RightsFresh, FreshStays
      <3>4. /\ request'[c] = [at |-> "issue", client |-> r.client, rights |-> s]
            /\ request' = [request EXCEPT ![c] = request'[c]]
        BY <1>1, <2>1, <3>1, Gone
      <3>5. RequestOK(c, request[c])'
        BY <3>2, <3>3, <3>4 DEF RequestOK, Granting
      <3> QED BY <1>3, <3>4, <3>5
    <2> QED BY <1>2, <1>5, <2>1 DEF ReadCredentials
  <1>6. CASE LookUpToken(c)
    <2>1. CASE Usable(refresh[r.token]) /\ On(c, "mint")
      <3>1. r = [at |-> "refresh", token |-> r.token] /\ r.token \in Tokens
        BY <1>1, <1>6 DEF LookUpToken, At, RequestOK
      <3>2. /\ request'[c] = [r EXCEPT !.at = "mint"]
            /\ request' = [request EXCEPT ![c] = request'[c]]
        BY <1>1, <2>1, Gone DEF On
      <3>3. request'[c] = [at |-> "mint", token |-> r.token]
        BY <3>1, <3>2
      <3>4. refresh'[r.token] # NoEntry /\ revokedFor'[r.token] = 0
        BY <1>1, <1>4, <2>1, <3>1 DEF Usable, ClocksKept, Reads, server
      <3>5. RequestOK(c, request[c])'
        BY <3>1, <3>3, <3>4 DEF RequestOK, Granting
      <3> QED BY <1>3, <3>2, <3>5
    <2> QED BY <1>2, <1>6, <2>1 DEF LookUpToken
  <1>7. CASE MintToken(c)
    <2>1. r.token \in Tokens /\ refresh[r.token] # NoEntry /\ revokedFor[r.token] = 0
      BY <1>1, <1>7 DEF MintToken, At, RequestOK
    <2>2. refresh[r.token].client \in Clients
      BY <1>1, <2>1 DEF EntriesKept
    <2>3. PICK s : s = Rights(refresh[r.token].client, r.token)
      OBVIOUS
    <2>4. Fresh(s)'
      BY <1>1, <1>4, <2>1, <2>2, <2>3, RightsFresh, FreshStays
    <2>5. /\ request'[c] = [at |-> "answered", code |-> "200", session |-> s, token |-> NoToken]
          /\ request' = [request EXCEPT ![c] = request'[c]]
      BY <1>1, <1>7, <2>3, Gone DEF MintToken, Answers
    <2>6. RequestOK(c, request[c])'
      BY <2>4, <2>5 DEF RequestOK, Granting
    <2> QED BY <1>3, <2>5, <2>6
  <1>8. CASE FindToken(c)
    <2>1. CASE refresh[r.token] # NoEntry /\ On(c, "set-revoked")
      <3>1. r = [at |-> "revoke", token |-> r.token] /\ r.token \in Tokens
        BY <1>1, <1>8 DEF FindToken, At, RequestOK
      <3>2. /\ request'[c] = [r EXCEPT !.at = "set-revoked"]
            /\ request' = [request EXCEPT ![c] = request'[c]]
        BY <1>1, <2>1, Gone DEF On
      <3>3. request'[c] = [at |-> "set-revoked", token |-> r.token]
        BY <3>1, <3>2
      <3>4. refresh'[r.token] # NoEntry
        BY <1>1, <2>1 DEF Reads, server
      <3>5. RequestOK(c, request[c])'
        BY <3>1, <3>3, <3>4 DEF RequestOK, Granting
      <3> QED BY <1>3, <3>2, <3>5
    <2> QED BY <1>2, <1>8, <2>1 DEF FindToken
  <1> QED BY <1>5, <1>6, <1>7, <1>8

LEMMA IssueSafe ==
    ASSUME AccessInv, NEW c \in Callers, ServesAlone, IssueTokens(c)
    PROVE  AccessInv'
  <1> DEFINE r == request[c]
  <1>1. /\ RequestOK(c, r) /\ r.at = "issue" /\ clients' = clients
        /\ RequestsKept /\ DocsKept /\ EntriesKept /\ ClocksKept
    BY DEF AccessInv, RequestsKept, IssueTokens, At
  <1>2. r.client \in Clients /\ Fresh(r.rights)
    BY <1>1 DEF RequestOK
  <1>3. PICK new \in Tokens :
          /\ refresh[new] = NoEntry
          /\ refresh' = [refresh EXCEPT ![new] =
                [client |-> r.client, revoked |-> FALSE, expired |-> FALSE]]
          /\ Answers(c, "200", [r.rights EXCEPT !.from = new], new)
    BY DEF IssueTokens
  <1>4. PICK s : s = [r.rights EXCEPT !.from = new]
    OBVIOUS
  <1>5. Fresh(s)
    <2>1. PICK h : h = r.rights
      OBVIOUS
    <2>2. s = [kind |-> h.kind, client |-> h.client, role |-> h.role, queues |-> h.queues,
               more |-> h.more, from |-> new, age |-> h.age]
      BY <1>2, <1>4, <2>1 DEF Fresh, SessionOK
    <2>3. revokedFor[new] = 0
      BY <1>1, <1>3 DEF ClocksKept
    <2> QED BY <1>2, <2>1, <2>2, <2>3 DEF Fresh, SessionOK
  <1>6. Fresh(s)'
    BY <1>1, <1>5, FreshStays DEF ServesAlone
  <1>7. /\ request'[c] = [at |-> "answered", code |-> "200", session |-> s, token |-> new]
        /\ request' = [request EXCEPT ![c] = request'[c]]
    BY <1>1, <1>3, <1>4, Gone DEF Answers
  <1>8. RequestOK(c, request[c])'
    BY <1>6, <1>7 DEF RequestOK, Granting
  <1>9. EntriesKept' /\ EntriesGrow
    <2>1. ASSUME NEW t \in Tokens, t # new PROVE refresh'[t] = refresh[t]
      BY <1>1, <1>3, <2>1 DEF EntriesKept
    <2>2. /\ refresh'[new] = [client |-> r.client, revoked |-> FALSE, expired |-> FALSE]
          /\ refresh' = [t \in Tokens |-> refresh'[t]]
      BY <1>1, <1>3 DEF EntriesKept
    <2>3. /\ refresh'[new] = [client |-> refresh'[new].client, revoked |-> refresh'[new].revoked,
                             expired |-> refresh'[new].expired]
          /\ refresh'[new].client = r.client /\ refresh'[new].revoked = FALSE
      BY <2>2
    <2>5. ASSUME NEW t \in Tokens, refresh'[t] # NoEntry
          PROVE  /\ refresh'[t] = [client |-> refresh'[t].client, revoked |-> refresh'[t].revoked,
                                   expired |-> refresh'[t].expired]
                 /\ refresh'[t].client \in Clients /\ refresh'[t].revoked \in BOOLEAN
      <3>1. CASE t = new
        BY <1>2, <2>3, <3>1
      <3>2. CASE t # new
        BY <1>1, <2>1, <2>5, <3>2 DEF EntriesKept
      <3> QED BY <3>1, <3>2
    <2>4. EntriesGrow
      BY <1>3, <2>1 DEF EntriesGrow
    <2>6. EntriesKept'
      BY <2>2, <2>5 DEF EntriesKept
    <2> QED BY <2>4, <2>6
  <1>10. DocsKept'
    BY <1>1, DocsFrame
  <1> QED BY <1>7, <1>8, <1>9, <1>10, Served

LEMMA RevokeSafe ==
    ASSUME AccessInv, NEW c \in Callers, ServesAlone, SetRevoked(c)
    PROVE  AccessInv'
  <1>1. /\ RequestOK(c, request[c]) /\ request[c].at = "set-revoked" /\ clients' = clients
        /\ RequestsKept /\ DocsKept /\ EntriesKept /\ Refuses(c, "200")
    BY DEF AccessInv, RequestsKept, SetRevoked, At
  <1>2. PICK n : n = request[c].token
    OBVIOUS
  <1>3. n \in Tokens /\ refresh[n] # NoEntry /\ refresh' = [refresh EXCEPT ![n].revoked = TRUE]
    BY <1>1, <1>2 DEF RequestOK, SetRevoked
  <1>4. refresh[n] = [client |-> refresh[n].client, revoked |-> refresh[n].revoked,
                      expired |-> refresh[n].expired] /\ refresh[n].client \in Clients
    BY <1>1, <1>3 DEF EntriesKept
  <1>5. /\ refresh'[n] = [refresh[n] EXCEPT !.revoked = TRUE]
        /\ \A t \in Tokens : t # n => refresh'[t] = refresh[t]
        /\ refresh' = [t \in Tokens |-> refresh'[t]]
    BY <1>1, <1>3 DEF EntriesKept
  <1>6. refresh'[n] = [client |-> refresh[n].client, revoked |-> TRUE,
                       expired |-> refresh[n].expired]
    BY <1>4, <1>5
  <1>7. refresh'[n].client = refresh[n].client /\ refresh'[n].revoked /\ refresh'[n] # NoEntry
    BY <1>4, <1>6, AccessAssumption DEF NoEntry
  <1>8. EntriesKept' /\ EntriesGrow
    BY <1>1, <1>3, <1>4, <1>5, <1>6, <1>7 DEF EntriesKept, EntriesGrow
  <1>9. DocsKept'
    BY <1>1, DocsFrame
  <1> QED BY <1>1, <1>8, <1>9, Refused, Served

LEMMA SubmissionSteps ==
    ASSUME AccessInv, NEW c \in Callers, ServesAlone, ReadSubmission(c) \/ CheckRestriction(c)
    PROVE  AccessInv'
  <1>1. Reads /\ RequestOK(c, request[c]) /\ RequestsKept /\ SessionsKept
    BY DEF AccessInv, RequestsKept, ReadSubmission, CheckRestriction
  <1>2. ASSUME NEW k, Refuses(c, k) PROVE AccessInv'
    BY <1>1, <1>2, ReadsFrame, Refused, Served
  <1>3. CASE ReadSubmission(c)
    <2>1. PICK verdict \in Authenticate(session[c]) :
            IF verdict # "go-on" THEN Refuses(c, verdict)
            ELSE IF request[c].more /\ ~session[c].more
                 THEN Refuses(c, IF session[c] = Anonymous THEN "401" ELSE "403")
                 ELSE On(c, "restriction")
      BY <1>3 DEF ReadSubmission
    <2>2. CASE On(c, "restriction") /\ verdict = "go-on"
      <3>1. request[c] = [at |-> "submit", queue |-> request[c].queue, more |-> request[c].more]
        BY <1>1, <1>3 DEF ReadSubmission, At, RequestOK
      <3>2. /\ request'[c] = [request[c] EXCEPT !.at = "restriction"]
            /\ request' = [request EXCEPT ![c] = request'[c]]
        BY <1>1, <2>2, Gone DEF On
      <3>3. request'[c] = [at |-> "restriction", queue |-> request[c].queue, more |-> request[c].more]
        BY <3>1, <3>2
      <3>4. c \in Commands => session'[c].age <= 1
        <4>1. CASE session[c] = Anonymous
          BY <4>1 DEF Anonymous, ServesAlone
        <4>2. CASE session[c] # Anonymous
          <5>1. "go-on" \in Decoded(session[c])
            BY <2>1, <2>2, <4>2 DEF Authenticate, Decoded
          <5>2. ~(session[c].age > 1)
            BY <5>1 DEF Decoded
          <5>3. c \in Commands => session[c].age \in 0..2
            BY <1>1 DEF SessionsKept, SessionOK
          <5> QED BY <5>2, <5>3 DEF ServesAlone
        <4> QED BY <4>1, <4>2
      <3>5. RequestOK(c, request[c])'
        BY <3>3, <3>4 DEF RequestOK, Granting
      <3> QED BY <1>1, <3>2, <3>5, ReadsFrame, Served
    <2> QED BY <1>2, <2>1, <2>2
  <1>4. CASE CheckRestriction(c)
    BY <1>2, <1>4 DEF CheckRestriction
  <1> QED BY <1>3, <1>4

\* Merging what was asked for into a document leaves its queues.
LEMMA MergeOK ==
    ASSUME NEW d, NEW body, DocOK(d)
    PROVE  DocOK(Merge(d, body))
  <1>1. ASSUME NEW x, NEW y, NEW z, NEW g,
               g = [d EXCEPT !.role = x, !.more = y, !.secret = z]
        PROVE  g = [role |-> x, queues |-> d.queues, more |-> y, secret |-> z]
    BY <1>1 DEF DocOK
  <1>2. \E x, y, z : Merge(d, body) = [d EXCEPT !.role = x, !.more = y, !.secret = z]
    BY DEF Merge
  <1>3. PICK x, y, z : Merge(d, body) = [d EXCEPT !.role = x, !.more = y, !.secret = z]
    BY <1>2
  <1>4. Merge(d, body) = [role |-> x, queues |-> d.queues, more |-> y, secret |-> z]
    BY <1>1, <1>3, Zenon
  <1> QED BY <1>4 DEF DocOK

LEMMA PermissionSteps ==
    ASSUME AccessInv, NEW c \in Callers, ServesAlone, ReadPermissions(c) \/ WritePermissions(c)
    PROVE  AccessInv'
  <1> DEFINE r == request[c]
  <1>1. RequestOK(c, r) /\ RequestsKept /\ DocsKept /\ EntriesKept
    BY DEF AccessInv, RequestsKept
  <1>2. CASE ReadPermissions(c)
    <2>1. ASSUME NEW k, Refuses(c, k) PROVE AccessInv'
      BY <1>1, <1>2, <2>1, ReadsFrame, Refused, Served DEF ReadPermissions
    <2>2. CASE Goes(c, [at |-> "write", client |-> r.client, body |-> r.body,
                        seen |-> clients[r.client]])
      <3>1. r.client \in Clients
        BY <1>1, <1>2 DEF ReadPermissions, At, RequestOK
      <3>2. clients[r.client] = NoDoc \/ DocOK(clients[r.client])
        BY <1>1, <3>1 DEF DocsKept
      <3>3. /\ request'[c] = [at |-> "write", client |-> r.client, body |-> r.body,
                              seen |-> clients[r.client]]
            /\ request' = [request EXCEPT ![c] = request'[c]]
        BY <1>1, <2>2, Gone
      <3>4. RequestOK(c, request[c])'
        BY <3>1, <3>2, <3>3 DEF RequestOK, Granting
      <3> QED BY <1>2, <3>3, <3>4, ReadsFrame, Served DEF ReadPermissions
    <2> QED BY <1>2, <2>1, <2>2 DEF ReadPermissions
  <1>3. CASE WritePermissions(c)
    <2> DEFINE now == IF clients[r.client] = NoDoc THEN NewDoc ELSE clients[r.client]
    <2>1. r.client \in Clients /\ (r.seen = NoDoc \/ DocOK(r.seen))
      BY <1>1, <1>3 DEF WritePermissions, At, RequestOK
    <2>2. DocOK(now)
      BY <1>1, <2>1 DEF DocsKept, NewDoc, DocOK
    <2>3. PICK base \in WrittenBack(r.seen, now) :
            clients' = [clients EXCEPT ![r.client] = Merge(base, r.body)]
      BY <1>3 DEF WritePermissions
    <2>4. DocOK(base)
      <3>1. CASE r.seen = NoDoc
        BY <2>2, <2>3, <3>1 DEF WrittenBack
      <3>2. CASE r.seen # NoDoc
        <4>1. base = r.seen \/ base = [r.seen EXCEPT !.queues = now.queues]
          BY <2>3, <3>2 DEF WrittenBack
        <4>2. DocOK([r.seen EXCEPT !.queues = now.queues])
          <5>1. r.seen = [role |-> r.seen.role, queues |-> r.seen.queues, more |-> r.seen.more,
                          secret |-> r.seen.secret]
            BY <2>1, <3>2 DEF DocOK
          <5>2. [r.seen EXCEPT !.queues = now.queues] =
                   [role |-> r.seen.role, queues |-> now.queues, more |-> r.seen.more,
                    secret |-> r.seen.secret]
            BY <5>1
          <5> HIDE DEF now
          <5> QED BY <2>2, <5>2 DEF DocOK
        <4> QED BY <2>1, <3>2, <4>1, <4>2
      <3> QED BY <3>1, <3>2
    <2> HIDE DEF now
    <2>5. DocOK(Merge(base, r.body))
      BY <2>4, MergeOK
    <2>6. DocsKept'
      BY <1>1, <2>1, <2>3, <2>5, DocsFrame
    <2>7. EntriesKept' /\ EntriesGrow
      BY <1>1, <1>3, EntriesFrame DEF WritePermissions
    <2>8. Refuses(c, "200")
      BY <1>3 DEF WritePermissions
    <2> QED BY <1>1, <2>6, <2>7, <2>8, Refused, Served
  <1> QED BY <1>2, <1>3

LEMMA ClientSteps ==
    ASSUME AccessInv, NEW c \in Callers, ServesAlone, FindClient(c) \/ RemoveClient(c)
    PROVE  AccessInv'
  <1> DEFINE r == request[c]
  <1>1. RequestOK(c, r) /\ RequestsKept /\ DocsKept /\ EntriesKept
    BY DEF AccessInv, RequestsKept
  <1>2. CASE FindClient(c)
    <2>1. ASSUME NEW k, Refuses(c, k) PROVE AccessInv'
      BY <1>1, <1>2, <2>1, ReadsFrame, Refused, Served DEF FindClient
    <2>2. CASE On(c, "remove")
      <3>1. r = [at |-> "delete", client |-> r.client] /\ r.client \in Clients
        BY <1>1, <1>2 DEF FindClient, At, RequestOK
      <3>2. /\ request'[c] = [r EXCEPT !.at = "remove"]
            /\ request' = [request EXCEPT ![c] = request'[c]]
        BY <1>1, <2>2, Gone DEF On
      <3>3. request'[c] = [at |-> "remove", client |-> r.client]
        BY <3>1, <3>2
      <3>4. RequestOK(c, request[c])'
        BY <3>1, <3>3 DEF RequestOK, Granting
      <3> QED BY <1>2, <3>2, <3>4, ReadsFrame, Served DEF FindClient
    <2> QED BY <1>2, <2>1, <2>2 DEF FindClient
  <1>3. CASE RemoveClient(c)
    <2>1. r.client \in Clients
      BY <1>1, <1>3 DEF RemoveClient, At, RequestOK
    <2>2. DocsKept'
      BY <1>1, <1>3, <2>1, DocsFrame DEF RemoveClient
    <2>3. EntriesKept' /\ EntriesGrow
      BY <1>1, <1>3, EntriesFrame DEF RemoveClient
    <2>4. Refuses(c, "200")
      BY <1>3 DEF RemoveClient
    <2> QED BY <1>1, <2>2, <2>3, <2>4, Refused, Served
  <1> QED BY <1>2, <1>3

LEMMA GrantingSteps ==
    ASSUME AccessInv, NEW c \in Callers, ServesAlone,
           FindOwner(c) \/ RestrictQueue(c) \/ FindRestriction(c) \/ Unrestrict(c)
    PROVE  AccessInv'
  <1> DEFINE r == request[c]
  <1>1. /\ RequestOK(c, r) /\ RequestsKept /\ DocsKept /\ EntriesKept
        /\ clients' = clients /\ refresh' = refresh /\ r.at \in Granting
    BY DEF AccessInv, RequestsKept, FindOwner, RestrictQueue, FindRestriction, Unrestrict, Reads, server,
           At, Granting
  <1>2. DocsKept' /\ EntriesKept' /\ EntriesGrow
    BY <1>1, DocsFrame, EntriesFrame
  <1>3. ASSUME NEW k, Refuses(c, k) PROVE AccessInv'
    BY <1>1, <1>2, <1>3, Refused, Served
  <1>4. ASSUME NEW p \in {"restrict", "allow", "unrestrict", "disallow"}, On(c, p) PROVE AccessInv'
    <2>1. /\ r = [at |-> r.at, client |-> r.client, queue |-> r.queue]
          /\ r.client \in Clients /\ r.queue \in Queues
      BY <1>1 DEF RequestOK
    <2>2. /\ request'[c] = [r EXCEPT !.at = p]
          /\ request' = [request EXCEPT ![c] = request'[c]]
      BY <1>1, <1>4, Gone DEF On
    <2>3. request'[c] = [at |-> p, client |-> r.client, queue |-> r.queue]
      BY <2>1, <2>2
    <2>4. RequestOK(c, request[c])'
      <3>1. /\ request'[c].at = p /\ request'[c].client = r.client /\ request'[c].queue = r.queue
        BY <2>3
      <3> HIDE DEF r
      <3> QED BY <2>1, <2>3, <3>1 DEF RequestOK, Granting
    <2> QED BY <1>2, <2>2, <2>4, Served
  <1> QED BY <1>3, <1>4 DEF FindOwner, RestrictQueue, FindRestriction, Unrestrict

LEMMA OwnerSteps ==
    ASSUME AccessInv, NEW c \in Callers, ServesAlone, Allow(c) \/ Disallow(c)
    PROVE  AccessInv'
  <1> DEFINE r == request[c]
  <1>1. /\ RequestOK(c, r) /\ RequestsKept /\ DocsKept /\ EntriesKept /\ refresh' = refresh
        /\ Refuses(c, "200") /\ r.at \in {"allow", "disallow"}
    BY DEF AccessInv, RequestsKept, Allow, Disallow, At
  <1>2. r.client \in Clients /\ r.queue \in Queues
    BY <1>1 DEF RequestOK
  <1>3. DocsKept'
    <2>1. CASE clients' = clients
      BY <1>1, <2>1, DocsFrame
    <2>2. CASE clients' # clients
      <3>1. PICK q \in SUBSET Queues :
              clients' = [clients EXCEPT ![r.client].queues = q]
        <4>1. clients[r.client].queues \subseteq Queues
          BY <1>1, <1>2, <2>2 DEF Allow, Disallow, DocsKept, DocOK
        <4>2. CASE Allow(c)
          <5>1. clients' = [clients EXCEPT ![r.client].queues = clients[r.client].queues \cup {r.queue}]
            BY <1>1, <1>2, <2>2, <4>2 DEF Allow, DocsKept
          <5> QED BY <1>2, <4>1, <5>1
        <4>3. CASE Disallow(c)
          <5>1. clients' = [clients EXCEPT ![r.client].queues = clients[r.client].queues \ {r.queue}]
            BY <1>1, <1>2, <2>2, <4>3 DEF Disallow, DocsKept
          <5> QED BY <1>2, <4>1, <5>1
        <4> QED BY <4>2, <4>3
      <3>2. DocOK(clients[r.client])
        BY <1>1, <1>2, <2>2 DEF Allow, Disallow, DocsKept
      <3>3. PICK d : d = [clients[r.client] EXCEPT !.queues = q]
        OBVIOUS
      <3>4. d = [role |-> clients[r.client].role, queues |-> q,
                 more |-> clients[r.client].more, secret |-> clients[r.client].secret]
        BY <3>2, <3>3 DEF DocOK
      <3>5. DocOK(d)
        BY <3>4 DEF DocOK
      <3>6. clients' = [clients EXCEPT ![r.client] = d]
        BY <3>1, <3>3
      <3> QED BY <1>1, <1>2, <3>5, <3>6, DocsFrame
    <2> QED BY <2>1, <2>2
  <1> QED BY <1>1, <1>3, EntriesFrame, Refused, Served

LEMMA ServerStepSafe ==
    ASSUME AccessInv, NEW c \in Callers, ServesAlone, ServerStep(c)
    PROVE  AccessInv'
  BY TokenSteps, IssueSafe, RevokeSafe, SubmissionSteps, PermissionSteps, ClientSteps,
     GrantingSteps, OwnerSteps DEF ServerStep

\* A user that signs in for the first time gets a document.
LEMMA RegisteredOK ==
    ASSUME DocsKept, NEW c \in Clients, Registered(c)
    PROVE  DocsKept'
  <1>1. DocOK(NewDoc)
    BY DEF DocOK, NewDoc
  <1> QED BY <1>1, DocsFrame DEF Registered

LEMMA OidcStepSafe ==
    ASSUME AccessInv, NEW c \in Callers, ServesAlone, OidcStep(c)
    PROVE  AccessInv'
  <1> DEFINE r == request[c]
  <1>1. /\ RequestOK(c, r) /\ RequestsKept /\ DocsKept /\ EntriesKept /\ ClocksKept
        /\ Watched /\ revokedFor' = revokedFor
    BY DEF AccessInv, RequestsKept, ServesAlone
  <1>2. ASSUME NEW k, Refuses(c, k), Reads PROVE AccessInv'
    BY <1>1, <1>2, ReadsFrame, Refused, Served
  <1>3. CASE InitiateCode(c)
    BY <1>2, <1>3 DEF InitiateCode
  <1>4. CASE ExchangeCode(c)
    <2>1. CASE On(c, "userinfo")
      <3>1. r = [at |-> "poll"]
        BY <1>1, <1>4 DEF ExchangeCode, At, RequestOK
      <3>2. /\ request'[c] = [r EXCEPT !.at = "userinfo"]
            /\ request' = [request EXCEPT ![c] = request'[c]]
        BY <1>1, <2>1, Gone DEF On
      <3>3. request'[c] = [at |-> "userinfo"]
        BY <3>1, <3>2
      <3>4. RequestOK(c, request[c])'
        BY <3>3 DEF RequestOK, Granting
      <3> QED BY <1>4, <3>2, <3>4, ReadsFrame, Served DEF ExchangeCode
    <2> QED BY <1>2, <1>4, <2>1 DEF ExchangeCode
  <1>5. CASE ReadUser(c)
    <2>1. PICK u \in OidcClients : Goes(c, [at |-> "register", client |-> u])
      BY <1>5 DEF ReadUser
    <2>2. /\ request'[c] = [at |-> "register", client |-> u] /\ u \in Clients
          /\ request' = [request EXCEPT ![c] = request'[c]]
      BY <1>1, <2>1, Gone, AccessAssumption
    <2>3. RequestOK(c, request[c])'
      BY <2>2 DEF RequestOK, Granting
    <2> QED BY <1>5, <2>2, <2>3, ReadsFrame, Served DEF ReadUser
  <1>6. CASE RegisterUser(c)
    <2>1. r = [at |-> "register", client |-> r.client] /\ r.client \in Clients
      BY <1>1, <1>6 DEF RegisterUser, At, RequestOK
    <2>2. /\ request'[c] = [r EXCEPT !.at = "permissions"]
          /\ request' = [request EXCEPT ![c] = request'[c]]
      BY <1>1, <1>6, Gone DEF RegisterUser, On
    <2>3. request'[c] = [at |-> "permissions", client |-> r.client]
      BY <2>1, <2>2
    <2>4. RequestOK(c, request[c])'
      BY <2>1, <2>3 DEF RequestOK, Granting
    <2>5. DocsKept' /\ EntriesKept' /\ EntriesGrow
      BY <1>1, <1>6, <2>1, RegisteredOK, EntriesFrame DEF RegisterUser
    <2> QED BY <2>2, <2>4, <2>5, Served
  <1>7. CASE ReadRights(c)
    <2>1. r.client \in Clients
      BY <1>1, <1>7 DEF ReadRights, At, RequestOK
    <2>2. PICK s : s = Rights(r.client, NoToken)
      OBVIOUS
    <2>3. Fresh(s)'
      BY <1>1, <2>1, <2>2, RightsFresh, FreshStays
    <2>4. /\ request'[c] = [at |-> "issue", client |-> r.client, rights |-> s]
          /\ request' = [request EXCEPT ![c] = request'[c]]
      BY <1>1, <1>7, <2>2, Gone DEF ReadRights
    <2>5. RequestOK(c, request[c])'
      BY <2>1, <2>3, <2>4 DEF RequestOK, Granting
    <2> QED BY <1>7, <2>4, <2>5, ReadsFrame, Served DEF ReadRights
  <1> QED BY <1>3, <1>4, <1>5, <1>6, <1>7 DEF OidcStep

LEMMA CommandUpdates ==
    ASSUME NEW k, CommandOK(k), NEW g, NEW x, NEW y, NEW z,
           \/ g = [k EXCEPT !.at = x]
           \/ g = [k EXCEPT !.late = x]
           \/ g = [k EXCEPT !.at = x, !.rejected = y]
           \/ g = [k EXCEPT !.at = x, !.seen = y, !.late = z]
           \/ g = [k EXCEPT !.at = x, !.again = y, !.rejected = z]
    PROVE  CommandOK(g)
  <1>1. CASE g = [k EXCEPT !.at = x]
    BY <1>1 DEF CommandOK
  <1>2. CASE g = [k EXCEPT !.late = x]
    BY <1>2 DEF CommandOK
  <1>3. CASE g = [k EXCEPT !.at = x, !.rejected = y]
    BY <1>3 DEF CommandOK
  <1>4. CASE g = [k EXCEPT !.at = x, !.seen = y, !.late = z]
    BY <1>4 DEF CommandOK
  <1>5. CASE g = [k EXCEPT !.at = x, !.again = y, !.rejected = z]
    BY <1>5 DEF CommandOK
  <1> QED BY <1>1, <1>2, <1>3, <1>4, <1>5

LEMMA IdleOK ==
    /\ CommandOK(Idle)
    /\ \A x, y : \A c \in Clients \cup {NoClient} :
          CommandOK([Idle EXCEPT !.at = x, !.task = y, !.client = c])
  <1>1. CommandOK(Idle)
    BY DEF CommandOK, Idle
  <1>2. ASSUME NEW x, NEW y, NEW c \in Clients \cup {NoClient}, NEW g,
               g = [Idle EXCEPT !.at = x, !.task = y, !.client = c]
        PROVE  CommandOK(g)
    BY <1>2 DEF CommandOK, Idle
  <1> QED BY <1>1, <1>2, Zenon

\* What the session of a command may become
LEMMA SessionGot ==
    ASSUME AccessInv, NEW p \in Commands, At(p, "answered"), Watched, revokedFor' = revokedFor,
           session' = [session EXCEPT ![p] = request[p].session]
    PROVE  session' = [session EXCEPT ![p] = session'[p]] /\ Fresh(session[p])'
  <1>1. Fresh(request[p].session) /\ ClocksKept
    BY DEF AccessInv, RequestsKept, RequestOK, At, Callers
  <1>2. PICK s : s = request[p].session
    OBVIOUS
  <1>3. Fresh(s)'
    BY <1>1, <1>2, FreshStays
  <1>4. session'[p] = s
    BY <1>2 DEF AccessInv, SessionsKept
  <1> QED BY <1>2, <1>3, <1>4

LEMMA SessionLost ==
    ASSUME AccessInv, NEW p \in Commands, session' = [session EXCEPT ![p] = Anonymous]
    PROVE  session' = [session EXCEPT ![p] = session'[p]] /\ Fresh(session[p])'
  <1>1. session'[p] = Anonymous
    BY DEF AccessInv, SessionsKept
  <1>2. Fresh(session[p])'
    BY <1>1, AnonymousFresh
  <1> QED BY <1>1, <1>2

\* Requests of commands
Asked(p) ==
    \/ Goes(p, Free)
    \/ \E x \in {"oidc-init", "poll"} : Goes(p, [at |-> x])
    \/ \E c \in Clients : \E key : Goes(p, [at |-> "token", client |-> c, key |-> key])
    \/ \E t \in Tokens : Goes(p, [at |-> "refresh", token |-> t])
    \/ \E q, more : Goes(p, [at |-> "submit", queue |-> q, more |-> more])

\* A command goes on, or ends.
Turned(p) == Ends(p) \/ \E k : CommandOK(k) /\ Becomes(p, k)

LEMMA AsksFor ==
    ASSUME AccessInv, NEW p \in Callers, Asked(p)
    PROVE  request' = [request EXCEPT ![p] = request'[p]] /\ RequestOK(p, request[p])'
  <1>1. RequestsKept
    BY DEF AccessInv
  <1>2. CASE Goes(p, Free)
    BY <1>1, <1>2, Gone DEF Free, RequestOK, Granting
  <1>3. ASSUME NEW x \in {"oidc-init", "poll"}, Goes(p, [at |-> x])
        PROVE  request' = [request EXCEPT ![p] = request'[p]] /\ RequestOK(p, request[p])'
    <2>1. request'[p] = [at |-> x] /\ request' = [request EXCEPT ![p] = request'[p]]
      BY <1>1, <1>3, Gone
    <2> QED BY <2>1 DEF RequestOK, Granting
  <1>4. ASSUME NEW c \in Clients, NEW key, Goes(p, [at |-> "token", client |-> c, key |-> key])
        PROVE  request' = [request EXCEPT ![p] = request'[p]] /\ RequestOK(p, request[p])'
    <2>1. /\ request'[p] = [at |-> "token", client |-> c, key |-> key]
          /\ request' = [request EXCEPT ![p] = request'[p]]
      BY <1>1, <1>4, Gone
    <2> QED BY <2>1 DEF RequestOK, Granting
  <1>5. ASSUME NEW t \in Tokens, Goes(p, [at |-> "refresh", token |-> t])
        PROVE  request' = [request EXCEPT ![p] = request'[p]] /\ RequestOK(p, request[p])'
    <2>1. /\ request'[p] = [at |-> "refresh", token |-> t]
          /\ request' = [request EXCEPT ![p] = request'[p]]
      BY <1>1, <1>5, Gone
    <2> QED BY <2>1 DEF RequestOK, Granting
  <1>6. ASSUME NEW q, NEW more, Goes(p, [at |-> "submit", queue |-> q, more |-> more])
        PROVE  request' = [request EXCEPT ![p] = request'[p]] /\ RequestOK(p, request[p])'
    <2>1. /\ request'[p] = [at |-> "submit", queue |-> q, more |-> more]
          /\ request' = [request EXCEPT ![p] = request'[p]]
      BY <1>1, <1>6, Gone
    <2> QED BY <2>1 DEF RequestOK, Granting
  <1> QED BY <1>2, <1>3, <1>4, <1>5, <1>6 DEF Asked

\* What a step of a command changes
LEMMA Acted ==
    ASSUME AccessInv, NEW p \in Commands, Watched, revokedFor' = revokedFor, Reads,
           \/ request' = request
           \/ request' = [request EXCEPT ![p] = request'[p]] /\ RequestOK(p, request[p])',
           \/ session' = session
           \/ session' = [session EXCEPT ![p] = session'[p]] /\ Fresh(session[p])',
           \/ command' = command
           \/ \E k : CommandOK(k) /\ command' = [command EXCEPT ![p] = k],
           file' \in Tokens \cup {NoToken}
    PROVE  AccessInv'
  <1>1. p \in Callers
    BY DEF Callers
  <1>2. \/ command' = command
        \/ command' = [command EXCEPT ![p] = command'[p]] /\ CommandOK(command'[p])
    BY DEF AccessInv, CommandsKept
  <1> QED BY <1>1, <1>2, ReadsFrame, Frame

\* Steps in which a command goes on or ends, and asks the server or not
LEMMA TurnSafe ==
    ASSUME AccessInv, NEW p \in Commands, Watched, revokedFor' = revokedFor, Unclaimed,
           file' \in Tokens \cup {NoToken}, request' = request \/ Asked(p), Turned(p)
    PROVE  AccessInv'
  <1>1. p \in Callers /\ Reads
    BY DEF Callers, Unclaimed, Reads, server
  <1>2. \/ request' = request
        \/ request' = [request EXCEPT ![p] = request'[p]] /\ RequestOK(p, request[p])'
    BY <1>1, AsksFor
  <1>3. CASE Ends(p)
    <2>1. session' = [session EXCEPT ![p] = session'[p]] /\ Fresh(session[p])'
      BY <1>3, SessionLost DEF Ends
    <2>2. \E k : CommandOK(k) /\ command' = [command EXCEPT ![p] = k]
      BY <1>3, IdleOK DEF Ends
    <2> QED BY <1>1, <1>2, <2>1, <2>2, Acted
  <1>4. CASE \E k : CommandOK(k) /\ Becomes(p, k)
    <2>1. session' = session /\ \E k : CommandOK(k) /\ command' = [command EXCEPT ![p] = k]
      BY <1>4 DEF Becomes
    <2> QED BY <1>1, <1>2, <2>1, Acted
  <1> QED BY <1>3, <1>4 DEF Turned

LEMMA SignedInSafe ==
    ASSUME AccessInv, NEW p \in Commands, Watched, revokedFor' = revokedFor,
           At(p, "answered"), SignedIn(p)
    PROVE  AccessInv'
  <1>1. Reads /\ p \in Callers
    BY DEF SignedIn, Unclaimed, Reads, Callers
  <1>2. request' = [request EXCEPT ![p] = request'[p]] /\ RequestOK(p, request[p])'
    BY <1>1, AsksFor DEF SignedIn, Asked
  <1>3. session' = [session EXCEPT ![p] = session'[p]] /\ Fresh(session[p])'
    BY SessionGot DEF SignedIn
  <1>4. \E k : CommandOK(k) /\ command' = [command EXCEPT ![p] = k]
    <2>1. PICK k : k = [command[p] EXCEPT !.at = "run"]
      OBVIOUS
    <2>2. CommandOK(k)
      BY <2>1, CommandUpdates DEF AccessInv, CommandsKept
    <2>3. command' = [command EXCEPT ![p] = k]
      BY <2>1 DEF SignedIn
    <2> QED BY <2>2, <2>3
  <1>5. file' \in Tokens \cup {NoToken}
    BY <1>1 DEF SignedIn, AccessInv, RequestsKept, RequestOK, CommandsKept, At
  <1> QED BY <1>1, <1>2, <1>3, <1>4, <1>5, Acted

LEMMA CommandStepSafe ==
    ASSUME AccessInv, NEW p \in Commands, NEW mores, Watched, revokedFor' = revokedFor,
           CommandStep(p, mores)
    PROVE  AccessInv'
  <1> DEFINE c == command[p]
  <1>1. CommandOK(c) /\ file \in Tokens \cup {NoToken}
    BY DEF AccessInv, CommandsKept
  <1>2. ASSUME Unclaimed, file' \in Tokens \cup {NoToken}, request' = request \/ Asked(p), Turned(p)
        PROVE  AccessInv'
    BY <1>2, TurnSafe
  <1>3. ASSUME NEW x, Then(p, x) PROVE Turned(p)
    <2>1. PICK k : k = [c EXCEPT !.at = x]
      OBVIOUS
    <2> QED BY <1>1, <1>3, <2>1, CommandUpdates DEF Then, Turned
  <1>4. ASSUME GivesUp(p) PROVE AccessInv'
    <2>1. Unclaimed /\ file' \in Tokens \cup {NoToken} /\ (request' = request \/ Asked(p)) /\ Turned(p)
      BY <1>1, <1>4 DEF GivesUp, Asked, Turned
    <2> QED BY <1>2, <2>1
  <1>5. ASSUME NEW codes, Got(p, codes), SignedIn(p) PROVE AccessInv'
    BY <1>5, SignedInSafe DEF Got
  <1>6. CASE Authenticates(p)
    <2>1. Unclaimed /\ file' \in Tokens \cup {NoToken}
      BY <1>1, <1>6 DEF Authenticates
    <2>2. Turned(p)
      BY <1>3, <1>6 DEF Authenticates
    <2>3. request' = request \/ Asked(p)
      BY <1>1, <1>6 DEF Authenticates, CommandOK, Asked
    <2> QED BY <1>2, <2>1, <2>2, <2>3
  <1>7. CASE CredentialsAnswered(p)
    BY <1>4, <1>5, <1>7 DEF CredentialsAnswered
  <1>8. CASE RefreshAnswered(p)
    <2>1. CASE /\ file' = NoToken /\ Becomes(p, [c EXCEPT !.at = "init", !.rejected = TRUE])
               /\ Goes(p, [at |-> "oidc-init"]) /\ Unclaimed
      <3>1. PICK k : k = [c EXCEPT !.at = "init", !.rejected = TRUE]
        OBVIOUS
      <3>2. Turned(p)
        BY <1>1, <2>1, <3>1, CommandUpdates DEF Turned
      <3>3. request' = request \/ Asked(p)
        BY <2>1 DEF Asked
      <3> QED BY <1>2, <2>1, <3>2, <3>3
    <2> QED BY <1>4, <1>5, <1>8, <2>1 DEF RefreshAnswered
  <1>9. CASE InitAnswered(p)
    <2>1. CASE /\ Becomes(p, [c EXCEPT !.at = "watch", !.seen = file, !.late = FALSE])
               /\ Goes(p, Free) /\ Unclaimed /\ file' = file
      <3>1. PICK k : k = [c EXCEPT !.at = "watch", !.seen = file, !.late = FALSE]
        OBVIOUS
      <3>2. Turned(p)
        BY <1>1, <2>1, <3>1, CommandUpdates DEF Turned
      <3>3. request' = request \/ Asked(p)
        BY <2>1 DEF Asked
      <3> QED BY <1>1, <1>2, <2>1, <3>2, <3>3
    <2> QED BY <1>4, <1>5, <1>9, <2>1 DEF InitAnswered
  <1>10. CASE Loop(p)
    <2>1. Unclaimed /\ file' \in Tokens \cup {NoToken}
      BY <1>1, <1>10 DEF Loop
    <2>2. Turned(p)
      BY <1>3, <1>10 DEF Loop, Turned
    <2>3. request' = request \/ Asked(p)
      BY <1>1, <1>10 DEF Loop, Asked
    <2> QED BY <1>2, <2>1, <2>2, <2>3
  <1>11. CASE FoundAnswered(p)
    <2>1. CASE file' = NoToken /\ Ends(p) /\ Goes(p, Free) /\ Unclaimed
      BY <1>2, <2>1 DEF Asked, Turned
    <2>2. CASE Then(p, "poll") /\ Goes(p, [at |-> "poll"]) /\ Unclaimed /\ file' = file
      <3>1. Turned(p)
        BY <1>3, <2>2
      <3>2. request' = request \/ Asked(p)
        BY <2>2 DEF Asked
      <3> QED BY <1>1, <1>2, <2>2, <3>1, <3>2
    <2> QED BY <1>4, <1>5, <1>11, <2>1, <2>2 DEF FoundAnswered
  <1>12. CASE PollAnswered(p)
    <2>1. CASE Then(p, "watch") /\ Goes(p, Free) /\ Unclaimed /\ file' = file
      <3>1. Turned(p)
        BY <1>3, <2>1
      <3> QED BY <1>1, <1>2, <2>1, <3>1 DEF Asked
    <2> QED BY <1>4, <1>5, <1>12, <2>1 DEF PollAnswered
  <1>13. CASE Run(p, mores)
    <2>1. Unclaimed /\ file' \in Tokens \cup {NoToken}
      BY <1>1, <1>13 DEF Run
    <2>2. Turned(p)
      BY <1>3, <1>13 DEF Run, Turned
    <2>3. request' = request \/ Asked(p)
      BY <1>13 DEF Run, Asked
    <2> QED BY <1>2, <2>1, <2>2, <2>3
  <1>14. CASE SubmitAnswered(p)
    <2>1. Unclaimed /\ file' \in Tokens \cup {NoToken} /\ Goes(p, Free)
      BY <1>1, <1>14 DEF SubmitAnswered
    <2>2. PICK k : k = [c EXCEPT !.at = "authenticate", !.again = TRUE, !.rejected = FALSE]
      OBVIOUS
    <2>3. Turned(p)
      BY <1>1, <1>14, <2>2, CommandUpdates DEF SubmitAnswered, Turned
    <2> QED BY <1>2, <2>1, <2>3 DEF Asked
  <1> QED BY <1>6, <1>7, <1>8, <1>9, <1>10, <1>11, <1>12, <1>13, <1>14 DEF CommandStep

LEMMA StartSafe ==
    ASSUME AccessInv, NEW p \in Commands, NEW tasks, NEW users, users \subseteq Clients \cup {NoClient},
           Watched, revokedFor' = revokedFor, Start(p, tasks, users)
    PROVE  AccessInv'
  <1>1. PICK task \in tasks, c \in users :
          /\ Becomes(p, [Idle EXCEPT !.at = "authenticate", !.task = task, !.client = c])
          /\ file' = IF task = "login" THEN NoToken ELSE file
    BY DEF Start
  <1>2. CommandOK([Idle EXCEPT !.at = "authenticate", !.task = task, !.client = c])
    BY IdleOK
  <1>3. \E k : CommandOK(k) /\ command' = [command EXCEPT ![p] = k]
    BY <1>1, <1>2 DEF Becomes
  <1>4. session' = session /\ request' = request /\ Reads /\ file' \in Tokens \cup {NoToken}
    BY <1>1 DEF Start, Becomes, Reads, AccessInv, CommandsKept
  <1> QED BY <1>3, <1>4, Acted

\* A step that no caller takes part in
LEMMA Aside ==
    ASSUME AccessInv, DocsKept', EntriesKept', EntriesGrow, Watched,
           UNCHANGED <<revokedFor, request, session, command, file>>
    PROVE  AccessInv'
  BY Frame DEF AccessInv, CommandsKept

LEMMA ManagersSafe ==
    ASSUME AccessInv, NEW m \in Managers, ManagerAsks(m) \/ ManagerHears(m)
    PROVE  AccessInv'
  <1>1. /\ m \in Callers /\ Reads /\ ServesAlone /\ RequestsKept
    BY DEF ManagerAsks, ManagerHears, Callers, ServesAlone, Same, signing, AccessInv
  <1>2. ASSUME request' = [request EXCEPT ![m] = request'[m]], RequestOK(m, request[m])'
        PROVE  AccessInv'
    BY <1>1, <1>2, ReadsFrame, Served
  <1>3. CASE ManagerHears(m)
    <2>1. Asked(m)
      BY <1>3 DEF ManagerHears, Asked
    <2> QED BY <1>1, <1>2, <2>1, AsksFor
  <1>4. CASE AsksToSet(m)
    <2>1. PICK c \in Clients, role \in {"admin", "manager"}, b \in Bodies :
            Goes(m, [at |-> "put", client |-> c, role |-> role, body |-> b])
      BY <1>4 DEF AsksToSet
    <2>2. /\ request'[m] = [at |-> "put", client |-> c, role |-> role, body |-> b]
          /\ request' = [request EXCEPT ![m] = request'[m]]
      BY <1>1, <2>1, Gone
    <2>3. RequestOK(m, request[m])'
      BY <2>2 DEF RequestOK, Granting
    <2> QED BY <1>2, <2>2, <2>3
  <1>5. CASE AsksToRemove(m)
    <2>1. PICK c \in Clients : Goes(m, [at |-> "delete", client |-> c])
      BY <1>5 DEF AsksToRemove
    <2>2. /\ request'[m] = [at |-> "delete", client |-> c]
          /\ request' = [request EXCEPT ![m] = request'[m]]
      BY <1>1, <2>1, Gone
    <2>3. RequestOK(m, request[m])'
      BY <2>2 DEF RequestOK, Granting
    <2> QED BY <1>2, <2>2, <2>3
  <1>6. CASE AsksToRestrict(m)
    <2>1. PICK c \in Clients, q \in Queues, what \in {"grant", "ungrant"} :
            Goes(m, [at |-> what, client |-> c, queue |-> q])
      BY <1>6 DEF AsksToRestrict
    <2>2. /\ request'[m] = [at |-> what, client |-> c, queue |-> q]
          /\ request' = [request EXCEPT ![m] = request'[m]]
      BY <1>1, <2>1, Gone
    <2>3. RequestOK(m, request[m])'
      BY <2>2 DEF RequestOK, Granting
    <2> QED BY <1>2, <2>2, <2>3
  <1>7. CASE AsksToRevoke(m)
    <2>1. PICK t \in Tokens : Goes(m, [at |-> "revoke", token |-> t])
      BY <1>7 DEF AsksToRevoke
    <2>2. /\ request'[m] = [at |-> "revoke", token |-> t]
          /\ request' = [request EXCEPT ![m] = request'[m]]
      BY <1>1, <2>1, Gone
    <2>3. RequestOK(m, request[m])'
      BY <2>2 DEF RequestOK, Granting
    <2> QED BY <1>2, <2>2, <2>3
  <1> QED BY <1>3, <1>4, <1>5, <1>6, <1>7 DEF ManagerAsks, Asks

LEMMA FailsSafe ==
    ASSUME AccessInv, NEW c \in Callers, CallFails(c)
    PROVE  AccessInv'
  <1>1. /\ Reads /\ ServesAlone /\ RequestsKept
    BY DEF CallFails, Fails, ServesAlone, Same, signing, AccessInv
  <1>2. \E k \in {"500", "timeout"} : Refuses(c, k)
    BY DEF CallFails, Fails
  <1> QED BY <1>1, <1>2, ReadsFrame, Refused, Served

\* The tool replaces the document of a client.
LEMMA ToolSafe ==
    ASSUME AccessInv, ToolEdits
    PROVE  AccessInv'
  <1>1. /\ Tool /\ Watched /\ UNCHANGED <<revokedFor, request, session, command, file>>
        /\ DocsKept /\ EntriesKept /\ refresh' = refresh
    BY DEF ToolEdits, Same, signing, AccessInv, Tool
  <1>2. CASE clients' = clients
    BY <1>1, <1>2, DocsFrame, EntriesFrame, Aside
  <1>3. ASSUME NEW c \in Clients, NEW d, d = NoDoc \/ DocOK(d), clients' = [clients EXCEPT ![c] = d]
        PROVE  AccessInv'
    BY <1>1, <1>3, DocsFrame, EntriesFrame, Aside
  <1>4. ASSUME NEW c \in Clients, NEW secret, ByTool(c, secret) PROVE AccessInv'
    <2>1. PICK role \in {"manager", "contributor"}, q \in SUBSET Queues :
            clients' = [clients EXCEPT ![c] =
               [role |-> role, queues |-> q, more |-> role = "manager", secret |-> secret]]
      BY <1>4 DEF ByTool
    <2>2. PICK d : d = [role |-> role, queues |-> q, more |-> role = "manager", secret |-> secret]
      OBVIOUS
    <2>3. DocOK(d)
      BY <2>2 DEF DocOK
    <2> QED BY <1>3, <2>1, <2>2, <2>3
  <1> QED BY <1>1, <1>2, <1>3, <1>4 DEF Tool, CreateByTool, EditByTool, RemoveByTool

LEMMA UsersSafe ==
    ASSUME AccessInv, UserActs
    PROVE  AccessInv'
  <1>1. /\ Watched /\ UNCHANGED <<revokedFor, request, session, command, file>>
        /\ DocsKept /\ EntriesKept
    BY DEF UserActs, Same, AccessInv
  <1>2. CASE Reads
    BY <1>1, <1>2, ReadsFrame, Aside
  <1>3. CASE WebSignIn
    <2>1. DocsKept' /\ refresh' = refresh
      BY <1>1, <1>3, RegisteredOK, AccessAssumption DEF WebSignIn
    <2> QED BY <1>1, <2>1, EntriesFrame, Aside
  <1> QED BY <1>2, <1>3 DEF UserActs

LEMMA ExpirySafe ==
    ASSUME AccessInv, NEW n \in Tokens, TokenExpires(n), Watched,
           UNCHANGED <<revokedFor, clients, request, session, command, file>>
    PROVE  AccessInv'
  <1>1. DocsKept /\ EntriesKept /\ refresh[n] # NoEntry
    BY DEF AccessInv, TokenExpires
  <1>2. refresh[n] = [client |-> refresh[n].client, revoked |-> refresh[n].revoked,
                      expired |-> refresh[n].expired] /\ refresh[n].client \in Clients
    BY <1>1 DEF EntriesKept
  <1>3. /\ refresh'[n] = [refresh[n] EXCEPT !.expired = TRUE]
        /\ \A t \in Tokens : t # n => refresh'[t] = refresh[t]
        /\ refresh' = [t \in Tokens |-> refresh'[t]]
    BY <1>1 DEF EntriesKept, TokenExpires
  <1>4. refresh'[n] = [client |-> refresh[n].client, revoked |-> refresh[n].revoked,
                       expired |-> TRUE]
    BY <1>2, <1>3
  <1>5. /\ refresh'[n].client = refresh[n].client /\ refresh'[n].revoked = refresh[n].revoked
        /\ refresh'[n] # NoEntry
    BY <1>2, <1>4, AccessAssumption DEF NoEntry
  <1>6. EntriesKept' /\ EntriesGrow
    BY <1>1, <1>2, <1>3, <1>4, <1>5 DEF EntriesKept, EntriesGrow
  <1>7. DocsKept'
    BY <1>1, DocsFrame
  <1> QED BY <1>6, <1>7, Aside

LEMMA OlderOK ==
    /\ \A n \in 0..2 : Older(n) \in 0..2
    /\ \A m, n \in 0..2 : m <= n => Older(m) <= Older(n)
  BY DEF Older

\* A tick makes access tokens older together with what was withdrawn.
LEMMA TickSafe ==
    ASSUME AccessInv, Tick, UNCHANGED <<command, file>>
    PROVE  AccessInv'
  <1>1. /\ UNCHANGED <<clients, refresh, request, command, file>>
        /\ DocsKept /\ EntriesKept /\ ClocksKept /\ SessionsKept /\ RequestsKept /\ CommandsKept
    BY DEF Tick, server, AccessInv
  <1>2. /\ revokedFor' = [t \in Tokens |->
             IF refresh[t] # NoEntry /\ refresh[t].revoked THEN Older(revokedFor[t]) ELSE 0]
        /\ withdrawn' = [c \in Clients |-> [q \in Queues |->
             IF q \in Rights(c, NoToken).queues THEN 0 ELSE Older(withdrawn[c][q])]]
        /\ session' = [p \in Commands |-> IF session[p] = Anonymous THEN Anonymous
                                          ELSE [session[p] EXCEPT !.age = Older(@)]]
    BY DEF Tick
  <1>3. ASSUME NEW c \in Clients, NEW q \in Queues
        PROVE  /\ withdrawn'[c][q] \in {0, Older(withdrawn[c][q])}
               /\ clients[c] # NoDoc /\ q \in clients[c].queues => withdrawn'[c][q] = 0
    BY <1>2 DEF Rights
  <1>4. ASSUME NEW t \in Tokens
        PROVE  /\ revokedFor'[t] \in {0, Older(revokedFor[t])}
               /\ revokedFor'[t] # 0 => refresh[t] # NoEntry /\ refresh[t].revoked
    BY <1>2
  <1>5. ClocksKept'
    <2>1. ASSUME NEW c \in Clients, NEW q \in Queues PROVE withdrawn'[c][q] \in 0..2
      BY <1>1, <1>3, OlderOK DEF ClocksKept
    <2>2. ASSUME NEW t \in Tokens PROVE revokedFor'[t] \in 0..2
      BY <1>1, <1>4, OlderOK DEF ClocksKept
    <2> QED BY <1>1, <1>3, <1>4, <2>1, <2>2 DEF ClocksKept
  <1>6. ASSUME NEW p \in Commands PROVE SessionOK(session[p])'
    <2>1. CASE session[p] = Anonymous
      <3>1. session'[p] = Anonymous
        BY <1>2, <2>1
      <3> QED BY <3>1, AnonymousFresh DEF Fresh
    <2>2. CASE session[p] # Anonymous
      <3>1. PICK s : s = session[p]
        OBVIOUS
      <3>2. SessionOK(s)
        BY <1>1, <3>1 DEF SessionsKept
      <3>3. PICK a : a = Older(s.age)
        OBVIOUS
      <3>4. session'[p] = [s EXCEPT !.age = a]
        BY <1>2, <2>2, <3>1, <3>3
      <3>5. session'[p] = [kind |-> s.kind, client |-> s.client, role |-> s.role,
                           queues |-> s.queues, more |-> s.more, from |-> s.from, age |-> a]
        BY <3>2, <3>4 DEF SessionOK
      <3>6. a \in 0..2
        BY <3>2, <3>3, OlderOK DEF SessionOK
      <3>7. ASSUME NEW q \in s.queues PROVE s.client \in Clients /\ withdrawn'[s.client][q] <= a
        <4>1. /\ q \in Queues /\ s.client \in Clients /\ s.age \in 0..2
              /\ withdrawn[s.client][q] <= s.age
          BY <3>2 DEF SessionOK
        <4>2. withdrawn[s.client][q] \in 0..2
          BY <1>1, <4>1 DEF ClocksKept
        <4>3. Older(withdrawn[s.client][q]) <= a
          BY <3>3, <4>1, <4>2, OlderOK
        <4>4. withdrawn'[s.client][q] \in {0, Older(withdrawn[s.client][q])}
          BY <1>3, <4>1
        <4> QED BY <3>6, <4>1, <4>3, <4>4
      <3>8. s.from # NoToken => revokedFor'[s.from] <= a
        <4>1. SUFFICES ASSUME s.from # NoToken PROVE revokedFor'[s.from] <= a
          OBVIOUS
        <4>2. s.from \in Tokens /\ s.age \in 0..2 /\ revokedFor[s.from] <= s.age
          BY <3>2, <4>1 DEF SessionOK
        <4>3. Older(revokedFor[s.from]) <= a
          BY <1>1, <3>3, <4>2, OlderOK DEF ClocksKept
        <4>4. revokedFor'[s.from] \in {0, Older(revokedFor[s.from])}
          BY <1>4, <4>2
        <4> QED BY <3>6, <4>3, <4>4
      <3> QED BY <3>2, <3>5, <3>6, <3>7, <3>8 DEF SessionOK
    <2> QED BY <2>1, <2>2
  <1>7. SessionsKept'
    BY <1>2, <1>6 DEF SessionsKept
  <1>8. RequestsKept'
    <2>1. \A c \in Callers : request[c].at = "free"
      BY DEF Tick, At
    <2> QED BY <1>1, <2>1 DEF RequestsKept, RequestOK, Granting
  <1>9. DocsKept' /\ EntriesKept' /\ CommandsKept'
    BY <1>1 DEF DocsKept, EntriesKept, CommandsKept
  <1> QED BY <1>5, <1>7, <1>8, <1>9 DEF AccessInv

LEMMA AccessInitOK == Init => AccessInv
  <1> SUFFICES ASSUME Init PROVE AccessInv
    OBVIOUS
  <1>1. /\ session = [p \in Commands |-> Anonymous] /\ request = [c \in Callers |-> Free]
        /\ command = [p \in Commands |-> Idle] /\ file \in {NoToken, 0}
        /\ revokedFor = [t \in Tokens |-> 0]
    BY DEF Init, AccessInit, SignInInit
  <1>2. \E d : clients = [c \in Clients |-> IF OfServer THEN Document(c) ELSE d[c]]
               /\ d = [c \in Clients |-> NoDoc]
    BY DEF Init, AccessInit
  <1>3. ASSUME NEW c \in Clients PROVE Document(c) = NoDoc \/ DocOK(Document(c))
    <2>1. DocOK(NewDoc)
      BY DEF DocOK, NewDoc
    <2>2. ASSUME NEW qs \in SUBSET Queues, NEW g, g = [NewDoc EXCEPT !.secret = TRUE, !.queues = qs]
          PROVE  DocOK(g)
      <3>1. g = [role |-> "contributor", queues |-> qs, more |-> FALSE, secret |-> TRUE]
        BY <2>2 DEF NewDoc
      <3> QED BY <3>1 DEF DocOK
    <2>3. \A qs \in SUBSET Queues : DocOK([NewDoc EXCEPT !.secret = TRUE, !.queues = qs])
      BY <2>2, Zenon
    <2> QED BY <2>1, <2>3 DEF Document
  <1>4. DocsKept
    BY <1>2, <1>3 DEF DocsKept
  <1>5. EntriesKept
    <2>1. CASE OfServer
      <3>1. PICK c \in Clients :
              refresh = [t \in Tokens |->
                 IF t = 0 THEN [client |-> c, revoked |-> FALSE, expired |-> FALSE] ELSE NoEntry]
        BY <2>1, AccessAssumption DEF Init, AccessInit
      <3>2. PICK e : e = [client |-> c, revoked |-> FALSE, expired |-> FALSE]
        OBVIOUS
      <3>3. ASSUME NEW t \in Tokens PROVE refresh[t] = NoEntry \/ refresh[t] = e
        BY <3>1, <3>2
      <3>4. /\ e = [client |-> e.client, revoked |-> e.revoked, expired |-> e.expired]
            /\ e.client \in Clients /\ e.revoked \in BOOLEAN
        BY <3>2
      <3>5. refresh = [t \in Tokens |-> refresh[t]]
        BY <3>1
      <3> QED BY <3>3, <3>4, <3>5 DEF EntriesKept
    <2>2. CASE ~OfServer
      BY <2>2 DEF Init, EntriesKept
    <2> QED BY <2>1, <2>2
  <1>6. ClocksKept
    <2>1. CASE OfServer
      <3>1. withdrawn = [c \in Clients |-> [q \in Queues |->
                            IF q \in Rights(c, NoToken).queues THEN 0 ELSE 2]]
        BY <2>1 DEF Init, AccessInit
      <3>2. ASSUME NEW c \in Clients, NEW q \in Queues
            PROVE  /\ withdrawn[c][q] \in 0..2
                   /\ clients[c] # NoDoc /\ q \in clients[c].queues => withdrawn[c][q] = 0
        BY <3>1 DEF Rights
      <3> QED BY <1>1, <3>2 DEF ClocksKept
    <2>2. CASE ~OfServer
      BY <1>1, <2>2 DEF Init, ClocksKept
    <2> QED BY <2>1, <2>2
  <1>7. SessionsKept
    BY <1>1, AnonymousFresh DEF SessionsKept, Fresh
  <1>8. RequestsKept
    BY <1>1 DEF RequestsKept, RequestOK, Granting, Free
  <1>9. CommandsKept
    BY <1>1, IdleOK, AccessAssumption DEF CommandsKept
  <1> QED BY <1>4, <1>5, <1>6, <1>7, <1>8, <1>9 DEF AccessInv

LEMMA AccessStepSafe == AccessInv /\ [Next]_vars => AccessInv'
  <1> SUFFICES ASSUME AccessInv, [Next]_vars PROVE AccessInv'
    OBVIOUS
  <1>1. ASSUME NEW m \in Managers, ManagerAsks(m) \/ ManagerHears(m) PROVE AccessInv'
    BY <1>1, ManagersSafe
  <1>2. ASSUME NEW c \in Callers, ServerWorks(c) PROVE AccessInv'
    <2>1. ServesAlone /\ (ServerStep(c) \/ OidcStep(c))
      BY <1>2 DEF ServerWorks, ServesAlone, Same, signing
    <2> QED BY <2>1, ServerStepSafe, OidcStepSafe
  <1>3. ASSUME NEW c \in Callers, CallFails(c) PROVE AccessInv'
    BY <1>3, FailsSafe
  <1>4. ASSUME NEW p \in Commands, CommandStarts(p) PROVE AccessInv'
    <2>1. PICK users : /\ users = (IF oidc THEN {NoClient} ELSE (Clients \ OidcClients) \cup {NoClient})
                       /\ Start(p, IF p = 1 THEN {"login", "submit"} ELSE {"submit"}, users)
      BY <1>4 DEF CommandStarts
    <2>2. users \subseteq Clients \cup {NoClient} /\ Watched /\ revokedFor' = revokedFor
      BY <1>4, <2>1 DEF CommandStarts, Same
    <2> QED BY <2>1, <2>2, StartSafe
  <1>5. ASSUME NEW p \in Commands, CommandWorks(p) PROVE AccessInv'
    BY <1>5, CommandStepSafe DEF CommandWorks, Same
  <1>6. ASSUME NEW p \in Commands, CommandRunsLate(p) PROVE AccessInv'
    <2>1. PICK k : k = [command[p] EXCEPT !.late = TRUE]
      OBVIOUS
    <2>2. CommandOK(k)
      BY <2>1, CommandUpdates DEF AccessInv, CommandsKept
    <2>3. /\ command' = [command EXCEPT ![p] = k] /\ Reads /\ Watched
          /\ UNCHANGED <<request, session, file, revokedFor>>
      BY <1>6, <2>1 DEF CommandRunsLate, RunsLate, Same, Reads
    <2>4. file' \in Tokens \cup {NoToken}
      BY <2>3 DEF AccessInv, CommandsKept
    <2> QED BY <2>2, <2>3, <2>4, Acted
  <1>7. CASE TimePasses
    <2>1. CASE Tick
      BY <1>7, <2>1, TickSafe DEF TimePasses, signing
    <2>2. CASE ~Tick
      BY <1>7, <2>2, ExpirySafe, AccessAssumption DEF TimePasses, signing
    <2> QED BY <2>1, <2>2
  <1>8. CASE UNCHANGED <<access, signing>>
    <2>1. UNCHANGED <<clients, refresh, request, session, withdrawn, revokedFor, command, file>>
      BY <1>8 DEF access, server, signing
    <2>2. DocsKept' /\ EntriesKept' /\ ClocksKept' /\ CommandsKept'
      BY <2>1 DEF AccessInv, DocsKept, EntriesKept, ClocksKept, CommandsKept
    <2>3. \A s : (SessionOK(s) => SessionOK(s)') /\ (Fresh(s) => Fresh(s)')
      BY <2>1 DEF SessionOK, Fresh
    <2>4. SessionsKept'
      BY <2>1, <2>3 DEF AccessInv, SessionsKept
    <2>5. ASSUME NEW c \in Callers PROVE RequestOK(c, request[c])'
      <3>1. PICK r : r = request[c]
        OBVIOUS
      <3>2. RequestOK(c, r)
        BY <3>1 DEF AccessInv, RequestsKept
      <3>3. RequestOK(c, r)'
        BY <2>1, <2>3, <3>2 DEF RequestOK
      <3> QED BY <2>1, <3>1, <3>3
    <2>6. RequestsKept'
      BY <2>1, <2>5 DEF AccessInv, RequestsKept
    <2> QED BY <2>2, <2>4, <2>6 DEF AccessInv
  <1>9. CASE StoreWorks \/ HostWorks \/ UNCHANGED vars
    BY <1>8, <1>9 DEF StoreWorks, HostWorks, vars
  <1> QED BY <1>1, <1>2, <1>3, <1>4, <1>5, <1>6, <1>7, <1>9, ToolSafe, UsersSafe DEF Next

\* A submission is only accepted by the handler's last step.
LEMMA CommandsAsk ==
    ASSUME AccessInv, NEW p \in Commands, NEW mores, CommandStep(p, mores)
    PROVE  request' = request \/ Asked(p)
  <1>1. CommandOK(command[p]) /\ file \in Tokens \cup {NoToken}
    BY DEF AccessInv, CommandsKept
  <1>2. CASE Authenticates(p)
    BY <1>1, <1>2 DEF Authenticates, CommandOK, Asked
  <1>3. CASE Loop(p)
    BY <1>1, <1>3 DEF Loop, Asked
  <1>4. CASE Run(p, mores)
    BY <1>4 DEF Run, Asked
  <1>5. CASE CredentialsAnswered(p) \/ PollAnswered(p) \/ SubmitAnswered(p)
    BY <1>5 DEF CredentialsAnswered, PollAnswered, SubmitAnswered, SignedIn, GivesUp, Asked
  <1>6. CASE RefreshAnswered(p)
    BY <1>6 DEF RefreshAnswered, SignedIn, GivesUp, Asked
  <1>7. CASE InitAnswered(p)
    BY <1>7 DEF InitAnswered, SignedIn, GivesUp, Asked
  <1>8. CASE FoundAnswered(p)
    BY <1>8 DEF FoundAnswered, SignedIn, GivesUp, Asked
  <1> QED BY <1>2, <1>3, <1>4, <1>5, <1>6, <1>7, <1>8 DEF CommandStep

LEMMA AcceptedAtLast ==
    ASSUME AccessInv, [Next]_vars, NEW p \in Commands, Accepted(p)
    PROVE  CheckRestriction(p)
  <1>1. /\ request[p].at = "restriction" /\ request'[p].at = "answered" /\ request'[p].code = "200"
        /\ p \in Callers /\ RequestsKept /\ request' # request
    BY DEF Accepted, At, Callers, AccessInv
  <1>2. ASSUME NEW d \in Callers, NEW r, Goes(d, r) PROVE d = p /\ r.at = "answered" /\ r.code = "200"
    BY <1>1, <1>2 DEF Goes, RequestsKept
  <1>3. ASSUME NEW d \in Callers, Asked(d) PROVE FALSE
    <2>1. CASE Goes(d, Free)
      BY <1>2, <2>1 DEF Free
    <2>2. ASSUME NEW x \in {"oidc-init", "poll"}, Goes(d, [at |-> x]) PROVE FALSE
      BY <1>2, <2>2
    <2>3. ASSUME NEW c, NEW key, Goes(d, [at |-> "token", client |-> c, key |-> key]) PROVE FALSE
      BY <1>2, <2>3
    <2>4. ASSUME NEW t, Goes(d, [at |-> "refresh", token |-> t]) PROVE FALSE
      BY <1>2, <2>4
    <2>5. ASSUME NEW q, NEW more, Goes(d, [at |-> "submit", queue |-> q, more |-> more]) PROVE FALSE
      BY <1>2, <2>5
    <2> QED BY <1>3, <2>1, <2>2, <2>3, <2>4, <2>5 DEF Asked
  <1>4. ASSUME NEW m \in Managers, ManagerAsks(m) \/ ManagerHears(m) PROVE FALSE
    <2>1. m \in Callers /\ m # p
      BY <1>1, <1>4 DEF ManagerAsks, ManagerHears, At, Callers
    <2>2. \E r : Goes(m, r)
      BY <1>4 DEF ManagerAsks, ManagerHears, Asks, AsksToSet, AsksToRemove, AsksToRestrict,
                  AsksToRevoke
    <2> QED BY <1>2, <2>1, <2>2
  <1>5. ASSUME NEW c \in Callers, CallFails(c) PROVE FALSE
    <2>1. PICK k \in {"500", "timeout"} : Refuses(c, k)
      BY <1>5 DEF CallFails, Fails
    <2>2. Goes(c, [at |-> "answered", code |-> k, session |-> Anonymous, token |-> NoToken])
      BY <2>1 DEF Refuses, Answers
    <2> QED BY <1>2, <2>2
  <1>6. ASSUME NEW c \in Callers, ServerWorks(c) PROVE CheckRestriction(p)
    <2>1. \E r : Goes(c, r)
      BY <1>6 DEF ServerWorks, ServerStep, OidcStep, ReadCredentials, IssueTokens, LookUpToken,
             MintToken, FindToken, SetRevoked, ReadSubmission, CheckRestriction, ReadPermissions,
             WritePermissions, FindClient, RemoveClient, FindOwner, RestrictQueue, Allow,
             FindRestriction, Unrestrict, Disallow, InitiateCode, ExchangeCode, ReadUser,
             RegisterUser, ReadRights, Refuses, Answers, On
    <2>2. c = p
      BY <1>2, <2>1
    <2> QED BY <1>1, <1>6, <2>2
          DEF ServerWorks, ServerStep, OidcStep, ReadCredentials, IssueTokens, LookUpToken,
             MintToken, FindToken, SetRevoked, ReadSubmission, ReadPermissions,
             WritePermissions, FindClient, RemoveClient, FindOwner, RestrictQueue, Allow,
             FindRestriction, Unrestrict, Disallow, InitiateCode, ExchangeCode, ReadUser,
             RegisterUser, ReadRights, At
  <1>7. ASSUME NEW d \in Commands, CommandWorks(d) PROVE FALSE
    <2>1. Asked(d) /\ d \in Callers
      BY <1>1, <1>7, CommandsAsk DEF CommandWorks, Callers
    <2> QED BY <1>3, <2>1
  <1>8. ASSUME (\E d \in Commands : CommandStarts(d) \/ CommandRunsLate(d)) \/ ToolEdits \/ UserActs
                  \/ TimePasses \/ StoreWorks \/ HostWorks \/ UNCHANGED vars
        PROVE  FALSE
    BY <1>1, <1>8 DEF CommandStarts, Start, CommandRunsLate, ToolEdits, UserActs, TimePasses, Tick,
                      StoreWorks, HostWorks, vars, access
  <1> QED BY <1>4, <1>5, <1>6, <1>7, <1>8 DEF Next

\* What was withdrawn stops to work within the life of an access token, however
\* requests, changes and sign-ins overlap: for every set of clients, commands,
\* managers and queues, and every number of changes and failures.
THEOREM WithdrawnInTime == Spec => WithdrawalsTakeEffect
  <1>1. AccessInv /\ [Next]_vars =>
           [\A p \in Commands :
              Accepted(p) /\ request[p].queue \in restricted =>
                 /\ withdrawn[session[p].client][request[p].queue] <= 1
                 /\ session[p].from # NoToken => revokedFor[session[p].from] <= 1]_vars
    <2> SUFFICES ASSUME AccessInv, [Next]_vars, NEW p \in Commands, Accepted(p),
                        request[p].queue \in restricted
                 PROVE  /\ withdrawn[session[p].client][request[p].queue] <= 1
                        /\ session[p].from # NoToken => revokedFor[session[p].from] <= 1
      OBVIOUS
    <2> DEFINE q == request[p].queue
               s == session[p]
    <2>1. CheckRestriction(p)
      BY AcceptedAtLast
    <2>2. p \in Callers /\ RequestOK(p, request[p]) /\ request[p].at = "restriction" /\ SessionOK(s)
      BY <2>1 DEF CheckRestriction, At, AccessInv, RequestsKept, SessionsKept, Callers
    <2>3. s.age <= 1
      BY <2>2 DEF RequestOK
    <2>4. q \in s.queues
      <3>1. PICK k \in {"200", "401", "403"} :
              /\ Refuses(p, k)
              /\ k = IF Accepts(p) THEN "200" ELSE IF session[p] = Anonymous THEN "401" ELSE "403"
        BY <2>1 DEF CheckRestriction
      <3>2. request'[p].code = k
        BY <2>2, <3>1 DEF Refuses, Answers, Goes, AccessInv, RequestsKept
      <3>3. Accepts(p)
        BY <3>1, <3>2 DEF Accepted
      <3> QED BY <3>3 DEF Accepts, QueueRestricted
    <2>5. /\ q \in Queues /\ s.client \in Clients /\ withdrawn[s.client][q] <= s.age
          /\ s.age \in 0..2 /\ s.from \in Tokens \cup {NoToken}
          /\ s.from # NoToken => revokedFor[s.from] <= s.age
      BY <2>2, <2>4 DEF SessionOK
    <2>6. withdrawn[s.client][q] \in 0..2 /\ (s.from # NoToken => revokedFor[s.from] \in 0..2)
      BY <2>5 DEF AccessInv, ClocksKept
    <2> HIDE DEF q, s
    <2>7. withdrawn[s.client][q] <= 1 /\ (s.from # NoToken => revokedFor[s.from] <= 1)
      BY <2>3, <2>5, <2>6
    <2> QED BY <2>7 DEF q, s
  <1> QED BY <1>1, AccessInitOK, AccessStepSafe, PTL DEF Spec, WithdrawalsTakeEffect
=============================================================================
