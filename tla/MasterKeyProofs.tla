--------------------------- MODULE MasterKeyProofs ---------------------------
(***************************************************************************)
(* NoKeyIsLost and RetryWorks hold for every number of units, keys and     *)
(* failures.  The inductive invariant says what the units, the leader and  *)
(* the DEK agree on while no change was hurried: hooks carry the key that  *)
(* is configured, only the leader rotates, and the DEK is wrapped with the *)
(* configured key or the one that the leader has stored.                   *)
(***************************************************************************)
EXTENDS MasterKey, TLAPS

Lead == hook[leader]

\* A rotation is due at the leader.
Due == stored[leader] \notin {NoKey, config}

\* Hooks that run were started for the key that is configured.
Current ==
    \A u \in Units :
       /\ hook[u].at # "idle" =>
             hook[u].new = config /\ (hook[u].kind # "plain" => u = leader)
       /\ hook[u].at \in {"rewrap", "rewrap back"} => hook[u].kind # "plain"

\* What the leader does agrees with the state of its keys.
Leading ==
    /\ Lead.at \in {"restart", "commit"} /\ Lead.kind = "plain" => ~Due \/ config = NoKey
    /\ Lead.at \in {"restart", "commit"} /\ Lead.kind # "plain" =>
          dek = NoDek \/ (dek.key = config /\ dek.provider = "local")
    /\ Lead.at \in {"rewrap", "rewrap back"} => Due /\ config # NoKey
    /\ Lead.at = "rewrap back" => dek = NoDek \/ (dek.key = config /\ dek.provider = "local:new")

Wrapping ==
    /\ dek # NoDek => dek.key \in {config, stored[leader]}
    /\ dek # NoDek => config # NoKey
    /\ dek.provider = "local:new" => Due /\ dek.key = config

\* Before a rotation that is due, the DEK is as it was.
Before ==
    dek.provider = "local" /\ Due /\ config # NoKey /\ Lead.at \notin {"restart", "commit"}
    => dek.key = stored[leader]

Follows ==
    /\ mishaps \subseteq {"broken off"} => Current /\ Leading /\ Wrapping
    /\ mishaps = {} => Before

IInv == TypeOK /\ Follows

-----------------------------------------------------------------------------
LEMMA NoKeyIsNone == NoKey \notin Keys
  BY KeyAssumption

LEMMA NoDekProvider == NoDek.provider = "none"
  BY DEF NoDek

LEMMA NoteType ==
  ASSUME mishaps \subseteq {"hurried", "late", "broken off"},
         NEW m \in {"hurried", "late", "broken off"}, NEW happened, Note(m, happened)
  PROVE  mishaps' \subseteq {"hurried", "late", "broken off"}
  BY DEF Note

\* What a rewrap makes of the DEK
LEMMA WrappedType ==
  ASSUME dek \in Deks, NEW p \in {"local", "local:new"}, NEW k \in Keys
  PROVE  /\ Wrapped(p, k) \in Deks
         /\ Wrapped(p, k) = NoDek \/ (Wrapped(p, k).provider = p /\ Wrapped(p, k).key = k)
  BY DEF Wrapped, Deks

\* A hook goes to its next step
LEMMA StepType ==
  ASSUME hook \in [Units -> Hooks], NEW u \in Units,
         NEW p \in {"rewrap", "rewrap back", "restart", "commit"}
  PROVE  [hook EXCEPT ![u].at = p] \in [Units -> Hooks]
  <1>1. hook[u] \in Hooks
    OBVIOUS
  <1>2. [hook[u] EXCEPT !.at = p] \in Hooks
    BY <1>1 DEF Hooks
  <1> QED
    BY <1>2

LEMMA CountersType ==
  ASSUME TypeOK
  PROVE  /\ Fail => failures' \in 0..MaxFailures
         /\ Change => changes' \in 0..MaxChanges
  <1>1. failures \in 0..MaxFailures /\ changes \in 0..MaxChanges
    BY DEF TypeOK
  <1> QED
    BY <1>1, KeyAssumption DEF Fail, Change

LEMMA TypeInit == Init => TypeOK
  <1>1. 0 \in 0..MaxChanges /\ 0 \in 0..MaxFailures
    BY KeyAssumption
  <1>2. Idle \in Hooks /\ Idle.at = "idle"
    BY DEF Idle, Hooks
  <1>3. NoDek \in Deks
    BY DEF Deks
  <1> QED
    BY <1>1, <1>2, <1>3 DEF Init, TypeOK

LEMMA TypeNext == TypeOK /\ [Next]_vars => TypeOK'
  <1> SUFFICES ASSUME TypeOK, [Next]_vars PROVE TypeOK'
    OBVIOUS
  <1>0. /\ Fail => failures' \in 0..MaxFailures
        /\ Change => changes' \in 0..MaxChanges
    BY CountersType
  <1> USE DEF TypeOK
  <1>1. ASSUME NEW k \in Keys \cup {NoKey}, ChangeKey(k) PROVE TypeOK'
    BY <1>0, <1>1, NoteType DEF ChangeKey
  <1>2. ASSUME NEW u \in Units, LeaderMoves(u) PROVE TypeOK'
    BY <1>0, <1>2, NoteType DEF LeaderMoves
  <1>3. ASSUME NEW u \in Units, ContainerStops(u) PROVE TypeOK'
    BY <1>0, <1>3 DEF ContainerStops
  <1>4. ASSUME NEW u \in Units, HookDies(u) PROVE TypeOK'
    <2>1. hook' \in [Units -> Hooks] /\ \A v \in Units : hook'[v] \in {hook[v], Idle}
      BY <1>4 DEF HookDies, Hooks, Idle
    <2>2. mishaps' \subseteq {"hurried", "late", "broken off"}
      BY <1>4, NoteType DEF HookDies
    <2> QED
      BY <1>0, <1>4, <2>1, <2>2 DEF HookDies, Idle
  <1>5. ASSUME NEW u \in Units, ConfigChanged(u) PROVE TypeOK'
    <2>1. CASE UNCHANGED hook
      BY <1>5, <2>1 DEF ConfigChanged
    <2>2. CASE Starts(u, "rewrap", "rotate") /\ config # NoKey
      BY <1>5, <2>2 DEF ConfigChanged, Starts, Hooks
    <2>3. CASE Starts(u, "restart", "plain")
      BY <1>5, <2>3 DEF ConfigChanged, Starts, Hooks
    <2> QED
      BY <1>5, <2>1, <2>2, <2>3 DEF ConfigChanged
  <1>6. ASSUME NEW u \in Units, RetryKeyRotation(u) PROVE TypeOK'
    BY <1>6 DEF RetryKeyRotation, Starts, Hooks
  <1>7. ASSUME NEW u \in Units, Rewrap(u) PROVE TypeOK'
    <2>1. dek' \in Deks
      BY <1>7, WrappedType DEF Rewrap
    <2>2. hook' \in [Units -> Hooks]
      BY <1>7, StepType DEF Rewrap
    <2>3. hook'[u].new = hook[u].new /\ \A v \in Units \ {u} : hook'[v] = hook[v]
      BY <1>7 DEF Rewrap, Hooks
    <2> QED
      BY <1>7, <2>1, <2>2, <2>3 DEF Rewrap
  <1>8. ASSUME NEW u \in Units, RewrapBack(u) PROVE TypeOK'
    <2>1. dek' \in Deks
      BY <1>8, WrappedType DEF RewrapBack
    <2>2. hook' \in [Units -> Hooks]
      <3>1. PICK p \in {"restart", "commit"} : hook' = [hook EXCEPT ![u].at = p]
        BY <1>8 DEF RewrapBack
      <3> QED
        BY <3>1, StepType
    <2>3. hook'[u].at \in {"commit", "restart"} /\ \A v \in Units \ {u} : hook'[v] = hook[v]
      BY <1>8 DEF RewrapBack, Hooks
    <2> QED
      BY <1>8, <2>1, <2>2, <2>3 DEF RewrapBack
  <1>9. ASSUME NEW u \in Units, RotationFails(u) PROVE TypeOK'
    <2>1. hook' \in [Units -> Hooks] /\ \A v \in Units : hook'[v] \in {hook[v], Idle}
      BY <1>9 DEF RotationFails, Hooks, Idle
    <2>2. dek' \in Deks
      <3>1. hook[u].new \in Keys /\ dek \in Deks
        BY <1>9 DEF RotationFails
      <3>2. \A p \in {"local", "local:new"} : Wrapped(p, hook[u].new) \in Deks
        BY <3>1, WrappedType
      <3> QED
        BY <1>9, <3>1, <3>2 DEF RotationFails
    <2>3. mishaps' \subseteq {"hurried", "late", "broken off"}
      BY <1>9, NoteType DEF RotationFails
    <2>4. failures' \in 0..MaxFailures
      BY <1>0, <1>9 DEF RotationFails
    <2> QED
      BY <1>9, <2>1, <2>2, <2>3, <2>4 DEF RotationFails, Idle
  <1>10. ASSUME NEW u \in Units, Restart(u) PROVE TypeOK'
    <2>1. hook' \in [Units -> Hooks]
      BY <1>10, StepType DEF Restart
    <2>2. hook'[u].at = "commit" /\ \A v \in Units \ {u} : hook'[v] = hook[v]
      BY <1>10 DEF Restart, Hooks
    <2>3. hook[u].new \in Keys \cup {NoKey}
      BY DEF Hooks
    <2> QED
      BY <1>10, <2>1, <2>2, <2>3 DEF Restart
  <1>11. ASSUME NEW u \in Units, Commit(u) PROVE TypeOK'
    BY <1>11 DEF Commit, Hooks, Idle
  <1>12. ASSUME NEW u \in Units, PebbleReady(u) PROVE TypeOK'
    BY <1>12 DEF PebbleReady
  <1>13. ASSUME NEW u \in Units, RelationChanged(u) PROVE TypeOK'
    BY <1>13 DEF RelationChanged
  <1>14. ASSUME NEW u \in Units, SetupMongoStore(u) PROVE TypeOK'
    BY <1>14, NoteType DEF SetupMongoStore, Deks
  <1>15. CASE UNCHANGED vars
    BY <1>15 DEF vars
  <1> QED
    BY <1>1, <1>2, <1>3, <1>4, <1>5, <1>6, <1>7, <1>8, <1>9, <1>10, <1>11, <1>12, <1>13,
       <1>14, <1>15 DEF Next

\* Variables keep their types in every step of the charm and its surroundings.
THEOREM TypeCorrect == Spec => []TypeOK
  BY TypeInit, TypeNext, PTL DEF Spec

-----------------------------------------------------------------------------
\* Steps that change neither a hook, nor a key, nor the DEK
LEMMA FollowsStays ==
  ASSUME Follows, UNCHANGED <<config, leader, hook, stored, dek, mishaps>>
  PROVE  Follows'
  BY DEF Follows, Current, Leading, Wrapping, Before, Due, Lead

\* What a settled change leaves
LEMMA SettledFacts ==
  ASSUME IInv, Settled, mishaps \subseteq {"broken off"}
  PROVE  /\ \A u \in Units : stored[u] = config /\ hook[u].at = "idle" /\ hook[u] \in Hooks
         /\ dek # NoDek => dek.key = config /\ dek.provider = "local"
  BY DEF IInv, Follows, TypeOK, Settled, Stays, IdleUnit, Wrapping, Due, Deks, NoDek

\* After a step from such a state: every unit idle, with the key of the DEK
LEMMA AfterSettled ==
  ASSUME NEW old, leader' \in Units,
         \A u \in Units : stored'[u] = old /\ hook'[u].at = "idle",
         dek' # NoDek => dek'.key = old /\ dek'.provider = "local" /\ config' # NoKey
  PROVE  (Current /\ Leading /\ Wrapping /\ Before)'
  <1>1. hook'[leader'].at = "idle" /\ stored'[leader'] = old
    OBVIOUS
  <1>2. Current'
    BY DEF Current
  <1>3. Leading'
    BY <1>1 DEF Leading, Lead
  <1>4. Wrapping'
    <2>1. CASE dek' = NoDek
      BY <2>1 DEF Wrapping, NoDek
    <2>2. CASE dek' # NoDek
      BY <2>2, <1>1 DEF Wrapping
    <2> QED
      BY <2>1, <2>2
  <1>5. Before'
    BY <1>1 DEF Before, NoDek
  <1> QED
    BY <1>2, <1>3, <1>4, <1>5

\* A rotation that is started, by the hook or by the action
LEMMA StartsRotation ==
  ASSUME IInv, NEW kind \in {"rotate", "retry"}, Starts(leader, "rewrap", kind),
         IdleUnit(leader), Due, config # NoKey,
         UNCHANGED <<config, leader, stored, dek, mishaps>>
  PROVE  Follows'
  <1>1. leader \in Units /\ Lead' = [at |-> "rewrap", new |-> config, kind |-> kind]
    BY DEF Starts, Lead, IInv, TypeOK
  <1>2. \A v \in Units \ {leader} : hook'[v] = hook[v]
    BY DEF Starts, IInv, TypeOK
  <1>0. Lead'.at = "rewrap" /\ Lead'.new = config /\ Lead'.kind # "plain"
    BY <1>1
  <1>3. Current => Current'
    BY <1>0, <1>1, <1>2 DEF Current, Lead
  <1>4. Leading'
    BY <1>1 DEF Leading, Due
  <1>5. Wrapping => Wrapping'
    BY DEF Wrapping, Due
  <1>6. Before => Before'
    BY DEF Before, Due, Lead, IdleUnit
  <1> QED
    BY <1>3, <1>4, <1>5, <1>6 DEF Follows, IInv

LEMMA FollowsNext ==
  ASSUME IInv, [Next]_vars
  PROVE  Follows'
  <1> USE DEF IInv
  <1>1. ASSUME NEW k \in Keys \cup {NoKey}, ChangeKey(k) PROVE Follows'
    <2> SUFFICES ASSUME mishaps' \subseteq {"broken off"}
                 PROVE  (Current /\ Leading /\ Wrapping /\ Before)'
      BY DEF Follows
    <2>1. mishaps \subseteq {"broken off"} /\ Settled /\ (k = NoKey => dek = NoDek)
      BY <1>1 DEF ChangeKey, Note
    <2>2. /\ \A u \in Units : stored[u] = config /\ hook[u].at = "idle"
          /\ dek # NoDek => dek.key = config /\ dek.provider = "local"
      BY <2>1, SettledFacts
    <2>3. UNCHANGED <<leader, hook, stored, dek>> /\ config' = k /\ leader \in Units
      BY <1>1 DEF ChangeKey, TypeOK
    <2> QED
      BY <2>1, <2>2, <2>3, AfterSettled
  <1>2. ASSUME NEW u \in Units, LeaderMoves(u) PROVE Follows'
    <2> SUFFICES ASSUME mishaps' \subseteq {"broken off"}
                 PROVE  (Current /\ Leading /\ Wrapping /\ Before)'
      BY DEF Follows
    <2>1. mishaps \subseteq {"broken off"} /\ Settled
      BY <1>2 DEF LeaderMoves, Note
    <2>2. /\ \A v \in Units : stored[v] = config /\ hook[v].at = "idle"
          /\ dek # NoDek => dek.key = config /\ dek.provider = "local" /\ config # NoKey
      BY <2>1, SettledFacts DEF Follows, Wrapping
    <2>3. UNCHANGED <<config, hook, stored, dek>> /\ leader' \in Units
      BY <1>2 DEF LeaderMoves
    <2> QED
      BY <2>1, <2>2, <2>3, AfterSettled
  <1>3. ASSUME NEW u \in Units, ContainerStops(u) PROVE Follows'
    BY <1>3, FollowsStays DEF ContainerStops
  <1>4. ASSUME NEW u \in Units, HookDies(u) PROVE Follows'
    <2>1. \A v \in Units : hook'[v] = hook[v] \/ hook'[v].at = "idle"
      BY <1>4 DEF HookDies, TypeOK, Idle
    <2>2. UNCHANGED <<config, leader, stored, dek>> /\ mishaps \subseteq mishaps' /\ leader \in Units
      BY <1>4 DEF HookDies, Note, TypeOK
    <2>3. Lead' = Lead \/ Lead'.at = "idle"
      BY <2>1, <2>2 DEF Lead
    <2>4. Current => Current'
      BY <2>1, <2>2 DEF Current
    <2>5. Leading => Leading'
      <3>1. CASE Lead' = Lead
        BY <2>2, <3>1 DEF Leading, Due
      <3>2. CASE Lead'.at = "idle"
        BY <3>2 DEF Leading
      <3> QED
        BY <2>3, <3>1, <3>2
    <2>6. Wrapping => Wrapping'
      BY <2>2 DEF Wrapping, Due
    <2>7. ASSUME mishaps' = {}, Leading, Before PROVE Before'
      <3>1. Lead' = Lead \/ Lead.at \notin {"restart", "commit"} \/ Lead.kind = "plain"
        BY <1>4, <2>2, <2>7 DEF HookDies, Note, Lead, TypeOK
      <3>2. Lead' = Lead \/ Lead.at \notin {"restart", "commit"} \/ ~Due \/ config = NoKey
        BY <3>1, <2>7 DEF Leading
      <3> QED
        BY <2>2, <2>7, <3>2 DEF Before, Due
    <2> QED
      BY <2>2, <2>4, <2>5, <2>6, <2>7 DEF Follows
  <1>5. ASSUME NEW u \in Units, ConfigChanged(u) PROVE Follows'
    <2>1. UNCHANGED <<config, leader, stored, dek, mishaps>> /\ IdleUnit(u) /\ leader \in Units
      BY <1>5 DEF ConfigChanged, TypeOK
    <2>2. CASE UNCHANGED hook
      BY <2>1, <2>2, FollowsStays
    <2>3. CASE u = leader /\ Due /\ config # NoKey /\ Starts(u, "rewrap", "rotate")
      BY <2>1, <2>3, StartsRotation
    <2>4. CASE (u # leader \/ ~Due \/ config = NoKey) /\ Starts(u, "restart", "plain")
      <3>0. hook'[u] = [at |-> "restart", new |-> config, kind |-> "plain"]
        BY <2>4 DEF Starts, TypeOK
      <3>1. hook'[u].at = "restart" /\ hook'[u].new = config /\ hook'[u].kind = "plain"
        BY <3>0
      <3>2. \A v \in Units \ {u} : hook'[v] = hook[v]
        BY <2>4 DEF Starts, TypeOK
      <3>3. Current => Current'
        BY <2>1, <3>1, <3>2 DEF Current
      <3>4. Leading => Leading'
        <4>1. CASE u = leader
          BY <2>1, <2>4, <3>1, <4>1 DEF Leading, Lead, Due
        <4>2. CASE u # leader
          BY <2>1, <3>2, <4>2 DEF Leading, Lead, Due
        <4> QED
          BY <4>1, <4>2
      <3>5. Wrapping => Wrapping'
        BY <2>1 DEF Wrapping, Due
      <3>6. Before => Before'
        BY <2>1, <2>4, <3>1, <3>2 DEF Before, Lead, Due
      <3> QED
        BY <2>1, <3>3, <3>4, <3>5, <3>6 DEF Follows
    <2> QED
      BY <1>5, <2>2, <2>3, <2>4 DEF ConfigChanged, Due
  <1>6. ASSUME NEW u \in Units, RetryKeyRotation(u) PROVE Follows'
    BY <1>6, StartsRotation DEF RetryKeyRotation, Due
  <1>7. ASSUME NEW u \in Units, Rewrap(u) PROVE Follows'
    <2> SUFFICES ASSUME mishaps \subseteq {"broken off"}
                 PROVE  (Current /\ Leading /\ Wrapping /\ Before)'
      BY <1>7 DEF Rewrap, Follows
    <2>1. UNCHANGED <<config, leader, stored>> /\ Current /\ Leading /\ Wrapping
      BY <1>7 DEF Rewrap, Follows
    <2>2. u = leader /\ Lead.at = "rewrap" /\ Lead.new = config /\ Lead.kind # "plain"
      BY <1>7, <2>1 DEF Rewrap, Current, Lead
    <2>3. Due /\ config \in Keys /\ config # NoKey
      BY <2>1, <2>2 DEF Leading, TypeOK
    <2>4. Lead' = [Lead EXCEPT !.at = "rewrap back"] /\ Lead \in Hooks
      BY <1>7, <2>1, <2>2 DEF Rewrap, TypeOK, Lead
    <2>5. Lead'.at = "rewrap back" /\ Lead'.new = config /\ Lead'.kind # "plain"
      BY <2>2, <2>4 DEF Hooks
    <2>6. dek' = NoDek \/ (dek'.provider = "local:new" /\ dek'.key = config)
      <3>1. dek' = Wrapped("local:new", config) /\ dek \in Deks
        BY <1>7, <2>2 DEF Rewrap, Lead, TypeOK
      <3> QED
        BY <2>3, <3>1, WrappedType
    <2>7. Current'
      BY <1>7, <2>1, <2>2, <2>5 DEF Rewrap, Current, Lead, TypeOK
    <2>8. Leading'
      BY <2>1, <2>3, <2>5, <2>6 DEF Leading, Due
    <2>9. Wrapping'
      BY <2>1, <2>3, <2>6, NoDekProvider DEF Wrapping, Due
    <2>10. Before'
      BY <2>6, NoDekProvider DEF Before
    <2> QED
      BY <2>7, <2>8, <2>9, <2>10
  <1>8. ASSUME NEW u \in Units, RewrapBack(u) PROVE Follows'
    <2> SUFFICES ASSUME mishaps \subseteq {"broken off"}
                 PROVE  (Current /\ Leading /\ Wrapping /\ Before)'
      BY <1>8 DEF RewrapBack, Follows
    <2>1. UNCHANGED <<config, leader, stored>> /\ Current /\ Leading /\ Wrapping
      BY <1>8 DEF RewrapBack, Follows
    <2>2. u = leader /\ Lead.at = "rewrap back" /\ Lead.new = config /\ Lead.kind # "plain"
      BY <1>8, <2>1 DEF RewrapBack, Current, Lead
    <2>3. Due /\ config \in Keys /\ config # NoKey
      BY <2>1, <2>2 DEF Leading, TypeOK
    <2>4. /\ Lead' = [Lead EXCEPT !.at = IF Lead.kind = "retry" THEN "commit" ELSE "restart"]
          /\ Lead \in Hooks
      BY <1>8, <2>1, <2>2 DEF RewrapBack, TypeOK, Lead
    <2>5. Lead'.at \in {"restart", "commit"} /\ Lead'.new = config /\ Lead'.kind # "plain"
      BY <2>2, <2>4 DEF Hooks
    <2>6. dek' = NoDek \/ (dek'.provider = "local" /\ dek'.key = config)
      <3>1. dek' = Wrapped("local", config) /\ dek \in Deks
        BY <1>8, <2>2 DEF RewrapBack, Lead, TypeOK
      <3> QED
        BY <2>3, <3>1, WrappedType
    <2>7. Current'
      BY <1>8, <2>1, <2>2, <2>5 DEF RewrapBack, Current, Lead, TypeOK
    <2>8. Leading'
      BY <2>5, <2>6, <2>1 DEF Leading
    <2>9. Wrapping'
      BY <2>1, <2>3, <2>6, NoDekProvider DEF Wrapping
    <2>10. Before'
      BY <2>5 DEF Before
    <2> QED
      BY <2>7, <2>8, <2>9, <2>10
  <1>9. ASSUME NEW u \in Units, RotationFails(u) PROVE Follows'
    <2> SUFFICES ASSUME mishaps' \subseteq {"broken off"}
                 PROVE  (Current /\ Leading /\ Wrapping)' /\ (mishaps' = {} => Before')
      BY DEF Follows
    <2>1. mishaps \subseteq mishaps' /\ UNCHANGED <<config, leader, stored>>
      BY <1>9 DEF RotationFails, Note
    <2>2. Current /\ Leading /\ Wrapping
      BY <2>1 DEF Follows
    <2>3. u = leader /\ Lead.new = config /\ Lead.kind # "plain" /\ Lead.at \in {"rewrap", "rewrap back"}
      BY <1>9, <2>2 DEF RotationFails, Current, Lead
    <2>4. Due /\ config \in Keys /\ config # NoKey
      BY <2>2, <2>3 DEF Leading, TypeOK
    <2>5. Lead'.at = "idle" /\ \A v \in Units : hook'[v] = hook[v] \/ hook'[v].at = "idle"
      BY <1>9, <2>1, <2>3 DEF RotationFails, Lead, TypeOK, Idle
    <2>6. \/ dek' = dek
          \/ dek' = NoDek
          \/ dek'.provider = "local:new" /\ dek'.key = config
          \/ mishaps' # {} /\ dek'.provider = "local" /\ dek'.key = config
      <3>1. \/ dek' = dek
            \/ dek' = Wrapped("local:new", config)
            \/ dek' = Wrapped("local", config) /\ mishaps' # {}
        BY <1>9, <2>3 DEF RotationFails, Note, Lead
      <3>2. dek \in Deks
        BY DEF TypeOK
      <3> QED
        BY <3>1, <3>2, <2>4, WrappedType
    <2>7. Current'
      BY <2>1, <2>2, <2>5 DEF Current
    <2>8. Leading'
      BY <2>5 DEF Leading
    <2>9. Wrapping'
      BY <2>1, <2>2, <2>4, <2>6, NoDekProvider DEF Wrapping, Due
    <2>10. ASSUME mishaps' = {} PROVE Before'
      BY <2>1, <2>3, <2>6, <2>10, NoDekProvider DEF Before, Due, Follows
    <2> QED
      BY <2>7, <2>8, <2>9, <2>10
  <1>10. ASSUME NEW u \in Units, Restart(u) PROVE Follows'
    <2>1. UNCHANGED <<config, leader, stored, dek, mishaps>> /\ leader \in Units
      BY <1>10 DEF Restart, TypeOK
    <2>2. hook[u].at = "restart" /\ hook'[u].at = "commit" /\ hook'[u].new = hook[u].new
             /\ hook'[u].kind = hook[u].kind /\ \A v \in Units \ {u} : hook'[v] = hook[v]
      BY <1>10 DEF Restart, TypeOK, Hooks
    <2>3. Current => Current'
      BY <2>1, <2>2 DEF Current
    <2>4. Leading => Leading'
      BY <2>1, <2>2 DEF Leading, Lead, Due
    <2>5. Wrapping => Wrapping'
      BY <2>1 DEF Wrapping, Due
    <2>6. Before => Before'
      BY <2>1, <2>2 DEF Before, Lead, Due
    <2> QED
      BY <2>1, <2>3, <2>4, <2>5, <2>6 DEF Follows
  <1>11. ASSUME NEW u \in Units, Commit(u) PROVE Follows'
    <2>1. UNCHANGED <<config, leader, dek, mishaps>> /\ leader \in Units
      BY <1>11 DEF Commit, TypeOK
    <2>2. /\ hook[u].at = "commit" /\ hook'[u].at = "idle" /\ stored'[u] = hook[u].new
          /\ \A v \in Units \ {u} : hook'[v] = hook[v] /\ stored'[v] = stored[v]
      BY <1>11 DEF Commit, TypeOK, Idle
    <2>3. Current => Current'
      BY <2>1, <2>2 DEF Current
    <2>4. CASE u # leader
      <3>1. Lead' = Lead /\ stored'[leader] = stored[leader]
        BY <2>1, <2>2, <2>4 DEF Lead
      <3>2. Leading => Leading'
        BY <2>1, <3>1 DEF Leading, Due
      <3>3. Wrapping => Wrapping'
        BY <2>1, <3>1 DEF Wrapping, Due
      <3>4. Before => Before'
        BY <2>1, <3>1 DEF Before, Due
      <3> QED
        BY <2>1, <2>3, <3>2, <3>3, <3>4 DEF Follows
    <2>5. CASE u = leader
      <3> SUFFICES ASSUME mishaps \subseteq {"broken off"}
                   PROVE  (Current /\ Leading /\ Wrapping /\ Before)'
        BY <2>1 DEF Follows
      <3>1. Current /\ Leading /\ Wrapping
        BY DEF Follows
      <3>2. stored'[leader'] = config' /\ ~Due'
        BY <2>1, <2>2, <2>5, <3>1 DEF Current, Due
      <3>3. dek \in Deks /\ (dek # NoDek => dek.key \in Keys)
        BY DEF TypeOK, Deks
      <3>4. dek # NoDek => dek.key = config /\ dek.provider # "local:new"
        <4>1. CASE Lead.kind = "plain"
          <5>1. stored[leader] \in {NoKey, config} \/ config = NoKey
            BY <2>2, <2>5, <3>1, <4>1 DEF Lead, Leading, Due
          <5> QED
            BY <3>1, <3>3, <5>1, NoKeyIsNone DEF Wrapping, Due
        <4>2. CASE Lead.kind # "plain"
          BY <2>2, <2>5, <3>1, <4>2 DEF Lead, Leading
        <4> QED
          BY <4>1, <4>2
      <3>5. Leading'
        BY <2>1, <2>2, <2>5 DEF Leading, Lead
      <3>6. Wrapping'
        BY <2>1, <3>1, <3>4, NoDekProvider DEF Wrapping
      <3>7. Before'
        BY <3>2 DEF Before
      <3> QED
        BY <2>3, <3>1, <3>5, <3>6, <3>7
    <2> QED
      BY <2>4, <2>5
  <1>12. ASSUME NEW u \in Units, PebbleReady(u) PROVE Follows'
    BY <1>12, FollowsStays DEF PebbleReady
  <1>13. ASSUME NEW u \in Units, RelationChanged(u) PROVE Follows'
    BY <1>13, FollowsStays DEF RelationChanged
  <1>14. ASSUME NEW u \in Units, SetupMongoStore(u) PROVE Follows'
    <2> SUFFICES ASSUME mishaps' \subseteq {"broken off"}
                 PROVE  (Current /\ Leading /\ Wrapping /\ Before)'
      BY DEF Follows
    <2>1. UNCHANGED <<config, leader, hook, stored>> /\ leader \in Units
      BY <1>14 DEF SetupMongoStore, TypeOK
    <2>2. mishaps \subseteq {"broken off"} /\ server[u] = config /\ ~Due /\ config # NoKey
      BY <1>14 DEF SetupMongoStore, Note, Due
    <2>3. dek'.provider = "local" /\ dek'.key = config
      BY <1>14, <2>2 DEF SetupMongoStore
    <2>4. Current /\ Leading /\ Wrapping
      BY <2>2 DEF Follows
    <2>5. Current'
      BY <2>1, <2>4 DEF Current
    <2>6. Leading'
      BY <2>1, <2>2, <2>3, <2>4 DEF Leading, Lead, Due
    <2>7. Wrapping'
      BY <2>1, <2>2, <2>3 DEF Wrapping
    <2>8. Before'
      BY <2>1, <2>2 DEF Before, Due
    <2> QED
      BY <2>5, <2>6, <2>7, <2>8
  <1>15. CASE UNCHANGED vars
    BY <1>15, FollowsStays DEF vars
  <1> QED
    BY <1>1, <1>2, <1>3, <1>4, <1>5, <1>6, <1>7, <1>8, <1>9, <1>10, <1>11, <1>12, <1>13,
       <1>14, <1>15 DEF Next

LEMMA FollowsInit == Init => Follows
  <1> SUFFICES ASSUME Init PROVE Follows
    OBVIOUS
  <1>1. \A u \in Units : hook[u] = Idle /\ stored[u] = NoKey
    BY DEF Init
  <1>2. Idle.at = "idle" /\ leader \in Units /\ dek = NoDek /\ config = NoKey
    BY DEF Init, Idle
  <1>3. \A u \in Units : hook[u].at = "idle"
    BY <1>1, <1>2
  <1>4. Current
    BY <1>3 DEF Current
  <1>5. Leading /\ Wrapping /\ Before
    BY <1>2, <1>3, NoDekProvider DEF Leading, Wrapping, Before, Lead
  <1> QED
    BY <1>4, <1>5 DEF Follows

-----------------------------------------------------------------------------
THEOREM Invariance == Spec => []IInv
  <1>1. Init => IInv
    BY TypeInit, FollowsInit DEF IInv
  <1>2. IInv /\ [Next]_vars => IInv'
    BY TypeNext, FollowsNext DEF IInv
  <1> QED
    BY <1>1, <1>2, PTL DEF Spec

\* No key that the DEK is wrapped with is forgotten, for any number of units,
\* changes and failures.
THEOREM KeysAreKept == Spec => []NoKeyIsLost
  <1>1. IInv => NoKeyIsLost
    BY DEF IInv, Follows, Wrapping, NoKeyIsLost
  <1> QED
    BY <1>1, Invariance, PTL

\* What was begun can be completed by retry-key-rotation.
THEOREM RotationsCanBeRetried == Spec => []RetryWorks
  <1>1. IInv => RetryWorks
    <2> SUFFICES ASSUME IInv, mishaps = {}, IdleUnit(leader), config # NoKey, Due
                 PROVE  Opens(stored[leader], config)
      BY DEF RetryWorks, Due
    <2>1. Wrapping /\ Before
      BY DEF IInv, Follows
    <2>2. Lead.at = "idle"
      BY DEF IdleUnit, Lead
    <2>3. dek = NoDek \/ dek.provider \in {"local", "local:new"}
      BY DEF IInv, TypeOK, Deks
    <2> QED
      BY <2>1, <2>2, <2>3 DEF Opens, Wrapping, Before
  <1> QED
    BY <1>1, Invariance, PTL
=============================================================================
