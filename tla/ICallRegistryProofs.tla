------------------------- MODULE ICallRegistryProofs -------------------------
(***************************************************************************)
(* The registry of internal calls keeps its promises for every number of   *)
(* threads, names and registrations.                                       *)
(***************************************************************************)
EXTENDS ICallRegistry, FiniteSetTheorems, TLAPS

\* In AddInternalCall, with the mutex or waiting for it.
Holding == {"intercept", "table", "mono"}
Calling == Holding \cup {"lock"}
Named == Calling \cup {"check", "queue"}

\* Who is where, who holds the mutex, and how far InitMono is.
Places ==
  /\ \A t \in Threads : pc[t] \in Named \cup {"idle"}
  /\ pc[Initial] \in Calling \cup {"ready", "override", "begin", "flush", "done"}
  /\ \A x \in Actors : lock = x <=> pc[x] \in Holding
  /\ ready <=> pc[Initial] # "ready"
  /\ pc[Initial] \in {"flush", "done"} => flushing
  /\ flushing => pc[Initial] \in Calling \cup {"flush", "done"}
  /\ ~ready => DOMAIN table = {} /\ \A x \in Actors : pc[x] \notin Calling

\* What the actors register: an interceptor only with an original.
Arguments ==
  \A x \in Actors :
    /\ IF pc[x] \in Named THEN name[x] \in Names ELSE name[x] = None
    /\ pc[x] \in {"check", "queue"} => method[x] \in Methods
    /\ pc[x] \in {"lock", "intercept"} => method[x] \in Methods \cup {Own}
    /\ pc[x] \in {"table", "mono"} =>
         \/ method[x] \in Methods \cup {Own}
         \/ method[x] \in HooksOf(name[x]) /\ original[method[x]] # None

\* Mono is one registration behind the table only under the mutex.
Agreement ==
  IF lock # None /\ pc[lock] = "mono" THEN table = Put(mono, name[lock], method[lock])
                                      ELSE table = mono

\* An interceptor in a table has an original.
Originals ==
  \A n \in Names : \A f \in {table, mono} :
    n \in DOMAIN f /\ f[n] \in Hooks => original[f[n]] # None

\* A name hooked before its first registration is only registered as hooked.
Preempted ==
  \A n \in preempted :
    /\ n \in DOMAIN interceptor
    /\ n \in DOMAIN table => table[n] \in HooksOf(n)
    /\ \A x \in Actors : name[x] = n /\ pc[x] \in {"table", "mono"} => method[x] \in HooksOf(n)

\* A name that is not pending shows the interceptor installed last, or is
\* about to.
Installed ==
  \A n \in DOMAIN interceptor :
    /\ interceptor[n] \in HooksOf(n)
    /\ n \notin pending =>
         /\ n \in DOMAIN table =>
              table[n] = interceptor[n] \/ (lock # None /\ pc[lock] = "table" /\ name[lock] = n)
         /\ \A x \in Actors : name[x] = n /\ pc[x] \in {"table", "mono"} => method[x] = interceptor[n]

Shows(n) == \/ table[n] = direct[n]
            \/ table[n] \in HooksOf(n) /\ original[table[n]] = direct[n]

\* The flush is on its way to registering n.
Flushing(n) == flushing /\ name[Initial] = n /\ pc[Initial] \in {"lock", "intercept", "table"}

\* The table shows what was registered directly, but for the name that is
\* being registered; the flush only gets to a name before it is.
Directly ==
  /\ DOMAIN direct \subseteq DOMAIN table
  /\ \A n \in DOMAIN direct \ overtaken :
       /\ Shows(n) \/ (lock # None /\ pc[lock] = "table" /\ name[lock] = n)
       /\ ~Flushing(n)

\* What was queued in time is in the queue, then found by the flush, then in
\* the table, with the method queued last unless somebody else registers.
Queued ==
  \A n \in DOMAIN early :
    /\ pc[Initial] # "done" => n \in DOMAIN queue /\ (n \notin late => queue[n] = early[n])
    /\ flushing => n \in todo \/ n \in DOMAIN table \/ Flushing(n)
    /\ pc[Initial] = "done" => todo = {}
    /\ n \notin DOMAIN interceptor \cup late =>
         /\ Flushing(n) => method[Initial] = early[n]
         /\ n \in DOMAIN table \ DOMAIN direct => table[n] = early[n]

\* The inductive invariant.
RegistryInv == /\ TypeOK /\ Places /\ Arguments /\ Agreement /\ Originals
               /\ Preempted /\ Installed /\ Directly /\ Queued

-----------------------------------------------------------------------------
(* The steps of AddInternalCall                                            *)

LEMMA ActorFacts == /\ Initial \in Actors /\ Initial \notin Threads
                    /\ \A t \in Threads : t \in Actors
                    /\ None \notin Actors /\ None \notin Names /\ None \notin Methods
                    /\ Own # None
                    /\ \A n \in Names : HooksOf(n) \subseteq Hooks
                    /\ \A h \in Hooks : h # None /\ h # Own /\ h \notin Methods /\ h \in AnyMethod
  BY RegistryAssumption DEF Actors, AnyMethod, Hooks

LEMMA HooksDiffer ==
  ASSUME NEW n, NEW k, NEW h, h \in HooksOf(n), h \in HooksOf(k)
  PROVE  n = k
<1>1. PICK m, q : h = <<"interceptor", n, m>> /\ h = <<"interceptor", k, q>>
  BY DEF HooksOf, Hook
<1>2. h[2] = n /\ h[2] = k
  BY <1>1
<1>3. QED
  BY <1>2

LEMMA LockKeeps ==
  ASSUME RegistryInv, NEW x \in Actors, Lock(x)
  PROVE  RegistryInv'
<1> USE ActorFacts DEF RegistryInv
<1>1. /\ pc[x] = "lock" /\ lock = None /\ lock' = x
      /\ pc' = [pc EXCEPT ![x] = "intercept"]
      /\ UNCHANGED <<name, method, calls, ios, ready, queue, table, mono, hooks, flush, ghosts>>
  BY DEF Lock, At, Goto
<1> USE DEF hooks, flush, ghosts
<1>2. TypeOK'
  BY <1>1 DEF TypeOK, Partial, Stages
<1>3. pc'[x] = "intercept" /\ \A y \in Actors : y # x => pc'[y] = pc[y]
  BY <1>1 DEF TypeOK
<1>4. Places'
  BY <1>1, <1>3 DEF Places, Holding, Calling, Named
<1>5. Arguments'
  BY <1>1, <1>3 DEF Arguments, Holding, Calling, Named
<1>6. Agreement'
  BY <1>1, <1>3 DEF Agreement
<1>7. Originals'
  BY <1>1 DEF Originals
<1>8. Preempted'
  BY <1>1, <1>3 DEF Preempted
<1>9. \A n : Flushing(n)' => Flushing(n)
  BY <1>1, <1>3 DEF Flushing
<1>10. Directly' /\ Installed'
  BY <1>1, <1>3, <1>9 DEF Directly, Installed, Shows
<1>11. Queued'
  BY <1>1, <1>3, <1>9 DEF Queued, Flushing, Places
<1>12. QED
  BY <1>2, <1>4, <1>5, <1>6, <1>7, <1>8, <1>10, <1>11

LEMMA InterceptKeeps ==
  ASSUME RegistryInv, NEW x \in Actors, Intercept(x)
  PROVE  RegistryInv'
<1> USE ActorFacts DEF RegistryInv
<1>1. /\ pc[x] = "intercept" /\ pc' = [pc EXCEPT ![x] = "table"]
      /\ IF name[x] \in DOMAIN interceptor
         THEN /\ original' = [original EXCEPT ![interceptor[name[x]]] = method[x]]
              /\ method' = [method EXCEPT ![x] = interceptor[name[x]]]
         ELSE UNCHANGED <<original, method>>
      /\ pending' = pending \ {name[x]}
      /\ UNCHANGED <<name, calls, ios, ready, queue, table, mono, lock, interceptor, flush,
                     early, late, direct, overtaken, preempted>>
  BY DEF Intercept, Looked, At, Goto, registry
<1> USE DEF flush
<1>2. name[x] \in Names /\ method[x] \in Methods \cup {Own} /\ lock = x
  BY <1>1 DEF Arguments, Places, Holding, Calling, Named
<1>0. PICK k, h : k = name[x] /\ h = interceptor[name[x]]
  OBVIOUS
<1>15. k \in DOMAIN interceptor => h \in HooksOf(k) /\ h \in Hooks
  BY <1>0, <1>2 DEF Installed
<1>3. TypeOK'
  <2>1. pc' \in [Actors -> Stages]
    BY <1>1 DEF TypeOK, Stages
  <2>2. method' \in [Actors -> AnyMethod \cup {None}] /\ original' \in [Hooks -> Methods \cup {Own, None}]
    BY <1>0, <1>1, <1>2, <1>15 DEF TypeOK
  <2>3. pending' \subseteq Names
    BY <1>1 DEF TypeOK
  <2>4. QED
    BY <1>1, <2>1, <2>2, <2>3 DEF TypeOK, Partial
<1>4. /\ pc'[x] = "table" /\ \A y \in Actors : y # x => pc'[y] = pc[y]
      /\ method'[x] = (IF k \in DOMAIN interceptor THEN h ELSE method[x])
      /\ \A y \in Actors : y # x => method'[y] = method[y]
      /\ k \in DOMAIN interceptor => original'[h] = method[x]
      /\ \A g \in Hooks : g # h \/ k \notin DOMAIN interceptor => original'[g] = original[g]
  BY <1>0, <1>1, <1>2, <1>15 DEF TypeOK
<1>5. \A g \in Hooks : original[g] # None => original'[g] # None
  BY <1>2, <1>4
<1>6. Places'
  BY <1>1, <1>4 DEF Places, Holding, Calling, Named
<1>7. Arguments'
  BY <1>0, <1>1, <1>2, <1>4, <1>5, <1>15 DEF Arguments, Holding, Calling, Named
<1>8. Agreement'
  BY <1>1, <1>2, <1>4 DEF Agreement
<1>9. Originals'
  BY <1>1, <1>5 DEF Originals
<1>10. Preempted'
  BY <1>0, <1>1, <1>2, <1>4, <1>15 DEF Preempted, Places, Holding
<1>11. \A n : Flushing(n)' => Flushing(n)
  BY <1>1, <1>4 DEF Flushing
<1>12. Directly'
  <2>1. ASSUME NEW n \in DOMAIN direct \ overtaken, n # k, Shows(n)
        PROVE  Shows(n)'
    <3>1. n \in Names
      BY DEF TypeOK, Partial
    <3>2. CASE table[n] = direct[n]
      BY <1>1, <3>2 DEF Shows
    <3>3. CASE table[n] \in HooksOf(n) /\ original[table[n]] = direct[n]
      <4>1. table[n] # h \/ k \notin DOMAIN interceptor
        BY <1>15, <2>1, <3>1, <3>3, HooksDiffer, <1>0, <1>2
      <4>2. table[n] \in Hooks
        BY <3>1, <3>3
      <4>3. original'[table[n]] = original[table[n]]
        BY <1>4, <4>1, <4>2
      <4>4. QED
        BY <1>1, <3>3, <4>3 DEF Shows
    <3>4. QED
      BY <2>1, <3>2, <3>3 DEF Shows
  <2>2. \A n \in DOMAIN direct \ overtaken : n # k => Shows(n)
    BY <1>0, <1>1, <1>2 DEF Directly
  <2>3. lock' = x /\ pc'[x] = "table" /\ name'[x] = k /\ x # None
    BY <1>0, <1>1, <1>2, <1>4
  <2>4. QED
    BY <1>1, <1>11, <2>1, <2>2, <2>3 DEF Directly
<1>13. Queued'
  BY <1>1, <1>4, <1>11 DEF Queued, Flushing, Places
<1>16. Installed'
  BY <1>0, <1>1, <1>2, <1>4, <1>15 DEF Installed, Places, Holding
<1>14. QED
  BY <1>3, <1>6, <1>7, <1>8, <1>9, <1>10, <1>12, <1>13, <1>16

LEMMA PutPartial ==
  ASSUME NEW f, NEW n \in Names, NEW S, NEW v \in S, Partial(f, S)
  PROVE  Partial(Put(f, n, v), S)
  BY DEF Partial, Put

LEMMA SetTableKeeps ==
  ASSUME RegistryInv, NEW x \in Actors, SetTable(x)
  PROVE  RegistryInv'
<1> USE ActorFacts DEF RegistryInv
<1>0. PICK k, v : k = name[x] /\ v = method[x]
  OBVIOUS
<1>1. /\ pc[x] = "table" /\ pc' = [pc EXCEPT ![x] = "mono"]
      /\ table' = Put(table, k, v)
      /\ overtaken' = IF Flushes(Initial) /\ x # Initial /\ name[Initial] = k
                      THEN overtaken \cup {k}
                      ELSE IF Flushes(x) THEN overtaken ELSE overtaken \ {k}
      /\ direct' = IF Flushes(x) THEN direct
                   ELSE Put(direct, k, IF v \in Hooks THEN original[v] ELSE v)
      /\ UNCHANGED <<name, method, calls, ios, ready, queue, mono, lock, hooks, flush, early, late,
                     preempted, pending>>
  BY <1>0 DEF SetTable, At, Goto
<1> USE DEF flush, hooks
<1>2. /\ k \in Names /\ lock = x
      /\ v \in Methods \cup {Own} \/ (v \in HooksOf(k) /\ original[v] # None)
  BY <1>0, <1>1 DEF Arguments, Places, Holding, Calling, Named
<1>3. /\ DOMAIN table' = DOMAIN table \cup {k} /\ table'[k] = v
      /\ \A n \in DOMAIN table : n # k => table'[n] = table[n]
  <2>1. table' = Put(table, k, v)
    BY <1>1
  <2>2. QED
    BY <2>1 DEF Put
<1>4. PICK d : d = IF v \in Hooks THEN original[v] ELSE v
  OBVIOUS
<1>5. d \in Methods \cup {Own}
  BY <1>2, <1>4 DEF TypeOK
<1>6. IF Flushes(x) THEN direct' = direct
      ELSE /\ DOMAIN direct' = DOMAIN direct \cup {k} /\ direct'[k] = d
           /\ \A n \in DOMAIN direct : n # k => direct'[n] = direct[n]
  <2>1. direct' = IF Flushes(x) THEN direct ELSE Put(direct, k, d)
    BY <1>1, <1>4
  <2>2. QED
    BY <2>1 DEF Put
<1>7. pc'[x] = "mono" /\ \A y \in Actors : y # x => pc'[y] = pc[y]
  BY <1>1 DEF TypeOK
<1>8. TypeOK'
  <2>1. pc' \in [Actors -> Stages]
    BY <1>1 DEF TypeOK, Stages
  <2>2. Partial(table', AnyMethod)
    BY <1>1, <1>2, PutPartial DEF TypeOK, AnyMethod
  <2>3. Partial(direct', Methods \cup {Own})
    BY <1>1, <1>2, <1>4, <1>5, PutPartial DEF TypeOK
  <2>4. overtaken' \subseteq Names
    BY <1>1, <1>2 DEF TypeOK
  <2>5. QED
    BY <1>1, <2>1, <2>2, <2>3, <2>4 DEF TypeOK, Partial
<1>9. Places'
  BY <1>1, <1>3, <1>7 DEF Places, Holding, Calling, Named
<1>10. Arguments'
  BY <1>0, <1>1, <1>2, <1>7 DEF Arguments, Holding, Calling, Named
<1>11. Agreement'
  BY <1>0, <1>1, <1>2, <1>7 DEF Agreement
<1>12. Originals'
  BY <1>1, <1>2, <1>3 DEF Originals
<1>13. Preempted'
  BY <1>0, <1>1, <1>3, <1>7 DEF Preempted
<1>14. \A n : Flushing(n)' => Flushing(n) /\ ~(Flushes(x) /\ n = k)
  BY <1>0, <1>1, <1>7 DEF Flushing, Flushes
<1>15. Flushes(x) => Flushing(k)
  BY <1>0, <1>1 DEF Flushes, Flushing
<1>16. Directly'
  <2>1. DOMAIN direct' \subseteq DOMAIN table'
    BY <1>3, <1>6 DEF Directly
  <2>2. ASSUME NEW n \in DOMAIN direct' \ overtaken'
        PROVE  Shows(n)' /\ ~Flushing(n)'
    <3>1. CASE n = k
      <4>1. CASE Flushes(x)
        <5>1. n \in DOMAIN direct \ overtaken
          BY <1>1, <1>6, <2>2, <4>1 DEF Flushes
        <5>2. QED
          BY <1>15, <3>1, <4>1, <5>1 DEF Directly
      <4>2. CASE ~Flushes(x)
        <5>1. Shows(n)'
          <6>1. table'[k] = v /\ direct'[k] = d
            BY <1>3, <1>6, <4>2
          <6>2. CASE v \in HooksOf(k) /\ original[v] # None
            BY <1>1, <1>2, <1>4, <3>1, <6>1, <6>2 DEF Shows
          <6>3. CASE v \in Methods \cup {Own}
            BY <1>4, <3>1, <6>1, <6>3 DEF Shows
          <6>4. QED
            BY <1>2, <6>2, <6>3
        <5>2. ~Flushing(n)'
          BY <1>0, <1>1, <1>7, <2>2, <3>1, <4>2 DEF Flushing, Flushes
        <5>3. QED
          BY <5>1, <5>2
      <4>3. QED
        BY <4>1, <4>2
    <3>2. CASE n # k
      <4>1. n \in DOMAIN direct \ overtaken /\ n \in DOMAIN table
        BY <1>1, <1>6, <2>2, <3>2 DEF Directly
      <4>2. Shows(n) /\ ~Flushing(n)
        BY <1>0, <1>2, <3>2, <4>1 DEF Directly
      <4>3. Shows(n)'
        BY <1>1, <1>3, <1>6, <3>2, <4>1, <4>2 DEF Shows
      <4>4. QED
        BY <1>14, <4>2, <4>3
    <3>3. QED
      BY <3>1, <3>2
  <2>3. QED
    BY <2>1, <2>2 DEF Directly
<1>17. Queued'
  <2>1. ASSUME NEW n \in DOMAIN early
        PROVE  /\ pc'[Initial] # "done" => n \in DOMAIN queue /\ (n \notin late => queue[n] = early[n])
               /\ flushing => n \in todo \/ n \in DOMAIN table' \/ Flushing(n)'
               /\ pc'[Initial] = "done" => todo = {}
               /\ n \notin DOMAIN interceptor \cup late =>
                    /\ Flushing(n)' => method[Initial] = early[n]
                    /\ n \in DOMAIN table' \ DOMAIN direct' => table'[n] = early[n]
    <3>1. /\ pc'[Initial] # "done" => n \in DOMAIN queue /\ (n \notin late => queue[n] = early[n])
          /\ pc'[Initial] = "done" => todo = {}
      BY <1>1, <1>7 DEF Queued
    <3>2. flushing => n \in todo \/ n \in DOMAIN table' \/ Flushing(n)'
      BY <1>0, <1>1, <1>3, <1>7 DEF Queued, Flushing
    <3>3. n \notin DOMAIN interceptor \cup late /\ Flushing(n)' => method[Initial] = early[n]
      BY <1>14 DEF Queued
    <3>4. ASSUME n \notin DOMAIN interceptor \cup late, n \in DOMAIN table' \ DOMAIN direct'
          PROVE  table'[n] = early[n]
      <4>1. CASE n = k
        BY <1>0, <1>3, <1>6, <1>15, <3>4, <4>1 DEF Queued, Flushes
      <4>2. CASE n # k
        BY <1>3, <1>6, <3>4, <4>2 DEF Queued
      <4>3. QED
        BY <4>1, <4>2
    <3>5. QED
      BY <3>1, <3>2, <3>3, <3>4
  <2>2. QED
    BY <1>1, <2>1 DEF Queued
<1>19. Installed'
  BY <1>0, <1>1, <1>2, <1>3, <1>7 DEF Installed, Places, Holding
<1>18. QED
  BY <1>8, <1>9, <1>10, <1>11, <1>12, <1>13, <1>16, <1>17, <1>19

LEMMA SetMonoKeeps ==
  ASSUME RegistryInv, NEW x \in Actors, SetMono(x)
  PROVE  RegistryInv'
<1> USE ActorFacts DEF RegistryInv
<1>0. PICK k, v : k = name[x] /\ v = method[x]
  OBVIOUS
<1>1. /\ pc[x] = "mono" /\ pc' = [pc EXCEPT ![x] = Back(x)]
      /\ mono' = Put(mono, k, v)
      /\ lock' = None
      /\ name' = [name EXCEPT ![x] = None]
      /\ method' = [method EXCEPT ![x] = None]
      /\ UNCHANGED <<calls, ios, ready, queue, table, hooks, flush, ghosts>>
  BY <1>0 DEF SetMono, At, Goto
<1> USE DEF flush, hooks, ghosts
<1>2. /\ k \in Names /\ lock = x /\ lock \in Actors
      /\ v \in Methods \cup {Own} \/ (v \in HooksOf(k) /\ original[v] # None)
  BY <1>0, <1>1 DEF Arguments, Places, Holding, Calling, Named
<1>3. table = Put(mono, k, v)
  BY <1>0, <1>1, <1>2 DEF Agreement
<1>4. mono' = table
  BY <1>1, <1>3
<1>5. /\ pc'[x] = Back(x) /\ name'[x] = None
      /\ \A y \in Actors : y # x => pc'[y] = pc[y] /\ name'[y] = name[y] /\ method'[y] = method[y]
  BY <1>1 DEF TypeOK
<1>6. Back(x) \in {"idle", "flush", "begin"} /\ (x # Initial => Back(x) = "idle")
      /\ (x = Initial => Back(x) = IF flushing THEN "flush" ELSE "begin")
  BY DEF Back
<1>7. TypeOK'
  <2>1. pc' \in [Actors -> Stages]
    BY <1>1, <1>6 DEF TypeOK, Stages
  <2>2. name' \in [Actors -> Names \cup {None}] /\ method' \in [Actors -> AnyMethod \cup {None}]
    BY <1>1 DEF TypeOK
  <2>3. QED
    BY <1>1, <1>4, <2>1, <2>2 DEF TypeOK, Partial
<1>8. Places'
  BY <1>1, <1>2, <1>5, <1>6 DEF Places, Holding, Calling, Named
<1>9. Arguments'
  BY <1>1, <1>5, <1>6 DEF Arguments, Holding, Calling, Named
<1>10. Agreement'
  BY <1>1, <1>4 DEF Agreement
<1>11. Originals'
  BY <1>1, <1>4 DEF Originals
<1>12. Preempted'
  BY <1>1, <1>5, <1>6 DEF Preempted
<1>13. \A n : Flushing(n)' => Flushing(n)
  BY <1>1, <1>5, <1>6 DEF Flushing
<1>14. Directly' /\ Installed'
  <2>1. Directly'
    BY <1>1, <1>2, <1>13 DEF Directly, Shows
  <2>2. pc[lock] = "mono"
    BY <1>1, <1>2
  <2>3. \A y \in Actors : pc'[y] \in {"table", "mono"}
                            => pc[y] \in {"table", "mono"} /\ name'[y] = name[y] /\ method'[y] = method[y]
    BY <1>5, <1>6
  <2>4. Installed'
    BY <1>1, <2>2, <2>3 DEF Installed
  <2>5. QED
    BY <2>1, <2>4
<1>15. Queued'
  <2>1. \A n \in Names : Flushing(n) => Flushing(n)'
    BY <1>1, <1>5 DEF Flushing
  <2>2. method'[Initial] = method[Initial] \/ \A n : ~Flushing(n)'
    BY <1>1, <1>5, <1>6 DEF Flushing
  <2>3. pc'[Initial] = "done" <=> pc[Initial] = "done"
    BY <1>1, <1>5, <1>6
  <2>4. QED
    BY <1>1, <1>13, <2>1, <2>2, <2>3 DEF Queued, TypeOK, Partial
<1>16. QED
  BY <1>7, <1>8, <1>9, <1>10, <1>11, <1>12, <1>14, <1>15

-----------------------------------------------------------------------------
(* The other steps of the threads and the mods                             *)

\* A step before or after AddInternalCall that changes no table.
LEMMA BeginKeeps ==
  ASSUME RegistryInv, NEW t \in Threads, NEW n \in Names, NEW m \in Methods, Begin(t, n, m)
  PROVE  RegistryInv'
<1> USE ActorFacts DEF RegistryInv
<1>1. /\ pc[t] = "idle" /\ calls[t] < MaxCalls
      /\ pc' = [pc EXCEPT ![t] = "check"]
      /\ calls' = [calls EXCEPT ![t] = calls[t] + 1]
      /\ name' = [name EXCEPT ![t] = n]
      /\ method' = [method EXCEPT ![t] = m]
      /\ UNCHANGED <<ios, ready, queue, table, mono, lock, hooks, flush, ghosts>>
  BY DEF Begin, At, Goto, registry
<1> USE DEF hooks, flush, ghosts
<1>2. TypeOK'
  <2>1. pc' \in [Actors -> Stages]
    BY <1>1 DEF TypeOK, Stages
  <2>2. calls' \in [Threads -> 0 .. MaxCalls]
    BY <1>1, RegistryAssumption DEF TypeOK
  <2>3. name' \in [Actors -> Names \cup {None}] /\ method' \in [Actors -> AnyMethod \cup {None}]
    BY <1>1 DEF TypeOK, AnyMethod
  <2>4. QED
    BY <1>1, <2>1, <2>2, <2>3 DEF TypeOK, Partial
<1>3. /\ pc'[t] = "check" /\ name'[t] = n /\ method'[t] = m /\ t # Initial
      /\ \A y \in Actors : y # t => pc'[y] = pc[y] /\ name'[y] = name[y] /\ method'[y] = method[y]
  BY <1>1 DEF TypeOK
<1>4. Places'
  BY <1>1, <1>3 DEF Places, Holding, Calling, Named
<1>5. Arguments'
  BY <1>1, <1>3 DEF Arguments, Holding, Calling, Named
<1>6. Agreement'
  BY <1>1, <1>3 DEF Agreement, Places, Holding, TypeOK
<1>7. Originals'
  BY <1>1 DEF Originals
<1>8. Preempted'
  BY <1>1, <1>3 DEF Preempted
<1>9. \A k : Flushing(k)' <=> Flushing(k)
  BY <1>1, <1>3 DEF Flushing
<1>10. Directly' /\ Installed'
  BY <1>1, <1>3, <1>9 DEF Directly, Installed, Shows, Places, Holding, TypeOK
<1>11. Queued'
  BY <1>1, <1>3, <1>9 DEF Queued
<1>12. QED
  BY <1>2, <1>4, <1>5, <1>6, <1>7, <1>8, <1>10, <1>11

LEMMA CheckReadyKeeps ==
  ASSUME RegistryInv, NEW t \in Threads, CheckReady(t)
  PROVE  RegistryInv'
<1> USE ActorFacts DEF RegistryInv
<1>1. /\ pc[t] = "check" /\ pc' = [pc EXCEPT ![t] = IF ready THEN "lock" ELSE "queue"]
      /\ UNCHANGED <<name, method, calls, ios, ready, queue, table, mono, lock, hooks, flush, ghosts>>
  BY DEF CheckReady, At, Goto, registry
<1> USE DEF hooks, flush, ghosts
<1>2. TypeOK'
  <2>1. pc' \in [Actors -> Stages]
    BY <1>1 DEF TypeOK, Stages
  <2>2. QED
    BY <1>1, <2>1 DEF TypeOK, Partial
<1>3. /\ pc'[t] = (IF ready THEN "lock" ELSE "queue") /\ t # Initial
      /\ \A y \in Actors : y # t => pc'[y] = pc[y]
  BY <1>1 DEF TypeOK
<1>4. Places'
  BY <1>1, <1>3 DEF Places, Holding, Calling, Named
<1>5. Arguments'
  BY <1>1, <1>3 DEF Arguments, Holding, Calling, Named
<1>6. Agreement'
  BY <1>1, <1>3 DEF Agreement, Places, Holding, TypeOK
<1>7. Originals'
  BY <1>1 DEF Originals
<1>8. Preempted'
  BY <1>1, <1>3 DEF Preempted
<1>9. \A k : Flushing(k)' <=> Flushing(k)
  BY <1>1, <1>3 DEF Flushing
<1>10. Directly' /\ Installed'
  BY <1>1, <1>3, <1>9 DEF Directly, Installed, Shows, Places, Holding, TypeOK
<1>11. Queued'
  BY <1>1, <1>3, <1>9 DEF Queued
<1>12. QED
  BY <1>2, <1>4, <1>5, <1>6, <1>7, <1>8, <1>10, <1>11

LEMMA EnqueueKeeps ==
  ASSUME RegistryInv, NEW t \in Threads, Enqueue(t)
  PROVE  RegistryInv'
<1> USE ActorFacts DEF RegistryInv
<1>0. PICK k, m : k = name[t] /\ m = method[t]
  OBVIOUS
<1>1. /\ pc[t] = "queue" /\ pc' = [pc EXCEPT ![t] = "idle"]
      /\ queue' = Put(queue, k, m)
      /\ early' = IF ready THEN early ELSE Put(early, k, m)
      /\ late' = IF ready THEN late \cup {k} ELSE late
      /\ name' = [name EXCEPT ![t] = None]
      /\ method' = [method EXCEPT ![t] = None]
      /\ UNCHANGED <<calls, ios, ready, table, mono, lock, hooks, flush, direct, overtaken, preempted,
                     pending>>
  BY <1>0 DEF Enqueue, At, Goto
<1> USE DEF hooks, flush
<1>2. k \in Names /\ m \in Methods
  BY <1>0, <1>1 DEF Arguments, Holding, Calling, Named
<1>3. TypeOK'
  <2>1. pc' \in [Actors -> Stages]
    BY <1>1 DEF TypeOK, Stages
  <2>2. name' \in [Actors -> Names \cup {None}] /\ method' \in [Actors -> AnyMethod \cup {None}]
    BY <1>1 DEF TypeOK
  <2>3. Partial(queue', Methods)
    BY <1>1, <1>2, PutPartial DEF TypeOK
  <2>4. Partial(early', Methods)
    BY <1>1, <1>2, PutPartial DEF TypeOK
  <2>5. late' \subseteq Names
    BY <1>1, <1>2 DEF TypeOK
  <2>6. QED
    BY <1>1, <2>1, <2>2, <2>3, <2>4, <2>5 DEF TypeOK, Partial
<1>4. /\ pc'[t] = "idle" /\ name'[t] = None /\ t # Initial
      /\ \A y \in Actors : y # t => pc'[y] = pc[y] /\ name'[y] = name[y] /\ method'[y] = method[y]
  BY <1>1 DEF TypeOK
<1>5. Places'
  BY <1>1, <1>4 DEF Places, Holding, Calling, Named
<1>6. Arguments'
  BY <1>1, <1>4 DEF Arguments, Holding, Calling, Named
<1>7. Agreement'
  BY <1>1, <1>4 DEF Agreement, Places, Holding, TypeOK
<1>8. Originals'
  BY <1>1 DEF Originals
<1>9. Preempted'
  BY <1>1, <1>4 DEF Preempted
<1>10. \A n : Flushing(n)' <=> Flushing(n)
  BY <1>1, <1>4 DEF Flushing
<1>11. Directly' /\ Installed'
  BY <1>1, <1>4, <1>10 DEF Directly, Installed, Shows, Places, Holding, TypeOK
<1>12. /\ DOMAIN queue' = DOMAIN queue \cup {k} /\ queue'[k] = m
       /\ \A n \in DOMAIN queue : n # k => queue'[n] = queue[n]
  BY <1>1 DEF Put
<1>13. CASE ready
  <2>1. early' = early /\ late' = late \cup {k}
    BY <1>1, <1>13
  <2>2. Queued'
    BY <1>1, <1>4, <1>10, <1>12, <2>1 DEF Queued
  <2>3. QED
    BY <1>3, <1>5, <1>6, <1>7, <1>8, <1>9, <1>11, <2>2
<1>14. CASE ~ready
  <2>1. /\ DOMAIN early' = DOMAIN early \cup {k} /\ early'[k] = m
        /\ \A n \in DOMAIN early : n # k => early'[n] = early[n]
    BY <1>1, <1>14 DEF Put
  <2>2. pc'[Initial] = "ready" /\ ~flushing /\ DOMAIN table = {} /\ late' = late
    BY <1>1, <1>4, <1>14 DEF Places, Holding, Calling
  <2>3. Queued'
    BY <1>1, <1>10, <1>12, <2>1, <2>2 DEF Queued, Flushing
  <2>4. QED
    BY <1>3, <1>5, <1>6, <1>7, <1>8, <1>9, <1>11, <2>3
<1>15. QED
  BY <1>13, <1>14

LEMMA AddInterceptorKeeps ==
  ASSUME RegistryInv, NEW n \in Names, NEW mod \in Mods[n], AddInterceptor(n, mod)
  PROVE  RegistryInv'
<1> USE ActorFacts DEF RegistryInv
<1>0. PICK h : h = Hook(n, mod)
  OBVIOUS
<1>1. /\ interceptor' = Put(interceptor, n, h)
      /\ preempted' = IF Registering(n) THEN preempted ELSE preempted \cup {n}
      /\ pending' = IF Registering(n) THEN pending \cup {n} ELSE pending
      /\ UNCHANGED <<pc, name, method, calls, ios, ready, queue, table, mono, lock, original, flush,
                     early, late, direct, overtaken>>
  BY <1>0 DEF AddInterceptor, registry
<1> USE DEF flush
<1>2. h \in HooksOf(n) /\ h \in Hooks
  BY <1>0 DEF HooksOf
<1>3. /\ DOMAIN interceptor' = DOMAIN interceptor \cup {n} /\ interceptor'[n] = h
      /\ \A k \in DOMAIN interceptor : k # n => interceptor'[k] = interceptor[k]
  <2>1. interceptor' = Put(interceptor, n, h)
    BY <1>1
  <2>2. QED
    BY <2>1 DEF Put
<1>4. TypeOK'
  <2>1. Partial(interceptor', Hooks)
    BY <1>1, <1>2, PutPartial DEF TypeOK
  <2>2. preempted' \subseteq Names /\ pending' \subseteq Names
    BY <1>1 DEF TypeOK
  <2>3. QED
    BY <1>1, <2>1, <2>2 DEF TypeOK, Partial
<1>5. Places' /\ Arguments' /\ Agreement' /\ Originals'
  BY <1>1 DEF Places, Arguments, Agreement, Originals
<1>6. Preempted'
  BY <1>1, <1>3 DEF Preempted, Registering
<1>7. Installed'
  BY <1>1, <1>2, <1>3 DEF Installed, Registering
<1>8. \A k : Flushing(k)' <=> Flushing(k)
  BY <1>1 DEF Flushing
<1>9. Directly' /\ Queued'
  BY <1>1, <1>3, <1>8 DEF Directly, Shows, Queued
<1>10. QED
  BY <1>4, <1>5, <1>6, <1>7, <1>9

-----------------------------------------------------------------------------
(* The end of InitMono                                                     *)

LEMMA SetReadyKeeps ==
  ASSUME RegistryInv, SetReady
  PROVE  RegistryInv'
<1> USE ActorFacts DEF RegistryInv
<1>1. /\ pc[Initial] = "ready" /\ pc' = [pc EXCEPT ![Initial] = "override"] /\ ready' = TRUE
      /\ UNCHANGED <<name, method, calls, ios, queue, table, mono, lock, hooks, flush, ghosts>>
  BY DEF SetReady, At, Goto
<1> USE DEF hooks, flush, ghosts
<1>2. TypeOK'
  <2>1. pc' \in [Actors -> Stages]
    BY <1>1 DEF TypeOK, Stages
  <2>2. QED
    BY <1>1, <2>1 DEF TypeOK, Partial
<1>3. pc'[Initial] = "override" /\ \A y \in Actors : y # Initial => pc'[y] = pc[y]
  BY <1>1 DEF TypeOK
<1>4. Places'
  BY <1>1, <1>3 DEF Places, Holding, Calling, Named
<1>5. Arguments'
  BY <1>1, <1>3 DEF Arguments, Holding, Calling, Named
<1>6. Agreement'
  BY <1>1, <1>3 DEF Agreement, TypeOK
<1>7. Originals' /\ Preempted'
  BY <1>1, <1>3 DEF Originals, Preempted
<1>8. \A k : ~Flushing(k)'
  BY <1>1, <1>3 DEF Flushing
<1>9. Directly' /\ Installed'
  BY <1>1, <1>3, <1>8 DEF Directly, Installed, Shows, TypeOK
<1>10. Queued'
  BY <1>1, <1>3, <1>8 DEF Queued, Flushing
<1>11. QED
  BY <1>2, <1>4, <1>5, <1>6, <1>7, <1>9, <1>10

LEMMA LoadInterceptorsKeeps ==
  ASSUME RegistryInv, LoadInterceptors
  PROVE  RegistryInv'
<1> USE ActorFacts DEF RegistryInv
<1>1. /\ pc[Initial] = "override"
      /\ IF ios THEN /\ name' = [name EXCEPT ![Initial] = Override]
                     /\ method' = [method EXCEPT ![Initial] = Own]
                     /\ pc' = [pc EXCEPT ![Initial] = "lock"]
                ELSE pc' = [pc EXCEPT ![Initial] = "begin"] /\ UNCHANGED <<name, method>>
      /\ UNCHANGED <<calls, ios, ready, queue, table, mono, lock, hooks, flush, ghosts>>
  BY DEF LoadInterceptors, At, Goto, registry
<1> USE DEF hooks, flush, ghosts
<1>2. Override \in Names /\ Own \in AnyMethod
  BY RegistryAssumption DEF AnyMethod
<1>3. TypeOK'
  <2>1. pc' \in [Actors -> Stages]
    BY <1>1 DEF TypeOK, Stages
  <2>2. name' \in [Actors -> Names \cup {None}] /\ method' \in [Actors -> AnyMethod \cup {None}]
    BY <1>1, <1>2 DEF TypeOK
  <2>3. QED
    BY <1>1, <2>1, <2>2 DEF TypeOK, Partial
<1>4. /\ pc'[Initial] = (IF ios THEN "lock" ELSE "begin")
      /\ ios => name'[Initial] = Override /\ method'[Initial] = Own
      /\ ~ios => name'[Initial] = name[Initial]
      /\ \A y \in Actors : y # Initial => pc'[y] = pc[y] /\ name'[y] = name[y] /\ method'[y] = method[y]
  BY <1>1 DEF TypeOK
<1>5. ~flushing /\ ready
  BY <1>1 DEF Places, Holding, Calling
<1>6. Places'
  BY <1>1, <1>4, <1>5 DEF Places, Holding, Calling, Named
<1>7. Arguments'
  BY <1>1, <1>2, <1>4 DEF Arguments, Holding, Calling, Named
<1>8. Agreement'
  BY <1>1, <1>4 DEF Agreement, TypeOK, Places, Holding
<1>9. Originals' /\ Preempted'
  BY <1>1, <1>4 DEF Originals, Preempted
<1>10. \A k : ~Flushing(k)' /\ ~Flushing(k)
  BY <1>1, <1>5 DEF Flushing
<1>11. Directly' /\ Installed'
  BY <1>1, <1>4, <1>10 DEF Directly, Installed, Shows, TypeOK, Places, Holding
<1>12. Queued'
  BY <1>1, <1>4, <1>5, <1>10 DEF Queued
<1>13. QED
  BY <1>3, <1>6, <1>7, <1>8, <1>9, <1>11, <1>12

LEMMA BeginFlushKeeps ==
  ASSUME RegistryInv, BeginFlush
  PROVE  RegistryInv'
<1> USE ActorFacts DEF RegistryInv
<1>1. /\ pc[Initial] = "begin" /\ pc' = [pc EXCEPT ![Initial] = "flush"]
      /\ flushing' = TRUE /\ todo' = DOMAIN queue
      /\ UNCHANGED <<name, method, calls, ios, ready, queue, table, mono, lock, hooks, ghosts>>
  BY DEF BeginFlush, At, Goto, registry
<1> USE DEF hooks, ghosts
<1>2. TypeOK'
  <2>1. pc' \in [Actors -> Stages]
    BY <1>1 DEF TypeOK, Stages
  <2>2. todo' \subseteq Names
    BY <1>1 DEF TypeOK, Partial
  <2>3. QED
    BY <1>1, <2>1, <2>2 DEF TypeOK, Partial
<1>3. pc'[Initial] = "flush" /\ \A y \in Actors : y # Initial => pc'[y] = pc[y]
  BY <1>1 DEF TypeOK
<1>4. Places'
  BY <1>1, <1>3 DEF Places, Holding, Calling, Named
<1>5. Arguments'
  BY <1>1, <1>3 DEF Arguments, Holding, Calling, Named
<1>6. Agreement'
  BY <1>1, <1>3 DEF Agreement, TypeOK, Places, Holding
<1>7. Originals' /\ Preempted'
  BY <1>1, <1>3 DEF Originals, Preempted
<1>8. \A k : ~Flushing(k)' /\ ~Flushing(k)
  BY <1>1, <1>3 DEF Flushing
<1>9. Directly' /\ Installed'
  BY <1>1, <1>3, <1>8 DEF Directly, Installed, Shows, TypeOK, Places, Holding
<1>10. Queued'
  BY <1>1, <1>3, <1>8 DEF Queued
<1>11. QED
  BY <1>2, <1>4, <1>5, <1>6, <1>7, <1>9, <1>10

\* The flush passes a name that is in the table, or goes to register it.
LEMMA FlushKeeps ==
  ASSUME RegistryInv, NEW n \in Names, Flush(n)
  PROVE  RegistryInv'
<1> USE ActorFacts DEF RegistryInv
<1>1. /\ pc[Initial] = "flush" /\ n \in DOMAIN queue
      /\ todo' = todo \ {n}
      /\ UNCHANGED <<calls, ios, ready, queue, table, mono, lock, hooks, flushing, ghosts>>
  BY DEF Flush, At, registry
<1> USE DEF hooks, ghosts
<1>2. flushing /\ ready
  BY <1>1 DEF Places
<1>3. CASE n \in DOMAIN table /\ UNCHANGED <<pc, name, method>>
  <2>1. TypeOK'
    BY <1>1, <1>3 DEF TypeOK, Partial
  <2>2. Places' /\ Arguments' /\ Agreement' /\ Originals' /\ Preempted' /\ Installed'
    BY <1>1, <1>3 DEF Places, Arguments, Agreement, Originals, Preempted, Installed
  <2>3. \A k : Flushing(k)' <=> Flushing(k)
    BY <1>1, <1>3 DEF Flushing
  <2>4. Directly' /\ Queued'
    BY <1>1, <1>3, <2>3 DEF Directly, Shows, Queued
  <2>5. QED
    BY <2>1, <2>2, <2>4
<1>4. CASE n \notin DOMAIN table /\ Register(n)
  <2>1. /\ name' = [name EXCEPT ![Initial] = n]
        /\ method' = [method EXCEPT ![Initial] = queue[n]]
        /\ pc' = [pc EXCEPT ![Initial] = "lock"]
    BY <1>4 DEF Register, Goto
  <2>2. queue[n] \in Methods
    BY <1>1 DEF TypeOK, Partial
  <2>3. TypeOK'
    <3>1. pc' \in [Actors -> Stages]
      BY <2>1 DEF TypeOK, Stages
    <3>2. name' \in [Actors -> Names \cup {None}] /\ method' \in [Actors -> AnyMethod \cup {None}]
      BY <2>1, <2>2 DEF TypeOK, AnyMethod
    <3>3. QED
      BY <1>1, <3>1, <3>2 DEF TypeOK, Partial
  <2>4. /\ pc'[Initial] = "lock" /\ name'[Initial] = n /\ method'[Initial] = queue[n]
        /\ \A y \in Actors : y # Initial => pc'[y] = pc[y] /\ name'[y] = name[y] /\ method'[y] = method[y]
    BY <2>1 DEF TypeOK
  <2>5. Places'
    BY <1>1, <1>2, <2>4 DEF Places, Holding, Calling, Named
  <2>6. Arguments'
    BY <1>1, <2>2, <2>4 DEF Arguments, Holding, Calling, Named
  <2>7. Agreement'
    BY <1>1, <2>4 DEF Agreement, TypeOK, Places, Holding
  <2>8. Originals' /\ Preempted'
    BY <1>1, <2>4 DEF Originals, Preempted
  <2>9. \A k : ~Flushing(k) /\ (Flushing(k)' <=> k = n)
    BY <1>1, <1>2, <2>4 DEF Flushing
  <2>10. Directly' /\ Installed'
    BY <1>1, <1>4, <2>4, <2>9 DEF Directly, Installed, Shows, TypeOK, Places, Holding
  <2>11. Queued'
    BY <1>1, <1>4, <2>4, <2>9 DEF Queued
  <2>12. QED
    BY <2>3, <2>5, <2>6, <2>7, <2>8, <2>10, <2>11
<1>5. QED
  BY <1>3, <1>4 DEF Flush

LEMMA ClearKeeps ==
  ASSUME RegistryInv, Clear
  PROVE  RegistryInv'
<1> USE ActorFacts DEF RegistryInv
<1>1. /\ pc[Initial] = "flush" /\ pc' = [pc EXCEPT ![Initial] = "done"]
      /\ todo = {} /\ DOMAIN queue' = {}
      /\ UNCHANGED <<name, method, calls, ios, ready, table, mono, lock, hooks, flush, ghosts>>
  BY DEF Clear, At, Goto, Restrict
<1> USE DEF hooks, flush, ghosts
<1>2. TypeOK'
  <2>1. pc' \in [Actors -> Stages]
    BY <1>1 DEF TypeOK, Stages
  <2>2. QED
    BY <1>1, <2>1 DEF TypeOK, Partial
<1>3. pc'[Initial] = "done" /\ \A y \in Actors : y # Initial => pc'[y] = pc[y]
  BY <1>1 DEF TypeOK
<1>4. Places'
  BY <1>1, <1>3 DEF Places, Holding, Calling, Named
<1>5. Arguments'
  BY <1>1, <1>3 DEF Arguments, Holding, Calling, Named
<1>6. Agreement'
  BY <1>1, <1>3 DEF Agreement, TypeOK, Places, Holding
<1>7. Originals' /\ Preempted'
  BY <1>1, <1>3 DEF Originals, Preempted
<1>8. \A k : ~Flushing(k)' /\ ~Flushing(k)
  BY <1>1, <1>3 DEF Flushing
<1>9. Directly' /\ Installed'
  BY <1>1, <1>3, <1>8 DEF Directly, Installed, Shows, TypeOK, Places, Holding
<1>10. Queued'
  BY <1>1, <1>3, <1>8 DEF Queued
<1>11. QED
  BY <1>2, <1>4, <1>5, <1>6, <1>7, <1>9, <1>10

LEMMA RegistryInit == Init => RegistryInv
<1> SUFFICES ASSUME Init PROVE RegistryInv
  OBVIOUS
<1> USE ActorFacts, RegistryAssumption DEF Init
<1>1. TypeOK
  <2>1. pc \in [Actors -> Stages]
    BY DEF Stages
  <2>2. name \in [Actors -> Names \cup {None}] /\ method \in [Actors -> AnyMethod \cup {None}]
    OBVIOUS
  <2>3. calls \in [Threads -> 0 .. MaxCalls] /\ original \in [Hooks -> Methods \cup {Own, None}]
    OBVIOUS
  <2>4. QED
    BY <2>1, <2>2, <2>3 DEF TypeOK, Partial
<1>2. Places /\ Arguments
  BY DEF Places, Arguments, Holding, Calling, Named
<1>3. Agreement /\ Originals /\ Preempted /\ Installed /\ Directly /\ Queued
  BY DEF Agreement, Originals, Preempted, Installed, Directly, Queued
<1>4. QED
  BY <1>1, <1>2, <1>3 DEF RegistryInv

LEMMA RegistryStep ==
  ASSUME RegistryInv, [Next]_vars
  PROVE  RegistryInv'
<1>1. CASE UNCHANGED vars
  <2>1. \A k : Flushing(k)' <=> Flushing(k)
    BY <1>1 DEF vars, registry, hooks, flush, ghosts, Flushing
  <2>2. QED
    BY <1>1, <2>1 DEF RegistryInv, vars, registry, hooks, flush, ghosts, TypeOK, Partial, Places,
                     Arguments, Agreement, Originals, Preempted, Installed, Directly, Shows, Queued
<1>2. ASSUME NEW x \in Actors, AddInternalCall(x)
      PROVE  RegistryInv'
  BY <1>2, LockKeeps, InterceptKeeps, SetTableKeeps, SetMonoKeeps DEF AddInternalCall
<1>3. CASE InitMono
  BY <1>2, <1>3, SetReadyKeeps, LoadInterceptorsKeeps, BeginFlushKeeps, FlushKeeps, ClearKeeps, ActorFacts
     DEF InitMono
<1>4. ASSUME NEW t \in Threads, RegisterStep(t)
      PROVE  RegistryInv'
  BY <1>2, <1>4, CheckReadyKeeps, EnqueueKeeps, ActorFacts DEF RegisterStep
<1>5. QED
  BY <1>1, <1>3, <1>4, BeginKeeps, AddInterceptorKeeps DEF Next, Stopped

LEMMA RegistryCorrect == Spec => []RegistryInv
<1>1. RegistryInv /\ [Next]_vars => RegistryInv'
  BY RegistryStep
<1>2. QED
  BY <1>1, RegistryInit, PTL DEF Spec

-----------------------------------------------------------------------------
(* What follows                                                            *)

\* The variables of the registry keep their types, for any number of threads.
THEOREM RegistryTypes == Spec => []TypeOK
  BY RegistryCorrect, PTL DEF RegistryInv

\* Whoever races to register, what il2cpp_resolve_icall answers and what Mono
\* calls are the same whenever the mutex is free.
THEOREM TablesAlwaysAgree == Spec => []TablesAgree
<1>1. RegistryInv => TablesAgree
  BY DEF RegistryInv, Agreement, TablesAgree
<1>2. QED
  BY <1>1, RegistryCorrect, PTL

\* The flush of the queue never brings back what a direct registration has
\* replaced, but for one that takes the mutex while the flush is waiting for it.
THEOREM DirectCallsStay == Spec => []DirectStays
<1>1. RegistryInv => DirectStays
  BY DEF RegistryInv, Directly, Shows, DirectStays
<1>2. QED
  BY <1>1, RegistryCorrect, PTL

\* A name resolves to the interceptor installed last but for one installed after
\* its last registration, and one hooked before its first registration is never
\* called bare, whoever replaces whose interceptor and whoever registers.
THEOREM HooksComeFirst == Spec => []InterceptorsHonoured
<1>1. RegistryInv => InterceptorsHonoured
  BY DEF RegistryInv, Preempted, Installed, InterceptorsHonoured
<1>2. QED
  BY <1>1, RegistryCorrect, PTL

\* An interceptor that Mono calls has an original, which is no interceptor.
THEOREM HooksHaveOriginals == Spec => []HookHasOriginal
<1>1. RegistryInv => HookHasOriginal
  BY ActorFacts DEF RegistryInv, Originals, HookHasOriginal, TypeOK, Partial
<1>2. QED
  BY <1>1, RegistryCorrect, PTL

\* Whatever was queued before Mono was ready is registered when InitMono ends,
\* in whatever order the queue is visited and whoever registers meanwhile.
THEOREM QueueIsDrained == Spec => []QueueDrained
<1>1. RegistryInv => QueueDrained
  BY DEF RegistryInv, Places, Queued, Flushing, QueueDrained, At
<1>2. QED
  BY <1>1, RegistryCorrect, PTL

-----------------------------------------------------------------------------
(* The flush comes to an end                                               *)

\* The names not in the table yet, the one InitMono is registering among them.
Unregistered ==
  (Names \ DOMAIN table) \cup (IF pc[Initial] \in Calling THEN {name[Initial]} ELSE {})

Ahead ==
  CASE pc[Initial] = "flush"     -> 5
    [] pc[Initial] = "lock"      -> 4
    [] pc[Initial] = "intercept" -> 3
    [] pc[Initial] = "table"     -> 2
    [] pc[Initial] = "mono"      -> 1
    [] OTHER                     -> 0

\* A turn of the loop takes a name off the list, or puts one into the table, in
\* five steps.
FlushRest == 6 * (Cardinality(Unregistered) + Cardinality(todo)) + Ahead

Advances ==
  flushing => FlushRest' <= FlushRest /\ (InitMono => FlushRest' < FlushRest)

LEMMA NamesOnly ==
  /\ RegistryInv => Unregistered \subseteq Names /\ todo \subseteq Names
  /\ RegistryInv' => Unregistered' \subseteq Names /\ todo' \subseteq Names
BY ActorFacts DEF RegistryInv, TypeOK, Arguments, Unregistered, Named

LEMMA FiniteNames ==
  ASSUME IsFiniteSet(Names)
  PROVE  \A S, T : S \subseteq Names /\ T \subseteq S
           => /\ Cardinality(S) \in 0 .. Cardinality(Names) /\ Cardinality(Names) \in Nat
              /\ Cardinality(T) \in 0 .. Cardinality(S)
              /\ T # S => Cardinality(T) < Cardinality(S)
<1> SUFFICES ASSUME NEW S, NEW T, S \subseteq Names, T \subseteq S
             PROVE  /\ Cardinality(S) \in 0 .. Cardinality(Names) /\ Cardinality(Names) \in Nat
                    /\ Cardinality(T) \in 0 .. Cardinality(S)
                    /\ T # S => Cardinality(T) < Cardinality(S)
  OBVIOUS
<1>1. IsFiniteSet(S) /\ IsFiniteSet(T)
  BY FS_Subset
<1>2. QED
  BY <1>1, FS_Subset, FS_CardinalityType

LEMMA FlushNumbers ==
  ASSUME IsFiniteSet(Names)
  PROVE  /\ RegistryInv => FlushRest \in 0 .. 12 * Cardinality(Names) + 5
         /\ RegistryInv' => FlushRest' \in 0 .. 12 * Cardinality(Names) + 5
<1>1. Ahead \in 0 .. 5 /\ Ahead' \in 0 .. 5
  BY DEF Ahead
<1>2. /\ RegistryInv => /\ Cardinality(Unregistered) \in 0 .. Cardinality(Names)
                        /\ Cardinality(todo) \in 0 .. Cardinality(Names)
      /\ RegistryInv' => /\ Cardinality(Unregistered') \in 0 .. Cardinality(Names)
                         /\ Cardinality(todo') \in 0 .. Cardinality(Names)
  BY NamesOnly, FiniteNames
<1>3. Cardinality(Names) \in Nat
  BY FS_CardinalityType
<1>4. QED
  BY <1>1, <1>2, <1>3 DEF FlushRest

\* What the numbers say of a step: u and v count the names without a
\* registration and those still to visit.
LEMMA RestFalls ==
  ASSUME IsFiniteSet(Names), RegistryInv, RegistryInv',
         Unregistered' \subseteq Unregistered, todo' \subseteq todo
  PROVE  /\ Ahead' <= Ahead => FlushRest' <= FlushRest
         /\ Ahead' < Ahead => FlushRest' < FlushRest
         /\ Unregistered' # Unregistered \/ todo' # todo => FlushRest' < FlushRest
<1>1. PICK u \in Nat, v \in Nat, x \in Nat, y \in Nat :
        /\ u = Cardinality(Unregistered) /\ v = Cardinality(todo)
        /\ x = Cardinality(Unregistered') /\ y = Cardinality(todo')
  <2>1. /\ Unregistered \subseteq Names /\ todo \subseteq Names
        /\ Unregistered' \subseteq Names /\ todo' \subseteq Names
    BY NamesOnly
  <2>2. QED
    BY <2>1, FiniteNames
<1>2. x <= u /\ y <= v /\ (Unregistered' # Unregistered => x < u) /\ (todo' # todo => y < v)
  BY <1>1, NamesOnly, FiniteNames
<1>3. Ahead \in 0 .. 5 /\ Ahead' \in 0 .. 5
  BY DEF Ahead
<1>4. FlushRest = 6 * (u + v) + Ahead /\ FlushRest' = 6 * (x + y) + Ahead'
  BY <1>1 DEF FlushRest
<1>5. QED
  BY <1>1, <1>2, <1>3, <1>4

\* A step of InitMono within the flush.
LEMMA FlushAdvances ==
  ASSUME IsFiniteSet(Names), RegistryInv, RegistryInv', flushing, InitMono, vars' # vars
  PROVE  FlushRest' < FlushRest
<1> USE ActorFacts DEF At, Goto, registry, flush
<1>1. pc[Initial] \in Calling \cup {"flush", "done"} /\ \A p : pc' = [pc EXCEPT ![Initial] = p]
                                                         => pc'[Initial] = p
  BY DEF RegistryInv, Places, TypeOK
<1>2. CASE Lock(Initial) \/ Intercept(Initial)
  <2>1. /\ UNCHANGED <<name, table, todo>>
        /\ \/ pc[Initial] = "lock" /\ pc'[Initial] = "intercept"
           \/ pc[Initial] = "intercept" /\ pc'[Initial] = "table"
    BY <1>1, <1>2 DEF Lock, Intercept, Looked
  <2>2. Unregistered' = Unregistered /\ Ahead' < Ahead
    BY <2>1 DEF Unregistered, Ahead, Calling, Holding
  <2>3. QED
    BY <2>1, <2>2, RestFalls
<1>3. CASE SetTable(Initial)
  <2>1. /\ UNCHANGED <<name, todo>> /\ table' = Put(table, name[Initial], method[Initial])
        /\ pc[Initial] = "table" /\ pc'[Initial] = "mono"
    BY <1>1, <1>3 DEF SetTable
  <2>2. Unregistered' = Unregistered /\ Ahead' < Ahead
    BY <2>1 DEF Unregistered, Ahead, Calling, Holding, Put
  <2>3. QED
    BY <2>1, <2>2, RestFalls
<1>4. CASE SetMono(Initial)
  <2>1. /\ UNCHANGED <<todo, table>> /\ pc[Initial] = "mono" /\ pc'[Initial] = "flush"
    BY <1>1, <1>4 DEF SetMono, Back
  <2>2. lock = Initial /\ table = Put(mono, name[Initial], method[Initial])
        /\ name[Initial] \in Names
    BY <2>1 DEF RegistryInv, Places, Holding, Agreement, Arguments, Named, Calling
  <2>3. name[Initial] \in DOMAIN table
    BY <2>2 DEF Put
  <2>4. Unregistered' \subseteq Unregistered /\ Unregistered' # Unregistered
    BY <2>1, <2>3 DEF Unregistered, Calling, Holding
  <2>5. Ahead = 1 /\ Ahead' = 5
    BY <2>1 DEF Ahead
  <2>6. QED
    BY <2>1, <2>4, RestFalls
<1>5. ASSUME NEW n \in Names, Flush(n)
      PROVE  FlushRest' < FlushRest
  <2>1. pc[Initial] = "flush" /\ todo' = todo \ {n} /\ UNCHANGED table
    BY <1>5 DEF Flush
  <2>2. CASE n \in DOMAIN table /\ UNCHANGED <<pc, name, method>>
    <3>1. Unregistered' = Unregistered /\ Ahead' = Ahead /\ todo' # todo
      BY <1>5, <2>1, <2>2 DEF Unregistered, Ahead, Flush, vars, registry, hooks, ghosts
    <3>2. QED
      BY <2>1, <3>1, RestFalls
  <2>3. CASE n \notin DOMAIN table /\ Register(n)
    <3>1. pc'[Initial] = "lock" /\ name'[Initial] = n
      BY <1>1, <2>3 DEF Register, RegistryInv, TypeOK
    <3>2. Unregistered' = Unregistered /\ Ahead' < Ahead
      BY <2>1, <2>3, <3>1 DEF Unregistered, Ahead, Calling, Holding
    <3>3. QED
      BY <2>1, <3>2, RestFalls
  <2>4. QED
    BY <1>5, <2>2, <2>3 DEF Flush
<1>6. CASE Clear
  <2>1. pc[Initial] = "flush" /\ pc'[Initial] = "done" /\ UNCHANGED <<table, todo>>
    BY <1>1, <1>6 DEF Clear
  <2>2. Unregistered' = Unregistered /\ Ahead' < Ahead
    BY <2>1 DEF Unregistered, Ahead, Calling, Holding
  <2>3. QED
    BY <2>1, <2>2, RestFalls
<1>7. QED
  BY <1>1, <1>2, <1>3, <1>4, <1>5, <1>6
     DEF InitMono, AddInternalCall, SetReady, LoadInterceptors, BeginFlush, Calling, Holding,
         RegistryInv, Places

\* A step of anybody else registers at most a name.
LEMMA OthersAdvance ==
  ASSUME IsFiniteSet(Names), RegistryInv, RegistryInv', Next, ~InitMono
  PROVE  FlushRest' <= FlushRest
<1> USE ActorFacts DEF At, Goto
<1>1. ASSUME NEW t \in Threads, RegisterStep(t) \/ \E n \in Names, m \in Methods : Begin(t, n, m)
      PROVE  /\ pc'[Initial] = pc[Initial] /\ name'[Initial] = name[Initial]
             /\ DOMAIN table \subseteq DOMAIN table' /\ todo' = todo
  <2>1. t # Initial /\ pc \in [Actors -> Stages] /\ name \in [Actors -> Names \cup {None}]
    BY DEF RegistryInv, TypeOK
  <2>2. pc'[Initial] = pc[Initial] /\ name'[Initial] = name[Initial]
    BY <1>1, <2>1 DEF RegisterStep, AddInternalCall, CheckReady, Enqueue, Lock, Intercept, Looked,
                      SetTable, SetMono, Begin
  <2>3. todo' = todo /\ (table' = table \/ table' = Put(table, name[t], method[t]))
    BY <1>1 DEF RegisterStep, AddInternalCall, CheckReady, Enqueue, Lock, Intercept, Looked, SetTable,
                SetMono, Begin, registry, flush
  <2>4. DOMAIN table \subseteq DOMAIN table'
    BY <2>3 DEF Put
  <2>5. QED
    BY <2>2, <2>3, <2>4
<1>2. (\E n \in Names : \E mod \in Mods[n] : AddInterceptor(n, mod)) \/ Stopped => UNCHANGED <<pc, name, table, todo>>
  BY DEF AddInterceptor, Stopped, vars, registry, flush
<1>3. /\ pc'[Initial] = pc[Initial] /\ name'[Initial] = name[Initial]
      /\ DOMAIN table \subseteq DOMAIN table' /\ todo' = todo
  BY <1>1, <1>2 DEF Next
<1>4. Unregistered' \subseteq Unregistered
  BY <1>3 DEF Unregistered
<1>5. Ahead' = Ahead
  BY <1>3 DEF Ahead
<1>6. QED
  BY <1>3, <1>4, <1>5, RestFalls DEF Ahead

\* FlushICallQueue comes to an end, although the game may queue and register
\* names while it runs: InitMono has at most a number of steps ahead of it that
\* only the number of names decides, each takes it nearer to the end and nobody
\* else's takes it away.  For the mutex it waits only while its holder is past
\* the lock, where no statement waits.
THEOREM FlushIsBounded ==
  ASSUME IsFiniteSet(Names)
  PROVE  Spec => /\ [](/\ FlushRest \in 0 .. 12 * Cardinality(Names) + 5
                       /\ \A x \in Actors : At(x, "lock") /\ lock # None
                                              => lock \in Actors /\ pc[lock] \in Holding)
                 /\ [][Advances]_vars
<1>1. RegistryInv => /\ FlushRest \in 0 .. 12 * Cardinality(Names) + 5
                     /\ \A x \in Actors : At(x, "lock") /\ lock # None
                                            => lock \in Actors /\ pc[lock] \in Holding
  BY FlushNumbers DEF RegistryInv, TypeOK, Places
<1>2. RegistryInv /\ RegistryInv' /\ [Next]_vars => [Advances]_vars
  <2>1. SUFFICES ASSUME RegistryInv, RegistryInv', Next, vars' # vars, flushing
                 PROVE  FlushRest' <= FlushRest /\ (InitMono => FlushRest' < FlushRest)
    BY DEF Advances
  <2>2. FlushRest \in Int /\ FlushRest' \in Int
    BY <2>1, FlushNumbers
  <2>3. QED
    BY <2>1, <2>2, FlushAdvances, OthersAdvance
<1>3. QED
  BY <1>1, <1>2, RegistryCorrect, PTL DEF Spec
=============================================================================
