---------------------------- MODULE ICallRegistry ----------------------------
(***************************************************************************)
(* The registry of internal calls (src/il2cpp/InternalCalls.cpp): the      *)
(* game's registrations, queued until Mono is ready and forwarded to it    *)
(* afterwards, the interceptors mods install, the override of the iOS      *)
(* build, and the flush of the queue at the end of InitMono (main.cpp).    *)
(*                                                                         *)
(* Registrations come from any thread at any time; only AddInternalCall    *)
(* and ResolveICall take the mutex.  An access to an unordered_map is one  *)
(* step: what two accesses that race do to its buckets is not modelled.    *)
(***************************************************************************)
EXTENDS Integers, FiniteSets, Functions

CONSTANTS
  Threads,   \* threads that register internal calls
  Names,     \* names of internal calls
  Methods,   \* methods the game registers
  Mods,      \* Mods[n]: the mods that may install an interceptor for n
  Override,  \* the name the iOS build overrides (get_persistentDataPath)
  Initial,   \* the thread that runs InitMono
  None,      \* no thread, no name, NULL
  MaxCalls   \* bound: registrations per thread

\* The methods that the iOS build and the mods put in place of the game's.  A
\* mod has for each name an interceptor of its own, with its own slot for the
\* original.
Own == <<"PersistentDataOverride", Override>>
Hook(n, mod) == <<"interceptor", n, mod>>
HooksOf(n) == {Hook(n, mod) : mod \in Mods[n]}
Hooks == UNION {HooksOf(n) : n \in Names}
AnyMethod == Methods \cup {Own} \cup Hooks

\* The game registers code of its own, never that of a mod.
ASSUME RegistryAssumption ==
  /\ Override \in Names
  /\ Initial \notin Threads
  /\ None \notin Names \cup AnyMethod \cup Threads \cup {Initial}
  /\ Own \notin Hooks
  /\ Hooks \cap Methods = {}
  /\ MaxCalls \in Nat

Actors == Threads \cup {Initial}

VARIABLES
  pc,         \* per actor: where it is
  name,       \* per actor: the name it registers
  method,     \* per actor: the method it registers
  calls,      \* per thread: registrations made
  ios,        \* whether this is the iOS build
  ready,      \* IsMonoReady
  queue,      \* ICallQueue, a partial function from names to methods
  table,      \* ICallTable, likewise
  mono,       \* the table inside Mono
  interceptor, \* InterceptorMap, a partial function from names to hooks
  original,   \* per hook: *interceptor->original
  lock,       \* the holder of mutex
  todo,       \* names the flush must still come to
  flushing,   \* InitMono has begun the flush
  early,      \* ghost: per name, what was queued last before Mono was ready
  late,       \* ghost: names queued when Mono was ready already
  direct,     \* ghost: per name, what was registered last other than by the flush
  overtaken,  \* ghost: names registered while the flush was at them
  preempted,  \* ghost: names hooked before any registration of theirs
  pending     \* ghost: names hooked, or hooked anew, since their last registration

registry == <<ios, ready, queue, table, mono, lock>>
hooks == <<interceptor, original>>
ghosts == <<early, late, direct, overtaken, preempted, pending>>
flush == <<todo, flushing>>
vars == <<pc, name, method, calls, registry, hooks, flush, ghosts>>

Partial(f, S) == DOMAIN f \subseteq Names /\ \A n \in DOMAIN f : f[n] \in S

Stages == {"idle", "check", "queue", "lock", "intercept", "table", "mono",
           "ready", "override", "begin", "flush", "done"}

TypeOK ==
  /\ pc \in [Actors -> Stages]
  /\ name \in [Actors -> Names \cup {None}]
  /\ method \in [Actors -> AnyMethod \cup {None}]
  /\ calls \in [Threads -> 0 .. MaxCalls]
  /\ ios \in BOOLEAN
  /\ ready \in BOOLEAN
  /\ Partial(queue, Methods)
  /\ Partial(table, AnyMethod)
  /\ Partial(mono, AnyMethod)
  /\ Partial(interceptor, Hooks)
  /\ original \in [Hooks -> Methods \cup {Own, None}]
  /\ lock \in Actors \cup {None}
  /\ todo \subseteq Names
  /\ flushing \in BOOLEAN
  /\ Partial(early, Methods)
  /\ Partial(direct, Methods \cup {Own})
  /\ \A S \in {late, overtaken, preempted, pending} : S \subseteq Names

Goto(x, place) == pc' = [pc EXCEPT ![x] = place]
At(x, place) == pc[x] = place
Put(f, n, v) == [k \in DOMAIN f \cup {n} |-> IF k = n THEN v ELSE f[k]]

-----------------------------------------------------------------------------
(* AddInternalCall, called by x for name[x] and method[x] *)

\* Where x goes on after its registration.
Back(x) == IF x # Initial THEN "idle" ELSE IF flushing THEN "flush" ELSE "begin"

LockIgnored(x) ==  \* mutant: no mutex
  /\ At(x, "lock")
  /\ Goto(x, "intercept")
  /\ UNCHANGED <<name, method, calls, registry, hooks, flush, ghosts>>

Lock(x) ==
  /\ At(x, "lock")
  /\ lock = None
  /\ lock' = x
  /\ Goto(x, "intercept")
  /\ UNCHANGED <<name, method, calls, ios, ready, queue, table, mono, hooks, flush, ghosts>>

Looked(x) == /\ pending' = pending \ {name[x]}
             /\ Goto(x, "table")
             /\ UNCHANGED <<name, calls, registry, interceptor, flush,
                            early, late, direct, overtaken, preempted>>

InterceptUnhooked(x) ==  \* mutant: the interceptor's method does not replace the original
  /\ At(x, "intercept")
  /\ original' = [h \in Hooks |-> IF name[x] \in DOMAIN interceptor /\ h = interceptor[name[x]]
                                  THEN method[x] ELSE original[h]]
  /\ UNCHANGED method
  /\ Looked(x)

InterceptSwapped(x) ==  \* mutant: the method is replaced before it is handed over
  /\ At(x, "intercept")
  /\ LET n == name[x]
     IN  IF n \in DOMAIN interceptor
         THEN /\ original' = [original EXCEPT ![interceptor[n]] = interceptor[n]]
              /\ method' = [method EXCEPT ![x] = interceptor[n]]
         ELSE UNCHANGED <<original, method>>
  /\ Looked(x)

\* The interceptor that is installed now gets the method and takes its place;
\* one it has replaced is not called by it.
Intercept(x) ==
  /\ At(x, "intercept")
  /\ LET n == name[x]
     IN  IF n \in DOMAIN interceptor
         THEN /\ original' = [original EXCEPT ![interceptor[n]] = method[x]]
              /\ method' = [method EXCEPT ![x] = interceptor[n]]
         ELSE UNCHANGED <<original, method>>
  /\ Looked(x)

\* Whether x registers what the flush has found in the queue.
Flushes(x) == x = Initial /\ flushing

SetTable(x) ==
  /\ At(x, "table")
  /\ table' = Put(table, name[x], method[x])
  /\ overtaken' = IF Flushes(Initial) /\ x # Initial /\ name[Initial] = name[x]
                  THEN overtaken \cup {name[x]}
                  ELSE IF Flushes(x) THEN overtaken ELSE overtaken \ {name[x]}
  /\ direct' = IF Flushes(x) THEN direct
               ELSE Put(direct, name[x],
                        IF method[x] \in Hooks THEN original[method[x]] ELSE method[x])
  /\ Goto(x, "mono")
  /\ UNCHANGED <<name, method, calls, ios, ready, queue, mono, lock, hooks, flush, early, late,
                 preempted, pending>>

\* mono_add_internal_call, and the guard's destructor.
SetMono(x) ==
  /\ At(x, "mono")
  /\ mono' = Put(mono, name[x], method[x])
  /\ lock' = None
  /\ name' = [name EXCEPT ![x] = None]
  /\ method' = [method EXCEPT ![x] = None]
  /\ Goto(x, Back(x))
  /\ UNCHANGED <<calls, ios, ready, queue, table, hooks, flush, ghosts>>

AddInternalCall(x) == Lock(x) \/ Intercept(x) \/ SetTable(x) \/ SetMono(x)

-----------------------------------------------------------------------------
(* il2cpp_add_internal_call and il2cpp2mono_add_icall_interceptor *)

Begin(t, n, m) ==
  /\ At(t, "idle")
  /\ calls[t] < MaxCalls
  /\ calls' = [calls EXCEPT ![t] = calls[t] + 1]
  /\ name' = [name EXCEPT ![t] = n]
  /\ method' = [method EXCEPT ![t] = m]
  /\ Goto(t, "check")
  /\ UNCHANGED <<registry, hooks, flush, ghosts>>

CheckReady(t) ==
  /\ At(t, "check")
  /\ Goto(t, IF ready THEN "lock" ELSE "queue")
  /\ UNCHANGED <<name, method, calls, registry, hooks, flush, ghosts>>

\* No lock: Mono may have become ready since the check, and the flush may run.
Enqueue(t) ==
  /\ At(t, "queue")
  /\ queue' = Put(queue, name[t], method[t])
  /\ early' = IF ready THEN early ELSE Put(early, name[t], method[t])
  /\ late' = IF ready THEN late \cup {name[t]} ELSE late
  /\ name' = [name EXCEPT ![t] = None]
  /\ method' = [method EXCEPT ![t] = None]
  /\ Goto(t, "idle")
  /\ UNCHANGED <<calls, ios, ready, table, mono, lock, hooks, flush, direct, overtaken,
                 preempted, pending>>

\* Whether a registration of n has passed its look at InterceptorMap.
Registering(n) ==
  n \in DOMAIN table \/ \E x \in Actors : name[x] = n /\ pc[x] \in {"table", "mono"}

\* A mod installs an interceptor, from any thread and without the mutex.  It
\* replaces the one of another mod, and what is registered already stays.
AddInterceptor(n, mod) ==
  /\ interceptor' = Put(interceptor, n, Hook(n, mod))
  /\ preempted' = IF Registering(n) THEN preempted ELSE preempted \cup {n}
  /\ pending' = IF Registering(n) THEN pending \cup {n} ELSE pending
  /\ UNCHANGED <<pc, name, method, calls, registry, original, flush, early, late, direct, overtaken>>

-----------------------------------------------------------------------------
(* The end of InitMono: IsMonoReady, LoadInterceptors, FlushICallQueue *)

SetReady ==
  /\ At(Initial, "ready")
  /\ ready' = TRUE
  /\ Goto(Initial, "override")
  /\ UNCHANGED <<name, method, calls, ios, queue, table, mono, lock, hooks, flush, ghosts>>

\* Only the iOS build has an override.
LoadInterceptors ==
  /\ At(Initial, "override")
  /\ IF ios
     THEN /\ name' = [name EXCEPT ![Initial] = Override]
          /\ method' = [method EXCEPT ![Initial] = Own]
          /\ Goto(Initial, "lock")
     ELSE Goto(Initial, "begin") /\ UNCHANGED <<name, method>>
  /\ UNCHANGED <<calls, registry, hooks, flush, ghosts>>

BeginFlush ==
  /\ At(Initial, "begin")
  /\ flushing' = TRUE
  /\ todo' = DOMAIN queue
  /\ Goto(Initial, "flush")
  /\ UNCHANGED <<name, method, calls, registry, hooks, ghosts>>

\* Register the method queued for n.
Register(n) ==
  /\ name' = [name EXCEPT ![Initial] = n]
  /\ method' = [method EXCEPT ![Initial] = queue[n]]
  /\ Goto(Initial, "lock")

FlushAll(n) ==  \* mutant: names that are registered already are not skipped
  /\ At(Initial, "flush")
  /\ n \in DOMAIN queue
  /\ todo' = todo \ {n}
  /\ Register(n)
  /\ UNCHANGED <<calls, registry, hooks, flushing, ghosts>>

FlushStopping(n) ==  \* mutant: break for continue
  /\ At(Initial, "flush")
  /\ n \in DOMAIN queue
  /\ \/ n \in DOMAIN table /\ todo' = {} /\ UNCHANGED <<pc, name, method>>
     \/ n \notin DOMAIN table /\ todo' = todo \ {n} /\ Register(n)
  /\ UNCHANGED <<calls, registry, hooks, flushing, ghosts>>

\* One turn of the loop, in the order of the map; a name queued meanwhile may
\* be visited or passed.  ICallTable is read without the mutex.
Flush(n) ==
  /\ At(Initial, "flush")
  /\ n \in DOMAIN queue
  /\ todo' = todo \ {n}
  /\ \/ n \in DOMAIN table /\ UNCHANGED <<pc, name, method>>
     \/ n \notin DOMAIN table /\ Register(n)
  /\ UNCHANGED <<calls, registry, hooks, flushing, ghosts>>

Clear ==
  /\ At(Initial, "flush")
  /\ todo = {}
  /\ queue' = Restrict(queue, {})
  /\ Goto(Initial, "done")
  /\ UNCHANGED <<name, method, calls, ios, ready, table, mono, lock, hooks, flush, ghosts>>

-----------------------------------------------------------------------------
Init ==
  /\ pc = [x \in Actors |-> IF x = Initial THEN "ready" ELSE "idle"]
  /\ name = [x \in Actors |-> None]
  /\ method = [x \in Actors |-> None]
  /\ calls = [t \in Threads |-> 0]
  /\ ios \in BOOLEAN
  /\ ready = FALSE
  /\ queue = [n \in {} |-> None]
  /\ table = [n \in {} |-> None]
  /\ mono = [n \in {} |-> None]
  /\ interceptor = [n \in {} |-> None]
  /\ original = [h \in Hooks |-> None]
  /\ lock = None
  /\ todo = {}
  /\ flushing = FALSE
  /\ early = [n \in {} |-> None]
  /\ late = {}
  /\ direct = [n \in {} |-> None]
  /\ overtaken = {}
  /\ preempted = {}
  /\ pending = {}

InitMono == \/ SetReady \/ LoadInterceptors \/ BeginFlush \/ Clear
            \/ \E n \in Names : Flush(n)
            \/ AddInternalCall(Initial)

RegisterStep(t) == CheckReady(t) \/ Enqueue(t) \/ AddInternalCall(t)

Stopped == /\ At(Initial, "done")
           /\ \A t \in Threads : At(t, "idle") /\ calls[t] = MaxCalls
           /\ UNCHANGED vars

Next == \/ InitMono
        \/ \E t \in Threads : RegisterStep(t) \/ \E n \in Names, m \in Methods : Begin(t, n, m)
        \/ \E n \in Names : \E mod \in Mods[n] : AddInterceptor(n, mod)
        \/ Stopped

Spec == Init /\ [][Next]_vars

-----------------------------------------------------------------------------
(* Properties *)

\* Whenever nobody holds the mutex, what il2cpp_resolve_icall answers and
\* what Mono calls are the same, whoever raced to register.
TablesAgree == lock = None => table = mono

\* What somebody registers by himself, the override of the iOS build among
\* them, is never undone by the flush: the older registration in the queue does
\* not come back, except in the one window in which the flush has looked the
\* name up (without the mutex) and not taken the mutex yet.
DirectStays ==
  lock = None => \A n \in DOMAIN direct \ overtaken :
    \/ table[n] = direct[n]
    \/ table[n] \in HooksOf(n) /\ original[table[n]] = direct[n]

\* What the game calls by a name is the interceptor installed for it last, unless
\* that was installed, or replaced another mod's, after the last registration
\* of the name, queued or not: then nobody calls it, and what the registration
\* found stays.  A name that had an interceptor, whichever, before its first
\* registration is never called bare, however often and from wherever it is
\* registered, and whoever replaces the interceptor meanwhile.
InterceptorsHonoured ==
  lock = None =>
    \A n \in DOMAIN interceptor \cap DOMAIN table :
      /\ n \notin pending => table[n] = interceptor[n]
      /\ n \in preempted => table[n] \in HooksOf(n)

\* Mono never calls an interceptor that has no original to forward to, as one
\* installed after the last registration has none, or one whose original is an
\* interceptor, so that mods call each other in a circle.
HookHasOriginal ==
  \A n \in DOMAIN mono : mono[n] \in Hooks => original[mono[n]] \notin Hooks \cup {None}

\* A registration is lost only when its thread saw that Mono was not ready and
\* queued it when Mono was: everything queued before is registered when InitMono
\* returns, in whatever order the flush visits the queue, and with the method
\* queued last unless somebody has registered another.
QueueDrained ==
  At(Initial, "done") =>
    \A n \in DOMAIN early :
      /\ n \in DOMAIN table
      /\ n \notin DOMAIN interceptor \cup late \cup DOMAIN direct => table[n] = early[n]
=============================================================================
