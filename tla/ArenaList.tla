----------------------------- MODULE ArenaList -----------------------------
(***************************************************************************)
(* What mono_ios_jit_prepare and mono_ios_jit_cleanup promise their        *)
(* callers, as if each call were one step: a startup call makes sure that  *)
(* the pool has an arena, any other call adds one, cleanup empties the     *)
(* pool, and a call that fails changes nothing.  JitPrepare implements it. *)
(***************************************************************************)
CONSTANTS Threads, Arenas, None

VARIABLES
  newest,  \* the arena that was published last
  older,   \* per published arena, the one before it: None for the oldest
  call     \* call[t]: the call t is in, or the outcome of its last one

Pool == DOMAIN older

Requests == {"startup", "extend", "cleanup"}
Outcomes == {"OK", "failed"}

TypeOK == /\ Pool \subseteq Arenas
          /\ newest \in Pool \cup {None}
          /\ older \in [Pool -> Pool \cup {None}]
          /\ call \in [Threads -> Requests \cup Outcomes]

Invoke(t, request) == /\ call[t] \in Outcomes
                      /\ call' = [call EXCEPT ![t] = request]
                      /\ UNCHANGED <<newest, older>>

Succeed(t) == call' = [call EXCEPT ![t] = "OK"]

\* The startup pool exists already.
Ensured(t) == /\ call[t] = "startup"
              /\ newest # None
              /\ Succeed(t)
              /\ UNCHANGED <<newest, older>>

Extend(t, a) == /\ call[t] = "extend" \/ (call[t] = "startup" /\ newest = None)
                /\ a \notin Pool
                /\ newest' = a
                /\ older' = [b \in Pool \cup {a} |-> IF b = a THEN newest ELSE older[b]]
                /\ Succeed(t)

Fail(t) == /\ call[t] \in Requests
           /\ call' = [call EXCEPT ![t] = "failed"]
           /\ UNCHANGED <<newest, older>>

Clear(t) == /\ call[t] = "cleanup"
            /\ newest' = None
            /\ older' = [b \in {} |-> None]
            /\ Succeed(t)

Init == /\ newest = None
        /\ older = [b \in {} |-> None]
        /\ call = [t \in Threads |-> "OK"]

Next == \E t \in Threads :
          \/ \E request \in Requests : Invoke(t, request)
          \/ Ensured(t)
          \/ \E a \in Arenas : Extend(t, a)
          \/ Fail(t)
          \/ Clear(t)

Spec == Init /\ [][Next]_<<newest, older, call>>
=============================================================================
