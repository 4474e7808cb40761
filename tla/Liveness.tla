------------------------------ MODULE Liveness -------------------------------
(***************************************************************************)
(* Liveness sessions (src/il2cpp/il2cpp-api.cpp, "liveness", with the      *)
(* trampolines of MonoUtils.cpp): Unity has Mono mark the objects that are *)
(* still in use while no other thread runs.                                *)
(*                                                                         *)
(* One session is under way at a time, on the thread of Unity that unloads *)
(* assets.  The older API (calculation_begin, calculation_end) stops and   *)
(* restarts the world itself and gives Mono memory from mmap; with the     *)
(* newer one Unity does both, in the same order.  Other threads take and   *)
(* release locks; those that Mono knows (Attached) are suspended wherever  *)
(* they are when the world stops.                                          *)
(*                                                                         *)
(* Memory is a row of pages, counted in units of which Page make a page    *)
(* and Header the length kept in front of a block.                         *)
(***************************************************************************)
EXTENDS Integers, FiniteSets

CONSTANTS
  Threads, Attached,  \* the threads besides the session's
  Session, None,
  Pages,              \* how many pages there are
  Page, Header,
  Sizes               \* sizes of the blocks Mono asks for

ASSUME LivenessAssumption ==
  /\ Attached \subseteq Threads
  /\ Session \notin Threads
  /\ None \notin Threads \cup {Session}
  /\ Threads \notin {Session, None}  \* the owner of pages no session has mapped
  /\ {Pages, Page, Header} \subseteq Nat \ {0}
  /\ Sizes \subseteq Nat \ {0} /\ Sizes # {}

VARIABLES
  pc,      \* the session's next step
  api,     \* which API the session uses
  world,   \* whether attached threads run
  marked,  \* whether objects carry the marks of the traversal
  holder,  \* who holds each lock
  owner,   \* who has mapped each page
  blocks,  \* what Mono holds: base page and the length in the header
  others   \* ghost: the pages other threads have mapped

vars == <<pc, api, world, marked, holder, owner, blocks, others>>
memory == <<owner, blocks, others>>

\* malloc's lock, a lock that Unity's callbacks take, and Mono's LOCK_GC.
Locks == {"heap", "engine", "gc"}

PagesOf(length) == (length + Page - 1) \div Page
Span(base, length) == base .. base + PagesOf(length) - 1

TypeOK ==
  /\ pc \in {"idle", "allocate", "discard", "tell", "stop", "calculate", "grow",
             "restart", "told", "free_blocks", "free_state"}
  /\ api \in {"old", "new"}
  /\ world \in {"running", "stopped"}
  /\ marked \in BOOLEAN
  /\ holder \in [Locks -> Threads \cup {Session, None}]
  /\ owner \in [0 .. Pages - 1 -> {Session, None} \cup {Threads}]
  /\ blocks \subseteq [base : 0 .. Pages - 1, length : Nat]
  /\ others \subseteq 0 .. Pages - 1

Free(lock) == holder[lock] = None

-----------------------------------------------------------------------------
(* The reallocation callback of the older API *)

\* The kernel maps length bytes somewhere, for who.
Map(base, length, who) ==
  /\ Span(base, length) \subseteq DOMAIN owner
  /\ \A p \in Span(base, length) : owner[p] = None
  /\ owner' = [p \in DOMAIN owner |-> IF p \in Span(base, length) THEN who ELSE owner[p]]

\* What is left of the mappings after length bytes from base are unmapped.
Unmapped(base, length) ==
  [p \in DOMAIN owner |-> IF p \in Span(base, length) THEN None ELSE owner[p]]


\* mutant: the header says how much was asked for, not how much was mapped
RecordedBare(size) == size

\* What is mapped for a block, and what its header says is.
Total(size) == size + Header
Recorded(size) == Total(size)

NewBlock(size) ==
  \E base \in DOMAIN owner :
    /\ Map(base, Total(size), Session)
    /\ blocks' = blocks \cup {[base |-> base, length |-> Recorded(size)]}
    /\ UNCHANGED others

\* mutant: the block comes from malloc
ReallocateFromHeap(size) ==
  /\ Free("heap")
  /\ NewBlock(size) \/ UNCHANGED memory

\* liveness_reallocate_trampoline_legacy with a size: whatever block it is
\* given, it maps a new one, or returns NULL when the kernel refuses; it takes
\* no lock.
Reallocate(size) == NewBlock(size) \/ UNCHANGED memory

\* The same with size 0.
Discard(b) ==
  /\ owner' = Unmapped(b.base, b.length)
  /\ blocks' = blocks \ {b}
  /\ UNCHANGED others

\* Unity's own callback brings the blocks of the newer API.
Callback == IF api = "old" THEN \E size \in Sizes : Reallocate(size)
            ELSE UNCHANGED memory

-----------------------------------------------------------------------------
(* A session.  A step that takes a lock and releases it within one call      *)
(* waits until the lock is free.                                             *)

\* calculation_begin or allocate_struct: memory for the session's structure.
Begin ==
  /\ pc = "idle"
  /\ Free("heap")
  /\ api' \in {"old", "new"}
  /\ pc' = "allocate"
  /\ UNCHANGED <<world, marked, holder, memory>>

\* Mono allocates its own state, and may return NULL.
Allocate ==
  /\ pc = "allocate"
  /\ Free("heap")
  /\ \/ Callback /\ pc' = "tell"
     \/ UNCHANGED memory /\ pc' = "discard"
  /\ UNCHANGED <<api, world, marked, holder>>

\* onWorldStopped; Unity does the like by itself with the newer API.
Tell ==
  /\ pc = "tell"
  /\ Free("engine")
  /\ pc' = "stop"
  /\ UNCHANGED <<api, world, marked, holder, memory>>

\* mono_gc_stop_world keeps LOCK_GC.
Stop ==
  /\ pc = "stop"
  /\ Free("gc")
  /\ holder' = [holder EXCEPT !["gc"] = Session]
  /\ world' = "stopped"
  /\ pc' = "calculate"
  /\ UNCHANGED <<api, marked, memory>>

\* calculation_from_root or _from_statics, which may run out of room.
Calculate ==
  /\ pc = "calculate"
  /\ marked' = TRUE
  /\ pc' \in {"calculate", "grow"}
  /\ UNCHANGED <<api, world, holder, memory>>

Grow ==
  /\ pc = "grow"
  /\ Callback
  /\ pc' = "calculate"
  /\ UNCHANGED <<api, world, marked, holder>>

FinalizeNothing ==  \* mutant: the marks stay
  /\ pc = "calculate"
  /\ pc' = "restart"
  /\ UNCHANGED <<api, world, marked, holder, memory>>

\* calculation_end or finalize: the marks are taken off.
Finalize ==
  /\ pc = "calculate"
  /\ marked' = FALSE
  /\ pc' = "restart"
  /\ UNCHANGED <<api, world, holder, memory>>

Restart ==
  /\ pc = "restart"
  /\ holder' = [holder EXCEPT !["gc"] = None]
  /\ world' = "running"
  /\ pc' = "told"
  /\ UNCHANGED <<api, marked, memory>>

\* onWorldStarted.
Told ==
  /\ pc = "told"
  /\ Free("engine")
  /\ pc' = "free_blocks"
  /\ UNCHANGED <<api, world, marked, holder, memory>>

\* mono_unity_liveness_free_struct: the blocks one by one, then Mono's state.
FreeBlocks ==
  /\ pc = "free_blocks"
  /\ \/ \E b \in blocks : Discard(b) /\ UNCHANGED pc
     \/ blocks = {} /\ Free("heap") /\ pc' = "free_state" /\ UNCHANGED memory
  /\ UNCHANGED <<api, world, marked, holder>>

\* The structure of the session is freed, at its end or when begin failed.
FreeState ==
  /\ pc \in {"free_state", "discard"}
  /\ Free("heap")
  /\ pc' = "idle"
  /\ UNCHANGED <<api, world, marked, holder, memory>>

SessionStep == \/ Begin \/ Allocate \/ Tell \/ Stop \/ Calculate \/ Grow
               \/ Finalize \/ Restart \/ Told \/ FreeBlocks \/ FreeState

-----------------------------------------------------------------------------
(* The other threads *)

Runs(t) == t \in Attached => world = "running"

Take(t, lock) ==
  /\ Runs(t)
  /\ Free(lock)
  /\ lock = "gc" => t \in Attached
  /\ holder' = [holder EXCEPT ![lock] = t]
  /\ UNCHANGED <<pc, api, world, marked, memory>>

Release(t, lock) ==
  /\ Runs(t)
  /\ holder[lock] = t
  /\ holder' = [holder EXCEPT ![lock] = None]
  /\ UNCHANGED <<pc, api, world, marked, memory>>

MapOther(t, p) ==
  /\ Runs(t)
  /\ Map(p, 1, Threads)
  /\ others' = others \cup {p}
  /\ UNCHANGED <<pc, api, world, marked, holder, blocks>>

UnmapOther(t, p) ==
  /\ Runs(t)
  /\ p \in others
  /\ owner' = Unmapped(p, 1)
  /\ others' = others \ {p}
  /\ UNCHANGED <<pc, api, world, marked, holder, blocks>>

-----------------------------------------------------------------------------
Init ==
  /\ pc = "idle"
  /\ api = "old"
  /\ world = "running"
  /\ marked = FALSE
  /\ holder = [lock \in Locks |-> None]
  /\ owner = [p \in 0 .. Pages - 1 |-> None]
  /\ blocks = {}
  /\ others = {}

Next ==
  \/ SessionStep
  \/ \E t \in Threads, lock \in Locks : Take(t, lock) \/ Release(t, lock)
  \/ \E t \in Threads, p \in 0 .. Pages - 1 : MapOther(t, p) \/ UnmapOther(t, p)

\* The session's thread runs, and a game has finitely many roots and objects:
\* Unity comes to the end of the traversal.  Nothing is asked of the others.
Fairness == WF_vars(SessionStep) /\ SF_vars(Finalize)

Spec == Init /\ [][Next]_vars /\ Fairness

-----------------------------------------------------------------------------
(* Properties *)

\* While the world is stopped the session never waits for anything, and can end
\* the traversal between any two calls of it: a thread suspended inside malloc or
\* inside one of Unity's locks would keep it, and with it the game, waiting for ever.
NeverWaits == /\ world = "stopped" => ENABLED <<SessionStep>>_vars
              /\ pc = "calculate" => ENABLED <<Finalize>>_vars

\* A stopped world runs again, without a mark of the traversal on its objects,
\* whatever locks its threads were suspended with.
WorldRestarts == world = "stopped" ~> world = "running" /\ ~marked

\* A block Mono holds is mapped as a whole, no page of another thread is ever
\* unmapped by the session, and a session that has freed its blocks leaves no
\* page behind.
PagesAccounted ==
  /\ \A b \in blocks : \A p \in Span(b.base, b.length) : owner[p] = Session
  /\ \A p \in others : owner[p] = Threads
  /\ pc \in {"idle", "free_state"} => \A p \in DOMAIN owner : owner[p] # Session
=============================================================================
