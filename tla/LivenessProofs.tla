--------------------------- MODULE LivenessProofs ----------------------------
(***************************************************************************)
(* The memory of liveness sessions, for any number of threads and pages,   *)
(* any size of a page and of a block.                                      *)
(***************************************************************************)
EXTENDS Liveness, TLAPS

Occupied(b) == Span(b.base, b.length)

\* No page is in two blocks, and the session has no page outside its blocks.
BlocksApart ==
  /\ \A b \in blocks : /\ Occupied(b) \subseteq 0 .. Pages - 1
                       /\ \A p \in Occupied(b) : owner[p] = Session
  /\ \A b, d \in blocks : b # d => Occupied(b) \cap Occupied(d) = {}
  /\ \A p \in 0 .. Pages - 1 : owner[p] = Session => \E b \in blocks : p \in Occupied(b)

\* A session begins, and ends, without blocks.
BlocksGone == pc \in {"idle", "allocate", "discard", "free_state"} => blocks = {}

OthersKeep == \A p \in others : owner[p] = Threads

\* The inductive invariant.
PagesInv == TypeOK /\ BlocksApart /\ BlocksGone /\ OthersKeep

-----------------------------------------------------------------------------
(* Pages                                                                    *)

\* Another thread maps and unmaps page by page.
LEMMA OnePage == ASSUME NEW p \in 0 .. Pages - 1 PROVE Span(p, 1) = {p}
<1>1. Page \in Nat \ {0} /\ p \in Int
  BY LivenessAssumption
<1>2. (1 + Page - 1) \div Page = 1
  <2>1. 1 + Page - 1 = Page
    BY <1>1
  <2>2. Page \div Page = 1
    BY <1>1
  <2>3. QED
    BY <2>1, <2>2
<1>3. QED
  BY <1>1, <1>2 DEF Span, PagesOf

\* What a step of the session's that maps and unmaps nothing keeps.
LEMMA SamePages ==
  ASSUME PagesInv, UNCHANGED memory, TypeOK',
         pc' \in {"idle", "allocate", "discard", "free_state"} => blocks = {}
  PROVE  PagesInv'
<1>1. BlocksApart'
  BY DEF PagesInv, BlocksApart, Occupied, memory
<1>2. BlocksGone'
  BY DEF BlocksGone, memory
<1>3. OthersKeep'
  BY DEF PagesInv, OthersKeep, memory
<1>4. QED
  BY <1>1, <1>2, <1>3 DEF PagesInv

\* What Map does.
LEMMA MapEffect ==
  ASSUME TypeOK, NEW base, NEW length, NEW who \in {Session, None} \cup {Threads},
         Map(base, length, who)
  PROVE  /\ Span(base, length) \subseteq 0 .. Pages - 1
         /\ \A p \in Span(base, length) : owner[p] = None /\ owner'[p] = who
         /\ \A p \in (0 .. Pages - 1) \ Span(base, length) : owner'[p] = owner[p]
         /\ owner' \in [0 .. Pages - 1 -> {Session, None} \cup {Threads}]
BY DEF TypeOK, Map

LEMMA UnmapEffect ==
  ASSUME TypeOK, NEW base, NEW length, owner' = Unmapped(base, length)
  PROVE  /\ \A p \in 0 .. Pages - 1 :
              owner'[p] = IF p \in Span(base, length) THEN None ELSE owner[p]
         /\ owner' \in [0 .. Pages - 1 -> {Session, None} \cup {Threads}]
BY DEF TypeOK, Unmapped

-----------------------------------------------------------------------------
(* The steps                                                                *)

LEMMA NewBlockPages ==
  ASSUME PagesInv, NEW size \in Sizes, NewBlock(size)
  PROVE  /\ BlocksApart' /\ OthersKeep' /\ UNCHANGED others
         /\ owner' \in [0 .. Pages - 1 -> {Session, None} \cup {Threads}]
         /\ blocks' \subseteq [base : 0 .. Pages - 1, length : Nat]
<1>1. PICK base \in DOMAIN owner :
        /\ Map(base, Total(size), Session)
        /\ blocks' = blocks \cup {[base |-> base, length |-> Recorded(size)]}
        /\ UNCHANGED others
  BY DEF NewBlock
<1>2. PICK new : new = [base |-> base, length |-> Recorded(size)]
  OBVIOUS
<1>3. Total(size) \in Nat /\ base \in 0 .. Pages - 1
  BY LivenessAssumption DEF Total, PagesInv, TypeOK
<1>4. /\ Occupied(new) \subseteq 0 .. Pages - 1
      /\ \A p \in Occupied(new) : owner[p] = None /\ owner'[p] = Session
      /\ \A p \in (0 .. Pages - 1) \ Occupied(new) : owner'[p] = owner[p]
      /\ owner' \in [0 .. Pages - 1 -> {Session, None} \cup {Threads}]
  <2>1. Occupied(new) = Span(base, Total(size))
    BY <1>2 DEF Occupied, Recorded
  <2>2. QED
    BY <1>1, <2>1, MapEffect DEF PagesInv
<1>5. Session # None /\ Session # Threads /\ Threads # None
  BY LivenessAssumption
<1>6. \A b \in blocks : /\ Occupied(b) \subseteq 0 .. Pages - 1
                        /\ Occupied(b) \cap Occupied(new) = {}
  BY <1>4, <1>5 DEF PagesInv, BlocksApart
<1>7. BlocksApart'
  <2>1. \A b \in blocks' : /\ Occupied(b) \subseteq 0 .. Pages - 1
                           /\ \A p \in Occupied(b) : owner'[p] = Session
    BY <1>1, <1>2, <1>4, <1>6 DEF PagesInv, BlocksApart
  <2>2. \A b, d \in blocks' : b # d => Occupied(b) \cap Occupied(d) = {}
    BY <1>1, <1>2, <1>6 DEF PagesInv, BlocksApart
  <2>3. \A p \in 0 .. Pages - 1 : owner'[p] = Session => \E b \in blocks' : p \in Occupied(b)
    BY <1>1, <1>2, <1>4 DEF PagesInv, BlocksApart
  <2>4. QED
    BY <2>1, <2>2, <2>3 DEF BlocksApart, Occupied
<1>8. OthersKeep'
  <2>1. \A p \in others : p \in 0 .. Pages - 1 /\ p \notin Occupied(new)
    BY <1>4, <1>5 DEF PagesInv, OthersKeep, TypeOK
  <2>2. QED
    BY <1>1, <1>4, <2>1 DEF PagesInv, OthersKeep
<1>9. blocks' \subseteq [base : 0 .. Pages - 1, length : Nat]
  BY <1>1, <1>3 DEF PagesInv, TypeOK, Recorded
<1>10. QED
  BY <1>1, <1>4, <1>7, <1>8, <1>9

LEMMA CallbackPages ==
  ASSUME PagesInv, Callback
  PROVE  /\ BlocksApart' /\ OthersKeep' /\ UNCHANGED others
         /\ owner' \in [0 .. Pages - 1 -> {Session, None} \cup {Threads}]
         /\ blocks' \subseteq [base : 0 .. Pages - 1, length : Nat]
<1>1. CASE UNCHANGED memory
  BY <1>1 DEF PagesInv, TypeOK, BlocksApart, Occupied, OthersKeep, memory
<1>2. CASE \E size \in Sizes : NewBlock(size)
  BY <1>2, NewBlockPages
<1>3. QED
  BY <1>1, <1>2 DEF Callback, Reallocate

LEMMA DiscardPages ==
  ASSUME PagesInv, NEW b \in blocks, Discard(b)
  PROVE  /\ BlocksApart' /\ OthersKeep' /\ UNCHANGED others /\ blocks' \subseteq blocks
         /\ owner' \in [0 .. Pages - 1 -> {Session, None} \cup {Threads}]
<1>1. blocks' = blocks \ {b} /\ UNCHANGED others
  BY DEF Discard
<1>2. /\ \A p \in 0 .. Pages - 1 : owner'[p] = IF p \in Occupied(b) THEN None ELSE owner[p]
      /\ owner' \in [0 .. Pages - 1 -> {Session, None} \cup {Threads}]
  BY UnmapEffect DEF Discard, Occupied, PagesInv
<1>3. Session # None /\ Session # Threads /\ Threads # None
  BY LivenessAssumption
<1>4. BlocksApart'
  <2>1. \A d \in blocks' : /\ Occupied(d) \subseteq 0 .. Pages - 1
                           /\ \A p \in Occupied(d) : owner'[p] = Session
    BY <1>1, <1>2 DEF PagesInv, BlocksApart
  <2>2. \A d, e \in blocks' : d # e => Occupied(d) \cap Occupied(e) = {}
    BY <1>1 DEF PagesInv, BlocksApart
  <2>3. \A p \in 0 .. Pages - 1 : owner'[p] = Session => \E d \in blocks' : p \in Occupied(d)
    BY <1>1, <1>2, <1>3 DEF PagesInv, BlocksApart
  <2>4. QED
    BY <2>1, <2>2, <2>3 DEF BlocksApart, Occupied
<1>5. OthersKeep'
  BY <1>1, <1>2, <1>3 DEF PagesInv, BlocksApart, OthersKeep, TypeOK
<1>6. QED
  BY <1>1, <1>2, <1>4, <1>5

LEMMA OtherPages ==
  ASSUME PagesInv, NEW t \in Threads, NEW p \in 0 .. Pages - 1, MapOther(t, p) \/ UnmapOther(t, p)
  PROVE  PagesInv'
<1>1. UNCHANGED <<pc, api, world, marked, holder, blocks>>
  BY DEF MapOther, UnmapOther
<1>2. Session # None /\ Session # Threads /\ Threads # None
  BY LivenessAssumption
<1>3. /\ owner' \in [0 .. Pages - 1 -> {Session, None} \cup {Threads}]
      /\ \A q \in (0 .. Pages - 1) \ {p} : owner'[q] = owner[q]
      /\ owner[p] # Session /\ owner'[p] # Session
      /\ others' \subseteq 0 .. Pages - 1
      /\ OthersKeep'
  <2>1. CASE MapOther(t, p)
    <3>1. Map(p, 1, Threads) /\ others' = others \cup {p}
      BY <2>1 DEF MapOther
    <3>2. /\ owner' \in [0 .. Pages - 1 -> {Session, None} \cup {Threads}]
          /\ \A q \in (0 .. Pages - 1) \ {p} : owner'[q] = owner[q]
          /\ owner[p] = None /\ owner'[p] = Threads
      BY <3>1, OnePage, MapEffect DEF PagesInv
    <3>3. QED
      BY <1>2, <3>1, <3>2 DEF PagesInv, OthersKeep, TypeOK
  <2>2. CASE UnmapOther(t, p)
    <3>1. owner' = Unmapped(p, 1) /\ others' = others \ {p} /\ p \in others
      BY <2>2 DEF UnmapOther
    <3>2. /\ owner' \in [0 .. Pages - 1 -> {Session, None} \cup {Threads}]
          /\ \A q \in (0 .. Pages - 1) \ {p} : owner'[q] = owner[q]
          /\ owner[p] = Threads /\ owner'[p] = None
      BY <3>1, OnePage, UnmapEffect DEF PagesInv, OthersKeep
    <3>3. QED
      BY <1>2, <3>1, <3>2 DEF PagesInv, OthersKeep, TypeOK
  <2>3. QED
    BY <2>1, <2>2
<1>4. BlocksApart'
  <2>1. \A b \in blocks : p \notin Occupied(b)
    BY <1>3 DEF PagesInv, BlocksApart
  <2>2. \A b \in blocks : /\ Occupied(b) \subseteq 0 .. Pages - 1
                          /\ \A q \in Occupied(b) : owner'[q] = Session
    BY <1>3, <2>1 DEF PagesInv, BlocksApart
  <2>3. \A q \in 0 .. Pages - 1 : owner'[q] = Session => \E b \in blocks : q \in Occupied(b)
    BY <1>3 DEF PagesInv, BlocksApart
  <2>4. QED
    BY <1>1, <2>2, <2>3 DEF PagesInv, BlocksApart, Occupied
<1>5. BlocksGone'
  BY <1>1 DEF PagesInv, BlocksGone
<1>6. TypeOK'
  BY <1>1, <1>3 DEF PagesInv, TypeOK
<1>7. QED
  BY <1>3, <1>4, <1>5, <1>6 DEF PagesInv

LEMMA SessionPages ==
  ASSUME PagesInv, SessionStep
  PROVE  PagesInv'
<1>1. CASE Begin
  BY <1>1, SamePages DEF Begin, PagesInv, TypeOK, BlocksGone, memory
<1>2. CASE Allocate /\ UNCHANGED memory
  BY <1>2, SamePages DEF Allocate, PagesInv, TypeOK, BlocksGone, memory
<1>3. CASE Tell \/ Told
  BY <1>3, SamePages DEF Tell, Told, PagesInv, TypeOK, memory
<1>4. CASE Calculate \/ Finalize
  BY <1>4, SamePages DEF Calculate, Finalize, PagesInv, TypeOK, memory
<1>5. CASE Stop \/ Restart
  BY <1>5, SamePages DEF Stop, Restart, PagesInv, TypeOK, memory, Locks
<1>6. CASE FreeState
  BY <1>6, SamePages DEF FreeState, PagesInv, TypeOK, BlocksGone, memory
<1>7. CASE (Allocate \/ Grow) /\ Callback /\ pc' \in {"tell", "calculate"}
  <2>1. /\ BlocksApart' /\ OthersKeep' /\ UNCHANGED <<others, api, world, marked, holder>>
        /\ owner' \in [0 .. Pages - 1 -> {Session, None} \cup {Threads}]
        /\ blocks' \subseteq [base : 0 .. Pages - 1, length : Nat]
    BY <1>7, CallbackPages DEF Allocate, Grow
  <2>2. TypeOK' /\ BlocksGone'
    BY <1>7, <2>1 DEF PagesInv, TypeOK, BlocksGone
  <2>3. QED
    BY <2>1, <2>2 DEF PagesInv
<1>8. CASE FreeBlocks
  <2>1. CASE \E b \in blocks : Discard(b) /\ UNCHANGED pc
    <3>1. /\ BlocksApart' /\ OthersKeep' /\ UNCHANGED others /\ blocks' \subseteq blocks
          /\ owner' \in [0 .. Pages - 1 -> {Session, None} \cup {Threads}]
          /\ pc' = pc
      BY <2>1, DiscardPages
    <3>2. TypeOK' /\ BlocksGone'
      BY <1>8, <3>1 DEF FreeBlocks, PagesInv, TypeOK, BlocksGone
    <3>3. QED
      BY <3>1, <3>2 DEF PagesInv
  <2>2. CASE blocks = {} /\ pc' = "free_state" /\ UNCHANGED memory
    BY <1>8, <2>2, SamePages DEF FreeBlocks, PagesInv, TypeOK, memory
  <2>3. QED
    BY <1>8, <2>1, <2>2 DEF FreeBlocks
<1>9. QED
  BY <1>1, <1>2, <1>3, <1>4, <1>5, <1>6, <1>7, <1>8 DEF SessionStep, Allocate, Grow

LEMMA PagesStep == PagesInv /\ [Next]_vars => PagesInv'
<1> SUFFICES ASSUME PagesInv, [Next]_vars
             PROVE  PagesInv'
  OBVIOUS
<1>1. ASSUME NEW t \in Threads, NEW lock \in Locks, Take(t, lock) \/ Release(t, lock)
      PROVE  PagesInv'
  <2>1. UNCHANGED <<pc, memory>>
    BY <1>1 DEF Take, Release
  <2>2. TypeOK'
    BY <1>1 DEF Take, Release, PagesInv, TypeOK, memory
  <2>3. QED
    BY <2>1, <2>2, SamePages DEF PagesInv, BlocksGone
<1>2. CASE UNCHANGED vars
  BY <1>2, SamePages DEF vars, PagesInv, TypeOK, BlocksGone, memory
<1>3. QED
  BY <1>1, <1>2, SessionPages, OtherPages DEF Next

LEMMA PagesInit == Init => PagesInv
BY LivenessAssumption DEF Init, PagesInv, TypeOK, BlocksApart, BlocksGone, OthersKeep, Locks

-----------------------------------------------------------------------------
(* The theorems                                                             *)

LEMMA PagesCorrect == Spec => []PagesInv
BY PagesInit, PagesStep, PTL DEF Spec

\* The variables keep their types.
THEOREM SessionTypes == Spec => []TypeOK
<1>1. PagesInv => TypeOK
  BY DEF PagesInv
<1>2. QED
  BY <1>1, PagesCorrect, PTL

\* The length in front of a block gives back every page of it and no page of
\* somebody else, and a session that has ended has none left.
THEOREM AllPagesAccounted == Spec => []PagesAccounted
<1>1. PagesInv => PagesAccounted
  <2>1. ASSUME PagesInv, pc \in {"idle", "free_state"}, NEW p \in DOMAIN owner
        PROVE  owner[p] # Session
    BY <2>1 DEF PagesInv, TypeOK, BlocksApart, BlocksGone
  <2>2. QED
    BY <2>1 DEF PagesInv, BlocksApart, OthersKeep, Occupied, PagesAccounted
<1>2. QED
  BY <1>1, PagesCorrect, PTL

-----------------------------------------------------------------------------
(* The stopped world                                                        *)

\* The session holds LOCK_GC exactly as long as the world is stopped, and only
\* then may objects be marked.
StopInv ==
  /\ world = "stopped" <=> pc \in {"calculate", "grow", "restart"}
  /\ world = "stopped" <=> holder["gc"] = Session
  /\ marked => pc \in {"calculate", "grow"}

LEMMA StopInit == Init => StopInv
BY LivenessAssumption DEF Init, StopInv, Locks

LEMMA StopStep == PagesInv /\ StopInv /\ [Next]_vars => StopInv'
<1> SUFFICES ASSUME PagesInv, StopInv, [Next]_vars
             PROVE  StopInv'
  OBVIOUS
<1> USE DEF StopInv
<1>1. "gc" \in Locks /\ holder \in [Locks -> Threads \cup {Session, None}]
      /\ world \in {"running", "stopped"} /\ marked \in BOOLEAN
      /\ Session # None /\ Session \notin Threads
  BY LivenessAssumption DEF PagesInv, TypeOK, Locks
<1>2. CASE Begin \/ Allocate \/ Tell
  BY <1>2 DEF Begin, Allocate, Tell
<1>3. CASE Stop
  BY <1>1, <1>3 DEF Stop
<1>4. CASE Calculate \/ Grow \/ Finalize
  BY <1>4 DEF Calculate, Grow, Finalize
<1>5. CASE Restart
  BY <1>1, <1>5 DEF Restart
<1>6. CASE Told \/ FreeBlocks \/ FreeState
  BY <1>6 DEF Told, FreeBlocks, FreeState
<1>7. ASSUME NEW t \in Threads, NEW lock \in Locks, Take(t, lock) \/ Release(t, lock)
      PROVE  StopInv'
  <2>1. UNCHANGED <<pc, world, marked>>
    BY <1>7 DEF Take, Release
  <2>2. holder'["gc"] = Session <=> holder["gc"] = Session
    BY <1>1, <1>7 DEF Take, Release, Free
  <2>3. QED
    BY <2>1, <2>2
<1>8. CASE \E t \in Threads, p \in 0 .. Pages - 1 : MapOther(t, p) \/ UnmapOther(t, p)
  BY <1>8 DEF MapOther, UnmapOther
<1>9. CASE UNCHANGED vars
  BY <1>9 DEF vars
<1>10. QED
  BY <1>2, <1>3, <1>4, <1>5, <1>6, <1>7, <1>8, <1>9 DEF Next, SessionStep

\* The threads of the game never run while objects carry the marks of a
\* traversal, and none of them has LOCK_GC while the world is stopped: what
\* WorldRestarts means by a world that runs again is all a thread ever sees.
THEOREM MarksAreNeverSeen ==
  Spec => [](/\ world = "running" => ~marked
             /\ world = "stopped" => \A t \in Threads : holder["gc"] # t)
<1>1. PagesInv /\ StopInv => /\ world = "running" => ~marked
                             /\ world = "stopped" => \A t \in Threads : holder["gc"] # t
  BY LivenessAssumption DEF StopInv
<1>2. QED
  BY <1>1, PagesCorrect, StopInit, StopStep, PTL DEF Spec

\* The state that a step of a stopped session may lead to: the traversal ends,
\* the callback finds no memory, the world runs.
Onward ==
  CASE pc = "calculate" -> <<"restart", api, world, FALSE, holder, owner, blocks, others>>
    [] pc = "grow"      -> <<"calculate", api, world, marked, holder, owner, blocks, others>>
    [] pc = "restart"   -> <<"told", api, "running", marked, [holder EXCEPT !["gc"] = None],
                             owner, blocks, others>>

\* A stopped session can always go on to that state, in which it is not yet,
\* whatever locks the suspended threads hold, and that step ends a traversal under
\* way: what NeverWaits says with ENABLED.
THEOREM StoppedGoesOn ==
  Spec => [](world = "stopped" => Onward # vars)
          /\ [][world = "stopped" /\ vars' = Onward
                 => SessionStep /\ (pc = "calculate" => Finalize)]_vars
<1>1. StopInv => (world = "stopped" => Onward # vars)
  <2> SUFFICES ASSUME StopInv, world = "stopped"
               PROVE  Onward # vars
    OBVIOUS
  <2>1. CASE pc = "calculate"
    BY <2>1 DEF Onward, vars
  <2>2. CASE pc = "grow"
    BY <2>2 DEF Onward, vars
  <2>3. CASE pc = "restart"
    BY <2>3 DEF Onward, vars
  <2>4. QED
    BY <2>1, <2>2, <2>3 DEF StopInv
<1>2. ASSUME StopInv, world = "stopped", vars' = Onward
      PROVE  SessionStep /\ (pc = "calculate" => Finalize)
  <2>1. CASE pc = "calculate"
    <3>1. Finalize
      BY <1>2, <2>1 DEF Onward, vars, Finalize, memory
    <3>2. QED
      BY <3>1 DEF SessionStep
  <2>2. CASE pc = "grow"
    <3>1. pc' = "calculate" /\ UNCHANGED <<api, world, marked, holder, memory>>
      BY <1>2, <2>2 DEF Onward, vars, memory
    <3>2. Callback
      BY <3>1, LivenessAssumption DEF Callback, Reallocate
    <3>3. QED
      BY <2>2, <3>1, <3>2 DEF Grow, SessionStep
  <2>3. CASE pc = "restart"
    <3>1. Restart
      BY <1>2, <2>3 DEF Onward, vars, Restart, memory
    <3>2. QED
      BY <2>3, <3>1 DEF SessionStep
  <2>4. QED
    BY <1>2, <2>1, <2>2, <2>3 DEF StopInv
<1>3. QED
  BY <1>1, <1>2, PagesCorrect, StopInit, StopStep, PTL DEF Spec

\* A session that is not stopped for ever: from the traversal on, the session's
\* own steps lead to a world that runs without marks, and nobody else's lead away.
LEMMA TowardsRestart ==
  ASSUME PagesInv, StopInv, [Next]_vars
  PROVE  /\ pc = "calculate" => pc' \in {"calculate", "grow", "restart"}
         /\ pc = "grow" => pc' \in {"grow", "calculate"}
         /\ pc = "restart" => \/ pc' = "restart"
                              \/ (world' = "running" /\ ~marked')
         /\ <<SessionStep>>_vars => /\ pc = "grow" => pc' = "calculate"
                                    /\ pc = "restart" => world' = "running" /\ ~marked'
         /\ <<Finalize>>_vars => pc' = "restart"
<1>1. /\ SessionStep /\ pc = "grow" => pc' = "calculate"
      /\ SessionStep /\ pc = "restart" => world' = "running" /\ ~marked'
      /\ SessionStep /\ pc = "calculate" => pc' \in {"calculate", "grow", "restart"}
      /\ Finalize => pc' = "restart"
  BY DEF SessionStep, Begin, Allocate, Tell, Stop, Calculate, Grow, Finalize, Restart, Told,
         FreeBlocks, FreeState, StopInv
<1>2. SessionStep \/ pc' = pc
  BY DEF Next, Take, Release, MapOther, UnmapOther, vars
<1>3. QED
  BY <1>1, <1>2

\* A stopped world runs again, without a mark on its objects: the traversal comes
\* to its end, after which the session has one step to go, which waits for nobody.
\* That the session can take its steps is NeverWaits, which TLC checks and
\* StoppedGoesOn says without ENABLED.
THEOREM StoppedWorldRestarts == Spec /\ []NeverWaits => WorldRestarts
<1> DEFINE Stopped == world = "stopped"
           Calculating == pc = "calculate"
           Growing == pc = "grow"
           Restarting == pc = "restart"
           Running == world = "running" /\ ~marked
           Inv == PagesInv /\ StopInv
<1>1. Inv => (Stopped <=> Calculating \/ Growing \/ Restarting)
  BY DEF StopInv
<1>2. Inv /\ [Next]_vars =>
        /\ Calculating => Calculating' \/ Growing' \/ Restarting'
        /\ Growing => Growing' \/ Calculating'
        /\ Restarting => Restarting' \/ Running'
        /\ <<SessionStep>>_vars => (Growing => Calculating') /\ (Restarting => Running')
        /\ <<Finalize>>_vars => Restarting'
  BY TowardsRestart
<1>3. NeverWaits => /\ Stopped => ENABLED <<SessionStep>>_vars
                    /\ Calculating => ENABLED <<Finalize>>_vars
  BY DEF NeverWaits
<1>4. Spec => []Inv
  BY PagesCorrect, StopInit, StopStep, PTL DEF Spec
<1> HIDE DEF Stopped, Calculating, Growing, Restarting, Running, Inv
<1>5. Spec /\ []NeverWaits => (Stopped ~> Running)
  BY <1>1, <1>2, <1>3, <1>4, PTL DEF Spec, Fairness
<1>6. QED
  BY <1>5 DEF WorldRestarts, Stopped, Running
=============================================================================
