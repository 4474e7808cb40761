-------------------------- MODULE DetourPatchProofs --------------------------
(***************************************************************************)
(* Detours against the processors that execute the code, for any number of *)
(* patchers, processors, functions, targets and islands.                   *)
(***************************************************************************)
EXTENDS DetourPatch, TLAPS

\* The steps under arena_mutex, and those of them that build an island.
Building == {"code", "literal", "flush island", "invalidate island"}
Storing == {"flush source", "invalidate source"}
Holding == {"choose", "store", "unlock"} \cup Building \cup Storing

\* The mutex has one holder.
Exclusive == \A p \in Patchers : lock = p <=> pc[p] \in Holding

\* Where a branch with destination d leads.
Dest(d) == IF d \in Slots THEN island[d] ELSE d

\* An island every processor sees as a whole.
Whole(slot) ==
  /\ island[slot] # None
  /\ written[slot] = Trampoline
  /\ seen[slot] = Trampoline
  /\ written[Literal(slot)] = island[slot]
  /\ seen[Literal(slot)] = island[slot]

\* A branch that leads somewhere.
Sound(d) == d \in Near \cup {Original} \/ (d \in Slots /\ Whole(d))

\* The instructions a processor may execute at the start of function s.
Held(c, s) == {written[s], seen[s]} \cup ({cached[c][s]} \ {None})

\* Islands are built by the holder of the mutex, and their words change once.
SlotOK(slot) ==
  /\ written[slot] \in {None, Trampoline}
  /\ seen[slot] \in {None, written[slot]}
  /\ \A c \in Cpus : cached[c][slot] \in {None, written[slot]}
  /\ written[Literal(slot)] \in {None, island[slot]}
  /\ seen[Literal(slot)] \in {None, written[Literal(slot)]}
  /\ island[slot] = None => written[slot] = None
  /\ \/ island[slot] = None
     \/ Whole(slot)
     \/ \E p \in Patchers : pc[p] \in Building /\ branch[p] = slot

\* How far the island of patcher p is.
BuilderOK(p) ==
  /\ pc[p] \in Building => branch[p] \in Slots /\ island[branch[p]] = target[p]
  /\ pc[p] \in Building \ {"code"} => written[branch[p]] = Trampoline
  /\ pc[p] \in {"flush island", "invalidate island"} => written[Literal(branch[p])] = target[p]
  /\ pc[p] = "invalidate island" => Whole(branch[p])

\* What is stored leads to what was asked for.
StoreOK(p) ==
  /\ pc[p] = "store" => Sound(branch[p]) /\ Dest(branch[p]) = target[p]
  /\ pc[p] \in Storing => /\ Sound(written[source[p]])
                         /\ Dest(written[source[p]]) = target[p]
  /\ pc[p] = "invalidate source" => seen[source[p]] = written[source[p]]

\* So does what a processor may still hold, when nobody stores.
HeldOK(c, s) == \A d \in Held(c, s) : Sound(d) /\ Dest(d) \in {settled[s]} \cup UnderWay(s)

Calm(s) == (\A p \in Patchers : ~(source[p] = s /\ pc[p] \in Storing)) =>
             /\ seen[s] = written[s]
             /\ \A c \in Cpus : cached[c][s] \in {None, written[s]}

\* A call under way goes where it may go, whichever of the instructions that
\* are held it executes.
CallOK(c) ==
  /\ landed[c] # None => place[c] = None /\ landed[c] \in asked[c]
  /\ place[c] \in Sources => \A d \in Held(c, place[c]) : Dest(d) \in asked[c]
  /\ \A slot \in Slots : place[c] \in {slot, Literal(slot)} =>
       Whole(slot) /\ island[slot] \in asked[c]

Islands == (\A slot \in Slots : SlotOK(slot)) /\ (\A p \in Patchers : BuilderOK(p))
Branches == /\ \A p \in Patchers : StoreOK(p)
            /\ \A c \in Cpus, s \in Sources : HeldOK(c, s)
            /\ \A s \in Sources : Calm(s)
Calls == \A c \in Cpus : CallOK(c)

\* The inductive invariant.
DetourInv == TypeOK /\ Exclusive /\ Islands /\ Branches /\ Calls

-----------------------------------------------------------------------------
(* Types, and the mutex                                                     *)

LEMMA WordFacts ==
  /\ \A slot \in Slots : Literal(slot) \in Words /\ slot \in Words /\ slot \in Code
                         /\ slot \notin Sources
  /\ \A s \in Sources : s \in Words /\ s \in Code
  /\ \A slot, other \in Slots : Literal(slot) # other
  /\ \A slot, other \in Slots : Literal(slot) = Literal(other) => slot = other
  /\ \A slot \in Slots, s \in Sources : Literal(slot) # s
  BY DetourAssumption DEF Words, Code, Literal

LEMMA PatchTypes ==
  ASSUME TypeOK, NEW p \in Patchers, Patch(p)
  PROVE  TypeOK'
<1>1. CASE Lock(p)
  BY <1>1 DEF TypeOK, Lock, At, Goto, memory, cpu
<1>2. CASE Reuse(p)
  BY <1>2 DEF TypeOK, Reuse, At, Goto, memory, cpu
<1>3. CASE NewIsland(p)
  BY <1>3 DEF TypeOK, NewIsland, At, Goto, memory, cpu
<1>4. CASE WriteCode(p)
  BY <1>4 DEF TypeOK, WriteCode, At, Goto, Write, cpu, Content
<1>5. CASE WriteLiteral(p)
  BY <1>5 DEF TypeOK, WriteLiteral, At, Goto, Write, cpu, Content, Targets
<1>6. CASE FlushIsland(p)
  BY <1>6 DEF TypeOK, FlushIsland, At, Goto, FlushData, cpu
<1>7. CASE InvalidateIsland(p)
  BY <1>7 DEF TypeOK, InvalidateIsland, At, Goto, InvalidateCode, cpu, Content
<1>8. CASE Store(p)
  <2>1. written' \in [Words -> Content]
    BY <1>8 DEF TypeOK, Store, Write, Content
  <2>2. asked' \in [Cpus -> SUBSET (Targets \cup {Original})]
    BY <1>8 DEF TypeOK, Store
  <2>3. QED
    BY <1>8, <2>1, <2>2 DEF TypeOK, Store, At, Goto
<1>9. CASE FlushSource(p)
  BY <1>9 DEF TypeOK, FlushSource, At, Goto, FlushData, cpu
<1>10. CASE InvalidateSource(p)
  BY <1>10 DEF TypeOK, InvalidateSource, At, Goto, InvalidateCode, cpu, Content
<1>11. CASE Unlock(p)
  BY <1>11 DEF TypeOK, Unlock, At, Goto, memory, cpu
<1>12. QED
  BY <1>1, <1>2, <1>3, <1>4, <1>5, <1>6, <1>7, <1>8, <1>9, <1>10, <1>11 DEF Patch

LEMMA CpuTypes ==
  ASSUME TypeOK, NEW c \in Cpus, Execute(c) \/ \E s \in Sources : Call(c, s)
  PROVE  TypeOK'
<1>1. CASE ExecuteSource(c)
  <2>1. \A i \in Fetched(c, place[c]) : i \in Content
    <3>1. place[c] \in Words /\ place[c] \in Code
      BY <1>1 DEF ExecuteSource, Words, Code
    <3>2. seen[place[c]] \in Content /\ cached[c][place[c]] \in Content
      BY <3>1 DEF TypeOK
    <3>3. QED
      BY <3>2 DEF Fetched
  <2>2. PICK i \in Fetched(c, place[c]) :
          \/ i \in Slots /\ place' = [place EXCEPT ![c] = i] /\ UNCHANGED landed
          \/ i \notin Slots /\ Land(c, i)
    BY <1>1 DEF ExecuteSource
  <2>3. place' \in [Cpus -> Words \cup {None}]
    BY <2>2, WordFacts DEF TypeOK, Land
  <2>4. landed' \in [Cpus -> Content \cup {Garbage}]
    BY <2>1, <2>2 DEF TypeOK, Land
  <2>5. QED
    BY <1>1, <2>3, <2>4 DEF TypeOK, ExecuteSource, call, memory
<1>2. CASE ExecuteIsland(c)
  BY <1>2, WordFacts DEF TypeOK, ExecuteIsland, Land, call, memory
<1>3. CASE LoadLiteral(c)
  BY <1>3, WordFacts DEF TypeOK, LoadLiteral, Land, call, memory
<1>4. CASE Return(c)
  BY <1>4 DEF TypeOK, Return, Content, call, memory
<1>5. CASE \E s \in Sources : Call(c, s)
  <2>1. PICK s \in Sources : Call(c, s)
    BY <1>5
  <2>2. UnderWay(s) \subseteq Targets \cup {Original}
    BY DEF TypeOK, UnderWay
  <2>3. asked' \in [Cpus -> SUBSET (Targets \cup {Original})]
    BY <2>1, <2>2 DEF TypeOK, Call
  <2>4. QED
    BY <2>1, <2>3, WordFacts DEF TypeOK, Call, call, memory
<1>6. QED
  BY <1>1, <1>2, <1>3, <1>4, <1>5 DEF Execute

LEMMA TypesStep == TypeOK /\ [Next]_vars => TypeOK'
<1>1. ASSUME TypeOK, NEW p \in Patchers, NEW s \in Sources, NEW t \in Targets \cup {Original},
             Begin(p, s, t)
      PROVE  TypeOK'
  <2>1. ops' \in [Patchers -> 0 .. MaxOps]
    <3>0. ops \in [Patchers -> 0 .. MaxOps]
      BY <1>1, Zenon DEF TypeOK
    <3>1. ops[p] \in 0 .. MaxOps
      BY <3>0, Zenon
    <3>2. ops[p] < MaxOps
      BY <1>1 DEF Begin
    <3>3. ops[p] + 1 \in 0 .. MaxOps
      BY <3>1, <3>2, DetourAssumption
    <3>4. QED
      BY <1>1, <3>0, <3>3 DEF Begin
  <2>2. QED
    BY <1>1, <2>1 DEF TypeOK, Begin, Goto, memory, cpu
<1>2. ASSUME TypeOK, NEW w \in Words, Propagate(w)
      PROVE  TypeOK'
  BY <1>2 DEF TypeOK, Propagate, call, cpu
<1>3. ASSUME TypeOK, NEW c \in Cpus, NEW a \in Code, Prefetch(c, a)
      PROVE  TypeOK'
  BY <1>3 DEF TypeOK, Prefetch, call, cpu, Words
<1>4. ASSUME TypeOK, UNCHANGED vars
      PROVE  TypeOK'
  BY <1>4 DEF TypeOK, vars, call, memory, cpu
<1>5. QED
  BY <1>1, <1>2, <1>3, <1>4, PatchTypes, CpuTypes DEF Next

LEMMA ExclusiveStep == TypeOK /\ Exclusive /\ [Next]_vars => Exclusive'
<1> SUFFICES ASSUME TypeOK, Exclusive, [Next]_vars
             PROVE  Exclusive'
  OBVIOUS
<1>0. /\ None \notin Patchers
      /\ lock \in Patchers \cup {None}
      /\ DOMAIN pc = Patchers
      /\ pc = [q \in Patchers |-> pc[q]]
  BY DetourAssumption DEF TypeOK
<1>1. ASSUME NEW p \in Patchers, Lock(p)
      PROVE  Exclusive'
  <2>1. lock = None /\ lock' = p /\ pc' = [pc EXCEPT ![p] = "choose"]
    BY <1>1 DEF Lock, Goto
  <2>2. "choose" \in Holding
    BY DEF Holding
  <2>3. QED
    BY <1>0, <2>1, <2>2 DEF Exclusive
<1>2. ASSUME NEW p \in Patchers, Unlock(p)
      PROVE  Exclusive'
  <2>1. pc[p] = "unlock" /\ lock' = None /\ pc' = [pc EXCEPT ![p] = "idle"]
    BY <1>2 DEF Unlock, At, Goto
  <2>2. "unlock" \in Holding /\ "idle" \notin Holding
    BY DEF Holding, Building, Storing
  <2>3. QED
    BY <1>0, <2>1, <2>2 DEF Exclusive
<1>3. ASSUME NEW p \in Patchers, NEW s \in Sources, NEW t \in Targets \cup {Original},
             Begin(p, s, t)
      PROVE  Exclusive'
  <2>1. pc[p] = "idle" /\ lock' = lock /\ pc' = [pc EXCEPT ![p] = "lock"]
    BY <1>3 DEF Begin, At, Goto
  <2>2. "lock" \notin Holding /\ "idle" \notin Holding
    BY DEF Holding, Building, Storing
  <2>3. QED
    BY <1>0, <2>1, <2>2 DEF Exclusive
<1>4. ASSUME NEW p \in Patchers, Patch(p), ~Lock(p), ~Unlock(p)
      PROVE  Exclusive'
  <2>1. pc[p] \in Holding /\ lock' = lock
    BY <1>4 DEF Patch, Reuse, NewIsland, WriteCode, WriteLiteral, FlushIsland, InvalidateIsland,
                Store, FlushSource, InvalidateSource, At, Holding, Building, Storing
  <2>2. \E step \in Holding : pc' = [pc EXCEPT ![p] = step]
    BY <1>4 DEF Patch, Reuse, NewIsland, WriteCode, WriteLiteral, FlushIsland, InvalidateIsland,
                Store, FlushSource, InvalidateSource, Goto, Holding, Building, Storing
  <2>3. QED
    BY <1>0, <2>1, <2>2 DEF Exclusive
<1>5. ASSUME UNCHANGED <<lock, pc>>
      PROVE  Exclusive'
  BY <1>5 DEF Exclusive
<1>6. QED
  BY <1>1, <1>2, <1>3, <1>4, <1>5 DEF Next, Propagate, Prefetch, Call, Execute, ExecuteSource,
     ExecuteIsland, LoadLiteral, Return, vars, call

-----------------------------------------------------------------------------
(* Islands                                                                  *)

\* A patcher in the middle of its call is alone.
LEMMA Alone ==
  ASSUME Exclusive, NEW p \in Patchers, NEW q \in Patchers, pc[p] \in Holding, pc[q] \in Holding
  PROVE  p = q
BY DEF Exclusive

LEMMA HoldingSteps ==
  /\ Building \subseteq Holding /\ Storing \subseteq Holding
  /\ {"choose", "store", "unlock"} \subseteq Holding
  /\ {"idle", "lock"} \cap Holding = {}
BY DEF Holding, Building, Storing

\* What the stores, flushes and fetches of a step may do to memory.
Spread ==
  /\ \A w \in Words : seen'[w] \in {seen[w], written[w]}
  /\ \A c \in Cpus, a \in Code : cached'[c][a] \in {None, cached[c][a], seen[a]}

LEMMA UnchangedSpreads == UNCHANGED <<seen, cached>> => Spread
BY DEF Spread

LEMMA FlushSpreads ==
  ASSUME NEW words, FlushData(words), UNCHANGED cached
  PROVE  Spread
BY DEF Spread, FlushData

LEMMA InvalidateSpreads ==
  ASSUME TypeOK, NEW address, InvalidateCode(address), UNCHANGED seen
  PROVE  Spread
<1>1. \A c \in Cpus, a \in Code : cached'[c][a] \in {None, cached[c][a]}
  BY DEF TypeOK, InvalidateCode
<1>2. QED
  BY <1>1 DEF Spread

LEMMA PropagateSpreads == ASSUME TypeOK, NEW w \in Words, Propagate(w) PROVE Spread
BY DEF TypeOK, Propagate, Spread

LEMMA PrefetchSpreads ==
  ASSUME TypeOK, NEW c \in Cpus, NEW a \in Code, Prefetch(c, a) PROVE Spread
<1>1. \A d \in Cpus, b \in Code : cached'[d][b] \in {cached[d][b], seen[b]}
  BY DEF TypeOK, Prefetch
<1>2. QED
  BY <1>1 DEF Prefetch, Spread

\* An island is whole for ever.
LEMMA WholeStays ==
  ASSUME TypeOK, NEW slot \in Slots, Whole(slot), Spread,
         island'[slot] = island[slot], written'[slot] = written[slot],
         written'[Literal(slot)] = written[Literal(slot)]
  PROVE  Whole(slot)'
<1>1. /\ seen'[slot] \in {seen[slot], written[slot]}
      /\ seen'[Literal(slot)] \in {seen[Literal(slot)], written[Literal(slot)]}
  BY WordFacts DEF Spread
<1>2. QED
  BY <1>1 DEF Whole

\* A slot nobody builds in is as good as it was.
LEMMA SlotKept ==
  ASSUME TypeOK, NEW slot \in Slots, SlotOK(slot), Spread,
         island'[slot] = island[slot], written'[slot] = written[slot],
         written'[Literal(slot)] = written[Literal(slot)],
         \A p \in Patchers : pc[p] \in Building /\ branch[p] = slot =>
            Whole(slot)' \/ (pc'[p] \in Building /\ branch'[p] = slot)
  PROVE  SlotOK(slot)'
<1>1. /\ seen'[slot] \in {seen[slot], written[slot]}
      /\ seen'[Literal(slot)] \in {seen[Literal(slot)], written[Literal(slot)]}
      /\ \A c \in Cpus : cached'[c][slot] \in {None, cached[c][slot], seen[slot]}
  BY WordFacts DEF Spread
<1>2. \/ island'[slot] = None
      \/ Whole(slot)'
      \/ \E p \in Patchers : pc'[p] \in Building /\ branch'[p] = slot
  BY WholeStays DEF SlotOK
<1>3. QED
  BY <1>1, <1>2 DEF SlotOK

\* Steps that store nothing in islands: every word of an island as before.
SameIslands == /\ UNCHANGED island
               /\ \A slot \in Slots : /\ written'[slot] = written[slot]
                                      /\ written'[Literal(slot)] = written[Literal(slot)]

\* What is known after every step.
Stable == \A slot \in Slots : Whole(slot) => Whole(slot)' /\ island'[slot] = island[slot]

LEMMA SameStable == TypeOK /\ Spread /\ SameIslands => Stable
BY WholeStays DEF SameIslands, Stable

\* Steps of somebody who builds no island.
LEMMA OthersIslands ==
  ASSUME TypeOK, Islands, Spread, SameIslands,
         \A p \in Patchers : pc[p] \in Building \/ pc'[p] \in Building =>
           pc'[p] = pc[p] /\ branch'[p] = branch[p] /\ target'[p] = target[p]
  PROVE  Islands'
<1>1. ASSUME NEW slot \in Slots
      PROVE  SlotOK(slot)'
  BY SlotKept DEF SameIslands, Islands
<1>2. ASSUME NEW p \in Patchers
      PROVE  BuilderOK(p)'
  <2>1. CASE pc'[p] \in Building
    <3>1. /\ pc'[p] = pc[p] /\ branch'[p] = branch[p] /\ target'[p] = target[p]
          /\ branch[p] \in Slots
          /\ BuilderOK(p)
      BY <2>1 DEF Islands, BuilderOK
    <3>2. PICK slot \in Slots : slot = branch[p]
      BY <3>1
    <3>3. /\ island'[slot] = island[slot]
          /\ written'[slot] = written[slot]
          /\ written'[Literal(slot)] = written[Literal(slot)]
          /\ Whole(slot) => Whole(slot)'
      BY SameStable DEF SameIslands, Stable
    <3>4. branch'[p] = slot
      BY <3>1, <3>2
    <3>5. QED
      BY <3>1, <3>2, <3>3, <3>4 DEF BuilderOK
  <2>2. CASE pc'[p] \notin Building
    BY <2>2 DEF BuilderOK, Building
  <2>3. QED
    BY <2>1, <2>2
<1>3. QED
  BY <1>1, <1>2 DEF Islands

LEMMA Others ==
  ASSUME TypeOK, Exclusive, NEW p \in Patchers, pc[p] \in Holding, NEW step, Goto(p, step)
  PROVE  /\ pc'[p] = step
         /\ \A q \in Patchers \ {p} : pc'[q] = pc[q] /\ pc[q] \notin Holding /\ BuilderOK(q)'
<1>1. /\ pc'[p] = step
      /\ \A q \in Patchers \ {p} : pc'[q] = pc[q]
  BY DEF TypeOK, Goto
<1>2. \A q \in Patchers \ {p} : pc[q] \notin Holding
  BY Alone
<1>3. \A q \in Patchers \ {p} : pc'[q] \notin Building
  BY <1>1, <1>2, HoldingSteps
<1>4. \A q \in Patchers \ {p} : BuilderOK(q)'
  BY <1>3 DEF BuilderOK, Building
<1>5. QED
  BY <1>1, <1>2, <1>4

\* The holder of the mutex builds in slot b, or is about to.
LEMMA BuiltIslands ==
  ASSUME TypeOK, Exclusive, Islands, Spread, NEW p \in Patchers, pc[p] \in Holding,
         NEW step, Goto(p, step), NEW b \in Slots, SlotOK(b)', BuilderOK(p)',
         Whole(b) => Whole(b)' /\ island'[b] = island[b],
         pc[p] \in Building => branch[p] = b,
         \A slot \in Slots \ {b} : island'[slot] = island[slot],
         \A w \in Words \ {b, Literal(b)} : written'[w] = written[w]
  PROVE  Islands' /\ Stable
<1>1. ASSUME NEW slot \in Slots \ {b}
      PROVE  /\ SlotOK(slot)'
             /\ Whole(slot) => Whole(slot)' /\ island'[slot] = island[slot]
  <2>1. slot \in Words \ {b, Literal(b)} /\ Literal(slot) \in Words \ {b, Literal(b)}
    BY WordFacts
  <2>2. /\ island'[slot] = island[slot] /\ written'[slot] = written[slot]
        /\ written'[Literal(slot)] = written[Literal(slot)]
    BY <2>1
  <2>3. \A q \in Patchers : ~(pc[q] \in Building /\ branch[q] = slot)
    BY Alone, HoldingSteps
  <2>4. SlotOK(slot)'
    BY <2>2, <2>3, SlotKept DEF Islands
  <2>5. QED
    BY <2>2, <2>4, WholeStays
<1>2. \A slot \in Slots : SlotOK(slot)'
  BY <1>1
<1>3. \A q \in Patchers : BuilderOK(q)'
  BY Others
<1>4. \A slot \in Slots : Whole(slot) => Whole(slot)' /\ island'[slot] = island[slot]
  BY <1>1
<1>5. QED
  BY <1>2, <1>3, <1>4 DEF Islands, Stable

LEMMA Asked ==
  ASSUME TypeOK, Islands, NEW p \in Patchers, pc[p] \in Building
  PROVE  /\ branch[p] \in Slots /\ SlotOK(branch[p]) /\ BuilderOK(p)
         /\ island[branch[p]] = target[p] /\ target[p] # None
<1>1. branch[p] \in Slots /\ island[branch[p]] = target[p] /\ BuilderOK(p)
  BY DEF Islands, BuilderOK
<1>2. target[p] # None
  BY DetourAssumption DEF TypeOK
<1>3. QED
  BY <1>1, <1>2 DEF Islands

LEMMA NewIslandIslands ==
  ASSUME TypeOK, Exclusive, Islands, NEW p \in Patchers, NewIsland(p)
  PROVE  Islands' /\ Stable
<1>1. pc[p] = "choose" /\ UNCHANGED <<written, seen, cached, target>> /\ Spread
  BY UnchangedSpreads DEF NewIsland, At, memory
<1>2. pc[p] \in Holding /\ pc[p] \notin Building
  BY <1>1 DEF Holding, Building
<1>3. ASSUME NEW b \in Slots, island[b] = None, island' = [island EXCEPT ![b] = target[p]],
             branch' = [branch EXCEPT ![p] = b], Goto(p, "code")
      PROVE  Islands' /\ Stable
  <2>1. /\ island'[b] = target[p] /\ target[p] # None
        /\ \A slot \in Slots \ {b} : island'[slot] = island[slot]
    BY <1>3, DetourAssumption DEF TypeOK
  <2>2. pc'[p] = "code" /\ branch'[p] = b /\ target'[p] = target[p]
    BY <1>1, <1>2, <1>3, Others DEF TypeOK
  <2>3. SlotOK(b)'
    <3>1. /\ written[b] = None /\ written[Literal(b)] = None
          /\ seen[b] = None /\ seen[Literal(b)] = None
          /\ \A c \in Cpus : cached[c][b] = None
      BY <1>3 DEF Islands, SlotOK
    <3>2. pc'[p] \in Building
      BY <2>2 DEF Building
    <3>3. QED
      BY <1>1, <2>1, <2>2, <3>1, <3>2 DEF SlotOK
  <2>4. BuilderOK(p)'
    BY <2>1, <2>2 DEF BuilderOK, Building
  <2>5. ~Whole(b)
    BY <1>3 DEF Whole
  <2>6. QED
    BY <1>1, <1>2, <1>3, <2>1, <2>3, <2>4, <2>5, BuiltIslands
<1>4. ASSUME Goto(p, "unlock"), UNCHANGED <<island, branch>>
      PROVE  Islands' /\ Stable
  <2>1. SameIslands
    BY <1>1, <1>4 DEF SameIslands
  <2>2. \A q \in Patchers : pc[q] \notin Building /\ pc'[q] \notin Building
    <3>1. "unlock" \notin Building
      BY DEF Building
    <3>2. QED
      BY <1>2, <1>4, <3>1, Others, HoldingSteps
  <2>3. QED
    BY <1>1, <2>1, <2>2, OthersIslands, SameStable
<1>5. QED
  BY <1>3, <1>4 DEF NewIsland

LEMMA WriteCodeIslands ==
  ASSUME TypeOK, Exclusive, Islands, NEW p \in Patchers, WriteCode(p)
  PROVE  Islands' /\ Stable
<1>1. pc[p] = "code" /\ Goto(p, "literal") /\ UNCHANGED <<island, seen, cached, target, branch>>
  BY DEF WriteCode, At
<1>2. PICK b \in Slots : b = branch[p]
  BY <1>1, Asked DEF Building
<1>3. /\ pc[p] \in Building /\ pc[p] \in Holding /\ Spread
      /\ SlotOK(b) /\ BuilderOK(p) /\ island[b] = target[p] /\ target[p] # None
  BY <1>1, <1>2, Asked, HoldingSteps, UnchangedSpreads DEF Building
<1>4. /\ written'[b] = Trampoline
      /\ \A w \in Words \ {b} : written'[w] = written[w]
  BY <1>2, WordFacts DEF TypeOK, WriteCode, Write
<1>5. pc'[p] = "literal" /\ branch'[p] = b
  BY <1>1, <1>2, <1>3, Others
<1>6. written'[Literal(b)] = written[Literal(b)]
  BY <1>4, WordFacts
<1>7. SlotOK(b)'
  <2>1. \/ \E q \in Patchers : pc'[q] \in Building /\ branch'[q] = b
    BY <1>5 DEF Building
  <2>2. QED
    BY <1>1, <1>3, <1>4, <1>6, <2>1 DEF SlotOK
<1>8. BuilderOK(p)'
  BY <1>1, <1>2, <1>3, <1>4, <1>5 DEF BuilderOK, Building
<1>9. Whole(b) => Whole(b)'
  BY <1>1, <1>4, <1>6 DEF Whole
<1>10. QED
  BY <1>1, <1>2, <1>3, <1>4, <1>7, <1>8, <1>9, BuiltIslands

LEMMA WriteLiteralIslands ==
  ASSUME TypeOK, Exclusive, Islands, NEW p \in Patchers, WriteLiteral(p)
  PROVE  Islands' /\ Stable
<1>1. pc[p] = "literal" /\ Goto(p, "flush island")
      /\ UNCHANGED <<island, seen, cached, target, branch>>
  BY DEF WriteLiteral, At
<1>2. PICK b \in Slots : b = branch[p]
  BY <1>1, Asked DEF Building
<1>3. /\ pc[p] \in Building /\ pc[p] \in Holding /\ Spread
      /\ SlotOK(b) /\ BuilderOK(p) /\ island[b] = target[p] /\ target[p] # None
  BY <1>1, <1>2, Asked, HoldingSteps, UnchangedSpreads DEF Building
<1>4. /\ written'[Literal(b)] = target[p]
      /\ \A w \in Words \ {Literal(b)} : written'[w] = written[w]
  BY <1>2, WordFacts DEF TypeOK, WriteLiteral, Write
<1>5. pc'[p] = "flush island" /\ branch'[p] = b
  BY <1>1, <1>2, <1>3, Others
<1>6. written'[b] = written[b] /\ written[b] = Trampoline
  BY <1>1, <1>2, <1>3, <1>4, WordFacts DEF BuilderOK, Building
<1>7. SlotOK(b)'
  <2>1. \/ \E q \in Patchers : pc'[q] \in Building /\ branch'[q] = b
    BY <1>5 DEF Building
  <2>2. seen[Literal(b)] \in {None, written'[Literal(b)]}
    BY <1>3, <1>4 DEF SlotOK
  <2>3. QED
    BY <1>1, <1>3, <1>4, <1>6, <2>1, <2>2 DEF SlotOK
<1>8. BuilderOK(p)'
  BY <1>1, <1>2, <1>3, <1>4, <1>5, <1>6 DEF BuilderOK, Building
<1>9. Whole(b) => Whole(b)'
  BY <1>1, <1>3, <1>4, <1>6 DEF Whole
<1>10. QED
  BY <1>1, <1>2, <1>3, <1>4, <1>7, <1>8, <1>9, BuiltIslands

LEMMA FlushIslandIslands ==
  ASSUME TypeOK, Exclusive, Islands, NEW p \in Patchers, FlushIsland(p)
  PROVE  Islands' /\ Stable
<1>1. pc[p] = "flush island" /\ Goto(p, "invalidate island")
      /\ UNCHANGED <<island, written, cached, target, branch>>
  BY DEF FlushIsland, At
<1>2. PICK b \in Slots : b = branch[p]
  BY <1>1, Asked DEF Building
<1>3. /\ pc[p] \in Building /\ pc[p] \in Holding /\ Spread
      /\ SlotOK(b) /\ BuilderOK(p) /\ island[b] = target[p] /\ target[p] # None
  BY <1>1, <1>2, Asked, HoldingSteps, FlushSpreads DEF Building, FlushIsland
<1>4. seen'[b] = written[b] /\ seen'[Literal(b)] = written[Literal(b)]
  BY <1>2, WordFacts DEF FlushIsland, FlushData
<1>5. pc'[p] = "invalidate island" /\ branch'[p] = b
  BY <1>1, <1>2, <1>3, Others
<1>6. written[b] = Trampoline /\ written[Literal(b)] = target[p]
  BY <1>1, <1>2, <1>3 DEF BuilderOK, Building
<1>7. Whole(b)'
  BY <1>1, <1>3, <1>4, <1>6 DEF Whole
<1>8. SlotOK(b)'
  BY <1>1, <1>3, <1>4, <1>6, <1>7 DEF SlotOK
<1>9. BuilderOK(p)'
  <2>1. Whole(branch[p])'
    BY <1>5, <1>7
  <2>2. QED
    BY <1>1, <1>2, <1>3, <1>5, <1>6, <2>1 DEF BuilderOK, Building
<1>10. QED
  BY <1>1, <1>2, <1>3, <1>7, <1>8, <1>9, BuiltIslands

LEMMA InvalidateIslandIslands ==
  ASSUME TypeOK, Exclusive, Islands, NEW p \in Patchers, InvalidateIsland(p)
  PROVE  Islands' /\ Stable
<1>1. pc[p] = "invalidate island" /\ Goto(p, "store")
      /\ UNCHANGED <<island, written, seen, target, branch>>
  BY DEF InvalidateIsland, At
<1>2. PICK b \in Slots : b = branch[p]
  BY <1>1, Asked DEF Building
<1>3. /\ pc[p] \in Building /\ pc[p] \in Holding /\ Spread
      /\ SlotOK(b) /\ BuilderOK(p)
  BY <1>1, <1>2, Asked, HoldingSteps, InvalidateSpreads DEF Building, InvalidateIsland
<1>4. pc'[p] = "store"
  BY <1>1, <1>3, Others
<1>5. Whole(b) /\ Whole(b)'
  <2>1. Whole(b)
    BY <1>1, <1>2, <1>3 DEF BuilderOK
  <2>2. QED
    BY <1>1, <1>3, <2>1, WholeStays
<1>6. SlotOK(b)'
  BY <1>1, <1>3, <1>5, SlotKept
<1>7. BuilderOK(p)'
  BY <1>4 DEF BuilderOK, Building
<1>8. QED
  BY <1>1, <1>2, <1>3, <1>5, <1>6, <1>7, BuiltIslands

\* Steps of patchers that touch no island.
LEMMA OtherPatchIslands ==
  ASSUME TypeOK, Exclusive, Islands, NEW p \in Patchers,
         \/ Lock(p) \/ Reuse(p) \/ Store(p) \/ FlushSource(p) \/ InvalidateSource(p) \/ Unlock(p)
         \/ \E s \in Sources, t \in Targets \cup {Original} : Begin(p, s, t)
  PROVE  Islands' /\ Stable
<1>1. Spread
  <2>1. CASE FlushSource(p)
    BY <2>1, FlushSpreads DEF FlushSource
  <2>2. CASE InvalidateSource(p)
    BY <2>2, InvalidateSpreads DEF InvalidateSource
  <2>3. CASE UNCHANGED <<seen, cached>>
    BY <2>3, UnchangedSpreads
  <2>4. QED
    BY <2>1, <2>2, <2>3 DEF Lock, Reuse, Store, Unlock, Begin, memory
<1>2. SameIslands
  <2>1. CASE Store(p)
    <3>1. source[p] \in Sources /\ UNCHANGED island
      BY <2>1 DEF TypeOK, Store
    <3>2. \A w \in Words \ {source[p]} : written'[w] = written[w]
      BY <2>1 DEF TypeOK, Store, Write
    <3>3. QED
      BY <3>1, <3>2, WordFacts DEF SameIslands
  <2>2. CASE UNCHANGED <<island, written>>
    BY <2>2 DEF SameIslands
  <2>3. QED
    BY <2>1, <2>2 DEF Lock, Reuse, FlushSource, InvalidateSource, Unlock, Begin, memory
<1>3. /\ pc[p] \notin Building /\ pc'[p] \notin Building
      /\ \A q \in Patchers \ {p} : /\ pc'[q] = pc[q]
                                   /\ branch'[q] = branch[q]
                                   /\ target'[q] = target[q]
  <2>1. pc[p] \notin Building
    BY DEF Lock, Reuse, Store, FlushSource, InvalidateSource, Unlock, Begin, At, Building
  <2>2. \E step : step \notin Building /\ pc' = [pc EXCEPT ![p] = step]
    BY DEF Lock, Reuse, Store, FlushSource, InvalidateSource, Unlock, Begin, Goto, Building
  <2>3. pc'[p] \notin Building /\ \A q \in Patchers \ {p} : pc'[q] = pc[q]
    BY <2>2 DEF TypeOK
  <2>4. \A q \in Patchers \ {p} : branch'[q] = branch[q] /\ target'[q] = target[q]
    BY DEF TypeOK, Lock, Reuse, Store, FlushSource, InvalidateSource, Unlock, Begin
  <2>5. QED
    BY <2>1, <2>3, <2>4
<1>4. QED
  BY <1>1, <1>2, <1>3, OthersIslands, SameStable

LEMMA IslandsStep ==
  ASSUME TypeOK, Exclusive, Islands, [Next]_vars
  PROVE  Islands' /\ Stable
<1>1. ASSUME NEW p \in Patchers, Patch(p)
      PROVE  Islands' /\ Stable
  BY <1>1, NewIslandIslands, WriteCodeIslands, WriteLiteralIslands, FlushIslandIslands,
     InvalidateIslandIslands, OtherPatchIslands DEF Patch
<1>2. ASSUME NEW p \in Patchers, NEW s \in Sources, NEW t \in Targets \cup {Original},
             Begin(p, s, t)
      PROVE  Islands' /\ Stable
  BY <1>2, OtherPatchIslands
<1>3. ASSUME Spread, UNCHANGED <<pc, branch, target, island, written>>
      PROVE  Islands' /\ Stable
  <2>1. SameIslands
    BY <1>3 DEF SameIslands
  <2>2. QED
    BY <1>3, <2>1, OthersIslands, SameStable
<1>4. ASSUME NEW w \in Words, Propagate(w)
      PROVE  Islands' /\ Stable
  BY <1>3, <1>4, PropagateSpreads DEF Propagate, call
<1>5. ASSUME NEW c \in Cpus, NEW a \in Code, Prefetch(c, a)
      PROVE  Islands' /\ Stable
  BY <1>3, <1>5, PrefetchSpreads DEF Prefetch, call
<1>6. ASSUME UNCHANGED <<call, island, memory>>
      PROVE  Islands' /\ Stable
  BY <1>3, <1>6, UnchangedSpreads DEF call, memory
<1>7. QED
  BY <1>1, <1>2, <1>4, <1>5, <1>6 DEF Next, Execute, ExecuteSource, ExecuteIsland, LoadLiteral,
     Return, Call, vars

-----------------------------------------------------------------------------
(* Branches                                                                 *)

\* A sound branch keeps its destination.
LEMMA SoundStays ==
  ASSUME TypeOK, Stable, NEW d, Sound(d)
  PROVE  Sound(d)' /\ Dest(d)' = Dest(d)
<1>1. CASE d \in Slots
  <2>1. Whole(d)
    BY <1>1, DetourAssumption DEF Sound, Targets
  <2>2. QED
    BY <1>1, <2>1 DEF Stable, Sound, Dest
<1>2. CASE d \notin Slots
  BY <1>2 DEF Sound, Dest
<1>3. QED
  BY <1>1, <1>2

\* A step that stores no branch, and settles nothing, adds nothing to what
\* processors hold.
LEMMA HeldShrinks ==
  ASSUME TypeOK, Spread, NEW c \in Cpus, NEW s \in Sources, written'[s] = written[s]
  PROVE  Held(c, s)' \subseteq Held(c, s)
<1>1. seen'[s] \in {seen[s], written[s]} /\ cached'[c][s] \in {None, cached[c][s], seen[s]}
  BY WordFacts DEF Spread
<1>2. QED
  BY <1>1 DEF Held

LEMMA HeldStays ==
  ASSUME TypeOK, Stable, NEW c \in Cpus, NEW s \in Sources, HeldOK(c, s),
         Held(c, s)' \subseteq Held(c, s), settled'[s] = settled[s],
         UnderWay(s) \subseteq UnderWay(s)'
  PROVE  HeldOK(c, s)'
<1>1. ASSUME NEW d \in Held(c, s)'
      PROVE  Sound(d)' /\ Dest(d)' \in {settled'[s]} \cup UnderWay(s)'
  BY <1>1, SoundStays DEF HeldOK
<1>2. QED
  BY <1>1 DEF HeldOK

LEMMA StoreStays ==
  ASSUME TypeOK, Spread, Stable, NEW p \in Patchers, StoreOK(p),
         \A s \in Sources : written'[s] = written[s],
         pc'[p] \in {"store"} \cup Storing =>
           /\ pc'[p] = pc[p] /\ branch'[p] = branch[p]
           /\ source'[p] = source[p] /\ target'[p] = target[p]
  PROVE  StoreOK(p)'
<1>1. CASE pc'[p] \in {"store"} \cup Storing
  <2>0. PICK d : d = branch[p]
    OBVIOUS
  <2>1. PICK s \in Sources : d = branch[p] /\ s = source[p]
    BY <2>0 DEF TypeOK
  <2>2. /\ pc'[p] = pc[p] /\ branch'[p] = d /\ source'[p] = s /\ target'[p] = target[p]
        /\ written'[s] = written[s]
    BY <1>1, <2>1
  <2>3. pc[p] = "store" => Sound(d)' /\ Dest(d)' = target'[p]
    BY <2>1, <2>2, SoundStays DEF StoreOK
  <2>4. PICK e : e = written[s]
    OBVIOUS
  <2>5. pc[p] \in Storing => Sound(e)' /\ Dest(e)' = target'[p]
    BY <2>1, <2>2, <2>4, SoundStays DEF StoreOK
  <2>6. pc[p] = "invalidate source" => seen'[s] = written'[s]
    BY <2>1, <2>2, WordFacts DEF StoreOK, Spread
  <2>7. written'[source'[p]] = e /\ seen'[source'[p]] = seen'[s]
    BY <2>2, <2>4
  <2>8. QED
    BY <2>2, <2>3, <2>4, <2>5, <2>6, <2>7 DEF StoreOK
<1>2. CASE pc'[p] \notin {"store"} \cup Storing
  BY <1>2 DEF StoreOK, Storing
<1>3. QED
  BY <1>1, <1>2

\* Steps that neither store nor settle.
LEMMA QuietBranches ==
  ASSUME TypeOK, Branches, Spread, Stable, UNCHANGED settled,
         \A s \in Sources : written'[s] = written[s],
         \A p \in Patchers : /\ StoreOK(p)'
                             /\ pc'[p] \in Storing <=> pc[p] \in Storing
                             /\ pc[p] \in Storing => /\ source'[p] = source[p]
                                                     /\ target'[p] = target[p]
  PROVE  Branches'
<1>1. ASSUME NEW s \in Sources
      PROVE  UnderWay(s) \subseteq UnderWay(s)'
  <2>1. ASSUME NEW q \in Patchers, source[q] = s, pc[q] \in Storing
        PROVE  source'[q] = s /\ pc'[q] \in Storing /\ target'[q] = target[q]
    BY <2>1
  <2>2. QED
    BY <2>1 DEF UnderWay, Storing
<1>2. \A c \in Cpus, s \in Sources : HeldOK(c, s)'
  BY <1>1, HeldShrinks, HeldStays DEF Branches
<1>3. ASSUME NEW s \in Sources, \A p \in Patchers : ~(source'[p] = s /\ pc'[p] \in Storing)
      PROVE  /\ seen'[s] = written'[s]
             /\ \A c \in Cpus : cached'[c][s] \in {None, written'[s]}
  <2>1. \A p \in Patchers : ~(source[p] = s /\ pc[p] \in Storing)
    BY <1>3
  <2>2. seen[s] = written[s] /\ \A c \in Cpus : cached[c][s] \in {None, written[s]}
    BY <2>1 DEF Branches, Calm
  <2>3. /\ seen'[s] \in {seen[s], written[s]}
        /\ \A c \in Cpus : cached'[c][s] \in {None, cached[c][s], seen[s]}
    BY WordFacts DEF Spread
  <2>4. QED
    BY <2>2, <2>3
<1>4. \A s \in Sources : Calm(s)'
  BY <1>3 DEF Calm
<1>5. QED
  BY <1>2, <1>4 DEF Branches

LEMMA StoreBranches ==
  ASSUME TypeOK, Exclusive, Branches, Stable, NEW p \in Patchers, Store(p)
  PROVE  Branches'
<1>1. /\ pc[p] = "store" /\ Goto(p, "flush source") /\ Spread
      /\ UNCHANGED <<source, target, branch, seen, cached, settled>>
  BY UnchangedSpreads DEF Store, At
<1>0. PICK d : d = branch[p]
  OBVIOUS
<1>2. PICK s \in Sources : s = source[p] /\ d = branch[p]
  BY <1>0 DEF TypeOK
<1>3. written'[s] = d /\ \A r \in Sources \ {s} : written'[r] = written[r]
  BY <1>2, WordFacts DEF TypeOK, Store, Write
<1>4. /\ pc'[p] = "flush source"
      /\ \A q \in Patchers \ {p} : pc'[q] = pc[q] /\ pc[q] \notin Holding
  BY <1>1, Others, HoldingSteps
<1>5. Sound(d)' /\ Dest(d)' = target[p]
  BY <1>1, <1>2, SoundStays DEF Branches, StoreOK
<1>6. ASSUME NEW q \in Patchers
      PROVE  StoreOK(q)'
  <2>1. CASE q = p
    <3>1. written'[source'[p]] = d
      BY <1>1, <1>2, <1>3
    <3>2. QED
      BY <1>1, <1>4, <1>5, <2>1, <3>1 DEF StoreOK
  <2>2. CASE q # p
    BY <1>4, <2>2, HoldingSteps DEF StoreOK, Storing
  <2>3. QED
    BY <2>1, <2>2
<1>7. target[p] \in UnderWay(s)' /\ \A r \in Sources : UnderWay(r) \subseteq UnderWay(r)'
  <2>1. target[p] \in UnderWay(s)'
    BY <1>1, <1>2, <1>4 DEF UnderWay
  <2>2. \A q \in Patchers : pc[q] \notin {"flush source", "invalidate source"}
    BY <1>1, <1>4, HoldingSteps DEF Storing
  <2>3. \A r \in Sources : UnderWay(r) = {}
    BY <2>2 DEF UnderWay
  <2>4. QED
    BY <2>1, <2>3
<1>8. ASSUME NEW c \in Cpus, NEW r \in Sources
      PROVE  HeldOK(c, r)'
  <2>1. ASSUME NEW e \in Held(c, r)'
        PROVE  Sound(e)' /\ Dest(e)' \in {settled'[r]} \cup UnderWay(r)'
    <3>1. CASE e \in Held(c, r)
      BY <1>1, <1>7, <3>1, SoundStays DEF Branches, HeldOK
    <3>2. CASE e \notin Held(c, r)
      <4>1. r = s /\ e = d
        BY <1>1, <1>3, <2>1, <3>2 DEF Held
      <4>2. QED
        BY <1>5, <1>7, <4>1
    <3>3. QED
      BY <3>1, <3>2
  <2>2. QED
    BY <2>1 DEF HeldOK
<1>9. ASSUME NEW r \in Sources
      PROVE  Calm(r)'
  <2>1. CASE r = s
    BY <1>1, <1>2, <1>4, <2>1 DEF Calm, Storing
  <2>2. CASE r # s
    <3>1. seen[r] = written[r] /\ \A c \in Cpus : cached[c][r] \in {None, written[r]}
      BY <1>1, <1>4, HoldingSteps DEF Branches, Calm, Storing
    <3>2. QED
      BY <1>1, <1>3, <2>2, <3>1 DEF Calm
  <2>3. QED
    BY <2>1, <2>2
<1>10. QED
  BY <1>6, <1>8, <1>9 DEF Branches

LEMMA InvalidateSourceBranches ==
  ASSUME TypeOK, Exclusive, Branches, Stable, NEW p \in Patchers, InvalidateSource(p)
  PROVE  Branches'
<1>1. /\ pc[p] = "invalidate source" /\ Goto(p, "unlock") /\ Spread
      /\ UNCHANGED <<source, target, branch, written, seen>>
  BY InvalidateSpreads DEF InvalidateSource, At
<1>2. PICK s \in Sources : s = source[p]
  BY DEF TypeOK
<1>3. /\ settled'[s] = target[p] /\ \A r \in Sources \ {s} : settled'[r] = settled[r]
      /\ \A c \in Cpus : cached'[c][s] = None
  BY <1>2, WordFacts DEF TypeOK, InvalidateSource, InvalidateCode
<1>4. /\ pc'[p] = "unlock"
      /\ \A q \in Patchers \ {p} : pc'[q] = pc[q] /\ pc[q] \notin Holding
  BY <1>1, Others, HoldingSteps DEF Storing
<1>5. \A q \in Patchers : StoreOK(q)'
  BY <1>4, HoldingSteps DEF StoreOK, Storing
<1>6. PICK d : d = written[s]
  OBVIOUS
<1>7. seen[s] = d /\ Sound(d)' /\ Dest(d)' = target[p]
  BY <1>1, <1>2, <1>6, SoundStays DEF Branches, StoreOK, Storing
<1>8. ASSUME NEW c \in Cpus, NEW r \in Sources
      PROVE  HeldOK(c, r)'
  <2>1. CASE r = s
    <3>1. \A e \in Held(c, s)' : e = d
      BY <1>1, <1>3, <1>6, <1>7 DEF Held
    <3>2. QED
      BY <1>3, <1>7, <2>1, <3>1 DEF HeldOK
  <2>2. CASE r # s
    <3>1. Held(c, r)' \subseteq Held(c, r)
      BY <1>1, HeldShrinks
    <3>2. UnderWay(r) \subseteq UnderWay(r)'
      BY <1>1, <1>2, <1>4, <2>2 DEF UnderWay
    <3>3. settled'[r] = settled[r] /\ HeldOK(c, r)
      BY <1>3, <2>2 DEF Branches
    <3>4. QED
      BY <3>1, <3>2, <3>3, HeldStays
  <2>3. QED
    BY <2>1, <2>2
<1>9. ASSUME NEW r \in Sources
      PROVE  Calm(r)'
  <2>1. CASE r = s
    BY <1>1, <1>3, <1>6, <1>7, <2>1 DEF Calm
  <2>2. CASE r # s
    <3>1. \A q \in Patchers : ~(source[q] = r /\ pc[q] \in Storing)
      BY <1>2, <1>4, <2>2, HoldingSteps
    <3>2. seen[r] = written[r] /\ \A c \in Cpus : cached[c][r] \in {None, written[r]}
      BY <3>1 DEF Branches, Calm
    <3>3. \A c \in Cpus : cached'[c][r] \in {None, cached[c][r], seen[r]}
      BY <1>1, WordFacts DEF Spread
    <3>4. QED
      BY <1>1, <3>2, <3>3 DEF Calm
  <2>3. QED
    BY <2>1, <2>2
<1>10. QED
  BY <1>5, <1>8, <1>9 DEF Branches

\* Steps of patchers that store nothing in functions.
LEMMA QuietPatch ==
  ASSUME TypeOK, Islands, NEW p \in Patchers,
         Patch(p) \/ \E s \in Sources, t \in Targets \cup {Original} : Begin(p, s, t),
         ~Store(p)
  PROVE  /\ Spread
         /\ \A s \in Sources : written'[s] = written[s]
         /\ UNCHANGED <<place, landed, asked>>
<1>1. Spread
  <2>1. CASE FlushIsland(p) \/ FlushSource(p)
    BY <2>1, FlushSpreads DEF FlushIsland, FlushSource
  <2>2. CASE InvalidateIsland(p) \/ InvalidateSource(p)
    BY <2>2, InvalidateSpreads DEF InvalidateIsland, InvalidateSource
  <2>3. CASE UNCHANGED <<seen, cached>>
    BY <2>3, UnchangedSpreads
  <2>4. QED
    BY <2>1, <2>2, <2>3 DEF Patch, Lock, Reuse, NewIsland, WriteCode, WriteLiteral, Unlock, Begin,
       memory
<1>2. \A s \in Sources : written'[s] = written[s]
  <2>1. CASE WriteCode(p)
    <3>1. branch[p] \in Slots
      BY <2>1, Asked DEF WriteCode, At, Building
    <3>2. QED
      BY <2>1, <3>1, WordFacts DEF TypeOK, WriteCode, Write
  <2>2. CASE WriteLiteral(p)
    <3>1. branch[p] \in Slots
      BY <2>2, Asked DEF WriteLiteral, At, Building
    <3>2. QED
      BY <2>2, <3>1, WordFacts DEF TypeOK, WriteLiteral, Write
  <2>3. CASE UNCHANGED written
    BY <2>3
  <2>4. QED
    BY <2>1, <2>2, <2>3 DEF Patch, Lock, Reuse, NewIsland, FlushIsland, InvalidateIsland,
       FlushSource, InvalidateSource, Unlock, Begin, memory
<1>3. UNCHANGED <<place, landed, asked>>
  BY DEF Patch, Lock, Reuse, NewIsland, WriteCode, WriteLiteral, FlushIsland, InvalidateIsland,
     FlushSource, InvalidateSource, Unlock, Begin, cpu
<1>4. QED
  BY <1>1, <1>2, <1>3

\* One patcher is at work; the others are outside.
LEMMA OneAtWork ==
  ASSUME TypeOK, Exclusive, Islands, Branches, Stable, NEW p \in Patchers,
         Patch(p) \/ \E s \in Sources, t \in Targets \cup {Original} : Begin(p, s, t),
         ~Store(p), ~InvalidateSource(p),
         StoreOK(p)', pc'[p] \in Storing <=> pc[p] \in Storing
  PROVE  Branches'
<1>1. Spread /\ \A s \in Sources : written'[s] = written[s]
  BY QuietPatch
<1>2. UNCHANGED settled
  BY DEF Patch, Lock, Reuse, NewIsland, WriteCode, WriteLiteral, FlushIsland, InvalidateIsland,
     FlushSource, Unlock, Begin
<1>3. \A q \in Patchers \ {p} : /\ pc'[q] = pc[q] /\ branch'[q] = branch[q]
                                /\ source'[q] = source[q] /\ target'[q] = target[q]
  BY DEF TypeOK, Patch, Lock, Reuse, NewIsland, WriteCode, WriteLiteral, FlushIsland,
     InvalidateIsland, FlushSource, Unlock, Begin, Goto
<1>4. pc[p] \in Storing => source'[p] = source[p] /\ target'[p] = target[p]
  BY DEF Patch, Lock, Reuse, NewIsland, WriteCode, WriteLiteral, FlushIsland, InvalidateIsland,
     FlushSource, Unlock, Begin, At, Storing
<1>5. \A q \in Patchers \ {p} : StoreOK(q)'
  BY <1>1, <1>3, StoreStays DEF Branches
<1>6. QED
  BY <1>1, <1>2, <1>3, <1>4, <1>5, QuietBranches

LEMMA ReuseBranches ==
  ASSUME TypeOK, Exclusive, Islands, Branches, Stable, NEW p \in Patchers, Reuse(p)
  PROVE  Branches'
<1>1. pc[p] = "choose" /\ Goto(p, "store") /\ UNCHANGED <<target, island>>
  BY DEF Reuse, At
<1>2. pc'[p] = "store"
  BY <1>1, Others, HoldingSteps
<1>3. PICK d : d = branch'[p] /\ \/ d = target[p] /\ d \in Near \cup {Original}
                                 \/ d \in Slots /\ island[d] = target[p]
  BY DEF TypeOK, Reuse
<1>4. Sound(d) /\ Dest(d) = target[p]
  <2>1. CASE d = target[p] /\ d \in Near \cup {Original}
    BY <2>1, DetourAssumption DEF Sound, Dest, Targets
  <2>2. CASE d \in Slots /\ island[d] = target[p]
    <3>1. island[d] # None
      <4>1. target[p] \in Targets \cup {Original}
        BY DEF TypeOK
      <4>2. QED
        BY <2>2, <4>1, DetourAssumption
    <3>2. \A q \in Patchers : pc[q] \notin Building
      BY <1>1, Alone, HoldingSteps DEF Building
    <3>3. Whole(d)
      BY <2>2, <3>1, <3>2 DEF Islands, SlotOK
    <3>4. QED
      BY <2>2, <3>3 DEF Sound, Dest
  <2>3. QED
    BY <1>3, <2>1, <2>2
<1>5. Sound(d)' /\ Dest(d)' = target'[p]
  BY <1>1, <1>4, SoundStays
<1>6. StoreOK(p)'
  BY <1>2, <1>3, <1>5 DEF StoreOK, Storing
<1>7. ~Store(p) /\ ~InvalidateSource(p) /\ pc[p] \notin Storing /\ pc'[p] \notin Storing /\ Patch(p)
  BY <1>1, <1>2 DEF Store, InvalidateSource, At, Storing, Patch
<1>8. QED
  BY <1>6, <1>7, OneAtWork

LEMMA IslandDoneBranches ==
  ASSUME TypeOK, Exclusive, Islands, Branches, Stable, NEW p \in Patchers, InvalidateIsland(p)
  PROVE  Branches'
<1>1. /\ pc[p] = "invalidate island" /\ Goto(p, "store")
      /\ UNCHANGED <<target, branch, island>>
  BY DEF InvalidateIsland, At
<1>2. pc'[p] = "store"
  BY <1>1, Others, HoldingSteps DEF Building
<1>3. PICK b \in Slots : b = branch[p]
  BY <1>1, Asked DEF Building
<1>4. Whole(b) /\ island[b] = target[p]
  BY <1>1, <1>3, Asked DEF Building, BuilderOK
<1>5. Sound(b)' /\ Dest(b)' = target'[p]
  BY <1>1, <1>4, SoundStays DEF Sound, Dest
<1>6. StoreOK(p)'
  BY <1>1, <1>2, <1>3, <1>5 DEF StoreOK, Storing
<1>7. ~Store(p) /\ ~InvalidateSource(p) /\ pc[p] \notin Storing /\ pc'[p] \notin Storing /\ Patch(p)
  BY <1>1, <1>2 DEF Store, InvalidateSource, At, Storing, Patch
<1>8. QED
  BY <1>6, <1>7, OneAtWork

LEMMA FlushSourceBranches ==
  ASSUME TypeOK, Exclusive, Islands, Branches, Stable, NEW p \in Patchers, FlushSource(p)
  PROVE  Branches'
<1>1. /\ pc[p] = "flush source" /\ Goto(p, "invalidate source")
      /\ UNCHANGED <<source, target, written>>
  BY DEF FlushSource, At
<1>2. pc'[p] = "invalidate source"
  BY <1>1, Others, HoldingSteps DEF Storing
<1>3. PICK s \in Sources : s = source[p]
  BY DEF TypeOK
<1>4. PICK d : d = written[s]
  OBVIOUS
<1>5. Sound(d)' /\ Dest(d)' = target'[p]
  BY <1>1, <1>3, <1>4, SoundStays DEF Branches, StoreOK, Storing
<1>6. seen'[s] = written'[s]
  BY <1>1, <1>3, WordFacts DEF FlushSource, FlushData
<1>7. written'[source'[p]] = d /\ seen'[source'[p]] = d
  BY <1>1, <1>3, <1>4, <1>6
<1>8. StoreOK(p)'
  BY <1>2, <1>5, <1>7 DEF StoreOK
<1>9. ~Store(p) /\ ~InvalidateSource(p) /\ pc[p] \in Storing /\ pc'[p] \in Storing /\ Patch(p)
  BY <1>1, <1>2 DEF Store, InvalidateSource, At, Storing, Patch
<1>10. QED
  BY <1>8, <1>9, OneAtWork

LEMMA BranchesStep ==
  ASSUME TypeOK, Exclusive, Islands, Branches, Stable, [Next]_vars
  PROVE  Branches'
<1>1. ASSUME NEW p \in Patchers,
             \/ Lock(p) \/ NewIsland(p) \/ WriteCode(p) \/ WriteLiteral(p) \/ FlushIsland(p)
             \/ Unlock(p)
             \/ \E s \in Sources, t \in Targets \cup {Original} : Begin(p, s, t)
      PROVE  Branches'
  <2>1. pc[p] \notin Storing \cup {"store"}
    BY <1>1 DEF Lock, NewIsland, WriteCode, WriteLiteral, FlushIsland, Unlock, Begin, At, Storing
  <2>2. \E step : step \notin Storing \cup {"store"} /\ pc' = [pc EXCEPT ![p] = step]
    BY <1>1 DEF Lock, NewIsland, WriteCode, WriteLiteral, FlushIsland, Unlock, Begin, Goto, Storing
  <2>3. pc'[p] \notin Storing \cup {"store"}
    BY <2>2 DEF TypeOK
  <2>4. StoreOK(p)'
    BY <2>3 DEF StoreOK, Storing
  <2>5. ~Store(p) /\ ~InvalidateSource(p)
    BY <2>1 DEF Store, InvalidateSource, At, Storing
  <2>6. Patch(p) \/ \E s \in Sources, t \in Targets \cup {Original} : Begin(p, s, t)
    BY <1>1 DEF Patch
  <2>7. QED
    BY <2>1, <2>3, <2>4, <2>5, <2>6, OneAtWork
<1>2. ASSUME NEW p \in Patchers, Patch(p)
      PROVE  Branches'
  BY <1>1, <1>2, ReuseBranches, IslandDoneBranches, StoreBranches, FlushSourceBranches,
     InvalidateSourceBranches DEF Patch
<1>3. ASSUME Spread, UNCHANGED <<pc, source, target, branch, written, settled>>
      PROVE  Branches'
  <2>1. \A p \in Patchers : StoreOK(p)'
    BY <1>3, StoreStays DEF Branches
  <2>2. QED
    BY <1>3, <2>1, QuietBranches
<1>4. ASSUME NEW w \in Words, Propagate(w)
      PROVE  Branches'
  BY <1>3, <1>4, PropagateSpreads DEF Propagate, call
<1>5. ASSUME NEW c \in Cpus, NEW a \in Code, Prefetch(c, a)
      PROVE  Branches'
  BY <1>3, <1>5, PrefetchSpreads DEF Prefetch, call
<1>6. ASSUME UNCHANGED <<call, memory, settled>>
      PROVE  Branches'
  BY <1>3, <1>6, UnchangedSpreads DEF call, memory
<1>7. QED
  BY <1>1, <1>2, <1>4, <1>5, <1>6 DEF Next, Execute, ExecuteSource, ExecuteIsland, LoadLiteral,
     Return, Call, vars

-----------------------------------------------------------------------------
(* Calls                                                                    *)

\* A call that makes no step of its own.
LEMMA CallStays ==
  ASSUME TypeOK, Branches, Stable, NEW c \in Cpus, CallOK(c),
         place'[c] = place[c], landed'[c] = landed[c], asked[c] \subseteq asked'[c],
         place[c] \in Sources => \A d \in Held(c, place[c])' :
           d \in Held(c, place[c]) \/ Dest(d)' \in asked'[c]
  PROVE  CallOK(c)'
<1>1. landed'[c] # None => place'[c] = None /\ landed'[c] \in asked'[c]
  BY DEF CallOK
<1>2. place'[c] \in Sources => \A d \in Held(c, place[c])' : Dest(d)' \in asked'[c]
  <2>1. ASSUME NEW d \in Held(c, place[c])', place[c] \in Sources
        PROVE  Dest(d)' \in asked'[c]
    <3>1. CASE d \in Held(c, place[c])
      <4>1. Sound(d) /\ Dest(d) \in asked[c]
        BY <2>1, <3>1 DEF Branches, HeldOK, CallOK
      <4>2. QED
        BY <4>1, SoundStays
    <3>2. QED
      BY <2>1, <3>1
  <2>2. QED
    BY <2>1
<1>3. ASSUME NEW slot \in Slots, place'[c] \in {slot, Literal(slot)}
      PROVE  Whole(slot)' /\ island'[slot] \in asked'[c]
  BY <1>3 DEF CallOK, Stable
<1>4. QED
  BY <1>1, <1>2, <1>3 DEF CallOK

LEMMA PatchCalls ==
  ASSUME TypeOK, Islands, Branches, Calls, Stable, NEW p \in Patchers,
         Patch(p) \/ \E s \in Sources, t \in Targets \cup {Original} : Begin(p, s, t)
  PROVE  Calls'
<1>1. ASSUME NEW c \in Cpus, ~Store(p)
      PROVE  CallOK(c)'
  <2>1. /\ Spread /\ UNCHANGED <<place, landed, asked>>
        /\ \A s \in Sources : written'[s] = written[s]
    BY <1>1, QuietPatch
  <2>2. PICK s : s = place[c]
    OBVIOUS
  <2>3. s \in Sources => Held(c, s)' \subseteq Held(c, s)
    BY <2>1, HeldShrinks
  <2>4. QED
    BY <2>1, <2>2, <2>3, CallStays DEF Calls
<1>2. ASSUME NEW c \in Cpus, Store(p)
      PROVE  CallOK(c)'
  <2>0. PICK d : d = branch[p]
    OBVIOUS
  <2>1. PICK s \in Sources : s = source[p]
    BY DEF TypeOK
  <2>2. /\ UNCHANGED <<place, landed, seen, cached, target>>
        /\ asked[c] \subseteq asked'[c]
        /\ place[c] = s => target[p] \in asked'[c]
    BY <1>2, <2>1 DEF TypeOK, Store
  <2>3. written'[s] = d /\ \A r \in Sources \ {s} : written'[r] = written[r]
    BY <1>2, <2>0, <2>1, WordFacts DEF TypeOK, Store, Write
  <2>4. Dest(d)' = target[p]
    BY <1>2, <2>0, SoundStays DEF Branches, StoreOK, Store, At
  <2>5. ASSUME place[c] \in Sources, NEW e \in Held(c, place[c])', e \notin Held(c, place[c])
        PROVE  Dest(e)' \in asked'[c]
    <3>1. place[c] = s /\ e = d
      BY <2>2, <2>3, <2>5 DEF Held
    <3>2. QED
      BY <2>2, <2>4, <3>1
  <2>6. QED
    BY <2>2, <2>5, CallStays DEF Calls
<1>3. QED
  BY <1>1, <1>2 DEF Calls

\* A step of processor c; the calls of the others go on.
LEMMA CpuCalls ==
  ASSUME TypeOK, Islands, Branches, Calls, Stable, NEW c \in Cpus,
         Execute(c) \/ \E s \in Sources : Call(c, s)
  PROVE  Calls'
<1>1. UNCHANGED <<call, island, memory, settled>>
  BY DEF Execute, ExecuteSource, ExecuteIsland, LoadLiteral, Return, Call
<1>2. ASSUME NEW d \in Cpus \ {c}
      PROVE  CallOK(d)'
  <2>1. place'[d] = place[d] /\ landed'[d] = landed[d] /\ asked'[d] = asked[d]
    BY <1>2 DEF TypeOK, Execute, ExecuteSource, ExecuteIsland, LoadLiteral, Return, Call, Land
  <2>2. \A e : e \in Held(d, place[d])' => e \in Held(d, place[d])
    BY <1>1, <2>1 DEF Held, memory
  <2>3. QED
    BY <2>1, <2>2, CallStays DEF Calls
<1>3. CallOK(c)'
  <2>0. /\ \A slot \in Slots : Whole(slot) => Whole(slot)' /\ island'[slot] = island[slot]
        /\ CallOK(c)
    BY DEF Stable, Calls
  <2>1. CASE \E s \in Sources : Call(c, s)
    <3>1. PICK s \in Sources : Call(c, s)
      BY <2>1
    <3>2. /\ place'[c] = s /\ asked'[c] = {settled[s]} \cup UnderWay(s)
          /\ landed'[c] = None
      BY <3>1 DEF TypeOK, Call
    <3>3. \A d \in Held(c, s)' : Dest(d)' \in asked'[c]
      <4>1. \A d \in Held(c, s)' : d \in Held(c, s)
        BY <1>1 DEF Held, memory
      <4>2. QED
        BY <3>2, <4>1, SoundStays DEF Branches, HeldOK
    <3>4. \A slot \in Slots : place'[c] \notin {slot, Literal(slot)}
      BY <3>2, WordFacts
    <3>5. QED
      BY <3>2, <3>3, <3>4 DEF CallOK
  <2>2. CASE ExecuteSource(c)
    <3>0. PICK s \in Sources : s = place[c]
      BY <2>2 DEF ExecuteSource
    <3>1. PICK i \in Fetched(c, s) :
            \/ i \in Slots /\ place' = [place EXCEPT ![c] = i] /\ UNCHANGED landed
            \/ i \notin Slots /\ Land(c, i)
      BY <2>2, <3>0 DEF ExecuteSource
    <3>2. Sound(i) /\ Dest(i) \in asked[c] /\ asked'[c] = asked[c]
      <4>1. i \in Held(c, s)
        BY <3>1 DEF Fetched, Held
      <4>2. QED
        BY <2>0, <2>2, <3>0, <4>1 DEF Branches, HeldOK, CallOK, ExecuteSource
    <3>3. s # None
      BY DetourAssumption DEF Code
    <3>4. CASE i \in Slots
      <4>1. place'[c] = i /\ landed'[c] = None /\ Whole(i) /\ island[i] \in asked[c]
        <5>1. Whole(i)
          BY <3>2, <3>4, DetourAssumption DEF Sound, Targets
        <5>2. QED
          BY <2>0, <3>0, <3>1, <3>2, <3>3, <3>4, <5>1 DEF TypeOK, Dest, CallOK
      <4>2. \A slot \in Slots : place'[c] \in {slot, Literal(slot)} => slot = i
        BY <3>4, <4>1, WordFacts
      <4>3. place'[c] \notin Sources
        BY <3>4, <4>1, WordFacts
      <4>4. QED
        BY <2>0, <3>2, <4>1, <4>2, <4>3 DEF CallOK
    <3>5. CASE i \notin Slots
      <4>1. place'[c] = None /\ landed'[c] = i /\ i \in asked'[c]
        BY <3>1, <3>2, <3>5 DEF TypeOK, Land, Dest
      <4>2. None \notin Sources /\ \A slot \in Slots : None \notin {slot, Literal(slot)}
        BY DetourAssumption DEF Code
      <4>3. QED
        BY <4>1, <4>2 DEF CallOK
    <3>6. QED
      BY <3>4, <3>5
  <2>3. CASE ExecuteIsland(c)
    <3>1. PICK b \in Slots : b = place[c]
      BY <2>3 DEF ExecuteIsland
    <3>2. Whole(b) /\ island[b] \in asked[c]
      BY <2>0, <3>1 DEF CallOK
    <3>3. \A i \in Fetched(c, b) : i = Trampoline
      BY <3>2 DEF Fetched, Whole, Islands, SlotOK
    <3>4. place'[c] = Literal(b) /\ landed'[c] = landed[c] /\ asked'[c] = asked[c]
      BY <2>3, <3>1, <3>3 DEF TypeOK, ExecuteIsland
    <3>5. landed[c] = None
      BY <2>0, <3>1, DetourAssumption DEF CallOK, Code
    <3>6. /\ place'[c] \notin Sources
          /\ \A slot \in Slots : place'[c] \in {slot, Literal(slot)} => slot = b
      BY <3>4, WordFacts
    <3>7. QED
      BY <2>0, <3>2, <3>4, <3>5, <3>6 DEF CallOK
  <2>4. CASE LoadLiteral(c)
    <3>1. PICK b \in Slots : place[c] = Literal(b)
      BY <2>4 DEF LoadLiteral
    <3>2. Whole(b) /\ island[b] \in asked[c]
      BY <2>0, <3>1 DEF CallOK
    <3>3. place'[c] = None /\ landed'[c] = island[b] /\ asked'[c] = asked[c]
      BY <2>4, <3>1, <3>2 DEF TypeOK, LoadLiteral, Land, Whole
    <3>4. None \notin Sources /\ \A slot \in Slots : None \notin {slot, Literal(slot)}
      BY DetourAssumption DEF Code
    <3>5. QED
      BY <3>2, <3>3, <3>4 DEF CallOK
  <2>5. CASE Return(c)
    <3>1. place'[c] = None /\ landed'[c] = None
      BY <2>0, <2>5 DEF TypeOK, Return, CallOK
    <3>2. None \notin Sources /\ \A slot \in Slots : None \notin {slot, Literal(slot)}
      BY DetourAssumption DEF Code
    <3>3. QED
      BY <3>1, <3>2 DEF CallOK
  <2>6. QED
    BY <2>1, <2>2, <2>3, <2>4, <2>5 DEF Execute
<1>4. QED
  BY <1>2, <1>3 DEF Calls

LEMMA CallsStep ==
  ASSUME TypeOK, Islands, Branches, Calls, Stable, [Next]_vars
  PROVE  Calls'
<1>1. ASSUME Spread, UNCHANGED <<written, place, landed, asked>>
      PROVE  Calls'
  <2>1. ASSUME NEW c \in Cpus
        PROVE  CallOK(c)'
    <3>1. PICK s : s = place[c]
      OBVIOUS
    <3>2. s \in Sources => Held(c, s)' \subseteq Held(c, s)
      BY <1>1, HeldShrinks
    <3>3. QED
      BY <1>1, <3>1, <3>2, CallStays DEF Calls
  <2>2. QED
    BY <2>1 DEF Calls
<1>2. ASSUME NEW w \in Words, Propagate(w)
      PROVE  Calls'
  BY <1>1, <1>2, PropagateSpreads DEF Propagate, cpu
<1>3. ASSUME NEW c \in Cpus, NEW a \in Code, Prefetch(c, a)
      PROVE  Calls'
  BY <1>1, <1>3, PrefetchSpreads DEF Prefetch, cpu
<1>4. ASSUME UNCHANGED vars
      PROVE  Calls'
  BY <1>1, <1>4, UnchangedSpreads DEF vars, memory, cpu
<1>5. QED
  BY <1>2, <1>3, <1>4, PatchCalls, CpuCalls DEF Next

-----------------------------------------------------------------------------
(* The theorems                                                             *)

LEMMA DetourInit == Init => DetourInv
<1> SUFFICES ASSUME Init
             PROVE  DetourInv
  OBVIOUS
<1>1. /\ \A w \in Words : written[w] = (IF w \in Sources THEN Original ELSE None) /\ seen[w] = written[w]
      /\ \A c \in Cpus, a \in Code : cached[c][a] = None
      /\ \A p \in Patchers : pc[p] = "idle"
      /\ \A slot \in Slots : island[slot] = None
  BY DEF Init
<1>2. TypeOK
  <2>1. (CHOOSE s \in Sources : TRUE) \in Sources
    BY DetourAssumption
  <2>2. 0 \in 0 .. MaxOps
    BY DetourAssumption
  <2>3. written \in [Words -> Content] /\ seen \in [Words -> Content]
    BY DEF Init, Content
  <2>4. QED
    BY <2>1, <2>2, <2>3 DEF Init, TypeOK, Content
<1>3. Exclusive
  BY <1>1, HoldingSteps, DetourAssumption DEF Init, Exclusive
<1>4. Islands
  <2>1. ASSUME NEW slot \in Slots
        PROVE  SlotOK(slot)
    BY <1>1, WordFacts DEF SlotOK
  <2>2. ASSUME NEW p \in Patchers
        PROVE  BuilderOK(p)
    BY <1>1 DEF BuilderOK, Building
  <2>3. QED
    BY <2>1, <2>2 DEF Islands
<1>5. Branches
  <2>1. \A p \in Patchers : StoreOK(p)
    BY <1>1 DEF StoreOK, Storing
  <2>2. ASSUME NEW c \in Cpus, NEW s \in Sources
        PROVE  HeldOK(c, s)
    <3>1. \A d \in Held(c, s) : d = Original
      BY <1>1, WordFacts DEF Held
    <3>2. settled[s] = Original
      BY DEF Init
    <3>3. QED
      BY <3>1, <3>2, DetourAssumption DEF HeldOK, Sound, Dest
  <2>3. \A s \in Sources : Calm(s)
    BY <1>1, WordFacts DEF Calm
  <2>4. QED
    BY <2>1, <2>2, <2>3 DEF Branches
<1>6. Calls
  BY DetourAssumption DEF Init, Calls, CallOK, Code
<1>7. QED
  BY <1>2, <1>3, <1>4, <1>5, <1>6 DEF DetourInv

LEMMA DetourStep == DetourInv /\ [Next]_vars => DetourInv'
BY TypesStep, ExclusiveStep, IslandsStep, BranchesStep, CallsStep DEF DetourInv

LEMMA DetoursCorrect == Spec => []DetourInv
<1>1. QED
  BY DetourInit, DetourStep, PTL DEF Spec

\* The variables keep their types.
THEOREM DetourTypes == Spec => []TypeOK
<1>1. DetourInv => TypeOK
  BY DEF DetourInv
<1>2. QED
  BY <1>1, DetoursCorrect, PTL

\* A processor that calls a function while it is being detoured never executes
\* half an island, and arrives where the last call that had returned sent the
\* function, or where one that was under way since does.
THEOREM CallsAlwaysLand == Spec => []CallsLand
<1>1. DetourInv => CallsLand
  BY DEF DetourInv, Calls, CallOK, CallsLand
<1>2. QED
  BY <1>1, DetoursCorrect, PTL

\* When apply or restore has returned, no processor holds an older instruction:
\* the data cache is flushed and the instruction cache invalidated in that order.
THEOREM DetoursInForce == Spec => []InForce
<1>1. ASSUME DetourInv, lock = None
      PROVE  InForce
  <2>1. \A p \in Patchers : pc[p] \notin Holding
    BY <1>1, DetourAssumption DEF DetourInv, Exclusive
  <2>2. ASSUME NEW s \in Sources
        PROVE  seen[s] = written[s] /\ \A c \in Cpus : cached[c][s] \in {None, written[s]}
    BY <1>1, <2>1, HoldingSteps DEF DetourInv, Branches, Calm
  <2>3. ASSUME NEW slot \in Slots
        PROVE  seen[slot] = written[slot] /\ \A c \in Cpus : cached[c][slot] \in {None, written[slot]}
    <3>1. SlotOK(slot) /\ \A p \in Patchers : pc[p] \notin Building
      BY <1>1, <2>1, HoldingSteps DEF DetourInv, Islands
    <3>2. QED
      BY <3>1 DEF SlotOK, Whole
  <2>4. QED
    BY <2>2, <2>3 DEF InForce, Code
<1>2. DetourInv => InForce
  BY <1>1 DEF InForce
<1>3. QED
  BY <1>2, DetoursCorrect, PTL
=============================================================================
