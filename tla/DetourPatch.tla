----------------------------- MODULE DetourPatch -----------------------------
(***************************************************************************)
(* What a processor that calls a detoured function meets while another one *)
(* is in mono_ios_jit_detour_apply or mono_ios_jit_detour_restore          *)
(* (src/mono/Scripts/mono-ios-jit.cpp): CodePool takes such a call for one *)
(* step, here it is the stores and cache operations of the code.           *)
(*                                                                         *)
(* Patchers hold arena_mutex, the processors that run the code hold        *)
(* nothing.  A store is seen by other processors at some later time, at    *)
(* the latest when the writer flushes the data cache; a processor may hold *)
(* on to an instruction it has fetched before, until the instruction cache *)
(* is invalidated.  Every island is taken to be within reach of every      *)
(* source: which ones are is CodePool's subject.                           *)
(***************************************************************************)
EXTENDS Integers, FiniteSets

CONSTANTS
  Sources,   \* the functions that are detoured: their first instruction
  Near,      \* targets one branch reaches
  Far,       \* targets that need an island
  Slots,     \* the places of islands
  Patchers,  \* threads that apply and restore detours
  Cpus,      \* processors that call the functions
  Original,  \* what a function does without a detour, its first instruction
  None,      \* nothing, and memory that holds no island yet
  MaxOps     \* bound: calls per patcher

Targets == Near \cup Far
Trampoline == <<"ldr x15", "br x15">>
Garbage == <<"garbage">>  \* where memory that is no code leads
Literal(slot) == <<"literal", slot>>
Code == Sources \cup Slots
Words == Code \cup {Literal(slot) : slot \in Slots}

ASSUME DetourAssumption ==
  /\ Sources # {}
  /\ None \notin Code \cup Targets \cup Patchers \cup {Original}
  /\ Slots \cap (Sources \cup Targets \cup {Original}) = {}
  /\ Far \cap (Near \cup {Original}) = {}
  /\ \A slot \in Slots : Literal(slot) \notin Code \cup {None}
  /\ Trampoline # None
  /\ MaxOps \in Nat

VARIABLES
  lock,     \* the holder of arena_mutex
  pc,       \* per patcher: its next step
  source,   \* per patcher: the function its call is about
  target,   \* per patcher: what the function is to do
  branch,   \* per patcher: the instruction it stores
  ops,      \* per patcher: calls so far
  island,   \* per slot: the target of the island there, or None
  written,  \* per word: the last store
  seen,     \* per word: what loads and fetches of other processors get
  cached,   \* per processor and address: an instruction fetched before
  place,    \* per processor: what it executes next
  landed,   \* per processor: where its call went
  asked,    \* ghost, per processor: where its call may go
  settled   \* ghost, per function: what the last call that returned asked for

call == <<pc, source, target, branch, ops>>
memory == <<written, seen, cached>>
cpu == <<place, landed, asked>>
vars == <<lock, call, island, memory, cpu, settled>>

\* What a word holds: an instruction, a branch by its destination, a literal.
Content == Near \cup Far \cup Slots \cup {Original, Trampoline, None}

TypeOK ==
  /\ lock \in Patchers \cup {None}
  /\ pc \in [Patchers -> {"idle", "lock", "choose", "code", "literal", "flush island",
                         "invalidate island", "store", "flush source",
                         "invalidate source", "unlock"}]
  /\ source \in [Patchers -> Sources]
  /\ target \in [Patchers -> Targets \cup {Original}]
  /\ branch \in [Patchers -> Near \cup Slots \cup {Original}]
  /\ ops \in [Patchers -> 0 .. MaxOps]
  /\ island \in [Slots -> Far \cup {None}]
  /\ written \in [Words -> Content]
  /\ seen \in [Words -> Content]
  /\ cached \in [Cpus -> [Code -> Content]]
  /\ place \in [Cpus -> Words \cup {None}]
  /\ landed \in [Cpus -> Content \cup {Garbage}]
  /\ asked \in [Cpus -> SUBSET (Targets \cup {Original})]
  /\ settled \in [Sources -> Targets \cup {Original}]

Goto(p, step) == pc' = [pc EXCEPT ![p] = step]
At(p, step) == pc[p] = step

Write(word, value) == written' = [written EXCEPT ![word] = value]

\* The patcher's stores have reached everybody (sys_dcache_flush).
FlushData(words) == seen' = [w \in Words |-> IF w \in words THEN written[w] ELSE seen[w]]

\* Nobody holds the instruction at an address any more (sys_icache_invalidate).
InvalidateCode(address) == cached' = [c \in Cpus |-> [cached[c] EXCEPT ![address] = None]]

-----------------------------------------------------------------------------
(* mono_ios_jit_detour_apply and mono_ios_jit_detour_restore *)

\* restore puts the first instruction back, which the caller has backed up.
Begin(p, s, t) ==
  /\ At(p, "idle")
  /\ ops[p] < MaxOps
  /\ ops' = [ops EXCEPT ![p] = ops[p] + 1]
  /\ source' = [source EXCEPT ![p] = s]
  /\ target' = [target EXCEPT ![p] = t]
  /\ Goto(p, "lock")
  /\ UNCHANGED <<lock, branch, island, memory, cpu, settled>>

Lock(p) ==
  /\ At(p, "lock")
  /\ lock = None
  /\ lock' = p
  /\ Goto(p, "choose")
  /\ UNCHANGED <<source, target, branch, ops, island, memory, cpu, settled>>

\* One branch does, or an island to the target is there.
Reuse(p) ==
  /\ At(p, "choose")
  /\ \/ /\ target[p] \in Near \cup {Original}
        /\ branch' = [branch EXCEPT ![p] = target[p]]
     \/ \E slot \in Slots : /\ island[slot] = target[p]
                            /\ branch' = [branch EXCEPT ![p] = slot]
  /\ Goto(p, "store")
  /\ UNCHANGED <<lock, source, target, ops, island, memory, cpu, settled>>

\* allocate_detour_island; it may run out of places or of memory.
NewIsland(p) ==
  /\ At(p, "choose")
  /\ target[p] \in Far
  /\ \A slot \in Slots : island[slot] # target[p]
  /\ \/ \E slot \in Slots : /\ island[slot] = None
                            /\ island' = [island EXCEPT ![slot] = target[p]]
                            /\ branch' = [branch EXCEPT ![p] = slot]
                            /\ Goto(p, "code")
     \/ Goto(p, "unlock") /\ UNCHANGED <<island, branch>>
  /\ UNCHANGED <<lock, source, target, ops, memory, cpu, settled>>

\* The two instructions of an island are one aligned store of 8 bytes.
WriteCode(p) ==
  /\ At(p, "code")
  /\ Write(branch[p], Trampoline)
  /\ Goto(p, "literal")
  /\ UNCHANGED <<lock, source, target, branch, ops, island, seen, cached, cpu, settled>>

WriteLiteral(p) ==
  /\ At(p, "literal")
  /\ Write(Literal(branch[p]), target[p])
  /\ Goto(p, "flush island")
  /\ UNCHANGED <<lock, source, target, branch, ops, island, seen, cached, cpu, settled>>

\* mutant: only the instruction cache is cared for
FlushIslandNot(p) ==
  /\ At(p, "flush island")
  /\ Goto(p, "invalidate island")
  /\ UNCHANGED <<lock, source, target, branch, ops, island, memory, cpu, settled>>

\* flush_detour_code for the island, its two halves.
FlushIsland(p) ==
  /\ At(p, "flush island")
  /\ FlushData({branch[p], Literal(branch[p])})
  /\ Goto(p, "invalidate island")
  /\ UNCHANGED <<lock, source, target, branch, ops, island, written, cached, cpu, settled>>

InvalidateIsland(p) ==
  /\ At(p, "invalidate island")
  /\ InvalidateCode(branch[p])
  /\ Goto(p, "store")
  /\ UNCHANGED <<lock, source, target, branch, ops, island, written, seen, cpu, settled>>

\* The branch in the function: from now on calls may take it.
Store(p) ==
  /\ At(p, "store")
  /\ Write(source[p], branch[p])
  /\ asked' = [c \in Cpus |-> IF place[c] = source[p] THEN asked[c] \cup {target[p]} ELSE asked[c]]
  /\ Goto(p, "flush source")
  /\ UNCHANGED <<lock, source, target, branch, ops, island, seen, cached, place, landed, settled>>

FlushSource(p) ==
  /\ At(p, "flush source")
  /\ FlushData({source[p]})
  /\ Goto(p, "invalidate source")
  /\ UNCHANGED <<lock, source, target, branch, ops, island, written, cached, cpu, settled>>

InvalidateNothing(p) ==  \* mutant: only the data cache is flushed
  /\ At(p, "invalidate source")
  /\ settled' = [settled EXCEPT ![source[p]] = target[p]]
  /\ Goto(p, "unlock")
  /\ UNCHANGED <<lock, source, target, branch, ops, island, memory, cpu>>

InvalidateSource(p) ==
  /\ At(p, "invalidate source")
  /\ InvalidateCode(source[p])
  /\ settled' = [settled EXCEPT ![source[p]] = target[p]]
  /\ Goto(p, "unlock")
  /\ UNCHANGED <<lock, source, target, branch, ops, island, written, seen, cpu>>

Unlock(p) ==
  /\ At(p, "unlock")
  /\ lock' = None
  /\ Goto(p, "idle")
  /\ UNCHANGED <<source, target, branch, ops, island, memory, cpu, settled>>

Patch(p) ==
  \/ Lock(p) \/ Reuse(p) \/ NewIsland(p)
  \/ WriteCode(p) \/ WriteLiteral(p) \/ FlushIsland(p) \/ InvalidateIsland(p)
  \/ Store(p) \/ FlushSource(p) \/ InvalidateSource(p)
  \/ Unlock(p)

-----------------------------------------------------------------------------
(* The processors *)

\* A store reaches the others.
Propagate(w) ==
  /\ seen[w] # written[w]
  /\ seen' = [seen EXCEPT ![w] = written[w]]
  /\ UNCHANGED <<lock, call, island, written, cached, cpu, settled>>

\* A processor fetches ahead whatever it likes, and keeps it.
Prefetch(c, a) ==
  /\ cached[c][a] # seen[a]
  /\ cached' = [cached EXCEPT ![c][a] = seen[a]]
  /\ UNCHANGED <<lock, call, island, written, seen, cpu, settled>>

\* The targets of patches of s that have stored but not returned.
UnderWay(s) ==
  {target[p] : p \in {q \in Patchers : /\ source[q] = s
                                       /\ pc[q] \in {"flush source", "invalidate source"}}}

Call(c, s) ==
  /\ place[c] = None
  /\ landed[c] = None
  /\ place' = [place EXCEPT ![c] = s]
  /\ asked' = [asked EXCEPT ![c] = {settled[s]} \cup UnderWay(s)]
  /\ UNCHANGED <<lock, call, island, memory, landed, settled>>

\* What a fetch may return: memory, or what the processor holds.
Fetched(c, a) == {seen[a]} \cup ({cached[c][a]} \ {None})

Land(c, where) == /\ landed' = [landed EXCEPT ![c] = where]
                  /\ place' = [place EXCEPT ![c] = None]

ExecuteSource(c) ==
  /\ place[c] \in Sources
  /\ \E i \in Fetched(c, place[c]) :
       \/ i \in Slots /\ place' = [place EXCEPT ![c] = i] /\ UNCHANGED landed
       \/ i \notin Slots /\ Land(c, i)
  /\ UNCHANGED <<lock, call, island, memory, asked, settled>>

\* Memory that holds no island is executed as it is.
ExecuteIsland(c) ==
  /\ place[c] \in Slots
  /\ \E i \in Fetched(c, place[c]) :
       \/ /\ i = Trampoline
          /\ place' = [place EXCEPT ![c] = Literal(place[c])]
          /\ UNCHANGED landed
       \/ /\ i # Trampoline
          /\ Land(c, Garbage)
  /\ UNCHANGED <<lock, call, island, memory, asked, settled>>

LoadLiteral(c) ==
  /\ \E slot \in Slots : place[c] = Literal(slot)
  /\ Land(c, IF seen[place[c]] = None THEN Garbage ELSE seen[place[c]])
  /\ UNCHANGED <<lock, call, island, memory, asked, settled>>

Return(c) ==
  /\ landed[c] # None
  /\ landed' = [landed EXCEPT ![c] = None]
  /\ asked' = [asked EXCEPT ![c] = {}]
  /\ UNCHANGED <<lock, call, island, memory, place, settled>>

Execute(c) == ExecuteSource(c) \/ ExecuteIsland(c) \/ LoadLiteral(c) \/ Return(c)

-----------------------------------------------------------------------------
Init ==
  /\ lock = None
  /\ pc = [p \in Patchers |-> "idle"]
  /\ source = [p \in Patchers |-> CHOOSE s \in Sources : TRUE]
  /\ target = [p \in Patchers |-> Original]
  /\ branch = [p \in Patchers |-> Original]
  /\ ops = [p \in Patchers |-> 0]
  /\ island = [slot \in Slots |-> None]
  /\ written = [w \in Words |-> IF w \in Sources THEN Original ELSE None]
  /\ seen = written
  /\ cached = [c \in Cpus |-> [a \in Code |-> None]]
  /\ place = [c \in Cpus |-> None]
  /\ landed = [c \in Cpus |-> None]
  /\ asked = [c \in Cpus |-> {}]
  /\ settled = [s \in Sources |-> Original]

Next ==
  \/ \E p \in Patchers :
       \/ Patch(p)
       \/ \E s \in Sources, t \in Targets \cup {Original} : Begin(p, s, t)
  \/ \E w \in Words : Propagate(w)
  \/ \E c \in Cpus :
       \/ Execute(c)
       \/ \E s \in Sources : Call(c, s)
       \/ \E a \in Code : Prefetch(c, a)

Spec == Init /\ [][Next]_vars

-----------------------------------------------------------------------------
(* Properties *)

\* A call of a function never runs memory that is no code, and goes where the
\* last detour or restore that had returned before it sent it, or one that
\* was under way since: an island is whole before a branch can lead to it.
CallsLand == \A c \in Cpus : landed[c] # None => landed[c] \in asked[c]

\* When nobody patches, no processor can meet an instruction older than the
\* last store: a detour that has returned is in force for every processor.
InForce ==
  lock = None => \A a \in Code : /\ seen[a] = written[a]
                                 /\ \A c \in Cpus : cached[c][a] \in {None, written[a]}
=============================================================================
