------------------------------ MODULE CodePool ------------------------------
(***************************************************************************)
(* The executable-code pool of the iOS JIT (src/mono/Scripts/              *)
(* mono-ios-jit.cpp) at the granularity of its mutex: a call that takes    *)
(* arena_mutex is one step.  The pool is a list of arenas, newest first;   *)
(* each arena is cut into free ranges (a linked list), allocations and     *)
(* detour islands (16-byte trampolines for branches out of reach).         *)
(*                                                                         *)
(* Addresses and sizes are numbers.  The constants keep the relations of   *)
(* the code's own (AddressSpace is 2^64, Alignment 16, Word 4, the reach   *)
(* of a branch 2^27) at a scale TLC can enumerate.                         *)
(* JitPrepare refines the one step Prepare into the steps of the code.     *)
(***************************************************************************)
EXTENDS BranchEncoding, Sequences, FiniteSets

CONSTANTS
  Arenas,        \* the regions the kernel can hand out
  Base,          \* [Arenas -> Nat], execute_address
  WriteBase,     \* [Arenas -> Nat], write_address, the writable alias
  Capacity,      \* [Arenas -> Nat], capacity
  AddressSpace,  \* addresses are 0 .. AddressSpace - 1
  Alignment,     \* MONO_IOS_JIT_ALIGNMENT
  MallocMayFail, \* whether malloc may return NULL
  Sizes,         \* sizes callers pass
  Blocks,        \* addresses callers free
  Sources,       \* addresses callers detour
  Targets,       \* addresses callers detour to
  Buffers        \* addresses of the callers' backup buffers

Null == 0

ASSUME AlignmentAssumption ==
  /\ Alignment \in Nat \ {0}
  /\ Alignment % Word = 0
  /\ AddressSpace \in Nat
  /\ Alignment < AddressSpace

\* mono_ios_jit_prepare rejects a null, unaligned or overflowing region, and
\* the kernel maps regions that do not overlap.
ASSUME ArenaAssumption ==
  /\ Base \in [Arenas -> Nat \ {0}]
  /\ WriteBase \in [Arenas -> Nat \ {0}]
  /\ Capacity \in [Arenas -> Nat \ {0}]
  /\ \A a \in Arenas : /\ Base[a] + Capacity[a] < AddressSpace
                       /\ Base[a] % Alignment = 0
                       /\ Capacity[a] % Alignment = 0
  /\ \A a, b \in Arenas :
       a # b => \/ Base[a] + Capacity[a] <= Base[b]
                \/ Base[b] + Capacity[b] <= Base[a]

ASSUME InputAssumption ==
  /\ MallocMayFail \in BOOLEAN
  /\ Sizes \subseteq 0 .. AddressSpace - 1
  /\ Blocks \subseteq 0 .. AddressSpace - 1
  /\ Sources \subseteq 0 .. AddressSpace - 1
  /\ Targets \subseteq 0 .. AddressSpace - 1
  /\ Buffers \subseteq 0 .. AddressSpace - 1

VARIABLES
  list,     \* the arenas reachable from arena_head, in order
  free,     \* free[a]: free_ranges, in order
  allocs,   \* allocs[a]: allocations; their order is never observed
  islands,  \* islands[a]: detour_islands, newest first
  jump,     \* where the branch stored at an address goes, and where an
            \* island that is not spoiled leads (partial function)
  patched,  \* ghost: the target last asked for at a detoured address
  spoiled,  \* ghost: the addresses of islands that callers have stored into
  saved,    \* saved[b]: the instruction a caller keeps in buffer b
  ret       \* the error of the last call (OK when it returns none)

pool == <<list, free, allocs, islands>>
vars == <<list, free, allocs, islands, jump, patched, spoiled, saved, ret>>

Ranges == [offset : Nat, size : Nat]
Errors == {"OK", "EINVAL", "EFAULT", "ENOMEM", "EPERM", "EIO"}
Published == {list[k] : k \in 1 .. Len(list)}

TypeOK ==
  /\ list \in Seq(Arenas)
  /\ free \in [Arenas -> Seq(Ranges)]
  /\ allocs \in [Arenas -> SUBSET Ranges]
  /\ islands \in [Arenas -> Seq([address : Nat, target : Nat])]
  /\ DOMAIN jump \subseteq Nat
  /\ \A x \in DOMAIN jump : jump[x] \in Nat
  /\ DOMAIN patched \subseteq Nat
  /\ \A x \in DOMAIN patched : patched[x] \in Nat
  /\ spoiled \subseteq Nat
  /\ DOMAIN saved \subseteq Buffers
  /\ \A b \in DOMAIN saved : saved[b] \in [at : Nat, jump : SUBSET Nat, patched : SUBSET Nat]
  /\ ret \in Errors

-----------------------------------------------------------------------------
(* Address arithmetic *)

\* The unsigned subtraction address - execute_address.
Offset(a, addr) == IF addr >= Base[a] THEN addr - Base[a]
                                      ELSE addr - Base[a] + AddressSpace

Holds(a, addr) == Offset(a, addr) < Capacity[a]

\* round_size fails on 0 and on a size whose rounding would overflow.
Rounds(size) == size # 0 /\ size <= AddressSpace - 1 - (Alignment - 1)
RoundUp(n) == ((n + Alignment - 1) \div Alignment) * Alignment

Overlap(x, m, y, n) == x < y + n /\ y < x + m

\* validate_detour_code: an aligned range inside one allocation.
InAllocation(addr, size) ==
  \E a \in Published :
    /\ Holds(a, addr)
    /\ \E r \in allocs[a] : /\ r.offset <= Offset(a, addr)
                            /\ Offset(a, addr) - r.offset < r.size
                            /\ size <= r.size - (Offset(a, addr) - r.offset)

Validate(addr, size) ==
  IF addr = Null \/ addr % Word # 0 \/ size = 0 \/ size % Word # 0 THEN "EINVAL"
  ELSE IF InAllocation(addr, size) THEN "OK"
  ELSE "EFAULT"

\* Whether size bytes at b overlap one of the two views of an arena.
InView(a, b, size) == \/ Overlap(b, size, Base[a], Capacity[a])
                      \/ Overlap(b, size, WriteBase[a], Capacity[a])

\* is_detour_buffer
IsDetourBuffer(b, size) == /\ b # Null
                           /\ size <= AddressSpace - 1 - b
                           /\ \A a \in Published : ~InView(a, b, size)

-----------------------------------------------------------------------------
(* The ordered lists *)

\* s with the elements strictly between positions m and n replaced by new.
Splice(s, m, n, new) == SubSeq(s, 1, m) \o new \o SubSeq(s, n, Len(s))

\* A place <<k, i>> is element i of a list of the arena at position k; the
\* loops of the code take the first place that suits.
IsFirst(p, places) ==
  /\ p \in places
  /\ \A q \in places : p[1] < q[1] \/ (p[1] = q[1] /\ p[2] <= q[2])

FreePlaces == UNION {{k} \X (1 .. Len(free[list[k]])) : k \in 1 .. Len(list)}
IslandPlaces == UNION {{k} \X (1 .. Len(islands[list[k]])) : k \in 1 .. Len(list)}

FittingAny(n) == FreePlaces  \* mutant: the size test is dropped

\* The free ranges mono_ios_jit_alloc can cut n bytes from.
Fitting(n) == {p \in FreePlaces : free[list[p[1]]][p[2]].size >= n}

-----------------------------------------------------------------------------
(* Code memory *)

\* What is left of a map of instructions when n bytes at lo are overwritten.
Keep(f, lo, n) ==
  [x \in {y \in DOMAIN f : ~Overlap(y, Word, lo, n)} |-> f[x]]

Nothing == [x \in {} |-> Null]

Put(f, x, v) == [y \in DOMAIN f \cup {x} |-> IF y = x THEN v ELSE f[y]]

Overwrite(lo, n) == /\ jump' = Keep(jump, lo, n)
                    /\ patched' = Keep(patched, lo, n)

\* A call that returns e and changes nothing.
Return(e) == /\ ret' = e
             /\ UNCHANGED <<list, free, allocs, islands, jump, patched, spoiled, saved>>

-----------------------------------------------------------------------------
(* mono_ios_jit_prepare *)

\* A new arena starts as one free range and becomes the head of the list.
\* The kernel does not map it over a buffer that callers use.
Publish(a) ==
  /\ \A b \in DOMAIN saved : ~InView(a, b, Word)
  /\ list' = <<a>> \o list
  /\ free' = [free EXCEPT ![a] = <<[offset |-> 0, size |-> Capacity[a]]>>]
  /\ ret' = "OK"
  /\ UNCHANGED <<allocs, islands, jump, patched, spoiled, saved>>

\* capacity = 0 asks for the startup pool and does nothing when one exists.
\* Preparing an arena may fail, at a step JitPrepare shows, and then publishes
\* nothing; EIO stands for all its errors.
Prepare ==
  \/ list # <<>> /\ Return("OK")
  \/ Return("EIO")
  \/ \E a \in Arenas \ Published : Publish(a)

-----------------------------------------------------------------------------
(* mono_ios_jit_alloc and mono_ios_jit_free *)

RestNotAdvanced(r, n) ==  \* mutant: the offset of the rest is not advanced
  IF r.size = n THEN <<>> ELSE <<[offset |-> r.offset, size |-> r.size - n]>>

\* What remains of free range r when its first n bytes are taken.
Rest(r, n) == IF r.size = n THEN <<>>
              ELSE <<[offset |-> r.offset + n, size |-> r.size - n]>>

GrantDirty(a, i, n) ==  \* mutant: what the last owner left is not zeroed
  LET r == free[a][i]
  IN  /\ free' = [free EXCEPT ![a] = Splice(@, i - 1, i + 1, Rest(r, n))]
      /\ allocs' = [allocs EXCEPT ![a] = @ \cup {[offset |-> r.offset, size |-> n]}]
      /\ ret' = "OK"
      /\ UNCHANGED <<list, islands, jump, patched, spoiled, saved>>

\* Cut n bytes off the front of free range i of arena a, and zero them.
Grant(a, i, n) ==
  LET r == free[a][i]
  IN  /\ free' = [free EXCEPT ![a] = Splice(@, i - 1, i + 1, Rest(r, n))]
      /\ allocs' = [allocs EXCEPT ![a] = @ \cup {[offset |-> r.offset, size |-> n]}]
      /\ Overwrite(Base[a] + r.offset, n)
      /\ ret' = "OK"
      /\ UNCHANGED <<list, islands, spoiled, saved>>

\* mutant: the range is cut before the node is allocated
AllocFromEarlyCut(p, n) ==
  LET a == list[p[1]]
      r == free[a][p[2]]
  IN  \/ Grant(a, p[2], n)
      \/ /\ MallocMayFail
         /\ r.size # n
         /\ free' = [free EXCEPT ![a] = Splice(@, p[2] - 1, p[2] + 1, Rest(r, n))]
         /\ ret' = "ENOMEM"
         /\ UNCHANGED <<list, allocs, islands, jump, patched, spoiled, saved>>

\* A range of another size needs a new node, whose malloc may fail.
AllocFrom(p, n) ==
  \/ Grant(list[p[1]], p[2], n)
  \/ /\ MallocMayFail
     /\ free[list[p[1]]][p[2]].size # n
     /\ Return("ENOMEM")

Alloc(size) ==
  \/ ~Rounds(size) /\ Return("EINVAL")
  \/ /\ Rounds(size)
     /\ \E p \in FreePlaces : /\ IsFirst(p, Fitting(RoundUp(size)))
                              /\ AllocFrom(p, RoundUp(size))
  \/ /\ Rounds(size)
     /\ Fitting(RoundUp(size)) = {}
     /\ Return(IF list = <<>> THEN "EPERM" ELSE "ENOMEM")

IsIslandNever(addr) == FALSE  \* mutant: islands are freed like allocations

IsIsland(addr) == \E p \in IslandPlaces : islands[list[p[1]]][p[2]].address = addr

\* mutants: adjacent ranges are not merged, or the next one's size is dropped
InsertApart(s, m, r) ==
  Splice(s, m, m + 1, <<r>>)
InsertNoPrevious(s, m, r) ==
  IF m < Len(s) /\ r.offset + r.size = s[m + 1].offset
  THEN Splice(s, m, m + 2, <<[offset |-> r.offset, size |-> r.size + s[m + 1].size]>>)
  ELSE Splice(s, m, m + 1, <<r>>)
InsertDropsNext(s, m, r) ==
  IF m < Len(s) /\ r.offset + r.size = s[m + 1].offset
  THEN Splice(s, m, m + 2, <<r>>)
  ELSE Splice(s, m, m + 1, <<r>>)

\* Put range r back after the first m free ranges, the ones below it, and
\* merge it with its neighbours.
Insert(s, m, r) ==
  LET joinsNext == m < Len(s) /\ r.offset + r.size = s[m + 1].offset
      joinsPrevious == m > 0 /\ s[m].offset + s[m].size = r.offset
      first == IF joinsPrevious THEN s[m].offset ELSE r.offset
      end == IF joinsNext THEN s[m + 1].offset + s[m + 1].size
                          ELSE r.offset + r.size
  IN  Splice(s, IF joinsPrevious THEN m - 1 ELSE m,
                IF joinsNext THEN m + 2 ELSE m + 1,
                <<[offset |-> first, size |-> end - first]>>)

\* m is where the walk for the insertion point stops.
StopsAt(s, m, r) == /\ \A j \in 1 .. m : s[j].offset < r.offset
                    /\ m < Len(s) => s[m + 1].offset >= r.offset

Release(a, r) ==
  /\ allocs' = [allocs EXCEPT ![a] = @ \ {r}]
  /\ \E m \in 0 .. Len(free[a]) :
       /\ StopsAt(free[a], m, r)
       /\ free' = [free EXCEPT ![a] = Insert(@, m, r)]
  /\ ret' = "OK"
  /\ UNCHANGED <<list, islands, jump, patched, spoiled, saved>>

\* The allocation mono_ios_jit_free looks for: exact address, exact size.
Freed(a, addr, size) ==
  {r \in allocs[a] : r.offset = Offset(a, addr) /\ r.size = RoundUp(size)}

Free(addr, size) ==
  \/ addr = Null /\ Return("OK")
  \/ addr # Null /\ ~Rounds(size) /\ Return("EINVAL")
  \/ /\ addr # Null
     /\ Rounds(size)
     /\ \/ \E a \in Published : /\ Holds(a, addr)
                                /\ ~IsIsland(addr)
                                /\ \E r \in Freed(a, addr, size) : Release(a, r)
        \/ /\ \/ IsIsland(addr)
              \/ \A a \in Published : ~Holds(a, addr) \/ Freed(a, addr, size) = {}
           /\ Return("EINVAL")

-----------------------------------------------------------------------------
(* mono_ios_jit_write_memory and mono_ios_jit_set_memory *)

\* An island is an allocation to every check of the code, so that a caller may
\* store into one: by a write to its address, a detour of it, or the restore of
\* a backup taken when the address was a block of the caller's.  Whatever is
\* stored, the island no longer counts as one that leads to its target.
IslandAddresses == {islands[list[p[1]]][p[2]].address : p \in IslandPlaces}
Hit(lo, n) == {x \in IslandAddresses : Overlap(x, Alignment, lo, n)}

\* The JIT emits code into memory that is allocated.
WriteMemory(addr, size) ==
  /\ size # 0
  /\ InAllocation(addr, size)
  /\ Overwrite(addr, size)
  /\ spoiled' = spoiled \cup Hit(addr, size)
  /\ ret' = "OK"
  /\ UNCHANGED <<list, free, allocs, islands, saved>>

-----------------------------------------------------------------------------
(* mono_ios_jit_detour_apply *)

DetourError(s, t) ==
  IF Validate(s, Word) # "OK" THEN Validate(s, Word)
  ELSE IF t = Null \/ t = s \/ t % Word # 0 THEN "EINVAL"
  ELSE "OK"

\* Store a branch to d at s and remember that t is the target asked for.
BranchTo(s, d) == Landing(s, Encoded(s, d))
Branch(s, d, t) == /\ jump' = Put(jump, s, BranchTo(s, d))
                   /\ patched' = Put(patched, s, t)
                   /\ spoiled' = spoiled \cup Hit(s, Word)

ApplyDirect(s, t) ==
  /\ Encodable(s, t)
  /\ Branch(s, t, t)
  /\ ret' = "OK"
  /\ UNCHANGED <<list, free, allocs, islands, saved>>

ReusableAnyTarget(s, t) ==  \* mutant: the island's target is not compared
  {p \in IslandPlaces : Encodable(s, islands[list[p[1]]][p[2]].address)}

\* The islands to t that s can reach.
Reusable(s, t) ==
  {p \in IslandPlaces : /\ islands[list[p[1]]][p[2]].target = t
                        /\ Encodable(s, islands[list[p[1]]][p[2]].address)}

ApplyReuse(s, t) ==
  /\ ~Encodable(s, t)
  /\ \E p \in IslandPlaces :
       /\ IsFirst(p, Reusable(s, t))
       /\ Branch(s, islands[list[p[1]]][p[2]].address, t)
  /\ ret' = "OK"
  /\ UNCHANGED <<list, free, allocs, islands, saved>>

\* Lowest aligned address of free range r of arena a not below s's reach.
MinimumAddress(s) == IF s >= BackwardMax THEN s - BackwardMax ELSE 0
LowestUnclamped(a, r, s) == Base[a] + r.offset  \* mutant: only the range's start
Lowest(a, r, s) == IF Base[a] + r.offset < MinimumAddress(s)
                   THEN MinimumAddress(s) ELSE Base[a] + r.offset
Candidate(a, r, s) == RoundUp(Lowest(a, r, s))

\* Whether an island for s fits there.
Suits(a, r, s) ==
  LET offset == Candidate(a, r, s) - Base[a]
  IN  /\ Lowest(a, r, s) <= AddressSpace - 1 - (Alignment - 1)
      /\ offset >= r.offset
      /\ offset - r.offset <= r.size
      /\ Alignment <= r.size - (offset - r.offset)
      /\ Encodable(s, Candidate(a, r, s))

Suitable(s) == {p \in FreePlaces : Suits(list[p[1]], free[list[p[1]]][p[2]], s)}

\* What remains of r around an island at offset.
Leading(r, offset) ==
  IF offset = r.offset THEN <<>>
  ELSE <<[offset |-> r.offset, size |-> offset - r.offset]>>
Trailing(r, offset) ==
  IF r.offset + r.size = offset + Alignment THEN <<>>
  ELSE <<[offset |-> offset + Alignment,
          size |-> r.offset + r.size - (offset + Alignment)]>>

PushAlone(s, island) == <<island>>  \* mutant: island->next is not set
Push(s, island) == <<island>> \o s

\* Carve an island to t out of free range i of arena a and branch to it.
Carve(a, i, s, t) ==
  LET r == free[a][i]
      address == Candidate(a, r, s)
      offset == address - Base[a]
  IN  /\ free' = [free EXCEPT ![a] =
                    Splice(@, i - 1, i + 1, Leading(r, offset) \o Trailing(r, offset))]
      /\ allocs' = [allocs EXCEPT ![a] = @ \cup {[offset |-> offset, size |-> Alignment]}]
      /\ islands' = [islands EXCEPT ![a] = 
                          Push(@, [address |-> address, target |-> t])]
      /\ jump' = Put(Put(Keep(jump, address, Alignment), address, t), s, BranchTo(s, address))
      /\ patched' = Put(Keep(patched, address, Alignment), s, t)
      /\ spoiled' = spoiled \cup Hit(s, Word)
      /\ UNCHANGED <<list, saved>>

ApplyIsland(s, t) ==
  /\ ~Encodable(s, t)
  /\ Reusable(s, t) = {}
  /\ \/ \E p \in FreePlaces : /\ IsFirst(p, Suitable(s))
                              /\ \/ Carve(list[p[1]], p[2], s, t) /\ ret' = "OK"
                                 \/ MallocMayFail /\ Return("ENOMEM")
     \/ Suitable(s) = {} /\ Return("ENOMEM")

DetourApply(s, t) ==
  \/ DetourError(s, t) # "OK" /\ Return(DetourError(s, t))
  \/ /\ DetourError(s, t) = "OK"
     /\ ApplyDirect(s, t) \/ ApplyReuse(s, t) \/ ApplyIsland(s, t)

-----------------------------------------------------------------------------
(* mono_ios_jit_detour_backup, _restore, _validate and _flush *)

BufferError(addr, b, size) ==
  IF Validate(addr, size) # "OK" THEN Validate(addr, size)
  ELSE IF size # Word \/ ~IsDetourBuffer(b, size) THEN "EINVAL"
  ELSE "OK"

\* A buffer keeps the instruction at s: the branch of a detour, or code (no
\* destination), as the load that an island starts with.
Instruction(f, s) == IF s \in DOMAIN f \cap DOMAIN patched THEN {f[s]} ELSE {}

DetourBackup(s, b, size) ==
  \/ BufferError(s, b, size) # "OK" /\ Return(BufferError(s, b, size))
  \/ /\ BufferError(s, b, size) = "OK"
     /\ saved' = Put(saved, b, [at |-> s, jump |-> Instruction(jump, s),
                                patched |-> Instruction(patched, s)])
     /\ ret' = "OK"
     /\ UNCHANGED <<list, free, allocs, islands, jump, patched, spoiled>>

Restored(f, s, old) ==
  [x \in (DOMAIN f \ {s}) \cup {y \in {s} : old # {}} |->
     IF x = s THEN CHOOSE d \in old : TRUE ELSE f[x]]

\* A caller restores an instruction where it came from.
DetourRestore(b, size) ==
  /\ b \in DOMAIN saved
  /\ LET s == saved[b].at
     IN  \/ BufferError(s, b, size) # "OK" /\ Return(BufferError(s, b, size))
         \/ /\ BufferError(s, b, size) = "OK"
            /\ jump' = Restored(jump, s, saved[b].jump)
            /\ patched' = Restored(patched, s, saved[b].patched)
            /\ spoiled' = spoiled \cup Hit(s, Word)
            /\ ret' = "OK"
            /\ UNCHANGED <<list, free, allocs, islands, saved>>

\* Flushing adds cache maintenance to the same check; DetourPatch models it.
DetourValidate(addr, size) == Return(Validate(addr, size))

-----------------------------------------------------------------------------
(* mono_ios_jit_cleanup, at the end of the runtime and of its detours *)

Cleanup ==
  /\ list' = <<>>
  /\ free' = [a \in Arenas |-> <<>>]
  /\ allocs' = [a \in Arenas |-> {}]
  /\ islands' = [a \in Arenas |-> <<>>]
  /\ jump' = Nothing
  /\ patched' = Nothing
  /\ spoiled' = {}
  /\ saved' = Nothing
  /\ ret' = "OK"

-----------------------------------------------------------------------------
Init ==
  /\ list = <<>>
  /\ free = [a \in Arenas |-> <<>>]
  /\ allocs = [a \in Arenas |-> {}]
  /\ islands = [a \in Arenas |-> <<>>]
  /\ jump = Nothing
  /\ patched = Nothing
  /\ spoiled = {}
  /\ saved = Nothing
  /\ ret = "OK"

Next ==
  \/ Prepare
  \/ \E size \in Sizes : Alloc(size)
  \/ \E addr \in Blocks, size \in Sizes : Free(addr, size) \/ WriteMemory(addr, size)
  \/ \E s \in Sources, t \in Targets : DetourApply(s, t)
  \/ \E s \in Sources, b \in Buffers, size \in Sizes : DetourBackup(s, b, size)
  \/ \E b \in Buffers, size \in Sizes : DetourRestore(b, size)
  \/ \E s \in Sources, size \in Sizes : DetourValidate(s, size)
  \/ Cleanup

Spec == Init /\ [][Next]_vars

-----------------------------------------------------------------------------
(* Properties *)

End(r) == r.offset + r.size

\* The ranges of s are non-empty, in address order, and never adjacent.
Apart(s) == \A i \in 1 .. Len(s) : /\ s[i].size > 0
                                   /\ \A j \in i + 1 .. Len(s) : End(s[i]) < s[j].offset

\* The ranges of s and of A lie below capacity, and two of them overlap only
\* when both are of s.
Exclusive(s, A, capacity) ==
  /\ \A i \in 1 .. Len(s) : End(s[i]) <= capacity
  /\ \A r \in A : r.size > 0 /\ End(r) <= capacity
  /\ \A r, q \in A : r # q => End(r) <= q.offset \/ End(q) <= r.offset
  /\ \A r \in A, i \in 1 .. Len(s) : End(r) <= s[i].offset \/ End(s[i]) <= r.offset

\* Every byte below capacity is in a range of s or of A.
Exhaustive(s, A, capacity) ==
  \A x \in 0 .. capacity - 1 :
    \/ \E r \in A : r.offset <= x /\ x < End(r)
    \/ \E i \in 1 .. Len(s) : s[i].offset <= x /\ x < End(s[i])

\* Free ranges stay in address order and never adjacent, whatever the order
\* of allocations, frees and island splits: otherwise memory that is free is
\* not found (mono_ios_jit_free merges, the two splits keep the order).
Coalesced == \A a \in Arenas : Apart(free[a])

\* No byte of an arena has two owners: two allocations, or an allocation and
\* a free range, never overlap and never leave the arena.
Disjoint == \A a \in Arenas : Exclusive(free[a], allocs[a], Capacity[a])

\* No byte of an arena is lost by a split, a merge or a failed call: each is
\* allocated or free.
Covered == \A a \in Published : Exhaustive(free[a], allocs[a], Capacity[a])

\* An arena the kernel has not handed out holds nothing (for the proof).
Unused == \A a \in Arenas \ Published : allocs[a] = {}

\* An island the list of an arena names keeps a block of its own, which no
\* call frees or hands out; and it leads to the target recorded for it, so that
\* later detours can share it, until a caller itself stores into it: no alloc,
\* free, carve, or store at another address changes it.  (A caller does so by
\* restoring a backup of code it has freed since, or by detouring or writing at
\* an island's address: the code checks none of this.)
IslandsIntact ==
  \A p \in IslandPlaces :
    LET a == list[p[1]]
        island == islands[a][p[2]]
    IN  /\ [offset |-> island.address - Base[a], size |-> Alignment] \in allocs[a]
        /\ island.address \notin spoiled => /\ island.address \in DOMAIN jump
                                          /\ jump[island.address] = island.target

\* Where execution arrives from a branch at s: one more hop through an island.
Lands(s) == IF jump[s] # patched[s] /\ jump[s] \in DOMAIN jump THEN jump[jump[s]]
            ELSE jump[s]

\* A detoured address leads to the target last asked for, directly or through
\* an island, whatever is allocated, freed, backed up, restored or detoured
\* afterwards, and with a branch the instruction can encode.  The exception is
\* a branch to an island that a caller has stored into: the functions that
\* share that island, and no others, are led astray.
DetoursLand ==
  \A s \in DOMAIN patched : /\ s \in DOMAIN jump
                            /\ Encodable(s, jump[s])
                            /\ Lands(s) = patched[s] \/ jump[s] \in spoiled

\* A detour fails for lack of memory only when no branch lands on an aligned
\* free block: the search that tries one candidate per free range misses none.
SearchComplete ==
  \A s \in Sources :
    (s # Null /\ Suitable(s) = {}) =>
      \A a \in Published : \A x \in {y \in 0 .. Capacity[a] - Alignment : y % Alignment = 0} :
        \/ \A field \in Fields : Landing(s, field) # Base[a] + x
        \/ \E r \in allocs[a] : Overlap(x, Alignment, r.offset, r.size)

\* An allocation fails only when no run of that many bytes is unallocated in
\* any arena: free memory is never hidden by how it was cut up.
AllocComplete ==
  \A size \in Sizes :
    (Rounds(size) /\ Fitting(RoundUp(size)) = {}) =>
      \A a \in Published : \A x \in 0 .. Capacity[a] - RoundUp(size) :
        \E r \in allocs[a] : Overlap(x, RoundUp(size), r.offset, r.size)

\* While an arena is published, its islands stay where they are: branches
\* kept in backup buffers point at them.
IslandsPermanent ==
  [][list' # <<>> =>
       \A a \in Published : \E old \in 0 .. Len(islands'[a]) :
         islands[a] = SubSeq(islands'[a], old + 1, Len(islands'[a]))]_vars

\* A call that reports an error leaves the pool and all code as they were.
FailedCallsChangeNothing ==
  [][ret' # "OK" => UNCHANGED <<pool, jump, patched>>]_vars

-----------------------------------------------------------------------------
(* The pool implements CodeService *)

Block(a, r) == [address |-> Base[a] + r.offset, size |-> r.size]
Owned == UNION {{Block(a, r) : r \in allocs[a]} : a \in Published}
OwnIslands ==
  {[address |-> islands[list[p[1]]][p[2]].address, size |-> Alignment] : p \in IslandPlaces}

\* The detoured addresses in memory that somebody owns.
Detoured == {s \in DOMAIN patched : InAllocation(s, 1)}

\* The functions that lead elsewhere, and what the buffers hold.
Routes == IF spoiled = {} THEN [s \in Detoured |-> Lands(s)] ELSE Nothing
Kept == IF spoiled = {}
        THEN [b \in DOMAIN saved |-> [at |-> saved[b].at, route |-> saved[b].patched]]
        ELSE Nothing

Service == INSTANCE CodeService WITH
  Regions <- Arenas, First <- Base, Size <- Capacity,
  open <- Published, blocks <- Owned, pinned <- OwnIslands, sound <- spoiled = {},
  routes <- Routes, kept <- Kept

\* No caller can tell that there are free lists, islands and hops: whatever
\* the order of the calls, each of them hands out, takes back or writes memory
\* of one owner, or sends one function elsewhere (backups and restores too),
\* and leaves every other function leading where it led.  From a store into an
\* island to the next cleanup, what is left of this is that blocks have one owner.
ImplementsService == Service!Spec
=============================================================================
