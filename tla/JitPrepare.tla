----------------------------- MODULE JitPrepare -----------------------------
(***************************************************************************)
(* mono_ios_jit_prepare and mono_ios_jit_cleanup (src/mono/Scripts/        *)
(* mono-ios-jit.cpp) step by step, with the readers that walk the list of  *)
(* arenas without its mutex, the debugger that lends the code region, and  *)
(* the kernel that maps, remaps and protects it.                           *)
(*                                                                         *)
(* A thread runs one call at a time; a step is one statement that touches  *)
(* state another thread, the debugger or the kernel sees.  Kernel errors   *)
(* are nondeterministic and abstracted to EIO.  CodePool takes the outcome *)
(* of such a call as one step.                                             *)
(***************************************************************************)
EXTENDS Integers, Sequences, FiniteSets

CONSTANTS
  Threads,     \* threads that prepare or clean up
  Readers,     \* threads that look up an address
  Arenas,      \* arena structures the heap can hand out
  None,        \* the NULL pointer, or no thread
  Devices,     \* how devices choose the protocol: "debugger", "kernel", "error"
  Spontaneous, \* whether the debugger may leave unasked
  Timeout,     \* the detach timeout, in ticks of the poll
  MaxCalls,    \* bound: calls per thread
  MaxAttach    \* bound: times a debugger attaches

ASSUME PrepareAssumption ==
  /\ None \notin Arenas \cup Threads \cup {"idle"}
  /\ "idle" \notin Arenas
  /\ Devices \subseteq {"debugger", "kernel", "error"}
  /\ Spontaneous \in BOOLEAN
  /\ Timeout \in Nat \ {0}
  /\ MaxCalls \in Nat
  /\ MaxAttach \in Nat
  /\ IsFiniteSet(Arenas)

VARIABLES
  pc, kind, mine, err, calls,  \* per thread: place, request, arena, error, calls made
  mutex,     \* the holder of arena_mutex
  head,      \* arena_head
  next,      \* next[a]: the field next
  heap,      \* the arena structures allocated
  field,     \* field[a][side]: execute_address and write_address
  prot,      \* prot[a][side]: the kernel's protection of the region
  device,    \* the protocol this device needs, and whether its setting parses
  traced,    \* P_TRACED: a debugger is attached
  leaving,   \* the debugger was asked to detach
  debugged,  \* CS_DEBUGGED: a debugger was attached once
  attaches,  \* times a debugger attached
  lent,      \* ghost: the debugger lent a region and was not sent away yet
  unsure,    \* ghost: a call ended while the debugger it sent away was there
  gone,      \* ghost: the debugger left before the deadline
  alive,     \* no trap was executed without a debugger
  left,      \* ticks until the deadline
  expired,   \* has_expired
  cur, want, \* per reader: the arena it is at (or "idle"), the one it looks for
  due        \* ghost, per reader: whether a call had returned with that one before

call == <<pc, kind, mine, err, calls>>
list == <<head, next, heap>>
kernel == <<field, prot, device>>
debugger == <<traced, leaving, debugged, attaches, lent, unsure, gone, alive>>
clock == <<left, expired>>
readers == <<cur, want, due>>
vars == <<call, mutex, list, kernel, debugger, clock, readers>>

Sides == {"execute", "write"}
Kinds == {"startup", "extend", "cleanup"}
Errors == {"OK", "EINVAL", "ENOMEM", "EPERM", "EIO", "EFAULT", "EACCES", "EBUSY"}
Waiting == {"look", "sleep", "poll"}
Places == {"idle", "enter", "lock", "recheck", "protocol", "status", "ask", "signing",
           "allocate", "protect", "address", "remap", "alias", "detach", "firstLook",
           "verify", "link", "store", "release", "exchange", "clean", "unlock"} \cup Waiting

\* The arenas reached from x along f: in every set that has x and is closed
\* under f.
Chain(x, f) ==
  {a \in Arenas : \A S \in SUBSET Arenas :
     (x \in S \cup {None} /\ \A b \in S : f[b] \in S \cup {None}) => a \in S}

Published == Chain(head, next)

TypeOK ==
  /\ pc \in [Threads -> Places]
  /\ kind \in [Threads -> Kinds]
  /\ mine \in [Threads -> Arenas \cup {None}]
  /\ err \in [Threads -> Errors]
  /\ calls \in [Threads -> 0 .. MaxCalls]
  /\ mutex \in Threads \cup {None}
  /\ head \in heap \cup {None}
  /\ next \in [Arenas -> Arenas \cup {None}]
  /\ heap \subseteq Arenas
  /\ field \in [Arenas -> [Sides -> {"null", "region", "odd"}]]
  /\ prot \in [Arenas -> [Sides -> {"unmapped", "rw", "rx"}]]
  /\ device \in [protocol : Devices, setting : BOOLEAN]
  /\ {traced, leaving, debugged, lent, unsure, gone, alive, expired} \subseteq BOOLEAN
  /\ attaches \in 0 .. MaxAttach
  /\ left \in 0 .. Timeout
  /\ cur \in [Readers -> Arenas \cup {None, "idle"}]
  /\ want \in [Readers -> Arenas \cup {None}]
  /\ due \in [Readers -> BOOLEAN]

-----------------------------------------------------------------------------
(* Control *)

Goto(t, place) == pc' = [pc EXCEPT ![t] = place]
At(t, place) == pc[t] = place

\* goto fail, goto detach and return, with error e.
Exit(t, place, e) == /\ Goto(t, place)
                     /\ err' = [err EXCEPT ![t] = e]
Fail(t, e) == Exit(t, "release", e)
Return(t, e) == Exit(t, "idle", e)

SetField(a, side, value) == field' = [field EXCEPT ![a][side] = value]
SetProt(a, side, value) == prot' = [prot EXCEPT ![a][side] = value]

\* The arenas of calls in progress.
InUse == {mine[t] : t \in {u \in Threads : ~At(u, "idle") /\ ~At(u, "unlock")}}

\* A step between the thread and its environment that only moves the thread.
OnlyMoves == UNCHANGED <<kind, mine, calls, mutex, list, kernel, debugger, clock, readers>>

-----------------------------------------------------------------------------
(* mono_ios_jit_prepare: before the mutex *)

\* mono_ios_jit_cleanup runs when the runtime has shut down: nothing looks
\* code up any more.
Begin(t, k) ==
  /\ At(t, "idle")
  /\ calls[t] < MaxCalls
  /\ k = "cleanup" => \A r \in Readers : cur[r] = "idle"
  /\ kind' = [kind EXCEPT ![t] = k]
  /\ mine' = [mine EXCEPT ![t] = None]
  /\ err' = [err EXCEPT ![t] = "OK"]
  /\ calls' = [calls EXCEPT ![t] = calls[t] + 1]
  /\ Goto(t, IF k = "cleanup" THEN "lock" ELSE "enter")
  /\ UNCHANGED <<mutex, list, kernel, debugger, clock, readers>>

\* Calls that end before they own anything: the pool exists, the setting or
\* the capacity is no good, calloc fails.
EnterEnds(t) ==
  /\ At(t, "enter")
  /\ \/ kind[t] = "startup" /\ head # None /\ Return(t, "OK")
     \/ kind[t] = "startup" /\ head = None /\ ~device.setting /\ Return(t, "EINVAL")
     \/ kind[t] = "extend" /\ Return(t, "EINVAL")
     \/ (kind[t] = "startup" => head = None /\ device.setting) /\ Return(t, "ENOMEM")
  /\ OnlyMoves

\* The arena structure, zeroed, and its one free range.
Enter(t, a) ==
  /\ At(t, "enter")
  /\ kind[t] = "startup" => head = None /\ device.setting
  /\ a \notin heap
  /\ heap' = heap \cup {a}
  /\ next' = [next EXCEPT ![a] = None]
  /\ field' = [field EXCEPT ![a] = [side \in Sides |-> "null"]]
  /\ mine' = [mine EXCEPT ![t] = a]
  /\ Goto(t, "lock")
  /\ UNCHANGED <<kind, err, calls, mutex, head, prot, device, debugger, clock, readers>>

Lock(t) ==
  /\ At(t, "lock")
  /\ mutex = None
  /\ mutex' = t
  /\ Goto(t, IF kind[t] = "cleanup" THEN "exchange" ELSE "recheck")
  /\ UNCHANGED <<kind, mine, err, calls, list, kernel, debugger, clock, readers>>

\* pthread_mutex_lock reports an error: prepare frees its arena, cleanup has
\* done nothing yet.
LockFails(t) ==
  /\ At(t, "lock")
  /\ \/ kind[t] = "cleanup" /\ UNCHANGED heap
     \/ kind[t] # "cleanup" /\ heap' = heap \ {mine[t]}
  /\ Return(t, "EINVAL")
  /\ UNCHANGED <<kind, mine, calls, mutex, head, next, kernel, debugger, clock, readers>>

RecheckNothing(t) ==  \* mutant: the pool is not looked at again under the mutex
  /\ At(t, "recheck")
  /\ Goto(t, "protocol")
  /\ UNCHANGED err
  /\ OnlyMoves

RecheckPublishing(t) ==  \* mutant: the arena is published before it is mapped
  /\ At(t, "recheck")
  /\ next' = [next EXCEPT ![mine[t]] = head]
  /\ head' = mine[t]
  /\ Goto(t, "protocol")
  /\ UNCHANGED <<kind, mine, err, calls, mutex, heap, kernel, debugger, clock, readers>>

\* Another thread has published the startup pool meanwhile: give up one's own.
Recheck(t) ==
  /\ At(t, "recheck")
  /\ \/ /\ kind[t] = "startup" /\ head # None
        /\ heap' = heap \ {mine[t]}
        /\ mutex' = None
        /\ Return(t, "OK")
        /\ UNCHANGED <<kind, mine, calls, head, next, kernel, debugger, clock, readers>>
     \/ /\ kind[t] = "extend" \/ head = None
        /\ Goto(t, "protocol")
        /\ UNCHANGED err
        /\ OnlyMoves

-----------------------------------------------------------------------------
(* The region the debugger lends *)

\* debugger_protocol_required
Protocol(t) ==
  /\ At(t, "protocol")
  /\ \/ device.protocol = "error" /\ Fail(t, "EIO")
     \/ device.protocol = "debugger" /\ Goto(t, "status") /\ UNCHANGED err
     \/ device.protocol = "kernel" /\ Goto(t, "signing") /\ UNCHANGED err
  /\ OnlyMoves

StatusTrusting(t) ==  \* mutant: the trap is not guarded by P_TRACED
  /\ At(t, "status")
  /\ Goto(t, "ask")
  /\ UNCHANGED err
  /\ OnlyMoves

\* debugger_status before the trap.
Status(t) ==
  /\ At(t, "status")
  /\ \/ Fail(t, "EIO")
     \/ ~traced /\ Fail(t, "EPERM")
     \/ traced /\ Goto(t, "ask") /\ UNCHANGED err
  /\ OnlyMoves

\* A trap with nobody attached ends the process.
Trap(t) ==
  /\ At(t, "ask") \/ (At(t, "detach") /\ device.protocol = "debugger")
  /\ ~traced
  /\ alive' = FALSE
  /\ UNCHANGED <<call, mutex, list, kernel, traced, leaving, debugged, attaches, lent,
                 unsure, gone, clock, readers>>

AskKeeping(t) ==  \* mutant: without a region the debugger is not sent away
  /\ At(t, "ask")
  /\ traced
  /\ lent' = TRUE
  /\ \/ /\ Fail(t, "ENOMEM")
        /\ UNCHANGED <<field, prot>>
     \/ /\ SetField(mine[t], "execute", "region")
        /\ SetProt(mine[t], "execute", "rx")
        /\ Goto(t, "address")
        /\ UNCHANGED err
  /\ UNCHANGED <<kind, mine, calls, mutex, list, device, traced, leaving, debugged, attaches,
                 unsure, gone, alive, clock, readers>>

\* prepare_region: the debugger answers with a region, with NULL, or with an
\* address that no region starts at.
Ask(t) ==
  /\ At(t, "ask")
  /\ traced
  /\ lent' = TRUE
  /\ \/ /\ Exit(t, "detach", "ENOMEM")
        /\ UNCHANGED <<field, prot>>
     \/ /\ SetField(mine[t], "execute", "region")
        /\ \E p \in {"rw", "rx"} : SetProt(mine[t], "execute", p)
        /\ Goto(t, "address")
        /\ UNCHANGED err
     \/ /\ SetField(mine[t], "execute", "odd")
        /\ Goto(t, "address")
        /\ UNCHANGED <<err, prot>>
  /\ UNCHANGED <<kind, mine, calls, mutex, list, device, traced, leaving, debugged, attaches,
                 unsure, gone, alive, clock, readers>>

-----------------------------------------------------------------------------
(* The region the kernel maps, and the writable alias *)

\* code_signing_status
Signing(t) ==
  /\ At(t, "signing")
  /\ \/ Fail(t, "EIO")
     \/ ~debugged /\ Fail(t, "EPERM")
     \/ debugged /\ Goto(t, "allocate") /\ UNCHANGED err
  /\ OnlyMoves

\* What only changes the fields and the protections of regions.
OnlyMaps == UNCHANGED <<kind, mine, calls, mutex, list, device, debugger, clock, readers>>

Allocate(t) ==
  /\ At(t, "allocate")
  /\ \/ Fail(t, "EIO") /\ UNCHANGED <<field, prot>>
     \/ /\ SetField(mine[t], "execute", "region")
        /\ SetProt(mine[t], "execute", "rw")
        /\ Goto(t, "protect")
        /\ UNCHANGED err
  /\ OnlyMaps

Protect(t) ==
  /\ At(t, "protect")
  /\ \/ Fail(t, "EIO") /\ UNCHANGED prot
     \/ SetProt(mine[t], "execute", "rx") /\ Goto(t, "address") /\ UNCHANGED err
  /\ UNCHANGED field
  /\ OnlyMaps

AddressKept(t) ==  \* mutant: the address stays in the arena
  /\ At(t, "address")
  /\ \/ field[mine[t]]["execute"] = "odd" /\ Exit(t, "detach", "EFAULT")
     \/ field[mine[t]]["execute"] = "region" /\ Goto(t, "remap") /\ UNCHANGED err
  /\ UNCHANGED <<field, prot>>
  /\ OnlyMaps

\* An address no region starts at is forgotten, not unmapped.
Address(t) ==
  /\ At(t, "address")
  /\ \/ /\ field[mine[t]]["execute"] = "odd"
        /\ SetField(mine[t], "execute", "null")
        /\ Exit(t, "detach", "EFAULT")
     \/ /\ field[mine[t]]["execute"] = "region"
        /\ Goto(t, "remap")
        /\ UNCHANGED <<err, field>>
  /\ UNCHANGED prot
  /\ OnlyMaps

\* vm_remap keeps the protection; its address is checked too.
Remap(t) ==
  /\ At(t, "remap")
  /\ \/ Exit(t, "detach", "EIO") /\ UNCHANGED <<field, prot>>
     \/ /\ SetField(mine[t], "write", "region")
        /\ SetProt(mine[t], "write", prot[mine[t]]["execute"])
        /\ Exit(t, "detach", "EFAULT") \/ (Goto(t, "alias") /\ UNCHANGED err)
  /\ OnlyMaps

Alias(t) ==
  /\ At(t, "alias")
  /\ \/ Exit(t, "detach", "EIO") /\ UNCHANGED prot
     \/ SetProt(mine[t], "write", "rw") /\ Goto(t, "detach") /\ UNCHANGED err
  /\ UNCHANGED field
  /\ OnlyMaps

-----------------------------------------------------------------------------
(* detach_debugger and wait_for_debugger_detach *)

\* Without the protocol there is nobody to send away.
Detach(t) ==
  /\ At(t, "detach")
  /\ \/ /\ device.protocol = "debugger"
        /\ traced
        /\ leaving' = TRUE
        /\ lent' = FALSE
        /\ Goto(t, IF err[t] = "OK" THEN "firstLook" ELSE "release")
     \/ /\ device.protocol = "kernel"
        /\ Goto(t, IF err[t] = "OK" THEN "verify" ELSE "release")
        /\ UNCHANGED <<leaving, lent>>
  /\ UNCHANGED <<kind, mine, err, calls, mutex, list, kernel, traced, debugged, attaches,
                 unsure, gone, alive, clock, readers>>

\* The first look at P_TRACED, and the deadline.
FirstLook(t) ==
  /\ At(t, "firstLook")
  /\ \/ Fail(t, "EIO") /\ UNCHANGED <<left, gone>>
     \/ ~traced /\ Goto(t, "verify") /\ UNCHANGED <<err, left, gone>>
     \/ /\ traced
        /\ left' = Timeout
        /\ gone' = FALSE
        /\ Goto(t, "look")
        /\ UNCHANGED err
  /\ UNCHANGED <<kind, mine, calls, mutex, list, kernel, traced, leaving, debugged, attaches,
                 lent, unsure, alive, expired, readers>>

\* What only moves the thread and its view of the clock.
OnlyWaits == UNCHANGED <<kind, mine, calls, mutex, list, kernel, debugger, readers>>

\* clock_gettime: any time may have passed.
Look(t) ==
  /\ At(t, "look")
  /\ \/ Fail(t, "EIO") /\ UNCHANGED clock
     \/ /\ left' \in 0 .. left
        /\ expired' = (left' = 0)
        /\ Goto(t, IF expired' THEN "poll" ELSE "sleep")
        /\ UNCHANGED err
  /\ OnlyWaits

\* nanosleep, a signal may cut it short: at least a tick passes all the same.
Sleep(t) ==
  /\ At(t, "sleep")
  /\ \/ Fail(t, "EIO") /\ UNCHANGED left
     \/ /\ left' \in 0 .. left - 1
        /\ Goto(t, "poll")
        /\ UNCHANGED err
  /\ UNCHANGED expired
  /\ OnlyWaits

PollForever(t) ==  \* mutant: the deadline is never looked at
  /\ At(t, "poll")
  /\ \/ ~traced /\ Goto(t, "verify") /\ UNCHANGED err
     \/ traced /\ Goto(t, "look") /\ UNCHANGED err
  /\ UNCHANGED clock
  /\ OnlyWaits

PollDeadlineFirst(t) ==  \* mutant: the deadline is looked at before P_TRACED
  /\ At(t, "poll")
  /\ \/ expired /\ Fail(t, "EBUSY")
     \/ ~expired /\ ~traced /\ Goto(t, "verify") /\ UNCHANGED err
     \/ ~expired /\ traced /\ Goto(t, "look") /\ UNCHANGED err
  /\ UNCHANGED clock
  /\ OnlyWaits

\* debugger_status in the loop.
Poll(t) ==
  /\ At(t, "poll")
  /\ \/ Fail(t, "EIO")
     \/ ~traced /\ Goto(t, "verify") /\ UNCHANGED err
     \/ traced /\ expired /\ Fail(t, "EBUSY")
     \/ traced /\ ~expired /\ Goto(t, "look") /\ UNCHANGED err
  /\ UNCHANGED clock
  /\ OnlyWaits

-----------------------------------------------------------------------------
(* Verification and publication *)

VerifyAliasOnly(t) ==  \* mutant: the executable side is not verified
  /\ At(t, "verify")
  /\ \/ prot[mine[t]]["write"] # "rw" /\ Fail(t, "EACCES")
     \/ Fail(t, "EIO")
     \/ prot[mine[t]]["write"] = "rw" /\ Goto(t, "link") /\ UNCHANGED err
  /\ OnlyMoves

\* verify_arena: the protections the kernel reports, and a probe that runs
\* in every page through both views.
Verify(t) ==
  /\ At(t, "verify")
  /\ LET verified == prot[mine[t]] = [execute |-> "rx", write |-> "rw"]
     IN  \/ ~verified /\ Fail(t, "EACCES")
         \/ Fail(t, "EIO")
         \/ verified /\ Goto(t, "link") /\ UNCHANGED err
  /\ OnlyMoves

LinkNothing(t) ==  \* mutant: arena->next is not set
  /\ At(t, "link")
  /\ Goto(t, "store")
  /\ UNCHANGED <<kind, mine, err, calls, mutex, list, kernel, debugger, clock, readers>>

Link(t) ==
  /\ At(t, "link")
  /\ next' = [next EXCEPT ![mine[t]] = head]
  /\ Goto(t, "store")
  /\ UNCHANGED <<kind, mine, err, calls, mutex, head, heap, kernel, debugger,
                 clock, readers>>

\* The release store that readers acquire.
Store(t) ==
  /\ At(t, "store")
  /\ head' = mine[t]
  /\ Goto(t, "unlock")
  /\ UNCHANGED <<kind, mine, err, calls, mutex, next, heap, kernel, debugger,
                 clock, readers>>

UnmapExecuteOnly(a) ==  \* mutant: the alias is not deallocated
  prot' = [prot EXCEPT ![a]["execute"] =
             IF field[a]["execute"] = "null" THEN prot[a]["execute"] ELSE "unmapped"]

\* release_arena deallocates what the two fields name.
Unmap(a) ==
  prot' = [prot EXCEPT ![a] = [side \in Sides |->
             IF field[a][side] = "null" THEN prot[a][side] ELSE "unmapped"]]

\* The label fail.
Release(t) ==
  /\ At(t, "release")
  /\ Unmap(mine[t])
  /\ heap' = heap \ {mine[t]}
  /\ unsure' = (unsure \/ (leaving /\ traced))
  /\ Goto(t, "unlock")
  /\ UNCHANGED <<kind, mine, err, calls, mutex, head, next, field, device, traced,
                 leaving, debugged, attaches, lent, gone, alive, clock, readers>>

Unlock(t) ==
  /\ At(t, "unlock")
  /\ mutex' = None
  /\ Goto(t, "idle")
  /\ UNCHANGED <<kind, mine, err, calls, list, kernel, debugger, clock, readers>>

-----------------------------------------------------------------------------
(* mono_ios_jit_cleanup *)

ExchangeNothing(t) ==  \* mutant: arena_head keeps its value
  /\ At(t, "exchange")
  /\ mine' = [mine EXCEPT ![t] = head]
  /\ Goto(t, "clean")
  /\ UNCHANGED <<kind, err, calls, mutex, list, kernel, debugger, clock, readers>>

Exchange(t) ==
  /\ At(t, "exchange")
  /\ mine' = [mine EXCEPT ![t] = head]
  /\ head' = None
  /\ Goto(t, "clean")
  /\ UNCHANGED <<kind, err, calls, mutex, next, heap, kernel, debugger, clock, readers>>

Clean(t) ==
  /\ At(t, "clean")
  /\ \/ /\ mine[t] # None
        /\ Unmap(mine[t])
        /\ heap' = heap \ {mine[t]}
        /\ mine' = [mine EXCEPT ![t] = next[mine[t]]]
        /\ UNCHANGED pc
     \/ /\ mine[t] = None
        /\ Goto(t, "unlock")
        /\ UNCHANGED <<mine, heap, prot>>
  /\ UNCHANGED <<kind, err, calls, mutex, head, next, field, device, debugger,
                 clock, readers>>

-----------------------------------------------------------------------------
(* find_arena and mono_ios_jit_contains_code *)

\* A lookup of an address in arena a; none starts after the shutdown.
LoadHead(r, a) ==
  /\ cur[r] = "idle"
  /\ \A t \in Threads : kind[t] = "cleanup" => At(t, "idle")
  /\ cur' = [cur EXCEPT ![r] = head]
  /\ want' = [want EXCEPT ![r] = a]
  /\ due' = [due EXCEPT ![r] = a \in heap \ InUse]
  /\ UNCHANGED <<call, mutex, list, kernel, debugger, clock>>

Visit(r) ==
  /\ cur[r] # "idle"
  /\ \/ /\ cur[r] \in {None, want[r]}
        /\ cur' = [cur EXCEPT ![r] = "idle"]
        /\ want' = [want EXCEPT ![r] = None]
        /\ due' = [due EXCEPT ![r] = FALSE]
     \/ /\ cur[r] \in Arenas \ {want[r]}
        /\ cur' = [cur EXCEPT ![r] = next[cur[r]]]
        /\ UNCHANGED <<want, due>>
  /\ UNCHANGED <<call, mutex, list, kernel, debugger, clock>>

-----------------------------------------------------------------------------
(* The debugger *)

OnlyDebugger == UNCHANGED <<call, mutex, list, kernel, lent, unsure, alive, clock, readers>>

Attach ==
  /\ ~traced
  /\ attaches < MaxAttach
  /\ attaches' = attaches + 1
  /\ traced' = TRUE
  /\ debugged' = TRUE
  /\ leaving' = FALSE
  /\ gone' = FALSE
  /\ OnlyDebugger

\* It leaves when it was asked to, some time later.
Leave ==
  /\ traced
  /\ leaving \/ Spontaneous
  /\ traced' = FALSE
  /\ leaving' = FALSE
  /\ gone' = (gone \/ (left > 0 /\ \E t \in Threads : pc[t] \in Waiting))
  /\ UNCHANGED <<debugged, attaches>>
  /\ OnlyDebugger

-----------------------------------------------------------------------------
Init ==
  /\ pc = [t \in Threads |-> "idle"]
  /\ kind = [t \in Threads |-> "startup"]
  /\ mine = [t \in Threads |-> None]
  /\ err = [t \in Threads |-> "OK"]
  /\ calls = [t \in Threads |-> 0]
  /\ mutex = None
  /\ head = None
  /\ next = [a \in Arenas |-> None]
  /\ heap = {}
  /\ field = [a \in Arenas |-> [side \in Sides |-> "null"]]
  /\ prot = [a \in Arenas |-> [side \in Sides |-> "unmapped"]]
  /\ device \in [protocol : Devices, setting : BOOLEAN]
  /\ traced = FALSE
  /\ leaving = FALSE
  /\ debugged = FALSE
  /\ attaches = 0
  /\ lent = FALSE
  /\ unsure = FALSE
  /\ gone = FALSE
  /\ alive = TRUE
  /\ left = 0
  /\ expired = FALSE
  /\ cur = [r \in Readers |-> "idle"]
  /\ want = [r \in Readers |-> None]
  /\ due = [r \in Readers |-> FALSE]

\* A step of the call thread t is in, but for LockFails: fairness must not
\* ask of a mutex that it fails.
Step(t) ==
  \/ EnterEnds(t)
  \/ \E a \in Arenas : Enter(t, a)
  \/ Lock(t) \/ Recheck(t) \/ Protocol(t)
  \/ Status(t) \/ Trap(t) \/ Ask(t)
  \/ Signing(t) \/ Allocate(t) \/ Protect(t)
  \/ Address(t) \/ Remap(t) \/ Alias(t)
  \/ Detach(t) \/ FirstLook(t) \/ Look(t) \/ Sleep(t) \/ Poll(t)
  \/ Verify(t) \/ Link(t) \/ Store(t)
  \/ Release(t) \/ Unlock(t)
  \/ Exchange(t) \/ Clean(t)

Running ==
  /\ alive
  /\ \/ \E t \in Threads : Step(t) \/ LockFails(t) \/ \E k \in Kinds : Begin(t, k)
     \/ \E r \in Readers : Visit(r) \/ \E a \in Arenas : LoadHead(r, a)
     \/ Attach
     \/ Leave

\* The process is dead, or every call it may make has returned.
Stopped == /\ ~alive \/ \A t \in Threads : At(t, "idle") /\ calls[t] = MaxCalls
           /\ UNCHANGED vars

Next == Running \/ Stopped

Spec == Init /\ [][Next]_vars

\* The system schedules every thread that can run; callers and the debugger
\* owe nothing.
Fairness == \A t \in Threads : WF_vars(alive /\ Step(t))

FairSpec == Spec /\ Fairness

-----------------------------------------------------------------------------
(* Properties *)

\* No arena is published, whatever failed on the way, unless code can run in
\* one view and be written in the other: verify_arena is never skipped.
PublishedVerified ==
  \A a \in Published : a \in heap /\ prot[a] = [execute |-> "rx", write |-> "rw"]

\* Between calls nothing is lost: an arena structure is published, in use or
\* being cleaned up, and a region is mapped only while its structure exists,
\* whichever of the steps failed.
NothingLeaks ==
  /\ \A a \in Arenas, side \in Sides : prot[a][side] # "unmapped" => a \in heap
  /\ (mutex = None /\ InUse \subseteq {None}) => heap = Published

\* release_arena never unmaps an address that was not mapped for the arena.
OnlyOwnUnmapped ==
  \A t \in Threads : At(t, "release") =>
    \A side \in Sides : field[mine[t]][side] = "null" <=> prot[mine[t]][side] = "unmapped"

\* A reader that holds no lock never reads an arena that was freed or is not
\* published: a failed prepare frees only what no reader can have seen.
ReaderSafe == \A r \in Readers : cur[r] \in Published \cup {None, "idle"}

\* A lookup finds every arena that a call made ready before it began, although
\* arenas are added before and while it walks: none falls off the list.
ReaderFinds == \A r \in Readers : cur[r] = None => ~due[r]

\* Whoever leaves prepare after the debugger lent it a region, with success
\* or with an error, has sent the debugger away.
DebuggerReturned == mutex = None => ~lent

\* The process executes a trap without a debugger only when an earlier call
\* failed after it had sent that debugger away (line 235 skips the wait).
TrapsAttended == ~alive => unsure

\* A call that reports a detach timeout (EBUSY) does not miss a debugger that
\* left before the deadline: the state is read again after the last sleep.
TimeoutIsLate == \A t \in Threads : At(t, "release") /\ err[t] = "EBUSY" => ~gone

\* Every call returns, even when the debugger never goes: the threads that
\* wait for the mutex meanwhile wait for the detach timeout, not for ever.
CallsReturn == \A t \in Threads : ~At(t, "idle") ~> (At(t, "idle") \/ ~alive)

\* .github/workflows/IOS.yml: "Mono waits up to 15 s for that" (for a debugger
\* to enable JIT).  A first look that finds none would then not be the last.
WaitsForJit ==
  [][\A t \in Threads : pc[t] \in {"status", "signing"} => err'[t] # "EPERM"]_vars

\* What callers can tell: the arenas from the newest to the oldest, and for
\* each call its request, or its outcome once that is settled.
Older == [a \in Published |-> next[a]]
Outcome(e) == IF e = "OK" THEN "OK" ELSE "failed"
Settled == {"idle", "unlock", "clean"}
Answer == [t \in Threads |-> IF pc[t] \in Settled THEN Outcome(err[t]) ELSE kind[t]]

\* The calls are atomic: JitPrepare implements ArenaList.
Atomic == INSTANCE ArenaList WITH newest <- head, older <- Older, call <- Answer
CallsAreAtomic == Atomic!Spec
=============================================================================
