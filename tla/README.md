# A verification project for IL2CPP2MONO

IL2CPP2MONO replaces the IL2CPP runtime of a Unity game with Mono: `libil2cpp`
becomes a library that implements Unity's IL2CPP API on top of Mono, an editor
script puts it into the exported project, and on iOS a pool of executable
memory lets Mono's JIT work under the platform's rules.  This directory holds
TLA+ models of the parts of it that keep state, the TLC runs that check them on
small instances, and proofs of the most important properties, checked by TLAPS,
that hold for every instance.

`PROJECT.json` lists components, runs, hazards, theorems, and for every
definition the source lines it stands for.

## 1. The system

| Component | Source | State it keeps | Operations |
|---|---|---|---|
| Code pool | `src/mono/Scripts/mono-ios-jit.cpp` | `arena_head` and its list of arenas; per arena free ranges, allocations, detour islands, two mapped views of one region; `arena_mutex` | prepare, cleanup, alloc, free, write and set memory, contains_code, detour apply/backup/restore/validate |
| Internal call registry | `src/il2cpp/InternalCalls.cpp`, `il2cpp-api.cpp` 82-156 | `ICallTable`, `ICallQueue`, `InterceptorMap`, `IsMonoReady`, Mono's own table | add (queued or direct), resolve, install an interceptor, flush |
| Runtime start | `src/il2cpp/main.cpp`, `Utils.cpp`, platform files | `DllPath`, `MonoPath`, directories on disk | `InitMono`, `ExtractMonoIfNecessary` |
| Xcode export | `src/Assets/Editor/IL2CPP2Mono.cs` 71-500 | the exported Xcode project on disk | one post-process step per export |
| Android export | `src/Assets/Editor/IL2CPP2Mono.cs` 27-69 | the exported Gradle project on disk | one post-process step per export |
| Liveness sessions | `il2cpp-api.cpp` 1252-1340, `MonoUtils.cpp` 38-84 | a session per call of Unity's, the stopped world | begin/allocate, from root/statics, end/finalize/free |
| Patch script | `src/mono/Scripts/IOS.py` | a checkout of Mono | check, apply, detect "already applied" |
| Edit script | `src/mono/Scripts/Android.py` | two files of a checkout | three replacements of text |
| API forwarding | the rest of `il2cpp-api.cpp` | none | about 240 functions, each one Mono call |

How they interact.  Unity calls `il2cpp_init`, which runs `InitMono`: the platform
is set up (on iOS this prepares the code pool), archives are extracted, Mono is
started, and the internal calls that Unity registered too early are flushed
from the queue.  Mono, patched by `IOS.py`, takes all code memory from the pool
and asks it, without its lock, whether an address is code.  Mods call the pool
to detour functions and the registry to intercept internal calls, from any
thread.  The editor script runs before all this, on the developer's machine.

What is hard here:

- *Shared state without a lock.*  Readers of the arena list hold nothing.  The
  registry's queue, its ready flag and its interceptors are outside its mutex.
  A processor executes a function while its first instruction is replaced.
- *Long failure paths.*  `mono_ios_jit_prepare` has a dozen ways to fail after it
  owns something, with a debugger, the kernel and a timeout in between.
- *Long sequences of legal calls.*  Free lists, islands shared by detours,
  backups restored much later; exports on top of half-finished exports.
- *Kills.*  A mobile game is killed at any time, extraction included; so is the
  editor during an export, and `git` while it patches.
- *Checks that are stale when used.*  A flush looks a name up and registers it
  later; a patch is checked by one process and applied by the next.

`hazards` in `PROJECT.json` has each of these at its line, with the property that
watches it, or the reason why none does.

What makes each part correct, in short:

- Code pool: no byte has two owners, none is lost, an allocation fails only when
  nothing fits, an island lives as long as its arena, a detour leads where it
  was last asked to, directly or through an island that no caller has stored
  into, also for a processor that calls the function during the change; prepare publishes only verified arenas,
  loses nothing on any failure path, is atomic for its callers and returns.
- Registry: our table and Mono's agree, the interceptor installed last and the iOS
  override hold from the next registration on, nothing queued in time is lost.
- Runtime start: what is missing on disk is explained by a logged failure, a
  kill, a missing archive or an entry that could not be read; files a mod changed
  are not undone.
- Liveness sessions: nothing is waited for while the world is stopped, no page and
  no mark outlives a session, and a stopped world runs again.
- Exports: exactly the generated sources and the groups that hold nothing else
  are removed; a run that ends has done everything once, whatever is there from
  a run before; a run that fails does not leave a project that builds what is
  gone; what an array of the project names is an object of it, but for the build
  files of a target nothing depends on any more; a run ends.
- Patch script: what it reports of the checkout is so, and when it refuses it has
  changed nothing.

## 2. The modules

| Module | Models | Size of a step |
|---|---|---|
| `CodePool` | the pool's lists and the code in it | one call under `arena_mutex` |
| `CodeService` | what the pool promises its callers (abstract) | one call |
| `JitPrepare` | `prepare`, `cleanup`, lock-free lookups, debugger, kernel | one access to shared state |
| `ArenaList` | what `prepare` and `cleanup` promise (abstract) | one call |
| `BranchEncoding` | `encode_detour_branch`, as operators | - |
| `DetourPatch` | stores and cache operations of apply/restore, executing processors | one store, flush or fetch |
| `Liveness` | liveness sessions, the stopped world, the reallocation callback | one call of Mono, `malloc`, the kernel or Unity |
| `ICallRegistry` | the registry, `LoadInterceptors`, `FlushICallQueue` | one access to a shared variable |
| `RuntimeInit` | `InitMono`, extraction, kills, updates, mods | one directory or file |
| `ProjectTree` | the groups of an Xcode project | - |
| `GroupRemoval` | `RemoveGeneratedCppProjectReferences` | one visit of a group |
| `XcodeProject` | `OnPostGenerateXCodeProject`, with `GroupRemoval` as its sub-steps | one file operation |
| `AndroidProject` | `OnPostGenerateGradleAndroidProject` | one file operation |
| `EditorExport` | the editor script of a project: the step of its platform | one step of either |
| `PatchScript` | `IOS.py`: three processes of `git`, a checkout others edit | one file read or written |

The `MC*` modules give constants values for TLC; the `*Proofs` modules hold the
theorems.  A definition marked *mutant* is a plausible bug of the definition
that follows it: it is there to show that the property named in `PROJECT.json`
would notice that bug, and takes no part in the specification.

### CodePool

`list` is the chain from `arena_head`; `free[a]`, `allocs[a]` and `islands[a]` are the
three lists of an arena, in the order of the code where the order is observed.
`jump` says where the branch stored at an address leads.  `patched` is a ghost:
the target last asked for; `spoiled` is another: the islands that callers have
stored into.  An action is one exported function, with its
early returns in order: `Alloc`, `Free`, `WriteMemory`, `DetourApply` (which reuses
an island or carves one out of a free range), `DetourBackup`, `DetourRestore`,
`DetourValidate`, `Prepare` (its outcome only: an arena more, or any failure) and
`Cleanup`.  `malloc` may fail
wherever it is called.  Addresses wrap at `AddressSpace` as the unsigned
subtractions of the code do.

An island is an allocation to every check of the code but that of `free` (line
448): a caller may write to one, detour it, or restore over it a backup of a
function that was there before, in a block freed since.  The model has these
steps.  They lead the functions that share that island astray, and the
properties say how far it goes: `IslandsIntact`, that an island is only changed by
a store to itself; `DetoursLand`, that every function whose branch does not go to
such an island leads where it was last asked to; `ImplementsService`, that from
then to the next cleanup only ownership is promised.

Calls are taken to get the mutex; an error of `pthread_mutex_lock`, which every one
of them returns before it has looked at anything, is in `JitPrepare` only.

Not in the model: the contents of memory other than branches, and
`__builtin_trap` on callers' errors (a write outside the pool), which ends the
process.

`CodeService` is the pool without free lists, islands and branches: regions that
are open, blocks with one owner, some of which the pool keeps for itself, and
for every detoured function where it leads.  `CodePool` implements it
(`ImplementsService`): blocks are the allocations of all arenas, the pinned ones
are the islands, the route of an address is where a processor ends up that
executes it (`Lands`, through an island or not), and what is kept is what a
backup buffer would bring back.  So no caller can tell a direct branch from a
hop over an island, see a route of an earlier owner in a block it is handed, or
have one of its functions redirected by a call about another, as long as nobody
stores into an island (`sound`; `Stray` is such a store, after which routes are
nobody's promise).

### JitPrepare and ArenaList

Threads run `prepare` for the startup pool, `prepare` for another arena, or
`cleanup`, statement by statement; readers walk `arena_head` and `next` without
the lock.  The debugger attaches, answers the traps of the protocol, and
leaves when asked or, in one run, by itself.  The kernel may refuse every
request, and the mutex too (`LockFails`).  `field` is what the arena structure says, `prot` what is really mapped:
leaks and wrong unmaps are differences between the two.  The published arenas are
the least set that has `arena_head` and is closed under `next` (`Chain`).  `left` and `expired` are
the poll loop of `wait_for_debugger_detach`.

Assumed: `cleanup` runs at runtime shutdown, when no reader is at work; a debugger
that is attached answers a trap; kernel errors are one error, `EIO`.

`JitPrepare` implements `ArenaList`, in which every call is one step: the newest
arena is `arena_head`, the one before an arena is its `next`, and a call is its request
until it is settled, then its outcome.  `CallsAreAtomic` is that refinement,
`ArenaList`'s `Spec` as a property of a run.

### BranchEncoding

Operators only; `CodePool` extends the module: a detour stores what `Encoded`
gives, and leads where `Landing`, the processor, takes it (`BranchTo`).  The
displacement field with `Half` values per sign stands for the code's field of 26
bits, and `Register` for `uint32_t`.  The theorems are about every `Half`, the code's
2^25 included.

### DetourPatch

A store is `written` at once and `seen` by other processors later, at the latest
at the flush.  A processor may fetch an instruction at any time and keep it in
`cached` until it is invalidated.  Apply and restore are stores and cache
operations in the order of the code, under the mutex; processors that execute
take no lock.  Every island is taken to be in reach: `CodePool` is about that.

### Liveness

One session at a time, on Unity's thread: `Begin` to `FreeState` are the calls of
`calculation_begin`, the traversal and `calculation_end` in order; with the newer
API Unity makes the calls for stop, finalize and restart itself, in that order.
Other threads take and release the locks of `malloc`, of Unity's callbacks and of
Mono's collector, and map pages; those attached to Mono are suspended wherever
they are.  A block is whole pages with its length in front.  Assumed of Mono,
whose sources are not here: it asks the callback for new blocks and frees them,
and goes on without one it was refused.

### ICallRegistry

Registrations are split at the read of `IsMonoReady`, the queue, the mutex, the
look at the interceptor, the table and Mono's table; the flush at each turn of
its loop and at `clear`.  Several mods may install an interceptor for one name,
each with a slot of its own for the original: the later one takes the entry of
`InterceptorMap` (`il2cpp-api.cpp` 83), but Mono calls it only from the next
registration of the name on.  The ghost `pending` marks the names for which none
has come since; `preempted` those hooked before their first registration.

The queue keeps the latest registration of a name; `early` is a ghost that
remembers it for names queued before the flush began, `late` and `overtaken` mark
the two windows of section 5, and `direct` what somebody registered himself.

Each access to an `unordered_map` is atomic, which the
code does not guarantee for the queue and the interceptors: a data race on
their buckets is undefined behaviour that is out of the model.

### RuntimeInit

Each archive has a directory and files in an order.  A start can be killed at
any step; an update changes the package and leaves the directories; mods change
files.  `ExtractZipBuffer` has three ways to leave files out: the archive cannot be
opened (`Utils.cpp` 32: logged, `OpenFails`), an entry cannot be read (line 40: the
loop goes on without a word, `Skip`), a file cannot be extracted (logged, `Fail`).  In
all three `InitMono` goes on, as it does when `mkdir` fails, whose result nobody looks
at (`MakeDir`).  `unopened`, `failed` and the ghosts `skipped`, `missed` and `cut` are the
reasons a file may be missing.  `elsewhere` is an override of
`MonoPath` to a directory that does not exist: the code then extracts mono.zip
below `InternalPath` at every start.

### EditorExport: XcodeProject, GroupRemoval, ProjectTree and AndroidProject

`GroupRemoval` is the loop that collects emptied groups pass by pass, each pass in
an arbitrary order, then the removal of objects and of the entries that name
them.  `XcodeProject` is the whole script: copy archives and glue files, write
the project, read it back, detach the target, remove the sources, write the
text, clean the schemes, delete the sources.  It extends `GroupRemoval`, whose
variables are the locals of that method: `ReadBack` gives it the project that is
on disk at that moment, edited by an earlier run or not, its steps are
sub-steps of the script, and `WriteText` writes what it has left.  An export is
fresh, replaced, or appended to one that a former run has edited, wholly or
not.  A file of an Xcode project is written whole or not at all, and the text
processing that finds objects and arrays is taken to find them.

A target compiles files through `PBXBuildFile` objects, which its `files` array
names.  The removal collects file references and groups only (lines 283-318): the
build files of the generated sources stay, in the `files` array of GameAssembly,
and the `fileRef` of each names an object that is gone.  `ProjectClosed` says that
this is all that dangles, and only once no target depends on GameAssembly and
its product is linked nowhere.  A scheme may still build it: a run that fails
after it has written the project (line 193) leaves the old schemes until the next
run has come to `RemoveGameAssemblyFromSchemes`.

`AndroidProject` has `build.gradle` as a sequence of lines, told apart by what the
regular expression of line 36 sees of them: a line that opens an
externalNativeBuild block, one that opens another block, one with nothing but a
closing brace, any other.  `Strip` removes what that expression matches; the
lines that are left keep their numbers.  Assumed of Unity: a native block, or
one around it, ends with a brace on a line of its own.  The
other files carry the number of the export they are from, so that a stale or a
half-copied one shows.

`EditorExport` has both, as the editor script has: the platform decides which of the
two steps acts (line 74).  Each platform exports to a directory of its own, so
a behaviour is the exports for one of them.

### PatchScript

`apply_changes` as up to three processes of `git`, one after the other: does the
patch apply, is it applied already, apply it.  A process reads the files one by
one; `git apply` then unlinks the old files and creates the new ones, as `git`
does.  Between any two of these steps somebody may edit a file, the disk may
fail, or the script may be killed; it may be run again.  A file is `base`,
`patched` or `other`, whatever the patch would find in it.  `touched` is a ghost: what
was edited since the script began, of which it cannot answer for.

## 3. The runs

| Run | Instance | Checks |
|---|---|---|
| `pool_calls` | 2 arenas of 3 and 1 units, 3 sizes, 7 addresses with bad ones among them, 3 sources, 2 targets and a null one, 2 buffers | `TypeOK`, `Coalesced`, `Disjoint`, `Covered`, `AllocComplete`, `FailedCallsChangeNothing`, `IslandsIntact`, `DetoursLand`, `SearchComplete`, `IslandsPermanent`, `ImplementsService` |
| `detour_cpu` | 2 patchers of 2 calls, 1 processor, 2 islands | `CallsLand`, `InForce` |
| `liveness_sessions` | 1 attached and 1 other thread, 3 locks, 5 pages, blocks of 1 and 2 pages | `NeverWaits`, `PagesAccounted`, `WorldRestarts` |
| `prepare_safety` | 2 threads of 2 calls, 1 reader, 2 arenas | `PublishedVerified`, `NothingLeaks`, `OnlyOwnUnmapped`, `ReaderSafe`, `ReaderFinds`, `DebuggerReturned`, `TrapsAttended` |
| `prepare_live` | 2 threads of 1 call, debugger that leaves by itself | `TimeoutIsLate`, `CallsReturn`, `CallsAreAtomic` |
| `prepare_doc` | 1 thread | `WaitsForJit`, violated |
| `icalls_safety` | 2 threads of 2 registrations, 2 names, 2 methods, 1 mod for the one and 2 for the other name, `InitMono` | `TablesAgree`, `DirectStays`, `InterceptorsHonoured`, `HookHasOriginal`, `QueueDrained` |
| `init_safety` | 2 archives of 3 and 2 files, 2 updates, 2 changes, 2 faults | `MissingExplained`, `ModsSurvive` |
| `init_doc` | the same archives, 1 update | `InstalledRuns`, violated |
| `export` | 3 exports; on iOS every forest of 3 groups over 3 files and 3 targets, on Android 4 build scripts and 2 libraries | `ExportInstalls`, `SourcesOutlive`, `ProjectClosed`, `RemovesExactly`, `ScriptEnds` |
| `android_doc` | 1 export, the same build scripts | `BlocksStripped`, violated |
| `patch` | 3 files, 1 of them added, every state of the checkout, 2 runs, 2 edits | `ReportsTrue`, `RefusedChangesNothing` |

Why the bounds are enough to be worth something:

- The first arena of `pool_calls` has three units: a free range with a block on
  either side of it, and a free unit on either side of a block, which its release
  joins to both.  The second has a single unit, which an island or a block fills.
  Of its targets one is in reach of one source only and one of none, so that an
  island of one target is there when a detour to the other looks for one.  One
  source, 16, is where an island for another source is carved when the block
  there is free: it is backed up, freed, carved and restored over, or detoured as
  an island.  A field of 4 bits keeps the asymmetry of the code's reach.
- Two patchers, two islands and two calls each let an island be built by one
  call and shared by the other, and a restore race a call of the function.
  One processor is enough, for processors do not write.
- Two threads of two calls let a retry follow a failure while another call waits
  for the mutex.  `Timeout` is two ticks: a look before the deadline and one after.
- Two names are the overridden one and another; two methods tell a queued
  registration from a later one; two mods replace each other's interceptor.
- One thread that is suspended and one that is not hold every lock at every
  point of a session; blocks of one page and of two, with pages of others next to
  them, tell a wrong length from a right one.
- Three groups can hold each other in a chain, so that emptying goes on for three
  passes, or side by side; three exports let an appended one follow a failed one
  that followed another.  The four build scripts have no externalNativeBuild
  block, a short one, one with a block in it, and two.
- Two edits let somebody change one file between two processes of `git` and put
  it back, or change two; with an added file beside two others a half-written
  checkout has all three kinds of content.
- Two updates give a package with an archive missing, then present, then again;
  two faults, one in each archive or two in one.

Deadlock is checked in every run.  Symmetry is used for threads, arenas,
methods, mods, islands and far targets in runs of invariants only.

**Fairness.**  `prepare_live`: weak fairness of the steps of each thread, which the
scheduler gives; none for the debugger, which may stay for ever, so that
`CallsReturn` rests on the timeout alone.  `liveness_sessions`: weak fairness of
the session's thread and strong fairness of `Finalize` (a game has finitely many
objects, so Unity comes to the end of the traversal); none for the threads that
hold locks, so `WorldRestarts` does not rest on them.  `export`: weak fairness of
the script, a sequential method of the editor; none for Unity.

**TrapsAttended** holds up to one case the code has: a call that failed after it
asked the debugger to leave does not wait until it has (line 235), and a retry
may then see it attached at line 171 and trap without it at line 175.  The
ghost `unsure` marks that case; the property says that there is no other.

**Findings.**

- `prepare_doc`: `.github/workflows/IOS.yml` line 9 says "Mono waits up to 15 s for
  that when it first needs code memory" of a debugger that enables JIT.  The
  code looks once and returns `EPERM` (lines 171 and 187).
- `init_doc`: a first start without `Managed.zip` makes the directory before it
  looks for the archive (`main.cpp` 19-25); every later start finds the directory
  and never extracts, although the archive is there as `README.md` line 22 asks.
  Only deleting the directory by hand helps.
- `android_doc`: "Strip the externalNativeBuild block(s) so Gradle never invokes
  CMake/ndk-build at all" (`IL2CPP2Mono.cs` 33).  The lazy match of line 36 ends
  at the first line that is only a closing brace.  Of a block with a cmake block
  of several lines in it, it leaves the outer brace, which closes the block
  around it too early.  A block in which no line is only a brace until its own
  end is stripped as the comment says, and in both cases nothing native is left
  to build (`ExportInstalls`).

## 4. The proofs

All are checked by TLAPS, from the named assumptions in the modules and nothing
else; TLC evaluates those assumptions in the runs.  Every invariant and action
property of the passing runs is a theorem, `NeverWaits` excepted, and so are the two
refinements; of the three liveness properties `WorldRestarts` is one, given `NeverWaits`.  Each module has its inductive invariants, built from named parts,
and one lemma for each action that says what the action keeps of it.

**CodePoolProofs.**  For any number of arenas of any size, any alignment, any reach
of a branch and any input.  Three invariants, each with the one before it:

- `Ownership == TypeOK /\ Coalesced /\ Disjoint /\ Covered /\ Unused` gives `TypeCorrect`,
  `FreeListCoalesced`, `NoDoubleOwner`, `NoByteLost` and `AllocationComplete`.  That a
  byte is not lost needs that no range overlaps another, that a merge is right
  needs the order of the free list, and a new arena must be `Unused` for its
  first free range to be the whole of it.  Operations on the lists are all cuts
  (`Splice`) that replace some ranges by ranges of the same bytes; lemmas say what
  a splice keeps, and each call is shown to be such a splice.
  `AllocationComplete` needs no step of its own: if an unallocated run of the size
  existed, `Covered` puts all its bytes in free ranges, `Coalesced` forbids two
  ranges to touch, so one range holds all of it and would have been found.
- `IslandInv == Ownership /\ IslandsOwned /\ DetoursReach /\ BackupsReach` gives
  `IslandsStayIntact`, `DetoursAlwaysLand`, `IslandsArePermanent` and
  `FailuresChangeNothing`.  A detour refers to its island by address only, so its
  landing rests on the island having a block of its own (`IslandsOwned`), which
  nobody can free through the interface, and on nobody having stored into it: the
  invariant follows every island outside `spoiled`, whatever callers do to the
  others.  A backup is put back at any
  later time, so what it keeps must lead somewhere while it is kept
  (`BackupsReach`).  `IslandSearchComplete` is about one range: the candidate that
  `DetourApply` tries is the place next to the source, so if it is out of reach all are.
- `ServiceInv == IslandInv /\ WordsOwned /\ SourcesOnly` gives `PoolImplementsService`: the
  initial states map to one of `CodeService`, and each call to the call of that name
  or a stutter.  Without `WordsOwned`, that no detoured word crosses the end of a
  block, a block handed out could wipe the detour of its neighbour, which no step of
  the service does.

`EncodedBranchLands` and `RefusedIsUnreachable` are about `BranchEncoding`, for every
width of the field and every two addresses: what is encoded lands on its target,
and no branch lands on what is refused.  The lemmas are about remainders of a
negated distance.  The first is why a stored branch leads where it was asked to.

**JitPrepareProofs.**  For any number of threads, readers, arenas and calls, any
timeout and a failure at any step.

- `PrepareInv == TypeOK /\ Control /\ Lists /\ Maps /\ Checked /\ Timeouts /\ Lent /\ Lookups`.
  Each part is there for the properties that need it: `Lists` says that the
  published list ends and that every structure is in it, of one call, or being
  cleaned up (`NothingIsLost`, `ReadersAreSafe`); `Maps` compares what a structure
  says with what is mapped, on which every failure path relies
  (`NothingIsLost`, `OwnRegionsUnmapped`); `Checked` carries the result of `verify` to the
  store (`OnlyVerifiedPublished`); `Timeouts` and `Lent` follow a call to the label
  `detach` (`TimeoutsAreLate`, `DebuggerIsReturned`); `Lookups` says that what a reader
  looks for is still ahead of it (`ReadersFindAll`).
- `TrapsAreAttended` needs `Attended` beside it, and is proved, as its run checks it,
  of a debugger that does not leave by itself (`~Spontaneous`).
- `PrepareIsAtomic` is `CallsAreAtomic`, the refinement of `ArenaList`.  A call of
  `prepare` takes effect with its release store and one of `cleanup` with its
  exchange; one that fails, or finds the startup pool there, takes effect when it
  goes back.  That the answer is settled by then is the invariant `Answers`; that
  the link of an arena nobody has published changes nothing is `PoolKept`.
- `CallsAreBounded` is the safety half of `CallsReturn`.  `Rest(t)` counts what a call has
  ahead of it at most: the statements up to `unlock`, for the wait a term in the
  deadline, for a cleanup the arenas of the list it took.  Each step of the call
  lowers it, each turn of the wait because it takes a tick off the deadline, each
  turn of the cleanup because it frees an arena; no step of others changes it.
  `LookupsAreBounded` says the same of a reader, on a list that grows at its head only.
- `OnlyTheMutexWaits` is the other half: calls cannot deadlock.  Whoever waits for the
  mutex waits for a call past the lock, and past the lock every statement has an
  alternative that is open (`Open`), whatever the other threads and the debugger
  do.  That a held arena, a field and a lent device are there when a statement
  uses them is what each step has to keep for the next (`StepKeepsOpen`).

**DetourPatchProofs.**  `CallsAlwaysLand`, `DetoursInForce`, `DetourTypes`, for any number of
patchers, processors, functions and islands.  `DetourInv == TypeOK /\ Exclusive /\
Islands /\ Branches /\ Calls`.  A processor holds up to three instructions for one
address: the newest, the one it sees, the one it has cached.  `Branches` says that
each of them leads to what may be asked for at that moment, `Islands` that a branch
to an island is only stored when every processor sees the island as a whole, and
`Calls` that a call under way stays right whatever it fetches next.

**ICallRegistryProofs.**  `TablesAlwaysAgree`, `DirectCallsStay`, `HooksComeFirst`,
`HooksHaveOriginals`, `QueueIsDrained`, for any number of threads, names, methods and
registrations, and any number of mods for a name.  `RegistryInv == TypeOK /\ Places /\
Arguments /\ Agreement /\ Originals /\ Preempted /\ Installed /\ Directly /\ Queued`.  Between the two stores Mono's table is exactly one
registration behind ours, and only under the mutex (`Agreement`).  A hook carried
towards the tables has an original already (`Arguments`, `Originals`); a name that was
hooked first only travels as hooked (`Preempted`), and one that was registered since
its interceptor was installed is, in the table or on the way there, that
interceptor (`Installed`).  `Directly` and `Queued` follow a
name through the flush: in the queue, to do, in the initial thread's hands, in the
table.  `FlushIsBounded`, for finitely many names: the flush ends although the game
may queue and register names while it runs.  `FlushRest` counts the names not
in the table yet, those to do, and the steps up to the next; what the others
register, they take away from it.  While the initial thread waits for the
mutex, the holder is past the lock.

**RuntimeInitProofs.**  `MissingIsExplained`, `ModsAlwaysSurvive`, `DiskTypes`, for archives
of any files in any order and any number of starts, kills, faults, updates and
changes.
`DiskInv == TypeOK /\ Passed /\ Complete /\ Fresh`.  A directory that exists is the
code's only sign of a finished extraction.  `Complete` says what that sign is worth,
with the files before the index during an extraction; `Fresh`, that without the sign
there is no file a mod could have changed; `Passed`, that an archive a start has
behind it is `Settled`: each of its files is there or has a reason.  The sign does
not say that, for an archive that could not be opened may leave no directory.
`StartIsBounded`: a start ends within eight steps and one for each file of the
archives, whatever is on the disk and whatever fails.

**LivenessProofs.**  `AllPagesAccounted` and `SessionTypes`, for any threads, pages, page
size and length of the header.  `PagesInv == TypeOK /\ BlocksApart /\ BlocksGone /\
OthersKeep`: blocks have no page in common, so freeing one by the length in front of
it takes its own pages and no other's.  `StopInv`, that the
session has `LOCK_GC` as long as the world is stopped and that only then objects are
marked, gives `MarksAreNeverSeen`, the safety half of `WorldRestarts`.  `StoppedWorldRestarts`
is `WorldRestarts` itself, from the fairness of the session and `NeverWaits`: growing
leads to calculating, calculating by strong fairness to the restart, the restart to
a world that runs without marks, and nobody else's step leads away (`TowardsRestart`).
`NeverWaits` is a hypothesis there because the prover cannot expand `ENABLED`; it is
what TLC checks.  `StoppedGoesOn` says what it means without `ENABLED`: it names a state
a stopped session can go on to (`Onward`), and shows that the step there is one of
the session, and one of `Finalize` when it has marked, whoever holds a lock.

**EditorProofs.**  For every project of either platform, any number of exports and a
failure at any step.

- `RemovalIsExact` and `RemovalLeavesNoDangling` are about `GroupRemoval`, for every
  project, edited before or not, and every forest of its groups.  The invariant
  says that what is collected is generated or below nothing but generated files,
  that a pass without a change has visited every group, and what the removal has
  written.  Exactness at the end: were a group that holds only generated files
  left, one with no such group below it would have been emptied in the last
  pass, which changed nothing.  `ScriptRemovesExactly` is the same within the script.
- `InstallsWhole`, `SourcesAreKept` and `ProjectStaysClosed` have the invariant
  `EditorInv`: of iOS `ExportInv`, of Android `GradleInv`.  Between runs an Xcode project
  is in one of two states, as Unity writes it or without what is doomed in it and
  then `Detached`: no target depends on GameAssembly and its product is not linked,
  so the build files whose source is gone are of a target that is not built for
  another.  Every other array is closed in both states.  The removal maps either to the second: it
  takes out exactly what is doomed, and nothing is doomed in what it leaves
  (`NothingLeft`: a group of groups that all hold something would have no end).
  The rest says how far a run has come, and that the generated C++ is there until
  the project on disk is in the second state.  `GradleInv` says which files are
  this export's by then (`Installed`), and that the C++ goes after the script that
  builds it (`Stripped`).  `StripLeavesNoBlock` is the one place that needs a
  native block to be closed: without a closing line after it, the expression of
  line 36 finds no block to remove.
- `RemovalIsBounded` and `ScriptIsBounded` are the safety half of `ScriptEnds`.  A pass that
  collects a group is followed by another and a group is collected once, so the
  groups not yet collected, and within a pass those still to visit, count down; the
  rest of the script goes forward one statement, glue file or library at a time, or
  fails.

**PatchScriptProofs.**  `ReportIsTrue` and `RefusalChangesNothing`, for every set of
files, any number of edits, kills and runs.  The invariant follows a pass: the
files behind it, unless edited meanwhile, are what it found or made of them, and
up to the end of `git apply`'s own check nothing has been written.  `RunIsBounded`, for
finitely many files: a run ends within four passes over them, and edits by others
do not prolong it.

**Assumptions.**  Of the code: an alignment is a multiple of an instruction
(`AlignmentAssumption`), a region lies in the address space and is aligned
(`ArenaAssumption`, what `prepare` checks), the register is wide enough for the field
(`EncodingAssumption`).  Of the surroundings: the archives hold what they list and
`dlls` holds the core library (`ArchiveAssumption`), a native block ends with a brace on
a line of its own (`ExportAssumption`), a target is none of the files or groups of its
project (`ProjectAssumption`); arenas, groups and libraries are finitely many
(`PrepareAssumption`, `TreeAssumption`, `ExportAssumption`; the files of a patch and the names
of internal calls in the theorems that count them), and Mono does ask for blocks
(`LivenessAssumption`).  The rest keep names apart: a pointer of null from
pointers to something, an interceptor from registered methods, an island from
functions and targets (`PrepareAssumption`, `RegistryAssumption`, `DetourAssumption`,
`LivenessAssumption`).

**Only model-checked.**  `NeverWaits`, which is about `ENABLED`: the prover has no rules
for it.  `CallsReturn` and `ScriptEnds`: from the bounds above to the end of a call or a
script is an induction over a temporal formula, and the library's induction
theorems take an operator, which the installed provers cannot instantiate.  What
is proved of the first is that no call is ever without a step to take or a holder
of the mutex to wait for, and that each of its steps is one of finitely many; TLC
adds the fairness.  `WorldRestarts` needs no induction, which is why it could be
proved.  What recursive definitions compute would stay with TLC too; the modules
with theorems have none.
The three documented claims that the code violates stay counterexamples of TLC.

## 5. Not modelled

- API forwarding: casts around one Mono call each.
- JIT log, thread attachment, logging: no state to go wrong.
- The syntax of project files, and the rest of what regular expressions find in
  text; the patch text for Mono, whose sources are not in this repository.
- `Android.py`: three replacements in two files, without a check and without state.
- Vendored code (`fmt`, `miniz`, Mono's headers), configuration data, workflows.
  Most lines of C and C++ under `src/` are vendored: of about 35,900, some 3,700 are
  the project's own, and more than a third of those are the one-call functions of the API.

Known gaps of the code no property covers, because the code does not promise the
contrary: a registration that reads `IsMonoReady` too early may be queued after
the flush and lost (`il2cpp-api.cpp` 145: `QueueDrained` says that no other is); the
flush may overwrite a registration made between its look and its call
(`InternalCalls.cpp` 43: `DirectStays` says that this is the only one); an interceptor
installed after the last registration of its name is never called
(`il2cpp-api.cpp` 83: `InterceptorsHonoured` says from when on it is); an entry of an
archive that cannot be read leaves no line in the log (`Utils.cpp` 40); a caller may
restore over an island or detour it (`mono-ios-jit.cpp` 275 and 330); the queue is
a hash table without a lock (`il2cpp-api.cpp` 146); the static vector of
`il2cpp_domain_get_assemblies` is shared by all callers.

## 6. The plan

Done, in this order, the most important behaviour first: the pool and its proofs,
preparation with its abstract specification, the registry, the start, the
exports with their proofs, branch encoding with its proofs, detours against
processors, liveness sessions, the pool's abstract specification, the patch
script and its proofs.

Done since, proofs: islands and the pool's abstract specification, preparation and
its abstract specification, the registry, detours against processors, the pages
of liveness sessions, the disk of the start, the Android export, bounds on the
steps of calls, lookups, flushes, starts, patch runs and the editor script, freedom
from deadlock of the calls under the mutex, and the restart of a stopped world.

Every invariant and every action property of the runs is proved, but for
`NeverWaits`.  What would come next:

1. The types of the exports, and of `AndroidProject`, as theorems beside those of
   the other modules.
2. `CallsReturn` and `ScriptEnds` from their bounds, with a prover that can instantiate
   an induction theorem.
