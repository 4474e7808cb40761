----------------------------- MODULE RuntimeInit -----------------------------
(***************************************************************************)
(* InitMono (src/il2cpp/main.cpp) up to the start of Mono: the platform    *)
(* code, the extraction of the two archives of the package into            *)
(* directories that outlive the process, and what becomes of them when a   *)
(* start is cut short, when the package is updated, and when the user      *)
(* changes files.                                                          *)
(*                                                                         *)
(* An archive is a sequence of files (an entry that is a directory comes   *)
(* with the files in it); a file on disk is the one of the package or one  *)
(* the user (a mod) has changed.  Every step that touches the disk is an   *)
(* action, and the process may be killed between any two.  An archive, an  *)
(* entry, a file and a directory can fail at any time.                     *)
(***************************************************************************)
EXTENDS Integers, Sequences, FiniteSets

CONSTANTS
  Entries,     \* Entries["dlls"], Entries["mono"]: the files of the archives
  Corlib,      \* the file of Managed.zip without which Mono does not start
  MaxUpdates,  \* bound: updates of the package
  MaxChanges,  \* bound: files the user changes
  MaxFaults    \* bound: archives, files and entries that fail

Archives == {"dlls", "mono"}
Range(s) == {s[i] : i \in 1 .. Len(s)}
Files(x) == Range(Entries[x])

ASSUME ArchiveAssumption ==
  /\ DOMAIN Entries = Archives
  /\ \A x \in Archives : Entries[x] \in Seq(Files(x)) /\ Len(Entries[x]) > 0
  /\ Corlib \in Files("dlls")
  /\ MaxUpdates \in Nat
  /\ MaxChanges \in Nat
  /\ MaxFaults \in Nat

VARIABLES
  pc,        \* where InitMono is; "down" when no process runs
  archive,   \* the archive it looks at
  index,     \* the entry ExtractZipBuffer is at
  dir,       \* dir[x]: the directory of the archive exists
  file,      \* file[x][f]: "none", "package" or "changed"
  package,   \* the archives the installed package holds
  elsewhere, \* MonoPath was overridden to a directory that does not exist
  failed,    \* the files whose extraction failed, and was logged
  unopened,  \* the archives that could not be opened, which was logged
  skipped,   \* ghost: the files the loop passed over without a word
  missed,    \* ghost: the log has told that Managed.zip is not in the package
  cut,       \* ghost: the archives whose extraction was cut short
  updates, changes

disk == <<dir, file>>
reasons == <<failed, unopened, skipped, missed, cut>>
vars == <<pc, archive, index, disk, package, elsewhere, reasons, updates, changes>>

TypeOK ==
  /\ pc \in {"down", "platform", "check", "read", "extract", "jit", "ready", "error"}
  /\ archive \in Archives
  /\ index \in 1 .. Len(Entries["dlls"]) + Len(Entries["mono"]) + 1
  /\ dir \in [Archives -> BOOLEAN]
  /\ file = [x \in Archives |-> file[x]]
  /\ \A x \in Archives : file[x] \in [Files(x) -> {"none", "package", "changed"}]
  /\ package \subseteq Archives
  /\ elsewhere \in BOOLEAN
  /\ failed \subseteq UNION {{x} \X Files(x) : x \in Archives}
  /\ skipped \subseteq UNION {{x} \X Files(x) : x \in Archives}
  /\ unopened \subseteq Archives
  /\ missed \in BOOLEAN
  /\ cut \subseteq Archives
  /\ updates \in 0 .. MaxUpdates
  /\ changes \in 0 .. MaxChanges

At(place, x) == pc = place /\ archive = x

Enter(place, x) == pc' = place /\ archive' = x

AfterReturns(x) == Enter("jit", x)  \* mutant: one archive per start

\* What follows archive x: the next one, or the start of Mono.
After(x) == IF x = "dlls" THEN Enter("check", "mono") ELSE Enter("jit", x)

-----------------------------------------------------------------------------
(* InitMono *)

\* il2cpp_init
Start ==
  /\ pc = "down"
  /\ pc' = "platform"
  /\ UNCHANGED <<archive, index, disk, package, elsewhere, reasons, updates, changes>>

\* InitPlatform: on iOS it prepares the code pool, which may fail.
InitPlatform ==
  /\ pc = "platform"
  /\ Enter("check", "dlls") \/ Enter("error", "dlls")
  /\ UNCHANGED <<index, disk, package, elsewhere, reasons, updates, changes>>

\* DirExists of the directory InitMono looks at.
Exists(x) == dir[x] /\ ~(x = "mono" /\ elsewhere)

CheckNothing(x) ==  \* mutant: archives are extracted at every start
  /\ At("check", x)
  /\ Enter("read", x)
  /\ dir' = IF x = "dlls" THEN [dir EXCEPT ![x] = TRUE] ELSE dir
  /\ UNCHANGED <<index, file, package, elsewhere, reasons, updates, changes>>

\* MakeDirsRecursive does not look at what mkdir returns.
MakeDir(x) == dir' \in {dir, [dir EXCEPT ![x] = TRUE]}

\* MakeDirsRecursive(DllPath) comes before the asset is read.
CheckDir(x) ==
  /\ At("check", x)
  /\ \/ Exists(x) /\ After(x) /\ UNCHANGED dir
     \/ /\ ~Exists(x)
        /\ Enter("read", x)
        /\ IF x = "dlls" THEN MakeDir(x) ELSE UNCHANGED dir
  /\ UNCHANGED <<index, file, package, elsewhere, reasons, updates, changes>>

\* ReadAssetToBuffer; without the asset ExtractMonoIfNecessary returns.
ReadAsset(x) ==
  /\ At("read", x)
  /\ \/ /\ x \in package
        /\ Enter("extract", x)
        /\ index' = 1
        /\ UNCHANGED missed
     \/ /\ x \notin package
        /\ Enter("jit", x)
        /\ missed' = (missed \/ x = "dlls")
        /\ UNCHANGED index
  /\ UNCHANGED <<disk, package, elsewhere, failed, unopened, skipped, cut, updates, changes>>

\* Bound: one more archive, file or entry may fail.
MayFail == Cardinality(unopened) + Cardinality(failed) + Cardinality(skipped) < MaxFaults

\* mz_zip_reader_init_mem refuses the bytes of the asset: that is logged, and
\* InitMono does not look at the false that ExtractZipBuffer returns.
OpenFails(x) ==
  /\ At("extract", x)
  /\ index = 1
  /\ MayFail
  /\ unopened' = unopened \cup {x}
  /\ After(x)
  /\ UNCHANGED <<index, disk, package, elsewhere, failed, skipped, missed, cut, updates, changes>>

\* The file is on the disk, in its directory.
Put(x, f) ==
  /\ file' = [file EXCEPT ![x][f] = "package"]
  /\ dir' = [dir EXCEPT ![x] = TRUE]
  /\ UNCHANGED <<failed, skipped>>

\* The file could not be extracted, with or without its directory.
Fail(x, f) ==
  /\ MayFail
  /\ failed' = failed \cup {<<x, f>>}
  /\ MakeDir(x)
  /\ UNCHANGED <<file, skipped>>

\* The archive does not tell the entry's name: nothing is made or logged.
Skip(x, f) ==
  /\ MayFail
  /\ skipped' = skipped \cup {<<x, f>>}
  /\ UNCHANGED <<disk, failed>>

ExtractStopping(x) ==  \* mutant: the loop ends at the first file that fails
  /\ At("extract", x)
  /\ index <= Len(Entries[x])
  /\ LET f == Entries[x][index]
     IN  \/ (Put(x, f) \/ Skip(x, f)) /\ index' = index + 1
         \/ Fail(x, f) /\ index' = Len(Entries[x]) + 1
  /\ UNCHANGED <<pc, archive, package, elsewhere, unopened, missed, cut, updates, changes>>

\* One turn of ExtractZipBuffer: the directory of the file, then the file; a
\* file that fails is logged, an entry that fails is not, and the loop goes on.
Extract(x) ==
  /\ At("extract", x)
  /\ index <= Len(Entries[x])
  /\ LET f == Entries[x][index] IN Put(x, f) \/ Fail(x, f) \/ Skip(x, f)
  /\ index' = index + 1
  /\ UNCHANGED <<pc, archive, package, elsewhere, unopened, missed, cut, updates, changes>>

Extracted(x) ==
  /\ At("extract", x)
  /\ index > Len(Entries[x])
  /\ After(x)
  /\ UNCHANGED <<index, disk, package, elsewhere, reasons, updates, changes>>

\* mono_jit_init_version needs corlib below DllPath.
JitInit ==
  /\ pc = "jit"
  /\ pc' = IF file["dlls"][Corlib] = "none" THEN "error" ELSE "ready"
  /\ UNCHANGED <<archive, index, disk, package, elsewhere, reasons, updates, changes>>

-----------------------------------------------------------------------------
(* The user and the system *)

\* The process is killed, or ends.
Kill ==
  /\ pc # "down"
  /\ pc' = "down"
  /\ cut' = cut \cup {x \in Archives : At("read", x) \/ At("extract", x)}
  /\ UNCHANGED <<archive, index, disk, package, elsewhere, failed, unopened, skipped, missed, updates, changes>>

\* An update replaces the package; the directories stay.
Update ==
  /\ pc = "down"
  /\ updates < MaxUpdates
  /\ updates' = updates + 1
  /\ package' \in SUBSET Archives
  /\ UNCHANGED <<pc, archive, index, disk, elsewhere, reasons, changes>>

\* The user or a mod changes an extracted file, while no start extracts.
Change(x, f) ==
  /\ pc \in {"down", "ready"}
  /\ changes < MaxChanges
  /\ file[x][f] = "package"
  /\ file' = [file EXCEPT ![x][f] = "changed"]
  /\ changes' = changes + 1
  /\ UNCHANGED <<pc, archive, index, dir, package, elsewhere, reasons, updates>>

-----------------------------------------------------------------------------
Init ==
  /\ pc = "down"
  /\ archive = "dlls"
  /\ index = 1
  /\ dir = [x \in Archives |-> FALSE]
  /\ file = [x \in Archives |-> [f \in Files(x) |-> "none"]]
  /\ package \in SUBSET Archives
  /\ elsewhere \in BOOLEAN
  /\ failed = {}
  /\ unopened = {}
  /\ skipped = {}
  /\ missed = FALSE
  /\ cut = {}
  /\ updates = 0
  /\ changes = 0

InitMono ==
  \/ InitPlatform
  \/ \E x \in Archives : CheckDir(x) \/ ReadAsset(x) \/ OpenFails(x) \/ Extract(x) \/ Extracted(x)
  \/ JitInit

Next == Start \/ InitMono \/ Kill \/ Update
        \/ \E x \in Archives : \E f \in Files(x) : Change(x, f)

Spec == Init /\ [][Next]_vars

-----------------------------------------------------------------------------
(* Properties *)

\* Files that a user or a mod has put in place of the package's survive every
\* later start and update (an override of MonoPath to a directory that does
\* not exist makes each start extract mono.zip again, below InternalPath).
ModsSurvive ==
  [][\A x \in Archives : \A f \in Files(x) :
       (file[x][f] = "changed" /\ ~(x = "mono" /\ elsewhere)) => file'[x][f] = "changed"]_vars

\* A file of an archive is missing below its directory only when a start that
\* came to it logged that it failed or that its archive could not be opened,
\* passed over its entry (the one reason that leaves no line in the log), or
\* was killed meanwhile, or found no Managed.zip in the package: one bad entry
\* never hides those after it.  Nor does Mono run on a package with both
\* archives and lack a file for another reason, were the whole directory
\* missing: a start that has found one archive extracted, or could not open it,
\* still looks for the other.
MissingExplained ==
  \A x \in Archives : \A f \in Files(x) :
    /\ dir[x] \/ (pc = "ready" /\ package = Archives)
    /\ ~At("read", x) /\ ~At("extract", x)
    /\ file[x][f] = "none"
    =>
      \/ <<x, f>> \in failed \cup skipped
      \/ x \in unopened \cup cut
      \/ missed

\* README.md, Installation: "put a Managed.zip in there that directly
\* contains all your dlls".  With Managed.zip in the package, and no start
\* killed and no archive, entry or file failed, a start would then find the
\* dlls.
InstalledRuns ==
  pc = "jit" /\ "dlls" \in package /\ cut \cup unopened = {} /\ failed \cup skipped = {} =>
    file["dlls"][Corlib] # "none"
=============================================================================
