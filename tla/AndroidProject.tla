--------------------------- MODULE AndroidProject ----------------------------
(***************************************************************************)
(* OnPostGenerateGradleAndroidProject (Assets/Editor/IL2CPP2Mono.cs): what *)
(* the editor script does to an exported Gradle project, file by file.     *)
(*                                                                         *)
(* Unity writes build.gradle and the generated C++ anew at every export;   *)
(* what an earlier run of the script has put into the project may stay.    *)
(* An exception, or the end of the editor, may come before any step; a     *)
(* file that is being copied, or zipped, is then left in part.             *)
(***************************************************************************)
EXTENDS Integers, Sequences, FiniteSetsExt, Functions

CONSTANTS
  Scripts,    \* the build.gradle files that Unity writes
  Libs,       \* the .so files of Assets/Editor/Android/Libs
  MaxExports  \* bound: exports

\* build.gradle, line by line: "native" opens an externalNativeBuild block and
\* "open" another one, "close" is a line with the brace that closes a block
\* and nothing else, "text" any other line.
Lines == {"native", "open", "close", "text"}

Zips == {"mono.zip", "Managed.zip"}
Installs == Libs \cup Zips

\* The block that a native line opens, or one around it, ends with a brace on a
\* line of its own.
Constants ==
  /\ Scripts \subseteq Seq(Lines)
  /\ \A script \in Scripts : \A i \in DOMAIN script :
       script[i] = "native" => \E j \in DOMAIN script : i < j /\ script[j] = "close"
  /\ Libs \cap Zips = {} /\ IsFiniteSet(Libs)
  /\ MaxExports \in Nat

VARIABLES
  pc,       \* the next step of the script; "idle" when it does not run
  written,  \* build.gradle as this export wrote it
  gradle,   \* build.gradle on disk, by the line numbers of written
  cpp,      \* whether src/main/cpp exists
  files,    \* per file: the export it is from, 0 for none, -1 for a part of it
  exports   \* exports so far

disk == <<gradle, cpp, files>>
vars == <<pc, written, disk, exports>>

-----------------------------------------------------------------------------
(* The edit of build.gradle *)

\* The lines of a match of externalNativeBuild\s*\{.*?\n\s*\}\s*\n from line i:
\* there is a line with nothing but a brace, and none comes before them.
Match(script, i) ==
  LET closing == {j \in DOMAIN script : i < j /\ script[j] = "close"}
  IN  {k \in DOMAIN script : i <= k /\ closing # {} /\ \A j \in closing : k <= j}

\* The script without the matches from the lines that open such a block.
Strip(script) ==
  LET opening == {i \in DOMAIN script : script[i] = "native"}
  IN  Restrict(script, DOMAIN script \ UNION {Match(script, i) : i \in opening})

\* The lines of the whole block that line i opens: up to the line at which as
\* many blocks are closed as were opened.
WholeBlock(script, i) ==
  LET closed(j) == Cardinality({k \in i..j : script[k] = "close"})
      opened(j) == Cardinality({k \in i..j : script[k] \in {"native", "open"}})
      ends == {j \in i..Len(script) : closed(j) = opened(j)}
  IN  IF ends = {} THEN {} ELSE i..Min(ends)

Without(script) ==
  LET opening == {i \in DOMAIN script : script[i] = "native"}
  IN  Restrict(script, DOMAIN script \ UNION {WholeBlock(script, i) : i \in opening})

-----------------------------------------------------------------------------
(* The steps of the script *)

WriteGradle ==
  /\ pc = "gradle"
  /\ gradle' = Strip(gradle)
  /\ pc' = "delete"
  /\ UNCHANGED <<written, cpp, files, exports>>

DeleteCppFirst ==  \* mutant: the sources go while build.gradle still names them
  /\ pc \in {"gradle", "delete"}
  /\ cpp' = FALSE
  /\ pc' = IF pc = "gradle" THEN pc ELSE "libs"
  /\ UNCHANGED <<written, gradle, files, exports>>

DeleteCpp ==
  /\ pc = "delete"
  /\ cpp' = FALSE
  /\ pc' = "libs"
  /\ UNCHANGED <<written, gradle, files, exports>>

CopyMissing ==  \* mutant: a library that is there is not copied again
  /\ pc = "libs"
  /\ \/ \E f \in Libs : files[f] = 0 /\ files' = [files EXCEPT ![f] = exports] /\ UNCHANGED pc
     \/ (\A f \in Libs : files[f] # 0) /\ pc' = "mono.zip" /\ UNCHANGED files
  /\ UNCHANGED <<written, gradle, cpp, exports>>

\* foreach (var file in Directory.GetFiles(...)), in any order.
CopyLibs ==
  /\ pc = "libs"
  /\ \/ \E f \in Libs : files[f] # exports /\ files' = [files EXCEPT ![f] = exports] /\ UNCHANGED pc
     \/ (\A f \in Libs : files[f] = exports) /\ pc' = "mono.zip" /\ UNCHANGED files
  /\ UNCHANGED <<written, gradle, cpp, exports>>

CopyMono ==
  /\ pc = "mono.zip"
  /\ files' = [files EXCEPT !["mono.zip"] = exports]
  /\ pc' = "old"
  /\ UNCHANGED <<written, gradle, cpp, exports>>

DeleteManaged ==
  /\ pc = "old"
  /\ files' = [files EXCEPT !["Managed.zip"] = 0]
  /\ pc' = "Managed.zip"
  /\ UNCHANGED <<written, gradle, cpp, exports>>

\* CreateFromDirectory throws when the file exists.
CreateManaged ==
  /\ pc = "Managed.zip"
  /\ files["Managed.zip"] = 0
  /\ files' = [files EXCEPT !["Managed.zip"] = exports]
  /\ pc' = "installed"
  /\ UNCHANGED <<written, gradle, cpp, exports>>

\* The files a step may have begun when it fails.
Begun == CASE pc = "libs" -> {f \in Libs : files[f] # exports}
           [] pc \in Zips -> {pc}
           [] OTHER -> {}

\* An exception, or the editor ends: no file is begun, or one is left in part.
Fail ==
  /\ pc \notin {"idle", "installed"}
  /\ pc' = "idle"
  /\ \/ UNCHANGED files
     \/ \E f \in Begun : files' = [files EXCEPT ![f] = -1]
  /\ UNCHANGED <<written, gradle, cpp, exports>>

-----------------------------------------------------------------------------
(* Unity *)

\* An export replaces what an earlier one has left, or adds to it.
Export ==
  /\ pc \in {"idle", "installed"}
  /\ exports < MaxExports
  /\ exports' = exports + 1
  /\ written' \in Scripts
  /\ gradle' = written'
  /\ cpp' = TRUE
  /\ files' \in {files, [f \in Installs |-> 0]}
  /\ pc' = "gradle"

Init ==
  /\ pc = "idle"
  /\ written = <<>>
  /\ gradle = <<>>
  /\ cpp = TRUE
  /\ files = [f \in Installs |-> 0]
  /\ exports = 0

Script ==
  WriteGradle \/ DeleteCpp \/ CopyLibs \/ CopyMono \/ DeleteManaged \/ CreateManaged

Stopped == pc \in {"idle", "installed"} /\ exports = MaxExports /\ UNCHANGED vars

Next == Script \/ Fail \/ Export \/ Stopped

-----------------------------------------------------------------------------
(* Properties *)

BuildsNative == "native" \in Range(gradle)

\* A run of the script that ends has installed Mono in a project where Gradle
\* has nothing native to build: every file is the one of this export, whole,
\* whatever a run that was cut short has left in its place.
InstalledWhole ==
  pc = "installed" => ~BuildsNative /\ ~cpp /\ \A f \in Installs : files[f] = exports

\* The generated C++ is only deleted when build.gradle does not build it any
\* more, failures included.
SourcesOutliveScript == ~cpp => ~BuildsNative

\* The comment at line 33: "Strip the externalNativeBuild block(s) so Gradle
\* never invokes CMake/ndk-build at all".  What is left is what Unity wrote
\* without those blocks: no line of them, and every line of the others.
BlocksStripped == pc \notin {"idle", "gradle"} => gradle = Without(written)
=============================================================================
