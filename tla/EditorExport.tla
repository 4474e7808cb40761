----------------------------- MODULE EditorExport ----------------------------
(***************************************************************************)
(* The editor script (Assets/Editor/IL2CPP2Mono.cs) of a Unity project:    *)
(* Unity calls OnPostGenerateGradleAndroidProject when it exports for      *)
(* Android and OnPostGenerateXCodeProject, which looks at the target, for  *)
(* iOS.  Each platform has an output directory of its own, so a behaviour  *)
(* is the exports of a project for one of them.                            *)
(***************************************************************************)
EXTENDS XcodeProject

CONSTANTS Scripts, Libs             \* of a Gradle project

VARIABLES
  platform,                         \* what Unity exports for
  written, gradle, files            \* the Gradle project

Android == INSTANCE AndroidProject

ASSUME ExportAssumption == Android!Constants

xcode == <<tree, project, schemes, archive, stage, glue, found, vars>>
android == <<written, gradle, files>>

\* The tree of an Xcode project is nothing to the Android export.
EditorInit ==
  /\ platform \in {"iOS", "Android"}
  /\ XcodeInit
  /\ Android!Init
  /\ platform = "Android" => tree = children

\* target != BuildTarget.iOS
EditorScript ==
  \/ platform = "iOS" /\ Script /\ UNCHANGED <<platform, android>>
  \/ platform = "Android" /\ Android!Script /\ UNCHANGED <<platform, xcode>>

EditorNext ==
  \/ platform = "iOS" /\ XcodeNext /\ UNCHANGED <<platform, android>>
  \/ platform = "Android" /\ Android!Next /\ UNCHANGED <<platform, xcode>>

\* Either script is a sequential method of the editor; Unity owes nothing.
EditorSpec ==
  /\ EditorInit
  /\ [][EditorNext]_<<platform, android, xcodeVars>>
  /\ WF_<<platform, android, xcodeVars>>(EditorScript)

-----------------------------------------------------------------------------
(* Properties *)

\* A run of either script that ends has installed Mono, all of it and once,
\* whatever an earlier run that failed has left in the project.
ExportInstalls ==
  /\ platform = "iOS" => InstalledWhole
  /\ platform = "Android" => Android!InstalledWhole

\* The generated C++ is only deleted when neither the Xcode project nor the
\* Gradle script on disk names it: a run that fails never leaves a project
\* without its sources.
SourcesOutlive ==
  /\ platform = "iOS" => SourcesOutliveReferences
  /\ platform = "Android" => Android!SourcesOutliveScript

\* A script that has begun ends, by itself or by a failure: the passes over
\* the groups do not go on for ever.
ScriptEnds == pc \notin {"idle", "installed"} ~> pc \in {"idle", "installed"}

\* The comment on the edit of build.gradle (line 33), of AndroidProject.
BlocksStripped == Android!BlocksStripped
=============================================================================
