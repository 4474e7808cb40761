---------------------------- MODULE XcodeProject -----------------------------
(***************************************************************************)
(* OnPostGenerateXCodeProject (Assets/Editor/IL2CPP2Mono.cs): what the     *)
(* editor script does to an exported Xcode project, file by file.  Unity   *)
(* calls it after every export; an export replaces the project or adds to  *)
(* the one an earlier run of the script, complete or not, has left.        *)
(*                                                                         *)
(* An exception or the end of the editor may come before any step.  The    *)
(* method that takes the generated sources out of the project runs step by *)
(* step, as module GroupRemoval has it; what the others compute from the   *)
(* project's text is an operator here.                                     *)
(***************************************************************************)
EXTENDS GroupRemoval, Integers

CONSTANTS
  Targets,      \* its targets, GameAssembly among them
  GameAssembly, \* the target that compiles the generated C++
  Dependents,   \* the targets that depend on GameAssembly
  Compiles,     \* Compiles[t]: the files that the build phases of t list
  MaxExports    \* bound: exports

\* A PBXTargetDependency, and its PBXContainerItemProxy.
Dependency(t) == <<"dependency", t>>
Proxy(t) == <<"proxy", t>>

\* The PBXBuildFile through which target t compiles f, which is its fileRef.
BuildFile(t, f) == <<"build", t, f>>
BuildFiles == UNION {{BuildFile(t, f) : f \in Compiles[t]} : t \in Targets}

ASSUME ProjectAssumption ==
  /\ GameAssembly \in Targets
  /\ Dependents \subseteq Targets \ {GameAssembly}
  /\ Targets \cap Ids = {}
  /\ \A t \in Dependents : {Dependency(t), Proxy(t)} \cap (Ids \cup Targets \cup BuildFiles) = {}
  /\ BuildFiles \cap (Ids \cup Targets) = {}
  /\ Compiles \in [Targets -> SUBSET Files]
  /\ \A t \in Targets \ {GameAssembly} : Compiles[t] \cap Generated = {}
  /\ MaxExports \in Nat

Zips == {"mono.zip", "Managed.zip"}
GlueFiles == {"UnityClassRegistration.cpp", "UnityICallRegistration.cpp"}

VARIABLES
  tree,     \* the "children" arrays of a project Unity has just written
  pc,       \* the next step of the script; "idle" when it does not run
  project,  \* the .pbxproj on disk
  schemes,  \* whether the schemes build GameAssembly
  archive,  \* whether Libraries/libil2cpp.a is the replacement
  stage,    \* the archives in Libraries/NativeRuntimeInputs/Assets
  glue,     \* the files in Libraries/NativeRuntimeGlue
  cpp,      \* whether Il2CppOutputProject/Source/il2cppOutput exists
  found,    \* whether il2cppOutput or Unity's build cache holds the glue files
  exports   \* exports so far

\* The variables of GroupRemoval are the locals of the method, whose step is
\* "idle" when it does not run and "done" when it has computed what is written.
disk == <<project, schemes, archive, stage, glue, cpp>>
xcodeVars == <<tree, pc, disk, found, exports, vars>>

\* The project as Unity writes it.
Fresh == [objects |-> Ids \cup Targets \cup BuildFiles \cup {Dependency(t) : t \in Dependents}
                          \cup {Proxy(t) : t \in Dependents},
          children |-> tree,
          dependencies |-> [t \in Targets |-> IF t \in Dependents THEN {Dependency(t)} ELSE {}],
          files |-> [t \in Targets |-> {BuildFile(t, f) : f \in Compiles[t]}],
          linked |-> TRUE,   \* UnityFramework links the product of GameAssembly
          copies |-> 0,      \* "Copy Mono Runtime Assets" phases
          sources |-> {}]    \* the glue files UnityFramework compiles

-----------------------------------------------------------------------------
(* The edits *)

EditAlways(p) ==  \* mutant: the copy phase is added without a look
  [p EXCEPT !.sources = GlueFiles, !.linked = FALSE, !.copies = @ + 1]

\* The edits through PBXProject, up to WriteToFile.
Edit(p) == [p EXCEPT !.sources = GlueFiles,
                     !.linked = FALSE,
                     !.copies = IF @ = 0 THEN 1 ELSE @]

DetachObjectsOnly(p) ==  \* mutant: the "dependencies" arrays keep their entries
  [p EXCEPT !.objects = @ \ UNION {{Dependency(t), Proxy(t)} : t \in Dependents}]

\* DetachTargetFromBuildGraph.
Detach(p) ==
  [p EXCEPT !.objects = @ \ UNION {{Dependency(t), Proxy(t)} : t \in Dependents},
            !.dependencies = [t \in Targets |-> @[t] \ {Dependency(u) : u \in Dependents}]]

\* The parameter and the locals, once the method has read the project p.
Reads(p) ==
  /\ step' = "files"
  /\ read' = Ids \cap p.objects
  /\ children' = [g \in Groups |-> IF g \in p.objects THEN p.children[g] ELSE {}]
  /\ objects' = read'
  /\ arrays' = children'
  /\ UNCHANGED <<removeIds, addedGroup, todo>>

\* The method has returned, or never will.
Returned ==
  /\ step' = "idle"
  /\ read' = {} /\ removeIds' = {} /\ todo' = {} /\ objects' = {}
  /\ addedGroup' = FALSE
  /\ children' = [g \in Groups |-> {}] /\ arrays' = children'

-----------------------------------------------------------------------------
(* The steps of the script *)

\* ConfigurePList, then the replacement of libil2cpp.a.
CopyArchive ==
  /\ pc = "archive"
  /\ archive' = TRUE
  /\ pc' = "recreate"
  /\ UNCHANGED <<project, schemes, stage, glue, cpp, found, exports, tree, vars>>

RecreateDirectory ==
  /\ pc = "recreate"
  /\ stage' = {}
  /\ pc' = "mono.zip"
  /\ UNCHANGED <<project, schemes, archive, glue, cpp, found, exports, tree, vars>>

\* mono.zip is copied, Managed.zip is made from ManagedStripped.
Stage(zip, after) ==
  /\ pc = zip
  /\ stage' = stage \cup {zip}
  /\ pc' = after
  /\ UNCHANGED <<project, schemes, archive, glue, cpp, found, exports, tree, vars>>

\* Without a source for a glue file the copy throws.
CopyGlue ==
  /\ pc = "glue"
  /\ \/ /\ found
        /\ \E f \in GlueFiles \ glue : glue' = glue \cup {f}
        /\ UNCHANGED pc
     \/ /\ found
        /\ glue = GlueFiles
        /\ pc' = "edit"
        /\ UNCHANGED glue
     \/ /\ ~found
        /\ pc' = "idle"
        /\ UNCHANGED glue
  /\ UNCHANGED <<project, schemes, archive, stage, cpp, found, exports, tree, vars>>

WriteProjectDeleting ==  \* mutant: the sources are deleted before the text is edited
  /\ pc = "edit"
  /\ project' = Edit(project)
  /\ cpp' = FALSE
  /\ pc' = "detach"
  /\ UNCHANGED <<schemes, archive, stage, glue, found, exports, tree, vars>>

WriteProject ==
  /\ pc = "edit"
  /\ project' = Edit(project)
  /\ pc' = "detach"
  /\ UNCHANGED <<schemes, archive, stage, glue, cpp, found, exports, tree, vars>>

\* The project on disk is read back; GameAssembly is detached in its text.
ReadBack ==
  /\ pc = "detach"
  /\ Reads(Detach(project))
  /\ pc' = "remove"
  /\ UNCHANGED <<disk, found, exports, tree>>

RemoveGenerated ==
  /\ pc = "remove"
  /\ Step
  /\ UNCHANGED <<pc, disk, found, exports, tree>>

WriteTextUndetached ==  \* mutant: the sources are taken out of the text that was read
  /\ pc = "remove"
  /\ step = "done"
  /\ project' = [project EXCEPT !.objects = (@ \ Ids) \cup objects, !.children = arrays]
  /\ Returned
  /\ pc' = "schemes"
  /\ UNCHANGED <<schemes, archive, stage, glue, cpp, found, exports, tree>>

WriteText ==
  /\ pc = "remove"
  /\ step = "done"
  /\ project' = [Detach(project) EXCEPT !.objects = (@ \ Ids) \cup objects,
                                        !.children = arrays,
                                        !.files = Without(@),
                                        !.dependencies = Without(@)]
  /\ Returned
  /\ pc' = "schemes"
  /\ UNCHANGED <<schemes, archive, stage, glue, cpp, found, exports, tree>>

RemoveFromSchemes ==
  /\ pc = "schemes"
  /\ schemes' = FALSE
  /\ pc' = "delete"
  /\ UNCHANGED <<project, archive, stage, glue, cpp, found, exports, tree, vars>>

DeleteGenerated ==
  /\ pc = "delete"
  /\ cpp' = FALSE
  /\ pc' = "installed"
  /\ UNCHANGED <<project, schemes, archive, stage, glue, found, exports, tree, vars>>

\* An exception, or the editor ends.
Fail ==
  /\ pc \notin {"idle", "installed"}
  /\ pc' = "idle"
  /\ Returned
  /\ UNCHANGED <<disk, found, exports, tree>>

-----------------------------------------------------------------------------
(* Unity *)

\* What every export writes.
Export ==
  /\ pc \in {"idle", "installed"}
  /\ exports < MaxExports
  /\ exports' = exports + 1
  /\ pc' = "archive"
  /\ cpp' = TRUE
  /\ archive' = FALSE
  /\ found' \in BOOLEAN
  /\ UNCHANGED <<tree, vars>>

ExportReplacing ==
  /\ Export
  /\ project' = Fresh
  /\ schemes' = TRUE
  /\ stage' = {}
  /\ glue' = {}

\* Unity adds to the project that is there, and may put back what is its own.
ExportAppending ==
  /\ Export
  /\ exports > 0
  /\ \/ UNCHANGED <<project, schemes>>
     \/ /\ project' = [Fresh EXCEPT !.copies = project.copies,
                                    !.sources = project.sources,
                                    !.linked = TRUE]
        /\ schemes' = TRUE
  /\ UNCHANGED <<stage, glue>>

XcodeInit ==
  /\ tree \in {t \in [Groups -> SUBSET Ids] : Forest(t)}
  /\ pc = "idle"
  /\ project = Fresh
  /\ schemes = TRUE
  /\ archive = FALSE
  /\ stage = {}
  /\ glue = {}
  /\ cpp = TRUE
  /\ found = FALSE
  /\ exports = 0
  /\ step = "idle"
  /\ read = {} /\ removeIds = {} /\ todo = {} /\ objects = {}
  /\ addedGroup = FALSE
  /\ children = [g \in Groups |-> {}]
  /\ arrays = children

Script ==
  \/ CopyArchive
  \/ RecreateDirectory
  \/ Stage("mono.zip", "Managed.zip")
  \/ Stage("Managed.zip", "glue")
  \/ CopyGlue
  \/ WriteProject
  \/ ReadBack
  \/ RemoveGenerated
  \/ WriteText
  \/ RemoveFromSchemes
  \/ DeleteGenerated

Stopped == pc \in {"idle", "installed"} /\ exports = MaxExports /\ UNCHANGED xcodeVars

XcodeNext == Script \/ Fail \/ ExportReplacing \/ ExportAppending \/ Stopped

-----------------------------------------------------------------------------
(* Properties *)

\* A run of the script that ends has installed Mono, whatever an earlier run
\* that failed has left in a project Unity then added to: the archives and
\* the glue are there, the assets are copied once, and nothing builds the
\* generated C++, whose target itself stays.
InstalledWhole ==
  pc = "installed" =>
    /\ archive /\ ~schemes /\ stage = Zips /\ glue = GlueFiles
    /\ project.sources = GlueFiles /\ project.copies = 1 /\ ~project.linked
    /\ project.objects = (Ids \ Doomed(tree)) \cup Targets \cup BuildFiles

\* The generated C++ is only deleted when no project on disk names it any
\* more: a run that fails never leaves a project without its sources.
SourcesOutliveReferences == ~cpp => Generated \cap project.objects = {}

\* At every moment, failed runs included, the entries of the arrays of the
\* project on disk name objects of that project.  The one reference that does
\* dangle is the fileRef of a build file whose generated source has been taken
\* out: RemoveGeneratedCppProjectReferences leaves it in the phase that lists
\* it.  That phase is GameAssembly's, and by then no target depends on
\* GameAssembly or links its product.
ProjectClosed ==
  /\ \A g \in Groups \cap project.objects : project.children[g] \subseteq project.objects
  /\ \A t \in Targets : project.dependencies[t] \cup project.files[t] \subseteq project.objects
  /\ \A t \in Targets : \A f \in Compiles[t] :
       BuildFile(t, f) \in project.files[t] /\ f \notin project.objects =>
         /\ t = GameAssembly
         /\ f \in Generated
         /\ \A u \in Targets : project.dependencies[u] = {}
         /\ ~project.linked
=============================================================================
