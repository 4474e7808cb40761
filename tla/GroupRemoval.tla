---------------------------- MODULE GroupRemoval -----------------------------
(***************************************************************************)
(* RemoveGeneratedCppProjectReferences (Assets/Editor/IL2CPP2Mono.cs): the *)
(* loop that collects the groups that become empty, and the removal of the *)
(* collected objects from the arrays and from the project.                 *)
(*                                                                         *)
(* A pass visits the groups in the order of the file, whatever it is.      *)
(***************************************************************************)
EXTENDS ProjectTree

VARIABLES
  read,        \* the files and groups of the project that is read
  children,    \* their arrays
  step,        \* where the method is
  removeIds,   \* the objects to remove
  addedGroup,  \* whether this pass added a group
  todo,        \* the groups this pass has not visited
  objects,     \* the objects of the project that is written
  arrays       \* its "children" arrays

vars == <<read, children, step, removeIds, addedGroup, todo, objects, arrays>>

TypeOK ==
  /\ Project(read, children)
  /\ step \in {"files", "groups", "remove", "done"}
  /\ removeIds \subseteq Ids
  /\ addedGroup \in BOOLEAN
  /\ todo \subseteq Groups \cap read
  /\ objects \subseteq read
  /\ arrays \in [Groups -> SUBSET Ids]

-----------------------------------------------------------------------------
Init ==
  /\ Project(read, children)
  /\ step = "files"
  /\ removeIds = {}
  /\ addedGroup = FALSE
  /\ todo = {}
  /\ objects = read
  /\ arrays = children

BeginPassKeeping ==  \* mutant: addedGroup keeps its value
  /\ todo' = Groups \cap read
  /\ UNCHANGED addedGroup

BeginPass ==
  /\ todo' = Groups \cap read
  /\ addedGroup' = FALSE

\* The file references whose path is below il2cppOutput.
CollectFiles ==
  /\ step = "files"
  /\ removeIds' = Generated \cap read
  /\ BeginPass
  /\ step' = "groups"
  /\ UNCHANGED <<read, children, objects, arrays>>

\* Whether every child of g, and there is one, goes.
Emptied(g) ==
  /\ g \notin removeIds
  /\ children[g] # {}
  /\ children[g] \subseteq removeIds

Visit(g) ==
  /\ step = "groups"
  /\ g \in todo
  /\ todo' = todo \ {g}
  /\ \/ Emptied(g) /\ removeIds' = removeIds \cup {g} /\ addedGroup' = TRUE
     \/ ~Emptied(g) /\ UNCHANGED <<removeIds, addedGroup>>
  /\ UNCHANGED <<read, children, step, objects, arrays>>

EndPassOnce ==  \* mutant: one pass, no loop
  /\ step = "groups"
  /\ todo = {}
  /\ step' = "remove"
  /\ UNCHANGED <<read, children, removeIds, addedGroup, todo, objects, arrays>>

\* while (addedGroup)
EndPass ==
  /\ step = "groups"
  /\ todo = {}
  /\ \/ addedGroup /\ BeginPass /\ UNCHANGED step
     \/ ~addedGroup /\ step' = "remove" /\ UNCHANGED <<addedGroup, todo>>
  /\ UNCHANGED <<read, children, removeIds, objects, arrays>>

\* RemoveGuidsFromAllArrays: the entries that are among the removed objects.
Without(lists) == [x \in DOMAIN lists |-> lists[x] \ removeIds]

\* RemoveGuidsFromAllArrays and RemovePbxObjects, in the files and the groups.
\* Only these are ever collected: the PBXBuildFile objects of a removed file
\* stay, with their entries in the "files" arrays (module XcodeProject).
Remove ==
  /\ step = "remove"
  /\ arrays' = Without(arrays)
  /\ objects' = objects \ removeIds
  /\ step' = "done"
  /\ UNCHANGED <<read, children, removeIds, addedGroup, todo>>

Step == CollectFiles \/ (\E g \in Groups : Visit(g)) \/ EndPass \/ Remove

Next == Step \/ (step = "done" /\ UNCHANGED vars)

Spec == Init /\ [][Next]_vars

-----------------------------------------------------------------------------
(* Properties *)

\* Whatever the order of the groups in the file, the method removes exactly
\* the generated files and the groups that held nothing else at any depth:
\* no group of the user's goes, none is left that only became empty.
RemovesExactly == step = "done" => objects = read \ Doomed(children)

\* Every entry of a "children" array that is left names an object that is left.
NoDanglingEntry == step = "done" => \A g \in objects \cap Groups : arrays[g] \subseteq objects
=============================================================================
