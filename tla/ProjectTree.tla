----------------------------- MODULE ProjectTree -----------------------------
(***************************************************************************)
(* The file tree of an Xcode project: PBXFileReference and PBXGroup        *)
(* objects, and the "children" arrays of the groups.  Some references are  *)
(* to the C++ that IL2CPP generates; Assets/Editor/IL2CPP2Mono.cs takes    *)
(* them, and the groups that hold nothing else, out of the project.        *)
(***************************************************************************)
EXTENDS FiniteSets

CONSTANTS
  Files,     \* the PBXFileReference objects
  Groups,    \* the PBXGroup objects
  Generated  \* the files below Il2CppOutputProject/Source/il2cppOutput/

ASSUME TreeAssumption ==
  /\ Files \cap Groups = {}
  /\ Generated \subseteq Files
  /\ IsFiniteSet(Groups)

Ids == Files \cup Groups

\* The groups form a forest: an object is listed once, no group holds itself.
Forest(children) ==
  /\ children \in [Groups -> SUBSET Ids]
  /\ \A g, h \in Groups : g # h => children[g] \cap children[h] = {}
  /\ \A S \in SUBSET Groups : S # {} => \E g \in S : children[g] \cap S = {}

\* A project with these objects: its arrays list no other.
Project(objs, children) ==
  /\ objs \in SUBSET Ids
  /\ Forest(children)
  /\ \A g \in Groups : children[g] \subseteq objs
  /\ \A g \in Groups \ objs : children[g] = {}

\* A set with the children of g and of every group in it.
Contains(children, g, S) ==
  /\ children[g] \subseteq S
  /\ \A h \in S \cap Groups : children[h] \subseteq S

\* What is below g at any depth: the smallest such set.
Below(children, g) == {x \in Ids : \A S \in SUBSET Ids : Contains(children, g, S) => x \in S}

\* Group g holds generated files at some depth, nothing else, and no group
\* below it is empty.
OnlyGenerated(children, g) ==
  /\ children[g] # {}
  /\ \A x \in Below(children, g) : x \in Generated \/ (x \in Groups /\ children[x] # {})

\* What the removal is meant to take out.
Doomed(children) == Generated \cup {g \in Groups : OnlyGenerated(children, g)}
=============================================================================
