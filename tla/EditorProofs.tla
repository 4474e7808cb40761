---------------------------- MODULE EditorProofs -----------------------------
(***************************************************************************)
(* What the editor script does to an exported project of either platform,  *)
(* for every project, any number of exports and of failures at any step.   *)
(*                                                                         *)
(* Between the runs of the script an Xcode project is in one of two        *)
(* states: as Unity writes it, or without what is doomed in it.  The       *)
(* removal maps both to the second: it takes out exactly what is doomed    *)
(* (below), and nothing is doomed in what it leaves.                       *)
(***************************************************************************)
EXTENDS EditorExport, Sequences, FiniteSetTheorems, TLAPS

-----------------------------------------------------------------------------
(* RemoveGeneratedCppProjectReferences removes exactly the generated files   *)
(* and the groups that hold nothing else, for every project.                 *)
(*                                                                           *)
(* No induction on the depth of the tree is needed: that a collected group   *)
(* is doomed follows from the smallest set Below, and that no doomed group   *)
(* is left from a minimal one among those that are (the groups form a        *)
(* forest), whose children are collected already.                            *)

\* What a pass has established about the groups it has visited, provided it
\* has not added any: none of them is to be added.
Visited == (step = "groups" /\ ~addedGroup) => \A g \in (Groups \cap read) \ todo : ~Emptied(g)

\* The loop only collects what is doomed, and stops when nothing is left.
Collects ==
  /\ removeIds \subseteq Doomed(children)
  /\ removeIds \subseteq read
  /\ step # "files" => Generated \cap read \subseteq removeIds
  /\ step \in {"remove", "done"} => \A g \in Groups \cap read : ~Emptied(g)

Written ==
  /\ step # "done" => objects = read /\ arrays = children
  /\ step = "done" => /\ objects = read \ removeIds
                    /\ arrays = [g \in Groups |-> children[g] \ removeIds]

Removal == TypeOK /\ Visited /\ Collects /\ Written

-----------------------------------------------------------------------------
(* The tree *)

\* The children of a group are below it.
LEMMA ChildrenBelow ==
  ASSUME NEW c, Forest(c), NEW g \in Groups
  PROVE  c[g] \subseteq Below(c, g)
BY DEF Forest, Below, Contains

\* What is below a group that is below g is below g.
LEMMA BelowClosed ==
  ASSUME NEW c, Forest(c), NEW g \in Groups, NEW h \in Below(c, g) \cap Groups
  PROVE  c[h] \subseteq Below(c, g)
BY DEF Forest, Below, Contains

LEMMA BelowTransitive ==
  ASSUME NEW c, Forest(c), NEW g \in Groups, NEW h \in Below(c, g) \cap Groups
  PROVE  Below(c, h) \subseteq Below(c, g)
<1>1. Below(c, g) \in SUBSET Ids
  BY DEF Below
<1>2. Contains(c, h, Below(c, g))
  BY BelowClosed DEF Contains
<1> QED
  BY <1>1, <1>2 DEF Below

\* A group whose children are all doomed is doomed.
LEMMA EmptiedIsDoomed ==
  ASSUME NEW c, Forest(c), NEW g \in Groups, c[g] # {}, c[g] \subseteq Doomed(c)
  PROVE  g \in Doomed(c)
<1> DEFINE S == c[g] \cup UNION {Below(c, h) : h \in c[g] \cap Groups}
<1>1. S \in SUBSET Ids
  BY DEF Forest, Below
<1>2. Contains(c, g, S)
  <2>1. ASSUME NEW h \in S \cap Groups
        PROVE  c[h] \subseteq S
    <3>1. CASE h \in c[g]
      BY <3>1, ChildrenBelow, Zenon
    <3>2. CASE h \notin c[g]
      <4>1. PICK k \in c[g] \cap Groups : h \in Below(c, k)
        BY <3>2
      <4>2. c[h] \subseteq Below(c, k)
        BY <4>1, BelowClosed
      <4> QED
        BY <4>2
    <3> QED
      BY <3>1, <3>2
  <2> QED
    BY <2>1 DEF Contains
<1>3. Below(c, g) \subseteq S
  BY <1>1, <1>2 DEF Below
<1>4. ASSUME NEW x \in S
      PROVE  x \in Generated \/ (x \in Groups /\ c[x] # {})
  <2>1. CASE x \in c[g]
    BY <2>1 DEF Doomed, OnlyGenerated
  <2>2. CASE x \notin c[g]
    <3>1. PICK h \in c[g] \cap Groups : x \in Below(c, h)
      BY <2>2
    <3>2. OnlyGenerated(c, h)
      BY TreeAssumption DEF Doomed
    <3> QED
      BY <3>1, <3>2 DEF OnlyGenerated
  <2> QED
    BY <2>1, <2>2
<1> QED
  BY <1>3, <1>4 DEF Doomed, OnlyGenerated

\* A set that holds the generated files, and every group whose children it
\* holds, holds all that is doomed.
LEMMA DoomedIsCollected ==
  ASSUME NEW c, Forest(c), NEW R \in SUBSET Ids,
         Generated \subseteq R,
         \A g \in Groups : (c[g] # {} /\ c[g] \subseteq R) => g \in R
  PROVE  Doomed(c) \subseteq R
<1> DEFINE D == {g \in Groups : OnlyGenerated(c, g)} \ R
<1>1. SUFFICES ASSUME D # {} PROVE FALSE
  BY DEF Doomed
<1>2. PICK g \in D : c[g] \cap D = {}
  BY <1>1 DEF Forest
<1>3. ASSUME NEW x \in c[g]
      PROVE  x \in R
  <2>1. x \in Below(c, g)
    BY ChildrenBelow
  <2>2. CASE x \in Generated
    BY <2>2
  <2>3. CASE x \in Groups /\ c[x] # {}
    <3>1. Below(c, x) \subseteq Below(c, g)
      BY <2>1, <2>3, BelowTransitive
    <3>2. OnlyGenerated(c, x)
      BY <2>3, <3>1 DEF OnlyGenerated
    <3> QED
      BY <1>2, <2>3, <3>2
  <2> QED
    BY <2>1, <2>2, <2>3 DEF OnlyGenerated
<1> QED
  BY <1>2, <1>3 DEF OnlyGenerated

-----------------------------------------------------------------------------
(* The loop *)

LEMMA RemovalInit == Init => Removal
BY DEF Init, Removal, TypeOK, Visited, Collects, Written, Project, Forest, Ids

\* A visit adds a group only when all its children go.
LEMMA VisitKeepsRemoval ==
  ASSUME Removal, NEW g \in Groups, Visit(g)
  PROVE  Removal'
<1> USE DEF Removal, Visit
<1>1. TypeOK'
  BY DEF TypeOK, Ids
<1>2. Visited'
  <2>1. CASE Emptied(g)
    BY <2>1 DEF Visited
  <2>2. CASE ~Emptied(g)
    BY <2>2 DEF Visited, Emptied
  <2> QED
    BY <2>1, <2>2
<1>3. Collects'
  <2>1. CASE Emptied(g)
    <3>1. g \in Doomed(children)
      BY <2>1, EmptiedIsDoomed DEF TypeOK, Project, Collects, Emptied
    <3> QED
      BY <2>1, <3>1 DEF Collects, TypeOK
  <2>2. CASE ~Emptied(g)
    BY <2>2 DEF Collects
  <2> QED
    BY <2>1, <2>2
<1>4. Written'
  BY DEF Written
<1> QED
  BY <1>1, <1>2, <1>3, <1>4

LEMMA RemovalStep == Removal /\ [Next]_vars => Removal'
<1> SUFFICES ASSUME Removal, [Next]_vars PROVE Removal'
  OBVIOUS
<1>1. CASE CollectFiles
  BY <1>1, TreeAssumption
  DEF CollectFiles, BeginPass, Removal, TypeOK, Project, Visited, Collects, Written, Doomed, Ids
<1>2. ASSUME NEW g \in Groups, Visit(g) PROVE Removal'
  BY <1>2, VisitKeepsRemoval
<1>3. CASE EndPass
  <2>1. TypeOK' /\ Written'
    BY <1>3 DEF EndPass, BeginPass, Removal, TypeOK, Written
  <2>2. Visited'
    BY <1>3 DEF EndPass, BeginPass, Removal, Visited
  <2>3. Collects'
    BY <1>3 DEF EndPass, BeginPass, Removal, Visited, Collects, Emptied
  <2> QED
    BY <2>1, <2>2, <2>3 DEF Removal
<1>4. CASE Remove
  <2>1. /\ step = "remove" /\ step' = "done"
        /\ arrays' = [g \in Groups |-> arrays[g] \ removeIds]
        /\ objects' = objects \ removeIds
        /\ UNCHANGED <<read, children, removeIds, addedGroup, todo>>
    BY <1>4 DEF Remove, Without, Removal, TypeOK
  <2> QED
    BY <2>1 DEF Removal, TypeOK, Visited, Collects, Written, Emptied
<1>5. CASE UNCHANGED vars
  BY <1>5 DEF vars, Removal, TypeOK, Visited, Collects, Written, Emptied
<1> QED
  BY <1>1, <1>2, <1>3, <1>4, <1>5 DEF Next, Step

LEMMA RemovalInvariant == Spec => []Removal
BY RemovalInit, RemovalStep, PTL DEF Spec

\* The invariant at the end of the method.
LEMMA AllDoomedCollected ==
  ASSUME Removal, step = "done"
  PROVE  removeIds = read \cap Doomed(children)
<1> DEFINE R == removeIds \cup Generated
<1>1. ASSUME NEW g \in Groups, children[g] # {}, children[g] \subseteq R
      PROVE  g \in R
  <2>1. g \in read /\ children[g] \subseteq read
    BY <1>1 DEF Removal, TypeOK, Project
  <2>2. children[g] \subseteq removeIds
    BY <1>1, <2>1 DEF Removal, Collects
  <2> QED
    BY <1>1, <2>1, <2>2 DEF Removal, Collects, Emptied
<1>2. R \in SUBSET Ids /\ Forest(children)
  BY TreeAssumption DEF Removal, TypeOK, Project, Ids
<1>3. Doomed(children) \subseteq R
  BY <1>1, <1>2, DoomedIsCollected
<1> QED
  BY <1>3 DEF Removal, Collects

\* RemoveGeneratedCppProjectReferences takes out of every project exactly the
\* generated files and the groups that hold nothing else.
THEOREM RemovalIsExact == Spec => []RemovesExactly
<1>1. Removal => RemovesExactly
  BY AllDoomedCollected DEF RemovesExactly, Removal, Written
<1> QED
  BY <1>1, RemovalInvariant, PTL

\* It leaves no entry for an object that it removed.
THEOREM RemovalLeavesNoDangling == Spec => []NoDanglingEntry
<1>1. Removal => NoDanglingEntry
  <2> SUFFICES ASSUME Removal, step = "done", NEW g \in objects \cap Groups
               PROVE  arrays[g] \subseteq objects
    BY DEF NoDanglingEntry
  <2>1. arrays[g] = children[g] \ removeIds /\ objects = read \ removeIds
    BY DEF Removal, Written
  <2> QED
    BY <2>1 DEF Removal, TypeOK, Project, Forest
<1> QED
  BY <1>1, RemovalInvariant, PTL

-----------------------------------------------------------------------------
(* The whole script                                                          *)

Deps == {Dependency(t) : t \in Dependents}
Proxies == {Proxy(t) : t \in Dependents}

Projects == [objects : SUBSET (Ids \cup Targets \cup BuildFiles \cup Deps \cup Proxies),
             children : [Groups -> SUBSET Ids],
             dependencies : [Targets -> SUBSET Deps],
             files : [Targets -> SUBSET BuildFiles],
             linked : BOOLEAN,
             copies : {0, 1},
             sources : {{}, GlueFiles}]

\* The tree without what is doomed in it.
Reduced == [g \in Groups |-> tree[g] \ Doomed(tree)]

\* p has the tree as Unity writes it, or without what is doomed.
Whole(p) == Ids \cap p.objects = Ids /\ p.children = tree
Removed(p) == Ids \cap p.objects = Ids \ Doomed(tree) /\ p.children = Reduced

\* Nothing needs GameAssembly.
Detached(p) == ~p.linked /\ \A t \in Targets : p.dependencies[t] = {}

GoodProject(p) ==
  /\ p \in Projects
  /\ Targets \cup BuildFiles \subseteq p.objects
  /\ \A t \in Targets : p.dependencies[t] \subseteq p.objects
  /\ Whole(p) \/ (Removed(p) /\ Detached(p))

Beginning == {"archive", "recreate", "mono.zip", "Managed.zip", "glue"}
Editing == {"edit", "detach", "remove"}
Ending == {"schemes", "delete", "installed"}

\* How far a run of the script has come.
Progress ==
  /\ pc \in {"idle"} \cup Beginning \cup Editing \cup Ending
  /\ pc \notin {"idle", "archive"} => archive
  /\ pc = "mono.zip" => stage = {}
  /\ pc = "Managed.zip" => stage = {"mono.zip"}
  /\ pc \in {"glue"} \cup Editing \cup Ending => stage = Zips
  /\ pc \in Editing \cup Ending => glue = GlueFiles
  /\ pc \in {"detach", "remove"} \cup Ending =>
       project.sources = GlueFiles /\ project.copies = 1 /\ ~project.linked
  /\ pc \in Ending => Removed(project) /\ project.objects = (Ids \ Doomed(tree)) \cup Targets \cup BuildFiles
  /\ pc \in {"delete", "installed"} => ~schemes

\* The generated C++ is there unless a project without it is on disk.
Sources ==
  /\ pc \in Beginning \cup Editing => cpp
  /\ ~cpp => Removed(project)

\* The method runs on what is on disk, and only in its step.
Method ==
  /\ pc # "remove" => step = "idle" /\ removeIds = {} /\ todo = {} /\ addedGroup = FALSE
  /\ pc = "remove" => Removal /\ read = Ids \cap project.objects /\ children = project.children

ExportInv ==
  /\ Forest(tree)
  /\ GoodProject(project)
  /\ glue \subseteq GlueFiles
  /\ Progress
  /\ Sources
  /\ Method

-----------------------------------------------------------------------------
(* The tree without what is doomed *)

\* What a doomed group holds is doomed.
LEMMA DoomedChildren ==
  ASSUME NEW c, Forest(c), NEW g \in Groups \cap Doomed(c)
  PROVE  c[g] \subseteq Doomed(c)
<1>1. OnlyGenerated(c, g)
  BY TreeAssumption DEF Doomed
<1>2. ASSUME NEW x \in c[g]
      PROVE  x \in Doomed(c)
  <2>1. x \in Below(c, g)
    BY <1>2, ChildrenBelow
  <2>2. CASE x \in Generated
    BY <2>2 DEF Doomed
  <2>3. CASE x \in Groups /\ c[x] # {}
    <3>1. Below(c, x) \subseteq Below(c, g)
      BY <2>1, <2>3, BelowTransitive
    <3>2. OnlyGenerated(c, x)
      BY <1>1, <2>3, <3>1 DEF OnlyGenerated
    <3> QED
      BY <2>3, <3>2 DEF Doomed
  <2> QED
    BY <1>1, <2>1, <2>2, <2>3 DEF OnlyGenerated
<1> QED
  BY <1>2

LEMMA ReducedForest ==
  ASSUME Forest(tree)
  PROVE  Forest(Reduced)
<1>1. Reduced \in [Groups -> SUBSET Ids] /\ \A g \in Groups : Reduced[g] \subseteq tree[g]
  BY DEF Reduced, Forest
<1>2. \A g, h \in Groups : g # h => Reduced[g] \cap Reduced[h] = {}
  BY <1>1 DEF Forest
<1>3. ASSUME NEW S \in SUBSET Groups, S # {}
      PROVE  \E g \in S : Reduced[g] \cap S = {}
  <2>1. PICK g \in S : tree[g] \cap S = {}
    BY <1>3 DEF Forest
  <2> QED
    BY <1>1, <2>1
<1> QED
  BY <1>1, <1>2, <1>3 DEF Forest

\* Both states of a project are projects that the method may read.
LEMMA ReadsProject ==
  ASSUME Forest(tree), NEW p, GoodProject(p)
  PROVE  /\ Project(Ids \cap p.objects, p.children)
         /\ p.children = [g \in Groups |-> IF g \in p.objects THEN p.children[g] ELSE {}]
<1>1. CASE Whole(p)
  BY <1>1 DEF Whole, GoodProject, Projects, Project, Forest, Ids
<1>2. CASE Removed(p)
  <2>1. Forest(p.children)
    BY <1>2, ReducedForest DEF Removed
  <2>2. ASSUME NEW g \in Groups
        PROVE  /\ p.children[g] \subseteq Ids \cap p.objects
               /\ g \notin p.objects => p.children[g] = {}
    <3>1. p.children[g] = tree[g] \ Doomed(tree) /\ tree[g] \subseteq Ids
      BY <1>2 DEF Removed, Reduced, Forest
    <3>2. CASE g \in Doomed(tree)
      BY <3>1, <3>2, DoomedChildren
    <3>3. CASE g \notin Doomed(tree)
      BY <1>2, <3>1, <3>3 DEF Removed, Ids
    <3> QED
      BY <1>2, <3>1, <3>2, <3>3 DEF Removed
  <2>3. p.children \in [Groups -> SUBSET Ids]
    BY DEF GoodProject, Projects
  <2>4. Project(Ids \cap p.objects, p.children)
    <3>1. Groups \subseteq Ids
      BY DEF Ids
    <3> QED
      BY <2>1, <2>2, <3>1 DEF Project
  <2> QED
    BY <2>2, <2>3, <2>4
<1> QED
  BY <1>1, <1>2 DEF GoodProject

\* Nothing is doomed in what is left: a group that held nothing but groups
\* that hold something would have no end.
LEMMA NothingLeft ==
  ASSUME Forest(tree)
  PROVE  Doomed(Reduced) \cap (Ids \ Doomed(tree)) = {}
<1>1. SUFFICES ASSUME NEW g \in Groups, g \notin Doomed(tree), OnlyGenerated(Reduced, g)
               PROVE  FALSE
  BY DEF Doomed
<1>2. Below(Reduced, g) \subseteq Ids \ Doomed(tree)
  <2>1. Contains(Reduced, g, Ids \ Doomed(tree))
    BY DEF Contains, Reduced, Forest
  <2>2. Ids \ Doomed(tree) \in SUBSET Ids
    OBVIOUS
  <2> QED
    BY <2>1, <2>2 DEF Below
<1>3. \A x \in Below(Reduced, g) : x \in Groups /\ Reduced[x] # {}
  BY <1>1, <1>2 DEF OnlyGenerated, Doomed
<1> DEFINE S == {g} \cup Below(Reduced, g)
<1>4. PICK h \in S : Reduced[h] \cap S = {}
  <2>1. S \in SUBSET Groups /\ S # {}
    BY <1>3
  <2> QED
    BY <2>1, ReducedForest DEF Forest
<1>5. Reduced[h] # {}
  BY <1>1, <1>3 DEF OnlyGenerated
<1>6. Reduced[h] \subseteq Below(Reduced, g)
  BY <1>3, ReducedForest, ChildrenBelow, BelowClosed
<1> QED
  BY <1>4, <1>5, <1>6

-----------------------------------------------------------------------------
(* The edits *)

LEMMA EditGood ==
  ASSUME NEW p, GoodProject(p)
  PROVE  /\ GoodProject(Edit(p))
         /\ Edit(p).sources = GlueFiles /\ Edit(p).copies = 1 /\ ~Edit(p).linked
         /\ Removed(p) => Removed(Edit(p))
BY DEF GoodProject, Projects, Edit, Whole, Removed, Detached

LEMMA DetachFields ==
  ASSUME NEW p, GoodProject(p)
  PROVE  /\ Detach(p) \in Projects
         /\ Detach(p).objects = p.objects \ (Deps \cup Proxies)
         /\ Detach(p).children = p.children
         /\ \A t \in Targets : Detach(p).dependencies[t] = {}
         /\ Detach(p).files = p.files
         /\ Detach(p).sources = p.sources
         /\ Detach(p).copies = p.copies
         /\ Detach(p).linked = p.linked
<1>1. UNION {{Dependency(t), Proxy(t)} : t \in Dependents} = Deps \cup Proxies
  BY DEF Deps, Proxies
<1> QED
  BY <1>1 DEF GoodProject, Projects, Detach, Deps

\* The files and groups of a project stay when a target is detached.
LEMMA DetachKeepsTree ==
  ASSUME NEW p, GoodProject(p)
  PROVE  /\ Ids \cap Detach(p).objects = Ids \cap p.objects
         /\ Targets \cup BuildFiles \subseteq Detach(p).objects
BY DetachFields, ProjectAssumption DEF GoodProject, Deps, Proxies

LEMMA FreshGood ==
  ASSUME Forest(tree)
  PROVE  GoodProject(Fresh)
<1>1. Fresh \in Projects
  BY DEF Fresh, Projects, Forest, Deps, Proxies, BuildFiles
<1>2. \A t \in Targets : Fresh.dependencies[t] \subseteq Fresh.objects
  BY DEF Fresh
<1>3. Targets \cup BuildFiles \subseteq Fresh.objects /\ Whole(Fresh)
  BY DEF Fresh, Whole
<1> QED
  BY <1>1, <1>2, <1>3 DEF GoodProject

LEMMA FreshAgainGood ==
  ASSUME Forest(tree), NEW p, GoodProject(p)
  PROVE  GoodProject([Fresh EXCEPT !.copies = p.copies, !.sources = p.sources, !.linked = TRUE])
BY FreshGood DEF GoodProject, Projects, Fresh, Whole

-----------------------------------------------------------------------------
(* The steps *)

LEMMA ExportInit == XcodeInit => ExportInv
<1> SUFFICES ASSUME XcodeInit PROVE ExportInv
  OBVIOUS
<1>1. Forest(tree)
  BY DEF XcodeInit
<1>2. GoodProject(project)
  BY <1>1, FreshGood DEF XcodeInit
<1>3. Progress /\ Sources /\ Method /\ glue \subseteq GlueFiles
  BY DEF XcodeInit, Progress, Sources, Method, Beginning, Editing, Ending
<1> QED
  BY <1>1, <1>2, <1>3 DEF ExportInv

\* Up to the edits of the project: the files of the export.
LEMMA FilesStep ==
  ASSUME ExportInv,
         \/ CopyArchive \/ RecreateDirectory
         \/ Stage("mono.zip", "Managed.zip") \/ Stage("Managed.zip", "glue")
         \/ CopyGlue
  PROVE  ExportInv'
<1> USE DEF ExportInv, Beginning, Editing, Ending, vars
<1>1. UNCHANGED <<project, tree, cpp, schemes, vars>> /\ pc \in Beginning /\ glue' \subseteq GlueFiles
  BY DEF CopyArchive, RecreateDirectory, Stage, CopyGlue
<1>2. Forest(tree)' /\ GoodProject(project)' /\ (glue \subseteq GlueFiles)'
  BY <1>1 DEF GoodProject, Whole, Removed, Detached, Reduced
<1>3. Progress'
  <2>1. CASE CopyArchive \/ RecreateDirectory
    BY <1>1, <2>1 DEF CopyArchive, RecreateDirectory, Progress
  <2>2. CASE Stage("mono.zip", "Managed.zip")
    BY <1>1, <2>2 DEF Stage, Progress
  <2>3. CASE Stage("Managed.zip", "glue")
    BY <1>1, <2>3 DEF Stage, Progress, Zips
  <2>4. CASE CopyGlue
    BY <1>1, <2>4 DEF CopyGlue, Progress
  <2> QED
    BY <2>1, <2>2, <2>3, <2>4
<1>4. pc' \in {"idle", "edit"} \cup Beginning
  BY DEF CopyArchive, RecreateDirectory, Stage, CopyGlue
<1>5. Sources'
  BY <1>1, <1>4 DEF Sources, Removed, Reduced
<1>6. Method'
  BY <1>1, <1>4 DEF Method
<1> QED
  BY <1>2, <1>3, <1>5, <1>6

LEMMA WriteProjectStep ==
  ASSUME ExportInv, WriteProject
  PROVE  ExportInv'
<1> USE DEF ExportInv, Beginning, Editing, Ending, vars
<1>1. /\ pc = "edit" /\ pc' = "detach" /\ project' = Edit(project)
      /\ UNCHANGED <<tree, cpp, schemes, archive, stage, glue, vars>>
  BY DEF WriteProject
<1>2. Forest(tree)' /\ GoodProject(project)'
  BY <1>1, EditGood DEF GoodProject, Whole, Removed, Detached, Reduced
<1>3. Progress' /\ Sources' /\ Method'
  BY <1>1, EditGood DEF Progress, Sources, Method
<1> QED
  BY <1>1, <1>2, <1>3

LEMMA ReadBackStep ==
  ASSUME ExportInv, ReadBack
  PROVE  ExportInv'
<1> USE DEF ExportInv, Beginning, Editing, Ending
<1>1. pc = "detach" /\ pc' = "remove" /\ UNCHANGED <<tree, project, cpp, schemes, archive, stage, glue>>
  BY DEF ReadBack, disk
<1> DEFINE d == Detach(project)
<1>2. Ids \cap d.objects = Ids \cap project.objects /\ d.children = project.children
  BY DetachKeepsTree, DetachFields
<1>3. read' = Ids \cap project.objects /\ children' = project.children
  <2>1. \A g \in Groups : g \in d.objects <=> g \in project.objects
    BY <1>2 DEF Ids
  <2>2. children' = [g \in Groups |-> IF g \in project.objects THEN project.children[g] ELSE {}]
    BY <1>2, <2>1 DEF ReadBack, Reads
  <2> QED
    BY <1>2, <2>2, ReadsProject DEF ReadBack, Reads
<1>4. Removal'
  <2>1. Project(read', children')
    BY <1>3, ReadsProject
  <2>2. /\ step' = "files" /\ objects' = read' /\ arrays' = children'
        /\ removeIds' = {} /\ todo' = {} /\ addedGroup' = FALSE
    BY <1>1 DEF ReadBack, Reads, Method
  <2>3. Project(read, children)' /\ children' \in [Groups -> SUBSET Ids]
    BY <2>1 DEF Project, Forest
  <2>4. TypeOK'
    BY <2>2, <2>3 DEF TypeOK
  <2>5. Visited' /\ Collects' /\ Written'
    BY <2>2 DEF Visited, Collects, Written
  <2> QED
    BY <2>4, <2>5 DEF Removal
<1>5. GoodProject(project)' /\ Progress' /\ Sources' /\ Method'
  BY <1>1, <1>3, <1>4 DEF GoodProject, Progress, Sources, Method, Whole, Removed, Detached, Reduced
<1> QED
  BY <1>1, <1>5

\* The steps of the method are those of GroupRemoval; what it reads stays.
LEMMA RemoveGeneratedStep ==
  ASSUME ExportInv, RemoveGenerated
  PROVE  ExportInv'
<1> USE DEF ExportInv
<1>1. pc = "remove" /\ UNCHANGED <<pc, tree, project, cpp, schemes, archive, stage, glue>>
  BY DEF RemoveGenerated, disk
<1>2. Removal'
  BY <1>1, RemovalStep DEF RemoveGenerated, Method, Next
<1>3. UNCHANGED <<read, children>>
  BY DEF RemoveGenerated, Step, CollectFiles, Visit, EndPass, Remove
<1>4. Method'
  BY <1>1, <1>2, <1>3 DEF Method
<1>5. GoodProject(project)' /\ Progress' /\ Sources'
  BY <1>1 DEF GoodProject, Progress, Sources, Whole, Removed, Detached, Reduced
<1> QED
  BY <1>1, <1>4, <1>5

\* What the method has left when it returns, from either state of a project.
LEMMA MethodLeaves ==
  ASSUME ExportInv, pc = "remove", step = "done"
  PROVE  objects = Ids \ Doomed(tree) /\ arrays = Reduced
<1>1. /\ Removal /\ read = Ids \cap project.objects /\ children = project.children
      /\ objects = read \ removeIds /\ arrays = [g \in Groups |-> children[g] \ removeIds]
      /\ removeIds = read \cap Doomed(children)
  BY AllDoomedCollected DEF ExportInv, Method, Removal, Written
<1>2. \A g \in Groups : children[g] \subseteq read
  BY <1>1 DEF Removal, TypeOK, Project
<1>3. CASE Whole(project)
  <2>1. objects = Ids \ Doomed(tree)
    BY <1>1, <1>3 DEF Whole
  <2>2. \A g \in Groups : children[g] \ removeIds = tree[g] \ Doomed(tree)
    BY <1>1, <1>2, <1>3 DEF Whole
  <2> QED
    BY <1>1, <2>1, <2>2 DEF Reduced
<1>4. CASE Removed(project)
  <2>1. removeIds = {}
    BY <1>1, <1>4, NothingLeft DEF Removed, ExportInv
  <2>2. \A g \in Groups : children[g] \ removeIds = tree[g] \ Doomed(tree)
    BY <1>1, <1>4, <2>1 DEF Removed, Reduced
  <2> QED
    BY <1>1, <1>4, <2>1, <2>2 DEF Removed, Reduced
<1> QED
  BY <1>3, <1>4 DEF ExportInv, GoodProject

LEMMA WriteTextStep ==
  ASSUME ExportInv, WriteText
  PROVE  ExportInv'
<1> USE DEF ExportInv, Beginning, Editing, Ending
<1>1. /\ pc = "remove" /\ step = "done" /\ pc' = "schemes"
      /\ UNCHANGED <<tree, cpp, schemes, archive, stage, glue>>
  BY DEF WriteText
<1> DEFINE d == Detach(project)
           p == [d EXCEPT !.objects = (d.objects \ Ids) \cup objects, !.children = arrays,
                          !.files = Without(d.files), !.dependencies = Without(d.dependencies)]
<1>2. project' = p
  BY DEF WriteText
<1>3. objects = Ids \ Doomed(tree) /\ arrays = Reduced /\ Reduced \in [Groups -> SUBSET Ids]
  BY <1>1, MethodLeaves, ReducedForest DEF Forest
<1>4. /\ d \in Projects
      /\ d.objects \subseteq Ids \cup Targets \cup BuildFiles /\ Targets \cup BuildFiles \subseteq d.objects
      /\ \A t \in Targets : d.dependencies[t] = {}
      /\ d.sources = project.sources /\ d.copies = project.copies /\ d.linked = project.linked
  BY DetachFields, DetachKeepsTree DEF GoodProject, Projects
<1>5. /\ p \in Projects /\ p.objects = (Ids \ Doomed(tree)) \cup Targets \cup BuildFiles
      /\ p.children = Reduced
      /\ \A t \in Targets : p.dependencies[t] = {}
      /\ p.sources = d.sources /\ p.copies = d.copies /\ p.linked = d.linked
  <2>1. (d.objects \ Ids) \cup objects = (Ids \ Doomed(tree)) \cup Targets \cup BuildFiles
    BY <1>3, <1>4, ProjectAssumption
  <2> HIDE DEF d
  <2>2. /\ Without(d.files) \in [Targets -> SUBSET BuildFiles]
        /\ Without(d.dependencies) \in [Targets -> SUBSET Deps]
        /\ \A t \in Targets : Without(d.dependencies)[t] = {}
    BY <1>4 DEF Projects, Without
  <2> QED
    BY <1>3, <1>4, <2>1, <2>2 DEF Projects
<1> HIDE DEF d, p
<1>6. Ids \cap p.objects = Ids \ Doomed(tree)
  BY <1>5, ProjectAssumption
<1>7. Detached(p)
  BY <1>1, <1>4, <1>5 DEF Detached, Progress
<1>8. GoodProject(project)' /\ Removed(project)'
  BY <1>1, <1>2, <1>5, <1>6, <1>7 DEF GoodProject, Removed, Reduced, Detached
<1>9. Progress' /\ Sources'
  BY <1>1, <1>2, <1>4, <1>5, <1>8 DEF Progress, Sources
<1>10. Method'
  BY <1>1 DEF WriteText, Returned, Method
<1> QED
  BY <1>1, <1>8, <1>9, <1>10

LEMMA CleanupStep ==
  ASSUME ExportInv, RemoveFromSchemes \/ DeleteGenerated
  PROVE  ExportInv'
<1> USE DEF ExportInv, Beginning, Editing, Ending, vars
<1>1. /\ pc \in {"schemes", "delete"} /\ pc' \in {"delete", "installed"} /\ schemes' = FALSE
      /\ UNCHANGED <<tree, project, archive, stage, glue, vars>>
  BY DEF RemoveFromSchemes, DeleteGenerated, Progress
<1>2. GoodProject(project)' /\ Progress' /\ Sources' /\ Method'
  BY <1>1 DEF GoodProject, Progress, Sources, Method, Whole, Removed, Detached, Reduced
<1> QED
  BY <1>1, <1>2

LEMMA FailStep ==
  ASSUME ExportInv, Fail
  PROVE  ExportInv'
<1> USE DEF ExportInv, Beginning, Editing, Ending
<1>1. /\ pc \notin {"idle", "installed"} /\ pc' = "idle"
      /\ UNCHANGED <<tree, project, cpp, schemes, archive, stage, glue>>
  BY DEF Fail, disk
<1>2. GoodProject(project)' /\ Progress' /\ Sources'
  BY <1>1 DEF GoodProject, Progress, Sources, Whole, Removed, Detached, Reduced
<1>3. Method'
  BY <1>1 DEF Fail, Returned, Method
<1> QED
  BY <1>1, <1>2, <1>3

LEMMA UnityStep ==
  ASSUME ExportInv, ExportReplacing \/ ExportAppending
  PROVE  ExportInv'
<1> USE DEF ExportInv, Beginning, Editing, Ending, vars
<1>1. pc' = "archive" /\ pc \in {"idle", "installed"} /\ cpp' = TRUE /\ UNCHANGED <<tree, vars>>
  BY DEF ExportReplacing, ExportAppending, Export
<1>2. project' \in {project, Fresh, [Fresh EXCEPT !.copies = project.copies,
                                                 !.sources = project.sources,
                                                 !.linked = TRUE]}
  BY DEF ExportReplacing, ExportAppending
<1>3. GoodProject(project')
  BY <1>2, FreshGood, FreshAgainGood
<1>4. GoodProject(project)'
  BY <1>1, <1>3 DEF GoodProject, Whole, Removed, Detached, Reduced
<1>5. Progress' /\ Sources' /\ Method' /\ (glue \subseteq GlueFiles)'
  BY <1>1 DEF Progress, Sources, Method, ExportReplacing, ExportAppending
<1> QED
  BY <1>1, <1>4, <1>5

LEMMA ExportStep == ExportInv /\ [XcodeNext]_xcodeVars => ExportInv'
<1> SUFFICES ASSUME ExportInv, [XcodeNext]_xcodeVars PROVE ExportInv'
  OBVIOUS
<1>1. CASE UNCHANGED xcodeVars
  <2>1. UNCHANGED <<tree, pc, project, schemes, archive, stage, glue, cpp, vars>>
    BY <1>1 DEF xcodeVars, disk
  <2>2. Forest(tree)' /\ GoodProject(project)' /\ (glue \subseteq GlueFiles)'
    BY <2>1 DEF ExportInv, GoodProject, Whole, Removed, Detached, Reduced
  <2>3. Progress' /\ Sources'
    BY <2>1 DEF ExportInv, Progress, Sources, Removed, Reduced
  <2>4. Method'
    BY <2>1, RemovalStep DEF ExportInv, Method, vars
  <2> QED
    BY <2>2, <2>3, <2>4 DEF ExportInv
<1> QED
  BY <1>1, FilesStep, WriteProjectStep, ReadBackStep, RemoveGeneratedStep, WriteTextStep,
     CleanupStep, FailStep, UnityStep
  DEF XcodeNext, Script, Stopped

-----------------------------------------------------------------------------
(* The Gradle project                                                        *)

\* A line that opens a native block is in the match that begins at it, so that
\* none is left: the one place where the blocks must be closed.
LEMMA StripLeavesNoBlock ==
  ASSUME NEW script \in Scripts
  PROVE  \A i \in DOMAIN Android!Strip(script) : Android!Strip(script)[i] # "native"
<1> DEFINE opening == {i \in DOMAIN script : script[i] = "native"}
           matched == UNION {Android!Match(script, i) : i \in opening}
           left == DOMAIN script \ matched
<1>1. script \in Seq(Android!Lines) /\ DOMAIN script \subseteq Nat
  BY ExportAssumption DEF Android!Constants
<1>2. ASSUME NEW i \in opening
      PROVE  i \in Android!Match(script, i)
  <2>1. \E j \in DOMAIN script : i < j /\ script[j] = "close"
    BY <1>2, ExportAssumption DEF Android!Constants
  <2> QED
    BY <1>1, <2>1 DEF Android!Match
<1>3. Android!Strip(script) = [i \in left |-> script[i]]
  BY DEF Android!Strip, Android!Restrict
<1> HIDE DEF left
<1>4. \A i \in left : script[i] # "native"
  BY <1>2 DEF left
<1> QED
  BY <1>3, <1>4

\* The files that are this export's, step by step: what an earlier run has left
\* of them does not matter.
Installed ==
  /\ pc \in {"mono.zip", "old", "Managed.zip", "installed"} => \A f \in Libs : files[f] = exports
  /\ pc \in {"old", "Managed.zip", "installed"} => files["mono.zip"] = exports
  /\ pc = "installed" => files["Managed.zip"] = exports

\* The script builds the C++ until it is stripped, and the C++ is there as long.
Stripped ==
  /\ pc = "gradle" => cpp /\ gradle \in Scripts
  /\ pc \notin {"idle", "gradle"} \/ ~cpp => \A i \in DOMAIN gradle : gradle[i] # "native"
  /\ pc \notin {"idle", "gradle", "delete"} => ~cpp

GradlePlaces == {"idle", "gradle", "delete", "libs", "mono.zip", "old", "Managed.zip", "installed"}

GradleInv == /\ pc \in GradlePlaces
             /\ DOMAIN files = Android!Installs
             /\ Installed
             /\ Stripped

LEMMA GradleInit == Android!Init => GradleInv
BY DEF Android!Init, GradleInv, GradlePlaces, Installed, Stripped

\* The build script and the C++.
LEMMA StripStep ==
  ASSUME GradleInv, Android!WriteGradle \/ Android!DeleteCpp
  PROVE  GradleInv'
<1>1. CASE Android!WriteGradle
  <2>1. pc = "gradle" /\ pc' = "delete" /\ gradle' = Android!Strip(gradle) /\ UNCHANGED <<cpp, files>>
    BY <1>1 DEF Android!WriteGradle
  <2>2. \A i \in DOMAIN gradle' : gradle'[i] # "native"
    BY <2>1, StripLeavesNoBlock DEF GradleInv, Stripped
  <2> QED
    BY <2>1, <2>2 DEF GradleInv, GradlePlaces, Installed, Stripped
<1>2. CASE Android!DeleteCpp
  BY <1>2 DEF Android!DeleteCpp, GradleInv, GradlePlaces, Installed, Stripped
<1> QED
  BY <1>1, <1>2

LEMMA CopyStep ==
  ASSUME GradleInv,
         \/ Android!CopyLibs \/ Android!CopyMono
         \/ Android!DeleteManaged \/ Android!CreateManaged
  PROVE  GradleInv'
<1>1. /\ UNCHANGED <<gradle, cpp, exports>>
      /\ pc \in {"libs", "mono.zip", "old", "Managed.zip"}
      /\ pc' \in {"libs", "mono.zip", "old", "Managed.zip", "installed"}
  BY DEF Android!CopyLibs, Android!CopyMono, Android!DeleteManaged, Android!CreateManaged
<1>2. Stripped'
  BY <1>1 DEF GradleInv, Stripped
<1>3. \A f \in Libs : f # "mono.zip" /\ f # "Managed.zip" /\ f \in Android!Installs
  BY ExportAssumption DEF Android!Constants, Android!Zips, Android!Installs
<1>4. {"mono.zip", "Managed.zip"} \subseteq Android!Installs
  BY DEF Android!Zips, Android!Installs
<1>5. Installed' /\ (DOMAIN files = Android!Installs)'
  <2>1. CASE Android!CopyLibs
    BY <2>1 DEF Android!CopyLibs, GradleInv, Installed
  <2>2. CASE Android!CopyMono
    BY <1>3, <1>4, <2>2 DEF Android!CopyMono, GradleInv, Installed
  <2>3. CASE Android!DeleteManaged
    BY <1>3, <1>4, <2>3 DEF Android!DeleteManaged, GradleInv, Installed
  <2>4. CASE Android!CreateManaged
    BY <1>3, <1>4, <2>4 DEF Android!CreateManaged, GradleInv, Installed
  <2> QED
    BY <2>1, <2>2, <2>3, <2>4
<1> QED
  BY <1>1, <1>2, <1>5 DEF GradleInv, GradlePlaces

\* A failed run, Unity, or nothing.
LEMMA OtherGradleStep ==
  ASSUME GradleInv,
         Android!Fail \/ Android!Export \/ UNCHANGED <<pc, gradle, cpp, files, exports>>
  PROVE  GradleInv'
<1>1. CASE Android!Fail
  <2>1. pc \notin {"idle", "installed"} /\ pc' = "idle" /\ UNCHANGED <<gradle, cpp>>
    BY <1>1 DEF Android!Fail
  <2>2. (DOMAIN files = Android!Installs)'
    BY <1>1 DEF Android!Fail, GradleInv
  <2> QED
    BY <2>1, <2>2 DEF GradleInv, GradlePlaces, Installed, Stripped
<1>2. CASE Android!Export
  BY <1>2 DEF Android!Export, GradleInv, GradlePlaces, Installed, Stripped
<1>3. CASE UNCHANGED <<pc, gradle, cpp, files, exports>>
  BY <1>3 DEF GradleInv, Installed, Stripped
<1> QED
  BY <1>1, <1>2, <1>3

LEMMA GradleStep == ASSUME GradleInv, Android!Next PROVE GradleInv'
<1>1. CASE Android!Stopped
  BY <1>1, OtherGradleStep DEF Android!Stopped, Android!vars, Android!disk
<1> QED
  BY <1>1, StripStep, CopyStep, OtherGradleStep DEF Android!Next, Android!Script

-----------------------------------------------------------------------------
(* Either platform                                                           *)

\* The inductive invariant: what the script of the platform keeps, and that
\* the Android export leaves the Xcode project as Unity would write it.
EditorInv ==
  /\ platform \in {"iOS", "Android"}
  /\ platform = "iOS" => ExportInv
  /\ platform = "Android" => GradleInv /\ Forest(tree) /\ GoodProject(project) /\ step = "idle"

LEMMA EditorStart == EditorInit => EditorInv
<1> SUFFICES ASSUME EditorInit PROVE EditorInv
  OBVIOUS
<1>1. Forest(tree)
  BY DEF EditorInit, XcodeInit
<1>2. ExportInv /\ GradleInv /\ step = "idle"
  BY ExportInit, GradleInit DEF EditorInit, XcodeInit
<1> QED
  BY <1>1, <1>2 DEF EditorInv, EditorInit, ExportInv

LEMMA EditorStep == EditorInv /\ [EditorNext]_<<platform, android, xcodeVars>> => EditorInv'
<1> SUFFICES ASSUME EditorInv, [EditorNext]_<<platform, android, xcodeVars>> PROVE EditorInv'
  OBVIOUS
<1>1. CASE platform = "iOS" /\ XcodeNext /\ UNCHANGED platform
  BY <1>1, ExportStep DEF EditorInv
<1>2. CASE platform = "Android" /\ Android!Next /\ UNCHANGED <<platform, xcode>>
  <2>1. UNCHANGED <<tree, project, step>>
    BY <1>2 DEF xcode, vars
  <2>2. (Forest(tree) /\ GoodProject(project) /\ step = "idle")'
    BY <1>2, <2>1 DEF EditorInv, GoodProject, Whole, Removed, Detached, Reduced
  <2> QED
    BY <1>2, <2>2, GradleStep DEF EditorInv
<1>3. CASE UNCHANGED <<platform, android, xcodeVars>>
  <2>1. /\ UNCHANGED <<platform, xcodeVars, tree, project, step>>
        /\ UNCHANGED <<pc, gradle, cpp, files, exports>>
    BY <1>3 DEF android, xcodeVars, disk, vars
  <2>2. platform = "iOS" => ExportInv'
    BY <2>1, ExportStep DEF EditorInv
  <2>3. platform = "Android" => (Forest(tree) /\ GoodProject(project) /\ step = "idle")'
    BY <2>1 DEF EditorInv, GoodProject, Whole, Removed, Detached, Reduced
  <2>4. platform = "Android" => GradleInv'
    BY <2>1, OtherGradleStep DEF EditorInv
  <2> QED
    BY <2>1, <2>2, <2>3, <2>4 DEF EditorInv
<1> QED
  BY <1>1, <1>2, <1>3 DEF EditorNext

LEMMA EditorInvariant == EditorSpec => []EditorInv
BY EditorStart, EditorStep, PTL DEF EditorSpec

\* A run of either script that ends has installed all of Mono, once, whatever
\* failed runs have left in the project.
THEOREM InstallsWhole == EditorSpec => []ExportInstalls
<1>1. ExportInv => InstalledWhole
  BY DEF ExportInv, Progress, InstalledWhole, Ending
<1>2. GradleInv => Android!InstalledWhole
  <2> SUFFICES ASSUME GradleInv, pc = "installed"
               PROVE  ~Android!BuildsNative /\ ~cpp /\ \A f \in Android!Installs : files[f] = exports
    BY DEF Android!InstalledWhole
  <2>1. ~Android!BuildsNative /\ ~cpp
    BY DEF GradleInv, Stripped, Android!BuildsNative, Android!Range
  <2> QED
    BY <2>1 DEF GradleInv, Installed, Android!Installs, Android!Zips
<1>3. EditorInv => ExportInstalls
  BY <1>1, <1>2 DEF EditorInv, ExportInstalls
<1> QED
  BY <1>3, EditorInvariant, PTL

\* The generated C++ outlives every Xcode project and every Gradle script on
\* disk that names it.
THEOREM SourcesAreKept == EditorSpec => []SourcesOutlive
<1>1. ExportInv => SourcesOutliveReferences
  BY TreeAssumption DEF ExportInv, Sources, Removed, SourcesOutliveReferences, Doomed, Ids
<1>2. GradleInv => Android!SourcesOutliveScript
  BY DEF GradleInv, Stripped, Android!SourcesOutliveScript, Android!BuildsNative, Android!Range
<1>3. EditorInv => SourcesOutlive
  BY <1>1, <1>2 DEF EditorInv, SourcesOutlive
<1> QED
  BY <1>3, EditorInvariant, PTL

\* The arrays of the Xcode project on disk name objects of that project, failed
\* runs included, and the build files that have lost their source are those of
\* the generated C++ in a target that nothing needs any more.
THEOREM ProjectStaysClosed == EditorSpec => []ProjectClosed
<1>1. ASSUME Forest(tree), GoodProject(project)
      PROVE  ProjectClosed
  <2>1. Project(Ids \cap project.objects, project.children)
    BY <1>1, ReadsProject
  <2>2. ASSUME NEW t \in Targets, NEW f \in Compiles[t], f \notin project.objects
        PROVE  t = GameAssembly /\ f \in Generated /\ Detached(project)
    <3>1. f \in Files /\ f \in Ids /\ f \notin Groups
      BY ProjectAssumption, TreeAssumption DEF Ids
    <3>2. Removed(project) /\ Detached(project)
      BY <1>1, <2>2, <3>1 DEF GoodProject, Whole
    <3>3. f \in Generated
      BY <2>2, <3>1, <3>2 DEF Removed, Doomed
    <3> QED
      BY <3>2, <3>3, ProjectAssumption
  <2>3. \A t \in Targets : project.files[t] \subseteq project.objects
    BY <1>1 DEF GoodProject, Projects
  <2>4. /\ \A g \in Groups \cap project.objects : project.children[g] \subseteq project.objects
        /\ \A t \in Targets : project.dependencies[t] \cup project.files[t] \subseteq project.objects
    BY <1>1, <2>1, <2>3 DEF Project, GoodProject
  <2> QED
    BY <2>2, <2>4 DEF ProjectClosed, Detached
<1>2. EditorInv => ProjectClosed
  BY <1>1 DEF EditorInv, ExportInv
<1> QED
  BY <1>2, EditorInvariant, PTL

\* The removal is exact within the script too, where the project it reads is
\* the one on disk, edited before or not.
THEOREM ScriptRemovesExactly == EditorSpec => []RemovesExactly
<1>1. ExportInv /\ step = "done" => Removal
  BY DEF ExportInv, Method
<1>2. EditorInv => RemovesExactly
  BY <1>1, AllDoomedCollected DEF EditorInv, RemovesExactly, Removal, Written
<1> QED
  BY <1>2, EditorInvariant, PTL

-----------------------------------------------------------------------------
(* Runs of the script come to an end                                         *)

\* The groups that are in the project and not collected.
Undecided == (Groups \cap read) \ removeIds

\* The visits the removal has ahead of it at most: a pass that collects a group
\* is followed by another one, and a group is collected once.
PassLength == Cardinality(Groups) + 2
LongestRemoval == Cardinality(Groups) * PassLength + 2 * Cardinality(Groups) + 4

RemovalRest ==
  CASE step = "files"  -> LongestRemoval
    [] step = "groups" -> Cardinality(Undecided) * PassLength + Cardinality(todo) + 2
                            + (IF addedGroup THEN Cardinality(Groups) + 1 ELSE 0)
    [] step = "remove" -> 1
    [] OTHER           -> 0

\* The same of the whole script: glue files and libraries are copied one by one.
Uncopied == {f \in Libs : files[f] # exports}

XcodeRest ==
  CASE pc = "archive"     -> 12 + LongestRemoval
    [] pc = "recreate"    -> 11 + LongestRemoval
    [] pc = "mono.zip"    -> 10 + LongestRemoval
    [] pc = "Managed.zip" -> 9 + LongestRemoval
    [] pc = "glue"        -> 6 + LongestRemoval + Cardinality(GlueFiles \ glue)
    [] pc = "edit"        -> 5 + LongestRemoval
    [] pc = "detach"      -> 4 + LongestRemoval
    [] pc = "remove"      -> 3 + RemovalRest
    [] pc = "schemes"     -> 2
    [] pc = "delete"      -> 1
    [] OTHER              -> 0

GradleRest ==
  CASE pc = "gradle"      -> 6 + Cardinality(Libs)
    [] pc = "delete"      -> 5 + Cardinality(Libs)
    [] pc = "libs"        -> 4 + Cardinality(Uncopied)
    [] pc = "mono.zip"    -> 3
    [] pc = "old"         -> 2
    [] pc = "Managed.zip" -> 1
    [] OTHER              -> 0

ScriptRest == IF platform = "iOS" THEN XcodeRest ELSE GradleRest
LongestScript == IF platform = "iOS" THEN 12 + LongestRemoval ELSE 6 + Cardinality(Libs)

LEMMA ProductGrows ==
  ASSUME NEW a \in Nat, NEW b \in Nat, NEW m \in Nat, a <= b
  PROVE  a * m \in Nat /\ a * m <= b * m /\ (a + 1) * m = a * m + m
OBVIOUS

LEMMA SomeGroups ==
  ASSUME NEW S \in SUBSET Groups
  PROVE  /\ Cardinality(Groups) \in Nat
         /\ IsFiniteSet(S) /\ Cardinality(S) \in 0 .. Cardinality(Groups)
<1>1. IsFiniteSet(Groups) /\ Cardinality(Groups) \in Nat
  BY TreeAssumption, FS_CardinalityType
<1>2. IsFiniteSet(S) /\ Cardinality(S) <= Cardinality(Groups)
  BY <1>1, FS_Subset
<1> QED
  BY <1>1, <1>2, FS_CardinalityType

LEMMA GroupNumbers ==
  ASSUME Removal
  PROVE  /\ Cardinality(Groups) \in Nat /\ PassLength = Cardinality(Groups) + 2
         /\ IsFiniteSet(Undecided) /\ Cardinality(Undecided) \in 0 .. Cardinality(Groups)
         /\ IsFiniteSet(todo) /\ Cardinality(todo) \in 0 .. Cardinality(Groups)
<1>1. Undecided \in SUBSET Groups /\ todo \in SUBSET Groups
  BY DEF Undecided, Removal, TypeOK
<1> QED
  BY <1>1, SomeGroups DEF PassLength

LEMMA RemovalBounds ==
  ASSUME Removal
  PROVE  LongestRemoval \in Nat /\ RemovalRest \in 0 .. LongestRemoval
<1>1. PICK n \in Nat, u \in Nat, w \in Nat :
        n = Cardinality(Groups) /\ u <= n /\ w <= n /\ u = Cardinality(Undecided) /\ w = Cardinality(todo)
  BY GroupNumbers
<1>2. PICK most \in Nat, now \in Nat :
        most = n * PassLength /\ now = u * PassLength /\ now <= most
  BY <1>1, GroupNumbers, ProductGrows
<1>3. LongestRemoval = most + 2 * n + 4
  BY <1>1, <1>2 DEF LongestRemoval
<1>4. step = "groups" => RemovalRest = now + w + 2 + (IF addedGroup THEN n + 1 ELSE 0)
  BY <1>1, <1>2 DEF RemovalRest
<1> HIDE DEF LongestRemoval
<1> QED
  BY <1>1, <1>2, <1>3, <1>4 DEF RemovalRest

\* The visit of a group.
LEMMA VisitAdvances ==
  ASSUME Removal, Removal', NEW g \in Groups, Visit(g)
  PROVE  RemovalRest' < RemovalRest
<1>1. /\ step = "groups" /\ step' = "groups" /\ g \in todo /\ todo' = todo \ {g}
      /\ UNCHANGED read
  BY DEF Visit
<1>2. PICK n \in Nat, u \in Nat, w \in Nat, v \in Nat, x \in Nat :
        /\ n = Cardinality(Groups) /\ u <= n /\ v <= n /\ w <= n /\ x <= n
        /\ u = Cardinality(Undecided) /\ v = Cardinality(Undecided')
        /\ w = Cardinality(todo) /\ x = Cardinality(todo')
  <2>1. Undecided' \in SUBSET Groups /\ todo' \in SUBSET Groups
    BY DEF Undecided, Removal, TypeOK
  <2>2. /\ Cardinality(Undecided') \in 0 .. Cardinality(Groups)
        /\ Cardinality(todo') \in 0 .. Cardinality(Groups)
    BY <2>1, SomeGroups
  <2> QED
    BY <2>2, GroupNumbers
<1>3. x = w - 1
  BY <1>1, <1>2, GroupNumbers, FS_RemoveElement
<1>4. PICK now \in Nat, then \in Nat : now = u * PassLength /\ then = v * PassLength
  BY <1>2, GroupNumbers, ProductGrows
<1>5. /\ RemovalRest = now + w + 2 + (IF addedGroup THEN n + 1 ELSE 0)
      /\ RemovalRest' = then + x + 2 + (IF addedGroup' THEN n + 1 ELSE 0)
  BY <1>1, <1>2, <1>4 DEF RemovalRest, PassLength
<1>6. CASE Emptied(g)
  <2>1. removeIds' = removeIds \cup {g} /\ g \notin removeIds /\ g \in read /\ addedGroup'
    BY <1>6 DEF Visit, Emptied, Removal, TypeOK
  <2>2. Undecided' = Undecided \ {g} /\ g \in Undecided
    BY <1>1, <2>1 DEF Undecided
  <2>3. v = u - 1
    BY <1>2, <2>2, GroupNumbers, FS_RemoveElement
  <2>4. now = then + (n + 2)
    <3>1. (v + 1) * PassLength = v * PassLength + PassLength
      BY <1>2, GroupNumbers, ProductGrows
    <3> QED
      BY <1>2, <1>4, <2>3, <3>1, GroupNumbers
  <2> QED
    BY <1>2, <1>3, <1>4, <1>5, <2>1, <2>4
<1>7. CASE ~Emptied(g)
  <2>1. UNCHANGED <<removeIds, addedGroup>>
    BY <1>7 DEF Visit
  <2>2. then = now
    BY <1>1, <1>2, <1>4, <2>1 DEF Undecided
  <2> QED
    BY <1>2, <1>3, <1>4, <1>5, <2>1, <2>2
<1> QED
  BY <1>6, <1>7

LEMMA PassAdvances ==
  ASSUME Removal, Removal', CollectFiles \/ EndPass \/ Remove
  PROVE  RemovalRest' < RemovalRest
<1>1. PICK n \in Nat, u \in Nat, v \in Nat, w \in Nat, x \in Nat :
        /\ n = Cardinality(Groups) /\ u <= n /\ v <= n /\ w <= n /\ x <= n
        /\ u = Cardinality(Undecided) /\ v = Cardinality(Undecided')
        /\ w = Cardinality(todo) /\ x = Cardinality(todo')
  <2>1. Undecided' \in SUBSET Groups /\ todo' \in SUBSET Groups
    BY DEF Undecided, Removal, TypeOK
  <2>2. /\ Cardinality(Undecided') \in 0 .. Cardinality(Groups)
        /\ Cardinality(todo') \in 0 .. Cardinality(Groups)
    BY <2>1, SomeGroups
  <2> QED
    BY <2>2, GroupNumbers
<1>2. PICK most \in Nat, now \in Nat, then \in Nat :
        /\ most = n * PassLength /\ now = u * PassLength /\ then = v * PassLength
        /\ then <= most
  BY <1>1, GroupNumbers, ProductGrows
<1>3. /\ step = "groups" => RemovalRest = now + w + 2 + (IF addedGroup THEN n + 1 ELSE 0)
      /\ step' = "groups" => RemovalRest' = then + x + 2 + (IF addedGroup' THEN n + 1 ELSE 0)
      /\ step = "files" => RemovalRest = most + 2 * n + 4
  BY <1>1, <1>2 DEF RemovalRest, LongestRemoval, PassLength
<1>4. CASE CollectFiles
  <2>1. step = "files" /\ step' = "groups" /\ ~addedGroup'
    BY <1>4 DEF CollectFiles, BeginPass
  <2> QED
    BY <1>1, <1>2, <1>3, <2>1
<1>5. CASE EndPass /\ addedGroup
  <2>1. step = "groups" /\ step' = "groups" /\ ~addedGroup' /\ UNCHANGED <<read, removeIds>>
    BY <1>5 DEF EndPass, BeginPass
  <2>2. then = now
    BY <1>1, <1>2, <2>1 DEF Undecided
  <2> QED
    BY <1>1, <1>2, <1>3, <1>5, <2>1, <2>2
<1>6. CASE EndPass /\ ~addedGroup
  <2>1. step = "groups" /\ step' = "remove"
    BY <1>6 DEF EndPass
  <2>2. RemovalRest' = 1
    BY <2>1 DEF RemovalRest
  <2> QED
    BY <1>1, <1>2, <1>3, <1>6, <2>1, <2>2
<1>7. CASE Remove
  <2>1. RemovalRest = 1 /\ RemovalRest' = 0
    BY <1>7 DEF Remove, RemovalRest
  <2> QED
    BY <2>1
<1> QED
  BY <1>4, <1>5, <1>6, <1>7

LEMMA RemovalAdvances ==
  ASSUME Removal, Removal', Step
  PROVE  RemovalRest' < RemovalRest
BY VisitAdvances, PassAdvances DEF Step

\* RemoveGeneratedCppProjectReferences comes to an end: its passes over the
\* groups are bounded by the number of groups, whatever their order.
THEOREM RemovalIsBounded ==
  Spec => [](RemovalRest \in 0 .. LongestRemoval) /\ [][Step => RemovalRest' < RemovalRest]_vars
<1>1. Removal => RemovalRest \in 0 .. LongestRemoval
  BY RemovalBounds
<1>2. Removal /\ Removal' /\ [Next]_vars => [Step => RemovalRest' < RemovalRest]_vars
  BY RemovalAdvances
<1> QED
  BY <1>1, <1>2, RemovalInvariant, PTL DEF Spec
\* The copies of glue files and of libraries.
LEMMA CopyNumbers ==
  /\ \A S \in SUBSET GlueFiles : /\ IsFiniteSet(S) /\ Cardinality(S) \in 0 .. 2
  /\ \A S \in SUBSET Libs : /\ IsFiniteSet(S)
                             /\ Cardinality(S) \in 0 .. Cardinality(Libs)
  /\ Cardinality(Libs) \in Nat
<1>1. ASSUME NEW T, IsFiniteSet(T), NEW S \in SUBSET T
      PROVE  IsFiniteSet(S) /\ Cardinality(T) \in Nat /\ Cardinality(S) \in 0 .. Cardinality(T)
  BY <1>1, FS_Subset, FS_CardinalityType
<1>2. IsFiniteSet(GlueFiles) /\ Cardinality(GlueFiles) = 2
  <2> DEFINE one == "UnityClassRegistration.cpp"
             two == "UnityICallRegistration.cpp"
  <2>1. IsFiniteSet({one}) /\ Cardinality({one}) = 1
    BY FS_Singleton
  <2>2. IsFiniteSet({one} \cup {two}) /\ Cardinality({one} \cup {two}) = 2
    BY <2>1, FS_AddElement
  <2>3. GlueFiles = {one} \cup {two}
    BY DEF GlueFiles
  <2> QED
    BY <2>2, <2>3
<1>3. IsFiniteSet(Libs)
  BY ExportAssumption DEF Android!Constants, Android!IsFiniteSet, IsFiniteSet
<1>4. ASSUME NEW S \in SUBSET GlueFiles
      PROVE  IsFiniteSet(S) /\ Cardinality(S) \in 0 .. 2
  BY <1>1, <1>2, <1>4
<1>5. ASSUME NEW S \in SUBSET Libs
      PROVE  IsFiniteSet(S) /\ Cardinality(S) \in 0 .. Cardinality(Libs)
  BY <1>1, <1>3, <1>5
<1>6. Cardinality(Libs) \in Nat
  BY <1>1, <1>3
<1> QED
  BY <1>4, <1>5, <1>6

LEMMA LongestIsNumber == LongestRemoval \in Nat
<1>1. PICK n \in Nat : n = Cardinality(Groups)
  BY TreeAssumption, FS_CardinalityType
<1>2. n * (n + 2) \in Nat
  BY ProductGrows
<1> QED
  BY <1>1, <1>2 DEF LongestRemoval, PassLength

LEMMA ScriptBounds ==
  ASSUME EditorInv
  PROVE  ScriptRest \in 0 .. LongestScript
<1>1. CASE platform = "iOS"
  <2>1. Cardinality(GlueFiles \ glue) \in 0 .. 2
    BY CopyNumbers
  <2>2. pc = "remove" => RemovalRest \in 0 .. LongestRemoval
    BY <1>1, RemovalBounds DEF EditorInv, ExportInv, Method
  <2>3. XcodeRest \in 0 .. 12 + LongestRemoval
    BY <2>1, <2>2, LongestIsNumber DEF XcodeRest
  <2> QED
    BY <1>1, <2>3 DEF ScriptRest, LongestScript
<1>2. CASE platform # "iOS"
  <2>1. Cardinality(Uncopied) \in 0 .. Cardinality(Libs) /\ Cardinality(Libs) \in Nat
    BY CopyNumbers DEF Uncopied
  <2>2. GradleRest \in 0 .. 6 + Cardinality(Libs)
    BY <2>1 DEF GradleRest
  <2> QED
    BY <1>2, <2>2 DEF ScriptRest, LongestScript
<1> QED
  BY <1>1, <1>2

Runs == pc \notin {"idle", "installed"}

LEMMA XcodeAdvances ==
  ASSUME ExportInv, ExportInv', Runs, XcodeNext
  PROVE  XcodeRest' < XcodeRest
<1> USE LongestIsNumber DEF Runs
<1>1. CASE CopyArchive \/ RecreateDirectory
  BY <1>1 DEF CopyArchive, RecreateDirectory, XcodeRest
<1>2. CASE Stage("mono.zip", "Managed.zip")
  BY <1>2 DEF Stage, XcodeRest
<1>3. CASE Stage("Managed.zip", "glue")
  <2>1. /\ pc = "Managed.zip" /\ pc' = "glue" /\ Cardinality(GlueFiles \ glue') \in 0 .. 2
    BY <1>3, CopyNumbers DEF Stage
  <2>2. /\ XcodeRest = 9 + LongestRemoval
        /\ XcodeRest' = 6 + LongestRemoval + Cardinality(GlueFiles \ glue')
    BY <2>1 DEF XcodeRest, LongestRemoval, PassLength
  <2> QED
    BY <2>1, <2>2
<1>4. CASE CopyGlue
  <2>1. pc = "glue" /\ Cardinality(GlueFiles \ glue) \in 0 .. 2
    BY <1>4, CopyNumbers DEF CopyGlue
  <2>2. XcodeRest = 6 + LongestRemoval + Cardinality(GlueFiles \ glue)
    BY <2>1 DEF XcodeRest
  <2>3. CASE pc' = "glue"
    <3>1. PICK f \in GlueFiles \ glue : glue' = glue \cup {f}
      BY <1>4, <2>3 DEF CopyGlue
    <3>2. PICK S \in SUBSET GlueFiles : S = GlueFiles \ glue
      OBVIOUS
    <3>3. GlueFiles \ glue' = S \ {f} /\ f \in S
      BY <3>1, <3>2
    <3>4. Cardinality(S \ {f}) = Cardinality(S) - 1
      BY <3>2, <3>3, CopyNumbers, FS_RemoveElement
    <3>5. XcodeRest' = 6 + LongestRemoval + Cardinality(GlueFiles \ glue')
      BY <2>3 DEF XcodeRest, LongestRemoval, PassLength
    <3> QED
      BY <2>1, <2>2, <3>2, <3>3, <3>4, <3>5
  <2>4. CASE pc' # "glue"
    <3>1. pc' \in {"edit", "idle"}
      BY <1>4, <2>1, <2>4 DEF CopyGlue
    <3>2. XcodeRest' <= 5 + LongestRemoval /\ XcodeRest' \in Nat
      BY <3>1 DEF XcodeRest, LongestRemoval, PassLength
    <3> QED
      BY <2>1, <2>2, <3>2
  <2> QED
    BY <2>3, <2>4
<1>5. CASE WriteProject
  BY <1>5 DEF WriteProject, XcodeRest
<1>6. CASE ReadBack
  <2>1. pc = "detach" /\ pc' = "remove" /\ step' = "files"
    BY <1>6 DEF ReadBack, Reads
  <2>2. XcodeRest = 4 + LongestRemoval /\ XcodeRest' = 3 + LongestRemoval
    BY <2>1 DEF XcodeRest, RemovalRest, LongestRemoval, PassLength
  <2> QED
    BY <2>2
<1>7. CASE RemoveGenerated
  <2>1. pc = "remove" /\ pc' = "remove" /\ Step /\ Removal /\ Removal'
    BY <1>7 DEF RemoveGenerated, ExportInv, Method
  <2>2. RemovalRest' < RemovalRest
    BY <2>1, RemovalAdvances
  <2>3. RemovalRest \in Nat
    BY <2>1, RemovalBounds
  <2>4. RemovalRest' \in Int
    <3>1. (LongestRemoval \in Nat /\ RemovalRest \in 0 .. LongestRemoval)'
      BY <2>1, RemovalBounds, PTL
    <3> QED
      BY <3>1
  <2> QED
    BY <2>1, <2>2, <2>3, <2>4 DEF XcodeRest
<1>8. CASE WriteText
  <2>1. pc = "remove" /\ step = "done" /\ pc' = "schemes"
    BY <1>8 DEF WriteText
  <2> QED
    BY <2>1 DEF XcodeRest, RemovalRest
<1>9. CASE RemoveFromSchemes \/ DeleteGenerated
  BY <1>9 DEF RemoveFromSchemes, DeleteGenerated, XcodeRest
<1>10. CASE Fail
  <2>1. XcodeRest' = 0
    BY <1>10 DEF Fail, XcodeRest
  <2>2. pc # "remove" => XcodeRest > 0
    <3>1. pc \in {"idle"} \cup Beginning \cup Editing \cup Ending
      BY DEF ExportInv, Progress
    <3>2. Cardinality(GlueFiles \ glue) \in 0 .. 2
      BY CopyNumbers
    <3> QED
      BY <3>1, <3>2 DEF XcodeRest, Beginning, Editing, Ending
  <2>3. pc = "remove" => XcodeRest > 0
    BY RemovalBounds DEF XcodeRest, ExportInv, Method
  <2> QED
    BY <2>1, <2>2, <2>3
<1>11. ~(ExportReplacing \/ ExportAppending \/ Stopped)
  BY DEF ExportReplacing, ExportAppending, Export, Stopped
<1> QED
  BY <1>1, <1>2, <1>3, <1>4, <1>5, <1>6, <1>7, <1>8, <1>9, <1>10, <1>11
  DEF XcodeNext, Script
LEMMA GradleAdvances ==
  ASSUME GradleInv, Runs, Android!Next
  PROVE  GradleRest' < GradleRest
<1> USE DEF Runs
<1>1. CASE Android!WriteGradle
  BY <1>1, CopyNumbers DEF Android!WriteGradle, GradleRest
<1>2. CASE Android!DeleteCpp
  <2>1. pc = "delete" /\ pc' = "libs"
    BY <1>2 DEF Android!DeleteCpp
  <2>2. Cardinality(Uncopied') <= Cardinality(Libs) /\ Cardinality(Uncopied') \in Nat
    BY CopyNumbers DEF Uncopied
  <2> QED
    BY <2>1, <2>2, CopyNumbers DEF GradleRest
<1>3. CASE Android!CopyLibs
  <2>1. pc = "libs" /\ Uncopied \in SUBSET Libs
    BY <1>3 DEF Android!CopyLibs, Uncopied
  <2>2. GradleRest = 4 + Cardinality(Uncopied) /\ Cardinality(Uncopied) \in Nat
    BY <2>1, CopyNumbers DEF GradleRest
  <2>3. CASE pc' = "libs"
    <3>1. PICK f \in Libs : /\ files[f] # exports
                            /\ files' = [files EXCEPT ![f] = exports] /\ UNCHANGED exports
      BY <1>3, <2>3 DEF Android!CopyLibs
    <3>2. Libs \subseteq DOMAIN files
      BY DEF GradleInv, Android!Installs
    <3>3. Uncopied' = Uncopied \ {f} /\ f \in Uncopied
      BY <3>1, <3>2 DEF Uncopied
    <3>4. Cardinality(Uncopied \ {f}) = Cardinality(Uncopied) - 1
      BY <2>1, <3>3, CopyNumbers, FS_RemoveElement
    <3>5. GradleRest' = 4 + Cardinality(Uncopied')
      BY <2>3 DEF GradleRest
    <3> QED
      BY <2>2, <3>3, <3>4, <3>5
  <2>4. CASE pc' # "libs"
    <3>1. pc' = "mono.zip"
      BY <1>3, <2>1, <2>4 DEF Android!CopyLibs
    <3> QED
      BY <2>2, <3>1 DEF GradleRest
  <2> QED
    BY <2>3, <2>4
<1>4. CASE Android!CopyMono \/ Android!DeleteManaged \/ Android!CreateManaged
  BY <1>4 DEF Android!CopyMono, Android!DeleteManaged, Android!CreateManaged, GradleRest
<1>5. CASE Android!Fail
  <2>1. GradleRest' = 0
    BY <1>5 DEF Android!Fail, GradleRest
  <2>2. GradleRest > 0
    <3>1. Cardinality(Uncopied) \in Nat /\ Cardinality(Libs) \in Nat
      BY CopyNumbers DEF Uncopied
    <3>2. pc \in {"gradle", "delete", "libs", "mono.zip", "old", "Managed.zip"}
      BY DEF GradleInv, GradlePlaces
    <3> QED
      BY <3>1, <3>2 DEF GradleRest
  <2> QED
    BY <2>1, <2>2
<1>6. ~(Android!Export \/ Android!Stopped)
  BY DEF Android!Export, Android!Stopped
<1> QED
  BY <1>1, <1>2, <1>3, <1>4, <1>5, <1>6 DEF Android!Next, Android!Script

LEMMA ScriptAdvances ==
  ASSUME EditorInv, EditorInv', Runs, EditorNext
  PROVE  ScriptRest' < ScriptRest
<1>1. platform' = platform
  BY DEF EditorNext
<1>2. CASE platform = "iOS" /\ XcodeNext
  BY <1>1, <1>2, XcodeAdvances DEF EditorInv, ScriptRest
<1>3. CASE platform = "Android" /\ Android!Next
  BY <1>1, <1>3, GradleAdvances DEF EditorInv, ScriptRest
<1> QED
  BY <1>2, <1>3 DEF EditorNext

\* A run of the script on either platform ends after a bounded number of steps,
\* failures included: nothing happens in it that does not bring it nearer to
\* its end.
THEOREM ScriptIsBounded ==
  EditorSpec => /\ [](ScriptRest \in 0 .. LongestScript)
                /\ [][Runs => ScriptRest' < ScriptRest]_<<platform, android, xcodeVars>>
<1>1. EditorInv => ScriptRest \in 0 .. LongestScript
  BY ScriptBounds
<1>2. EditorInv /\ EditorInv' /\ [EditorNext]_<<platform, android, xcodeVars>>
        => [Runs => ScriptRest' < ScriptRest]_<<platform, android, xcodeVars>>
  BY ScriptAdvances
<1> QED
  BY <1>1, <1>2, EditorInvariant, PTL DEF EditorSpec
=============================================================================
