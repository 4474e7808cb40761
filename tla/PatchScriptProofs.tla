------------------------- MODULE PatchScriptProofs --------------------------
(***************************************************************************)
(* What IOS.py reports of a checkout is so, and a run that refuses has not *)
(* changed it, for every set of files, any number of edits and of runs.    *)
(*                                                                         *)
(* The invariant follows a pass over the files: those it has read, unless  *)
(* somebody has edited them since, are as the pass wanted them.  Nothing   *)
(* is said of those that were edited, which is why a second look at the    *)
(* checkout may find what the first did not.                               *)
(***************************************************************************)
EXTENDS PatchScript, FiniteSetTheorems, TLAPS

\* What the pass under way has found, or made, of the files behind it.
PassDone ==
  /\ pc \in Reads => \A f \in Files \ (todo \cup touched) : file[f] = Wanted
  /\ pc = "write" => \A f \in Files \ (todo \cup touched) : file[f] = "patched"

\* Only a run that has not said anything is under way, and --check only reads.
Quiet ==
  /\ pc # "idle" => result = "none"
  /\ check => pc \notin {"apply", "remove", "write"}

\* Up to the end of git apply's own check nothing has been written.
Unwritten ==
  (pc \in Reads \/ result \in {"refused", "rejected", "already", "ready"} \/ check) =>
    \A f \in Files \ touched : file[f] = before[f]

PatchInv == TypeOK /\ PassDone /\ Quiet /\ Unwritten /\ ReportsTrue

-----------------------------------------------------------------------------
LEMMA PatchInit == Init => PatchInv
<1> SUFFICES ASSUME Init PROVE PatchInv
  OBVIOUS
<1>1. TypeOK
  <2>1. {file, before} \subseteq [Files -> Contents]
    BY DEF Init
  <2>2. edits \in 0 .. MaxEdits /\ runs \in 0 .. MaxRuns
    BY PatchAssumption DEF Init
  <2>3. pc = "idle" /\ check = FALSE /\ todo = {} /\ result = "none" /\ touched = {}
    BY DEF Init
  <2> QED
    BY <2>1, <2>2, <2>3 DEF TypeOK, Results
<1>2. PassDone /\ Quiet /\ Unwritten /\ ReportsTrue
  BY DEF Init, PassDone, Quiet, Unwritten, ReportsTrue, Reads
<1> QED
  BY <1>1, <1>2 DEF PatchInv

\* Every step keeps the types.
LEMMA PatchTypes ==
  ASSUME TypeOK, [Next]_vars
  PROVE  TypeOK'
<1> USE PatchAssumption
    DEF TypeOK, Contents, Results, Reads, Passes, Only, Pass, End
<1>1. CASE Start
  BY <1>1 DEF Start
<1>2. ASSUME NEW f \in Files, Read(f) \/ Reject(f) \/ Remove(f) \/ Write(f)
      PROVE  TypeOK'
  BY <1>2 DEF Read, Reject, Remove, Write
<1>3. CASE Checked \/ Written \/ DiskFails \/ Kill
  BY <1>3 DEF Checked, Written, DiskFails, Kill
<1>4. ASSUME NEW f \in Files, NEW c \in Contents, Edit(f, c)
      PROVE  TypeOK'
  BY <1>4 DEF Edit
<1>5. CASE UNCHANGED vars
  BY <1>5 DEF vars
<1> QED
  BY <1>1, <1>2, <1>3, <1>4, <1>5 DEF Next, Script, Stopped

\* A step of a pass, on one file.
LEMMA FileStep ==
  ASSUME PatchInv, NEW f \in Files, Read(f) \/ Reject(f) \/ Remove(f) \/ Write(f)
  PROVE  PassDone' /\ Quiet' /\ Unwritten' /\ ReportsTrue'
<1> USE DEF PatchInv, TypeOK, PassDone, Quiet, Unwritten, ReportsTrue, Reads, Passes, Only
<1>1. CASE Read(f)
  BY <1>1 DEF Read, Wanted, All
<1>2. CASE Reject(f)
  BY <1>2 DEF Reject, Pass, End, Wanted, All
<1>3. CASE Remove(f)
  BY <1>3 DEF Remove, All
<1>4. CASE Write(f)
  BY <1>4 DEF Write, All
<1> QED
  BY <1>1, <1>2, <1>3, <1>4

\* The end of a pass, good or bad.
LEMMA PassStep ==
  ASSUME PatchInv, Checked \/ Written \/ DiskFails \/ Kill
  PROVE  PassDone' /\ Quiet' /\ Unwritten' /\ ReportsTrue'
<1> USE DEF PatchInv, TypeOK, PassDone, Quiet, Unwritten, ReportsTrue, Reads, Passes, Only,
            Pass, End, All
<1>1. CASE Checked
  BY <1>1 DEF Checked, Wanted
<1>2. CASE Written
  BY <1>2 DEF Written
<1>3. CASE DiskFails
  BY <1>3 DEF DiskFails
<1>4. CASE Kill
  BY <1>4 DEF Kill
<1> QED
  BY <1>1, <1>2, <1>3, <1>4

LEMMA PatchStep == PatchInv /\ [Next]_vars => PatchInv'
<1> SUFFICES ASSUME PatchInv, [Next]_vars PROVE PatchInv'
  OBVIOUS
<1>1. TypeOK'
  BY PatchTypes DEF PatchInv
<1>2. CASE Start
  <2>1. PassDone' /\ Quiet' /\ Unwritten' /\ ReportsTrue'
    BY <1>2 DEF Start, PatchInv, TypeOK, PassDone, Quiet, Unwritten, ReportsTrue, Reads, Passes, All
  <2> QED
    BY <1>1, <2>1 DEF PatchInv
<1>3. ASSUME NEW f \in Files, Read(f) \/ Reject(f) \/ Remove(f) \/ Write(f)
      PROVE  PatchInv'
  BY <1>1, <1>3, FileStep DEF PatchInv
<1>4. CASE Checked \/ Written \/ DiskFails \/ Kill
  BY <1>1, <1>4, PassStep DEF PatchInv
<1>5. ASSUME NEW f \in Files, NEW c \in Contents, Edit(f, c)
      PROVE  PatchInv'
  <2>1. PassDone' /\ Quiet' /\ Unwritten' /\ ReportsTrue'
    BY <1>5 DEF Edit, PatchInv, TypeOK, PassDone, Quiet, Unwritten, ReportsTrue, Wanted, All
  <2> QED
    BY <1>1, <2>1 DEF PatchInv
<1>6. CASE UNCHANGED vars
  <2>1. PassDone' /\ Quiet' /\ Unwritten' /\ ReportsTrue'
    BY <1>6 DEF vars, PatchInv, PassDone, Quiet, Unwritten, ReportsTrue, Wanted, All
  <2> QED
    BY <1>1, <2>1 DEF PatchInv
<1> QED
  BY <1>2, <1>3, <1>4, <1>5, <1>6 DEF Next, Script, Stopped

LEMMA PatchInvariant == Spec => []PatchInv
BY PatchInit, PatchStep, PTL DEF Spec

\* What the script says of the checkout is so, but for files edited since it
\* began.
THEOREM ReportIsTrue == Spec => []ReportsTrue
BY PatchInvariant, PTL DEF PatchInv

\* When it says that it has changed nothing, or was only asked to check, it has
\* changed nothing.
THEOREM RefusalChangesNothing == Spec => []RefusedChangesNothing
<1>1. PatchInv => RefusedChangesNothing
  BY DEF PatchInv, Unwritten, RefusedChangesNothing
<1> QED
  BY <1>1, PatchInvariant, PTL

-----------------------------------------------------------------------------
(* A run comes to an end                                                    *)

\* The passes that may follow the one under way, of every file each.
Following == CASE pc = "forward" -> 3
               [] pc = "apply" -> 2
               [] pc = "remove" -> 1
               [] OTHER -> 0

\* What a run has ahead of it at most: the files of its passes, the end of each.
RunRest == IF pc = "idle" THEN 0
           ELSE Cardinality(todo) + 1 + Following * (Cardinality(Files) + 1)

RunStep == Script \/ DiskFails \/ Kill

LEMMA FileNumbers ==
  ASSUME IsFiniteSet(Files), NEW S \in SUBSET Files
  PROVE  /\ IsFiniteSet(S) /\ Cardinality(S) \in 0 .. Cardinality(Files)
         /\ Cardinality(Files) \in Nat
         /\ \A f \in S : Cardinality(S \ {f}) = Cardinality(S) - 1
<1>1. IsFiniteSet(S) /\ Cardinality(S) <= Cardinality(Files)
  BY FS_Subset
<1>2. Cardinality(S) \in Nat /\ Cardinality(Files) \in Nat
  BY <1>1, FS_CardinalityType
<1>3. \A f \in S : Cardinality(S \ {f}) = Cardinality(S) - 1
  BY <1>1, FS_RemoveElement
<1> QED
  BY <1>1, <1>2, <1>3

LEMMA RunBounds ==
  ASSUME IsFiniteSet(Files), TypeOK
  PROVE  RunRest \in 0 .. 4 * (Cardinality(Files) + 1)
<1>1. Cardinality(todo) \in 0 .. Cardinality(Files) /\ Cardinality(Files) \in Nat
  BY FileNumbers DEF TypeOK
<1>2. Following \in 0 .. 3
  BY DEF Following
<1> QED
  BY <1>1, <1>2 DEF RunRest

\* The end of a pass goes on to one that fewer passes may follow.
LEMMA PassAdvances ==
  ASSUME IsFiniteSet(Files), TypeOK, pc # "idle", NEW p \in Passes, Pass(p),
         \/ pc = "forward" /\ p = "reverse"
         \/ todo = {} /\ \/ pc = "forward" /\ p = "apply"
                         \/ pc = "apply" /\ p = "remove"
                         \/ pc = "remove" /\ p = "write"
  PROVE  RunRest' < RunRest
<1> DEFINE n == Cardinality(Files)
<1>1. n \in Nat /\ Cardinality(todo) \in 0 .. n
  BY FileNumbers DEF TypeOK
<1>2. pc' = p /\ todo' \in SUBSET Files
  BY DEF Pass
<1>3. Cardinality(todo') \in 0 .. n
  BY <1>2, FileNumbers
<1>4. Following' < Following /\ Following \in 1 .. 3 /\ Following' \in 0 .. 2
  BY <1>2 DEF Following
<1>5. p # "idle"
  BY DEF Passes, Reads
<1>6. /\ RunRest = Cardinality(todo) + 1 + Following * (n + 1)
      /\ RunRest' = Cardinality(todo') + 1 + Following' * (n + 1)
  BY <1>2, <1>5 DEF RunRest
<1>7. CASE pc = "forward" /\ p = "reverse"
  <2>1. Following = 3 /\ Following' = 0
    BY <1>2, <1>7 DEF Following
  <2> QED
    BY <1>1, <1>3, <1>6, <2>1
<1>8. CASE todo = {} /\ Following = Following' + 1
  <2>1. Cardinality(todo) = 0
    BY <1>8, FS_EmptySet
  <2> QED
    BY <1>1, <1>3, <1>4, <1>6, <1>8, <2>1
<1> QED
  BY <1>2, <1>7, <1>8 DEF Following

LEMMA RunAdvances ==
  ASSUME IsFiniteSet(Files), TypeOK, TypeOK', pc # "idle", RunStep
  PROVE  RunRest' < RunRest
<1>1. ASSUME NEW f \in Files, Read(f) \/ Remove(f) \/ Write(f)
      PROVE  RunRest' < RunRest
  <2>1. f \in todo /\ todo' = todo \ {f} /\ pc' = pc
    BY <1>1 DEF Read, Remove, Write
  <2>2. /\ Cardinality(todo') = Cardinality(todo) - 1
        /\ Cardinality(todo) \in Nat /\ Cardinality(Files) \in Nat
    BY <2>1, FileNumbers DEF TypeOK
  <2>3. Following' = Following /\ Following \in 0 .. 3
    BY <2>1 DEF Following
  <2> QED
    BY <2>1, <2>2, <2>3 DEF RunRest
<1>2. ASSUME NEW r, End(r)
      PROVE  RunRest' < RunRest
  <2>1. RunRest' = 0
    BY <1>2 DEF End, RunRest
  <2>2. Cardinality(todo) \in Nat /\ Cardinality(Files) \in Nat
    BY FileNumbers DEF TypeOK
  <2>3. Following \in 0 .. 3
    BY DEF Following
  <2> QED
    BY <2>1, <2>2, <2>3 DEF RunRest
<1>3. ASSUME NEW f \in Files, Reject(f)
      PROVE  RunRest' < RunRest
  BY <1>2, <1>3, PassAdvances DEF Reject, Passes, Reads
<1>4. CASE Checked \/ Written
  BY <1>2, <1>4, PassAdvances DEF Checked, Written, Passes, Reads
<1>5. CASE DiskFails \/ Kill
  BY <1>2, <1>5 DEF DiskFails, Kill
<1> QED
  BY <1>1, <1>3, <1>4, <1>5 DEF RunStep, Script

\* A run of the script ends after a bounded number of its own steps: in at most
\* four passes over the files, however often somebody edits the checkout
\* meanwhile.
THEOREM RunIsBounded ==
  ASSUME IsFiniteSet(Files)
  PROVE  Spec => /\ [](RunRest \in 0 .. 4 * (Cardinality(Files) + 1))
                 /\ [][pc # "idle" => IF RunStep THEN RunRest' < RunRest
                                                ELSE RunRest' = RunRest]_vars
<1>1. PatchInv => RunRest \in 0 .. 4 * (Cardinality(Files) + 1)
  BY RunBounds DEF PatchInv
<1>2. ASSUME PatchInv, PatchInv', [Next]_vars, pc # "idle", ~RunStep
      PROVE  RunRest' = RunRest
  <2>1. (\E f \in Files, c \in Contents : Edit(f, c)) \/ UNCHANGED vars
    BY <1>2 DEF Next, RunStep, Start, Stopped
  <2>2. UNCHANGED <<pc, todo>>
    BY <2>1 DEF Edit, vars
  <2> QED
    BY <2>2 DEF RunRest, Following
<1>3. ASSUME PatchInv, PatchInv', [Next]_vars
      PROVE  [pc # "idle" => IF RunStep THEN RunRest' < RunRest ELSE RunRest' = RunRest]_vars
  BY <1>2, <1>3, RunAdvances DEF PatchInv
<1> QED
  BY <1>1, <1>3, PatchInvariant, PTL DEF Spec
=============================================================================
