---------------------------- MODULE PatchScript -----------------------------
(***************************************************************************)
(* src/mono/Scripts/IOS.py: patches a checkout of Mono with git, in up to  *)
(* three processes of git one after the other: does the patch apply, is it *)
(* applied already, apply it.  A process of git reads or writes one file   *)
(* after the other, in the order of the patch, which is not kept here.     *)
(* Meanwhile somebody may edit the checkout; the script may be killed at   *)
(* any moment and run again.                                               *)
(*                                                                         *)
(* A file is what the patch sees of it: "base" (the patch applies),        *)
(* "patched" (it applies in reverse) or "other" (neither: edited where the *)
(* patch has hunks, taken away, or half written).                          *)
(***************************************************************************)
EXTENDS Integers

CONSTANTS
  Files,    \* the files the patch changes or adds
  Added,    \* those it adds: "base" is then that there is none
  MaxEdits, \* bound: edits of the checkout
  MaxRuns   \* bound: runs of the script

ASSUME PatchAssumption ==
  /\ Added \subseteq Files
  /\ Files # {}
  /\ {MaxEdits, MaxRuns} \subseteq Nat

VARIABLES
  pc,       \* the pass under way: "idle", or one of Passes
  check,    \* whether --check was given
  todo,     \* the files this pass has not come to
  file,     \* the checkout
  result,   \* what the script has said
  before,   \* ghost: the checkout when the script began
  touched,  \* ghost: the files edited since
  edits, runs

vars == <<pc, check, todo, file, result, before, touched, edits, runs>>

Reads == {"forward", "reverse", "apply"}
Passes == Reads \cup {"remove", "write"}
Contents == {"base", "patched", "other"}
Results == {"none", "ready", "applied", "already", "refused", "rejected", "failed"}

TypeOK ==
  /\ pc \in {"idle"} \cup Passes
  /\ check \in BOOLEAN
  /\ todo \subseteq Files
  /\ {file, before} \subseteq [Files -> Contents]
  /\ result \in Results
  /\ touched \subseteq Files
  /\ edits \in 0 .. MaxEdits
  /\ runs \in 0 .. MaxRuns

-----------------------------------------------------------------------------
(* The script *)

\* The next process of git, or its next pass, begins with every file to do;
\* a file that is added is not there to remove.
Pass(p) == /\ pc' = p
           /\ todo' = IF p = "remove" THEN Files \ Added ELSE Files
           /\ UNCHANGED result

\* The script ends and says r.
End(r) == pc' = "idle" /\ result' = r /\ UNCHANGED todo

\* build_patch and checked_checkout refuse before git reads a file; else
\* apply_changes asks whether the patch applies.
Start ==
  /\ pc = "idle"
  /\ runs < MaxRuns
  /\ runs' = runs + 1
  /\ check' \in BOOLEAN
  /\ before' = file
  /\ touched' = {}
  /\ \/ pc' = "forward" /\ todo' = Files /\ result' = "none"
     \/ pc' = pc /\ todo' = todo /\ result' = "failed"
  /\ UNCHANGED <<file, edits>>

Only == UNCHANGED <<check, before, touched, edits, runs>>

\* What a file must be for the pass that reads it.
Wanted == IF pc = "reverse" THEN "patched" ELSE "base"

ReadWriting(f) ==  \* mutant: a file is written as soon as its hunks apply
  /\ pc \in Reads
  /\ f \in todo
  /\ file[f] = Wanted
  /\ todo' = todo \ {f}
  /\ file' = IF pc = "apply" THEN [file EXCEPT ![f] = "patched"] ELSE file
  /\ UNCHANGED <<pc, result>>
  /\ Only

\* git reads one file of a pass and finds the hunks.
Read(f) ==
  /\ pc \in Reads
  /\ f \in todo
  /\ file[f] = Wanted
  /\ todo' = todo \ {f}
  /\ UNCHANGED <<pc, file, result>>
  /\ Only

RejectOnce(f) ==  \* mutant: what does not apply is taken for patched already
  /\ pc \in Reads
  /\ f \in todo
  /\ file[f] # Wanted
  /\ End(IF pc = "forward" THEN "already" ELSE IF pc = "reverse" THEN "refused" ELSE "rejected")
  /\ UNCHANGED file
  /\ Only

\* git does not find them and ends without having written anything.
Reject(f) ==
  /\ pc \in Reads
  /\ f \in todo
  /\ file[f] # Wanted
  /\ \/ pc = "forward" /\ Pass("reverse")
     \/ pc = "reverse" /\ End("refused")
     \/ pc = "apply" /\ End("rejected")
  /\ UNCHANGED file
  /\ Only

\* Every file of a pass that reads has been as it should be.
Checked ==
  /\ pc \in Reads
  /\ todo = {}
  /\ \/ pc = "forward" /\ check /\ End("ready")
     \/ pc = "forward" /\ ~check /\ Pass("apply")
     \/ pc = "reverse" /\ End("already")
     \/ pc = "apply" /\ Pass("remove")
  /\ UNCHANGED file
  /\ Only

\* git takes the old files away, all of them before it writes a new one.
Remove(f) ==
  /\ pc = "remove"
  /\ f \in todo
  /\ file' = [file EXCEPT ![f] = "other"]
  /\ todo' = todo \ {f}
  /\ UNCHANGED <<pc, result>>
  /\ Only

Write(f) ==
  /\ pc = "write"
  /\ f \in todo
  /\ file' = [file EXCEPT ![f] = "patched"]
  /\ todo' = todo \ {f}
  /\ UNCHANGED <<pc, result>>
  /\ Only

Written ==
  /\ pc \in {"remove", "write"}
  /\ todo = {}
  /\ IF pc = "remove" THEN Pass("write") ELSE End("applied")
  /\ UNCHANGED file
  /\ Only

\* The disk fails git while it removes or writes.
DiskFails ==
  /\ pc \in {"remove", "write"}
  /\ End("failed")
  /\ UNCHANGED file
  /\ Only

-----------------------------------------------------------------------------
(* Everybody else *)

\* The script and its git are killed.
Kill ==
  /\ pc # "idle"
  /\ End("failed")
  /\ UNCHANGED file
  /\ Only

\* Somebody edits a file, or undoes an edit.
Edit(f, c) ==
  /\ edits < MaxEdits
  /\ file[f] # c
  /\ edits' = edits + 1
  /\ file' = [file EXCEPT ![f] = c]
  /\ touched' = touched \cup {f}
  /\ UNCHANGED <<pc, check, todo, result, before, runs>>

-----------------------------------------------------------------------------
Init ==
  /\ pc = "idle"
  /\ check = FALSE
  /\ todo = {}
  /\ file \in [Files -> Contents]
  /\ result = "none"
  /\ before = file
  /\ touched = {}
  /\ edits = 0
  /\ runs = 0

Script ==
  \/ \E f \in Files : Read(f) \/ Reject(f) \/ Remove(f) \/ Write(f)
  \/ Checked
  \/ Written

Stopped == pc = "idle" /\ runs = MaxRuns /\ edits = MaxEdits /\ UNCHANGED vars

Next ==
  \/ Start
  \/ Script
  \/ DiskFails
  \/ Kill
  \/ \E f \in Files, c \in Contents : Edit(f, c)
  \/ Stopped

Spec == Init /\ [][Next]_vars

-----------------------------------------------------------------------------
(* Properties *)

All(c) == \A f \in Files \ touched : file[f] = c

\* What the script reports is so, but for files somebody has edited since it
\* began: "applied" and "already applied" mean that all are patched, "ready"
\* that the patch applies to all; a checkout that a killed run has left half
\* patched never passes for any of them.
ReportsTrue ==
  /\ result \in {"applied", "already"} => All("patched")
  /\ result = "ready" => All("base")

\* "No changes applied" (IOS.py:821) is so: when the script refuses, when git
\* apply rejects a patch that git apply --check had let pass, or when --check
\* was given, no file is written, although up to three processes look at the
\* checkout one after the other and nothing locks it.
RefusedChangesNothing ==
  (result \in {"refused", "rejected", "already", "ready"} \/ check) =>
    \A f \in Files \ touched : file[f] = before[f]
=============================================================================
