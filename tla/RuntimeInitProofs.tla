-------------------------- MODULE RuntimeInitProofs --------------------------
(***************************************************************************)
(* What is on the disk after any number of starts, for archives of any     *)
(* size: kills, failed files, updates and mods at any moment.              *)
(***************************************************************************)
EXTENDS RuntimeInit, TLAPS

\* A reason for a file to be missing, or the file.
Explained(x, f) == \/ file[x][f] # "none"
                   \/ <<x, f>> \in failed \cup skipped
                   \/ x \in unopened \cup cut
                   \/ missed

Settled(x) == \A f \in Files(x) : Explained(x, f)

\* Extracting again, for an override of MonoPath that is not there.
Again(x) == x = "mono" /\ elsewhere

\* A start that has an archive behind it has the files or a reason.
Passed ==
  /\ pc \in {"check", "read", "extract"} /\ archive = "mono" => Settled("dlls")
  /\ pc \in {"jit", "ready"} => missed \/ (Settled("dlls") /\ (Settled("mono") \/ "mono" \notin package))

\* The directory of an archive stands for its files, but while they are
\* extracted: then those before the index are explained.
Complete ==
  \A x \in Archives :
    /\ dir[x] /\ ~(x = "dlls" /\ At("read", x)) /\ ~At("extract", x) => Settled(x)
    /\ At("extract", x) => \A i \in 1 .. Len(Entries[x]) : i < index => Explained(x, Entries[x][i])

\* Files are only extracted where there were none.
Fresh ==
  \A x \in Archives :
    /\ ~dir[x] => \A f \in Files(x) : file[x][f] = "none"
    /\ (At("read", x) \/ At("extract", x)) /\ ~Again(x) => \A f \in Files(x) : file[x][f] # "changed"

\* The inductive invariant.
DiskInv == TypeOK /\ Passed /\ Complete /\ Fresh

-----------------------------------------------------------------------------
(* Files and reasons                                                        *)

LEMMA ArchiveFacts ==
  /\ \A x \in Archives : Len(Entries[x]) \in Nat /\ Len(Entries[x]) > 0
  /\ \A x \in Archives : \A i \in 1 .. Len(Entries[x]) : Entries[x][i] \in Files(x)
  /\ \A x \in Archives : \A f \in Files(x) : \E i \in 1 .. Len(Entries[x]) : f = Entries[x][i]
  /\ "dlls" \in Archives /\ "mono" \in Archives
  /\ \A x \in Archives : x = "dlls" \/ x = "mono"
<1>1. \A x \in Archives : Len(Entries[x]) \in Nat /\ Len(Entries[x]) > 0
  BY ArchiveAssumption
<1>2. QED
  BY <1>1 DEF Files, Range, Archives

LEMMA IndexRange ==
  /\ 1 \in 1 .. Len(Entries["dlls"]) + Len(Entries["mono"]) + 1
  /\ \A x \in Archives : \A n \in Nat :
       n <= Len(Entries[x]) => n + 1 \in 1 .. Len(Entries["dlls"]) + Len(Entries["mono"]) + 1
<1>1. PICK d \in Nat : d = Len(Entries["dlls"])
  BY ArchiveFacts
<1>2. PICK m \in Nat : m = Len(Entries["mono"])
  BY ArchiveFacts
<1>3. 1 \in 1 .. d + m + 1 /\ \A n \in Nat : n <= d \/ n <= m => n + 1 \in 1 .. d + m + 1
  OBVIOUS
<1>4. \A x \in Archives : Len(Entries[x]) = d \/ Len(Entries[x]) = m
  BY <1>1, <1>2, ArchiveFacts
<1>5. QED
  BY <1>1, <1>2, <1>3, <1>4

LEMMA FilePut ==
  ASSUME TypeOK, NEW x \in Archives, NEW f \in Files(x), NEW v \in {"none", "package", "changed"},
         file' = [file EXCEPT ![x][f] = v]
  PROVE  /\ file' = [y \in Archives |-> file'[y]]
         /\ \A y \in Archives : file'[y] \in [Files(y) -> {"none", "package", "changed"}]
         /\ \A y \in Archives : \A g \in Files(y) :
              file'[y][g] = IF y = x /\ g = f THEN v ELSE file[y][g]
<1>1. file = [y \in Archives |-> file[y]]
  BY Zenon DEF TypeOK
<1>2. file' = [y \in Archives |-> IF y = x THEN [file[x] EXCEPT ![f] = v] ELSE file[y]]
  BY <1>1
<1>3. \A y \in Archives : file[y] \in [Files(y) -> {"none", "package", "changed"}]
  BY DEF TypeOK
<1>4. file'[x] = [file[x] EXCEPT ![f] = v] /\ \A y \in Archives : y # x => file'[y] = file[y]
  BY <1>2
<1>5. file' = [y \in Archives |-> file'[y]]
  BY <1>2, <1>4
<1>6. \A y \in Archives : file'[y] \in [Files(y) -> {"none", "package", "changed"}]
  BY <1>3, <1>4
<1>7. QED
  BY <1>3, <1>4, <1>5, <1>6

\* Reasons are not taken back, and files do not disappear.
Onward == /\ \A x \in Archives : \A f \in Files(x) : file[x][f] # "none" => file'[x][f] # "none"
          /\ failed \subseteq failed'
          /\ skipped \subseteq skipped'
          /\ unopened \subseteq unopened'
          /\ cut \subseteq cut'
          /\ missed => missed'

LEMMA ExplainedStays ==
  ASSUME Onward, NEW x \in Archives, NEW f \in Files(x), Explained(x, f)
  PROVE  Explained(x, f)'
BY DEF Onward, Explained

LEMMA SettledStays ==
  ASSUME Onward, NEW x \in Archives, Settled(x)
  PROVE  Settled(x)'
BY ExplainedStays DEF Settled

LEMMA SameDisk == UNCHANGED <<file, reasons>> => Onward
BY DEF Onward, reasons

\* The loop is over, or has a reason for all of its archive.
LEMMA LoopSettles ==
  ASSUME DiskInv, Onward, NEW x \in Archives, At("extract", x),
         index > Len(Entries[x]) \/ x \in cut' \/ x \in unopened'
  PROVE  Settled(x)'
<1>1. ASSUME index > Len(Entries[x]), NEW f \in Files(x)
      PROVE  Explained(x, f)'
  <2>1. PICK i \in 1 .. Len(Entries[x]) : f = Entries[x][i]
    BY ArchiveFacts
  <2>2. i < index
    BY <1>1, <2>1, ArchiveFacts DEF DiskInv, TypeOK
  <2>3. Explained(x, f)
    BY <2>1, <2>2 DEF DiskInv, Complete
  <2>4. QED
    BY <2>3, ExplainedStays
<1>2. ASSUME x \in cut' \/ x \in unopened', NEW f \in Files(x)
      PROVE  Explained(x, f)'
  BY <1>2 DEF Explained
<1>3. QED
  BY <1>1, <1>2 DEF Settled

\* Steps from one place of a start to another that leave the disk alone.
LEMMA MoveKeeps ==
  ASSUME DiskInv, TypeOK', Passed', Onward, UNCHANGED <<disk, elsewhere>>,
         \A x \in Archives : ~At("extract", x)',
         \A x \in Archives : At("extract", x) => index > Len(Entries[x]) \/ x \in cut' \/ x \in unopened',
         At("read", "dlls") => missed' \/ "dlls" \in cut' \/ At("read", "dlls")',
         \A x \in Archives : At("read", x)' => ~dir[x] \/ Again(x)
  PROVE  DiskInv'
<1>1. Complete'
  <2>1. ASSUME NEW x \in Archives, dir[x], ~(x = "dlls" /\ At("read", x)')
        PROVE  Settled(x)'
    <3>1. CASE At("extract", x)
      BY <3>1, LoopSettles
    <3>2. CASE x = "dlls" /\ At("read", x)
      BY <2>1, <3>2 DEF Settled, Explained
    <3>3. CASE ~At("extract", x) /\ ~(x = "dlls" /\ At("read", x))
      BY <2>1, <3>3, SettledStays DEF DiskInv, Complete
    <3>4. QED
      BY <3>1, <3>2, <3>3
  <2>2. UNCHANGED dir
    BY DEF disk
  <2>3. QED
    BY <2>1, <2>2 DEF Complete, At
<1>2. Fresh'
  <2>1. UNCHANGED <<dir, file, elsewhere>>
    BY DEF disk
  <2>2. ASSUME NEW x \in Archives, At("read", x)' \/ At("extract", x)', ~Again(x)
        PROVE  \A f \in Files(x) : file[x][f] # "changed"
    BY <2>2 DEF DiskInv, Fresh
  <2>3. QED
    BY <2>1, <2>2 DEF DiskInv, Fresh, Again, At
<1>3. QED
  BY <1>1, <1>2 DEF DiskInv

-----------------------------------------------------------------------------
(* The steps                                                                *)

LEMMA StartKeeps == ASSUME DiskInv, Start \/ InitPlatform PROVE DiskInv'
<1>1. /\ pc \in {"down", "platform"} /\ pc' \in {"platform", "check", "error"}
      /\ pc' = "check" => archive' = "dlls"
      /\ UNCHANGED <<index, disk, package, elsewhere, reasons, updates, changes>>
      /\ archive' \in Archives
  BY ArchiveFacts DEF Start, InitPlatform, Enter, DiskInv, TypeOK
<1>2. TypeOK'
  BY <1>1 DEF DiskInv, TypeOK, disk, reasons
<1>3. Passed'
  BY <1>1 DEF Passed
<1>4. Onward
  BY <1>1, SameDisk DEF disk
<1>5. QED
  BY <1>1, <1>2, <1>3, <1>4, MoveKeeps DEF At

LEMMA CheckKeeps == ASSUME DiskInv, NEW x \in Archives, CheckDir(x) PROVE DiskInv'
<1>0. /\ pc = "check" /\ archive = x
      /\ UNCHANGED <<index, file, package, elsewhere, reasons, updates, changes>>
      /\ x = "mono" => Settled("dlls")
  BY DEF CheckDir, At, DiskInv, Passed
<1>1. Onward
  BY <1>0, SameDisk
<1>2. x = "mono" => Settled("dlls")'
  BY <1>0, <1>1, ArchiveFacts, SettledStays
<1>3. CASE Exists(x)
  <2>1. After(x) /\ UNCHANGED dir
    BY <1>3 DEF CheckDir
  <2>2. /\ pc' \in {"check", "jit"} /\ archive' \in Archives
        /\ x = "dlls" => pc' = "check" /\ archive' = "mono"
        /\ x = "mono" => pc' = "jit"
    BY <2>1, ArchiveFacts DEF After, Enter
  <2>3. TypeOK'
    BY <1>0, <2>1, <2>2 DEF DiskInv, TypeOK, reasons
  <2>4. Settled(x)'
    <3>1. Settled(x)
      BY <1>0, <1>3 DEF Exists, DiskInv, Complete, At
    <3>2. QED
      BY <1>1, <3>1, SettledStays
  <2>5. Passed'
    BY <1>2, <2>2, <2>4, ArchiveFacts DEF Passed
  <2>6. QED
    BY <1>0, <1>1, <2>1, <2>2, <2>3, <2>5, MoveKeeps DEF At, disk
<1>4. CASE ~Exists(x)
  <2>1. /\ pc' = "read" /\ archive' = x
        /\ dir' \in {dir, [dir EXCEPT ![x] = TRUE]}
        /\ x # "dlls" => UNCHANGED dir
    BY <1>3, <1>4 DEF CheckDir, Enter, MakeDir
  <2>2. /\ dir' \in [Archives -> BOOLEAN]
        /\ \A y \in Archives : dir'[y] => dir[y] \/ (x = "dlls" /\ y = "dlls")
        /\ \A y \in Archives : dir[y] => dir'[y]
    BY <2>1 DEF DiskInv, TypeOK
  <2>3. TypeOK'
    BY <1>0, <2>1, <2>2 DEF DiskInv, TypeOK, reasons
  <2>4. Passed'
    BY <1>2, <2>1 DEF Passed
  <2>5. Complete'
    <3>1. ASSUME NEW y \in Archives, dir'[y], ~(y = "dlls" /\ At("read", y)')
          PROVE  Settled(y)'
      <4>1. dir[y]
        BY <2>1, <2>2, <3>1 DEF At
      <4>2. Settled(y)
        BY <1>0, <4>1 DEF DiskInv, Complete, At
      <4>3. QED
        BY <1>1, <4>2, SettledStays
    <3>2. QED
      BY <2>1, <3>1 DEF Complete, At
  <2>6. Fresh'
    <3>1. ~Again(x) => \A f \in Files(x) : file[x][f] # "changed"
      BY <1>4 DEF Exists, Again, DiskInv, Fresh
    <3>2. QED
      BY <1>0, <2>1, <2>2, <3>1 DEF DiskInv, Fresh, At, Again
  <2>7. QED
    BY <2>3, <2>4, <2>5, <2>6 DEF DiskInv
<1>5. QED
  BY <1>3, <1>4

LEMMA ReadKeeps == ASSUME DiskInv, NEW x \in Archives, ReadAsset(x) PROVE DiskInv'
<1>0. /\ pc = "read" /\ archive = x
      /\ UNCHANGED <<disk, package, elsewhere, failed, unopened, skipped, cut, updates, changes>>
      /\ x = "mono" => Settled("dlls")
  BY ArchiveFacts DEF ReadAsset, At, DiskInv, Passed
<1>1. CASE x \in package
  <2>1. pc' = "extract" /\ archive' = x /\ index' = 1 /\ UNCHANGED missed
    BY <1>1 DEF ReadAsset, Enter
  <2>2. TypeOK'
    <3>1. 1 \in 1 .. Len(Entries["dlls"]) + Len(Entries["mono"]) + 1
      BY IndexRange
    <3>2. QED
      BY <1>0, <2>1, <3>1 DEF DiskInv, TypeOK, disk
  <2>3. Onward
    BY <1>0, <2>1, SameDisk DEF disk, reasons
  <2>4. Passed'
    BY <1>0, <2>1, <2>3, ArchiveFacts, SettledStays DEF Passed
  <2>5. Complete'
    <3>1. ASSUME NEW y \in Archives, y # x, dir[y]
          PROVE  Settled(y)'
      <4>1. Settled(y)
        BY <1>0, <3>1 DEF DiskInv, Complete, At
      <4>2. QED
        BY <2>3, <4>1, SettledStays
    <3>2. QED
      BY <1>0, <2>1, <3>1, ArchiveFacts DEF Complete, At, disk
  <2>6. Fresh'
    BY <1>0, <2>1 DEF DiskInv, Fresh, At, Again, disk
  <2>7. QED
    BY <2>2, <2>4, <2>5, <2>6 DEF DiskInv
<1>2. CASE x \notin package
  <2>1. pc' = "jit" /\ archive' = x /\ missed' = (missed \/ x = "dlls") /\ UNCHANGED index
    BY <1>1, <1>2 DEF ReadAsset, Enter
  <2>2. TypeOK'
    BY <1>0, <2>1 DEF DiskInv, TypeOK, disk
  <2>3. Onward
    BY <1>0, <2>1 DEF Onward, disk
  <2>4. Passed'
    BY <1>0, <1>2, <2>1, <2>3, ArchiveFacts, SettledStays DEF Passed
  <2>5. QED
    BY <1>0, <2>1, <2>2, <2>3, <2>4, MoveKeeps DEF At
<1>3. QED
  BY <1>1, <1>2

\* The start leaves the archive that it was in, which has its reasons.
LEMMA AfterPasses ==
  ASSUME DiskInv, Onward, NEW x \in Archives, pc = "extract", archive = x, After(x), Settled(x)'
  PROVE  /\ Passed'
         /\ pc' \in {"check", "jit"} /\ archive' \in Archives
<1>1. /\ pc' \in {"check", "jit"} /\ archive' \in Archives
      /\ x = "dlls" => pc' = "check" /\ archive' = "mono"
      /\ x = "mono" => pc' = "jit"
  BY ArchiveFacts DEF After, Enter
<1>2. x = "mono" => Settled("dlls")
  BY DEF DiskInv, Passed
<1>3. QED
  BY <1>1, <1>2, ArchiveFacts, SettledStays DEF Passed

LEMMA OpenKeeps == ASSUME DiskInv, NEW x \in Archives, OpenFails(x) PROVE DiskInv'
<1>0. /\ pc = "extract" /\ archive = x /\ After(x)
      /\ unopened' = unopened \cup {x}
      /\ UNCHANGED <<index, disk, package, elsewhere, failed, skipped, missed, cut, updates, changes>>
  BY DEF OpenFails, At
<1>1. Onward
  BY <1>0 DEF Onward, disk
<1>2. Settled(x)'
  BY <1>0, <1>1, LoopSettles DEF At
<1>3. /\ Passed'
      /\ pc' \in {"check", "jit"} /\ archive' \in Archives
  BY <1>0, <1>1, <1>2, AfterPasses
<1>4. TypeOK'
  BY <1>0, <1>3 DEF DiskInv, TypeOK, disk
<1>5. QED
  BY <1>0, <1>1, <1>3, <1>4, MoveKeeps DEF At

LEMMA ExtractKeeps == ASSUME DiskInv, NEW x \in Archives, Extract(x) PROVE DiskInv'
<1>0. /\ pc = "extract" /\ archive = x /\ index <= Len(Entries[x])
      /\ index' = index + 1
      /\ UNCHANGED <<pc, archive, package, elsewhere, unopened, missed, cut, updates, changes>>
  BY DEF Extract, At
<1>1. index \in Nat /\ index >= 1
  BY ArchiveFacts DEF DiskInv, TypeOK
<1>2. PICK f \in Files(x) : f = Entries[x][index]
  BY <1>0, <1>1, ArchiveFacts
<1>3. \/ Put(x, f)
      \/ Fail(x, f)
      \/ Skip(x, f)
  BY <1>2 DEF Extract
<1>4. /\ file' = [y \in Archives |-> file'[y]]
      /\ \A y \in Archives : file'[y] \in [Files(y) -> {"none", "package", "changed"}]
      /\ \A y \in Archives : \A g \in Files(y) :
           file'[y][g] = file[y][g] \/ (y = x /\ g = f /\ file'[y][g] = "package" /\ dir'[x])
      /\ file'[x][f] = "package" \/ <<x, f>> \in failed' \cup skipped'
      /\ failed' \in {failed, failed \cup {<<x, f>>}}
      /\ skipped' \in {skipped, skipped \cup {<<x, f>>}}
      /\ dir' \in {dir, [dir EXCEPT ![x] = TRUE]}
  <2>1. CASE Put(x, f)
    <3>1. /\ file' = [y \in Archives |-> file'[y]]
          /\ \A y \in Archives : file'[y] \in [Files(y) -> {"none", "package", "changed"}]
          /\ \A y \in Archives : \A g \in Files(y) :
               file'[y][g] = IF y = x /\ g = f THEN "package" ELSE file[y][g]
      BY <2>1, FilePut DEF DiskInv, Put
    <3>2. dir'[x] /\ dir' = [dir EXCEPT ![x] = TRUE]
      BY <2>1 DEF Put, DiskInv, TypeOK
    <3>3. UNCHANGED <<failed, skipped>>
      BY <2>1 DEF Put
    <3>4. QED
      BY <3>1, <3>2, <3>3
  <2>2. CASE Fail(x, f) \/ Skip(x, f)
    <3>1. /\ file = [y \in Archives |-> file[y]]
          /\ \A y \in Archives : file[y] \in [Files(y) -> {"none", "package", "changed"}]
      BY Zenon DEF DiskInv, TypeOK
    <3>2. /\ UNCHANGED file
          /\ <<x, f>> \in failed' \cup skipped'
          /\ failed' \in {failed, failed \cup {<<x, f>>}}
          /\ skipped' \in {skipped, skipped \cup {<<x, f>>}}
          /\ dir' \in {dir, [dir EXCEPT ![x] = TRUE]}
      BY <2>2 DEF Fail, Skip, MakeDir, disk
    <3>3. QED
      BY <3>1, <3>2
  <2>3. QED
    BY <1>3, <2>1, <2>2
<1>5. /\ dir' \in [Archives -> BOOLEAN]
      /\ \A y \in Archives : y # x => dir'[y] = dir[y]
      /\ \A y \in Archives : dir[y] => dir'[y]
  BY <1>4 DEF DiskInv, TypeOK
<1>6. TypeOK'
  <2>1. index + 1 \in 1 .. Len(Entries["dlls"]) + Len(Entries["mono"]) + 1
    BY <1>0, <1>1, IndexRange
  <2>2. /\ failed' \subseteq UNION {{y} \X Files(y) : y \in Archives}
        /\ skipped' \subseteq UNION {{y} \X Files(y) : y \in Archives}
    BY <1>4 DEF DiskInv, TypeOK
  <2>3. QED
    BY <1>0, <1>4, <1>5, <2>1, <2>2 DEF DiskInv, TypeOK
<1>7. Onward
  BY <1>0, <1>4 DEF Onward
<1>8. Passed'
  BY <1>0, <1>7, ArchiveFacts, SettledStays DEF DiskInv, Passed
<1>9. Complete'
  <2>1. ASSUME NEW y \in Archives, y # x, dir'[y]
        PROVE  Settled(y)'
    <3>1. Settled(y)
      BY <1>0, <1>5, <2>1 DEF DiskInv, Complete, At
    <3>2. QED
      BY <1>7, <3>1, SettledStays
  <2>2. ASSUME NEW i \in 1 .. Len(Entries[x]), i < index + 1
        PROVE  Explained(x, Entries[x][i])'
    <3>1. CASE i = index
      BY <1>2, <1>4, <3>1 DEF Explained
    <3>2. CASE i # index
      <4>1. i < index
        BY <1>1, <2>2, <3>2
      <4>2. PICK g \in Files(x) : g = Entries[x][i]
        BY ArchiveFacts
      <4>3. Explained(x, g)
        BY <1>0, <4>1, <4>2 DEF DiskInv, Complete, At
      <4>4. QED
        BY <1>7, <4>2, <4>3, ExplainedStays
    <3>3. QED
      BY <3>1, <3>2
  <2>3. QED
    BY <1>0, <2>1, <2>2 DEF Complete, At
<1>10. Fresh'
  BY <1>0, <1>4, <1>5 DEF DiskInv, Fresh, At, Again
<1>11. QED
  BY <1>6, <1>8, <1>9, <1>10 DEF DiskInv

LEMMA ExtractedKeeps == ASSUME DiskInv, NEW x \in Archives, Extracted(x) PROVE DiskInv'
<1>0. /\ pc = "extract" /\ archive = x /\ index > Len(Entries[x]) /\ After(x)
      /\ UNCHANGED <<index, disk, package, elsewhere, reasons, updates, changes>>
  BY DEF Extracted, At
<1>1. Onward
  BY <1>0, SameDisk DEF disk
<1>2. Settled(x)'
  BY <1>0, <1>1, LoopSettles DEF At
<1>3. /\ Passed'
      /\ pc' \in {"check", "jit"} /\ archive' \in Archives
  BY <1>0, <1>1, <1>2, AfterPasses
<1>4. TypeOK'
  BY <1>0, <1>3 DEF DiskInv, TypeOK, disk, reasons
<1>5. QED
  BY <1>0, <1>1, <1>3, <1>4, MoveKeeps DEF At

LEMMA JitKeeps == ASSUME DiskInv, JitInit PROVE DiskInv'
<1>1. /\ pc = "jit" /\ pc' \in {"error", "ready"}
      /\ UNCHANGED <<archive, index, disk, package, elsewhere, reasons, updates, changes>>
  BY DEF JitInit
<1>2. TypeOK'
  BY <1>1 DEF DiskInv, TypeOK, disk, reasons
<1>3. Onward
  BY <1>1, SameDisk DEF disk
<1>4. Passed'
  BY <1>1, <1>3, ArchiveFacts, SettledStays DEF DiskInv, Passed, reasons
<1>5. QED
  BY <1>1, <1>2, <1>3, <1>4, MoveKeeps DEF At

LEMMA KillKeeps == ASSUME DiskInv, Kill PROVE DiskInv'
<1>1. /\ pc' = "down" /\ cut \subseteq cut' /\ cut' \subseteq Archives
      /\ \A x \in Archives : At("read", x) \/ At("extract", x) => x \in cut'
      /\ UNCHANGED <<archive, index, disk, package, elsewhere, failed, unopened, skipped, missed,
                     updates, changes>>
  BY DEF Kill, DiskInv, TypeOK
<1>2. TypeOK'
  BY <1>1 DEF DiskInv, TypeOK, disk
<1>3. Passed'
  BY <1>1 DEF Passed
<1>4. Onward
  BY <1>1 DEF Onward, disk
<1>5. QED
  BY <1>1, <1>2, <1>3, <1>4, MoveKeeps, ArchiveFacts DEF At

LEMMA UpdateKeeps == ASSUME DiskInv, Update PROVE DiskInv'
<1>1. /\ pc = "down" /\ UNCHANGED <<pc, archive, index, disk, elsewhere, reasons, changes>>
      /\ package' \in SUBSET Archives
  BY DEF Update
<1>2. updates' \in 0 .. MaxUpdates
  BY ArchiveAssumption DEF Update, DiskInv, TypeOK
<1>3. TypeOK'
  BY <1>1, <1>2 DEF DiskInv, TypeOK, disk, reasons
<1>4. Passed'
  BY <1>1 DEF Passed
<1>5. Onward
  BY <1>1, SameDisk DEF disk
<1>6. QED
  BY <1>1, <1>3, <1>4, <1>5, MoveKeeps DEF At

LEMMA ChangeKeeps ==
  ASSUME DiskInv, NEW x \in Archives, NEW f \in Files(x), Change(x, f) PROVE DiskInv'
<1>1. /\ pc \in {"down", "ready"} /\ file[x][f] = "package"
      /\ file' = [file EXCEPT ![x][f] = "changed"]
      /\ UNCHANGED <<pc, archive, index, dir, package, elsewhere, reasons, updates>>
  BY DEF Change
<1>2. changes' \in 0 .. MaxChanges
  BY ArchiveAssumption DEF Change, DiskInv, TypeOK
<1>3. /\ file' = [y \in Archives |-> file'[y]]
      /\ \A y \in Archives : file'[y] \in [Files(y) -> {"none", "package", "changed"}]
      /\ \A y \in Archives : \A g \in Files(y) :
           file'[y][g] = file[y][g] \/ (y = x /\ g = f /\ file'[y][g] = "changed")
  BY <1>1, FilePut DEF DiskInv
<1>4. TypeOK'
  BY <1>1, <1>2, <1>3 DEF DiskInv, TypeOK, reasons
<1>5. Onward
  BY <1>1, <1>3 DEF Onward, reasons
<1>6. Passed'
  BY <1>1, <1>5, ArchiveFacts, SettledStays DEF DiskInv, Passed, reasons
<1>7. Complete'
  <2>1. ASSUME NEW y \in Archives, dir[y]
        PROVE  Settled(y)'
    BY <1>1, <1>5, <2>1, SettledStays DEF DiskInv, Complete, At
  <2>2. QED
    BY <1>1, <2>1 DEF Complete, At
<1>8. Fresh'
  BY <1>1, <1>3 DEF DiskInv, Fresh, At, Again
<1>9. QED
  BY <1>4, <1>6, <1>7, <1>8 DEF DiskInv

LEMMA DiskInit == Init => DiskInv
<1> SUFFICES ASSUME Init
             PROVE  DiskInv
  OBVIOUS
<1>1. TypeOK
  <2>1. 1 \in 1 .. Len(Entries["dlls"]) + Len(Entries["mono"]) + 1
    BY IndexRange
  <2>2. 0 \in 0 .. MaxUpdates /\ 0 \in 0 .. MaxChanges
    BY ArchiveAssumption
  <2>3. QED
    BY <2>1, <2>2, ArchiveFacts DEF Init, TypeOK
<1>2. Passed /\ Complete
  BY DEF Init, Passed, Complete, At
<1>3. Fresh
  BY DEF Init, Fresh, At
<1>4. QED
  BY <1>1, <1>2, <1>3 DEF DiskInv

LEMMA DiskStep == DiskInv /\ [Next]_vars => DiskInv'
<1> SUFFICES ASSUME DiskInv, [Next]_vars
             PROVE  DiskInv'
  OBVIOUS
<1>1. CASE UNCHANGED vars
  BY <1>1 DEF vars, disk, reasons, DiskInv, TypeOK, Passed, Complete, Fresh, At, Settled, Explained, Again
<1>2. QED
  BY <1>1, StartKeeps, CheckKeeps, ReadKeeps, OpenKeeps, ExtractKeeps, ExtractedKeeps, JitKeeps,
     KillKeeps, UpdateKeeps, ChangeKeeps DEF Next, InitMono

-----------------------------------------------------------------------------
(* The theorems                                                             *)

LEMMA DiskCorrect == Spec => []DiskInv
BY DiskInit, DiskStep, PTL DEF Spec

\* The variables keep their types.
THEOREM DiskTypes == Spec => []TypeOK
<1>1. DiskInv => TypeOK
  BY DEF DiskInv
<1>2. QED
  BY <1>1, DiskCorrect, PTL

\* Below a directory that exists, and below any when Mono runs on a whole
\* package, a file is only missing with a logged failure, of it or of its
\* archive, with an entry that was passed over, a kill during its extraction,
\* or a Managed.zip that was not there.
THEOREM MissingIsExplained == Spec => []MissingExplained
<1>1. ASSUME DiskInv, NEW x \in Archives, NEW f \in Files(x),
             dir[x] \/ (pc = "ready" /\ package = Archives),
             ~At("read", x), ~At("extract", x), file[x][f] = "none"
      PROVE  <<x, f>> \in failed \cup skipped \/ x \in unopened \cup cut \/ missed
  <2>1. CASE dir[x]
    BY <1>1, <2>1 DEF DiskInv, Complete, Settled, Explained
  <2>2. CASE pc = "ready" /\ package = Archives
    <3>1. missed \/ Settled(x)
      BY <1>1, <2>2, ArchiveFacts DEF DiskInv, Passed
    <3>2. QED
      BY <1>1, <3>1 DEF Settled, Explained
  <2>3. QED
    BY <1>1, <2>1, <2>2
<1>2. DiskInv => MissingExplained
  BY <1>1 DEF MissingExplained
<1>3. QED
  BY <1>2, DiskCorrect, PTL

\* What a mod has put in place of a file of the package stays, over kills,
\* later starts and updates.
THEOREM ModsAlwaysSurvive == Spec => ModsSurvive
<1>1. ASSUME DiskInv, [Next]_vars, NEW x \in Archives, NEW f \in Files(x),
             file[x][f] = "changed", ~(x = "mono" /\ elsewhere)
      PROVE  file'[x][f] = "changed"
  <2>1. ASSUME NEW y \in Archives, Extract(y)
        PROVE  file'[x][f] = "changed"
    <3>1. y # x
      BY <1>1, <2>1 DEF DiskInv, Fresh, Extract, Again
    <3>2. UNCHANGED file \/ file' = [file EXCEPT ![y][Entries[y][index]] = "package"]
      BY <2>1 DEF Extract, Put, Fail, Skip, disk
    <3>3. QED
      BY <1>1, <3>1, <3>2 DEF DiskInv, TypeOK
  <2>2. ASSUME NEW y \in Archives, NEW g \in Files(y), Change(y, g)
        PROVE  file'[x][f] = "changed"
    BY <1>1, <2>2 DEF DiskInv, TypeOK, Change
  <2>3. QED
    BY <1>1, <2>1, <2>2 DEF Next, InitMono, Start, InitPlatform, CheckDir, ReadAsset, OpenFails,
       Extracted, JitInit, Kill, Update, disk, vars
<1>2. DiskInv /\ [Next]_vars =>
        [\A x \in Archives : \A f \in Files(x) :
           (file[x][f] = "changed" /\ ~(x = "mono" /\ elsewhere)) => file'[x][f] = "changed"]_vars
  BY <1>1
<1>3. QED
  BY <1>2, DiskCorrect, PTL DEF Spec, ModsSurvive

-----------------------------------------------------------------------------
(* A start comes to an end                                                  *)

Starting == pc \notin {"down", "ready", "error"}

\* The entries of the archive that the loop has not come to.
EntriesLeft == IF index <= Len(Entries[archive]) THEN Len(Entries[archive]) + 1 - index ELSE 0

\* The steps InitMono has ahead of it at most, if nobody kills it, from a place
\* in what it does with archive x; d and m are the lengths of the archives.
Ahead(place, x, d, m, left) ==
  CASE place = "platform" -> 8 + d + m
    [] place = "check" -> 4 + m + (IF x = "dlls" THEN 3 + d ELSE 0)
    [] place = "read" -> 3 + m + (IF x = "dlls" THEN 3 + d ELSE 0)
    [] place = "extract" -> 2 + left + (IF x = "dlls" THEN 3 + m ELSE 0)
    [] place = "jit" -> 1
    [] OTHER -> 0

StartRest == Ahead(pc, archive, Len(Entries["dlls"]), Len(Entries["mono"]), EntriesLeft)

LongestStart == 8 + Len(Entries["dlls"]) + Len(Entries["mono"])

\* The numbers of a state: the provers do arithmetic on names, not on lengths.
LEMMA StartNumbers ==
  ASSUME TypeOK
  PROVE  \E d, m, left \in Nat :
           /\ d = Len(Entries["dlls"]) /\ m = Len(Entries["mono"])
           /\ left = EntriesLeft
           /\ left <= Len(Entries[archive])
           /\ StartRest = Ahead(pc, archive, d, m, left)
<1>1. /\ Len(Entries[archive]) \in Nat /\ archive \in Archives
      /\ Len(Entries["dlls"]) \in Nat /\ Len(Entries["mono"]) \in Nat
  BY ArchiveFacts DEF TypeOK
<1>2. index \in Nat /\ index >= 1
  BY <1>1 DEF TypeOK
<1>3. EntriesLeft \in Nat /\ EntriesLeft <= Len(Entries[archive])
  BY <1>1, <1>2 DEF EntriesLeft
<1> QED
  BY <1>1, <1>3 DEF StartRest

LEMMA StartBounds ==
  ASSUME TypeOK
  PROVE  StartRest \in 0 .. LongestStart
<1>1. PICK d, m, left \in Nat :
        /\ d = Len(Entries["dlls"]) /\ m = Len(Entries["mono"])
        /\ left <= Len(Entries[archive])
        /\ StartRest = Ahead(pc, archive, d, m, left)
  BY StartNumbers
<1>2. (archive = "dlls" /\ left <= d) \/ (archive = "mono" /\ left <= m)
  BY <1>1, ArchiveFacts DEF TypeOK
<1>3. Ahead(pc, archive, d, m, left) \in 0 .. 8 + d + m
  BY <1>2 DEF Ahead
<1> QED
  BY <1>1, <1>3 DEF LongestStart

LEMMA StartAdvances ==
  ASSUME TypeOK, TypeOK', Starting, Next
  PROVE  StartRest' < StartRest
<1>1. PICK d, m, left \in Nat :
        /\ d = Len(Entries["dlls"]) /\ m = Len(Entries["mono"])
        /\ left = EntriesLeft
        /\ left <= Len(Entries[archive])
        /\ StartRest = Ahead(pc, archive, d, m, left)
  BY StartNumbers
<1>2. PICK left2 \in Nat :
        /\ left2 = EntriesLeft'
        /\ left2 <= Len(Entries[archive'])
        /\ StartRest' = Ahead(pc', archive', d, m, left2)
  <2>1. /\ Len(Entries[archive']) \in Nat /\ archive' \in Archives
        /\ Len(Entries["dlls"]) \in Nat /\ Len(Entries["mono"]) \in Nat
    BY ArchiveFacts DEF TypeOK
  <2>2. index' \in Nat /\ index' >= 1
    BY <2>1 DEF TypeOK
  <2>3. EntriesLeft' \in Nat /\ EntriesLeft' <= Len(Entries[archive'])
    BY <2>1, <2>2 DEF EntriesLeft
  <2> QED
    BY <1>1, <2>3 DEF StartRest
<1>3. /\ archive = "dlls" \/ archive = "mono"
      /\ (archive' = "dlls" /\ left2 <= d) \/ (archive' = "mono" /\ left2 <= m)
  BY <1>1, <1>2, ArchiveFacts DEF TypeOK
<1> SUFFICES Ahead(pc', archive', d, m, left2) < Ahead(pc, archive, d, m, left)
  BY <1>1, <1>2
<1>4. CASE InitPlatform
  BY <1>4 DEF InitPlatform, Enter, Ahead
<1>5. ASSUME NEW x \in Archives, CheckDir(x)
      PROVE  Ahead(pc', archive', d, m, left2) < Ahead(pc, archive, d, m, left)
  <2>1. /\ pc = "check" /\ archive = x
        /\ \/ pc' = "read" /\ archive' = x
           \/ x = "dlls" /\ pc' = "check" /\ archive' = "mono"
           \/ x # "dlls" /\ pc' = "jit"
    BY <1>5 DEF CheckDir, At, Enter, After
  <2> QED
    BY <2>1 DEF Ahead
<1>6. ASSUME NEW x \in Archives, ReadAsset(x)
      PROVE  Ahead(pc', archive', d, m, left2) < Ahead(pc, archive, d, m, left)
  <2>1. /\ pc = "read" /\ archive = x /\ archive' = x
        /\ pc' \in {"extract", "jit"}
    BY <1>6 DEF ReadAsset, At, Enter
  <2> QED
    BY <1>3, <2>1 DEF Ahead
<1>7. ASSUME NEW x \in Archives, Extract(x)
      PROVE  Ahead(pc', archive', d, m, left2) < Ahead(pc, archive, d, m, left)
  <2>1. /\ pc = "extract" /\ index <= Len(Entries[archive]) /\ index' = index + 1
        /\ UNCHANGED <<pc, archive>>
    BY <1>7 DEF Extract, At
  <2>2. PICK n \in Nat : n = Len(Entries[archive])
    BY ArchiveFacts DEF TypeOK
  <2>3. index \in Nat
    <3>1. Len(Entries["dlls"]) \in Nat /\ Len(Entries["mono"]) \in Nat
      BY <1>1
    <3> QED
      BY <3>1 DEF TypeOK
  <2>4. /\ left = IF index <= n THEN n + 1 - index ELSE 0
        /\ left2 = IF index + 1 <= n THEN n + 1 - (index + 1) ELSE 0
        /\ index <= n
    BY <1>1, <1>2, <2>1, <2>2 DEF EntriesLeft
  <2>5. left2 < left
    BY <2>3, <2>4
  <2> QED
    BY <2>1, <2>5 DEF Ahead
<1>8. ASSUME NEW x \in Archives, Extracted(x)
      PROVE  Ahead(pc', archive', d, m, left2) < Ahead(pc, archive, d, m, left)
  <2>1. /\ pc = "extract" /\ archive = x
        /\ \/ x = "dlls" /\ pc' = "check" /\ archive' = "mono"
           \/ x # "dlls" /\ pc' = "jit"
    BY <1>8 DEF Extracted, At, Enter, After
  <2> QED
    BY <2>1 DEF Ahead
<1>9. CASE JitInit
  BY <1>9 DEF JitInit, Ahead
<1>10. CASE Kill
  <2>1. pc' = "down" /\ pc \in {"platform", "check", "read", "extract", "jit"}
    BY <1>10 DEF Kill, TypeOK, Starting
  <2> QED
    BY <2>1 DEF Ahead
<1>11. ~Start /\ ~Update /\ \A x \in Archives : \A f \in Files(x) : ~Change(x, f)
  BY DEF Starting, Start, Update, Change
<1>12. ASSUME NEW x \in Archives, OpenFails(x)
      PROVE  Ahead(pc', archive', d, m, left2) < Ahead(pc, archive, d, m, left)
  <2>1. /\ pc = "extract" /\ archive = x
        /\ \/ x = "dlls" /\ pc' = "check" /\ archive' = "mono"
           \/ x # "dlls" /\ pc' = "jit"
    BY <1>12 DEF OpenFails, At, Enter, After
  <2> QED
    BY <2>1 DEF Ahead
<1> QED
  BY <1>4, <1>5, <1>6, <1>7, <1>8, <1>9, <1>10, <1>11, <1>12 DEF Next, InitMono

\* Every step of a start brings it nearer to its end, which is no further away
\* than the archives have files: nothing on the disk, and nothing that fails,
\* makes it look at an archive again.
THEOREM StartIsBounded ==
  Spec => /\ [](StartRest \in 0 .. LongestStart)
          /\ [][Starting => StartRest' < StartRest]_vars
<1>1. DiskInv => StartRest \in 0 .. LongestStart
  BY StartBounds DEF DiskInv
<1>2. ASSUME DiskInv, DiskInv', [Next]_vars
      PROVE  [Starting => StartRest' < StartRest]_vars
  BY <1>2, StartAdvances DEF DiskInv
<1> QED
  BY <1>1, <1>2, DiskCorrect, PTL DEF Spec
=============================================================================
