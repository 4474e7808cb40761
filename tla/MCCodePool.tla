----------------------------- MODULE MCCodePool -----------------------------
(* Instances of CodePool for TLC.  One unit is half an instruction, so that  *)
(* misaligned addresses exist; an allocation unit is two instructions.       *)
EXTENDS CodePool

MCBase == <<8, 28>>
MCWriteBase == <<80, 104>>
MCCapacity == <<12, 4>>

\* Sizes that round to one unit and to two, and one whose rounding overflows;
\* 10 is inside a unit, 60 in no arena.
MCSizes == {2, 5, AddressSpace - 1}
MCBlocks == {0, 8, 10, 12, 16, 28, 60}

\* 44 is in reach of source 30 only, 60 of none; 13 is misaligned; 16 is code
\* of a caller or, when that is freed, the one place for an island of source 30;
\* buffer 82 lies in the writable view of an arena.
MCSources == {13, 16, 30}
MCTargets == {0, 44, 60}
MCBuffers == {4, 82}
=============================================================================
