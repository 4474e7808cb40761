--------------------------- MODULE BranchEncoding ----------------------------
(***************************************************************************)
(* encode_detour_branch (src/mono/Scripts/mono-ios-jit.cpp): the branch    *)
(* instruction of a detour, and what a processor makes of it.              *)
(*                                                                         *)
(* The instruction keeps its displacement in a field of two's complement,  *)
(* counted in words.  Half is half the number of values of the field, 2^25 *)
(* in the code; ForwardMax and BackwardMax are then the code's 0x07fffffc  *)
(* and 0x08000000.                                                         *)
(***************************************************************************)
EXTENDS Integers

CONSTANTS
  Word,      \* the size of an instruction
  Half,      \* half the values of the displacement field
  Register   \* the values of a uint32_t, a multiple of the field's

ASSUME EncodingAssumption ==
  /\ Word \in Nat \ {0}
  /\ Half \in Nat \ {0}
  /\ Register \in Nat \ {0}
  /\ \E k \in 1 .. Register : Register = k * (2 * Half)

ForwardMax == (Half - 1) * Word
BackwardMax == Half * Word
Mask == 2 * Half  \* x & 0x03ffffff is x % Mask
Fields == 0 .. Mask - 1

\* Whether a branch at s to t is encoded at all.
Encodable(s, t) ==
  /\ s % Word = 0
  /\ t % Word = 0
  /\ IF t >= s THEN t - s <= ForwardMax ELSE s - t <= BackwardMax

\* The unsigned negation 0u - words.
Negate(words) == (Register - words) % Register

Displacement(s, t) == IF t >= s THEN (t - s) \div Word ELSE Negate((s - t) \div Word)

Encoded(s, t) == Displacement(s, t) % Mask

\* Where a processor branches to from s: the field is signed.
Landing(s, field) == IF field < Half THEN s + field * Word ELSE s + (field - Mask) * Word
=============================================================================
