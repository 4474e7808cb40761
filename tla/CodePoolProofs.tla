--------------------------- MODULE CodePoolProofs ---------------------------
(* Theorems about CodePool for every value of its constants.                 *)
EXTENDS CodePool, SequenceTheorems, TLAPS

-----------------------------------------------------------------------------
(* The branch of a detour lands on its target, and is only refused to a      *)
(* target that no branch reaches: for words and fields of any size and for   *)
(* every pair of addresses.                                                  *)

\* Quotient and remainder, read off a sum.
LEMMA Division ==
  ASSUME NEW m \in Nat \ {0}, NEW j \in Int, NEW r \in 0 .. m - 1
  PROVE  (j * m + r) % m = r /\ (j * m + r) \div m = j
<1> DEFINE a == j * m + r
           q == a \div m
           s == a % m
<1>1. j * m \in Int /\ a \in Int
  OBVIOUS
<1>2. q \in Int /\ s \in 0 .. m - 1 /\ a = m * q + s
  BY <1>1
<1> HIDE DEF q, s
<1>3. m * (q - j) = r - s
  BY <1>2
<1>4. CASE q - j >= 1
  <2>1. m * (q - j) >= m
    BY <1>2, <1>4
  <2> QED
    BY <1>2, <1>3, <2>1
<1>5. CASE q - j <= -1
  <2>1. m * (q - j) <= -m
    BY <1>2, <1>5
  <2> QED
    BY <1>2, <1>3, <2>1
<1>6. CASE q = j
  BY <1>2, <1>6
<1> QED
  BY <1>2, <1>4, <1>5, <1>6 DEF q, s

\* Multiples of a word are in the order of their counts.
LEMMA Words ==
  ASSUME NEW i \in Int, NEW j \in Int, i * Word <= j * Word
  PROVE  i <= j
<1>1. CASE i - j >= 1
  <2>1. Word * (i - j) >= Word
    BY <1>1, EncodingAssumption
  <2> QED
    BY <2>1, EncodingAssumption
<1> QED
  BY <1>1

\* Aligned addresses are whole words apart.
LEMMA WholeWords ==
  ASSUME NEW s \in Nat, NEW t \in Nat, s % Word = 0, t % Word = 0
  PROVE  /\ (t - s) \div Word \in Int
         /\ t - s = ((t - s) \div Word) * Word
<1> DEFINE n == (t \div Word) - (s \div Word)
<1>1. Word \in Nat \ {0}
  BY EncodingAssumption
<1>2. s = Word * (s \div Word) /\ t = Word * (t \div Word)
      /\ s \div Word \in Int /\ t \div Word \in Int
  BY <1>1
<1>3. n \in Int /\ t - s = n * Word + 0
  BY <1>1, <1>2
<1> HIDE DEF n
<1>4. (n * Word + 0) \div Word = n
  BY <1>1, <1>3, Division
<1> QED
  BY <1>1, <1>3, <1>4

\* The negation of 0 < n <= Half words, cut to the field, is Mask - n.
LEMMA NegateField ==
  ASSUME NEW n \in 1 .. Half
  PROVE  Negate(n) % Mask = Mask - n
<1>1. PICK k \in 1 .. Register : Register = k * (2 * Half)
  BY EncodingAssumption
<1>2. k >= 1
  BY <1>1, EncodingAssumption
<1>3. Register >= 2 * Half
  BY <1>1, <1>2, EncodingAssumption
<1>4. Register - n \in 0 .. Register - 1
  BY <1>3, EncodingAssumption
<1>5. Negate(n) = Register - n
  BY <1>4, EncodingAssumption DEF Negate
<1>6. Register - n = (k - 1) * Mask + (Mask - n)
  BY <1>1, EncodingAssumption DEF Mask
<1>7. Mask - n \in 0 .. Mask - 1
  BY EncodingAssumption DEF Mask
<1>8. ((k - 1) * Mask + (Mask - n)) % Mask = Mask - n
  <2>1. Mask \in Nat \ {0} /\ k - 1 \in Int
    BY <1>2, EncodingAssumption DEF Mask
  <2> QED
    BY <1>7, <2>1, Division
<1> QED
  BY <1>5, <1>6, <1>8

\* Every branch encode_detour_branch makes fits its field and lands on the
\* target it was made for, at both ends of its reach.
THEOREM EncodedBranchLands ==
  ASSUME NEW s \in Nat, NEW t \in Nat, Encodable(s, t)
  PROVE  Encoded(s, t) \in Fields /\ Landing(s, Encoded(s, t)) = t
<1>1. Word \in Nat \ {0} /\ Half \in Nat \ {0}
  BY EncodingAssumption
<1>2. CASE t >= s
  <2> DEFINE n == (t - s) \div Word
  <2>1. n \in Int /\ t - s = n * Word
    BY WholeWords DEF Encodable
  <2> HIDE DEF n
  <2>2. n <= Half - 1
    BY <1>1, <1>2, <2>1, Words DEF Encodable, ForwardMax
  <2>3. n >= 0
    BY <1>1, <1>2, <2>1, Words
  <2>4. Encoded(s, t) = n
    BY <1>1, <1>2, <2>2, <2>3 DEF Encoded, Displacement, Mask, n
  <2> QED
    BY <1>1, <2>1, <2>2, <2>3, <2>4 DEF Landing, Fields, Mask
<1>3. CASE t < s
  <2> DEFINE n == (s - t) \div Word
  <2>1. n \in Int /\ s - t = n * Word
    BY WholeWords DEF Encodable
  <2> HIDE DEF n
  <2>2. n <= Half
    BY <1>1, <1>3, <2>1, Words DEF Encodable, BackwardMax
  <2>3. n > 0
    BY <1>1, <1>3, <2>1, Words
  <2>4. Encoded(s, t) = Mask - n
    BY <1>1, <1>3, <2>1, <2>2, <2>3, NegateField DEF Encoded, Displacement, n
  <2>5. ~(Mask - n < Half)
    BY <1>1, <2>1, <2>2 DEF Mask
  <2>6. s + ((Mask - n) - Mask) * Word = t
    BY <1>1, <2>1 DEF Mask
  <2> QED
    BY <1>1, <2>1, <2>2, <2>3, <2>4, <2>5, <2>6 DEF Landing, Fields, Mask
<1> QED
  BY <1>2, <1>3

\* What encode_detour_branch refuses is out of the reach of every branch: an
\* island is never taken for a target one instruction can reach.
THEOREM RefusedIsUnreachable ==
  ASSUME NEW s \in Nat, NEW t \in Nat, s % Word = 0, ~Encodable(s, t), NEW field \in Fields
  PROVE  Landing(s, field) # t
<1> SUFFICES ASSUME Landing(s, field) = t PROVE Encodable(s, t)
  OBVIOUS
<1>1. Word \in Nat \ {0} /\ Half \in Nat \ {0} /\ field \in Int
  BY EncodingAssumption DEF Fields
<1> DEFINE n == IF field < Half THEN field ELSE field - Mask
<1>2. n \in Int /\ n <= Half - 1 /\ -n <= Half
  BY <1>1 DEF Fields, Mask
<1>3. t = s + n * Word
  BY DEF Landing
<1> HIDE DEF n
<1>4. t % Word = 0
  <2> DEFINE m == (s \div Word) + n
  <2>1. s = Word * (s \div Word) /\ s \div Word \in Int
    BY <1>1
  <2>2. t = m * Word + 0 /\ m \in Int /\ 0 \in 0 .. Word - 1
    BY <1>1, <1>2, <1>3, <2>1
  <2> HIDE DEF m
  <2>3. (m * Word + 0) % Word = 0
    BY <1>1, <2>2, Division
  <2> QED
    BY <2>2, <2>3
<1>5. n * Word <= ForwardMax /\ -(n * Word) <= BackwardMax
  <2>1. (Half - 1 - n) * Word >= 0 /\ (Half + n) * Word >= 0
    BY <1>1, <1>2
  <2> QED
    BY <1>1, <1>2, <2>1 DEF ForwardMax, BackwardMax
<1> QED
  BY <1>1, <1>2, <1>3, <1>4, <1>5 DEF Encodable

-----------------------------------------------------------------------------
(* Free lists and owners                                                     *)

\* Element j of the spliced list t comes from s or is new.
Origin(t, j, s, m, n, new) ==
  \/ j \in 1 .. m /\ t[j] = s[j]
  \/ \E k \in 1 .. Len(new) : j = m + k /\ t[j] = new[k]
  \/ \E k \in n .. Len(s) : j = m + Len(new) + (k - n + 1) /\ t[j] = s[k]

\* t has exactly the elements of s up to m and from n on, and those of new.
Spliced(t, s, m, n, new) ==
  /\ t \in Seq(Ranges)
  /\ \A j \in 1 .. Len(t) : Origin(t, j, s, m, n, new)
  /\ \A k \in 1 .. Len(s) : k <= m \/ k >= n => \E j \in 1 .. Len(t) : t[j] = s[k]
  /\ \A k \in 1 .. Len(new) : \E j \in 1 .. Len(t) : t[j] = new[k]

\* Replacing the middle of a list of ranges.
LEMMA SpliceCases ==
  ASSUME NEW s \in Seq(Ranges), NEW new \in Seq(Ranges),
         NEW m \in 0 .. Len(s), NEW n \in m + 1 .. Len(s) + 1
  PROVE  Spliced(Splice(s, m, n, new), s, m, n, new)
<1> DEFINE left == SubSeq(s, 1, m)
           right == SubSeq(s, n, Len(s))
<1>1. Len(s) \in Nat /\ Len(new) \in Nat
  BY LenProperties
<1>2. left \in Seq(Ranges) /\ Len(left) = m /\ \A i \in 1 .. m : left[i] = s[i]
  BY <1>1
<1>3. right \in Seq(Ranges) /\ Len(right) = Len(s) - n + 1
      /\ \A i \in 1 .. Len(s) - n + 1 : right[i] = s[n + i - 1]
  BY <1>1
<1> DEFINE prefix == left \o new
           t == prefix \o right
<1>4. prefix \in Seq(Ranges) /\ Len(prefix) = m + Len(new)
      /\ (\A i \in 1 .. m : prefix[i] = s[i])
      /\ (\A i \in 1 .. Len(new) : prefix[m + i] = new[i])
  BY <1>1, <1>2
<1> HIDE DEF left, right, prefix
<1>5. t \in Seq(Ranges) /\ Len(t) = Len(prefix) + Len(right)
  BY <1>3, <1>4, ConcatProperties
<1>6. \A i \in 1 .. m + Len(new) : t[i] = prefix[i]
  BY <1>1, <1>3, <1>4, ConcatProperties
<1>7. \A i \in 1 .. Len(s) - n + 1 : t[m + Len(new) + i] = right[i]
  <2>1. SUFFICES ASSUME NEW i \in 1 .. Len(s) - n + 1
                 PROVE  t[m + Len(new) + i] = right[i]
    OBVIOUS
  <2>2. PICK k : k = m + Len(new) + i
    OBVIOUS
  <2>3. k \in 1 .. Len(prefix) + Len(right) /\ ~(k <= Len(prefix)) /\ k - Len(prefix) = i
    <3>1. Len(prefix) = m + Len(new) /\ Len(right) = Len(s) - n + 1
      BY <1>3, <1>4
    <3>2. m \in Nat /\ n \in Nat /\ i \in Nat /\ 1 <= i /\ i <= Len(s) - n + 1
      BY <1>1
    <3>3. QED
      BY <1>1, <2>2, <3>1, <3>2
  <2>4. t[k] = right[k - Len(prefix)]
    <3>1. prefix \in Seq(Ranges) /\ right \in Seq(Ranges)
      BY <1>3, <1>4
    <3>2. QED
      BY ONLY <2>3, <3>1, ConcatProperties
  <2>5. QED
    BY <2>2, <2>3, <2>4
<1>8. \A i \in n .. Len(s) : t[m + Len(new) + (i - n + 1)] = s[i]
  <2>1. SUFFICES ASSUME NEW i \in n .. Len(s)
                 PROVE  t[m + Len(new) + (i - n + 1)] = s[i]
    OBVIOUS
  <2>2. PICK k : k = i - n + 1
    OBVIOUS
  <2>3. k \in 1 .. Len(s) - n + 1 /\ n + k - 1 = i
    BY <1>1, <2>2
  <2>4. t[m + Len(new) + k] = right[k] /\ right[k] = s[n + k - 1]
    BY <1>3, <1>7, <2>3
  <2>5. QED
    BY <2>2, <2>3, <2>4
<1>9. /\ \A i \in 1 .. m : t[i] = s[i]
      /\ \A i \in 1 .. Len(new) : t[m + i] = new[i]
  BY <1>1, <1>4, <1>6
<1>10. Splice(s, m, n, new) = t
  BY DEF Splice, left, right, prefix
<1>11. /\ t \in Seq(Ranges)
       /\ Len(t) = m + Len(new) + (Len(s) - n + 1)
       /\ \A i \in 1 .. m : t[i] = s[i]
       /\ \A i \in 1 .. Len(new) : t[m + i] = new[i]
       /\ \A i \in n .. Len(s) : t[m + Len(new) + (i - n + 1)] = s[i]
  BY <1>1, <1>3, <1>4, <1>5, <1>8, <1>9
<1> HIDE DEF t
<1>12. ASSUME NEW j \in 1 .. Len(t)
      PROVE  Origin(t, j, s, m, n, new)
  <2>1. CASE j <= m
    BY <1>1, <1>11, <2>1 DEF Origin
  <2>2. CASE m < j /\ j <= m + Len(new)
    <3>1. PICK k : k = j - m
      OBVIOUS
    <3>2. k \in 1 .. Len(new) /\ j = m + k
      BY <1>1, <2>2, <3>1
    <3>3. t[m + k] = new[k]
      BY <1>11, <3>2
    <3>4. QED
      BY <3>2, <3>3 DEF Origin
  <2>3. CASE j > m + Len(new)
    <3>1. PICK k : k = j - m - Len(new) + n - 1
      OBVIOUS
    <3>2. k \in n .. Len(s) /\ j = m + Len(new) + (k - n + 1)
      BY <1>1, <1>11, <2>3, <3>1
    <3>3. t[m + Len(new) + (k - n + 1)] = s[k]
      BY <1>11, <3>2
    <3>4. QED
      BY <3>2, <3>3 DEF Origin
  <2>4. QED
    BY <1>1, <1>11, <2>1, <2>2, <2>3
<1>13. ASSUME NEW k \in 1 .. Len(s), k <= m \/ k >= n
      PROVE  \E j \in 1 .. Len(t) : t[j] = s[k]
  <2>1. CASE k <= m
    BY <1>1, <1>11, <2>1
  <2>2. CASE k >= n
    <3>1. PICK j : j = m + Len(new) + (k - n + 1)
      OBVIOUS
    <3>2. j \in 1 .. Len(t) /\ k \in n .. Len(s)
      BY <1>1, <1>11, <2>2, <3>1
    <3>3. QED
      BY <1>11, <3>1, <3>2
  <2>3. QED
    BY <1>13, <2>1, <2>2
<1>14. ASSUME NEW k \in 1 .. Len(new)
      PROVE  \E j \in 1 .. Len(t) : t[j] = new[k]
  <2>1. PICK j : j = m + k
    OBVIOUS
  <2>2. j \in 1 .. Len(t)
    BY <1>1, <1>11, <2>1
  <2>3. QED
    BY <1>11, <2>1, <2>2
<1>15. QED
  BY <1>10, <1>11, <1>12, <1>13, <1>14 DEF Spliced

LEMMA SpliceType ==
  ASSUME NEW s \in Seq(Ranges), NEW new \in Seq(Ranges),
         NEW m \in 0 .. Len(s), NEW n \in m + 1 .. Len(s) + 1
  PROVE  Splice(s, m, n, new) \in Seq(Ranges)
  BY SpliceCases DEF Spliced

\* The sizes of allocations: rounding up never gives less.
LEMMA RoundUpProperties ==
  ASSUME NEW n \in Nat
  PROVE  RoundUp(n) \in Nat /\ RoundUp(n) >= n
  BY AlignmentAssumption DEF RoundUp

\* A place names a range of a published arena.
LEMMA PlaceProperties ==
  ASSUME TypeOK, NEW p \in FreePlaces
  PROVE  /\ list[p[1]] \in Arenas /\ list[p[1]] \in Published
         /\ p[2] \in 1 .. Len(free[list[p[1]]])
         /\ free[list[p[1]]] \in Seq(Ranges)
         /\ free[list[p[1]]][p[2]] \in Ranges
<1>1. PICK k \in 1 .. Len(list) : p \in {k} \X (1 .. Len(free[list[k]]))
  BY DEF FreePlaces
<1>2. list[k] \in Arenas /\ list[k] \in Published /\ free[list[k]] \in Seq(Ranges)
  BY DEF TypeOK, Published
<1>3. p[1] = k /\ p[2] \in 1 .. Len(free[list[k]])
  BY <1>1
<1>4. QED
  BY <1>2, <1>3

\* Unsigned subtraction gives a number, and inside an arena the offset.
LEMMA OffsetProperties ==
  ASSUME NEW a \in Arenas, NEW addr \in 0 .. AddressSpace - 1
  PROVE  /\ Offset(a, addr) \in Nat
         /\ Holds(a, addr) => addr = Base[a] + Offset(a, addr)
  BY ArenaAssumption, AlignmentAssumption DEF Offset, Holds

\* Putting a range back keeps a list of ranges.
LEMMA InsertType ==
  ASSUME NEW s \in Seq(Ranges), NEW m \in 0 .. Len(s), NEW r \in Ranges
  PROVE  Insert(s, m, r) \in Seq(Ranges)
<1> DEFINE joinsNext == m < Len(s) /\ r.offset + r.size = s[m + 1].offset
           joinsPrevious == m > 0 /\ s[m].offset + s[m].size = r.offset
           first == IF joinsPrevious THEN s[m].offset ELSE r.offset
           end == IF joinsNext THEN s[m + 1].offset + s[m + 1].size
                               ELSE r.offset + r.size
           lower == IF joinsPrevious THEN m - 1 ELSE m
           upper == IF joinsNext THEN m + 2 ELSE m + 1
           new == <<[offset |-> first, size |-> end - first]>>
<1>1. Len(s) \in Nat /\ \A i \in 1 .. Len(s) : s[i] \in Ranges
  BY LenProperties
<1>2. r.offset \in Nat /\ r.size \in Nat
      /\ \A i \in 1 .. Len(s) : s[i].offset \in Nat /\ s[i].size \in Nat
  BY <1>1 DEF Ranges
<1>3. lower \in 0 .. Len(s) /\ upper \in lower + 1 .. Len(s) + 1
  BY <1>1
<1>4. new \in Seq(Ranges)
  <2>1. first \in Nat /\ first <= r.offset
    <3>1. CASE joinsPrevious
      <4>1. m \in 1 .. Len(s)
        BY <1>1, <3>1
      <4>2. QED
        BY <1>2, <3>1, <4>1
    <3>2. CASE ~joinsPrevious
      BY <1>2, <3>2
    <3>3. QED
      BY <3>1, <3>2
  <2>2. end \in Nat /\ r.offset <= end
    <3>1. CASE joinsNext
      <4>1. m + 1 \in 1 .. Len(s)
        BY <1>1, <3>1
      <4>2. QED
        BY <1>2, <3>1, <4>1
    <3>2. CASE ~joinsNext
      BY <1>2, <3>2
    <3>3. QED
      BY <3>1, <3>2
  <2> HIDE DEF first, end
  <2>3. [offset |-> first, size |-> end - first] \in Ranges
    BY <1>2, <2>1, <2>2 DEF Ranges
  <2>4. QED
    BY <2>3
<1>5. Insert(s, m, r) = Splice(s, lower, upper, new)
  BY DEF Insert
<1> HIDE DEF lower, upper, new
<1>6. QED
  BY <1>3, <1>4, <1>5, SpliceType

LEMMA TypeInit == Init => TypeOK
  BY DEF Init, TypeOK, Nothing, Errors

\* Overwriting, adding and taking away instructions keeps a map of addresses.
LEMMA MapTypes ==
  ASSUME NEW f, DOMAIN f \subseteq Nat, \A x \in DOMAIN f : f[x] \in Nat
  PROVE  /\ \A lo, n : /\ DOMAIN Keep(f, lo, n) \subseteq Nat
                       /\ \A x \in DOMAIN Keep(f, lo, n) : Keep(f, lo, n)[x] \in Nat
         /\ \A s \in Nat, d \in Nat :
              /\ DOMAIN Put(f, s, d) \subseteq Nat
              /\ \A x \in DOMAIN Put(f, s, d) : Put(f, s, d)[x] \in Nat
         /\ \A s \in Nat, old \in SUBSET Nat :
              /\ DOMAIN Restored(f, s, old) \subseteq Nat
              /\ \A x \in DOMAIN Restored(f, s, old) : Restored(f, s, old)[x] \in Nat
  BY DEF Keep, Put, Restored

\* What a call can cut from a free range is made of ranges.
LEMMA RestType ==
  ASSUME NEW r \in Ranges, NEW n \in Nat, r.size >= n
  PROVE  Rest(r, n) \in Seq(Ranges) /\ [offset |-> r.offset, size |-> n] \in Ranges
<1>1. r.offset \in Nat /\ r.size \in Nat
  BY DEF Ranges
<1>2. [offset |-> r.offset + n, size |-> r.size - n] \in Ranges
  BY <1>1 DEF Ranges
<1>3. [offset |-> r.offset, size |-> n] \in Ranges
  BY <1>1 DEF Ranges
<1>4. Rest(r, n) \in Seq(Ranges)
  BY <1>2 DEF Rest
<1>5. QED
  BY <1>3, <1>4

LEMMA IslandCutType ==
  ASSUME TypeOK, NEW a \in Arenas, NEW r \in Ranges, NEW s \in Nat, Suits(a, r, s)
  PROVE  /\ Candidate(a, r, s) \in Nat
         /\ Candidate(a, r, s) - Base[a] \in Nat
         /\ r.offset <= Candidate(a, r, s) - Base[a]
         /\ Candidate(a, r, s) - Base[a] + Alignment <= r.offset + r.size
         /\ Leading(r, Candidate(a, r, s) - Base[a])
              \o Trailing(r, Candidate(a, r, s) - Base[a]) \in Seq(Ranges)
<1> DEFINE c == Candidate(a, r, s)
           offset == c - Base[a]
<1>1. r.offset \in Nat /\ r.size \in Nat /\ Base[a] \in Nat /\ Alignment \in Nat
  BY ArenaAssumption, AlignmentAssumption DEF Ranges
<1>2. Lowest(a, r, s) \in Nat
  <2>1. BackwardMax \in Nat
    BY EncodingAssumption DEF BackwardMax
  <2>2. QED
    BY <2>1, <1>1, AlignmentAssumption DEF Lowest, MinimumAddress
<1>3. c \in Nat
  BY <1>2, RoundUpProperties DEF Candidate
<1>4. offset >= r.offset /\ offset - r.offset <= r.size /\ Alignment <= r.size - (offset - r.offset)
  BY DEF Suits
<1> HIDE DEF c
<1>5. offset \in Nat /\ offset + Alignment <= r.offset + r.size
  BY <1>1, <1>3, <1>4
<1> HIDE DEF offset
<1>6. Leading(r, offset) \in Seq(Ranges)
  <2>1. [offset |-> r.offset, size |-> offset - r.offset] \in Ranges
    BY <1>1, <1>4, <1>5 DEF Ranges
  <2>2. QED
    BY <2>1 DEF Leading
<1>7. Trailing(r, offset) \in Seq(Ranges)
  <2>1. [offset |-> offset + Alignment, size |-> r.offset + r.size - (offset + Alignment)] \in Ranges
    BY <1>1, <1>5 DEF Ranges
  <2>2. QED
    BY <2>1 DEF Trailing
<1>8. QED
  BY <1>3, <1>4, <1>5, <1>6, <1>7 DEF c, offset

\* A call that only returns an error keeps the types.
LEMMA ReturnType ==
  ASSUME TypeOK, NEW e \in Errors, Return(e)
  PROVE  TypeOK'
  BY DEF Return, TypeOK

LEMMA PrepareType ==
  ASSUME TypeOK, Prepare
  PROVE  TypeOK'
<1>1. CASE Return("OK") \/ Return("EIO")
  BY <1>1, ReturnType DEF Errors
<1>2. ASSUME NEW a \in Arenas, Publish(a)
      PROVE  TypeOK'
  <2>1. list' \in Seq(Arenas)
    BY <1>2 DEF Publish, TypeOK
  <2>2. <<[offset |-> 0, size |-> Capacity[a]]>> \in Seq(Ranges)
    BY ArenaAssumption DEF Ranges
  <2>3. free' \in [Arenas -> Seq(Ranges)]
    BY <1>2, <2>2 DEF Publish, TypeOK
  <2>4. QED
    BY <1>2, <2>1, <2>3 DEF Publish, TypeOK, Errors
<1>3. QED
  BY <1>1, <1>2 DEF Prepare

LEMMA GrantType ==
  ASSUME TypeOK, NEW p \in FreePlaces, NEW n \in Nat,
         free[list[p[1]]][p[2]].size >= n, Grant(list[p[1]], p[2], n)
  PROVE  TypeOK'
<1> DEFINE a == list[p[1]]
           i == p[2]
           r == free[a][i]
<1>1. a \in Arenas /\ i \in 1 .. Len(free[a]) /\ free[a] \in Seq(Ranges) /\ r \in Ranges
  BY PlaceProperties
<1>2. Rest(r, n) \in Seq(Ranges) /\ [offset |-> r.offset, size |-> n] \in Ranges
  BY <1>1, RestType
<1>3. Splice(free[a], i - 1, i + 1, Rest(r, n)) \in Seq(Ranges)
  <2>1. Len(free[a]) \in Nat
    BY <1>1, LenProperties
  <2>2. i - 1 \in 0 .. Len(free[a]) /\ i + 1 \in i - 1 + 1 .. Len(free[a]) + 1
    BY <1>1, <2>1
  <2>3. QED
    BY <1>1, <1>2, <2>2, SpliceType
<1>4. /\ free' = [free EXCEPT ![a] = Splice(free[a], i - 1, i + 1, Rest(r, n))]
      /\ allocs' = [allocs EXCEPT ![a] = allocs[a] \cup {[offset |-> r.offset, size |-> n]}]
      /\ jump' = Keep(jump, Base[a] + r.offset, n)
      /\ patched' = Keep(patched, Base[a] + r.offset, n)
      /\ ret' = "OK"
      /\ UNCHANGED <<list, islands, spoiled, saved>>
  BY DEF Grant, Overwrite
<1> HIDE DEF a, i, r
<1>5. free' \in [Arenas -> Seq(Ranges)] /\ allocs' \in [Arenas -> SUBSET Ranges]
  BY <1>1, <1>2, <1>3, <1>4 DEF TypeOK
<1>6. /\ DOMAIN jump' \subseteq Nat /\ \A x \in DOMAIN jump' : jump'[x] \in Nat
      /\ DOMAIN patched' \subseteq Nat /\ \A x \in DOMAIN patched' : patched'[x] \in Nat
  BY <1>4, MapTypes DEF TypeOK
<1>7. QED
  BY <1>4, <1>5, <1>6 DEF TypeOK, Errors

LEMMA AllocType ==
  ASSUME TypeOK, NEW size \in Sizes, Alloc(size)
  PROVE  TypeOK'
<1>1. CASE Return("EINVAL") \/ Return("ENOMEM") \/ Return("EPERM")
  BY <1>1, ReturnType DEF Errors
<1>2. ASSUME NEW p \in FreePlaces, IsFirst(p, Fitting(RoundUp(size))),
             Grant(list[p[1]], p[2], RoundUp(size))
      PROVE  TypeOK'
  <2>1. RoundUp(size) \in Nat
    BY RoundUpProperties, InputAssumption, AlignmentAssumption
  <2>2. free[list[p[1]]][p[2]].size >= RoundUp(size)
    BY <1>2 DEF IsFirst, Fitting
  <2>3. QED
    BY <1>2, <2>1, <2>2, GrantType
<1>3. QED
  BY <1>1, <1>2 DEF Alloc, AllocFrom

LEMMA ReleaseType ==
  ASSUME TypeOK, NEW a \in Arenas, NEW r \in allocs[a], Release(a, r)
  PROVE  TypeOK'
<1>1. r \in Ranges /\ free[a] \in Seq(Ranges)
  BY DEF TypeOK
<1>2. PICK m \in 0 .. Len(free[a]) : free' = [free EXCEPT ![a] = Insert(free[a], m, r)]
  BY DEF Release
<1>3. free' \in [Arenas -> Seq(Ranges)]
  BY <1>1, <1>2, InsertType DEF TypeOK
<1>4. QED
  BY <1>3 DEF Release, TypeOK, Errors

LEMMA FreeType ==
  ASSUME TypeOK, NEW addr, NEW size, Free(addr, size)
  PROVE  TypeOK'
<1>1. CASE Return("OK")
  BY <1>1, ReturnType DEF Errors
<1>2. CASE Return("EINVAL")
  BY <1>2, ReturnType DEF Errors
<1>3. ASSUME NEW a \in Published, NEW r \in Freed(a, addr, size), Release(a, r)
      PROVE  TypeOK'
  <2>1. a \in Arenas
    BY DEF Published, TypeOK
  <2>2. r \in allocs[a]
    BY DEF Freed
  <2>3. QED
    BY <1>3, <2>1, <2>2, ReleaseType
<1>4. QED
  BY <1>1, <1>2, <1>3 DEF Free

\* The islands of an arena are records of addresses.
LEMMA IslandPlaceType ==
  ASSUME TypeOK, NEW p \in IslandPlaces
  PROVE  islands[list[p[1]]][p[2]] \in [address : Nat, target : Nat]
<1>1. PICK k \in 1 .. Len(list) : p \in {k} \X (1 .. Len(islands[list[k]]))
  BY DEF IslandPlaces
<1>2. p[1] = k /\ p[2] \in 1 .. Len(islands[list[k]]) /\ list[k] \in Arenas
  BY <1>1 DEF TypeOK
<1>3. islands[list[k]] \in Seq([address : Nat, target : Nat])
  BY <1>2 DEF TypeOK
<1>4. islands[list[k]][p[2]] \in [address : Nat, target : Nat]
  BY <1>2, <1>3, ElementOfSeq, Zenon
<1>5. QED
  BY <1>2, <1>4

LEMMA HitType ==
  ASSUME TypeOK, NEW lo, NEW n
  PROVE  spoiled \cup Hit(lo, n) \subseteq Nat
<1>1. \A p \in IslandPlaces : islands[list[p[1]]][p[2]].address \in Nat
  BY IslandPlaceType
<1>2. QED
  BY <1>1 DEF Hit, IslandAddresses, TypeOK

LEMMA WriteMemoryType ==
  ASSUME TypeOK, NEW addr, NEW size, WriteMemory(addr, size)
  PROVE  TypeOK'
<1>1. spoiled' \subseteq Nat
  BY HitType DEF WriteMemory
<1>2. /\ DOMAIN jump' \subseteq Nat /\ \A x \in DOMAIN jump' : jump'[x] \in Nat
      /\ DOMAIN patched' \subseteq Nat /\ \A x \in DOMAIN patched' : patched'[x] \in Nat
  BY MapTypes DEF TypeOK, WriteMemory, Overwrite
<1>3. QED
  BY <1>1, <1>2 DEF TypeOK, WriteMemory, Errors

\* A branch that is encoded arrives.
LEMMA BranchArrives ==
  ASSUME NEW s \in Nat, NEW d \in Nat, Encodable(s, d)
  PROVE  BranchTo(s, d) = d
  BY EncodedBranchLands DEF BranchTo

LEMMA BranchType ==
  ASSUME TypeOK, NEW s \in Nat, NEW d \in Nat, NEW t \in Nat, Encodable(s, d),
         Branch(s, d, t),
         UNCHANGED <<list, free, allocs, islands, saved>>, ret' = "OK"
  PROVE  TypeOK'
<1>1. /\ DOMAIN jump' \subseteq Nat /\ \A x \in DOMAIN jump' : jump'[x] \in Nat
      /\ DOMAIN patched' \subseteq Nat /\ \A x \in DOMAIN patched' : patched'[x] \in Nat
  BY BranchArrives, MapTypes DEF Branch, TypeOK
<1>2. spoiled' \subseteq Nat
  BY HitType DEF Branch
<1>3. QED
  BY <1>1, <1>2 DEF TypeOK, Errors

LEMMA CarveType ==
  ASSUME TypeOK, NEW p \in FreePlaces, NEW s \in Nat, NEW t \in Nat, p \in Suitable(s),
         Carve(list[p[1]], p[2], s, t), ret' = "OK"
  PROVE  TypeOK'
<1> DEFINE a == list[p[1]]
           i == p[2]
           r == free[a][i]
           c == Candidate(a, r, s)
           cut == Leading(r, c - Base[a]) \o Trailing(r, c - Base[a])
<1>1. a \in Arenas /\ i \in 1 .. Len(free[a]) /\ free[a] \in Seq(Ranges) /\ r \in Ranges
  BY PlaceProperties
<1>2. c \in Nat /\ c - Base[a] \in Nat /\ cut \in Seq(Ranges)
  BY <1>1, IslandCutType DEF Suitable
<1>3. /\ free' = [free EXCEPT ![a] = Splice(free[a], i - 1, i + 1, cut)]
      /\ allocs' = [allocs EXCEPT ![a] = allocs[a] \cup {[offset |-> c - Base[a], size |-> Alignment]}]
      /\ islands' = [islands EXCEPT ![a] = Push(islands[a], [address |-> c, target |-> t])]
      /\ jump' = Put(Put(Keep(jump, c, Alignment), c, t), s, BranchTo(s, c))
      /\ patched' = Put(Keep(patched, c, Alignment), s, t)
      /\ UNCHANGED <<list, saved>>
  BY DEF Carve
<1>11. BranchTo(s, c) = c
  BY <1>2, BranchArrives DEF Suitable, Suits
<1>4. Splice(free[a], i - 1, i + 1, cut) \in Seq(Ranges)
  <2> HIDE DEF a, i, cut
  <2>1. Len(free[a]) \in Nat
    BY <1>1, LenProperties
  <2>2. i - 1 \in 0 .. Len(free[a]) /\ i + 1 \in i - 1 + 1 .. Len(free[a]) + 1
    BY <1>1, <2>1
  <2>3. QED
    BY <1>1, <1>2, <2>2, SpliceType
<1> HIDE DEF a, i, r, c, cut
<1>5. free' \in [Arenas -> Seq(Ranges)]
  BY <1>1, <1>3, <1>4 DEF TypeOK
<1>6. allocs' \in [Arenas -> SUBSET Ranges]
  <2>1. [offset |-> c - Base[a], size |-> Alignment] \in Ranges
    BY <1>2, AlignmentAssumption DEF Ranges
  <2>2. QED
    BY <1>1, <1>3, <2>1 DEF TypeOK
<1>7. islands' \in [Arenas -> Seq([address : Nat, target : Nat])]
  <2>1. [address |-> c, target |-> t] \in [address : Nat, target : Nat]
    BY <1>2
  <2>2. Push(islands[a], [address |-> c, target |-> t]) \in Seq([address : Nat, target : Nat])
    BY <1>1, <2>1 DEF Push, TypeOK
  <2>3. QED
    BY <1>1, <1>3, <2>2 DEF TypeOK
<1>8. DOMAIN jump' \subseteq Nat /\ \A x \in DOMAIN jump' : jump'[x] \in Nat
  <2> DEFINE j1 == Keep(jump, c, Alignment)
             j2 == Put(j1, c, t)
  <2>1. DOMAIN j1 \subseteq Nat /\ \A x \in DOMAIN j1 : j1[x] \in Nat
    BY MapTypes DEF TypeOK
  <2> HIDE DEF j1
  <2>2. DOMAIN j2 \subseteq Nat /\ \A x \in DOMAIN j2 : j2[x] \in Nat
    BY <1>2, <2>1, MapTypes
  <2>3. jump' = Put(j2, s, c)
    BY <1>3, <1>11 DEF j1
  <2> HIDE DEF j2
  <2>4. QED
    BY <1>2, <2>2, <2>3, MapTypes
<1>9. DOMAIN patched' \subseteq Nat /\ \A x \in DOMAIN patched' : patched'[x] \in Nat
  <2> DEFINE q == Keep(patched, c, Alignment)
  <2>1. DOMAIN q \subseteq Nat /\ \A x \in DOMAIN q : q[x] \in Nat
    BY MapTypes DEF TypeOK
  <2>2. patched' = Put(q, s, t)
    BY <1>3
  <2> HIDE DEF q
  <2>3. QED
    BY <2>1, <2>2, MapTypes
<1>10. spoiled' \subseteq Nat
  BY HitType DEF Carve
<1>12. QED
  BY <1>3, <1>5, <1>6, <1>7, <1>8, <1>9, <1>10 DEF TypeOK, Errors

LEMMA DetourApplyType ==
  ASSUME TypeOK, NEW s \in Sources, NEW t \in Targets, DetourApply(s, t)
  PROVE  TypeOK'
<1>1. s \in Nat /\ t \in Nat
  BY InputAssumption, AlignmentAssumption
<1>2. CASE Return("EINVAL") \/ Return("EFAULT") \/ Return("ENOMEM")
  BY <1>2, ReturnType DEF Errors
<1>3. CASE DetourError(s, t) # "OK" /\ Return(DetourError(s, t))
  BY <1>3, ReturnType DEF Errors, DetourError, Validate
<1>4. CASE ApplyDirect(s, t)
  BY <1>1, <1>4, BranchType DEF ApplyDirect
<1>5. CASE ApplyReuse(s, t)
  <2>1. PICK p \in IslandPlaces : /\ Branch(s, islands[list[p[1]]][p[2]].address, t)
                                  /\ Encodable(s, islands[list[p[1]]][p[2]].address)
    BY <1>5 DEF ApplyReuse, IsFirst, Reusable
  <2>2. islands[list[p[1]]][p[2]].address \in Nat
    BY IslandPlaceType
  <2>3. QED
    BY <1>1, <1>5, <2>1, <2>2, BranchType DEF ApplyReuse
<1>6. CASE ApplyIsland(s, t)
  <2>1. ASSUME NEW p \in FreePlaces, IsFirst(p, Suitable(s)),
               Carve(list[p[1]], p[2], s, t), ret' = "OK"
        PROVE  TypeOK'
    BY <1>1, <2>1, CarveType DEF IsFirst
  <2>2. QED
    BY <1>2, <1>6, <2>1 DEF ApplyIsland
<1>7. QED
  BY <1>3, <1>4, <1>5, <1>6 DEF DetourApply

LEMMA InstructionType ==
  ASSUME NEW f, \A x \in DOMAIN f : f[x] \in Nat, NEW s
  PROVE  Instruction(f, s) \in SUBSET Nat
  BY DEF Instruction

LEMMA DetourBackupType ==
  ASSUME TypeOK, NEW s \in Sources, NEW b \in Buffers, NEW size, DetourBackup(s, b, size)
  PROVE  TypeOK'
<1>1. CASE BufferError(s, b, size) # "OK" /\ Return(BufferError(s, b, size))
  BY <1>1, ReturnType DEF Errors, BufferError, Validate
<1>2. ASSUME saved' = Put(saved, b, [at |-> s, jump |-> Instruction(jump, s),
                                     patched |-> Instruction(patched, s)]),
             ret' = "OK", UNCHANGED <<list, free, allocs, islands, jump, patched, spoiled>>
      PROVE  TypeOK'
  <2>1. s \in Nat
    BY InputAssumption, AlignmentAssumption
  <2>2. Instruction(jump, s) \in SUBSET Nat /\ Instruction(patched, s) \in SUBSET Nat
    BY InstructionType DEF TypeOK
  <2>3. [at |-> s, jump |-> Instruction(jump, s), patched |-> Instruction(patched, s)]
          \in [at : Nat, jump : SUBSET Nat, patched : SUBSET Nat]
    BY <2>1, <2>2
  <2>4. /\ DOMAIN saved' \subseteq Buffers
        /\ \A x \in DOMAIN saved' :
             saved'[x] \in [at : Nat, jump : SUBSET Nat, patched : SUBSET Nat]
    BY <1>2, <2>3 DEF TypeOK, Put
  <2>5. QED
    BY <1>2, <2>4 DEF TypeOK, Errors
<1>3. QED
  BY <1>1, <1>2 DEF DetourBackup

LEMMA DetourRestoreType ==
  ASSUME TypeOK, NEW b \in Buffers, NEW size, DetourRestore(b, size)
  PROVE  TypeOK'
<1> DEFINE s == saved[b].at
<1>1. b \in DOMAIN saved
  BY DEF DetourRestore
<1>2. CASE BufferError(s, b, size) # "OK" /\ Return(BufferError(s, b, size))
  BY <1>2, ReturnType DEF Errors, BufferError, Validate
<1>3. ASSUME jump' = Restored(jump, s, saved[b].jump),
             patched' = Restored(patched, s, saved[b].patched),
             spoiled' = spoiled \cup Hit(s, Word),
             ret' = "OK", UNCHANGED <<list, free, allocs, islands, saved>>
      PROVE  TypeOK'
  <2>1. s \in Nat /\ saved[b].jump \in SUBSET Nat /\ saved[b].patched \in SUBSET Nat
    BY <1>1 DEF TypeOK
  <2>2. /\ DOMAIN jump' \subseteq Nat /\ \A x \in DOMAIN jump' : jump'[x] \in Nat
        /\ DOMAIN patched' \subseteq Nat /\ \A x \in DOMAIN patched' : patched'[x] \in Nat
    BY <1>3, <2>1, MapTypes DEF TypeOK
  <2>3. spoiled' \subseteq Nat
    BY <1>3, HitType
  <2>4. QED
    BY <1>3, <2>2, <2>3 DEF TypeOK, Errors
<1>4. QED
  BY <1>2, <1>3 DEF DetourRestore

LEMMA CleanupType ==
  ASSUME TypeOK, Cleanup
  PROVE  TypeOK'
  BY DEF Cleanup, TypeOK, Nothing, Errors

LEMMA TypeStep ==
  ASSUME TypeOK, [Next]_vars
  PROVE  TypeOK'
<1>1. CASE UNCHANGED vars
  BY <1>1 DEF vars, TypeOK
<1>2. CASE Prepare
  BY <1>2, PrepareType
<1>3. ASSUME NEW size \in Sizes, Alloc(size)
      PROVE  TypeOK'
  BY <1>3, AllocType
<1>4. ASSUME NEW addr \in Blocks, NEW size \in Sizes, Free(addr, size)
      PROVE  TypeOK'
  BY <1>4, FreeType
<1>5. ASSUME NEW addr \in Blocks, NEW size \in Sizes, WriteMemory(addr, size)
      PROVE  TypeOK'
  BY <1>5, WriteMemoryType
<1>6. ASSUME NEW s \in Sources, NEW t \in Targets, DetourApply(s, t)
      PROVE  TypeOK'
  BY <1>6, DetourApplyType
<1>7. ASSUME NEW s \in Sources, NEW b \in Buffers, NEW size \in Sizes, DetourBackup(s, b, size)
      PROVE  TypeOK'
  BY <1>7, DetourBackupType
<1>8. ASSUME NEW b \in Buffers, NEW size \in Sizes, DetourRestore(b, size)
      PROVE  TypeOK'
  BY <1>8, DetourRestoreType
<1>9. ASSUME NEW s \in Sources, NEW size \in Sizes, DetourValidate(s, size)
      PROVE  TypeOK'
  BY <1>9, ReturnType DEF DetourValidate, Validate, Errors
<1>10. CASE Cleanup
  BY <1>10, CleanupType
<1>11. QED
  BY <1>1, <1>2, <1>3, <1>4, <1>5, <1>6, <1>7, <1>8, <1>9, <1>10 DEF Next

\* In every behaviour of the pool, every variable keeps its type: sizes and
\* offsets computed by unsigned subtraction never wrap below zero.
THEOREM TypeCorrect == Spec => []TypeOK
<1>1. TypeOK /\ [Next]_vars => TypeOK'
  BY TypeStep
<1>2. QED
  BY <1>1, TypeInit, PTL DEF Spec

-----------------------------------------------------------------------------
(* Ownership: the free ranges and the allocations tile an arena.           *)

Tiled(s, A, capacity) == Apart(s) /\ Exclusive(s, A, capacity) /\ Exhaustive(s, A, capacity)

\* Taking x out of free range i and leaving new keeps an arena tiled.
LEMMA CutTiled ==
  ASSUME NEW s \in Seq(Ranges), NEW A \in SUBSET Ranges, NEW capacity \in Nat,
         Tiled(s, A, capacity),
         NEW i \in 1 .. Len(s), NEW new \in Seq(Ranges), NEW x \in Ranges,
         Apart(new), x.size > 0,
         s[i].offset <= x.offset, End(x) <= End(s[i]),
         \A k \in 1 .. Len(new) : /\ s[i].offset <= new[k].offset /\ End(new[k]) <= End(s[i])
                                  /\ End(x) <= new[k].offset \/ End(new[k]) <= x.offset,
         \A y \in s[i].offset .. End(s[i]) - 1 :
           \/ x.offset <= y /\ y < End(x)
           \/ \E k \in 1 .. Len(new) : new[k].offset <= y /\ y < End(new[k])
  PROVE  Tiled(Splice(s, i - 1, i + 1, new), A \cup {x}, capacity)
<1> DEFINE t == Splice(s, i - 1, i + 1, new)
           B == A \cup {x}
           m == i - 1
           n == i + 1
<1>1. Len(s) \in Nat /\ Len(new) \in Nat
  BY LenProperties
<1>2. m \in 0 .. Len(s) /\ n \in m + 1 .. Len(s) + 1
  BY <1>1
<1>3. /\ t \in Seq(Ranges)
      /\ \A j \in 1 .. Len(t) : Origin(t, j, s, m, n, new)
      /\ \A k \in 1 .. Len(s) : k <= m \/ k >= n => \E j \in 1 .. Len(t) : t[j] = s[k]
      /\ \A k \in 1 .. Len(new) : \E j \in 1 .. Len(t) : t[j] = new[k]
  <2>1. t = Splice(s, m, n, new)
    OBVIOUS
  <2> HIDE DEF t, m, n
  <2>2. Spliced(t, s, m, n, new)
    BY <1>2, <2>1, SpliceCases
  <2>3. QED
    BY <2>2 DEF Spliced
<1>4. /\ \A k \in 1 .. Len(s) : s[k] \in Ranges /\ s[k].offset \in Nat /\ s[k].size \in Nat /\ End(s[k]) \in Nat
      /\ \A k \in 1 .. Len(new) : new[k] \in Ranges /\ new[k].offset \in Nat /\ new[k].size \in Nat /\ End(new[k]) \in Nat
      /\ \A r \in A : r.offset \in Nat /\ r.size \in Nat /\ End(r) \in Nat
      /\ x.offset \in Nat /\ x.size \in Nat /\ End(x) \in Nat
  <2>1. \A r \in Ranges : r.offset \in Nat /\ r.size \in Nat /\ End(r) \in Nat
    BY DEF Ranges, End
  <2>2. (\A k \in 1 .. Len(s) : s[k] \in Ranges) /\ (\A k \in 1 .. Len(new) : new[k] \in Ranges)
    OBVIOUS
  <2>3. QED
    BY <2>1, <2>2
<1>5. /\ \A j \in 1 .. Len(s) : s[j].size > 0 /\ End(s[j]) <= capacity
      /\ \A j \in 1 .. Len(s), k \in 1 .. Len(s) : j < k => End(s[j]) < s[k].offset
      /\ \A j \in 1 .. Len(new) : new[j].size > 0
      /\ \A j \in 1 .. Len(new), k \in 1 .. Len(new) : j < k => End(new[j]) < new[k].offset
  <2>1. Apart(s) /\ Exclusive(s, A, capacity) /\ Apart(new)
    BY DEF Tiled
  <2>2. /\ \A j \in 1 .. Len(s), k \in 1 .. Len(s) : j < k => k \in j + 1 .. Len(s)
        /\ \A j \in 1 .. Len(new), k \in 1 .. Len(new) : j < k => k \in j + 1 .. Len(new)
    BY <1>1
  <2>3. QED
    BY <2>1, <2>2 DEF Apart, Exclusive
<1>6. \A j \in 1 .. Len(new) : s[i].offset <= new[j].offset /\ End(new[j]) <= End(s[i])
  OBVIOUS
<1> HIDE DEF t, B, m, n
<1>7. Apart(t)
  <2>1. m = i - 1 /\ n = i + 1 /\ i \in Nat /\ Len(t) \in Nat
    BY <1>1, <1>3, LenProperties DEF m, n
  <2>2. ASSUME NEW j \in 1 .. Len(t)
        PROVE  t[j].size > 0
    <3>1. (\E k \in 1 .. Len(s) : t[j] = s[k]) \/ (\E k \in 1 .. Len(new) : t[j] = new[k])
      BY <1>1, <1>3, <2>1 DEF Origin
    <3>2. QED
      BY <1>5, <3>1
  <2>3. ASSUME NEW j \in 1 .. Len(t), NEW k \in 1 .. Len(t), j < k
        PROVE  End(t[j]) < t[k].offset
    <3>1. CASE j \in 1 .. m /\ t[j] = s[j]
      <4>1. j \in 1 .. Len(s) /\ j < i
        BY <1>1, <2>1, <3>1
      <4>2. CASE k \in 1 .. m /\ t[k] = s[k]
        <5>1. k \in 1 .. Len(s)
          BY <1>1, <2>1, <4>2
        <5>2. QED
          BY <1>5, <2>3, <3>1, <4>1, <4>2, <5>1
      <4>3. ASSUME NEW l \in 1 .. Len(new), t[k] = new[l]
            PROVE  End(t[j]) < t[k].offset
        <5>1. End(s[j]) < s[i].offset
          BY <1>5, <4>1
        <5>2. s[i].offset <= new[l].offset
          BY <1>6
        <5>3. End(s[j]) \in Nat /\ s[i].offset \in Nat /\ new[l].offset \in Nat
          BY <1>4, <4>1
        <5>4. QED
          BY ONLY <3>1, <4>3, <5>1, <5>2, <5>3
      <4>4. ASSUME NEW l \in n .. Len(s), t[k] = s[l]
            PROVE  End(t[j]) < t[k].offset
        <5>1. l \in 1 .. Len(s) /\ j < l
          BY <1>1, <2>1, <4>1
        <5>2. QED
          BY <1>5, <3>1, <4>1, <4>4, <5>1
      <4>5. QED
        BY <1>3, <4>2, <4>3, <4>4 DEF Origin
    <3>2. ASSUME NEW h \in 1 .. Len(new), j = m + h, t[j] = new[h]
          PROVE  End(t[j]) < t[k].offset
      <4>1. ASSUME NEW l \in 1 .. Len(new), k = m + l, t[k] = new[l]
            PROVE  End(t[j]) < t[k].offset
        <5>1. h < l
          BY <1>1, <2>1, <2>3, <3>2, <4>1
        <5>2. QED
          BY <1>5, <3>2, <4>1, <5>1
      <4>2. ASSUME NEW l \in n .. Len(s), t[k] = s[l]
            PROVE  End(t[j]) < t[k].offset
        <5>1. l \in 1 .. Len(s) /\ i < l
          BY <1>1, <2>1
        <5>2. End(s[i]) < s[l].offset /\ End(new[h]) <= End(s[i])
          BY <1>5, <1>6, <5>1
        <5>3. End(s[i]) \in Nat /\ s[l].offset \in Nat /\ End(new[h]) \in Nat
          BY <1>4, <5>1
        <5>4. QED
          BY ONLY <3>2, <4>2, <5>2, <5>3
      <4>3. ~(k \in 1 .. m)
        BY <1>1, <2>1, <2>3, <3>2
      <4>4. QED
        BY <1>3, <4>1, <4>2, <4>3 DEF Origin
    <3>3. ASSUME NEW h \in n .. Len(s), j = m + Len(new) + (h - n + 1), t[j] = s[h]
          PROVE  End(t[j]) < t[k].offset
      <4>1. ASSUME NEW l \in n .. Len(s), k = m + Len(new) + (l - n + 1), t[k] = s[l]
            PROVE  End(t[j]) < t[k].offset
        <5>1. h \in 1 .. Len(s) /\ l \in 1 .. Len(s) /\ h \in Nat /\ l \in Nat
          BY <1>1, <2>1
        <5>2. m \in Int /\ n \in Int
          BY <2>1
        <5>3. h < l
          BY <1>1, <2>3, <3>3, <4>1, <5>1, <5>2
        <5>4. QED
          BY <1>5, <3>3, <4>1, <5>1, <5>3
      <4>2. ~(k \in 1 .. m) /\ ~(\E l \in 1 .. Len(new) : k = m + l)
        BY <1>1, <2>1, <2>3, <3>3
      <4>3. QED
        BY <1>3, <4>1, <4>2 DEF Origin
    <3>4. QED
      BY <1>3, <3>1, <3>2, <3>3 DEF Origin
  <2>4. QED
    BY <2>1, <2>2, <2>3 DEF Apart
<1>8. Exclusive(t, B, capacity)
  <2>1. \A j \in 1 .. Len(t) : \/ \E k \in 1 .. Len(s) : k # i /\ t[j] = s[k]
                               \/ \E k \in 1 .. Len(new) : t[j] = new[k]
    <3>1. \A k \in 1 .. m : k \in 1 .. Len(s) /\ k # i
      BY <1>1 DEF m
    <3>2. \A k \in n .. Len(s) : k \in 1 .. Len(s) /\ k # i
      BY <1>1 DEF n
    <3>3. QED
      BY <1>3, <3>1, <3>2 DEF Origin
  <2>2. ASSUME NEW j \in 1 .. Len(t)
        PROVE  End(t[j]) <= capacity
    <3>1. \A k \in 1 .. Len(s) : End(s[k]) <= capacity
      BY <1>5
    <3>2. ASSUME NEW k \in 1 .. Len(new)
          PROVE  End(new[k]) <= capacity
      <4>1. End(new[k]) <= End(s[i]) /\ End(s[i]) <= capacity
        BY <1>6, <3>1
      <4>2. End(new[k]) \in Nat /\ End(s[i]) \in Nat
        BY <1>4
      <4>3. QED
        BY <4>1, <4>2
    <3>3. QED
      BY <2>1, <3>1, <3>2
  <2>3. \A r \in A : r.size > 0 /\ End(r) <= capacity
    BY DEF Tiled, Exclusive
  <2>4. x.size > 0 /\ End(x) <= capacity
    BY <1>4, <1>5
  <2>5. \A r \in A, k \in 1 .. Len(s) : End(r) <= s[k].offset \/ End(s[k]) <= r.offset
    BY DEF Tiled, Exclusive
  <2>6. \A r \in A : End(r) <= x.offset \/ End(x) <= r.offset
    BY <1>4, <2>5
  <2>7. \A r, q \in A : r # q => End(r) <= q.offset \/ End(q) <= r.offset
    BY DEF Tiled, Exclusive
  <2>8. \A r, q \in B : r # q => End(r) <= q.offset \/ End(q) <= r.offset
    BY <2>6, <2>7 DEF B
  <2>9. ASSUME NEW r \in B, NEW j \in 1 .. Len(t)
        PROVE  End(r) <= t[j].offset \/ End(t[j]) <= r.offset
    <3>1. CASE r \in A
      <4>1. CASE \E k \in 1 .. Len(s) : t[j] = s[k]
        BY <2>5, <3>1, <4>1
      <4>2. ASSUME NEW k \in 1 .. Len(new), t[j] = new[k]
            PROVE  End(r) <= t[j].offset \/ End(t[j]) <= r.offset
        <5>1. End(r) <= s[i].offset \/ End(s[i]) <= r.offset
          BY <2>5, <3>1
        <5>2. s[i].offset <= new[k].offset /\ End(new[k]) <= End(s[i])
          BY <1>6
        <5>3. /\ End(r) \in Nat /\ r.offset \in Nat /\ s[i].offset \in Nat /\ End(s[i]) \in Nat
              /\ new[k].offset \in Nat /\ End(new[k]) \in Nat
          BY <1>4, <3>1
        <5>4. QED
          BY ONLY <4>2, <5>1, <5>2, <5>3
      <4>3. QED
        BY <2>1, <4>1, <4>2
    <3>2. CASE r = x
      <4>1. CASE \E k \in 1 .. Len(new) : t[j] = new[k]
        BY <3>2, <4>1
      <4>2. ASSUME NEW k \in 1 .. Len(s), k # i, t[j] = s[k]
            PROVE  End(r) <= t[j].offset \/ End(t[j]) <= r.offset
        <5>1. End(s[k]) < s[i].offset \/ End(s[i]) < s[k].offset
          BY <1>1, <1>5, <4>2
        <5>2. s[i].offset <= x.offset /\ End(x) <= End(s[i])
          OBVIOUS
        <5>3. /\ End(s[k]) \in Nat /\ s[k].offset \in Nat /\ s[i].offset \in Nat /\ End(s[i]) \in Nat
              /\ x.offset \in Nat /\ End(x) \in Nat
          BY <1>4
        <5>4. QED
          BY ONLY <3>2, <4>2, <5>1, <5>2, <5>3
      <4>3. QED
        BY <2>1, <4>1, <4>2
    <3>3. QED
      BY <3>1, <3>2 DEF B
  <2>10. QED
    BY <2>2, <2>3, <2>4, <2>8, <2>9 DEF Exclusive, B
<1>9. Exhaustive(t, B, capacity)
  <2>1. SUFFICES ASSUME NEW y \in 0 .. capacity - 1
                 PROVE  \/ \E r \in B : r.offset <= y /\ y < End(r)
                        \/ \E j \in 1 .. Len(t) : t[j].offset <= y /\ y < End(t[j])
    BY DEF Exhaustive
  <2>2. CASE \E r \in A : r.offset <= y /\ y < End(r)
    BY <2>2 DEF B
  <2>3. ASSUME NEW k \in 1 .. Len(s), s[k].offset <= y, y < End(s[k])
        PROVE  \/ \E r \in B : r.offset <= y /\ y < End(r)
               \/ \E j \in 1 .. Len(t) : t[j].offset <= y /\ y < End(t[j])
    <3>1. CASE k # i
      <4>1. k <= m \/ k >= n
        BY <1>1, <3>1 DEF m, n
      <4>2. QED
        BY <1>3, <2>3, <4>1 DEF Origin
    <3>2. CASE k = i
      <4>1. y \in s[i].offset .. End(s[i]) - 1
        BY <1>4, <2>3, <3>2
      <4>2. QED
        BY <1>3, <4>1 DEF B, Origin
    <3>3. QED
      BY <3>1, <3>2
  <2>4. QED
    BY <2>2, <2>3 DEF Tiled, Exhaustive
<1>10. QED
  BY <1>7, <1>8, <1>9 DEF Tiled, t, B

\* Giving an allocation back keeps an arena tiled, with no adjacent ranges.
LEMMA InsertTiled ==
  ASSUME NEW s \in Seq(Ranges), NEW A \in SUBSET Ranges, NEW capacity \in Nat,
         Tiled(s, A, capacity),
         NEW r \in A, NEW m \in 0 .. Len(s), StopsAt(s, m, r)
  PROVE  Tiled(Insert(s, m, r), A \ {r}, capacity)
<1> DEFINE joinsNext == m < Len(s) /\ r.offset + r.size = s[m + 1].offset
           joinsPrevious == m > 0 /\ s[m].offset + s[m].size = r.offset
           first == IF joinsPrevious THEN s[m].offset ELSE r.offset
           end == IF joinsNext THEN s[m + 1].offset + s[m + 1].size
                               ELSE r.offset + r.size
           lower == IF joinsPrevious THEN m - 1 ELSE m
           upper == IF joinsNext THEN m + 2 ELSE m + 1
           x == [offset |-> first, size |-> end - first]
           t == Insert(s, m, r)
           B == A \ {r}
<1>1. Len(s) \in Nat /\ m \in Nat
  BY LenProperties
<1>2. /\ \A k \in 1 .. Len(s) : s[k].offset \in Nat /\ s[k].size \in Nat
                                /\ End(s[k]) = s[k].offset + s[k].size
      /\ \A q \in A : q.offset \in Nat /\ q.size \in Nat /\ End(q) = q.offset + q.size
  <2>1. \A q \in Ranges : q.offset \in Nat /\ q.size \in Nat /\ End(q) = q.offset + q.size
    BY DEF Ranges, End
  <2>2. \A k \in 1 .. Len(s) : s[k] \in Ranges
    OBVIOUS
  <2>3. QED
    BY <2>1, <2>2
<1>3. /\ \A k \in 1 .. Len(s) : s[k].size > 0 /\ End(s[k]) <= capacity
      /\ \A j \in 1 .. Len(s), k \in 1 .. Len(s) : j < k => End(s[j]) < s[k].offset
      /\ \A q \in A : q.size > 0 /\ End(q) <= capacity
      /\ \A p, q \in A : p # q => End(p) <= q.offset \/ End(q) <= p.offset
      /\ \A q \in A, k \in 1 .. Len(s) : End(q) <= s[k].offset \/ End(s[k]) <= q.offset
  <2>1. \A j \in 1 .. Len(s), k \in 1 .. Len(s) : j < k => k \in j + 1 .. Len(s)
    BY <1>1
  <2>2. QED
    BY <2>1 DEF Tiled, Apart, Exclusive
<1>4. \A k \in 1 .. Len(s) : k <= m => End(s[k]) <= r.offset
  <2>1. \A k \in 1 .. Len(s) : k <= m => s[k].offset < r.offset
    BY <1>1 DEF StopsAt
  <2>2. QED
    BY <1>2, <1>3, <2>1
<1>5. \A k \in 1 .. Len(s) : k > m => End(r) <= s[k].offset
  <2>1. SUFFICES ASSUME NEW k \in 1 .. Len(s), k > m
                 PROVE  End(r) <= s[k].offset
    OBVIOUS
  <2>2. m < Len(s) /\ m + 1 \in 1 .. Len(s)
    BY <1>1, <2>1
  <2>3. r.offset <= s[m + 1].offset
    BY <1>2, <2>2 DEF StopsAt
  <2>4. s[m + 1].offset <= s[k].offset
    BY <1>2, <1>3, <2>1, <2>2
  <2>5. r.offset <= s[k].offset
    BY <1>2, <2>2, <2>3, <2>4
  <2>6. End(r) <= s[k].offset \/ End(s[k]) <= r.offset
    BY <1>3
  <2>7. QED
    BY <1>2, <1>3, <2>5, <2>6
<1>6. joinsPrevious => m \in 1 .. Len(s) /\ End(s[m]) = r.offset
  BY <1>1, <1>2
<1>7. joinsNext => m + 1 \in 1 .. Len(s) /\ End(r) = s[m + 1].offset
  BY <1>1, <1>2
<1>8. first \in Nat /\ first <= r.offset
  BY <1>2, <1>6
<1>9. end \in Nat /\ End(r) <= end /\ end <= capacity
  BY <1>2, <1>3, <1>7
<1>10. \A k \in 1 .. Len(s) : k <= lower => End(s[k]) < first
  <2>1. CASE joinsPrevious
    BY <1>1, <1>3, <1>6, <2>1
  <2>2. CASE ~joinsPrevious
    <3>1. ASSUME NEW k \in 1 .. Len(s), k <= m
          PROVE  End(s[k]) < r.offset
      <4>1. CASE k = m
        <5>1. m \in 1 .. Len(s) /\ m > 0
          BY <1>1, <3>1, <4>1
        <5>2. End(s[m]) \in Nat /\ End(s[m]) # r.offset
          BY <1>2, <2>2, <5>1
        <5>3. End(s[m]) <= r.offset /\ r.offset \in Nat
          BY <1>1, <1>2, <1>4, <5>1
        <5>4. QED
          BY <4>1, <5>2, <5>3
      <4>2. CASE k < m
        <5>1. m \in 1 .. Len(s)
          BY <1>1, <4>2
        <5>2. End(s[k]) < s[m].offset /\ End(s[m]) <= r.offset /\ s[m].size > 0
          BY <1>1, <1>3, <1>4, <4>2, <5>1
        <5>3. /\ End(s[k]) \in Nat /\ End(s[m]) \in Nat /\ r.offset \in Nat
              /\ s[m].offset < End(s[m]) /\ s[m].offset \in Nat
          BY ONLY <1>2, <5>1, <5>2
        <5>4. QED
          BY <5>2, <5>3
      <4>3. QED
        BY <1>1, <3>1, <4>1, <4>2
    <3>2. QED
      BY <2>2, <3>1
  <2>3. QED
    BY <2>1, <2>2
<1>11. \A k \in 1 .. Len(s) : k >= upper => end < s[k].offset
  <2>1. CASE joinsNext
    BY <1>1, <1>2, <1>3, <1>7, <2>1
  <2>2. CASE ~joinsNext
    <3>1. ASSUME NEW k \in 1 .. Len(s), k > m
          PROVE  End(r) < s[k].offset
      <4>1. CASE k = m + 1
        <5>1. m + 1 \in 1 .. Len(s) /\ m < Len(s)
          BY <1>1, <3>1, <4>1
        <5>2. End(r) \in Nat /\ End(r) # s[m + 1].offset
          BY <1>2, <2>2, <5>1
        <5>3. End(r) <= s[m + 1].offset /\ s[m + 1].offset \in Nat
          BY <1>1, <1>2, <1>5, <5>1
        <5>4. QED
          BY <4>1, <5>2, <5>3
      <4>2. CASE k > m + 1
        <5>1. m + 1 \in 1 .. Len(s)
          BY <1>1, <4>2
        <5>2. End(s[m + 1]) < s[k].offset /\ End(r) <= s[m + 1].offset /\ s[m + 1].size > 0
          BY <1>1, <1>3, <1>5, <4>2, <5>1
        <5>3. /\ s[m + 1].offset \in Nat /\ s[m + 1].size \in Nat
              /\ End(s[m + 1]) = s[m + 1].offset + s[m + 1].size
          BY <1>2, <5>1
        <5>4. r.offset \in Nat /\ r.size \in Nat /\ End(r) = r.offset + r.size
          BY <1>2
        <5>5. s[k].offset \in Nat
          BY <1>2
        <5>6. QED
          BY ONLY <5>2, <5>3, <5>4, <5>5
      <4>3. QED
        BY <1>1, <3>1, <4>1, <4>2
    <3>2. QED
      BY <1>1, <1>2, <2>2, <3>1
  <2>3. QED
    BY <2>1, <2>2
<1>12. lower \in 0 .. Len(s) /\ upper \in lower + 1 .. Len(s) + 1
  BY <1>1
<1>13. x \in Ranges /\ x.offset = first /\ x.size > 0 /\ End(x) = end
  <2>1. first < end
    BY <1>2, <1>3, <1>8, <1>9
  <2> HIDE DEF first, end
  <2>2. QED
    BY <1>8, <1>9, <2>1 DEF Ranges, End
<1>14. t = Splice(s, lower, upper, <<x>>) /\ <<x>> \in Seq(Ranges)
  <2>1. t = Splice(s, lower, upper, <<x>>)
    BY DEF Insert
  <2> HIDE DEF t, lower, upper, x
  <2>2. QED
    BY <1>13, <2>1
<1> HIDE DEF t, lower, upper, x, first, end, joinsNext, joinsPrevious
<1>15. /\ t \in Seq(Ranges)
       /\ \A j \in 1 .. Len(t) : Origin(t, j, s, lower, upper, <<x>>)
       /\ \A k \in 1 .. Len(s) : k <= lower \/ k >= upper => \E j \in 1 .. Len(t) : t[j] = s[k]
       /\ \E j \in 1 .. Len(t) : t[j] = x
  <2> DEFINE new == <<x>>
  <2>1. new \in Seq(Ranges) /\ t = Splice(s, lower, upper, new)
    BY <1>14
  <2>2. Len(new) = 1 /\ new[1] = x
    OBVIOUS
  <2> HIDE DEF new
  <2>3. Spliced(t, s, lower, upper, new)
    BY <1>12, <2>1, SpliceCases
  <2>4. \E j \in 1 .. Len(t) : t[j] = x
    BY <2>2, <2>3 DEF Spliced
  <2>5. QED
    BY <2>3, <2>4 DEF new, Spliced
<1>16. ASSUME NEW j \in 1 .. Len(t)
       PROVE  \/ j \in 1 .. lower /\ t[j] = s[j]
              \/ j = lower + 1 /\ t[j] = x
              \/ \E k \in upper .. Len(s) : j = lower + 1 + (k - upper + 1) /\ t[j] = s[k]
  BY <1>15 DEF Origin
<1>17. \E j \in 1 .. Len(t) : t[j] = x
  BY <1>15
<1>18. Apart(t)
  <2>1. lower \in Nat /\ upper \in Nat /\ lower < upper /\ lower <= Len(s) /\ Len(t) \in Nat
    BY <1>1, <1>12, <1>15, LenProperties
  <2>2. (\A k \in 1 .. lower : k \in 1 .. Len(s)) /\ (\A k \in upper .. Len(s) : k \in 1 .. Len(s))
    BY <1>1, <2>1
  <2>3. ASSUME NEW j \in 1 .. Len(t)
        PROVE  t[j].size > 0
    BY <1>3, <1>13, <1>16, <2>2
  <2>4. ASSUME NEW j \in 1 .. Len(t), NEW k \in 1 .. Len(t), j < k
        PROVE  End(t[j]) < t[k].offset
    <3>1. CASE j \in 1 .. lower /\ t[j] = s[j]
      <4>1. j \in 1 .. Len(s) /\ End(s[j]) < first
        BY <1>10, <2>1, <2>2, <3>1
      <4>2. CASE k \in 1 .. lower /\ t[k] = s[k]
        BY <1>3, <2>2, <2>4, <3>1, <4>1, <4>2
      <4>3. CASE t[k] = x
        BY <1>13, <3>1, <4>1, <4>3
      <4>4. ASSUME NEW l \in upper .. Len(s), t[k] = s[l]
            PROVE  End(t[j]) < t[k].offset
        <5>1. l \in 1 .. Len(s) /\ j < l
          BY <1>1, <2>1, <3>1
        <5>2. QED
          BY <1>3, <3>1, <4>1, <4>4, <5>1
      <4>5. QED
        BY <1>16, <4>2, <4>3, <4>4
    <3>2. CASE j = lower + 1 /\ t[j] = x
      <4>1. ASSUME NEW l \in upper .. Len(s), t[k] = s[l]
            PROVE  End(t[j]) < t[k].offset
        <5>1. l \in 1 .. Len(s) /\ l >= upper
          BY <2>1, <2>2
        <5>2. QED
          BY <1>11, <1>13, <3>2, <4>1, <5>1
      <4>2. ~(k \in 1 .. lower) /\ k # lower + 1
        BY <2>1, <2>4, <3>2
      <4>3. QED
        BY <1>16, <4>1, <4>2
    <3>3. ASSUME NEW h \in upper .. Len(s), j = lower + 1 + (h - upper + 1), t[j] = s[h]
          PROVE  End(t[j]) < t[k].offset
      <4>1. ASSUME NEW l \in upper .. Len(s), k = lower + 1 + (l - upper + 1), t[k] = s[l]
            PROVE  End(t[j]) < t[k].offset
        <5>1. h \in 1 .. Len(s) /\ l \in 1 .. Len(s) /\ h \in Nat /\ l \in Nat
          BY <1>1, <2>1
        <5>2. h < l
          BY <2>1, <2>4, <3>3, <4>1, <5>1
        <5>3. QED
          BY <1>3, <3>3, <4>1, <5>1, <5>2
      <4>2. ~(k \in 1 .. lower) /\ k # lower + 1
        BY <1>1, <2>1, <2>4, <3>3
      <4>3. QED
        BY <1>16, <4>1, <4>2
    <3>4. QED
      BY <1>16, <3>1, <3>2, <3>3
  <2>5. QED
    BY <2>1, <2>3, <2>4 DEF Apart
<1>19. \A j \in 1 .. Len(t) : t[j] = x \/ \E k \in 1 .. Len(s) : t[j] = s[k]
  <2>1. (\A k \in 1 .. lower : k \in 1 .. Len(s)) /\ (\A k \in upper .. Len(s) : k \in 1 .. Len(s))
    BY <1>1, <1>12
  <2>2. QED
    BY <1>16, <2>1
<1>20. ASSUME NEW q \in B
       PROVE  End(q) <= x.offset \/ End(x) <= q.offset
  <2>1. q \in A /\ q # r
    BY DEF B
  <2>2. End(q) <= r.offset \/ End(r) <= q.offset
    BY <1>3, <2>1
  <2>3. CASE End(q) <= r.offset
    <3>1. CASE joinsPrevious
      <4>1. End(q) <= s[m].offset \/ End(s[m]) <= q.offset
        BY <1>3, <1>6, <2>1, <3>1
      <4>2. QED
        BY <1>2, <1>3, <1>6, <1>13, <2>1, <2>3, <3>1, <4>1 DEF first
    <3>2. CASE ~joinsPrevious
      BY <1>13, <2>3, <3>2 DEF first
    <3>3. QED
      BY <3>1, <3>2
  <2>4. CASE End(r) <= q.offset
    <3>1. CASE joinsNext
      <4>1. End(q) <= s[m + 1].offset \/ End(s[m + 1]) <= q.offset
        BY <1>3, <1>7, <2>1, <3>1
      <4>2. QED
        BY <1>2, <1>3, <1>7, <1>13, <2>1, <2>4, <3>1, <4>1 DEF end
    <3>2. CASE ~joinsNext
      BY <1>2, <1>13, <2>4, <3>2 DEF end
    <3>3. QED
      BY <3>1, <3>2
  <2>5. QED
    BY <2>2, <2>3, <2>4
<1>21. Exclusive(t, B, capacity)
  <2>1. \A j \in 1 .. Len(t) : End(t[j]) <= capacity
    BY <1>3, <1>9, <1>13, <1>19
  <2>2. \A q \in B, j \in 1 .. Len(t) : End(q) <= t[j].offset \/ End(t[j]) <= q.offset
    BY <1>3, <1>19, <1>20 DEF B
  <2>3. QED
    BY <1>3, <2>1, <2>2 DEF Exclusive, B
<1>22. Exhaustive(t, B, capacity)
  <2>1. SUFFICES ASSUME NEW y \in 0 .. capacity - 1
                 PROVE  \/ \E q \in B : q.offset <= y /\ y < End(q)
                        \/ \E j \in 1 .. Len(t) : t[j].offset <= y /\ y < End(t[j])
    BY DEF Exhaustive
  <2>2. y \in Int
    OBVIOUS
  <2>3. (first <= y /\ y < end) => \E j \in 1 .. Len(t) : t[j].offset <= y /\ y < End(t[j])
    BY <1>13, <1>17
  <2>4. CASE r.offset <= y /\ y < End(r)
    BY <1>2, <1>8, <1>9, <2>2, <2>3, <2>4
  <2>5. ASSUME NEW k \in 1 .. Len(s), s[k].offset <= y, y < End(s[k])
        PROVE  \E j \in 1 .. Len(t) : t[j].offset <= y /\ y < End(t[j])
    <3>1. CASE k <= lower \/ k >= upper
      BY <1>15, <2>5, <3>1
    <3>2. CASE ~(k <= lower \/ k >= upper)
      <4>1. (joinsPrevious /\ k = m) \/ (joinsNext /\ k = m + 1)
        BY <1>1, <3>2 DEF lower, upper
      <4>2. first <= s[k].offset /\ End(s[k]) <= end
        <5>1. CASE joinsPrevious /\ k = m
          <6>1. End(s[k]) = r.offset /\ first = s[k].offset
            BY <1>6, <5>1 DEF first
          <6>2. r.offset \in Nat /\ End(r) \in Nat /\ r.offset <= End(r) /\ s[k].offset \in Nat
            BY <1>2
          <6>3. QED
            BY ONLY <1>9, <6>1, <6>2
        <5>2. CASE joinsNext /\ k = m + 1
          <6>1. End(r) = s[k].offset /\ end = End(s[k])
            BY <1>2, <1>7, <5>2 DEF end
          <6>2. r.offset \in Nat /\ End(r) \in Nat /\ r.offset <= End(r) /\ End(s[k]) \in Nat
            BY <1>2
          <6>3. QED
            BY ONLY <1>8, <6>1, <6>2
        <5>3. QED
          BY <4>1, <5>1, <5>2
      <4>3. QED
        BY <1>2, <1>8, <1>9, <2>2, <2>3, <2>5, <4>2
    <3>3. QED
      BY <3>1, <3>2
  <2>6. QED
    BY <2>4, <2>5 DEF Tiled, Exhaustive, B
<1>23. QED
  BY <1>18, <1>21, <1>22 DEF Tiled, t, B

-----------------------------------------------------------------------------
(* Every call keeps every arena tiled.                                     *)

\* The inductive invariant.  Unused is what makes a newly published arena
\* start without allocations.
Ownership == TypeOK /\ Coalesced /\ Disjoint /\ Covered /\ Unused

\* The same of one arena.
ArenaTiled(a) == Tiled(free[a], allocs[a], Capacity[a])

LEMMA TiledPublished ==
  ASSUME Ownership, NEW a \in Published
  PROVE  /\ a \in Arenas
         /\ free[a] \in Seq(Ranges) /\ allocs[a] \in SUBSET Ranges /\ Capacity[a] \in Nat
         /\ ArenaTiled(a)
<1>1. a \in Arenas
  BY DEF Ownership, TypeOK, Published
<1>2. free[a] \in Seq(Ranges) /\ allocs[a] \in SUBSET Ranges /\ Capacity[a] \in Nat
  BY <1>1, ArenaAssumption DEF Ownership, TypeOK
<1>3. QED
  BY <1>1, <1>2 DEF Ownership, Coalesced, Disjoint, Covered, ArenaTiled, Tiled

\* Ownership is kept when one published arena changes and stays tiled.
LEMMA OneArena ==
  ASSUME Ownership, TypeOK', list' = list, NEW a \in Published,
         NEW s, NEW A, Tiled(s, A, Capacity[a]),
         free' = [free EXCEPT ![a] = s], allocs' = [allocs EXCEPT ![a] = A]
  PROVE  Ownership'
<1>1. a \in Arenas /\ Published' = Published
  BY DEF Ownership, TypeOK, Published
<1>2. free'[a] = s /\ allocs'[a] = A
      /\ \A b \in Arenas : b # a => free'[b] = free[b] /\ allocs'[b] = allocs[b]
  BY <1>1 DEF Ownership, TypeOK
<1>3. Coalesced'
  BY <1>1, <1>2 DEF Ownership, Coalesced, Tiled
<1>4. Disjoint'
  BY <1>1, <1>2 DEF Ownership, Disjoint, Tiled
<1>5. Covered'
  <2>1. SUFFICES ASSUME NEW b \in Published
                 PROVE  Exhaustive(free'[b], allocs'[b], Capacity[b])
    BY <1>1 DEF Covered
  <2>2. b \in Arenas
    BY DEF Ownership, TypeOK, Published
  <2>3. CASE b = a
    BY <1>2, <2>3 DEF Tiled
  <2>4. CASE b # a
    BY <1>2, <2>2, <2>4 DEF Ownership, Covered
  <2>5. QED
    BY <2>3, <2>4
<1>6. Unused'
  BY <1>1, <1>2 DEF Ownership, Unused
<1>7. QED
  BY <1>3, <1>4, <1>5, <1>6 DEF Ownership

\* A call that touches neither the lists nor the arenas keeps Ownership.
LEMMA SameLists ==
  ASSUME Ownership, TypeOK', UNCHANGED <<list, free, allocs>>
  PROVE  Ownership'
  BY DEF Ownership, Coalesced, Disjoint, Covered, Unused, Published

LEMMA OwnershipInit == Init => Ownership
<1> SUFFICES ASSUME Init PROVE Ownership
  OBVIOUS
<1>1. TypeOK
  BY TypeInit
<1>2. Published = {}
  BY DEF Init, Published
<1>3. \A a \in Arenas : free[a] = <<>> /\ allocs[a] = {}
  BY DEF Init
<1>4. Coalesced /\ Disjoint
  BY <1>3 DEF Coalesced, Disjoint, Apart, Exclusive
<1>5. QED
  BY <1>1, <1>2, <1>3, <1>4 DEF Ownership, Covered, Unused

LEMMA PrepareOwnership ==
  ASSUME Ownership, Prepare, TypeOK'
  PROVE  Ownership'
<1>1. CASE Return("OK") \/ Return("EIO")
  BY <1>1, SameLists DEF Return
<1>2. ASSUME NEW a \in Arenas \ Published, Publish(a)
      PROVE  Ownership'
  <2>1. Published' = Published \cup {a}
    <3>1. list' = <<a>> \o list /\ list \in Seq(Arenas)
      BY <1>2 DEF Publish, Ownership, TypeOK
    <3>2. Len(list) \in Nat /\ Len(list') = Len(list) + 1 /\ list'[1] = a
          /\ \A k \in 1 .. Len(list) : list'[k + 1] = list[k]
      BY <3>1
    <3>3. ASSUME NEW k \in 1 .. Len(list')
          PROVE  list'[k] \in Published \cup {a}
      <4>1. CASE k = 1
        BY <3>2, <4>1
      <4>2. CASE k # 1
        <5>1. PICK j : j = k - 1
          OBVIOUS
        <5>2. j \in 1 .. Len(list) /\ j + 1 = k
          BY <3>2, <4>2, <5>1
        <5>3. QED
          BY <3>2, <5>2 DEF Published
      <4>3. QED
        BY <4>1, <4>2
    <3>4. a \in Published'
      BY <3>2 DEF Published
    <3>5. ASSUME NEW k \in 1 .. Len(list)
          PROVE  list[k] \in Published'
      <4>1. k + 1 \in 1 .. Len(list')
        BY <3>2
      <4>2. QED
        BY <3>2, <4>1 DEF Published
    <3>6. QED
      BY <3>3, <3>4, <3>5 DEF Published
  <2>2. /\ allocs' = allocs /\ allocs[a] = {} /\ Capacity[a] \in Nat \ {0}
        /\ free' = [free EXCEPT ![a] = <<[offset |-> 0, size |-> Capacity[a]]>>]
    BY <1>2, ArenaAssumption DEF Publish, Ownership, Unused
  <2> DEFINE whole == [offset |-> 0, size |-> Capacity[a]]
  <2>3. free'[a] = <<whole>> /\ \A b \in Arenas : b # a => free'[b] = free[b]
    BY <2>2 DEF Ownership, TypeOK
  <2>4. /\ Len(<<whole>>) = 1 /\ <<whole>>[1] = whole
        /\ whole.offset = 0 /\ whole.size = Capacity[a] /\ End(whole) = Capacity[a]
    BY <2>2 DEF End
  <2> HIDE DEF whole
  <2>5. Apart(<<whole>>) /\ Exclusive(<<whole>>, {}, Capacity[a])
    BY <2>2, <2>4 DEF Apart, Exclusive
  <2>6. Exhaustive(<<whole>>, {}, Capacity[a])
    BY <2>2, <2>4 DEF Exhaustive
  <2>7. Coalesced' /\ Disjoint'
    BY <2>2, <2>3, <2>5 DEF Ownership, Coalesced, Disjoint
  <2>8. Covered'
    <3>1. SUFFICES ASSUME NEW b \in Published \cup {a}
                   PROVE  Exhaustive(free'[b], allocs'[b], Capacity[b])
      BY <2>1 DEF Covered
    <3>2. CASE b = a
      BY <2>2, <2>3, <2>6, <3>2
    <3>3. CASE b # a
      <4>1. b \in Published /\ b \in Arenas
        BY <3>3 DEF Ownership, TypeOK, Published
      <4>2. free'[b] = free[b] /\ allocs'[b] = allocs[b]
        BY <2>2, <2>3, <3>3, <4>1
      <4>3. QED
        BY <4>1, <4>2 DEF Ownership, Covered
    <3>4. QED
      BY <3>2, <3>3
  <2>9. Unused'
    BY <2>1, <2>2 DEF Ownership, Unused
  <2>10. QED
    BY <2>7, <2>8, <2>9 DEF Ownership
<1>3. QED
  BY <1>1, <1>2 DEF Prepare

LEMMA GrantOwnership ==
  ASSUME Ownership, TypeOK', NEW p \in FreePlaces, NEW n \in Nat, n > 0,
         free[list[p[1]]][p[2]].size >= n, Grant(list[p[1]], p[2], n)
  PROVE  Ownership'
<1> DEFINE a == list[p[1]]
           i == p[2]
           r == free[a][i]
           x == [offset |-> r.offset, size |-> n]
           new == Rest(r, n)
<1>1. a \in Published /\ i \in 1 .. Len(free[a]) /\ r \in Ranges /\ r.size >= n
  BY PlaceProperties DEF Ownership
<1>2. /\ free' = [free EXCEPT ![a] = Splice(free[a], i - 1, i + 1, new)]
      /\ allocs' = [allocs EXCEPT ![a] = allocs[a] \cup {x}]
      /\ list' = list
  BY DEF Grant
<1> HIDE DEF a, i, r
<1>3. r.offset \in Nat /\ r.size \in Nat
  BY <1>1 DEF Ranges
<1>4. x \in Ranges /\ x.offset = r.offset /\ x.size = n /\ End(x) = r.offset + n /\ End(r) = r.offset + r.size
  BY <1>3 DEF Ranges, End
<1>5. /\ new \in Seq(Ranges) /\ Apart(new)
      /\ \A k \in 1 .. Len(new) : /\ r.offset <= new[k].offset /\ End(new[k]) <= End(r)
                                  /\ End(x) <= new[k].offset \/ End(new[k]) <= x.offset
      /\ \A y \in r.offset .. End(r) - 1 :
           \/ x.offset <= y /\ y < End(x)
           \/ \E k \in 1 .. Len(new) : new[k].offset <= y /\ y < End(new[k])
  <2>1. CASE r.size = n
    <3>1. new = <<>>
      BY <2>1 DEF Rest
    <3>2. QED
      BY <1>3, <1>4, <2>1, <3>1 DEF Apart
  <2>2. CASE r.size # n
    <3> DEFINE rest == [offset |-> r.offset + n, size |-> r.size - n]
    <3>1. /\ rest \in Ranges /\ rest.offset = r.offset + n /\ rest.size = r.size - n /\ rest.size > 0
          /\ End(rest) = End(r)
      BY <1>1, <1>3, <1>4, <2>2 DEF Ranges, End
    <3>2. new = <<rest>>
      BY <2>2 DEF Rest
    <3> HIDE DEF rest, new, x
    <3>3. new \in Seq(Ranges) /\ Len(new) = 1 /\ new[1] = rest
      BY <3>1, <3>2
    <3>4. Apart(new)
      BY <3>1, <3>3 DEF Apart
    <3>5. QED
      BY <1>3, <1>4, <3>1, <3>3, <3>4
  <2>3. QED
    BY <2>1, <2>2
<1>6. free[a] \in Seq(Ranges) /\ allocs[a] \in SUBSET Ranges /\ Capacity[a] \in Nat /\ ArenaTiled(a)
  BY <1>1, TiledPublished
<1> HIDE DEF x, new
<1>7. r = free[a][i]
  BY DEF r
<1>8. Tiled(Splice(free[a], i - 1, i + 1, new), allocs[a] \cup {x}, Capacity[a])
  <2>1. x.size > 0 /\ r.offset <= x.offset /\ End(x) <= End(r)
    BY <1>1, <1>3, <1>4
  <2>2. QED
    BY <1>1, <1>4, <1>5, <1>6, <1>7, <2>1, CutTiled DEF ArenaTiled
<1>9. QED
  BY <1>1, <1>2, <1>8, OneArena

LEMMA AllocOwnership ==
  ASSUME Ownership, TypeOK', NEW size \in Sizes, Alloc(size)
  PROVE  Ownership'
<1>1. CASE Return("EINVAL") \/ Return("ENOMEM") \/ Return("EPERM")
  BY <1>1, SameLists DEF Return
<1>2. ASSUME NEW p \in FreePlaces, Rounds(size), IsFirst(p, Fitting(RoundUp(size))),
             Grant(list[p[1]], p[2], RoundUp(size))
      PROVE  Ownership'
  <2>1. size \in Nat /\ size > 0
    BY <1>2, InputAssumption, AlignmentAssumption DEF Rounds
  <2>2. RoundUp(size) \in Nat /\ RoundUp(size) > 0
    BY <2>1, RoundUpProperties
  <2>3. free[list[p[1]]][p[2]].size >= RoundUp(size)
    BY <1>2 DEF IsFirst, Fitting
  <2>4. QED
    BY <1>2, <2>2, <2>3, GrantOwnership
<1>3. QED
  BY <1>1, <1>2 DEF Alloc, AllocFrom

LEMMA FreeOwnership ==
  ASSUME Ownership, TypeOK', NEW addr, NEW size, Free(addr, size)
  PROVE  Ownership'
<1>1. CASE Return("OK") \/ Return("EINVAL")
  BY <1>1, SameLists DEF Return
<1>2. ASSUME NEW a \in Published, NEW r \in Freed(a, addr, size), Release(a, r)
      PROVE  Ownership'
  <2>1. r \in allocs[a]
    BY DEF Freed
  <2>2. PICK m \in 0 .. Len(free[a]) :
          /\ StopsAt(free[a], m, r)
          /\ free' = [free EXCEPT ![a] = Insert(free[a], m, r)]
    BY <1>2 DEF Release
  <2>3. allocs' = [allocs EXCEPT ![a] = allocs[a] \ {r}] /\ list' = list
    BY <1>2 DEF Release
  <2>4. free[a] \in Seq(Ranges) /\ allocs[a] \in SUBSET Ranges /\ Capacity[a] \in Nat /\ ArenaTiled(a)
    BY TiledPublished
  <2>5. Tiled(Insert(free[a], m, r), allocs[a] \ {r}, Capacity[a])
    BY <2>1, <2>2, <2>4, InsertTiled DEF ArenaTiled
  <2>6. QED
    BY <2>2, <2>3, <2>5, OneArena
<1>3. QED
  BY <1>1, <1>2 DEF Free

LEMMA CarveOwnership ==
  ASSUME Ownership, TypeOK', NEW p \in FreePlaces, NEW s \in Nat, NEW t, p \in Suitable(s),
         Carve(list[p[1]], p[2], s, t)
  PROVE  Ownership'
<1> DEFINE a == list[p[1]]
           i == p[2]
           r == free[a][i]
           offset == Candidate(a, r, s) - Base[a]
           x == [offset |-> offset, size |-> Alignment]
           new == Leading(r, offset) \o Trailing(r, offset)
<1>1. a \in Published /\ a \in Arenas /\ i \in 1 .. Len(free[a]) /\ r \in Ranges
  BY PlaceProperties DEF Ownership
<1>2. /\ free' = [free EXCEPT ![a] = Splice(free[a], i - 1, i + 1, new)]
      /\ allocs' = [allocs EXCEPT ![a] = allocs[a] \cup {x}]
      /\ list' = list
  BY DEF Carve
<1>3. Suits(a, r, s)
  BY DEF Suitable
<1> HIDE DEF a, i, r
<1>4. /\ offset \in Nat /\ r.offset <= offset /\ offset + Alignment <= r.offset + r.size
      /\ new \in Seq(Ranges)
  BY <1>1, <1>3, IslandCutType DEF Ownership
<1> HIDE DEF offset
<1>5. r.offset \in Nat /\ r.size \in Nat /\ Alignment \in Nat /\ Alignment > 0
  BY <1>1, AlignmentAssumption DEF Ranges
<1>6. /\ x \in Ranges /\ x.offset = offset /\ x.size = Alignment /\ End(x) = offset + Alignment
      /\ End(r) = r.offset + r.size
  BY <1>4, <1>5 DEF Ranges, End
<1> DEFINE lead == [offset |-> r.offset, size |-> offset - r.offset]
           trail == [offset |-> offset + Alignment, size |-> r.offset + r.size - (offset + Alignment)]
<1>7. /\ lead.offset = r.offset /\ lead.size = offset - r.offset /\ End(lead) = offset
      /\ trail.offset = offset + Alignment /\ End(trail) = End(r)
      /\ trail.size = r.offset + r.size - (offset + Alignment)
  BY <1>4, <1>5, <1>6 DEF End
<1>8. /\ Leading(r, offset) = IF offset = r.offset THEN <<>> ELSE <<lead>>
      /\ Trailing(r, offset) = IF r.offset + r.size = offset + Alignment THEN <<>> ELSE <<trail>>
  BY DEF Leading, Trailing
<1> HIDE DEF lead, trail, x
<1>9. /\ Apart(new)
      /\ \A k \in 1 .. Len(new) : /\ r.offset <= new[k].offset /\ End(new[k]) <= End(r)
                                  /\ End(x) <= new[k].offset \/ End(new[k]) <= x.offset
      /\ \A y \in r.offset .. End(r) - 1 :
           \/ x.offset <= y /\ y < End(x)
           \/ \E k \in 1 .. Len(new) : new[k].offset <= y /\ y < End(new[k])
  <2>1. CASE offset = r.offset /\ r.offset + r.size = offset + Alignment
    <3>1. new = <<>>
      BY <1>8, <2>1
    <3>2. QED
      BY <1>4, <1>5, <1>6, <2>1, <3>1 DEF Apart
  <2>2. CASE offset = r.offset /\ r.offset + r.size # offset + Alignment
    <3>1. new = <<trail>>
      BY <1>8, <2>2
    <3> HIDE DEF new
    <3>2. Len(new) = 1 /\ new[1] = trail /\ trail.size > 0
      BY <1>4, <1>5, <1>7, <2>2, <3>1
    <3>3. Apart(new)
      BY <3>2 DEF Apart
    <3>4. /\ r.offset <= trail.offset /\ End(trail) <= End(r)
          /\ End(x) <= trail.offset \/ End(trail) <= x.offset
      BY <1>4, <1>5, <1>6, <1>7, <2>2
    <3>5. \A k \in 1 .. Len(new) : /\ r.offset <= new[k].offset /\ End(new[k]) <= End(r)
                                   /\ End(x) <= new[k].offset \/ End(new[k]) <= x.offset
      <4> TAKE k \in 1 .. Len(new)
      <4>1. k = 1
        BY <3>2
      <4>2. new[k] = trail
        BY <3>2, <4>1
      <4>3. QED
        BY ONLY <3>4, <4>2
    <3>6. ASSUME NEW y \in r.offset .. End(r) - 1
          PROVE  \/ x.offset <= y /\ y < End(x)
                 \/ trail.offset <= y /\ y < End(trail)
      BY ONLY <1>4, <1>5, <1>6, <1>7, <2>2, <3>6
    <3>7. 1 \in 1 .. Len(new)
      BY <3>2
    <3>8. QED
      BY ONLY <3>2, <3>3, <3>5, <3>6, <3>7
  <2>3. CASE offset # r.offset /\ r.offset + r.size = offset + Alignment
    <3>1. new = <<lead>>
      BY <1>8, <2>3
    <3> HIDE DEF new
    <3>2. Len(new) = 1 /\ new[1] = lead /\ lead.size > 0
      BY <1>4, <1>5, <1>7, <2>3, <3>1
    <3>3. Apart(new)
      BY <3>2 DEF Apart
    <3>4. /\ r.offset <= lead.offset /\ End(lead) <= End(r)
          /\ End(x) <= lead.offset \/ End(lead) <= x.offset
      BY <1>4, <1>5, <1>6, <1>7, <2>3
    <3>5. \A k \in 1 .. Len(new) : /\ r.offset <= new[k].offset /\ End(new[k]) <= End(r)
                                   /\ End(x) <= new[k].offset \/ End(new[k]) <= x.offset
      <4> TAKE k \in 1 .. Len(new)
      <4>1. k = 1
        BY <3>2
      <4>2. new[k] = lead
        BY <3>2, <4>1
      <4>3. QED
        BY ONLY <3>4, <4>2
    <3>6. ASSUME NEW y \in r.offset .. End(r) - 1
          PROVE  \/ x.offset <= y /\ y < End(x)
                 \/ lead.offset <= y /\ y < End(lead)
      BY ONLY <1>4, <1>5, <1>6, <1>7, <2>3, <3>6
    <3>7. 1 \in 1 .. Len(new)
      BY <3>2
    <3>8. QED
      BY ONLY <3>2, <3>3, <3>5, <3>6, <3>7
  <2>4. CASE offset # r.offset /\ r.offset + r.size # offset + Alignment
    <3>1. new = <<lead>> \o <<trail>>
      BY <1>8, <2>4
    <3> HIDE DEF new
    <3>2. Len(new) = 2 /\ new[1] = lead /\ new[2] = trail
      BY <3>1
    <3>3. offset \in Nat /\ r.offset < offset /\ offset + Alignment < r.offset + r.size
      BY ONLY <1>4, <1>5, <2>4
    <3>4. lead.size > 0 /\ trail.size > 0
      BY ONLY <1>5, <1>7, <3>3
    <3>5. End(lead) < trail.offset
      BY ONLY <1>5, <1>7, <3>3
    <3>6. Apart(new)
      BY <3>2, <3>4, <3>5 DEF Apart
    <3>7. /\ r.offset <= lead.offset /\ End(lead) <= End(r) /\ End(lead) <= x.offset
          /\ r.offset <= trail.offset /\ End(trail) <= End(r) /\ End(x) <= trail.offset
      BY ONLY <1>5, <1>6, <1>7, <3>3
    <3>8. \A k \in 1 .. Len(new) : /\ r.offset <= new[k].offset /\ End(new[k]) <= End(r)
                                   /\ End(x) <= new[k].offset \/ End(new[k]) <= x.offset
      <4> TAKE k \in 1 .. Len(new)
      <4>1. k = 1 \/ k = 2
        BY <3>2
      <4>2. new[k] = lead \/ new[k] = trail
        BY <3>2, <4>1
      <4>3. QED
        BY ONLY <3>7, <4>2
    <3>9. ASSUME NEW y \in r.offset .. End(r) - 1
          PROVE  \/ x.offset <= y /\ y < End(x)
                 \/ lead.offset <= y /\ y < End(lead)
                 \/ trail.offset <= y /\ y < End(trail)
      BY ONLY <1>5, <1>6, <1>7, <3>3, <3>9
    <3>10. 1 \in 1 .. Len(new) /\ 2 \in 1 .. Len(new)
      BY <3>2
    <3>11. QED
      BY ONLY <3>2, <3>6, <3>8, <3>9, <3>10
  <2>5. QED
    BY <2>1, <2>2, <2>3, <2>4
<1>10. free[a] \in Seq(Ranges) /\ allocs[a] \in SUBSET Ranges /\ Capacity[a] \in Nat /\ ArenaTiled(a)
  BY <1>1, TiledPublished
<1> HIDE DEF new
<1>11. r = free[a][i]
  BY DEF r
<1>12. Tiled(Splice(free[a], i - 1, i + 1, new), allocs[a] \cup {x}, Capacity[a])
  <2>1. x.size > 0 /\ r.offset <= x.offset /\ End(x) <= End(r)
    BY <1>4, <1>5, <1>6
  <2>2. QED
    BY <1>1, <1>4, <1>6, <1>9, <1>10, <1>11, <2>1, CutTiled DEF ArenaTiled
<1>13. QED
  BY <1>1, <1>2, <1>12, OneArena

LEMMA OwnershipStep ==
  ASSUME Ownership, [Next]_vars
  PROVE  Ownership'
<1>1. TypeOK'
  BY TypeStep DEF Ownership
<1>2. CASE UNCHANGED vars
  BY <1>1, <1>2, SameLists DEF vars
<1>3. CASE Prepare
  BY <1>1, <1>3, PrepareOwnership
<1>4. ASSUME NEW size \in Sizes, Alloc(size)
      PROVE  Ownership'
  BY <1>1, <1>4, AllocOwnership
<1>5. ASSUME NEW addr \in Blocks, NEW size \in Sizes, Free(addr, size)
      PROVE  Ownership'
  BY <1>1, <1>5, FreeOwnership
<1>6. ASSUME NEW addr \in Blocks, NEW size \in Sizes, WriteMemory(addr, size)
      PROVE  Ownership'
  BY <1>1, <1>6, SameLists DEF WriteMemory
<1>7. ASSUME NEW s \in Sources, NEW t \in Targets, DetourApply(s, t)
      PROVE  Ownership'
  <2>1. CASE UNCHANGED <<list, free, allocs>>
    BY <1>1, <2>1, SameLists
  <2>2. ASSUME NEW p \in FreePlaces, IsFirst(p, Suitable(s)), Carve(list[p[1]], p[2], s, t)
        PROVE  Ownership'
    <3>1. s \in Nat /\ p \in Suitable(s)
      BY <2>2, InputAssumption, AlignmentAssumption DEF IsFirst
    <3>2. QED
      BY <1>1, <2>2, <3>1, CarveOwnership
  <2>3. QED
    BY <1>7, <2>1, <2>2
       DEF DetourApply, ApplyDirect, ApplyReuse, ApplyIsland, Return
<1>8. ASSUME NEW s \in Sources, NEW b \in Buffers, NEW size \in Sizes, DetourBackup(s, b, size)
      PROVE  Ownership'
  BY <1>1, <1>8, SameLists DEF DetourBackup, Return
<1>9. ASSUME NEW b \in Buffers, NEW size \in Sizes, DetourRestore(b, size)
      PROVE  Ownership'
  <2>1. UNCHANGED <<list, free, allocs>>
    BY <1>9 DEF DetourRestore, Return
  <2>2. QED
    BY <1>1, <2>1, SameLists
<1>10. ASSUME NEW s \in Sources, NEW size \in Sizes, DetourValidate(s, size)
      PROVE  Ownership'
  BY <1>1, <1>10, SameLists DEF DetourValidate, Return
<1>11. CASE Cleanup
  <2>1. Published' = {}
    BY <1>11 DEF Cleanup, Published
  <2>2. \A a \in Arenas : free'[a] = <<>> /\ allocs'[a] = {}
    BY <1>11 DEF Cleanup
  <2>3. Coalesced' /\ Disjoint'
    BY <2>2 DEF Coalesced, Disjoint, Apart, Exclusive
  <2>4. QED
    BY <1>1, <2>1, <2>2, <2>3 DEF Ownership, Covered, Unused
<1>12. QED
  BY <1>2, <1>3, <1>4, <1>5, <1>6, <1>7, <1>8, <1>9, <1>10, <1>11 DEF Next

LEMMA OwnershipCorrect == Spec => []Ownership
<1>1. Ownership /\ [Next]_vars => Ownership'
  BY OwnershipStep
<1>2. QED
  BY <1>1, OwnershipInit, PTL DEF Spec

\* Whatever the order of allocations, frees, detours and failed calls, the
\* free list of an arena is in address order with no two ranges adjacent.
THEOREM FreeListCoalesced == Spec => []Coalesced
<1>1. Ownership => Coalesced
  BY DEF Ownership
<1>2. QED
  BY <1>1, OwnershipCorrect, PTL

\* No byte of code memory is handed out twice, or while it is free.
THEOREM NoDoubleOwner == Spec => []Disjoint
<1>1. Ownership => Disjoint
  BY DEF Ownership
<1>2. QED
  BY <1>1, OwnershipCorrect, PTL

\* No byte of a published arena is lost: it is allocated or can be again.
THEOREM NoByteLost == Spec => []Covered
<1>1. Ownership => Covered
  BY DEF Ownership
<1>2. QED
  BY <1>1, OwnershipCorrect, PTL

\* Bytes in a row without an owner are in one free range, because ranges
\* that touch have been merged.
LEMMA FreeRun ==
  ASSUME Ownership, NEW a \in Published, NEW x \in Nat, NEW n \in Nat, n > 0,
         x + n <= Capacity[a],
         \A r \in allocs[a] : ~Overlap(x, n, r.offset, r.size)
  PROVE  \E i \in 1 .. Len(free[a]) : free[a][i].offset <= x /\ x + n <= End(free[a][i])
<1> DEFINE s == free[a]
<1>1. SUFFICES ASSUME \A i \in 1 .. Len(s) : ~(s[i].offset <= x /\ x + n <= End(s[i]))
               PROVE  FALSE
  OBVIOUS
<1>2. /\ s \in Seq(Ranges) /\ allocs[a] \in SUBSET Ranges /\ Capacity[a] \in Nat
      /\ Apart(s) /\ Exclusive(s, allocs[a], Capacity[a]) /\ Exhaustive(s, allocs[a], Capacity[a])
  BY TiledPublished DEF ArenaTiled, Tiled
<1> HIDE DEF s
<1>3. /\ \A i \in 1 .. Len(s) : s[i].offset \in Nat /\ s[i].size \in Nat /\ End(s[i]) = s[i].offset + s[i].size
      /\ \A r \in allocs[a] : r.offset \in Nat /\ r.size \in Nat /\ End(r) = r.offset + r.size
  <2>1. \A r \in Ranges : r.offset \in Nat /\ r.size \in Nat /\ End(r) = r.offset + r.size
    BY DEF Ranges, End
  <2>2. \A i \in 1 .. Len(s) : s[i] \in Ranges
    BY <1>2
  <2>3. QED
    BY <1>2, <2>1, <2>2
<1>4. ASSUME NEW y \in Nat, x <= y, y < x + n
      PROVE  \E i \in 1 .. Len(s) : s[i].offset <= y /\ y < End(s[i])
  <2>1. y \in 0 .. Capacity[a] - 1
    BY <1>2, <1>4
  <2>2. ASSUME NEW r \in allocs[a], r.offset <= y, y < End(r)
        PROVE  FALSE
    <3>1. x < r.offset + r.size /\ r.offset < x + n
      BY <1>3, <1>4, <2>2
    <3>2. QED
      BY <3>1 DEF Overlap
  <2>3. QED
    BY <1>2, <2>1, <2>2 DEF Exhaustive
<1>5. PICK i \in 1 .. Len(s) : s[i].offset <= x /\ x < End(s[i])
  BY <1>4
<1>6. End(s[i]) \in Nat /\ x <= End(s[i]) /\ End(s[i]) < x + n
  BY <1>1, <1>3, <1>5
<1>7. PICK j \in 1 .. Len(s) : s[j].offset <= End(s[i]) /\ End(s[i]) < End(s[j])
  BY <1>4, <1>6
<1>8. Len(s) \in Nat
  BY <1>2, LenProperties
<1>9. CASE j > i
  <2>1. j \in i + 1 .. Len(s)
    BY <1>8, <1>9
  <2>2. End(s[i]) < s[j].offset
    BY <1>2, <2>1 DEF Apart
  <2>3. QED
    BY <1>3, <1>6, <1>7, <2>2
<1>10. CASE j < i
  <2>1. i \in j + 1 .. Len(s)
    BY <1>8, <1>10
  <2>2. End(s[j]) < s[i].offset
    BY <1>2, <2>1 DEF Apart
  <2>3. s[i].offset <= End(s[i]) /\ s[i].offset \in Nat /\ End(s[j]) \in Nat
    BY <1>3
  <2>4. QED
    BY <1>6, <1>7, <2>2, <2>3
<1>11. CASE j = i
  BY <1>6, <1>7, <1>11
<1>12. QED
  BY <1>9, <1>10, <1>11

\* An allocation fails only when no arena has that many consecutive bytes
\* without an owner.
THEOREM AllocationComplete == Spec => []AllocComplete
<1>1. ASSUME Ownership
      PROVE  AllocComplete
  <2>1. SUFFICES ASSUME NEW size \in Sizes, Rounds(size), Fitting(RoundUp(size)) = {},
                        NEW a \in Published, NEW x \in 0 .. Capacity[a] - RoundUp(size),
                        \A r \in allocs[a] : ~Overlap(x, RoundUp(size), r.offset, r.size)
                 PROVE  FALSE
    BY DEF AllocComplete
  <2> DEFINE n == RoundUp(size)
  <2>2. n \in Nat /\ n > 0
    <3>1. size \in Nat /\ size > 0
      BY <2>1, InputAssumption, AlignmentAssumption DEF Rounds
    <3>2. QED
      BY <3>1, RoundUpProperties
  <2>3. x \in Nat /\ x + n <= Capacity[a]
    <3>1. Capacity[a] \in Nat
      BY <1>1, TiledPublished
    <3>2. QED
      BY <2>2, <3>1
  <2> HIDE DEF n
  <2>4. PICK i \in 1 .. Len(free[a]) : free[a][i].offset <= x /\ x + n <= End(free[a][i])
    BY <1>1, <2>1, <2>2, <2>3, FreeRun DEF n
  <2>5. PICK k \in 1 .. Len(list) : a = list[k]
    BY DEF Published
  <2>6. free[a][i] \in Ranges
    BY <1>1, TiledPublished
  <2>7. free[a][i].size >= n
    BY <2>2, <2>3, <2>4, <2>6 DEF Ranges, End
  <2>8. <<k, i>> \in Fitting(n)
    BY <2>5, <2>7 DEF Fitting, FreePlaces
  <2>9. QED
    BY <2>1, <2>8 DEF n
<1>2. QED
  BY <1>1, OwnershipCorrect, PTL

-----------------------------------------------------------------------------
(* Detours lead where they were sent, for every number of arenas, callers,  *)
(* islands and backups: the ownership proved above is what keeps an island   *)
(* from being overwritten.                                                   *)

IslandsOf(a) == {islands[a][i] : i \in 1 .. Len(islands[a])}
AllIslands == UNION {IslandsOf(a) : a \in Arenas}

\* The block of arena a that island x occupies.
Own(a, x) == [offset |-> x.address - Base[a], size |-> Alignment]

\* A branch to d leads to t, directly or through an island to t.
Reaches(d, t) == d = t \/ [address |-> d, target |-> t] \in AllIslands

\* Island x still jumps to its target, unless a caller has stored into it.
Leads(x) == x.address \notin spoiled => /\ x.address \in DOMAIN jump
                                       /\ jump[x.address] = x.target

\* Every island has a block of its own and leads to its target.
IslandsOwned ==
  \A a \in Arenas : \A x \in IslandsOf(a) : /\ a \in Published
                                            /\ Own(a, x) \in allocs[a]
                                            /\ Leads(x)

DetoursReach ==
  \A s \in DOMAIN patched : /\ s \in DOMAIN jump
                            /\ Encodable(s, jump[s])
                            /\ Reaches(jump[s], patched[s])

\* What a backup buffer keeps of a detour is a whole detour: it can be put
\* back at any later time and still leads to its target.
BackupsReach ==
  \A b \in DOMAIN saved : \A t \in saved[b].patched :
    /\ saved[b].patched = {t}
    /\ \E d \in Nat : /\ saved[b].jump = {d}
                      /\ Encodable(saved[b].at, d)
                      /\ Reaches(d, t)

\* The inductive invariant.  A detour only refers to its island by address,
\* so that it needs both: islands stay, and their memory has one owner.
IslandInv == Ownership /\ IslandsOwned /\ DetoursReach /\ BackupsReach

-----------------------------------------------------------------------------
(* Where things are                                                        *)

LEMMA IslandTypes ==
  ASSUME TypeOK
  PROVE  /\ \A a \in Arenas : \A x \in IslandsOf(a) : x \in [address : Nat, target : Nat]
         /\ \A x \in AllIslands : x \in [address : Nat, target : Nat]
<1>1. ASSUME NEW a \in Arenas, NEW i \in 1 .. Len(islands[a])
      PROVE  islands[a][i] \in [address : Nat, target : Nat]
  <2>1. islands[a] \in Seq([address : Nat, target : Nat])
    BY DEF TypeOK
  <2>2. QED
    BY <2>1, ElementOfSeq, Zenon
<1>2. QED
  BY <1>1 DEF IslandsOf, AllIslands

\* The places the loops of the code visit are the islands of the arenas.
LEMMA PlacesOfIslands ==
  ASSUME TypeOK, IslandsOwned
  PROVE  /\ \A p \in IslandPlaces : /\ list[p[1]] \in Published /\ list[p[1]] \in Arenas
                                    /\ islands[list[p[1]]][p[2]] \in IslandsOf(list[p[1]])
                                    /\ islands[list[p[1]]][p[2]] \in AllIslands
         /\ \A x \in AllIslands : \E p \in IslandPlaces : islands[list[p[1]]][p[2]] = x
<1>1. ASSUME NEW p \in IslandPlaces
      PROVE  /\ list[p[1]] \in Published /\ list[p[1]] \in Arenas
             /\ islands[list[p[1]]][p[2]] \in IslandsOf(list[p[1]])
             /\ islands[list[p[1]]][p[2]] \in AllIslands
  <2>1. PICK k \in 1 .. Len(list) : p \in {k} \X (1 .. Len(islands[list[k]]))
    BY DEF IslandPlaces
  <2>2. p[1] = k /\ p[2] \in 1 .. Len(islands[list[k]])
    BY <2>1
  <2>3. list[k] \in Published /\ list[k] \in Arenas
    BY DEF Published, TypeOK
  <2>4. QED
    BY <2>2, <2>3 DEF IslandsOf, AllIslands
<1>2. ASSUME NEW x \in AllIslands
      PROVE  \E p \in IslandPlaces : islands[list[p[1]]][p[2]] = x
  <2>1. PICK a \in Arenas : x \in IslandsOf(a)
    BY DEF AllIslands
  <2>2. PICK i \in 1 .. Len(islands[a]) : x = islands[a][i]
    BY <2>1 DEF IslandsOf
  <2>3. PICK k \in 1 .. Len(list) : a = list[k]
    BY <2>1 DEF IslandsOwned, Published
  <2>4. <<k, i>> \in IslandPlaces
    BY <2>2, <2>3 DEF IslandPlaces
  <2>5. QED
    BY <2>2, <2>3, <2>4
<1>3. QED
  BY <1>1, <1>2

\* Two ranges that are apart in their arenas are apart in the address space.
LEMMA Elsewhere ==
  ASSUME NEW a \in Arenas, NEW c \in Arenas, NEW r \in Ranges, NEW q \in Ranges,
         End(r) <= Capacity[a], End(q) <= Capacity[c],
         a # c \/ End(r) <= q.offset \/ End(q) <= r.offset
  PROVE  Base[a] + End(r) <= Base[c] + q.offset \/ Base[c] + End(q) <= Base[a] + r.offset
<1>1. /\ r.offset \in Nat /\ r.size \in Nat /\ End(r) = r.offset + r.size
      /\ q.offset \in Nat /\ q.size \in Nat /\ End(q) = q.offset + q.size
  BY DEF Ranges, End
<1>2. Base[a] \in Nat /\ Base[c] \in Nat /\ Capacity[a] \in Nat /\ Capacity[c] \in Nat
  BY ArenaAssumption
<1>3. CASE a = c
  BY <1>1, <1>2, <1>3
<1>4. CASE a # c
  <2>1. Base[a] + Capacity[a] <= Base[c] \/ Base[c] + Capacity[c] <= Base[a]
    BY <1>4, ArenaAssumption
  <2>2. QED
    BY <1>1, <1>2, <2>1
<1>5. QED
  BY <1>3, <1>4

\* The bounds of an allocation, and its place among the others.
LEMMA AllocationProperties ==
  ASSUME Ownership, NEW a \in Arenas, NEW r \in allocs[a]
  PROVE  /\ a \in Published /\ r \in Ranges /\ r.size > 0 /\ End(r) <= Capacity[a]
         /\ r.offset \in Nat /\ r.size \in Nat /\ End(r) = r.offset + r.size
         /\ Base[a] + End(r) < AddressSpace
         /\ \A q \in allocs[a] : r # q => End(r) <= q.offset \/ End(q) <= r.offset
<1>1. a \in Published
  BY DEF Ownership, Unused
<1>2. Exclusive(free[a], allocs[a], Capacity[a]) /\ r \in Ranges
  BY <1>1, TiledPublished DEF ArenaTiled, Tiled
<1>3. r.offset \in Nat /\ r.size \in Nat /\ End(r) = r.offset + r.size
  BY <1>2 DEF Ranges, End
<1>4. r.size > 0 /\ End(r) <= Capacity[a]
  BY <1>2 DEF Exclusive
<1>5. Base[a] + End(r) < AddressSpace
  BY <1>3, <1>4, ArenaAssumption, AlignmentAssumption
<1>6. \A q \in allocs[a] : r # q => End(r) <= q.offset \/ End(q) <= r.offset
  BY <1>2 DEF Exclusive
<1>7. QED
  BY <1>1, <1>2, <1>3, <1>4, <1>5, <1>6

\* The bounds of a free range, and its place among the allocations.
LEMMA FreeRangeProperties ==
  ASSUME Ownership, NEW p \in FreePlaces, NEW a, a = list[p[1]], NEW r, r = free[a][p[2]]
  PROVE  /\ a \in Published /\ a \in Arenas /\ r \in Ranges /\ End(r) <= Capacity[a]
         /\ r.offset \in Nat /\ r.size \in Nat /\ End(r) = r.offset + r.size
         /\ \A q \in allocs[a] : End(r) <= q.offset \/ End(q) <= r.offset
<1>1. a \in Published /\ a \in Arenas /\ p[2] \in 1 .. Len(free[a]) /\ r \in Ranges
  BY PlaceProperties DEF Ownership
<1>2. Exclusive(free[a], allocs[a], Capacity[a])
  BY <1>1, TiledPublished DEF ArenaTiled, Tiled
<1>3. r.offset \in Nat /\ r.size \in Nat /\ End(r) = r.offset + r.size
  BY <1>1 DEF Ranges, End
<1>4. End(r) <= Capacity[a] /\ \A q \in allocs[a] : End(r) <= q.offset \/ End(q) <= r.offset
  BY <1>1, <1>2 DEF Exclusive
<1>5. QED
  BY <1>1, <1>3, <1>4

LEMMA WordInAlignment == Word \in Nat /\ Word > 0 /\ Word <= Alignment
<1>1. Alignment % Word = 0 /\ Alignment \in Nat \ {0} /\ Word \in Nat \ {0}
  BY AlignmentAssumption, EncodingAssumption
<1>2. CASE Alignment < Word
  <2>1. Alignment % Word = Alignment
    BY <1>1, <1>2
  <2>2. QED
    BY <1>1, <2>1
<1>3. QED
  BY <1>1, <1>2

\* No island lies in the n bytes at lo.
Away(lo, n) == \A x \in AllIslands : ~Overlap(x.address, Word, lo, n)

\* A range of an arena that is apart from the blocks of its islands.
LEMMA AwayFromRange ==
  ASSUME IslandInv, NEW a \in Arenas, NEW q \in Ranges, End(q) <= Capacity[a],
         \A x \in IslandsOf(a) : End(Own(a, x)) <= q.offset \/ End(q) <= Own(a, x).offset,
         NEW lo \in Nat, NEW n \in Nat,
         Base[a] + q.offset <= lo, lo + n <= Base[a] + End(q)
  PROVE  Away(lo, n)
<1>1. SUFFICES ASSUME NEW c \in Arenas, NEW x \in IslandsOf(c)
               PROVE  ~Overlap(x.address, Word, lo, n)
  BY DEF Away, AllIslands
<1> DEFINE o == Own(c, x)
<1>2. o \in allocs[c]
  BY <1>1 DEF IslandInv, IslandsOwned
<1>3. o \in Ranges /\ End(o) <= Capacity[c]
  BY <1>2, AllocationProperties DEF IslandInv
<1>4. Base[a] + End(q) <= Base[c] + o.offset \/ Base[c] + End(o) <= Base[a] + q.offset
  <2>1. a # c \/ End(q) <= o.offset \/ End(o) <= q.offset
    BY <1>1
  <2> HIDE DEF o
  <2>2. QED
    BY <1>3, <2>1, Elsewhere
<1>5. o.offset = x.address - Base[c] /\ End(o) = x.address - Base[c] + Alignment
  BY DEF Own, End
<1>6. x.address \in Nat
  BY <1>1, IslandTypes DEF IslandInv, Ownership
<1>7. Base[c] \in Nat /\ Base[a] \in Nat /\ q.offset \in Nat /\ End(q) \in Nat /\ Alignment \in Nat
  BY ArenaAssumption, AlignmentAssumption DEF Ranges, End
<1> HIDE DEF o
<1>8. lo + n <= x.address \/ x.address + Alignment <= lo
  BY <1>4, <1>5, <1>6, <1>7
<1>9. QED
  BY <1>6, <1>7, <1>8, WordInAlignment DEF Overlap

\* Bytes of a free range.
LEMMA AwayFromFree ==
  ASSUME IslandInv, NEW p \in FreePlaces, NEW a, a = list[p[1]], NEW r, r = free[a][p[2]],
         NEW lo \in Nat, NEW n \in Nat,
         Base[a] + r.offset <= lo, lo + n <= Base[a] + End(r)
  PROVE  Away(lo, n)
<1>1. /\ a \in Arenas /\ r \in Ranges /\ End(r) <= Capacity[a]
      /\ \A q \in allocs[a] : End(r) <= q.offset \/ End(q) <= r.offset
  BY FreeRangeProperties DEF IslandInv
<1>2. \A x \in IslandsOf(a) : Own(a, x) \in allocs[a]
  BY <1>1 DEF IslandInv, IslandsOwned
<1>3. QED
  BY <1>1, <1>2, AwayFromRange

\* A block that is not an island's.
LEMMA AwayFromAllocation ==
  ASSUME IslandInv, NEW a \in Arenas, NEW r \in allocs[a],
         \A x \in IslandsOf(a) : r # Own(a, x),
         NEW lo \in Nat, NEW n \in Nat,
         Base[a] + r.offset <= lo, lo + n <= Base[a] + End(r)
  PROVE  Away(lo, n)
<1>1. /\ r \in Ranges /\ End(r) <= Capacity[a]
      /\ \A q \in allocs[a] : r # q => End(r) <= q.offset \/ End(q) <= r.offset
  BY AllocationProperties DEF IslandInv
<1>2. \A x \in IslandsOf(a) : Own(a, x) \in allocs[a]
  BY DEF IslandInv, IslandsOwned
<1>3. QED
  BY <1>1, <1>2, AwayFromRange

\* What a caller stores to is in one block.
LEMMA HeldBlock ==
  ASSUME IslandInv, NEW addr \in 0 .. AddressSpace - 1, NEW n \in Nat, n > 0,
         InAllocation(addr, n)
  PROVE  \E a \in Published : \E r \in allocs[a] :
           /\ a \in Arenas
           /\ Base[a] + r.offset <= addr
           /\ addr + n <= Base[a] + End(r)
<1>9. PICK a \in Published :
        /\ Holds(a, addr)
        /\ \E r \in allocs[a] : /\ r.offset <= Offset(a, addr)
                                /\ Offset(a, addr) - r.offset < r.size
                                /\ n <= r.size - (Offset(a, addr) - r.offset)
  BY DEF InAllocation
<1>1. PICK r \in allocs[a] : /\ Holds(a, addr)
                            /\ r.offset <= Offset(a, addr)
                            /\ Offset(a, addr) - r.offset < r.size
                            /\ n <= r.size - (Offset(a, addr) - r.offset)
  BY <1>9
<1>2. a \in Arenas
  BY DEF Published, IslandInv, Ownership, TypeOK
<1>3. addr = Base[a] + Offset(a, addr) /\ Offset(a, addr) \in Nat
  BY <1>1, <1>2, OffsetProperties
<1>4. r.offset \in Nat /\ r.size \in Nat /\ End(r) = r.offset + r.size
  BY <1>2, AllocationProperties DEF IslandInv
<1>5. Base[a] \in Nat
  BY <1>2, ArenaAssumption
<1>6. Base[a] + r.offset <= addr /\ addr + n <= Base[a] + End(r)
  BY <1>1, <1>3, <1>4, <1>5
<1>7. QED
  BY <1>2, <1>6

\* The address is in an island.
InIsland(addr) == \E x \in AllIslands : Overlap(addr, 1, x.address, Alignment)

\* What a caller stores to outside the islands is in a block of a caller.
LEMMA CallersBlock ==
  ASSUME IslandInv, NEW addr \in 0 .. AddressSpace - 1, NEW n \in Nat, n > 0,
         InAllocation(addr, n), ~InIsland(addr)
  PROVE  \E a \in Published : \E r \in allocs[a] :
           /\ a \in Arenas
           /\ \A x \in IslandsOf(a) : r # Own(a, x)
           /\ Base[a] + r.offset <= addr
           /\ addr + n <= Base[a] + End(r)
<1>1. PICK a \in Published : \E r \in allocs[a] :
        /\ a \in Arenas
        /\ Base[a] + r.offset <= addr
        /\ addr + n <= Base[a] + End(r)
  BY HeldBlock
<1>2. PICK r \in allocs[a] : /\ a \in Arenas
                            /\ Base[a] + r.offset <= addr
                            /\ addr + n <= Base[a] + End(r)
  BY <1>1
<1>3. Base[a] \in Nat
  BY <1>2, ArenaAssumption
<1>4. ASSUME NEW x \in IslandsOf(a), r = Own(a, x)
      PROVE  FALSE
  <2>1. ~Overlap(addr, 1, x.address, Alignment)
    BY <1>2 DEF InIsland, AllIslands
  <2>2. x.address \in Nat
    BY <1>2, IslandTypes DEF IslandInv, Ownership
  <2>3. r.offset = x.address - Base[a] /\ End(r) = x.address - Base[a] + Alignment
    BY <1>4 DEF Own, End
  <2>4. QED
    BY <1>2, <1>3, <2>1, <2>2, <2>3, AlignmentAssumption DEF Overlap
<1>5. QED
  BY <1>2, <1>4

\* The islands a store reaches are the ones it overlaps.
LEMMA HitIslands ==
  ASSUME IslandInv, NEW lo, NEW n
  PROVE  \A x \in AllIslands : x.address \in Hit(lo, n) <=> Overlap(x.address, Alignment, lo, n)
<1>1. \A x \in AllIslands : x.address \in IslandAddresses
  BY PlacesOfIslands DEF IslandInv, Ownership, IslandAddresses
<1>2. QED
  BY <1>1 DEF Hit

\* After a store, an island that counts is one it does not touch.
LEMMA HitSpoils ==
  ASSUME IslandInv, NEW lo \in Nat, NEW n \in Nat, n > 0,
         NEW x \in AllIslands, x.address \notin Hit(lo, n)
  PROVE  ~Overlap(x.address, Word, lo, n) /\ x.address # lo
<1>1. ~Overlap(x.address, Alignment, lo, n)
  BY HitIslands
<1>2. x.address \in Nat
  BY IslandTypes DEF IslandInv, Ownership
<1>3. QED
  BY <1>1, <1>2, WordInAlignment, AlignmentAssumption DEF Overlap

\* A store that spoils no island is outside all of them.
LEMMA HitNone ==
  ASSUME IslandInv, NEW lo \in Nat, NEW n \in Nat, n > 0, Hit(lo, n) = {}
  PROVE  ~InIsland(lo)
<1>1. SUFFICES ASSUME NEW x \in AllIslands, Overlap(lo, 1, x.address, Alignment)
               PROVE  FALSE
  BY DEF InIsland
<1>2. ~Overlap(x.address, Alignment, lo, n)
  BY HitIslands
<1>3. x.address \in Nat
  BY IslandTypes DEF IslandInv, Ownership
<1>4. QED
  BY <1>1, <1>2, <1>3, AlignmentAssumption DEF Overlap

-----------------------------------------------------------------------------
(* Every call keeps the islands and the detours                            *)

LEMMA KeepDomain ==
  ASSUME NEW f, NEW lo, NEW n, NEW x
  PROVE  /\ x \in DOMAIN Keep(f, lo, n) <=> x \in DOMAIN f /\ ~Overlap(x, Word, lo, n)
         /\ x \in DOMAIN Keep(f, lo, n) => Keep(f, lo, n)[x] = f[x]
  BY DEF Keep

LEMMA PutDomain ==
  ASSUME NEW f, NEW s, NEW v, NEW x
  PROVE  /\ x \in DOMAIN Put(f, s, v) <=> x \in DOMAIN f \/ x = s
         /\ x = s => Put(f, s, v)[x] = v
         /\ x \in DOMAIN f /\ x # s => Put(f, s, v)[x] = f[x]
  BY DEF Put

\* The same islands, in blocks that are still allocated, with the same jumps
\* where no caller has stored.
LEMMA IslandsKept ==
  ASSUME IslandInv, UNCHANGED <<list, islands>>, spoiled \subseteq spoiled',
         \A a \in Arenas : \A x \in IslandsOf(a) : Own(a, x) \in allocs'[a],
         \A x \in AllIslands : x.address \notin spoiled' /\ x.address \in DOMAIN jump =>
           x.address \in DOMAIN jump' /\ jump'[x.address] = jump[x.address]
  PROVE  IslandsOwned' /\ \A d, t : Reaches(d, t)' = Reaches(d, t)
<1>1. Published' = Published /\ \A a : IslandsOf(a)' = IslandsOf(a)
  BY DEF Published, IslandsOf
<1>2. AllIslands' = AllIslands
  BY <1>1 DEF AllIslands
<1>3. \A d, t : Reaches(d, t)' = Reaches(d, t)
  BY <1>2 DEF Reaches
<1>4. IslandsOwned'
  <2>1. SUFFICES ASSUME NEW a \in Arenas, NEW x \in IslandsOf(a)
                 PROVE  /\ a \in Published
                        /\ Own(a, x) \in allocs'[a]
                        /\ x.address \notin spoiled' => /\ x.address \in DOMAIN jump'
                                                       /\ jump'[x.address] = x.target
    BY <1>1 DEF IslandsOwned, Own, Leads
  <2>2. x \in AllIslands
    BY DEF AllIslands
  <2>3. a \in Published /\ Leads(x)
    BY DEF IslandInv, IslandsOwned
  <2>4. QED
    BY <2>1, <2>2, <2>3 DEF Leads
<1>5. QED
  BY <1>3, <1>4

\* Code is overwritten, and every island there counts as spoiled.
LEMMA OverwriteKeeps ==
  ASSUME IslandInv, UNCHANGED <<list, islands, saved>>, spoiled \subseteq spoiled',
         \A a \in Arenas : \A x \in IslandsOf(a) : Own(a, x) \in allocs'[a],
         NEW lo, NEW n, Overwrite(lo, n),
         \A x \in AllIslands : x.address \in spoiled' \/ ~Overlap(x.address, Word, lo, n)
  PROVE  IslandsOwned' /\ DetoursReach' /\ BackupsReach'
<1>1. jump' = Keep(jump, lo, n) /\ patched' = Keep(patched, lo, n)
  BY DEF Overwrite
<1>2. ASSUME NEW x \in AllIslands, x.address \notin spoiled', x.address \in DOMAIN jump
      PROVE  x.address \in DOMAIN jump' /\ jump'[x.address] = jump[x.address]
  <2>1. ~Overlap(x.address, Word, lo, n)
    BY <1>2
  <2>2. QED
    BY <1>1, <1>2, <2>1, KeepDomain
<1>3. IslandsOwned' /\ \A d, t : Reaches(d, t)' = Reaches(d, t)
  BY <1>2, IslandsKept
<1>4. DetoursReach'
  <2>1. SUFFICES ASSUME NEW s \in DOMAIN patched'
                 PROVE  /\ s \in DOMAIN jump'
                        /\ Encodable(s, jump'[s])
                        /\ Reaches(jump'[s], patched'[s])
    BY <1>3 DEF DetoursReach, Reaches
  <2>2. s \in DOMAIN patched /\ ~Overlap(s, Word, lo, n) /\ patched'[s] = patched[s]
    BY <1>1, KeepDomain
  <2>3. s \in DOMAIN jump /\ Encodable(s, jump[s]) /\ Reaches(jump[s], patched[s])
    BY <2>2 DEF IslandInv, DetoursReach
  <2>4. s \in DOMAIN jump' /\ jump'[s] = jump[s]
    BY <1>1, <2>2, <2>3, KeepDomain
  <2>5. QED
    BY <2>2, <2>3, <2>4
<1>5. BackupsReach'
  BY <1>3 DEF BackupsReach, IslandInv
<1>6. QED
  BY <1>3, <1>4, <1>5

\* One branch is stored, and an island there counts as spoiled.
LEMMA BranchKeeps ==
  ASSUME IslandInv, UNCHANGED <<list, allocs, islands, saved>>, spoiled \subseteq spoiled',
         NEW s, NEW d, NEW t, \A x \in AllIslands : x.address \in spoiled' \/ s # x.address,
         Encodable(s, d), Reaches(d, t),
         jump' = Put(jump, s, d), patched' = Put(patched, s, t)
  PROVE  IslandsOwned' /\ DetoursReach' /\ BackupsReach'
<1>1. ASSUME NEW x \in AllIslands, x.address \notin spoiled', x.address \in DOMAIN jump
      PROVE  x.address \in DOMAIN jump' /\ jump'[x.address] = jump[x.address]
  BY <1>1, PutDomain
<1>2. \A a \in Arenas : \A x \in IslandsOf(a) : Own(a, x) \in allocs'[a]
  BY DEF IslandInv, IslandsOwned
<1>3. IslandsOwned' /\ \A e, u : Reaches(e, u)' = Reaches(e, u)
  BY <1>1, <1>2, IslandsKept
<1>4. DetoursReach'
  <2>1. SUFFICES ASSUME NEW y \in DOMAIN patched'
                 PROVE  /\ y \in DOMAIN jump'
                        /\ Encodable(y, jump'[y])
                        /\ Reaches(jump'[y], patched'[y])
    BY <1>3 DEF DetoursReach, Reaches
  <2>2. CASE y = s
    BY <2>2, PutDomain
  <2>3. CASE y # s
    <3>1. y \in DOMAIN patched /\ patched'[y] = patched[y]
      BY <2>3, PutDomain
    <3>2. y \in DOMAIN jump /\ Encodable(y, jump[y]) /\ Reaches(jump[y], patched[y])
      BY <3>1 DEF IslandInv, DetoursReach
    <3>3. y \in DOMAIN jump' /\ jump'[y] = jump[y]
      BY <2>3, <3>2, PutDomain
    <3>4. QED
      BY <3>1, <3>2, <3>3
  <2>4. QED
    BY <2>2, <2>3
<1>5. BackupsReach'
  BY <1>3 DEF BackupsReach, IslandInv
<1>6. QED
  BY <1>3, <1>4, <1>5

\* A call that changes no code and takes no block away.
LEMMA NothingStored ==
  ASSUME IslandInv, UNCHANGED <<islands, jump, patched, spoiled, saved>>,
         \A a \in Published : a \in Published',
         \A a \in Arenas : \A x \in IslandsOf(a) : Own(a, x) \in allocs'[a]
  PROVE  IslandsOwned' /\ DetoursReach' /\ BackupsReach'
<1>1. \A a : IslandsOf(a)' = IslandsOf(a)
  BY DEF IslandsOf
<1>2. AllIslands' = AllIslands
  BY <1>1 DEF AllIslands
<1>3. \A d, t : Reaches(d, t)' = Reaches(d, t)
  BY <1>2 DEF Reaches
<1>4. IslandsOwned'
  BY <1>1 DEF IslandInv, IslandsOwned, Own, Leads
<1>5. DetoursReach'
  BY <1>3 DEF DetoursReach, IslandInv
<1>6. BackupsReach'
  BY <1>3 DEF BackupsReach, IslandInv
<1>7. QED
  BY <1>4, <1>5, <1>6

LEMMA ReturnIslands ==
  ASSUME IslandInv, NEW e, Return(e)
  PROVE  IslandsOwned' /\ DetoursReach' /\ BackupsReach'
<1>1. UNCHANGED <<list, free, allocs, islands, jump, patched, spoiled, saved>>
  BY DEF Return
<1>2. \A a \in Published : a \in Published'
  BY <1>1 DEF Published
<1>3. \A a \in Arenas : \A x \in IslandsOf(a) : Own(a, x) \in allocs'[a]
  BY <1>1 DEF IslandInv, IslandsOwned
<1>4. QED
  BY <1>1, <1>2, <1>3, NothingStored

LEMMA PrepareIslands ==
  ASSUME IslandInv, Prepare
  PROVE  IslandsOwned' /\ DetoursReach' /\ BackupsReach'
<1>1. CASE Return("OK") \/ Return("EIO")
  BY <1>1, ReturnIslands
<1>2. ASSUME NEW a \in Arenas \ Published, Publish(a)
      PROVE  IslandsOwned' /\ DetoursReach' /\ BackupsReach'
  <2>1. UNCHANGED <<allocs, islands, jump, patched, spoiled, saved>> /\ list' = <<a>> \o list
    BY <1>2 DEF Publish
  <2>2. ASSUME NEW b \in Published
        PROVE  b \in Published'
    <3>1. PICK k \in 1 .. Len(list) : b = list[k]
      BY DEF Published
    <3>2. list \in Seq(Arenas)
      BY DEF IslandInv, Ownership, TypeOK
    <3>3. k + 1 \in 1 .. Len(list') /\ list'[k + 1] = list[k]
      BY <2>1, <3>2
    <3>4. QED
      BY <3>1, <3>3 DEF Published
  <2>3. \A b \in Arenas : \A x \in IslandsOf(b) : Own(b, x) \in allocs'[b]
    BY <2>1 DEF IslandInv, IslandsOwned
  <2>4. QED
    BY <2>1, <2>2, <2>3, NothingStored
<1>3. QED
  BY <1>1, <1>2 DEF Prepare

\* A new allocation is zeroed, and no island is in a free range.
LEMMA GrantIslands ==
  ASSUME IslandInv, NEW p \in FreePlaces, NEW n \in Nat, n > 0,
         free[list[p[1]]][p[2]].size >= n, Grant(list[p[1]], p[2], n)
  PROVE  IslandsOwned' /\ DetoursReach' /\ BackupsReach'
<1> DEFINE a == list[p[1]]
           r == free[a][p[2]]
           x == [offset |-> r.offset, size |-> n]
<1>1. /\ UNCHANGED <<list, islands, spoiled, saved>> /\ Overwrite(Base[a] + r.offset, n)
      /\ allocs' = [allocs EXCEPT ![a] = allocs[a] \cup {x}]
  BY DEF Grant
<1>2. a \in Arenas /\ r.offset \in Nat /\ r.size \in Nat /\ End(r) = r.offset + r.size
  BY FreeRangeProperties DEF IslandInv
<1>3. r.size >= n
  OBVIOUS
<1>8. a = list[p[1]] /\ r = free[a][p[2]]
  OBVIOUS
<1> HIDE DEF a, r, x
<1>4. Base[a] \in Nat
  BY <1>2, ArenaAssumption
<1>5. \A b \in Arenas : \A y \in IslandsOf(b) : Own(b, y) \in allocs'[b]
  BY <1>1, <1>2 DEF IslandInv, IslandsOwned, Ownership, TypeOK
<1>6. Away(Base[a] + r.offset, n)
  <2>1. Base[a] + r.offset \in Nat /\ Base[a] + r.offset + n <= Base[a] + End(r)
    BY <1>2, <1>3, <1>4
  <2>2. Base[a] + r.offset <= Base[a] + r.offset
    BY <1>2, <1>4
  <2>3. QED
    BY <1>8, <2>1, <2>2, AwayFromFree
<1>7. QED
  BY <1>1, <1>5, <1>6, OverwriteKeeps DEF Away

LEMMA AllocIslands ==
  ASSUME IslandInv, NEW size \in Sizes, Alloc(size)
  PROVE  IslandsOwned' /\ DetoursReach' /\ BackupsReach'
<1>1. ASSUME NEW p \in FreePlaces, Rounds(size), IsFirst(p, Fitting(RoundUp(size))),
             Grant(list[p[1]], p[2], RoundUp(size))
      PROVE  IslandsOwned' /\ DetoursReach' /\ BackupsReach'
  <2>1. size \in Nat /\ size > 0
    BY <1>1, InputAssumption, AlignmentAssumption DEF Rounds
  <2>2. RoundUp(size) \in Nat /\ RoundUp(size) > 0
    BY <2>1, RoundUpProperties
  <2>3. free[list[p[1]]][p[2]].size >= RoundUp(size)
    BY <1>1 DEF IsFirst, Fitting
  <2>4. QED
    BY <1>1, <2>2, <2>3, GrantIslands
<1>2. QED
  BY <1>1, ReturnIslands DEF Alloc, AllocFrom

\* free refuses the address of an island.
LEMMA FreedIsCallers ==
  ASSUME IslandInv, NEW addr \in Blocks, NEW size, NEW a \in Published,
         NEW r \in Freed(a, addr, size), Holds(a, addr), ~IsIsland(addr)
  PROVE  a \in Arenas /\ \A x \in IslandsOf(a) : r # Own(a, x)
<1>1. a \in Arenas /\ addr \in 0 .. AddressSpace - 1
  BY InputAssumption DEF Published, IslandInv, Ownership, TypeOK
<1>2. r.offset = Offset(a, addr)
  BY DEF Freed
<1>3. addr = Base[a] + r.offset /\ r.offset \in Nat /\ Base[a] \in Nat
  BY <1>1, <1>2, OffsetProperties, ArenaAssumption
<1>4. ASSUME NEW x \in IslandsOf(a), r = Own(a, x)
      PROVE  FALSE
  <2>1. x.address \in Nat
    BY <1>1, IslandTypes DEF IslandInv, Ownership
  <2>2. r.offset = x.address - Base[a]
    BY <1>4 DEF Own
  <2>3. x.address = addr
    BY <1>3, <2>1, <2>2
  <2>4. PICK p \in IslandPlaces : islands[list[p[1]]][p[2]] = x
    BY <1>1, PlacesOfIslands DEF IslandInv, Ownership, AllIslands
  <2>5. QED
    BY <2>3, <2>4 DEF IsIsland
<1>5. QED
  BY <1>1, <1>4

LEMMA FreeIslands ==
  ASSUME IslandInv, NEW addr \in Blocks, NEW size, Free(addr, size)
  PROVE  IslandsOwned' /\ DetoursReach' /\ BackupsReach'
<1>1. CASE Return("OK")
  BY <1>1, ReturnIslands
<1>2. ASSUME NEW a \in Published, NEW r \in Freed(a, addr, size), Release(a, r),
             Holds(a, addr), ~IsIsland(addr)
      PROVE  IslandsOwned' /\ DetoursReach' /\ BackupsReach'
  <2>1. /\ allocs' = [allocs EXCEPT ![a] = allocs[a] \ {r}]
        /\ UNCHANGED <<list, islands, jump, patched, spoiled, saved>>
    BY <1>2 DEF Release
  <2>2. a \in Arenas /\ \A x \in IslandsOf(a) : r # Own(a, x)
    BY <1>2, FreedIsCallers
  <2>3. ASSUME NEW b \in Arenas, NEW x \in IslandsOf(b)
        PROVE  Own(b, x) \in allocs'[b]
    <3>1. Own(b, x) \in allocs[b]
      BY DEF IslandInv, IslandsOwned
    <3>2. allocs'[b] = IF b = a THEN allocs[a] \ {r} ELSE allocs[b]
      BY <2>1, <2>2 DEF IslandInv, Ownership, TypeOK
    <3>3. QED
      BY <2>2, <3>1, <3>2
  <2>4. \A b \in Published : b \in Published'
    BY <2>1 DEF Published
  <2>5. QED
    BY <2>1, <2>3, <2>4, NothingStored
<1>3. QED
  BY <1>1, <1>2, ReturnIslands DEF Free

LEMMA WriteMemoryIslands ==
  ASSUME IslandInv, NEW addr \in Blocks, NEW size \in Sizes, WriteMemory(addr, size)
  PROVE  IslandsOwned' /\ DetoursReach' /\ BackupsReach'
<1>1. /\ size # 0 /\ Overwrite(addr, size) /\ spoiled' = spoiled \cup Hit(addr, size)
      /\ UNCHANGED <<list, free, allocs, islands, saved>>
  BY DEF WriteMemory
<1>2. addr \in Nat /\ size \in Nat /\ size > 0
  BY <1>1, InputAssumption, AlignmentAssumption
<1>3. \A x \in AllIslands : x.address \in spoiled' \/ ~Overlap(x.address, Word, addr, size)
  BY <1>1, <1>2, HitSpoils
<1>4. \A b \in Arenas : \A y \in IslandsOf(b) : Own(b, y) \in allocs'[b]
  BY <1>1 DEF IslandInv, IslandsOwned
<1>5. QED
  BY <1>1, <1>3, <1>4, OverwriteKeeps

\* The addresses of a detour and of the island carved for it differ: one is
\* in a block, the other in a free range.
LEMMA SourceOutsideFree ==
  ASSUME IslandInv, NEW s \in 0 .. AddressSpace - 1, InAllocation(s, Word),
         NEW p \in FreePlaces, NEW a, a = list[p[1]], NEW r, r = free[a][p[2]],
         NEW c \in Nat, Base[a] + r.offset <= c, c + Alignment <= Base[a] + End(r)
  PROVE  s + Word <= c \/ c + Alignment <= s
<1>1. PICK b \in Published : \E q \in allocs[b] :
        /\ b \in Arenas
        /\ Base[b] + q.offset <= s
        /\ s + Word <= Base[b] + End(q)
  BY WordInAlignment, HeldBlock
<1>2. PICK q \in allocs[b] : Base[b] + q.offset <= s /\ s + Word <= Base[b] + End(q)
  BY <1>1
<1>3. /\ q \in Ranges /\ End(q) <= Capacity[b] /\ q.offset \in Nat /\ End(q) \in Nat
  <2>1. /\ q \in Ranges /\ End(q) <= Capacity[b] /\ q.offset \in Nat /\ q.size \in Nat
        /\ End(q) = q.offset + q.size
    BY <1>1, <1>2, AllocationProperties DEF IslandInv
  <2>2. QED
    BY <2>1
<1>4. /\ a \in Arenas /\ r \in Ranges /\ End(r) <= Capacity[a] /\ r.offset \in Nat /\ End(r) \in Nat
      /\ \A u \in allocs[a] : End(r) <= u.offset \/ End(u) <= r.offset
  <2>1. /\ a \in Arenas /\ r \in Ranges /\ End(r) <= Capacity[a] /\ r.offset \in Nat /\ r.size \in Nat
        /\ End(r) = r.offset + r.size
        /\ \A u \in allocs[a] : End(r) <= u.offset \/ End(u) <= r.offset
    BY FreeRangeProperties DEF IslandInv
  <2>2. QED
    BY <2>1
<1>5. Base[b] + End(q) <= Base[a] + r.offset \/ Base[a] + End(r) <= Base[b] + q.offset
  BY <1>1, <1>2, <1>3, <1>4, Elsewhere
<1>6. Base[a] \in Nat /\ Base[b] \in Nat /\ Alignment \in Nat /\ Word \in Nat
  BY <1>1, <1>4, ArenaAssumption, AlignmentAssumption, WordInAlignment
<1>7. QED
  BY <1>2, <1>3, <1>4, <1>5, <1>6

\* A list with a new head has the elements it had, and the head.
LEMMA PushElements ==
  ASSUME NEW S, NEW s \in Seq(S), NEW x \in S, NEW u, u = <<x>> \o s
  PROVE  {u[i] : i \in 1 .. Len(u)} = {s[i] : i \in 1 .. Len(s)} \cup {x}
<1>1. Len(s) \in Nat /\ <<x>> \in Seq(S) /\ Len(<<x>>) = 1 /\ <<x>>[1] = x
  BY LenProperties
<1>2. Len(u) = Len(s) + 1 /\ \A i \in 1 .. Len(s) + 1 : u[i] = IF i <= 1 THEN x ELSE s[i - 1]
  BY <1>1, ConcatProperties
<1>3. ASSUME NEW i \in 1 .. Len(u)
      PROVE  u[i] \in {s[j] : j \in 1 .. Len(s)} \cup {x}
  <2>1. CASE i = 1
    BY <1>1, <1>2, <2>1
  <2>2. CASE i # 1
    <3>1. i - 1 \in 1 .. Len(s) /\ u[i] = s[i - 1]
      BY <1>1, <1>2, <2>2
    <3>2. QED
      BY <3>1
  <2>3. QED
    BY <2>1, <2>2
<1>4. ASSUME NEW j \in 1 .. Len(s)
      PROVE  s[j] \in {u[i] : i \in 1 .. Len(u)}
  <2>1. PICK i : i = j + 1
    OBVIOUS
  <2>2. i \in 1 .. Len(u) /\ u[i] = s[j]
    BY <1>1, <1>2, <2>1
  <2>3. QED
    BY <2>2
<1>5. x \in {u[i] : i \in 1 .. Len(u)}
  <2>1. 1 \in 1 .. Len(u) /\ u[1] = x
    BY <1>1, <1>2
  <2>2. QED
    BY <2>1
<1>6. QED
  BY <1>3, <1>4, <1>5

\* A carved island joins the islands of its arena.
LEMMA CarvedIslands ==
  ASSUME IslandInv, NEW p \in FreePlaces, NEW s \in Nat, NEW t \in Nat,
         p \in Suitable(s), Carve(list[p[1]], p[2], s, t),
         NEW a, a = list[p[1]], NEW r, r = free[a][p[2]], NEW c, c = Candidate(a, r, s),
         NEW x \in [address : Nat, target : Nat], x.address = c, x.target = t
  PROVE  /\ IslandsOf(a)' = IslandsOf(a) \cup {x}
         /\ \A b \in Arenas : b # a => IslandsOf(b)' = IslandsOf(b)
         /\ AllIslands' = AllIslands \cup {x}
<1>1. a \in Arenas /\ r \in Ranges
  BY FreeRangeProperties DEF IslandInv
<1>2. x = [address |-> c, target |-> t]
  OBVIOUS
<1>3. islands' = [islands EXCEPT ![a] = <<x>> \o islands[a]]
  BY <1>2 DEF Carve, Push
<1>4. islands'[a] = <<x>> \o islands[a] /\ \A b \in Arenas : b # a => islands'[b] = islands[b]
  BY <1>1, <1>3 DEF IslandInv, Ownership, TypeOK
<1>5. islands[a] \in Seq([address : Nat, target : Nat])
  BY <1>1 DEF IslandInv, Ownership, TypeOK
<1>6. PICK S : S = [address : Nat, target : Nat]
  OBVIOUS
<1>7. PICK u : u = <<x>> \o islands[a] /\ islands'[a] = u
  BY <1>4
<1>8. {u[i] : i \in 1 .. Len(u)} = {islands[a][i] : i \in 1 .. Len(islands[a])} \cup {x}
  <2>1. islands[a] \in Seq(S) /\ x \in S
    BY <1>5, <1>6
  <2>2. QED
    BY <1>7, <2>1, PushElements
<1>9. IslandsOf(a)' = IslandsOf(a) \cup {x}
  BY <1>7, <1>8 DEF IslandsOf
<1>10. \A b \in Arenas : b # a => IslandsOf(b)' = IslandsOf(b)
  BY <1>4 DEF IslandsOf
<1>11. AllIslands' = AllIslands \cup {x}
  BY <1>1, <1>9, <1>10 DEF AllIslands
<1>12. QED
  BY <1>9, <1>10, <1>11

LEMMA CarveIslands ==
  ASSUME IslandInv, NEW p \in FreePlaces, NEW s \in 0 .. AddressSpace - 1, NEW t \in Nat,
         p \in Suitable(s), Carve(list[p[1]], p[2], s, t),
         InAllocation(s, Word),
         NEW a, a = list[p[1]], NEW r, r = free[a][p[2]], NEW c, c = Candidate(a, r, s)
  PROVE  IslandsOwned' /\ DetoursReach' /\ BackupsReach'
<1> DEFINE x == [address |-> c, target |-> t]
<1>1. /\ a \in Published /\ a \in Arenas /\ r \in Ranges
      /\ r.offset \in Nat /\ r.size \in Nat /\ End(r) = r.offset + r.size
  BY FreeRangeProperties DEF IslandInv
<1>2. Suits(a, r, s) /\ s \in Nat
  BY DEF Suitable
<1>3. /\ c \in Nat /\ c - Base[a] \in Nat /\ r.offset <= c - Base[a]
      /\ c - Base[a] + Alignment <= r.offset + r.size
  BY <1>1, <1>2, IslandCutType DEF IslandInv, Ownership
<1>4. Encodable(s, c)
  BY <1>2 DEF Suits
<1>5. BranchTo(s, c) = c
  BY <1>2, <1>3, <1>4, BranchArrives
<1>6. /\ list' = list /\ saved' = saved
      /\ allocs' = [allocs EXCEPT ![a] = allocs[a] \cup {Own(a, x)}]
      /\ islands' = [islands EXCEPT ![a] = <<x>> \o islands[a]]
      /\ jump' = Put(Put(Keep(jump, c, Alignment), c, t), s, c)
      /\ patched' = Put(Keep(patched, c, Alignment), s, t)
      /\ spoiled' = spoiled \cup Hit(s, Word)
  BY <1>5 DEF Carve, Push, Own
<1>8. Base[a] \in Nat /\ Alignment \in Nat /\ Alignment > 0
  BY <1>1, ArenaAssumption, AlignmentAssumption
<1>9. Base[a] + r.offset <= c /\ c + Alignment <= Base[a] + End(r)
  BY <1>1, <1>3, <1>8
<1>10. Away(c, Alignment)
  BY <1>3, <1>8, <1>9, AwayFromFree
<1>11. s + Word <= c \/ c + Alignment <= s
  BY <1>3, <1>9, SourceOutsideFree
<1>12. s # c
  BY <1>2, <1>3, <1>8, <1>11, WordInAlignment
<1>13. /\ IslandsOf(a)' = IslandsOf(a) \cup {x}
       /\ \A b \in Arenas : b # a => IslandsOf(b)' = IslandsOf(b)
       /\ AllIslands' = AllIslands \cup {x}
  <2>1. x \in [address : Nat, target : Nat] /\ x.address = c /\ x.target = t
    BY <1>3
  <2> HIDE DEF x
  <2>2. QED
    BY <1>2, <2>1, CarvedIslands
<1>14. AllIslands' = AllIslands \cup {x}
  BY <1>13
<1>15. ASSUME NEW d, NEW u, Reaches(d, u)
       PROVE  Reaches(d, u)'
  BY <1>14, <1>15 DEF Reaches
<1>16. ASSUME NEW y \in AllIslands, y.address \notin spoiled', y.address \in DOMAIN jump
       PROVE  y.address \in DOMAIN jump' /\ jump'[y.address] = jump[y.address]
  <2>1. y.address \in DOMAIN jump
    BY <1>16
  <2>2. ~Overlap(y.address, Word, c, Alignment) /\ y.address \in Nat
    BY <1>10, IslandTypes DEF Away, IslandInv, Ownership
  <2>3. y.address # c
    BY <1>3, <1>8, <2>2, WordInAlignment DEF Overlap
  <2>4. y.address # s
    BY <1>2, <1>6, <1>16, HitSpoils, WordInAlignment
  <2>5. y.address \in DOMAIN Keep(jump, c, Alignment)
        /\ Keep(jump, c, Alignment)[y.address] = jump[y.address]
    BY <2>1, <2>2, KeepDomain
  <2>6. QED
    BY <1>6, <2>3, <2>4, <2>5, PutDomain
<1>17. c \in DOMAIN jump' /\ jump'[c] = t
  BY <1>6, <1>12, PutDomain
<1>18. IslandsOwned'
  <2>1. Published' = Published
    BY <1>6 DEF Published
  <2>2. allocs'[a] = allocs[a] \cup {Own(a, x)} /\ \A b \in Arenas : b # a => allocs'[b] = allocs[b]
    BY <1>1, <1>6 DEF IslandInv, Ownership, TypeOK
  <2>3. ASSUME NEW b \in Arenas, NEW y \in IslandsOf(b)
        PROVE  /\ b \in Published /\ Own(b, y) \in allocs'[b]
               /\ y.address \notin spoiled' => y.address \in DOMAIN jump' /\ jump'[y.address] = y.target
    <3>1. b \in Published /\ Own(b, y) \in allocs[b] /\ Leads(y)
      BY DEF IslandInv, IslandsOwned
    <3>2. y \in AllIslands
      BY DEF AllIslands
    <3>3. Own(b, y) \in allocs'[b]
      BY <2>2, <3>1
    <3>4. QED
      BY <1>6, <1>16, <3>1, <3>2, <3>3 DEF Leads
  <2>4. x.address = c /\ x.target = t
    OBVIOUS
  <2>5. ASSUME NEW b \in Arenas, NEW y \in IslandsOf(b)'
        PROVE  /\ b \in Published' /\ Own(b, y) \in allocs'[b]
               /\ y.address \notin spoiled' => y.address \in DOMAIN jump' /\ jump'[y.address] = y.target
    <3>1. CASE y \in IslandsOf(b)
      BY <2>1, <2>3, <3>1
    <3>2. CASE y \notin IslandsOf(b)
      <4>1. b = a /\ y = x
        BY <1>13, <3>2
      <4>2. QED
        BY <1>1, <1>17, <2>1, <2>2, <2>4, <4>1
    <3>3. QED
      BY <3>1, <3>2
  <2>6. QED
    BY <2>5 DEF IslandsOwned, Own, Leads
<1>19. DetoursReach'
  <2>1. SUFFICES ASSUME NEW y \in DOMAIN patched'
                 PROVE  /\ y \in DOMAIN jump'
                        /\ Encodable(y, jump'[y])
                        /\ \/ jump'[y] = patched'[y]
                           \/ [address |-> jump'[y], target |-> patched'[y]] \in AllIslands'
    BY DEF DetoursReach, Reaches
  <2>2. CASE y = s
    <3>1. y \in DOMAIN jump' /\ jump'[y] = c /\ patched'[y] = t
      BY <1>6, <2>2, PutDomain
    <3>2. x \in AllIslands'
      BY <1>14
    <3>3. QED
      BY <1>4, <2>2, <3>1, <3>2 DEF Reaches
  <2>3. CASE y # s
    <3>1. y \in DOMAIN Keep(patched, c, Alignment)
          /\ patched'[y] = Keep(patched, c, Alignment)[y]
      BY <1>6, <2>3, PutDomain
    <3>2. y \in DOMAIN patched /\ ~Overlap(y, Word, c, Alignment) /\ patched'[y] = patched[y]
      BY <3>1, KeepDomain
    <3>3. y \in DOMAIN jump /\ Encodable(y, jump[y]) /\ Reaches(jump[y], patched[y])
      BY <3>2 DEF IslandInv, DetoursReach
    <3>4. y # c
      BY <1>3, <1>8, <3>2, WordInAlignment DEF Overlap
    <3>5. y \in DOMAIN Keep(jump, c, Alignment) /\ Keep(jump, c, Alignment)[y] = jump[y]
      BY <3>2, <3>3, KeepDomain
    <3>6. y \in DOMAIN jump' /\ jump'[y] = jump[y]
      BY <1>6, <2>3, <3>4, <3>5, PutDomain
    <3>7. QED
      BY <1>14, <3>2, <3>3, <3>6 DEF Reaches
  <2>4. QED
    BY <2>2, <2>3
<1>20. BackupsReach'
  BY <1>6, <1>15 DEF BackupsReach, IslandInv
<1>21. QED
  BY <1>18, <1>19, <1>20

\* What a detour that is made has passed.
LEMMA SourceProperties ==
  ASSUME NEW s \in Sources, NEW t \in Targets, DetourError(s, t) = "OK"
  PROVE  /\ s \in 0 .. AddressSpace - 1 /\ s \in Nat /\ t \in Nat
         /\ InAllocation(s, Word) /\ s % Word = 0
<1>1. Validate(s, Word) = "OK"
  BY DEF DetourError
<1>2. QED
  BY <1>1, InputAssumption, AlignmentAssumption DEF Validate

LEMMA DetourApplyIslands ==
  ASSUME IslandInv, NEW s \in Sources, NEW t \in Targets, DetourApply(s, t)
  PROVE  IslandsOwned' /\ DetoursReach' /\ BackupsReach'
<1>1. CASE \E e : Return(e)
  BY <1>1, ReturnIslands
<1>5. \A x \in AllIslands : x.address \notin Hit(s, Word) => s # x.address
  BY HitSpoils, WordInAlignment, InputAssumption, AlignmentAssumption
<1>2. ASSUME DetourError(s, t) = "OK", ApplyDirect(s, t)
      PROVE  IslandsOwned' /\ DetoursReach' /\ BackupsReach'
  <2>1. s \in Nat /\ t \in Nat /\ Encodable(s, t)
    BY <1>2, SourceProperties DEF ApplyDirect
  <2>2. BranchTo(s, t) = t
    BY <2>1, BranchArrives
  <2>4. /\ jump' = Put(jump, s, t) /\ patched' = Put(patched, s, t)
        /\ spoiled' = spoiled \cup Hit(s, Word)
        /\ UNCHANGED <<list, allocs, islands, saved>>
    BY <1>2, <2>2 DEF ApplyDirect, Branch
  <2>3. \A x \in AllIslands : x.address \in spoiled' \/ s # x.address
    BY <1>5, <2>4
  <2>5. Reaches(t, t)
    BY DEF Reaches
  <2>6. QED
    BY <2>1, <2>3, <2>4, <2>5, BranchKeeps
<1>3. ASSUME DetourError(s, t) = "OK", ApplyReuse(s, t)
      PROVE  IslandsOwned' /\ DetoursReach' /\ BackupsReach'
  <2>1. PICK p \in IslandPlaces : /\ p \in Reusable(s, t)
                                  /\ Branch(s, islands[list[p[1]]][p[2]].address, t)
    BY <1>3 DEF ApplyReuse, IsFirst
  <2>2. PICK x : x = islands[list[p[1]]][p[2]]
    OBVIOUS
  <2>3. x \in AllIslands /\ x \in [address : Nat, target : Nat]
    BY <2>2, PlacesOfIslands, IslandTypes DEF IslandInv, Ownership
  <2>4. x.target = t /\ Encodable(s, x.address)
    BY <2>1, <2>2 DEF Reusable
  <2>5. s \in Nat /\ t \in Nat /\ x.address \in Nat
    BY <1>3, <2>3, SourceProperties
  <2>6. x = [address |-> x.address, target |-> t]
    BY <2>3, <2>4
  <2>7. Reaches(x.address, t)
    BY <2>3, <2>6 DEF Reaches
  <2>8. BranchTo(s, x.address) = x.address
    BY <2>4, <2>5, BranchArrives
  <2>10. /\ jump' = Put(jump, s, x.address) /\ patched' = Put(patched, s, t)
         /\ spoiled' = spoiled \cup Hit(s, Word)
         /\ UNCHANGED <<list, allocs, islands, saved>>
    BY <1>3, <2>1, <2>2, <2>8 DEF ApplyReuse, Branch
  <2>9. \A y \in AllIslands : y.address \in spoiled' \/ s # y.address
    BY <1>5, <2>10
  <2>11. QED
    BY <2>4, <2>7, <2>9, <2>10, BranchKeeps
<1>4. ASSUME DetourError(s, t) = "OK", NEW p \in FreePlaces,
             IsFirst(p, Suitable(s)), Carve(list[p[1]], p[2], s, t)
      PROVE  IslandsOwned' /\ DetoursReach' /\ BackupsReach'
  <2>1. p \in Suitable(s)
    BY <1>4 DEF IsFirst
  <2>2. s \in 0 .. AddressSpace - 1 /\ t \in Nat /\ InAllocation(s, Word)
    BY <1>4, SourceProperties
  <2>3. QED
    BY <1>4, <2>1, <2>2, CarveIslands
<1>6. QED
  BY <1>1, <1>2, <1>3, <1>4 DEF DetourApply, ApplyIsland

\* A backup keeps a detour together with its target.
LEMMA DetourBackupIslands ==
  ASSUME IslandInv, NEW s \in Sources, NEW b \in Buffers, NEW size, DetourBackup(s, b, size)
  PROVE  IslandsOwned' /\ DetoursReach' /\ BackupsReach'
<1>1. CASE \E e : Return(e)
  BY <1>1, ReturnIslands
<1>2. ASSUME saved' = Put(saved, b, [at |-> s, jump |-> Instruction(jump, s),
                                     patched |-> Instruction(patched, s)]),
             UNCHANGED <<list, free, allocs, islands, jump, patched, spoiled>>
      PROVE  IslandsOwned' /\ DetoursReach' /\ BackupsReach'
  <2>1. \A a \in Arenas : \A x \in IslandsOf(a) : Own(a, x) \in allocs'[a]
    BY <1>2 DEF IslandInv, IslandsOwned
  <2>3. IslandsOwned' /\ \A d, t : Reaches(d, t)' = Reaches(d, t)
    BY <1>2, <2>1, IslandsKept
  <2>4. DetoursReach'
    BY <1>2, <2>3 DEF DetoursReach, IslandInv
  <2>5. ASSUME NEW c \in DOMAIN saved', NEW t \in saved'[c].patched
        PROVE  /\ saved'[c].patched = {t}
               /\ \E d \in Nat : /\ saved'[c].jump = {d}
                                 /\ Encodable(saved'[c].at, d)
                                 /\ Reaches(d, t)
    <3>1. CASE c = b
      <4>1. /\ saved'[c].at = s /\ saved'[c].jump = Instruction(jump, s)
            /\ saved'[c].patched = Instruction(patched, s)
        BY <1>2, <3>1, PutDomain
      <4>2. s \in DOMAIN patched /\ t = patched[s] /\ saved'[c].patched = {t}
        BY <2>5, <4>1 DEF Instruction
      <4>3. s \in DOMAIN jump /\ Encodable(s, jump[s]) /\ Reaches(jump[s], t)
        BY <4>2 DEF IslandInv, DetoursReach
      <4>4. jump[s] \in Nat
        BY <4>3 DEF IslandInv, Ownership, TypeOK
      <4>5. Instruction(jump, s) = {jump[s]}
        BY <4>2, <4>3 DEF Instruction
      <4>6. QED
        BY <4>1, <4>2, <4>3, <4>4, <4>5
    <3>2. CASE c # b
      <4>1. c \in DOMAIN saved /\ saved'[c] = saved[c]
        BY <1>2, <2>5, <3>2, PutDomain
      <4>2. QED
        BY <2>5, <4>1 DEF IslandInv, BackupsReach
    <3>3. QED
      BY <3>1, <3>2
  <2>6. BackupsReach'
    BY <2>3, <2>5 DEF BackupsReach
  <2>7. QED
    BY <2>3, <2>4, <2>6
<1>3. QED
  BY <1>1, <1>2 DEF DetourBackup

LEMMA RestoredDomain ==
  ASSUME NEW f, NEW s, NEW old, NEW x
  PROVE  /\ x # s => /\ x \in DOMAIN Restored(f, s, old) <=> x \in DOMAIN f
                     /\ x \in DOMAIN f => Restored(f, s, old)[x] = f[x]
         /\ s \in DOMAIN Restored(f, s, old) <=> old # {}
         /\ \A d : old = {d} => Restored(f, s, old)[s] = d
  BY DEF Restored

\* A restored detour leads where it led when it was backed up.
LEMMA DetourRestoreIslands ==
  ASSUME IslandInv, NEW b \in Buffers, NEW size, DetourRestore(b, size)
  PROVE  IslandsOwned' /\ DetoursReach' /\ BackupsReach'
<1>1. CASE \E e : Return(e)
  BY <1>1, ReturnIslands
<1>2. ASSUME NEW s, s = saved[b].at, b \in DOMAIN saved,
             jump' = Restored(jump, s, saved[b].jump),
             patched' = Restored(patched, s, saved[b].patched),
             spoiled' = spoiled \cup Hit(s, Word),
             UNCHANGED <<list, free, allocs, islands, saved>>
      PROVE  IslandsOwned' /\ DetoursReach' /\ BackupsReach'
  <2>1. s \in Nat
    BY <1>2 DEF IslandInv, Ownership, TypeOK
  <2>2. \A x \in AllIslands : x.address \notin spoiled' => s # x.address
    BY <1>2, <2>1, HitSpoils, WordInAlignment
  <2>3. \A x \in AllIslands : x.address \notin spoiled' /\ x.address \in DOMAIN jump =>
          x.address \in DOMAIN jump' /\ jump'[x.address] = jump[x.address]
    BY <1>2, <2>2, RestoredDomain
  <2>4. \A a \in Arenas : \A x \in IslandsOf(a) : Own(a, x) \in allocs'[a]
    BY <1>2 DEF IslandInv, IslandsOwned
  <2>5. IslandsOwned' /\ \A d, t : Reaches(d, t)' = Reaches(d, t)
    BY <1>2, <2>3, <2>4, IslandsKept
  <2>6. ASSUME NEW y \in DOMAIN patched'
        PROVE  /\ y \in DOMAIN jump'
               /\ Encodable(y, jump'[y])
               /\ Reaches(jump'[y], patched'[y])
    <3>1. CASE y = s
      <4>1. saved[b].patched # {}
        BY <1>2, <2>6, <3>1, RestoredDomain
      <4>2. PICK t \in saved[b].patched : saved[b].patched = {t}
        BY <1>2, <4>1 DEF IslandInv, BackupsReach
      <4>3. PICK d \in Nat : saved[b].jump = {d} /\ Encodable(s, d) /\ Reaches(d, t)
        BY <1>2, <4>2 DEF IslandInv, BackupsReach
      <4>4. s \in DOMAIN jump' /\ jump'[s] = d
        <5>1. saved[b].jump # {} /\ saved[b].jump = {d}
          BY <4>3
        <5>2. QED
          BY <1>2, <5>1, RestoredDomain
      <4>6. patched'[s] = t
        BY <1>2, <4>2, RestoredDomain
      <4>5. QED
        BY <3>1, <4>3, <4>4, <4>6
    <3>2. CASE y # s
      <4>1. y \in DOMAIN patched /\ patched'[y] = patched[y]
        BY <1>2, <2>6, <3>2, RestoredDomain
      <4>2. y \in DOMAIN jump /\ Encodable(y, jump[y]) /\ Reaches(jump[y], patched[y])
        BY <4>1 DEF IslandInv, DetoursReach
      <4>3. y \in DOMAIN jump' /\ jump'[y] = jump[y]
        BY <1>2, <3>2, <4>2, RestoredDomain
      <4>4. QED
        BY <4>1, <4>2, <4>3
    <3>3. QED
      BY <3>1, <3>2
  <2>7. DetoursReach'
    BY <2>5, <2>6 DEF DetoursReach
  <2>8. BackupsReach'
    BY <1>2, <2>5 DEF BackupsReach, IslandInv
  <2>9. QED
    BY <2>5, <2>7, <2>8
<1>3. QED
  BY <1>1, <1>2 DEF DetourRestore

LEMMA CleanupIslands ==
  ASSUME Cleanup
  PROVE  IslandsOwned' /\ DetoursReach' /\ BackupsReach'
<1>1. \A a \in Arenas : islands'[a] = <<>>
  BY DEF Cleanup
<1>2. \A a \in Arenas : IslandsOf(a)' = {}
  BY <1>1 DEF IslandsOf
<1>3. IslandsOwned'
  BY <1>2 DEF IslandsOwned
<1>4. DOMAIN patched' = {} /\ DOMAIN saved' = {}
  BY DEF Cleanup, Nothing
<1>5. QED
  BY <1>3, <1>4 DEF DetoursReach, BackupsReach

LEMMA IslandInit == Init => IslandInv
<1> SUFFICES ASSUME Init PROVE IslandInv
  OBVIOUS
<1>1. \A a \in Arenas : IslandsOf(a) = {}
  BY DEF Init, IslandsOf
<1>2. DOMAIN patched = {} /\ DOMAIN saved = {}
  BY DEF Init, Nothing
<1>3. QED
  BY <1>1, <1>2, OwnershipInit DEF IslandInv, IslandsOwned, DetoursReach, BackupsReach

LEMMA IslandStep ==
  ASSUME IslandInv, [Next]_vars
  PROVE  IslandInv'
<1>1. Ownership'
  BY OwnershipStep DEF IslandInv
<1>2. IslandsOwned' /\ DetoursReach' /\ BackupsReach'
  <2>1. CASE UNCHANGED vars
    BY <2>1, ReturnIslands DEF vars, Return
  <2>2. CASE Prepare
    BY <2>2, PrepareIslands
  <2>3. ASSUME NEW size \in Sizes, Alloc(size)
        PROVE  IslandsOwned' /\ DetoursReach' /\ BackupsReach'
    BY <2>3, AllocIslands
  <2>4. ASSUME NEW addr \in Blocks, NEW size \in Sizes, Free(addr, size)
        PROVE  IslandsOwned' /\ DetoursReach' /\ BackupsReach'
    BY <2>4, FreeIslands
  <2>5. ASSUME NEW addr \in Blocks, NEW size \in Sizes, WriteMemory(addr, size)
        PROVE  IslandsOwned' /\ DetoursReach' /\ BackupsReach'
    BY <2>5, WriteMemoryIslands
  <2>6. ASSUME NEW s \in Sources, NEW t \in Targets, DetourApply(s, t)
        PROVE  IslandsOwned' /\ DetoursReach' /\ BackupsReach'
    BY <2>6, DetourApplyIslands
  <2>7. ASSUME NEW s \in Sources, NEW b \in Buffers, NEW size \in Sizes, DetourBackup(s, b, size)
        PROVE  IslandsOwned' /\ DetoursReach' /\ BackupsReach'
    BY <2>7, DetourBackupIslands
  <2>8. ASSUME NEW b \in Buffers, NEW size \in Sizes, DetourRestore(b, size)
        PROVE  IslandsOwned' /\ DetoursReach' /\ BackupsReach'
    BY <2>8, DetourRestoreIslands
  <2>9. ASSUME NEW s \in Sources, NEW size \in Sizes, DetourValidate(s, size)
        PROVE  IslandsOwned' /\ DetoursReach' /\ BackupsReach'
    BY <2>9, ReturnIslands DEF DetourValidate
  <2>10. CASE Cleanup
    BY <2>10, CleanupIslands
  <2>11. QED
    BY <2>1, <2>2, <2>3, <2>4, <2>5, <2>6, <2>7, <2>8, <2>9, <2>10 DEF Next
<1>3. QED
  BY <1>1, <1>2 DEF IslandInv

LEMMA IslandsCorrect == Spec => []IslandInv
<1>1. IslandInv /\ [Next]_vars => IslandInv'
  BY IslandStep
<1>2. QED
  BY <1>1, IslandInit, PTL DEF Spec

-----------------------------------------------------------------------------
(* What follows                                                            *)

\* No sequence of calls frees or hands out again an island that the list of an
\* arena names, nor changes where it leads, other than a caller's own store into
\* it: later detours may share it.
THEOREM IslandsStayIntact == Spec => []IslandsIntact
<1>1. ASSUME IslandInv
      PROVE  IslandsIntact
  <2>1. SUFFICES ASSUME NEW p \in IslandPlaces, NEW a, a = list[p[1]],
                        NEW x, x = islands[a][p[2]]
                 PROVE  /\ [offset |-> x.address - Base[a], size |-> Alignment] \in allocs[a]
                        /\ Leads(x)
    BY DEF IslandsIntact, Leads
  <2>2. a \in Arenas /\ x \in IslandsOf(a)
    BY <1>1, <2>1, PlacesOfIslands DEF IslandInv, Ownership
  <2>3. QED
    BY <1>1, <2>2 DEF IslandInv, IslandsOwned, Own
<1>2. QED
  BY <1>1, IslandsCorrect, PTL

LEMMA LandsWhereAsked ==
  ASSUME IslandInv
  PROVE  \A s \in DOMAIN patched : s \in DOMAIN jump /\ (Lands(s) = patched[s] \/ jump[s] \in spoiled)
<1>1. SUFFICES ASSUME NEW s \in DOMAIN patched
               PROVE  s \in DOMAIN jump /\ (Lands(s) = patched[s] \/ jump[s] \in spoiled)
  OBVIOUS
<1>2. s \in DOMAIN jump /\ Reaches(jump[s], patched[s])
  BY DEF IslandInv, DetoursReach
<1>3. CASE jump[s] = patched[s]
  BY <1>2, <1>3 DEF Lands
<1>4. CASE jump[s] # patched[s] /\ jump[s] \notin spoiled
  <2>1. PICK a \in Arenas : [address |-> jump[s], target |-> patched[s]] \in IslandsOf(a)
    BY <1>2, <1>4 DEF Reaches, AllIslands
  <2>2. Leads([address |-> jump[s], target |-> patched[s]])
    BY <2>1 DEF IslandInv, IslandsOwned
  <2>3. jump[s] \in DOMAIN jump /\ jump[jump[s]] = patched[s]
    BY <1>4, <2>2 DEF Leads
  <2>4. QED
    BY <1>2, <1>4, <2>3 DEF Lands
<1>5. QED
  BY <1>2, <1>3, <1>4

\* A detoured address leads to the target last asked for, through a branch
\* its instruction can encode, after any sequence of calls: also when the
\* detour shares an island or was restored from a backup.  Only a store of a
\* caller into an island leads it astray, and then only where that island is used.
THEOREM DetoursAlwaysLand == Spec => []DetoursLand
<1>1. ASSUME IslandInv
      PROVE  DetoursLand
  BY <1>1, LandsWhereAsked DEF DetoursLand, IslandInv, DetoursReach
<1>2. QED
  BY <1>1, IslandsCorrect, PTL

\* While an arena is published its islands stay, and new ones come before
\* them: a branch kept in a backup buffer never dangles.
THEOREM IslandsArePermanent == Spec => IslandsPermanent
<1> DEFINE Stay == list' # <<>> =>
             \A a \in Published : \E old \in 0 .. Len(islands'[a]) :
               islands[a] = SubSeq(islands'[a], old + 1, Len(islands'[a]))
<1>1. ASSUME TypeOK, [Next]_vars
      PROVE  Stay
  <2>1. \A a \in Published : a \in Arenas
    BY <1>1 DEF Published, TypeOK
  <2>2. ASSUME NEW a \in Published, islands'[a] = islands[a]
        PROVE  \E old \in 0 .. Len(islands'[a]) :
                 islands[a] = SubSeq(islands'[a], old + 1, Len(islands'[a]))
    <3>1. islands[a] \in Seq([address : Nat, target : Nat])
      BY <1>1, <2>1 DEF TypeOK
    <3>2. islands[a] = SubSeq(islands[a], 0 + 1, Len(islands[a])) /\ 0 \in 0 .. Len(islands[a])
      BY <3>1
    <3>3. QED
      BY <2>2, <3>2
  <2>3. CASE islands' = islands
    BY <2>2, <2>3
  <2>4. CASE Cleanup
    BY <2>4 DEF Cleanup
  <2>5. ASSUME NEW b, NEW i, NEW s, NEW t, Carve(b, i, s, t)
        PROVE  Stay
    <3>1. PICK x : islands' = [islands EXCEPT ![b] = <<x>> \o islands[b]]
      BY <2>5 DEF Carve, Push
    <3>2. ASSUME NEW a \in Published, a # b
          PROVE  islands'[a] = islands[a]
      BY <1>1, <2>1, <3>1, <3>2 DEF TypeOK
    <3>3. ASSUME b \in Published
          PROVE  \E old \in 0 .. Len(islands'[b]) :
                   islands[b] = SubSeq(islands'[b], old + 1, Len(islands'[b]))
      <4>1. islands'[b] = <<x>> \o islands[b]
        BY <1>1, <2>1, <3>1, <3>3 DEF TypeOK
      <4>2. islands[b] \in Seq([address : Nat, target : Nat])
        BY <1>1, <2>1, <3>3 DEF TypeOK
      <4>3. PICK u : u = islands[b]
        OBVIOUS
      <4>4. u = SubSeq(<<x>> \o u, 2, Len(<<x>> \o u)) /\ 1 \in 0 .. Len(<<x>> \o u)
        BY <4>2, <4>3
      <4>5. QED
        BY <4>1, <4>3, <4>4
    <3>4. QED
      BY <2>2, <3>2, <3>3
  <2>6. QED
    BY <1>1, <2>3, <2>4, <2>5
       DEF Next, vars, Prepare, Publish, Return, Alloc, AllocFrom, Grant, Free, Release,
           WriteMemory, DetourApply, ApplyDirect, ApplyReuse, ApplyIsland, DetourBackup,
           DetourRestore, DetourValidate
<1>2. QED
  BY <1>1, TypeCorrect, PTL DEF Spec, IslandsPermanent

\* A call that reports an error has changed nothing: no range is cut, no
\* block or island handed out and no byte of code written before the error.
THEOREM FailuresChangeNothing == Spec => FailedCallsChangeNothing
<1>1. ASSUME Next, ret' # "OK"
      PROVE  UNCHANGED <<pool, jump, patched>>
  <2>1. CASE \E e : Return(e)
    BY <2>1 DEF Return, pool
  <2>2. CASE ret' = "OK"
    BY <1>1, <2>2
  <2>3. QED
    BY <1>1, <2>1, <2>2
       DEF Next, vars, Prepare, Publish, Alloc, AllocFrom, Grant, Free, Release,
           WriteMemory, DetourApply, ApplyDirect, ApplyReuse, ApplyIsland, DetourBackup,
           DetourRestore, DetourValidate, Cleanup
<1>2. QED
  BY <1>1, PTL DEF Spec, FailedCallsChangeNothing

-----------------------------------------------------------------------------
(* The search for room for an island                                       *)

LEMMA AlignedIsWhole ==
  ASSUME NEW n \in Nat, n % Alignment = 0
  PROVE  n % Word = 0
<1>1. Alignment \in Nat \ {0} /\ Word \in Nat \ {0} /\ Alignment % Word = 0
  BY AlignmentAssumption, EncodingAssumption
<1>2. PICK k \in Int : n = Alignment * k
  <2>1. n = Alignment * (n \div Alignment) + (n % Alignment) /\ n \div Alignment \in Int
    BY <1>1
  <2>2. QED
    BY <1>1, <2>1
<1>3. PICK j \in Int : Alignment = Word * j
  <2>1. Alignment = Word * (Alignment \div Word) + (Alignment % Word) /\ Alignment \div Word \in Int
    BY <1>1
  <2>2. QED
    BY <1>1, <2>1
<1>4. PICK i \in Int : i = k * j
  OBVIOUS
<1>5. n = i * Word + 0 /\ 0 \in 0 .. Word - 1
  BY <1>1, <1>2, <1>3, <1>4
<1>6. (i * Word + 0) % Word = 0
  BY <1>1, <1>5, Division
<1>7. QED
  BY <1>5, <1>6

\* Rounding up gives the least aligned number that is not less.
LEMMA RoundUpLeast ==
  ASSUME NEW n \in Nat
  PROVE  /\ RoundUp(n) % Alignment = 0
         /\ \A m \in Nat : m % Alignment = 0 /\ n <= m => RoundUp(n) <= m
<1>1. Alignment \in Nat \ {0}
  BY AlignmentAssumption
<1>2. PICK q : q = (n + Alignment - 1) \div Alignment
  OBVIOUS
<1>3. q \in Int /\ Alignment * q <= n + Alignment - 1
  <2>1. n + Alignment - 1 = Alignment * q + ((n + Alignment - 1) % Alignment) /\ q \in Int
        /\ (n + Alignment - 1) % Alignment \in 0 .. Alignment - 1
    BY <1>1, <1>2
  <2>2. QED
    BY <1>1, <2>1
<1>4. RoundUp(n) = q * Alignment
  BY <1>2 DEF RoundUp
<1>5. RoundUp(n) % Alignment = 0
  <2>1. 0 \in 0 .. Alignment - 1 /\ RoundUp(n) = q * Alignment + 0
    BY <1>1, <1>3, <1>4
  <2>2. QED
    BY <1>1, <1>3, <2>1, Division
<1>6. ASSUME NEW m \in Nat, m % Alignment = 0, n <= m
      PROVE  RoundUp(n) <= m
  <2>1. PICK k : k = m \div Alignment
    OBVIOUS
  <2>2. k \in Int /\ m = Alignment * k
    BY <1>1, <1>6, <2>1
  <2>3. CASE q >= k + 1
    <3>1. Alignment * (q - k) >= Alignment
      BY <1>1, <1>3, <2>2, <2>3
    <3>2. QED
      BY <1>1, <1>3, <1>6, <2>2, <3>1
  <2>4. CASE q <= k
    <3>1. Alignment * (k - q) >= 0
      BY <1>1, <1>3, <2>2, <2>4
    <3>2. QED
      BY <1>1, <1>3, <1>4, <2>2, <3>1
  <2>5. QED
    BY <1>3, <2>2, <2>3, <2>4
<1>7. QED
  BY <1>5, <1>6

\* A branch only lands on whole words from a whole word.
LEMMA LandingIsWhole ==
  ASSUME NEW s \in Nat, NEW t \in Nat, t % Word = 0, NEW field \in Fields,
         Landing(s, field) = t
  PROVE  s % Word = 0
<1>1. Word \in Nat \ {0} /\ Half \in Nat \ {0} /\ field \in Int /\ Mask \in Int
  BY EncodingAssumption DEF Fields, Mask
<1>2. PICK n \in Int : t = s + n * Word
  <2>1. CASE field < Half
    BY <1>1, <2>1 DEF Landing
  <2>2. CASE ~(field < Half)
    <3>1. field - Mask \in Int /\ t = s + (field - Mask) * Word
      BY <1>1, <2>2 DEF Landing
    <3>2. QED
      BY <3>1
  <2>3. QED
    BY <2>1, <2>2
<1>3. PICK m \in Int : t = Word * m
  <2>1. t = Word * (t \div Word) + (t % Word) /\ t \div Word \in Int
    BY <1>1
  <2>2. PICK m \in Int : m = t \div Word
    BY <2>1
  <2>3. t = Word * m
    BY <1>1, <2>1, <2>2
  <2>4. QED
    BY <2>3
<1>4. PICK i \in Int : i = m - n
  OBVIOUS
<1>5. s = i * Word + 0 /\ 0 \in 0 .. Word - 1
  BY <1>1, <1>2, <1>3, <1>4
<1>6. (i * Word + 0) % Word = 0
  BY <1>1, <1>5, Division
<1>7. QED
  BY <1>5, <1>6

\* If any aligned place y of a free range is in reach, the one candidate the
\* search computes for that range is: it is the lowest aligned place above
\* the reach of a backward branch, so that no candidate lies between.
LEMMA CandidateSuffices ==
  ASSUME NEW a \in Arenas, NEW r \in Ranges, NEW s \in Nat, NEW y \in Nat,
         y % Alignment = 0, Base[a] + r.offset <= y, y + Alignment <= Base[a] + End(r),
         End(r) <= Capacity[a], Encodable(s, y)
  PROVE  Suits(a, r, s)
<1>1. /\ r.offset \in Nat /\ r.size \in Nat /\ End(r) = r.offset + r.size
      /\ Base[a] \in Nat /\ Capacity[a] \in Nat /\ Base[a] + Capacity[a] < AddressSpace
      /\ Alignment \in Nat \ {0} /\ AddressSpace \in Nat
  BY ArenaAssumption, AlignmentAssumption DEF Ranges, End
<1>2. BackwardMax \in Nat /\ ForwardMax \in Int
  BY EncodingAssumption DEF BackwardMax, ForwardMax
<1>3. PICK l : l = Lowest(a, r, s)
  OBVIOUS
<1>4. /\ l \in Nat /\ l <= y /\ Base[a] + r.offset <= l
      /\ s - l <= BackwardMax
  BY <1>1, <1>2, <1>3 DEF Lowest, MinimumAddress, Encodable
<1>5. PICK c : c = Candidate(a, r, s)
  OBVIOUS
<1>6. c = RoundUp(l)
  BY <1>3, <1>5 DEF Candidate
<1>7. c \in Nat /\ l <= c /\ c <= y /\ c % Alignment = 0
  BY <1>4, <1>6, RoundUpProperties, RoundUpLeast
<1>8. c % Word = 0
  BY <1>7, AlignedIsWhole
<1>9. Encodable(s, c)
  BY <1>2, <1>4, <1>7, <1>8 DEF Encodable
<1>10. l <= AddressSpace - 1 - (Alignment - 1)
  BY <1>1, <1>4
<1>11. PICK offset : offset = c - Base[a]
  OBVIOUS
<1>12. /\ offset >= r.offset /\ offset - r.offset <= r.size
       /\ Alignment <= r.size - (offset - r.offset)
  BY <1>1, <1>4, <1>7, <1>11
<1>13. QED
  BY <1>3, <1>5, <1>9, <1>10, <1>11, <1>12 DEF Suits

\* A detour is refused for lack of memory only when no branch lands on any
\* aligned block without an owner.
THEOREM IslandSearchComplete == Spec => []SearchComplete
<1>1. ASSUME Ownership
      PROVE  SearchComplete
  <2>1. SUFFICES ASSUME NEW s \in Sources, Suitable(s) = {}, NEW a \in Published,
                        NEW x \in 0 .. Capacity[a] - Alignment, x % Alignment = 0,
                        NEW field \in Fields, Landing(s, field) = Base[a] + x,
                        \A r \in allocs[a] : ~Overlap(x, Alignment, r.offset, r.size)
                 PROVE  FALSE
    BY DEF SearchComplete
  <2>2. /\ a \in Arenas /\ s \in Nat /\ Alignment \in Nat \ {0} /\ Base[a] \in Nat
        /\ Capacity[a] \in Nat /\ Base[a] % Alignment = 0
    BY <1>1, TiledPublished, InputAssumption, AlignmentAssumption, ArenaAssumption
  <2>3. x \in Nat /\ x + Alignment <= Capacity[a]
    BY <2>2
  <2>4. PICK i \in 1 .. Len(free[a]) : /\ free[a][i].offset <= x
                                       /\ x + Alignment <= End(free[a][i])
    BY <1>1, <2>1, <2>2, <2>3, FreeRun
  <2>5. PICK r : r = free[a][i]
    OBVIOUS
  <2>6. r \in Ranges /\ End(r) <= Capacity[a]
    BY <1>1, <2>5, TiledPublished DEF ArenaTiled, Tiled, Exclusive
  <2>7. PICK y \in Nat : y = Base[a] + x
    BY <2>2, <2>3
  <2>8. y % Alignment = 0
    <3>1. PICK j, k \in Int : Base[a] = Alignment * j /\ x = Alignment * k
      <4>1. Base[a] = Alignment * (Base[a] \div Alignment) /\ Base[a] \div Alignment \in Int
        BY <2>2
      <4>2. x = Alignment * (x \div Alignment) /\ x \div Alignment \in Int
        BY <2>1, <2>2, <2>3
      <4>3. QED
        BY <4>1, <4>2
    <3>2. PICK n \in Int : n = j + k
      OBVIOUS
    <3>3. y = n * Alignment + 0 /\ 0 \in 0 .. Alignment - 1
      BY <2>2, <2>7, <3>1, <3>2
    <3>4. QED
      BY <2>2, <3>2, <3>3, Division
  <2>9. s % Word = 0
    BY <2>1, <2>2, <2>7, <2>8, AlignedIsWhole, LandingIsWhole
  <2>10. Encodable(s, y)
    BY <2>1, <2>2, <2>7, <2>9, RefusedIsUnreachable
  <2>11. Base[a] + r.offset <= y /\ y + Alignment <= Base[a] + End(r)
    <3>1. r.offset \in Nat /\ End(r) \in Nat
      BY <2>6 DEF Ranges, End
    <3>2. r.offset <= x /\ x + Alignment <= End(r)
      BY <2>4, <2>5
    <3>3. QED
      BY <2>2, <2>3, <2>7, <3>1, <3>2
  <2>12. Suits(a, r, s)
    BY <2>2, <2>6, <2>8, <2>10, <2>11, CandidateSuffices
  <2>13. PICK k \in 1 .. Len(list) : a = list[k]
    BY DEF Published
  <2>14. <<k, i>> \in Suitable(s)
    BY <2>5, <2>12, <2>13 DEF Suitable, FreePlaces
  <2>15. QED
    BY <2>1, <2>14
<1>2. QED
  BY <1>1, OwnershipCorrect, PTL

-----------------------------------------------------------------------------
(* The code pool implements CodeService: what the callers of the pool can    *)
(* tell, whatever its free lists, islands and branches do.                   *)

\* Address y, or the whole instruction at it, is in range r of arena a.
Inside(y, a, r) == Base[a] + r.offset <= y /\ y < Base[a] + End(r)
Whole(y, a, r) == Base[a] + r.offset <= y /\ y + Word <= Base[a] + End(r)

\* A detoured instruction never crosses the end of a block.
WordsOwned ==
  \A y \in DOMAIN patched : \A a \in Arenas : \A r \in allocs[a] :
    Inside(y, a, r) => Whole(y, a, r)

\* Only what callers detour is a detour.
SourcesOnly == /\ DOMAIN patched \subseteq Sources
               /\ \A b \in DOMAIN saved : saved[b].at \in Sources

\* The invariant under which a step of the pool is a step of the service.
\* Without WordsOwned a block handed out could wipe a detour of a neighbour.
ServiceInv == IslandInv /\ WordsOwned /\ SourcesOnly

-----------------------------------------------------------------------------
(* Blocks as callers see them                                              *)

\* No address is in two blocks.
SoleOwner ==
  \A a \in Arenas, c \in Arenas : \A r \in allocs[a], q \in allocs[c] : \A y \in Nat :
    Inside(y, a, r) /\ Inside(y, c, q) => a = c /\ r = q

LEMMA OwnershipIsSole == Ownership => SoleOwner
<1>1. SUFFICES ASSUME Ownership, NEW a \in Arenas, NEW c \in Arenas,
                      NEW r \in allocs[a], NEW q \in allocs[c], NEW y \in Nat,
                      Inside(y, a, r), Inside(y, c, q), a # c \/ r # q
               PROVE  FALSE
  BY DEF SoleOwner
<1>2. /\ r \in Ranges /\ End(r) <= Capacity[a] /\ r.offset \in Nat /\ r.size \in Nat
      /\ End(r) = r.offset + r.size
  BY <1>1, AllocationProperties
<1>3. /\ q \in Ranges /\ End(q) <= Capacity[c] /\ q.offset \in Nat /\ q.size \in Nat
      /\ End(q) = q.offset + q.size
  BY <1>1, AllocationProperties
<1>4. a # c \/ End(r) <= q.offset \/ End(q) <= r.offset
  BY <1>1, AllocationProperties
<1>5. Base[a] + End(r) <= Base[c] + q.offset \/ Base[c] + End(q) <= Base[a] + r.offset
  BY <1>2, <1>3, <1>4, Elsewhere
<1>6. Base[a] \in Nat /\ Base[c] \in Nat
  BY ArenaAssumption
<1>7. QED
  BY <1>1, <1>2, <1>3, <1>5, <1>6 DEF Inside

LEMMA SoleOwnerNext == Ownership' => SoleOwner'
  BY OwnershipIsSole, PTL

\* The block and the address of an instruction that a call has validated.
LEMMA ValidBlock ==
  ASSUME Ownership, NEW y \in 0 .. AddressSpace - 1, NEW n \in Nat, n > 0
  PROVE  InAllocation(y, n) <=> \E a \in Arenas : \E r \in allocs[a] :
                                  Base[a] + r.offset <= y /\ y + n <= Base[a] + End(r)
<1>1. ASSUME NEW a \in Arenas, NEW r \in allocs[a]
      PROVE  (/\ Holds(a, y)
              /\ r.offset <= Offset(a, y)
              /\ Offset(a, y) - r.offset < r.size
              /\ n <= r.size - (Offset(a, y) - r.offset))
             <=> Base[a] + r.offset <= y /\ y + n <= Base[a] + End(r)
  <2>1. /\ r.offset \in Nat /\ r.size \in Nat /\ End(r) = r.offset + r.size /\ End(r) <= Capacity[a]
    BY <1>1, AllocationProperties
  <2>2. Base[a] \in Nat /\ Capacity[a] \in Nat /\ AddressSpace \in Nat
    BY ArenaAssumption, AlignmentAssumption
  <2>3. Offset(a, y) \in Nat /\ (Holds(a, y) => y = Base[a] + Offset(a, y))
    BY OffsetProperties
  <2>4. CASE Holds(a, y)
    BY <2>1, <2>2, <2>3, <2>4
  <2>5. CASE ~Holds(a, y)
    <3>1. ASSUME Base[a] + r.offset <= y, y + n <= Base[a] + End(r)
          PROVE  FALSE
      <4>1. y >= Base[a] /\ Offset(a, y) = y - Base[a]
        BY <2>1, <2>2, <3>1 DEF Offset
      <4>2. QED
        BY <2>1, <2>2, <2>5, <3>1, <4>1 DEF Holds
    <3>2. QED
      BY <2>5, <3>1
  <2>6. QED
    BY <2>4, <2>5
<1>2. \A a \in Published : a \in Arenas
  BY DEF Published, Ownership, TypeOK
<1>3. \A a \in Arenas : allocs[a] # {} => a \in Published
  BY DEF Ownership, Unused
<1>4. QED
  BY <1>1, <1>2, <1>3 DEF InAllocation

Owns(y) == \E a \in Arenas : \E r \in allocs[a] : Inside(y, a, r)

\* The variables of the service, without places in lists and hops.
View ==
  /\ \A b : b \in Owned <=> \E a \in Arenas : \E r \in allocs[a] : b = Block(a, r)
  /\ OwnIslands = {[address |-> x.address, size |-> Alignment] : x \in AllIslands}
  /\ \A y : y \in Detoured <=> y \in DOMAIN patched /\ Owns(y)
  /\ spoiled = {} => Routes = [y \in Detoured |-> patched[y]]

LEMMA InvariantView == ServiceInv => View
<1> SUFFICES ASSUME ServiceInv PROVE View
  OBVIOUS
<1>1. TypeOK /\ Ownership /\ IslandsOwned /\ IslandInv
  BY DEF ServiceInv, IslandInv, Ownership
<1>2. \A b : b \in Owned <=> \E a \in Arenas : \E r \in allocs[a] : b = Block(a, r)
  <2>1. \A a \in Published : a \in Arenas
    BY <1>1 DEF Published, TypeOK
  <2>2. \A a \in Arenas : allocs[a] # {} => a \in Published
    BY <1>1 DEF Ownership, Unused
  <2>3. QED
    BY <2>1, <2>2 DEF Owned
<1>3. OwnIslands = {[address |-> x.address, size |-> Alignment] : x \in AllIslands}
  BY <1>1, PlacesOfIslands DEF OwnIslands
<1>4. \A y : y \in Detoured <=> y \in DOMAIN patched /\ Owns(y)
  <2>1. ASSUME NEW y \in DOMAIN patched
        PROVE  InAllocation(y, 1) <=> Owns(y)
    <3>1. y \in 0 .. AddressSpace - 1
      BY InputAssumption DEF ServiceInv, SourcesOnly
    <3>2. \A a \in Arenas : \A r \in allocs[a] :
            Inside(y, a, r) <=> Base[a] + r.offset <= y /\ y + 1 <= Base[a] + End(r)
      <4>1. ASSUME NEW a \in Arenas, NEW r \in allocs[a]
            PROVE  Base[a] \in Nat /\ End(r) \in Nat
        <5>1. r.offset \in Nat /\ r.size \in Nat /\ End(r) = r.offset + r.size
          BY <1>1, AllocationProperties
        <5>2. QED
          BY <5>1, ArenaAssumption
      <4>2. QED
        BY <3>1, <4>1, AlignmentAssumption DEF Inside
    <3>3. QED
      BY <1>1, <3>1, <3>2, ValidBlock DEF Owns
  <2>2. QED
    BY <2>1 DEF Detoured
<1>5. ASSUME spoiled = {}
      PROVE  Routes = [y \in Detoured |-> patched[y]]
  <2>1. \A y \in Detoured : Lands(y) = patched[y]
    BY <1>1, <1>5, LandsWhereAsked DEF Detoured
  <2>2. QED
    BY <1>5, <2>1 DEF Routes
<1>6. QED
  BY <1>2, <1>3, <1>4, <1>5 DEF View

LEMMA InvariantViewNext == ServiceInv' => View'
  BY InvariantView, PTL

\* A block that is not an island's is a caller's.
LEMMA CallersOwn ==
  ASSUME ServiceInv, NEW a \in Arenas, NEW r \in allocs[a], \A x \in IslandsOf(a) : r # Own(a, x)
  PROVE  Block(a, r) \in Owned \ OwnIslands
<1>1. View /\ Ownership /\ IslandInv
  BY InvariantView DEF ServiceInv, IslandInv
<1>2. Block(a, r) \in Owned
  BY <1>1 DEF View
<1>3. ASSUME NEW x \in AllIslands, Block(a, r) = [address |-> x.address, size |-> Alignment]
      PROVE  FALSE
  <2>1. PICK c \in Arenas : x \in IslandsOf(c)
    BY DEF AllIslands
  <2>2. Own(c, x) \in allocs[c] /\ x.address \in Nat
    BY <1>1, <2>1, IslandTypes DEF IslandInv, IslandsOwned, Ownership
  <2>3. Base[a] + r.offset = x.address
    BY <1>3 DEF Block
  <2>4. r.size > 0 /\ r.size \in Nat /\ r.offset \in Nat /\ End(r) = r.offset + r.size /\ Base[a] \in Nat
    BY <1>1, AllocationProperties, ArenaAssumption
  <2>5. Inside(x.address, a, r)
    BY <2>2, <2>3, <2>4 DEF Inside
  <2>6. Inside(x.address, c, Own(c, x))
    <3>1. Base[c] \in Nat /\ Alignment \in Nat \ {0}
      BY ArenaAssumption, AlignmentAssumption
    <3>2. QED
      BY <2>2, <3>1 DEF Inside, Own, End
  <2>7. a = c /\ r = Own(c, x)
    BY <1>1, <2>2, <2>5, <2>6, OwnershipIsSole DEF SoleOwner
  <2>8. QED
    BY <2>1, <2>7
<1>4. QED
  BY <1>1, <1>2, <1>3 DEF View

-----------------------------------------------------------------------------
(* The invariant                                                           *)

\* Detours are added only inside a block, blocks only where no detour is.
LEMMA WordsStep ==
  ASSUME ServiceInv, Ownership',
         \A y \in DOMAIN patched' :
           \/ y \in DOMAIN patched
           \/ y \in Sources /\ \E a \in Arenas : \E r \in allocs'[a] : Whole(y, a, r),
         \A a \in Arenas : \A r \in allocs'[a] :
           r \in allocs[a] \/ \A y \in DOMAIN patched' : ~Inside(y, a, r)
  PROVE  WordsOwned' /\ DOMAIN patched' \subseteq Sources
<1>1. SUFFICES ASSUME NEW y \in DOMAIN patched', NEW a \in Arenas, NEW r \in allocs'[a],
                      Inside(y, a, r)
               PROVE  Whole(y, a, r)
  BY DEF WordsOwned, ServiceInv, SourcesOnly, Inside, Whole
<1>2. r \in allocs[a]
  BY <1>1
<1>3. CASE y \in DOMAIN patched
  BY <1>1, <1>2, <1>3 DEF ServiceInv, WordsOwned
<1>4. CASE y \in Sources /\ \E c \in Arenas : \E q \in allocs'[c] : Whole(y, c, q)
  <2>1. PICK c \in Arenas : \E q \in allocs'[c] : Whole(y, c, q)
    BY <1>4
  <2>2. PICK q \in allocs'[c] : Whole(y, c, q)
    BY <2>1
  <2>3. y \in Nat
    BY <1>4, InputAssumption, AlignmentAssumption
  <2>4. Inside(y, c, q)
    <3>1. q \in Ranges
      BY <2>2 DEF Ownership, TypeOK
    <3>2. Base[c] + End(q) \in Nat
      BY <3>1, ArenaAssumption DEF Ranges, End
    <3>3. QED
      BY <2>2, <2>3, <3>2, WordInAlignment DEF Inside, Whole
  <2>5. a = c /\ r = q
    BY <1>1, <2>2, <2>3, <2>4, SoleOwnerNext DEF SoleOwner, Inside
  <2>6. QED
    BY <2>2, <2>5
<1>5. QED
  BY <1>3, <1>4

\* A call that adds no block and no detour.
LEMMA NothingAdded ==
  ASSUME ServiceInv, Ownership', DOMAIN patched' \subseteq DOMAIN patched,
         \A a \in Arenas : allocs'[a] \subseteq allocs[a],
         \A b \in DOMAIN saved' : saved'[b].at \in Sources
  PROVE  WordsOwned' /\ SourcesOnly'
<1>1. WordsOwned' /\ DOMAIN patched' \subseteq Sources
  BY WordsStep
<1>2. QED
  BY <1>1 DEF SourcesOnly

\* One function of a caller is detoured, or sent back where it led.
LEMMA OneDetour ==
  ASSUME ServiceInv, Ownership', NEW s \in Sources, InAllocation(s, Word),
         UNCHANGED <<allocs, saved>>, DOMAIN patched' \subseteq DOMAIN patched \cup {s}
  PROVE  WordsOwned' /\ SourcesOnly'
<1>1. \E a \in Arenas : \E r \in allocs'[a] : Whole(s, a, r)
  BY InputAssumption, WordInAlignment, ValidBlock DEF ServiceInv, IslandInv, Whole
<1>2. WordsOwned' /\ DOMAIN patched' \subseteq Sources
  BY <1>1, WordsStep
<1>3. QED
  BY <1>2 DEF SourcesOnly, ServiceInv

\* Nothing is detoured in a new block: the call overwrote it.
LEMMA NewBlockBlank ==
  ASSUME ServiceInv, NEW lo \in Nat, NEW n \in Nat,
         NEW y \in DOMAIN Keep(patched, lo, n)
  PROVE  ~(lo <= y /\ y < lo + n)
<1>1. y \in DOMAIN patched /\ ~Overlap(y, Word, lo, n)
  BY KeepDomain
<1>2. y \in Nat
  BY <1>1 DEF ServiceInv, IslandInv, Ownership, TypeOK
<1>3. QED
  BY <1>1, <1>2, WordInAlignment DEF Overlap

\* What Grant and Carve hand out.
LEMMA GrantEffect ==
  ASSUME IslandInv, NEW p \in FreePlaces, NEW n \in Nat, n > 0,
         free[list[p[1]]][p[2]].size >= n, Grant(list[p[1]], p[2], n),
         NEW a, a = list[p[1]], NEW r, r = free[a][p[2]]
  PROVE  /\ a \in Published /\ a \in Arenas /\ r \in Ranges /\ r.offset \in Nat
         /\ Base[a] \in Nat /\ End(r) = r.offset + r.size /\ r.size \in Nat /\ End(r) <= Capacity[a]
         /\ \A q \in allocs[a] : End(r) <= q.offset \/ End(q) <= r.offset
         /\ allocs'[a] = allocs[a] \cup {[offset |-> r.offset, size |-> n]}
         /\ \A c \in Arenas : c # a => allocs'[c] = allocs[c]
         /\ patched' = Keep(patched, Base[a] + r.offset, n)
         /\ UNCHANGED <<list, islands, spoiled, saved>>
<1>1. /\ a \in Published /\ a \in Arenas /\ r \in Ranges /\ End(r) <= Capacity[a]
      /\ r.offset \in Nat /\ r.size \in Nat /\ End(r) = r.offset + r.size
      /\ \A q \in allocs[a] : End(r) <= q.offset \/ End(q) <= r.offset
  BY FreeRangeProperties DEF IslandInv
<1>2. /\ allocs' = [allocs EXCEPT ![a] = allocs[a] \cup {[offset |-> r.offset, size |-> n]}]
      /\ patched' = Keep(patched, Base[a] + r.offset, n)
      /\ UNCHANGED <<list, islands, spoiled, saved>>
  BY DEF Grant, Overwrite
<1>3. allocs \in [Arenas -> SUBSET Ranges] /\ Base[a] \in Nat
  BY <1>1, ArenaAssumption DEF IslandInv, Ownership, TypeOK
<1>4. QED
  BY <1>1, <1>2, <1>3

LEMMA CarveEffect ==
  ASSUME IslandInv, NEW p \in FreePlaces, NEW s \in Nat, NEW t \in Nat,
         p \in Suitable(s), Carve(list[p[1]], p[2], s, t),
         NEW a, a = list[p[1]], NEW r, r = free[a][p[2]], NEW c, c = Candidate(a, r, s)
  PROVE  /\ a \in Published /\ a \in Arenas /\ r \in Ranges /\ r.offset \in Nat
         /\ Base[a] \in Nat /\ End(r) = r.offset + r.size /\ r.size \in Nat /\ End(r) <= Capacity[a]
         /\ \A q \in allocs[a] : End(r) <= q.offset \/ End(q) <= r.offset
         /\ c \in Nat /\ Base[a] + r.offset <= c /\ c + Alignment <= Base[a] + End(r)
         /\ allocs'[a] = allocs[a] \cup {[offset |-> c - Base[a], size |-> Alignment]}
         /\ \A b \in Arenas : b # a => allocs'[b] = allocs[b]
         /\ patched' = Put(Keep(patched, c, Alignment), s, t)
         /\ UNCHANGED <<list, saved>>
<1>1. /\ a \in Published /\ a \in Arenas /\ r \in Ranges /\ End(r) <= Capacity[a]
      /\ r.offset \in Nat /\ r.size \in Nat /\ End(r) = r.offset + r.size
      /\ \A q \in allocs[a] : End(r) <= q.offset \/ End(q) <= r.offset
  BY FreeRangeProperties DEF IslandInv
<1>2. Suits(a, r, s)
  BY DEF Suitable
<1>3. /\ c \in Nat /\ c - Base[a] \in Nat /\ r.offset <= c - Base[a]
      /\ c - Base[a] + Alignment <= r.offset + r.size
  BY <1>1, <1>2, IslandCutType DEF IslandInv, Ownership
<1>4. /\ allocs' = [allocs EXCEPT ![a] = allocs[a] \cup {[offset |-> c - Base[a], size |-> Alignment]}]
      /\ patched' = Put(Keep(patched, c, Alignment), s, t)
      /\ UNCHANGED <<list, saved>>
  BY DEF Carve, Push
<1>5. allocs \in [Arenas -> SUBSET Ranges] /\ Base[a] \in Nat /\ Alignment \in Nat
  BY <1>1, ArenaAssumption, AlignmentAssumption DEF IslandInv, Ownership, TypeOK
<1>6. Base[a] + r.offset <= c /\ c + Alignment <= Base[a] + End(r)
  BY <1>1, <1>3, <1>5
<1>7. allocs'[a] = allocs[a] \cup {[offset |-> c - Base[a], size |-> Alignment]}
      /\ \A b \in Arenas : b # a => allocs'[b] = allocs[b]
  BY <1>1, <1>4, <1>5
<1>8. QED
  BY <1>1, <1>3, <1>4, <1>5, <1>6, <1>7

LEMMA GrantService ==
  ASSUME ServiceInv, Ownership', NEW p \in FreePlaces, NEW n \in Nat, n > 0,
         free[list[p[1]]][p[2]].size >= n, Grant(list[p[1]], p[2], n)
  PROVE  WordsOwned' /\ SourcesOnly'
<1>1. PICK a, r : a = list[p[1]] /\ r = free[a][p[2]]
  OBVIOUS
<1>2. PICK x : x = [offset |-> r.offset, size |-> n]
  OBVIOUS
<1>3. /\ a \in Arenas /\ r.offset \in Nat /\ Base[a] \in Nat
      /\ allocs'[a] = allocs[a] \cup {x}
      /\ \A c \in Arenas : c # a => allocs'[c] = allocs[c]
      /\ patched' = Keep(patched, Base[a] + r.offset, n)
      /\ saved' = saved
  BY <1>1, <1>2, GrantEffect DEF ServiceInv
<1>4. \A y \in DOMAIN patched' : y \in DOMAIN patched /\ ~Inside(y, a, x)
  <2>1. ASSUME NEW y \in DOMAIN patched'
        PROVE  y \in DOMAIN patched /\ ~Inside(y, a, x)
    <3>1. y \in DOMAIN patched
      BY <1>3, KeepDomain
    <3>2. PICK lo \in Nat : lo = Base[a] + r.offset
      BY <1>3
    <3>3. ~(lo <= y /\ y < lo + n)
      BY <1>3, <3>2, NewBlockBlank
    <3>4. x.offset = r.offset /\ End(x) = r.offset + n
      BY <1>2 DEF End
    <3>5. Base[a] + x.offset = lo /\ Base[a] + End(x) = lo + n
      BY <1>3, <3>2, <3>4
    <3>6. QED
      BY <3>1, <3>3, <3>5 DEF Inside
  <2>2. QED
    BY <2>1
<1>5. \A c \in Arenas : \A q \in allocs'[c] : q \in allocs[c] \/ (c = a /\ q = x)
  BY <1>3
<1>6. WordsOwned' /\ DOMAIN patched' \subseteq Sources
  BY <1>4, <1>5, WordsStep
<1>7. QED
  BY <1>3, <1>6 DEF SourcesOnly, ServiceInv

LEMMA CarveService ==
  ASSUME ServiceInv, Ownership', NEW p \in FreePlaces, NEW s \in Sources, NEW t \in Nat,
         p \in Suitable(s), Carve(list[p[1]], p[2], s, t),
         InAllocation(s, Word)
  PROVE  WordsOwned' /\ SourcesOnly'
<1>1. PICK a, r : a = list[p[1]] /\ r = free[a][p[2]]
  OBVIOUS
<1>2. PICK c : c = Candidate(a, r, s)
  OBVIOUS
<1>3. PICK x : x = [offset |-> c - Base[a], size |-> Alignment]
  OBVIOUS
<1>4. s \in Nat /\ s \in 0 .. AddressSpace - 1
  BY InputAssumption, AlignmentAssumption
<1>5. /\ a \in Arenas /\ c \in Nat /\ Base[a] \in Nat
      /\ Base[a] + r.offset <= c /\ c + Alignment <= Base[a] + End(r)
      /\ allocs'[a] = allocs[a] \cup {x}
      /\ \A b \in Arenas : b # a => allocs'[b] = allocs[b]
      /\ patched' = Put(Keep(patched, c, Alignment), s, t)
      /\ saved' = saved
  <2>1. IslandInv /\ Carve(list[p[1]], p[2], s, t) /\ p \in Suitable(s)
    BY DEF ServiceInv
  <2>2. QED
    BY <1>1, <1>2, <1>3, <1>4, <2>1, CarveEffect
<1>6. Base[a] + x.offset = c /\ Base[a] + End(x) = c + Alignment /\ Alignment \in Nat /\ Alignment > 0
  BY <1>3, <1>5, AlignmentAssumption DEF End
<1>7. ~Inside(s, a, x)
  <2>1. s + Word <= c \/ c + Alignment <= s
    BY <1>1, <1>4, <1>5, SourceOutsideFree DEF ServiceInv
  <2>2. QED
    BY <1>4, <1>5, <1>6, <2>1, WordInAlignment DEF Inside
<1>8. \A y \in DOMAIN patched' : (y = s \/ y \in DOMAIN patched) /\ ~Inside(y, a, x)
  <2>1. ASSUME NEW y \in DOMAIN patched', y # s
        PROVE  y \in DOMAIN patched /\ ~Inside(y, a, x)
    <3>1. y \in DOMAIN Keep(patched, c, Alignment)
      BY <1>5, <2>1, PutDomain
    <3>2. y \in DOMAIN patched
      BY <3>1, KeepDomain
    <3>3. ~(c <= y /\ y < c + Alignment)
      BY <1>5, <1>6, <3>1, NewBlockBlank
    <3>4. QED
      BY <1>6, <3>2, <3>3 DEF Inside
  <2>2. QED
    BY <1>7, <2>1
<1>9. \A b \in Arenas : \A q \in allocs'[b] : q \in allocs[b] \/ (b = a /\ q = x)
  BY <1>5
<1>10. \E b \in Arenas : \E q \in allocs'[b] : Whole(s, b, q)
  <2>1. \E b \in Arenas : \E q \in allocs[b] : Whole(s, b, q)
    BY <1>4, WordInAlignment, ValidBlock DEF ServiceInv, IslandInv, Whole
  <2>2. \A b \in Arenas : allocs[b] \subseteq allocs'[b]
    BY <1>5
  <2>3. QED
    BY <2>1, <2>2
<1>11. WordsOwned' /\ DOMAIN patched' \subseteq Sources
  BY <1>8, <1>9, <1>10, WordsStep
<1>12. QED
  BY <1>5, <1>11 DEF SourcesOnly, ServiceInv

\* What a restore passes before it writes.
LEMMA RestoreProperties ==
  ASSUME ServiceInv, NEW b \in Buffers, NEW size, b \in DOMAIN saved,
         BufferError(saved[b].at, b, size) = "OK"
  PROVE  /\ saved[b].at \in Sources /\ saved[b].at \in Nat
         /\ saved[b].at \in 0 .. AddressSpace - 1
         /\ InAllocation(saved[b].at, Word)
<1>1. size = Word /\ Validate(saved[b].at, size) = "OK"
  BY DEF BufferError, Validate
<1>2. InAllocation(saved[b].at, Word)
  BY <1>1 DEF Validate
<1>3. PICK s \in Sources : s = saved[b].at
  BY DEF ServiceInv, SourcesOnly
<1>4. s \in 0 .. AddressSpace - 1 /\ s \in Nat
  BY InputAssumption, AlignmentAssumption
<1>5. QED
  BY <1>2, <1>3, <1>4

LEMMA ServiceInit == Init => ServiceInv
<1> SUFFICES ASSUME Init PROVE ServiceInv
  OBVIOUS
<1>1. DOMAIN patched = {} /\ DOMAIN saved = {}
  BY DEF Init, Nothing
<1>2. QED
  BY <1>1, IslandInit DEF ServiceInv, WordsOwned, SourcesOnly

LEMMA ServiceStep ==
  ASSUME ServiceInv, [Next]_vars
  PROVE  ServiceInv'
<1>1. IslandInv' /\ Ownership'
  BY IslandStep DEF ServiceInv, IslandInv
<1>2. CASE UNCHANGED <<allocs, patched, saved>>
  <2>1. WordsOwned' /\ SourcesOnly'
    BY <1>1, <1>2, NothingAdded DEF ServiceInv, SourcesOnly
  <2>2. QED
    BY <1>1, <2>1 DEF ServiceInv
<1>3. CASE UNCHANGED vars \/ \E e : Return(e)
  BY <1>2, <1>3 DEF vars, Return
<1>4. CASE Prepare
  BY <1>2, <1>4 DEF Prepare, Publish, Return
<1>5. ASSUME NEW size \in Sizes, Alloc(size)
      PROVE  ServiceInv'
  <2>1. ASSUME NEW p \in FreePlaces, Rounds(size), IsFirst(p, Fitting(RoundUp(size))),
               Grant(list[p[1]], p[2], RoundUp(size))
        PROVE  ServiceInv'
    <3>1. size \in Nat /\ size > 0
      BY <2>1, InputAssumption, AlignmentAssumption DEF Rounds
    <3>2. RoundUp(size) \in Nat /\ RoundUp(size) > 0
      BY <3>1, RoundUpProperties
    <3>3. free[list[p[1]]][p[2]].size >= RoundUp(size)
      BY <2>1 DEF IsFirst, Fitting
    <3>4. WordsOwned' /\ SourcesOnly'
      BY <1>1, <2>1, <3>2, <3>3, GrantService
    <3>5. QED
      BY <1>1, <3>4 DEF ServiceInv
  <2>2. QED
    BY <1>3, <1>5, <2>1 DEF Alloc, AllocFrom
<1>6. ASSUME NEW addr \in Blocks, NEW size \in Sizes, Free(addr, size)
      PROVE  ServiceInv'
  <2>1. ASSUME NEW a \in Published, NEW r \in allocs[a], Release(a, r)
        PROVE  ServiceInv'
    <3>1. allocs' = [allocs EXCEPT ![a] = allocs[a] \ {r}] /\ UNCHANGED <<patched, saved>>
      BY <2>1 DEF Release
    <3>2. \A c \in Arenas : allocs'[c] \subseteq allocs[c]
      BY <3>1 DEF ServiceInv, IslandInv, Ownership, TypeOK
    <3>3. WordsOwned' /\ SourcesOnly'
      BY <1>1, <3>1, <3>2, NothingAdded DEF ServiceInv, SourcesOnly
    <3>4. QED
      BY <1>1, <3>3 DEF ServiceInv
  <2>2. QED
    BY <1>3, <1>6, <2>1 DEF Free, Freed
<1>7. ASSUME NEW addr \in Blocks, NEW size \in Sizes, WriteMemory(addr, size)
      PROVE  ServiceInv'
  <2>1. patched' = Keep(patched, addr, size) /\ UNCHANGED <<allocs, saved>>
    BY <1>7 DEF WriteMemory, Overwrite
  <2>2. DOMAIN patched' \subseteq DOMAIN patched
    BY <2>1, KeepDomain
  <2>3. WordsOwned' /\ SourcesOnly'
    BY <1>1, <2>1, <2>2, NothingAdded DEF ServiceInv, SourcesOnly
  <2>4. QED
    BY <1>1, <2>3 DEF ServiceInv
<1>8. ASSUME NEW s \in Sources, NEW t \in Targets, DetourApply(s, t)
      PROVE  ServiceInv'
  <2>1. ASSUME DetourError(s, t) = "OK", NEW d, Branch(s, d, t), UNCHANGED <<allocs, saved>>
        PROVE  ServiceInv'
    <3>1. DOMAIN patched' \subseteq DOMAIN patched \cup {s}
      BY <2>1, PutDomain DEF Branch
    <3>2. WordsOwned' /\ SourcesOnly'
      BY <1>1, <2>1, <3>1, SourceProperties, OneDetour
    <3>3. QED
      BY <1>1, <3>2 DEF ServiceInv
  <2>2. ASSUME DetourError(s, t) = "OK", NEW p \in FreePlaces,
               IsFirst(p, Suitable(s)), Carve(list[p[1]], p[2], s, t)
        PROVE  ServiceInv'
    <3>1. p \in Suitable(s)
      BY <2>2 DEF IsFirst
    <3>2. WordsOwned' /\ SourcesOnly'
      BY <1>1, <2>2, <3>1, SourceProperties, CarveService
    <3>3. QED
      BY <1>1, <3>2 DEF ServiceInv
  <2>3. QED
    BY <1>3, <1>8, <2>1, <2>2 DEF DetourApply, ApplyDirect, ApplyReuse, ApplyIsland
<1>9. ASSUME NEW s \in Sources, NEW b \in Buffers, NEW size \in Sizes, DetourBackup(s, b, size)
      PROVE  ServiceInv'
  <2>1. ASSUME NEW old, saved' = Put(saved, b, old), old.at = s, UNCHANGED <<allocs, patched>>
        PROVE  ServiceInv'
    <3>1. \A c \in DOMAIN saved' : saved'[c].at \in Sources
      BY <2>1, PutDomain DEF ServiceInv, SourcesOnly
    <3>2. WordsOwned' /\ SourcesOnly'
      BY <1>1, <2>1, <3>1, NothingAdded
    <3>3. QED
      BY <1>1, <3>2 DEF ServiceInv
  <2>2. QED
    BY <1>3, <1>9, <2>1 DEF DetourBackup
<1>10. ASSUME NEW b \in Buffers, NEW size \in Sizes, DetourRestore(b, size)
       PROVE  ServiceInv'
  <2>1. ASSUME NEW s, s = saved[b].at, b \in DOMAIN saved, BufferError(s, b, size) = "OK",
               patched' = Restored(patched, s, saved[b].patched), UNCHANGED <<allocs, saved>>
        PROVE  ServiceInv'
    <3>1. s \in Sources /\ InAllocation(s, Word)
      BY <2>1, RestoreProperties
    <3>2. DOMAIN patched' \subseteq DOMAIN patched \cup {s}
      BY <2>1, RestoredDomain
    <3>3. WordsOwned' /\ SourcesOnly'
      BY <1>1, <2>1, <3>1, <3>2, OneDetour
    <3>4. QED
      BY <1>1, <3>3 DEF ServiceInv
  <2>2. QED
    BY <1>3, <1>10, <2>1 DEF DetourRestore
<1>11. ASSUME NEW s \in Sources, NEW size \in Sizes, DetourValidate(s, size)
       PROVE  ServiceInv'
  BY <1>3, <1>11 DEF DetourValidate
<1>12. CASE Cleanup
  <2>1. DOMAIN patched' = {} /\ DOMAIN saved' = {}
    BY <1>12 DEF Cleanup, Nothing
  <2>2. QED
    BY <1>1, <2>1 DEF ServiceInv, WordsOwned, SourcesOnly
<1>13. QED
  BY <1>3, <1>4, <1>5, <1>6, <1>7, <1>8, <1>9, <1>10, <1>11, <1>12 DEF Next

-----------------------------------------------------------------------------
(* Every step of the pool is a step of the service                         *)

\* What a call leaves alone, the service leaves alone.
LEMMA SameForCallers ==
  ASSUME View, View'
  PROVE  /\ list' = list => Published' = Published
         /\ allocs' = allocs => Owned' = Owned
         /\ islands' = islands => OwnIslands' = OwnIslands
         /\ allocs' = allocs /\ UNCHANGED <<patched, spoiled>> => Routes' = Routes
         /\ UNCHANGED <<saved, spoiled>> => Kept' = Kept
<1>1. list' = list => Published' = Published
  BY DEF Published
<1>2. ASSUME allocs' = allocs
      PROVE  Owned' = Owned
  BY <1>2 DEF View
<1>3. ASSUME islands' = islands
      PROVE  OwnIslands' = OwnIslands
  BY <1>3 DEF View, AllIslands, IslandsOf
<1>4. ASSUME allocs' = allocs, UNCHANGED <<patched, spoiled>>
      PROVE  Routes' = Routes
  <2>1. \A y : Owns(y)' <=> Owns(y)
    BY <1>4 DEF Owns, Inside
  <2>2. Detoured' = Detoured
    BY <1>4, <2>1 DEF View, Owns, Inside
  <2>3. CASE spoiled = {}
    BY <1>4, <2>2, <2>3 DEF View
  <2>4. CASE spoiled # {}
    BY <1>4, <2>4 DEF Routes, Nothing
  <2>5. QED
    BY <2>3, <2>4
<1>5. UNCHANGED <<saved, spoiled>> => Kept' = Kept
  BY DEF Kept, Nothing
<1>6. QED
  BY <1>1, <1>2, <1>3, <1>4, <1>5

LEMMA StutterRefines ==
  ASSUME ServiceInv, ServiceInv', UNCHANGED <<list, allocs, islands, patched, spoiled, saved>>
  PROVE  UNCHANGED Service!vars
  BY InvariantView, InvariantViewNext, SameForCallers DEF Service!vars

LEMMA PublishRefines ==
  ASSUME ServiceInv, ServiceInv', NEW a \in Arenas, Publish(a)
  PROVE  Service!Open
<1>1. UNCHANGED <<allocs, islands, patched, spoiled, saved>> /\ list' = <<a>> \o list
  BY DEF Publish
<1>2. ASSUME NEW b \in Published
      PROVE  b \in Published'
  <2>1. PICK k \in 1 .. Len(list) : b = list[k]
    BY DEF Published
  <2>2. list \in Seq(Arenas)
    BY DEF ServiceInv, IslandInv, Ownership, TypeOK
  <2>3. k + 1 \in 1 .. Len(list') /\ list'[k + 1] = list[k]
    BY <1>1, <2>2
  <2>4. QED
    BY <2>1, <2>3 DEF Published
<1>3. QED
  BY <1>1, <1>2, InvariantView, InvariantViewNext, SameForCallers DEF Service!Open

\* A block cut from a free range fits among the blocks handed out.
LEMMA NewBlockFits ==
  ASSUME ServiceInv, ServiceInv', NEW a \in Published, a \in Arenas,
         NEW r \in Ranges, End(r) <= Capacity[a],
         \A q \in allocs[a] : End(r) <= q.offset \/ End(q) <= r.offset,
         NEW x \in Ranges, x.size > 0, r.offset <= x.offset, End(x) <= End(r),
         allocs'[a] = allocs[a] \cup {x},
         \A c \in Arenas : c # a => allocs'[c] = allocs[c]
  PROVE  /\ Block(a, x) \in Owned' /\ Block(a, x) \notin Owned
         /\ Service!Fits(Block(a, x), Owned)
         /\ Owned' = Owned \cup {Block(a, x)}
<1>1. View /\ View' /\ Ownership
  BY InvariantView, InvariantViewNext DEF ServiceInv, IslandInv
<1>2. /\ x.offset \in Nat /\ x.size \in Nat /\ End(x) = x.offset + x.size
      /\ r.offset \in Nat /\ r.size \in Nat /\ End(r) = r.offset + r.size
      /\ Base[a] \in Nat /\ Capacity[a] \in Nat
  BY ArenaAssumption DEF Ranges, End
<1>3. End(x) <= Capacity[a]
  BY <1>2
<1>4. Block(a, x).address = Base[a] + x.offset /\ Block(a, x).size = x.size
      /\ Service!End(Block(a, x)) = Base[a] + End(x)
  BY <1>2 DEF Block, Service!End
<1>5. ASSUME NEW c \in Arenas, NEW q \in allocs[c]
      PROVE  \/ Service!End(Block(a, x)) <= Block(c, q).address
             \/ Service!End(Block(c, q)) <= Block(a, x).address
  <2>1. /\ q \in Ranges /\ End(q) <= Capacity[c] /\ q.offset \in Nat /\ q.size \in Nat
        /\ End(q) = q.offset + q.size /\ Base[c] \in Nat
    BY <1>1, AllocationProperties, ArenaAssumption
  <2>2. a # c \/ End(x) <= q.offset \/ End(q) <= x.offset
    <3>1. CASE a = c
      <4>1. End(r) <= q.offset \/ End(q) <= r.offset
        BY <3>1
      <4>2. QED
        BY <1>2, <2>1, <4>1
    <3>2. QED
      BY <3>1
  <2>3. Base[a] + End(x) <= Base[c] + q.offset \/ Base[c] + End(q) <= Base[a] + x.offset
    BY <1>3, <2>1, <2>2, Elsewhere
  <2>4. Block(c, q).address = Base[c] + q.offset /\ Service!End(Block(c, q)) = Base[c] + End(q)
    BY <2>1 DEF Block, Service!End
  <2>5. QED
    BY <1>4, <2>3, <2>4
<1>6. Service!Fits(Block(a, x), Owned)
  <2>1. \A b \in Owned : \/ Service!End(Block(a, x)) <= b.address
                         \/ Service!End(b) <= Block(a, x).address
    BY <1>1, <1>5 DEF View
  <2>2. Base[a] <= Block(a, x).address /\ Service!End(Block(a, x)) <= Base[a] + Capacity[a]
    BY <1>2, <1>3, <1>4
  <2>3. Block(a, x).size > 0
    BY <1>4
  <2>4. QED
    BY <2>1, <2>2, <2>3 DEF Service!Fits
<1>7. Block(a, x) \notin Owned
  <2>1. SUFFICES ASSUME Block(a, x) \in Owned PROVE FALSE
    OBVIOUS
  <2>2. Service!End(Block(a, x)) <= Block(a, x).address
    BY <1>6, <2>1 DEF Service!Fits
  <2>3. QED
    BY <1>2, <1>4, <2>2
<1>8. \A c \in Arenas : \A q : q \in allocs'[c] <=> q \in allocs[c] \/ (c = a /\ q = x)
  OBVIOUS
<1>9. Owned' = Owned \cup {Block(a, x)}
  <2>1. \A b : b \in Owned' <=> \E c \in Arenas : \E q \in allocs'[c] : b = Block(c, q)
    BY <1>1 DEF View, Block
  <2>2. \A b : b \in Owned <=> \E c \in Arenas : \E q \in allocs[c] : b = Block(c, q)
    BY <1>1 DEF View
  <2>3. QED
    BY <1>8, <2>1, <2>2
<1>10. QED
  BY <1>6, <1>7, <1>9

\* A block cut from a free range wipes no detour of another block, and none
\* of an earlier owner shows in it.
LEMMA NewBlockRoutes ==
  ASSUME ServiceInv, ServiceInv', NEW a \in Published, a \in Arenas,
         NEW r \in Ranges, End(r) <= Capacity[a],
         \A q \in allocs[a] : End(r) <= q.offset \/ End(q) <= r.offset,
         NEW x \in Ranges, x.size > 0, r.offset <= x.offset, End(x) <= End(r),
         allocs'[a] = allocs[a] \cup {x},
         \A c \in Arenas : c # a => allocs'[c] = allocs[c],
         NEW f, f = Keep(patched, Base[a] + x.offset, x.size)
  PROVE  /\ \A y : y \in DOMAIN f /\ Owns(y)' <=> y \in Detoured
         /\ \A y \in Detoured : f[y] = patched[y]
         /\ \A y : Owns(y) => Owns(y)'
<1>1. View /\ View' /\ Ownership
  BY InvariantView, InvariantViewNext DEF ServiceInv, IslandInv
<1>2. /\ x.offset \in Nat /\ x.size \in Nat /\ End(x) = x.offset + x.size
      /\ r.offset \in Nat /\ r.size \in Nat /\ End(r) = r.offset + r.size
      /\ Base[a] \in Nat /\ Capacity[a] \in Nat
  BY ArenaAssumption DEF Ranges, End
<1>3. \A y : Owns(y)' <=> \E c \in Arenas : \E q \in allocs'[c] : Inside(y, c, q)
  BY DEF Owns, Inside
<1>4. \A y : Owns(y) => Owns(y)'
  <2>1. \A c \in Arenas : allocs[c] \subseteq allocs'[c]
    OBVIOUS
  <2>2. QED
    BY <1>3, <2>1 DEF Owns
<1>5. ASSUME NEW y \in Detoured
      PROVE  y \in DOMAIN f /\ Owns(y)' /\ f[y] = patched[y]
  <2>1. y \in DOMAIN patched /\ Owns(y) /\ y \in Nat
    BY <1>1 DEF View, Ownership, TypeOK
  <2>2. PICK c \in Arenas : \E q \in allocs[c] : Inside(y, c, q)
    BY <2>1 DEF Owns
  <2>3. PICK q \in allocs[c] : Inside(y, c, q)
    BY <2>2
  <2>4. Whole(y, c, q)
    BY <2>1, <2>3 DEF ServiceInv, WordsOwned
  <2>5. /\ q \in Ranges /\ End(q) <= Capacity[c] /\ q.offset \in Nat /\ q.size \in Nat
        /\ End(q) = q.offset + q.size /\ Base[c] \in Nat
    BY <1>1, AllocationProperties, ArenaAssumption
  <2>6. a # c \/ End(r) <= q.offset \/ End(q) <= r.offset
    OBVIOUS
  <2>7. Base[a] + End(r) <= Base[c] + q.offset \/ Base[c] + End(q) <= Base[a] + r.offset
    BY <2>5, <2>6, Elsewhere
  <2>8. ~Overlap(y, Word, Base[a] + x.offset, x.size)
    BY <1>2, <2>1, <2>4, <2>5, <2>7, WordInAlignment DEF Overlap, Whole
  <2>9. QED
    BY <1>4, <2>1, <2>8, KeepDomain
<1>6. ASSUME NEW y \in DOMAIN f, Owns(y)'
      PROVE  y \in Detoured
  <2>1. y \in DOMAIN patched
    BY KeepDomain
  <2>2. PICK lo \in Nat : lo = Base[a] + x.offset
    BY <1>2
  <2>3. PICK n \in Nat : n = x.size
    BY <1>2
  <2>4. ~(lo <= y /\ y < lo + n)
    BY <2>2, <2>3, NewBlockBlank
  <2>5. ~Inside(y, a, x)
    BY <1>2, <2>2, <2>3, <2>4 DEF Inside
  <2>6. PICK c \in Arenas : \E q \in allocs'[c] : Inside(y, c, q)
    BY <1>3, <1>6
  <2>7. PICK q \in allocs'[c] : Inside(y, c, q)
    BY <2>6
  <2>8. q \in allocs[c]
    BY <2>5, <2>7
  <2>9. Owns(y)
    BY <2>7, <2>8 DEF Owns
  <2>10. QED
    BY <1>1, <2>1, <2>9 DEF View
<1>7. QED
  BY <1>4, <1>5, <1>6

LEMMA GrantRefines ==
  ASSUME ServiceInv, ServiceInv', NEW p \in FreePlaces, NEW n \in Nat, n > 0,
         free[list[p[1]]][p[2]].size >= n, Grant(list[p[1]], p[2], n)
  PROVE  Service!Take
<1>1. PICK a, r : a = list[p[1]] /\ r = free[a][p[2]]
  OBVIOUS
<1>2. PICK x : x = [offset |-> r.offset, size |-> n]
  OBVIOUS
<1>3. /\ a \in Published /\ a \in Arenas /\ r \in Ranges /\ r.offset \in Nat
      /\ Base[a] \in Nat /\ End(r) = r.offset + r.size /\ r.size \in Nat /\ End(r) <= Capacity[a]
      /\ \A q \in allocs[a] : End(r) <= q.offset \/ End(q) <= r.offset
      /\ allocs'[a] = allocs[a] \cup {x}
      /\ \A c \in Arenas : c # a => allocs'[c] = allocs[c]
      /\ patched' = Keep(patched, Base[a] + r.offset, n)
      /\ UNCHANGED <<list, islands, spoiled, saved>>
  BY <1>1, <1>2, GrantEffect DEF ServiceInv
<1>4. x \in Ranges /\ x.size = n /\ x.offset = r.offset /\ End(x) = r.offset + n
  BY <1>2, <1>3 DEF Ranges, End
<1>5. End(x) <= End(r) /\ x.size > 0 /\ r.offset <= x.offset
  BY <1>1, <1>3, <1>4
<1>6. /\ Block(a, x) \in Owned' /\ Block(a, x) \notin Owned
      /\ Service!Fits(Block(a, x), Owned)
      /\ Owned' = Owned \cup {Block(a, x)}
  BY <1>3, <1>4, <1>5, NewBlockFits
<1>7. patched' = Keep(patched, Base[a] + x.offset, x.size)
  BY <1>3, <1>4
<1>8. /\ \A y : y \in DOMAIN patched' /\ Owns(y)' <=> y \in Detoured
      /\ \A y \in Detoured : patched'[y] = patched[y]
  BY <1>3, <1>4, <1>5, <1>7, NewBlockRoutes
<1>9. View /\ View'
  BY InvariantView, InvariantViewNext
<1>10. Detoured' = Detoured
  BY <1>8, <1>9 DEF View, Owns, Inside
<1>11. Routes' = Routes
  <2>1. CASE spoiled = {}
    BY <1>3, <1>8, <1>9, <1>10, <2>1 DEF View
  <2>2. CASE spoiled # {}
    BY <1>3, <2>2 DEF Routes, Nothing
  <2>3. QED
    BY <2>1, <2>2
<1>12. Published' = Published /\ OwnIslands' = OwnIslands /\ Kept' = Kept
  BY <1>3, <1>9, SameForCallers
<1>13. QED
  BY <1>3, <1>6, <1>11, <1>12 DEF Service!Take

\* The functions in a block, as callers and as the pool see them.
LEMMA InBlock ==
  ASSUME ServiceInv, NEW a \in Arenas, NEW r \in allocs[a], NEW y
  PROVE  Service!In(y, Block(a, r)) <=> Inside(y, a, r)
<1>1. r.offset \in Nat /\ r.size \in Nat /\ End(r) = r.offset + r.size /\ Base[a] \in Nat
  BY AllocationProperties, ArenaAssumption DEF ServiceInv, IslandInv
<1>2. Block(a, r).address = Base[a] + r.offset
      /\ Service!End(Block(a, r)) = Base[a] + End(r)
  BY <1>1 DEF Block, Service!End
<1>3. QED
  BY <1>2 DEF Service!In, Inside

\* Two blocks are never the same for callers.
LEMMA BlocksDiffer ==
  ASSUME ServiceInv, NEW a \in Arenas, NEW r \in allocs[a], NEW c \in Arenas, NEW q \in allocs[c],
         Block(a, r) = Block(c, q)
  PROVE  a = c /\ r = q
<1>1. /\ r.offset \in Nat /\ r.size \in Nat /\ r.size > 0 /\ Base[a] \in Nat
      /\ End(r) = r.offset + r.size
  BY AllocationProperties, ArenaAssumption DEF ServiceInv, IslandInv
<1>2. PICK y \in Nat : y = Base[a] + r.offset
  BY <1>1
<1>3. Inside(y, a, r)
  BY <1>1, <1>2 DEF Inside
<1>4. Inside(y, c, q)
  BY <1>3, InBlock
<1>5. QED
  BY <1>3, <1>4, OwnershipIsSole DEF SoleOwner, ServiceInv, IslandInv

LEMMA ReleaseRefines ==
  ASSUME ServiceInv, ServiceInv', NEW addr \in Blocks, NEW size, NEW a \in Published,
         NEW r \in Freed(a, addr, size), Release(a, r), Holds(a, addr), ~IsIsland(addr)
  PROVE  Service!Give
<1>1. a \in Arenas /\ \A x \in IslandsOf(a) : r # Own(a, x)
  BY FreedIsCallers DEF ServiceInv
<1>2. r \in allocs[a]
  BY DEF Freed
<1>3. Block(a, r) \in Owned \ OwnIslands
  BY <1>1, <1>2, CallersOwn
<1>4. /\ allocs' = [allocs EXCEPT ![a] = allocs[a] \ {r}]
      /\ UNCHANGED <<list, islands, jump, patched, spoiled, saved>>
  BY DEF Release
<1>5. View /\ View'
  BY InvariantView, InvariantViewNext
<1>6. \A c \in Arenas : \A q : q \in allocs'[c] <=> q \in allocs[c] /\ ~(c = a /\ q = r)
  BY <1>1, <1>4 DEF ServiceInv, IslandInv, Ownership, TypeOK
<1>7. Owned' = Owned \ {Block(a, r)}
  <2>1. \A b : b \in Owned' <=> \E c \in Arenas : \E q \in allocs'[c] : b = Block(c, q)
    BY <1>5 DEF View, Block
  <2>2. \A b : b \in Owned <=> \E c \in Arenas : \E q \in allocs[c] : b = Block(c, q)
    BY <1>5 DEF View
  <2>3. \A c \in Arenas : \A q \in allocs[c] : Block(c, q) = Block(a, r) => c = a /\ q = r
    BY <1>1, <1>2, BlocksDiffer
  <2>4. QED
    BY <1>1, <1>6, <2>1, <2>2, <2>3
<1>8. \A y : y \in Detoured' <=> y \in Detoured /\ ~Service!In(y, Block(a, r))
  <2>1. ASSUME NEW y \in DOMAIN patched
        PROVE  Owns(y)' <=> Owns(y) /\ ~Inside(y, a, r)
    <3>1. y \in Nat
      BY DEF ServiceInv, IslandInv, Ownership, TypeOK
    <3>2. \A c \in Arenas : \A q \in allocs[c] : Inside(y, c, q) /\ Inside(y, a, r) => c = a /\ q = r
      BY <1>1, <1>2, <3>1, OwnershipIsSole DEF SoleOwner, ServiceInv, IslandInv
    <3>3. Owns(y)' <=> \E c \in Arenas : \E q \in allocs'[c] : Inside(y, c, q)
      BY DEF Owns, Inside
    <3>4. QED
      BY <1>1, <1>2, <1>6, <3>2, <3>3 DEF Owns
  <2>2. \A y : Service!In(y, Block(a, r)) <=> Inside(y, a, r)
    BY <1>1, <1>2, InBlock
  <2>3. \A y : y \in Detoured' <=> y \in DOMAIN patched' /\ Owns(y)'
    BY <1>5 DEF View, Owns, Inside
  <2>4. QED
    BY <1>4, <1>5, <2>1, <2>2, <2>3 DEF View
<1>12. ASSUME spoiled # {}
       PROVE  Routes' = [y \in {z \in DOMAIN Routes : ~Service!In(z, Block(a, r))} |-> Routes[y]]
  <2>1. Routes' = Nothing /\ Routes = Nothing
    BY <1>4, <1>12 DEF Routes, Nothing
  <2>2. QED
    BY <2>1 DEF Nothing
<1>9. ASSUME spoiled = {}
      PROVE  Routes' = [y \in {z \in DOMAIN Routes : ~Service!In(z, Block(a, r))} |-> Routes[y]]
  <2>1. DOMAIN Routes = Detoured /\ \A y \in Detoured : Routes[y] = patched[y]
    BY <1>5, <1>9 DEF View
  <2>2. Detoured' = {z \in DOMAIN Routes : ~Service!In(z, Block(a, r))}
    BY <1>8, <2>1
  <2>3. Routes' = [y \in Detoured' |-> patched[y]]
    BY <1>4, <1>5, <1>9 DEF View
  <2>4. QED
    BY <2>1, <2>2, <2>3
<1>10. Published' = Published /\ OwnIslands' = OwnIslands /\ Kept' = Kept
  BY <1>4, <1>5, SameForCallers
<1>11. QED
  BY <1>3, <1>4, <1>7, <1>9, <1>10, <1>12 DEF Service!Give

LEMMA WriteRefines ==
  ASSUME ServiceInv, ServiceInv', NEW addr \in Blocks, NEW size \in Sizes, WriteMemory(addr, size),
         spoiled' = {}
  PROVE  Service!Write
<1>1. /\ size # 0 /\ InAllocation(addr, size)
      /\ patched' = Keep(patched, addr, size) /\ spoiled = {} /\ Hit(addr, size) = {}
      /\ UNCHANGED <<list, free, allocs, islands, saved>>
  BY DEF WriteMemory, Overwrite
<1>2. /\ addr \in 0 .. AddressSpace - 1 /\ addr \in Nat /\ size \in Nat /\ size > 0
      /\ ~InIsland(addr)
  <2>1. addr \in 0 .. AddressSpace - 1 /\ addr \in Nat /\ size \in Nat /\ size > 0
    BY <1>1, InputAssumption, AlignmentAssumption
  <2>2. QED
    BY <1>1, <2>1, HitNone DEF ServiceInv
<1>3. PICK a \in Published : \E r \in allocs[a] :
        /\ a \in Arenas
        /\ \A x \in IslandsOf(a) : r # Own(a, x)
        /\ Base[a] + r.offset <= addr
        /\ addr + size <= Base[a] + End(r)
  BY <1>1, <1>2, CallersBlock DEF ServiceInv
<1>4. PICK r \in allocs[a] : /\ \A x \in IslandsOf(a) : r # Own(a, x)
                            /\ Base[a] + r.offset <= addr
                            /\ addr + size <= Base[a] + End(r)
  BY <1>3
<1>5. Block(a, r) \in Owned \ OwnIslands
  BY <1>3, <1>4, CallersOwn
<1>6. View /\ View'
  BY InvariantView, InvariantViewNext
<1>7. \A y : y \in Detoured' <=> y \in Detoured /\ ~Overlap(y, Word, addr, size)
  <2>1. \A y : Owns(y)' <=> Owns(y)
    BY <1>1 DEF Owns, Inside
  <2>2. \A y : y \in Detoured' <=> y \in DOMAIN patched' /\ Owns(y)'
    BY <1>6 DEF View, Owns, Inside
  <2>3. \A y : y \in DOMAIN patched' <=> y \in DOMAIN patched /\ ~Overlap(y, Word, addr, size)
    BY <1>1, KeepDomain
  <2>4. QED
    BY <1>6, <2>1, <2>2, <2>3 DEF View
<1>8. ASSUME NEW y \in Detoured, Overlap(y, Word, addr, size)
      PROVE  Service!In(y, Block(a, r))
  <2>1. y \in DOMAIN patched /\ y \in Nat /\ Owns(y)
    BY <1>6 DEF View, ServiceInv, IslandInv, Ownership, TypeOK
  <2>2. PICK c \in Arenas : \E q \in allocs[c] : Inside(y, c, q)
    BY <2>1 DEF Owns
  <2>3. PICK q \in allocs[c] : Inside(y, c, q)
    BY <2>2
  <2>4. Whole(y, c, q)
    BY <2>1, <2>3 DEF ServiceInv, WordsOwned
  <2>5. PICK z \in Nat : z = IF y <= addr THEN addr ELSE y
    BY <1>2, <2>1
  <2>6. Inside(z, a, r)
    <3>1. /\ r.offset \in Nat /\ r.size \in Nat /\ End(r) = r.offset + r.size /\ Base[a] \in Nat
      BY <1>3, AllocationProperties, ArenaAssumption DEF ServiceInv, IslandInv
    <3>2. QED
      BY <1>2, <1>4, <1>8, <2>1, <2>5, <3>1 DEF Inside, Overlap
  <2>7. Inside(z, c, q)
    <3>1. /\ q.offset \in Nat /\ q.size \in Nat /\ End(q) = q.offset + q.size /\ Base[c] \in Nat
      BY AllocationProperties, ArenaAssumption DEF ServiceInv, IslandInv
    <3>2. QED
      BY <1>2, <1>8, <2>1, <2>4, <2>5, <3>1, WordInAlignment DEF Inside, Overlap, Whole
  <2>8. a = c /\ r = q
    BY <1>3, <2>6, <2>7, OwnershipIsSole DEF SoleOwner, ServiceInv, IslandInv
  <2>9. QED
    BY <2>3, <2>8, InBlock
<1>9. PICK X : X = DOMAIN Routes \ DOMAIN Routes'
  OBVIOUS
<1>10. DOMAIN Routes = Detoured /\ DOMAIN Routes' = Detoured'
  BY <1>1, <1>6 DEF View
<1>11. \A x \in X : Service!In(x, Block(a, r))
  BY <1>7, <1>8, <1>9, <1>10
<1>12. Routes' = [x \in DOMAIN Routes \ X |-> Routes[x]]
  <2>1. Detoured' = DOMAIN Routes \ X
    BY <1>7, <1>9, <1>10
  <2>2. \A y \in Detoured' : patched'[y] = patched[y] /\ y \in Detoured
    <3>1. ASSUME NEW y \in Detoured'
          PROVE  y \in DOMAIN patched'
      BY <1>6 DEF View
    <3>2. QED
      BY <1>1, <1>7, <3>1, KeepDomain
  <2>3. QED
    BY <1>1, <1>6, <2>1, <2>2 DEF View
<1>13. Published' = Published /\ Owned' = Owned /\ OwnIslands' = OwnIslands /\ Kept' = Kept
  BY <1>1, <1>6, SameForCallers
<1>14. QED
  BY <1>1, <1>5, <1>9, <1>11, <1>12, <1>13 DEF Service!Write

\* A function that callers may detour.
LEMMA CallersFunction ==
  ASSUME ServiceInv, NEW s \in 0 .. AddressSpace - 1, InAllocation(s, Word), ~InIsland(s)
  PROVE  Service!Callers(s) /\ Owns(s)
<1>1. PICK a \in Published : \E r \in allocs[a] :
        /\ a \in Arenas
        /\ \A x \in IslandsOf(a) : r # Own(a, x)
        /\ Base[a] + r.offset <= s
        /\ s + Word <= Base[a] + End(r)
  BY WordInAlignment, CallersBlock DEF ServiceInv
<1>2. PICK r \in allocs[a] : /\ \A x \in IslandsOf(a) : r # Own(a, x)
                            /\ Base[a] + r.offset <= s
                            /\ s + Word <= Base[a] + End(r)
  BY <1>1
<1>3. Inside(s, a, r)
  <2>1. /\ r.offset \in Nat /\ r.size \in Nat /\ End(r) = r.offset + r.size /\ Base[a] \in Nat
    BY <1>1, AllocationProperties, ArenaAssumption DEF ServiceInv, IslandInv
  <2>2. QED
    BY <1>2, <2>1, WordInAlignment, AlignmentAssumption DEF Inside
<1>4. Block(a, r) \in Owned \ OwnIslands /\ Service!In(s, Block(a, r))
  BY <1>1, <1>2, <1>3, CallersOwn, InBlock
<1>5. QED
  BY <1>1, <1>3, <1>4 DEF Service!Callers, Owns

\* A function that callers may read.
LEMMA HeldFunction ==
  ASSUME ServiceInv, NEW s \in 0 .. AddressSpace - 1, InAllocation(s, Word)
  PROVE  Owns(s) /\ \E c \in Owned : Service!In(s, c)
<1>1. PICK a \in Arenas : \E r \in allocs[a] :
        Base[a] + r.offset <= s /\ s + Word <= Base[a] + End(r)
  BY WordInAlignment, ValidBlock DEF ServiceInv, IslandInv
<1>2. PICK r \in allocs[a] : Base[a] + r.offset <= s /\ s + Word <= Base[a] + End(r)
  BY <1>1
<1>3. Inside(s, a, r)
  <2>1. /\ r.offset \in Nat /\ r.size \in Nat /\ End(r) = r.offset + r.size /\ Base[a] \in Nat
    BY <1>1, AllocationProperties, ArenaAssumption DEF ServiceInv, IslandInv
  <2>2. QED
    BY <1>2, <2>1, WordInAlignment, AlignmentAssumption DEF Inside
<1>4. Block(a, r) \in Owned
  BY InvariantView DEF View
<1>5. QED
  BY <1>3, <1>4, InBlock DEF Owns

\* One function leads elsewhere, the others where they led.
LEMMA RoutesSet ==
  ASSUME View, View', spoiled = {}, spoiled' = {}, NEW s, NEW S,
         \A y : y # s => (y \in Detoured' <=> y \in Detoured),
         \A y \in Detoured : y # s => patched'[y] = patched[y],
         s \in Detoured' <=> S # {},
         S # {} => S = {patched'[s]}
  PROVE  Routes' = Service!Set(Routes, s, S)
<1>1. DOMAIN Routes = Detoured /\ \A y \in Detoured : Routes[y] = patched[y]
  BY DEF View
<1>2. Routes' = [y \in Detoured' |-> patched'[y]]
  BY DEF View
<1>3. Detoured' = (DOMAIN Routes \ {s}) \cup {z \in {s} : S # {}}
  BY <1>1
<1>4. ASSUME NEW y \in Detoured'
      PROVE  patched'[y] = IF y = s THEN CHOOSE v \in S : TRUE ELSE Routes[y]
  <2>1. CASE y = s
    <3>1. S = {patched'[s]}
      BY <1>4, <2>1
    <3>2. (CHOOSE v \in S : TRUE) \in S
      BY <3>1
    <3>3. QED
      BY <2>1, <3>1, <3>2
  <2>2. CASE y # s
    BY <1>1, <2>2
  <2>3. QED
    BY <2>1, <2>2
<1>5. QED
  BY <1>2, <1>3, <1>4 DEF Service!Set

\* A direct branch, or one to an island that is there.
LEMMA BranchRefines ==
  ASSUME ServiceInv, ServiceInv', NEW s \in Sources, NEW t \in Targets,
         DetourError(s, t) = "OK", spoiled = {}, spoiled' = {}, Hit(s, Word) = {},
         patched' = Put(patched, s, t), UNCHANGED <<list, allocs, islands, saved>>
  PROVE  Service!Redirect
<1>1. View /\ View'
  BY InvariantView, InvariantViewNext
<1>2. Service!Callers(s) /\ Owns(s)
  BY SourceProperties, HitNone, WordInAlignment, CallersFunction DEF ServiceInv
<1>3. \A y : y \in Detoured' <=> y \in DOMAIN patched' /\ Owns(y)
  BY <1>1 DEF View, Owns, Inside
<1>4. s \in Detoured' /\ patched'[s] = t
  BY <1>2, <1>3, PutDomain
<1>5. \A y : y # s => (y \in Detoured' <=> y \in Detoured)
  BY <1>1, <1>3, PutDomain DEF View
<1>6. \A y \in Detoured : y # s => patched'[y] = patched[y]
  BY <1>1, PutDomain DEF View
<1>7. Routes' = Service!Set(Routes, s, {t})
  BY <1>1, <1>4, <1>5, <1>6, RoutesSet
<1>8. s \in DOMAIN Routes' /\ Routes'[s] = t
  BY <1>1, <1>4 DEF View
<1>9. Published' = Published /\ Owned' = Owned /\ OwnIslands' = OwnIslands /\ Kept' = Kept
  BY <1>1, SameForCallers
<1>10. QED
  BY <1>2, <1>7, <1>8, <1>9 DEF Service!Redirect

\* A branch to an island that is carved for it.
LEMMA CarveRefines ==
  ASSUME ServiceInv, ServiceInv', NEW p \in FreePlaces, NEW s \in Sources, NEW t \in Targets,
         p \in Suitable(s), Carve(list[p[1]], p[2], s, t),
         DetourError(s, t) = "OK"
  PROVE  /\ Service!Reserve /\ list' = list
         /\ spoiled' = {} => Service!Redirect
<1>1. PICK a, r : a = list[p[1]] /\ r = free[a][p[2]]
  OBVIOUS
<1>2. PICK c : c = Candidate(a, r, s)
  OBVIOUS
<1>3. PICK x : x = [offset |-> c - Base[a], size |-> Alignment]
  OBVIOUS
<1>4. s \in Nat /\ s \in 0 .. AddressSpace - 1 /\ t \in Nat /\ InAllocation(s, Word)
  BY SourceProperties
<1>5. /\ a \in Published /\ a \in Arenas /\ r \in Ranges /\ r.offset \in Nat
      /\ Base[a] \in Nat /\ End(r) = r.offset + r.size /\ r.size \in Nat /\ End(r) <= Capacity[a]
      /\ \A q \in allocs[a] : End(r) <= q.offset \/ End(q) <= r.offset
      /\ c \in Nat /\ Base[a] + r.offset <= c /\ c + Alignment <= Base[a] + End(r)
      /\ allocs'[a] = allocs[a] \cup {x}
      /\ \A b \in Arenas : b # a => allocs'[b] = allocs[b]
      /\ patched' = Put(Keep(patched, c, Alignment), s, t)
      /\ UNCHANGED <<list, saved>>
  <2>1. IslandInv
    BY DEF ServiceInv
  <2>2. QED
    BY <1>1, <1>2, <1>3, <1>4, <2>1, CarveEffect
<1>6. Alignment \in Nat /\ Alignment > 0
  BY AlignmentAssumption
<1>7. x.size = Alignment /\ x.offset = c - Base[a]
  BY <1>3
<1>8. x \in Ranges /\ x.size > 0 /\ r.offset <= x.offset /\ End(x) <= End(r)
      /\ Base[a] + x.offset = c
  <2>1. x.offset \in Nat
    BY <1>5, <1>7
  <2>2. x \in Ranges
    BY <1>3, <1>6, <1>7, <2>1 DEF Ranges
  <2>3. QED
    BY <1>5, <1>6, <1>7, <2>1, <2>2 DEF End
<1>9. /\ Block(a, x) \in Owned' /\ Block(a, x) \notin Owned
      /\ Service!Fits(Block(a, x), Owned)
      /\ Owned' = Owned \cup {Block(a, x)}
  BY <1>5, <1>8, NewBlockFits
<1>10. PICK f : f = Keep(patched, c, Alignment)
  OBVIOUS
<1>11. f = Keep(patched, Base[a] + x.offset, x.size)
  BY <1>7, <1>8, <1>10
<1>12. /\ \A y : y \in DOMAIN f /\ Owns(y)' <=> y \in Detoured
       /\ \A y \in Detoured : f[y] = patched[y]
       /\ \A y : Owns(y) => Owns(y)'
  BY <1>5, <1>8, <1>11, NewBlockRoutes
<1>13. View /\ View'
  BY InvariantView, InvariantViewNext
<1>14. Owns(s)
  BY <1>4, HeldFunction
<1>15. \A y : y \in Detoured' <=> y \in DOMAIN patched' /\ Owns(y)'
  BY <1>13 DEF View, Owns, Inside
<1>16. patched' = Put(f, s, t)
  BY <1>5, <1>10
<1>17. s \in Detoured' /\ patched'[s] = t
  BY <1>12, <1>14, <1>15, <1>16, PutDomain
<1>18. \A y : y # s => (y \in Detoured' <=> y \in Detoured)
  BY <1>12, <1>15, <1>16, PutDomain
<1>19. \A y \in Detoured : y # s => patched'[y] = patched[y]
  BY <1>12, <1>16, PutDomain
<1>20. OwnIslands' = OwnIslands \cup {Block(a, x)}
  <2>1. PICK i : i = [address |-> c, target |-> t]
    OBVIOUS
  <2>2. i \in [address : Nat, target : Nat] /\ i.address = c /\ i.target = t
    BY <1>4, <1>5, <2>1
  <2>3. AllIslands' = AllIslands \cup {i}
    BY <1>1, <1>2, <1>4, <2>2, CarvedIslands DEF ServiceInv
  <2>4. Block(a, x) = [address |-> i.address, size |-> Alignment]
    BY <1>7, <1>8, <2>1 DEF Block
  <2>5. QED
    BY <1>13, <2>3, <2>4 DEF View
<1>21. Service!Reserve
  BY <1>9, <1>20 DEF Service!Reserve
<1>22. ASSUME spoiled' = {}
       PROVE  Service!Redirect
  <2>1. spoiled = {} /\ Hit(s, Word) = {}
    BY <1>22 DEF Carve
  <2>2. Routes' = Service!Set(Routes, s, {t})
    BY <1>13, <1>17, <1>18, <1>19, <1>22, <2>1, RoutesSet
  <2>3. s \in DOMAIN Routes' /\ Routes'[s] = t
    BY <1>13, <1>17, <1>22 DEF View
  <2>4. Service!Callers(s)
    BY <1>4, <2>1, HitNone, WordInAlignment, CallersFunction DEF ServiceInv
  <2>5. Kept' = Kept
    BY <1>5, <1>13, <1>22, <2>1, SameForCallers
  <2>6. Published' = Published
    BY <1>5, <1>13, SameForCallers
  <2>7. spoiled' = spoiled
    BY <1>22, <2>1
  <2>8. QED
    BY <1>21, <2>2, <2>3, <2>4, <2>5, <2>6, <2>7 DEF Service!Redirect
<1>23. QED
  BY <1>5, <1>21, <1>22

\* A call that stores into an island, where it may carve another.
LEMMA StrayRefines ==
  ASSUME ServiceInv, ServiceInv', spoiled' # {}, list' = list,
         UNCHANGED <<allocs, islands>> \/ Service!Reserve
  PROVE  Service!Stray
<1>1. View /\ View'
  BY InvariantView, InvariantViewNext
<1>2. Published' = Published
  BY <1>1, SameForCallers
<1>3. UNCHANGED <<Owned, OwnIslands>> \/ Service!Reserve
  BY <1>1, SameForCallers
<1>4. Service!Empty = Nothing
  BY DEF Service!Empty, Nothing, Null
<1>5. Routes' = Nothing /\ Kept' = Nothing
  BY DEF Routes, Kept, Nothing
<1>6. QED
  BY <1>2, <1>3, <1>4, <1>5 DEF Service!Stray

LEMMA BackupRefines ==
  ASSUME ServiceInv, ServiceInv', NEW s \in Sources, NEW b \in Buffers, NEW size,
         BufferError(s, b, size) = "OK",
         saved' = Put(saved, b, [at |-> s, jump |-> Instruction(jump, s),
                                 patched |-> Instruction(patched, s)]),
         UNCHANGED <<list, free, allocs, islands, jump, patched, spoiled>>, spoiled = {}
  PROVE  Service!Backup
<1>1. View /\ View'
  BY InvariantView, InvariantViewNext
<1>2. s \in 0 .. AddressSpace - 1 /\ InAllocation(s, Word)
  BY InputAssumption DEF BufferError, Validate
<1>3. Owns(s) /\ \E c \in Owned : Service!In(s, c)
  BY <1>2, HeldFunction
<1>4. b \in DOMAIN saved' /\ saved'[b].at = s /\ saved'[b].patched = Instruction(patched, s)
  BY PutDomain
<1>5. \A c \in DOMAIN saved' : c # b => c \in DOMAIN saved /\ saved'[c] = saved[c]
  BY PutDomain
<1>6. \A c \in DOMAIN saved : c \in DOMAIN saved'
  BY PutDomain
<1>7. Kept = [c \in DOMAIN saved |-> [at |-> saved[c].at, route |-> saved[c].patched]]
      /\ Kept' = [c \in DOMAIN saved' |-> [at |-> saved'[c].at, route |-> saved'[c].patched]]
  BY DEF Kept
<1>8. b \in DOMAIN Kept' /\ Kept'[b].at = s /\ Kept'[b].route = Instruction(patched, s)
  BY <1>4, <1>7
<1>9. Instruction(patched, s) = IF s \in DOMAIN Routes THEN {Routes[s]} ELSE {}
  BY <1>1, <1>3 DEF View, Instruction
<1>10. Kept' = Service!Set(Kept, b, {Kept'[b]})
  <2>1. PICK k : k = Kept'[b]
    OBVIOUS
  <2>2. (CHOOSE v \in {k} : TRUE) = k
    OBVIOUS
  <2>3. DOMAIN Kept' = (DOMAIN Kept \ {b}) \cup {z \in {b} : {k} # {}}
    BY <1>4, <1>5, <1>6, <1>7
  <2>4. \A c \in DOMAIN Kept' : Kept'[c] = IF c = b THEN k ELSE Kept[c]
    BY <1>5, <1>7, <2>1
  <2>5. Kept' = [c \in DOMAIN Kept' |-> Kept'[c]]
    BY <1>7
  <2>6. QED
    BY <2>1, <2>2, <2>3, <2>4, <2>5 DEF Service!Set
<1>11. Published' = Published /\ Owned' = Owned /\ OwnIslands' = OwnIslands /\ Routes' = Routes
  BY <1>1, SameForCallers
<1>12. QED
  BY <1>3, <1>8, <1>9, <1>10, <1>11 DEF Service!Backup

LEMMA RestoreRefines ==
  ASSUME ServiceInv, ServiceInv', NEW b \in Buffers, NEW size, b \in DOMAIN saved,
         NEW s, s = saved[b].at, BufferError(s, b, size) = "OK",
         spoiled = {}, spoiled' = {}, Hit(s, Word) = {},
         patched' = Restored(patched, s, saved[b].patched),
         UNCHANGED <<list, free, allocs, islands, saved>>
  PROVE  Service!Restore
<1>1. View /\ View'
  BY InvariantView, InvariantViewNext
<1>2. s \in 0 .. AddressSpace - 1 /\ InAllocation(s, Word)
  BY RestoreProperties
<1>3. Service!Callers(s) /\ Owns(s)
  BY <1>2, HitNone, WordInAlignment, CallersFunction, AlignmentAssumption DEF ServiceInv
<1>4. PICK S : S = saved[b].patched
  OBVIOUS
<1>5. \A t \in S : S = {t}
  BY <1>4 DEF ServiceInv, IslandInv, BackupsReach
<1>6. \A y : y \in Detoured' <=> y \in DOMAIN patched' /\ Owns(y)
  BY <1>1 DEF View, Owns, Inside
<1>7. \A y : y # s => (y \in Detoured' <=> y \in Detoured)
  BY <1>1, <1>6, RestoredDomain DEF View
<1>8. \A y \in Detoured : y # s => patched'[y] = patched[y]
  BY <1>1, RestoredDomain DEF View
<1>9. s \in Detoured' <=> S # {}
  BY <1>3, <1>4, <1>6, RestoredDomain
<1>10. S # {} => S = {patched'[s]}
  BY <1>4, <1>5, RestoredDomain
<1>11. Routes' = Service!Set(Routes, s, S)
  BY <1>1, <1>7, <1>8, <1>9, <1>10, RoutesSet
<1>12. b \in DOMAIN Kept /\ Kept[b].at = s /\ Kept[b].route = S
  BY <1>4 DEF Kept
<1>13. Published' = Published /\ Owned' = Owned /\ OwnIslands' = OwnIslands /\ Kept' = Kept
  BY <1>1, SameForCallers
<1>14. QED
  BY <1>3, <1>11, <1>12, <1>13 DEF Service!Restore

\* What the pool and the service look like when nothing is open.
Blank == /\ list = <<>>
         /\ \A a \in Arenas : allocs[a] = {} /\ islands[a] = <<>>
         /\ DOMAIN patched = {}
         /\ DOMAIN saved = {}
         /\ spoiled = {}

LEMMA NothingOpen == ServiceInv /\ Blank => Service!Init
<1> SUFFICES ASSUME ServiceInv, Blank PROVE Service!Init
  OBVIOUS
<1> USE DEF Blank
<1>1. View
  BY InvariantView
<1>2. Published = {}
  BY DEF Published
<1>3. Owned = {}
  BY <1>1 DEF View
<1>4. OwnIslands = {}
  BY <1>1 DEF View, AllIslands, IslandsOf
<1>5. Detoured = {}
  BY <1>1 DEF View
<1>6. Routes = Service!Empty
  BY <1>5 DEF Routes, Service!Empty
<1>7. Kept = Service!Empty
  BY DEF Kept, Service!Empty
<1>8. QED
  BY <1>2, <1>3, <1>4, <1>6, <1>7 DEF Service!Init, Routes, Kept

LEMMA NothingOpenNext == ServiceInv' /\ Blank' => Service!Init'
  BY NothingOpen, PTL

LEMMA CleanupRefines ==
  ASSUME ServiceInv', Cleanup
  PROVE  Service!Close
<1>1. Blank'
  BY DEF Blank, Cleanup, Nothing
<1>2. Service!Init'
  BY <1>1, NothingOpenNext
<1>3. QED
  BY <1>2 DEF Service!Init, Service!Close

LEMMA ReturnRefines ==
  ASSUME ServiceInv, ServiceInv', NEW e, Return(e)
  PROVE  UNCHANGED Service!vars
  BY StutterRefines DEF Return

LEMMA DetourApplyRefines ==
  ASSUME ServiceInv, ServiceInv', NEW s \in Sources, NEW t \in Targets, DetourApply(s, t)
  PROVE  [Service!Next]_(Service!vars)
<1>1. CASE \E e : Return(e)
  BY <1>1, ReturnRefines
<1>2. ASSUME DetourError(s, t) = "OK", NEW d, Branch(s, d, t),
             UNCHANGED <<list, allocs, islands, saved>>
      PROVE  Service!Redirect \/ Service!Stray
  <2>1. spoiled' = {} => spoiled = {} /\ Hit(s, Word) = {}
    BY <1>2 DEF Branch
  <2>2. patched' = Put(patched, s, t)
    BY <1>2 DEF Branch
  <2>3. QED
    BY <1>2, <2>1, <2>2, BranchRefines, StrayRefines
<1>3. ASSUME DetourError(s, t) = "OK", NEW p \in FreePlaces,
             IsFirst(p, Suitable(s)), Carve(list[p[1]], p[2], s, t)
      PROVE  Service!Redirect \/ Service!Stray
  <2>1. p \in Suitable(s)
    BY <1>3 DEF IsFirst
  <2>2. Service!Reserve /\ list' = list /\ (spoiled' = {} => Service!Redirect)
    BY <1>3, <2>1, CarveRefines
  <2>3. QED
    BY <2>2, StrayRefines
<1>4. QED
  BY <1>1, <1>2, <1>3 DEF DetourApply, ApplyDirect, ApplyReuse, ApplyIsland, Service!Next

\* Every step of the pool is one step of the service, or none.
LEMMA StepRefines ==
  ASSUME ServiceInv, ServiceInv', [Next]_vars
  PROVE  [Service!Next]_(Service!vars)
<1>1. CASE UNCHANGED vars \/ \E e : Return(e)
  BY <1>1, StutterRefines DEF vars, Return
<1>2. CASE Prepare
  BY <1>1, <1>2, PublishRefines DEF Prepare, Service!Next
<1>3. ASSUME NEW size \in Sizes, Alloc(size)
      PROVE  [Service!Next]_(Service!vars)
  <2>1. ASSUME NEW p \in FreePlaces, Rounds(size), IsFirst(p, Fitting(RoundUp(size))),
               Grant(list[p[1]], p[2], RoundUp(size))
        PROVE  Service!Take
    <3>1. size \in Nat /\ size > 0
      BY <2>1, InputAssumption, AlignmentAssumption DEF Rounds
    <3>2. RoundUp(size) \in Nat /\ RoundUp(size) > 0
      BY <3>1, RoundUpProperties
    <3>3. free[list[p[1]]][p[2]].size >= RoundUp(size)
      BY <2>1 DEF IsFirst, Fitting
    <3>4. QED
      BY <2>1, <3>2, <3>3, GrantRefines
  <2>2. QED
    BY <1>1, <1>3, <2>1 DEF Alloc, AllocFrom, Service!Next
<1>4. ASSUME NEW addr \in Blocks, NEW size \in Sizes, Free(addr, size)
      PROVE  [Service!Next]_(Service!vars)
  <2>1. ASSUME NEW a \in Published, Holds(a, addr), ~IsIsland(addr),
               NEW r \in Freed(a, addr, size), Release(a, r)
        PROVE  Service!Give
    BY <2>1, ReleaseRefines
  <2>2. QED
    BY <1>1, <1>4, <2>1 DEF Free, Service!Next
<1>5. ASSUME NEW addr \in Blocks, NEW size \in Sizes, WriteMemory(addr, size)
      PROVE  [Service!Next]_(Service!vars)
  <2>1. CASE spoiled' = {}
    BY <1>5, <2>1, WriteRefines DEF Service!Next
  <2>2. CASE spoiled' # {}
    <3>1. list' = list /\ UNCHANGED <<allocs, islands>>
      BY <1>5 DEF WriteMemory
    <3>2. QED
      BY <2>2, <3>1, StrayRefines DEF Service!Next
  <2>3. QED
    BY <2>1, <2>2
<1>6. ASSUME NEW s \in Sources, NEW t \in Targets, DetourApply(s, t)
      PROVE  [Service!Next]_(Service!vars)
  BY <1>6, DetourApplyRefines
<1>7. ASSUME NEW s \in Sources, NEW b \in Buffers, NEW size \in Sizes, DetourBackup(s, b, size)
      PROVE  [Service!Next]_(Service!vars)
  <2>1. CASE \E e : Return(e)
    BY <1>1, <2>1
  <2>2. CASE ~\E e : Return(e)
    <3>1. /\ BufferError(s, b, size) = "OK"
          /\ saved' = Put(saved, b, [at |-> s, jump |-> Instruction(jump, s),
                                     patched |-> Instruction(patched, s)])
          /\ UNCHANGED <<list, free, allocs, islands, jump, patched, spoiled>>
      BY <1>7, <2>2 DEF DetourBackup
    <3>2. CASE spoiled = {}
      BY <3>1, <3>2, BackupRefines DEF Service!Next
    <3>3. CASE spoiled # {}
      BY <3>1, <3>3, StrayRefines DEF Service!Next
    <3>4. QED
      BY <3>2, <3>3
  <2>3. QED
    BY <2>1, <2>2
<1>8. ASSUME NEW b \in Buffers, NEW size \in Sizes, DetourRestore(b, size)
      PROVE  [Service!Next]_(Service!vars)
  <2>1. CASE \E e : Return(e)
    BY <1>1, <2>1
  <2>2. CASE ~\E e : Return(e)
    <3>1. PICK s : s = saved[b].at
      OBVIOUS
    <3>2. /\ b \in DOMAIN saved /\ BufferError(s, b, size) = "OK"
          /\ spoiled' = spoiled \cup Hit(s, Word)
          /\ patched' = Restored(patched, s, saved[b].patched)
          /\ UNCHANGED <<list, free, allocs, islands, saved>>
      BY <1>8, <2>2, <3>1 DEF DetourRestore
    <3>3. CASE spoiled' = {}
      <4>1. spoiled = {} /\ Hit(s, Word) = {}
        BY <3>2, <3>3
      <4>2. QED
        BY <3>1, <3>2, <3>3, <4>1, RestoreRefines DEF Service!Next
    <3>4. CASE spoiled' # {}
      BY <3>2, <3>4, StrayRefines DEF Service!Next
    <3>5. QED
      BY <3>3, <3>4
  <2>3. QED
    BY <2>1, <2>2
<1>9. ASSUME NEW s \in Sources, NEW size \in Sizes, DetourValidate(s, size)
      PROVE  [Service!Next]_(Service!vars)
  BY <1>1, <1>9 DEF DetourValidate
<1>10. CASE Cleanup
  BY <1>10, CleanupRefines DEF Service!Next
<1>11. QED
  BY <1>1, <1>2, <1>3, <1>4, <1>5, <1>6, <1>7, <1>8, <1>9, <1>10 DEF Next

\* The pool implements its abstract specification: whatever the calls and
\* their order, callers see blocks of one owner and functions that lead where
\* they were last sent, and nothing of free lists, islands or hops.
THEOREM PoolImplementsService == Spec => ImplementsService
<1>1. Init => Service!Init
  <2>1. Init => Blank
    BY DEF Init, Blank, Nothing
  <2>2. QED
    BY <2>1, NothingOpen, ServiceInit
<1>2. ServiceInv /\ [Next]_vars => ServiceInv'
  BY ServiceStep
<1>3. ServiceInv /\ ServiceInv' /\ [Next]_vars => [Service!Next]_(Service!vars)
  BY StepRefines
<1>4. QED
  BY <1>1, <1>2, <1>3, ServiceInit, PTL DEF Spec, ImplementsService, Service!Spec
=============================================================================
