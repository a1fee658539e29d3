-------------------------- MODULE ValidationProofs --------------------------
(***************************************************************************)
(* Proofs about the loops of validate_data, for every layout and all data, *)
(* and about the tools that write them, for every struct.                  *)
(***************************************************************************)
EXTENDS SchemaTools, DataInduction, SequenceTheorems, TLAPS

Byte == 0 .. 255

(* Bytes make a natural number, elements have a size.                      *)
LEMMA PrefixOfBytes ==
  ASSUME NEW s \in Seq(Byte), NEW a \in Nat, a + 4 <= Len(s)
  PROVE  U32At(s, a) \in Nat
<1>1. Len(s) \in Nat
  OBVIOUS
<1> DEFINE b1 == s[a + 1]
           b2 == s[a + 2]
           b3 == s[a + 3]
           b4 == s[a + 4]
<1>2. /\ a + 1 \in 1 .. Len(s) /\ a + 2 \in 1 .. Len(s)
      /\ a + 3 \in 1 .. Len(s) /\ a + 4 \in 1 .. Len(s)
  BY <1>1
<1>3. b1 \in Nat /\ b2 \in Nat /\ b3 \in Nat /\ b4 \in Nat
  <2>1. b1 \in Byte /\ b2 \in Byte /\ b3 \in Byte /\ b4 \in Byte
    BY <1>2, ElementOfSeq
  <2> HIDE DEF b1, b2, b3, b4
  <2> QED BY <2>1 DEF Byte
<1>4. U32At(s, a) = b1 + 256 * b2 + 65536 * b3 + 16777216 * b4
  BY DEF U32At
<1> HIDE DEF b1, b2, b3, b4
<1>5. 256 * b2 \in Nat /\ 65536 * b3 \in Nat /\ 16777216 * b4 \in Nat
  BY <1>3
<1> QED BY <1>3, <1>4, <1>5

LEMMA PrefixType ==
  ASSUME data \in Seq(0 .. 255), offset \in Nat, ~PrefixAtEnd
  PROVE  U32At(data, offset) \in Nat
BY PrefixOfBytes DEF PrefixAtEnd, CanReadU32, Byte

LEMMA SizeType ==
  /\ \A type \in 0 .. 11 : ElementSize[type + 1] \in Nat
  /\ \A type \in 12 .. 24 : VecElementSize(type) \in Nat
BY DEF ElementSize, VecElementSize

LEMMA VecSizeType ==
  ASSUME data \in Seq(0 .. 255), offset \in Nat, ~PrefixAtEnd,
         NEW size \in Nat
  PROVE  VecSize(size) \in Nat /\ VecSize(size) >= 4
<1>1. U32At(data, offset) \in Nat
  BY PrefixType
<1>2. U32At(data, offset) * size \in Nat
  BY <1>1
<1> QED BY <1>2 DEF VecSize

(* The inductive invariant: the prefixes read so far lie before the offset *)
(* and inside the data.  The second part alone is not inductive, for a     *)
(* read needs four bytes past the offset, not past the reads before it.    *)
IInv ==
  /\ TypeOK
  /\ 4 * reads <= offset
  /\ ReadsBounded

(* The function as it is entered with some layout and some data.           *)
Entered ==
  /\ layout \in Seq(0 .. 255)
  /\ data \in Seq(0 .. 255)
  /\ Enter

LEMMA InitEntered == Init => Entered
BY InputAssumption DEF Init, Entered

LEMMA InitIInv ==
  ASSUME Entered
  PROVE  IInv
<1>1. Len(data) \in Nat
  BY DEF Entered
<1> QED BY <1>1 DEF Entered, Enter, IInv, TypeOK, ReadsBounded

LEMMA StopIInv ==
  ASSUME IInv,
         NEW verdict \in {"ok", "InvalidAttestationData", "panic"},
         Stop(verdict)
  PROVE  IInv'
BY DEF Stop, IInv, TypeOK, ReadsBounded

(* A prefix that is read lies between the offset and the end of the data.  *)
LEMMA ReadIInv ==
  ASSUME IInv, ~PrefixAtEnd, NEW size \in Nat,
         layout' = layout, data' = data, result' = result,
         field' = field, strings' \in Nat,
         pc' \in {"field", "strings", "check", "done"},
         offset' = offset + size, size >= 4, reads' = reads + 1
  PROVE  IInv'
<1>1. Len(data) \in Nat /\ offset \in Nat /\ reads \in Nat
  BY DEF IInv, TypeOK
<1>2. offset + 4 <= Len(data)
  BY DEF PrefixAtEnd, CanReadU32
<1>3. TypeOK'
  BY <1>1 DEF IInv, TypeOK
<1>4. 4 * reads' <= offset' /\ 4 * reads' <= Len(data)
  BY <1>1, <1>2 DEF IInv
<1> QED BY <1>3, <1>4 DEF IInv, ReadsBounded

LEMMA NextIInv ==
  ASSUME IInv, [Next]_vars
  PROVE  IInv'
<1> USE DEF IInv
<1>1. CASE ReadFixed
  <2>1. ElementSize[Type + 1] \in Nat
    BY <1>1, SizeType DEF ReadFixed
  <2>2. /\ offset' = offset + ElementSize[Type + 1]
        /\ pc' = "check"
        /\ UNCHANGED <<layout, data, field, strings, reads, result>>
    BY <1>1 DEF ReadFixed
  <2>3. offset' \in Nat /\ offset' >= offset
    BY <2>1, <2>2 DEF TypeOK
  <2>4. TypeOK'
    BY <2>2, <2>3 DEF TypeOK
  <2> QED BY <2>2, <2>3, <2>4 DEF TypeOK, ReadsBounded
<1>2. CASE ReadVec
  <2>1. CASE PrefixAtEnd /\ Stop("panic")
    BY <2>1, StopIInv
  <2>2. CASE ~PrefixAtEnd
    <3>1. VecElementSize(Type) \in Nat
      BY <1>2, SizeType DEF ReadVec
    <3>2. /\ VecSize(VecElementSize(Type)) \in Nat
          /\ VecSize(VecElementSize(Type)) >= 4
      BY <2>2, <3>1, VecSizeType DEF TypeOK
    <3>3. /\ offset' = offset + VecSize(VecElementSize(Type))
          /\ reads' = reads + 1
          /\ pc' = "check"
          /\ UNCHANGED <<layout, data, field, strings, result>>
      BY <1>2, <2>2 DEF ReadVec
    <3>4. strings' \in Nat
      BY <3>3 DEF TypeOK
    <3> HIDE DEF IInv
    <3> QED BY <2>2, <3>2, <3>3, <3>4, ReadIInv
  <2> QED BY <1>2, <2>1, <2>2 DEF ReadVec
<1>3. CASE ReadCount
  <2>1. CASE PrefixAtEnd /\ Stop("panic")
    BY <2>1, StopIInv
  <2>2. CASE ~PrefixAtEnd
    <3>1. U32At(data, offset) \in Nat
      BY <2>2, PrefixType DEF TypeOK
    <3> HIDE DEF IInv
    <3> QED BY <1>3, <2>2, <3>1, ReadIInv DEF ReadCount
  <2> QED BY <1>3, <2>1, <2>2 DEF ReadCount
<1>4. CASE ReadString
  <2>1. CASE PrefixAtEnd /\ Stop("panic")
    BY <2>1, StopIInv
  <2>2. CASE ~PrefixAtEnd
    <3>1. VecSize(1) \in Nat /\ VecSize(1) >= 4
      BY <2>2, VecSizeType DEF TypeOK
    <3>2. strings - 1 \in Nat
      BY <1>4 DEF ReadString, MoreStrings, TypeOK
    <3> HIDE DEF IInv
    <3> QED BY <1>4, <2>2, <3>1, <3>2, ReadIInv DEF ReadString, IInv, TypeOK
  <2> QED BY <1>4, <2>1, <2>2 DEF ReadString
<1>5. CASE StringsRead
  BY <1>5 DEF StringsRead, TypeOK, ReadsBounded
<1>6. CASE UnknownType
  BY <1>6, StopIInv DEF UnknownType
<1>7. CASE CheckOffset
  <2>1. CASE Stop("InvalidAttestationData")
    BY <2>1, StopIInv
  <2>2. CASE ~Stop("InvalidAttestationData")
    BY <1>7, <2>2 DEF CheckOffset, TypeOK, ReadsBounded
  <2> QED BY <2>1, <2>2
<1>8. CASE Return
  BY <1>8, StopIInv DEF Return
<1>9. CASE UNCHANGED vars
  BY <1>9 DEF vars, TypeOK, ReadsBounded
<1> QED BY <1>1, <1>2, <1>3, <1>4, <1>5, <1>6, <1>7, <1>8, <1>9 DEF Next

LEMMA InvariantHolds == Spec => []IInv
<1>1. Init => IInv
  BY InitEntered, InitIInv
<1>2. IInv /\ [Next]_vars => IInv'
  BY NextIInv
<1> QED BY <1>1, <1>2, PTL DEF Spec

(* validate_data keeps its variables in their types: the number of strings *)
(* left never goes below zero.                                             *)
THEOREM TypesCorrect == Spec => []TypeOK
<1>1. IInv => TypeOK
  BY DEF IInv
<1> QED BY <1>1, InvariantHolds, PTL

(* However large the counts and lengths in the data, validate_data reads   *)
(* no more length prefixes than a quarter of the bytes of the data.        *)
THEOREM WorkBounded == Spec => []ReadsBounded
<1>1. IInv => ReadsBounded
  BY DEF IInv
<1> QED BY <1>1, InvariantHolds, PTL

(* The steps left: four for each field, of which one reads a fixed-size    *)
(* field or a prefix, one ends the strings and one compares the offset,    *)
(* one for every byte, of which a prefix takes four, and those of the      *)
(* iteration the loop is in.                                               *)
StepsOf(label) == CASE label = "field" -> 3
                    [] label = "strings" -> 2
                    [] label = "check" -> 1
                    [] OTHER -> 0

StepsLeft ==
  4 * (Len(layout) + 1 - field) + (Len(data) - 4 * reads) + StepsOf(pc)

(* A field is read only while there is one.                                *)
InLayout == /\ field <= Len(layout) + 1
            /\ pc \in {"strings", "check"} => field <= Len(layout)

LEMMA LayoutStep ==
  ASSUME TypeOK, InLayout, [Next]_vars
  PROVE  InLayout'
<1>1. Len(layout) \in Nat /\ field \in Nat
  BY DEF TypeOK
<1>2. layout' = layout
  BY DEF Next, ReadFixed, ReadVec, ReadCount, ReadString, StringsRead,
         UnknownType, CheckOffset, Return, Stop, vars
<1>3. CASE ReadFixed \/ ReadVec \/ ReadCount \/ UnknownType
  BY <1>1, <1>2, <1>3
     DEF ReadFixed, ReadVec, ReadCount, UnknownType, Stop, InLayout
<1>4. CASE ReadString \/ StringsRead \/ CheckOffset \/ Return
  BY <1>1, <1>2, <1>4
     DEF ReadString, StringsRead, CheckOffset, Return, Stop, InLayout
<1>5. CASE UNCHANGED vars
  BY <1>2, <1>5 DEF vars, InLayout
<1> QED BY <1>3, <1>4, <1>5 DEF Next

(* Every step leaves fewer.                                                *)
LEMMA StepTaken ==
  ASSUME TypeOK, ReadsBounded, InLayout, Next
  PROVE  StepsLeft' < StepsLeft
<1> DEFINE fields == Len(layout)
           bytes == Len(data)
<1>1. /\ fields \in Nat /\ bytes \in Nat /\ field \in Nat /\ reads \in Nat
      /\ layout' = layout /\ data' = data
  BY DEF TypeOK, Next, ReadFixed, ReadVec, ReadCount, ReadString, StringsRead,
         UnknownType, CheckOffset, Return, Stop
<1>2. /\ StepsLeft = 4 * (fields + 1 - field) + (bytes - 4 * reads) + StepsOf(pc)
      /\ StepsLeft' = 4 * (fields + 1 - field') + (bytes - 4 * reads')
                        + StepsOf(pc')
  BY <1>1 DEF StepsLeft, StepsOf
<1>3. /\ StepsOf("field") = 3 /\ StepsOf("strings") = 2
      /\ StepsOf("check") = 1 /\ StepsOf("done") = 0
  BY DEF StepsOf
<1>4. \/ /\ field' = field /\ reads' = reads
         /\ \/ pc = "field" /\ pc' = "check"
            \/ pc = "strings" /\ pc' = "check"
            \/ pc \in {"field", "strings", "check"} /\ pc' = "done"
      \/ /\ field' = field /\ reads' = reads + 1
         /\ \/ pc = "field" /\ pc' = "check"
            \/ pc = "field" /\ pc' = "strings"
            \/ pc = "strings" /\ pc' = "strings"
      \/ field' = field + 1 /\ reads' = reads /\ pc = "check" /\ pc' = "field"
  BY DEF Next, ReadFixed, ReadVec, ReadCount, ReadString, StringsRead,
         UnknownType, CheckOffset, Return, Stop
<1> HIDE DEF fields, bytes
<1> QED BY ONLY <1>1, <1>2, <1>3, <1>4

LEMMA StepsLeftType ==
  ASSUME TypeOK, ReadsBounded, InLayout
  PROVE  StepsLeft \in Nat
<1> DEFINE fields == Len(layout)
           bytes == Len(data)
<1>1. /\ fields \in Nat /\ bytes \in Nat /\ field \in Nat /\ reads \in Nat
      /\ field <= fields + 1 /\ 4 * reads <= bytes
  BY DEF TypeOK, InLayout, ReadsBounded
<1>2. StepsOf(pc) \in Nat
  BY DEF StepsOf
<1>3. StepsLeft = 4 * (fields + 1 - field) + (bytes - 4 * reads) + StepsOf(pc)
  BY DEF StepsLeft
<1> HIDE DEF fields, bytes
<1> QED BY ONLY <1>1, <1>2, <1>3

StepCounted == StepsLeft' < StepsLeft

(* The loops cannot go on for ever, whatever counts the data gives: the    *)
(* number of steps left never goes below zero and every step makes it      *)
(* smaller, so that there are at most 4 * Len(layout) + Len(data) + 3.     *)
THEOREM StepsRunOut ==
  Spec => /\ StepsLeft = 4 * Len(layout) + Len(data) + 3
          /\ [](StepsLeft \in Nat)
          /\ [][StepCounted]_vars
<1> DEFINE Bounded == StepsLeft \in Nat
<1>1. ASSUME Init
      PROVE  InLayout /\ StepsLeft = 4 * Len(layout) + Len(data) + 3
  <2>1. layout \in Seq(0 .. 255) /\ data \in Seq(0 .. 255)
    BY <1>1, InputAssumption DEF Init, Enter
  <2>2. Len(layout) \in Nat /\ Len(data) \in Nat
    BY <2>1
  <2>3. pc = "field" /\ field = 1 /\ reads = 0
    BY <1>1 DEF Init, Enter
  <2>4. StepsOf(pc) = 3
    BY <2>3 DEF StepsOf
  <2>5. StepsLeft = 4 * (Len(layout) + 1 - 1) + (Len(data) - 4 * 0) + 3
    BY <2>3, <2>4 DEF StepsLeft
  <2> QED BY <2>2, <2>3, <2>5 DEF InLayout
<1>2. Init => InLayout
  BY <1>1
<1>3. Init => StepsLeft = 4 * Len(layout) + Len(data) + 3
  BY <1>1
<1>4. IInv /\ InLayout /\ [Next]_vars => InLayout'
  BY LayoutStep DEF IInv
<1>5. IInv /\ InLayout => Bounded
  BY StepsLeftType DEF IInv
<1>6. IInv /\ InLayout /\ [Next]_vars => [StepCounted]_vars
  BY StepTaken DEF IInv, StepCounted
<1>7. Spec => []Bounded
  BY <1>2, <1>4, <1>5, InvariantHolds, PTL DEF Spec
<1>8. Spec => [][StepCounted]_vars
  BY <1>2, <1>4, <1>6, InvariantHolds, PTL DEF Spec
<1> QED BY <1>3, <1>7, <1>8, PTL DEF Spec

-----------------------------------------------------------------------------
(* Slices of the data.                                                     *)

(* data[a..b]                                                              *)
Slice(s, a, b) == SubSeq(s, a + 1, b)

LEMMA SliceProperties ==
  ASSUME NEW s \in Seq(Byte), NEW a \in Nat, NEW b \in Nat,
         a <= b, b <= Len(s)
  PROVE  /\ Slice(s, a, b) \in Seq(Byte)
         /\ Len(Slice(s, a, b)) = b - a
         /\ \A i \in 1 .. b - a : Slice(s, a, b)[i] = s[a + i]
<1>1. Len(s) \in Nat /\ DOMAIN s = 1 .. Len(s)
  OBVIOUS
<1>2. \A i \in a + 1 .. b : s[i] \in Byte
  BY <1>1, ElementOfSeq
<1>3. /\ SubSeq(s, a + 1, b) \in Seq(Byte)
      /\ Len(SubSeq(s, a + 1, b)) =
           IF a + 1 <= b THEN b - (a + 1) + 1 ELSE 0
      /\ \A i \in 1 .. b - (a + 1) + 1 :
           SubSeq(s, a + 1, b)[i] = s[a + 1 + i - 1]
  BY <1>2, SubSeqProperties
<1>4. \A i \in 1 .. b - a : a + 1 + i - 1 = a + i
  OBVIOUS
<1>5. b - (a + 1) + 1 = b - a
  OBVIOUS
<1> QED BY <1>3, <1>4, <1>5 DEF Slice

LEMMA SliceOfSlice ==
  ASSUME NEW s \in Seq(Byte), NEW a \in Nat, NEW b \in Nat,
         a <= b, b <= Len(s), NEW c \in Nat, NEW d \in Nat,
         c <= d, d <= b - a
  PROVE  Slice(Slice(s, a, b), c, d) = Slice(s, a + c, a + d)
<1> DEFINE t == Slice(s, a, b)
           u == Slice(t, c, d)
           v == Slice(s, a + c, a + d)
<1>1. /\ t \in Seq(Byte) /\ Len(t) = b - a
      /\ \A i \in 1 .. b - a : t[i] = s[a + i]
  BY SliceProperties
<1> HIDE DEF t
<1>2. /\ u \in Seq(Byte) /\ Len(u) = d - c
      /\ \A i \in 1 .. d - c : u[i] = t[c + i]
  BY <1>1, SliceProperties
<1>3. /\ v \in Seq(Byte) /\ Len(v) = (a + d) - (a + c)
      /\ \A i \in 1 .. (a + d) - (a + c) : v[i] = s[a + c + i]
  <2>1. /\ a + c \in Nat /\ a + d \in Nat /\ a + c <= a + d
        /\ a + d <= Len(s)
    OBVIOUS
  <2> QED BY <2>1, SliceProperties
<1> HIDE DEF u, v
<1>4. \A i \in 1 .. d - c : u[i] = v[i]
  <2> TAKE i \in 1 .. d - c
  <2>1. c + i \in 1 .. b - a /\ a + (c + i) = a + c + i
    OBVIOUS
  <2>2. (a + d) - (a + c) = d - c
    OBVIOUS
  <2> QED BY <1>1, <1>2, <1>3, <2>1, <2>2
<1>5. Len(u) = Len(v)
  BY <1>2, <1>3
<1>6. u = v
  BY <1>2, <1>3, <1>4, <1>5, SeqEqual
<1> QED BY <1>6 DEF t, u, v

(* A length prefix at the start of a slice is the one in the data.         *)
LEMMA SlicePrefix ==
  ASSUME NEW s \in Seq(Byte), NEW a \in Nat, NEW b \in Nat,
         a + 4 <= b, b <= Len(s)
  PROVE  U32At(Slice(s, a, b), 0) = U32At(s, a)
<1> DEFINE t == Slice(s, a, b)
<1>1. \A i \in 1 .. b - a : t[i] = s[a + i]
  BY SliceProperties
<1> HIDE DEF t
<1>2. t[0 + 1] = s[a + 1] /\ t[0 + 2] = s[a + 2]
      /\ t[0 + 3] = s[a + 3] /\ t[0 + 4] = s[a + 4]
  BY <1>1
<1>3. U32At(t, 0) = U32At(s, a)
  BY <1>2 DEF U32At
<1> QED BY <1>3 DEF t

-----------------------------------------------------------------------------
(* Values and where they end.                                              *)

(* data[a..b] is a string.                                                 *)
StringFrom(s, a, b) == a + 4 <= b /\ b = a + 4 + U32At(s, a)

LEMMA StringSlice ==
  ASSUME NEW s \in Seq(Byte), NEW a \in Nat, NEW b \in Nat,
         a <= b, b <= Len(s)
  PROVE  StringSized(Slice(s, a, b)) <=> StringFrom(s, a, b)
<1>1. Len(Slice(s, a, b)) = b - a
  BY SliceProperties
<1>2. CASE a + 4 <= b
  <2>1. U32At(Slice(s, a, b), 0) = U32At(s, a)
    BY <1>2, SlicePrefix
  <2> DEFINE n == U32At(s, a)
  <2>2. n \in Nat
    BY <1>2, PrefixOfBytes
  <2> HIDE DEF n
  <2>3. b - a - 4 = n <=> b = a + 4 + n
    BY <2>2
  <2> QED BY <1>1, <1>2, <2>1, <2>3 DEF StringSized, StringFrom, n
<1>3. CASE ~(a + 4 <= b)
  BY <1>1, <1>3 DEF StringSized, StringFrom
<1> QED BY <1>2, <1>3

(* data[a..b] is n strings, one after the other, cut at these places.      *)
Strings(s, cut, n, a, b) ==
  /\ cut \in [0 .. n -> a .. b]
  /\ cut[0] = a
  /\ cut[n] = b
  /\ \A i \in 1 .. n : StringFrom(s, cut[i - 1], cut[i])

(* data[a..b] is a count and that many strings.                            *)
StringsFrom(s, a, b) ==
  /\ a + 4 <= b
  /\ a + 4 + 4 * U32At(s, a) <= b
  /\ \E cut : Strings(s, cut, U32At(s, a), a + 4, b)

LEMMA StringsSlice ==
  ASSUME NEW s \in Seq(Byte), NEW a \in Nat, NEW b \in Nat,
         a <= b, b <= Len(s),
         ValueSized(25, Slice(s, a, b))
  PROVE  StringsFrom(s, a, b)
<1> DEFINE t == Slice(s, a, b)
           n == U32At(t, 0)
           rest == SubSeq(t, 5, Len(t))
<1>1. Len(t) = b - a /\ t \in Seq(Byte)
  BY SliceProperties
<1>2. /\ Len(t) >= 4
      /\ 4 * n <= Len(rest)
      /\ \E cut \in Cuts(rest, n) :
           \A i \in 1 .. n : StringSized(Part(rest, cut, i))
  BY DEF ValueSized
<1>3. n = U32At(s, a) /\ n \in Nat
  BY <1>1, <1>2, SlicePrefix, PrefixOfBytes
<1>4. rest = Slice(s, a + 4, b)
  <2>1. rest = Slice(t, 4, b - a)
    BY <1>1 DEF Slice
  <2>2. a + (b - a) = b
    OBVIOUS
  <2>3. Slice(t, 4, b - a) = Slice(s, a + 4, a + (b - a))
    BY <1>1, <1>2, SliceOfSlice
  <2> QED BY <2>1, <2>2, <2>3
<1> HIDE DEF t, rest
<1>5. Len(rest) = b - (a + 4)
  <2>1. a + 4 \in Nat /\ a + 4 <= b
    BY <1>1, <1>2
  <2> QED BY <1>4, <2>1, SliceProperties
<1> HIDE DEF n
<1>6. PICK c \in Cuts(rest, n) : \A i \in 1 .. n : StringSized(Part(rest, c, i))
  BY <1>2
<1>7. /\ c \in [0 .. n -> 0 .. Len(rest)] /\ c[0] = 0 /\ c[n] = Len(rest)
      /\ \A i \in 1 .. n : c[i - 1] <= c[i]
  BY <1>6 DEF Cuts
<1> DEFINE cut == [i \in 0 .. n |-> a + 4 + c[i]]
<1>8. cut \in [0 .. n -> a + 4 .. b]
  <2>1. \A i \in 0 .. n : c[i] \in 0 .. b - (a + 4)
    BY <1>5, <1>7
  <2>2. \A x \in 0 .. b - (a + 4) : a + 4 + x \in a + 4 .. b
    OBVIOUS
  <2> QED BY <2>1, <2>2
<1>9. cut[0] = a + 4 /\ cut[n] = b
  BY <1>1, <1>2, <1>3, <1>5, <1>7
<1>10. ASSUME NEW i \in 1 .. n
       PROVE  StringFrom(s, cut[i - 1], cut[i])
  <2>1. i \in 0 .. n /\ i - 1 \in 0 .. n
    BY <1>3
  <2> DEFINE j == c[i - 1]
             k == c[i]
  <2>2. j \in Nat /\ k \in Nat /\ j <= k /\ k <= Len(rest)
    BY <1>5, <1>7, <2>1
  <2>3. cut[i - 1] = a + 4 + j /\ cut[i] = a + 4 + k
    BY <2>1
  <2>4. Part(rest, c, i) = Slice(rest, j, k)
    BY DEF Part, Slice
  <2> HIDE DEF j, k, cut
  <2>5. Slice(rest, j, k) = Slice(s, a + 4 + j, a + 4 + k)
    BY <1>1, <1>2, <1>4, <1>5, <2>2, SliceOfSlice
  <2>6. StringSized(Slice(s, a + 4 + j, a + 4 + k))
    BY <1>6, <2>4, <2>5
  <2>7. /\ a + 4 + j \in Nat /\ a + 4 + k \in Nat
        /\ a + 4 + j <= a + 4 + k /\ a + 4 + k <= Len(s)
    BY <1>1, <1>2, <1>5, <2>2
  <2> QED BY <2>3, <2>6, <2>7, StringSlice
<1> HIDE DEF cut
<1>11. Strings(s, cut, n, a + 4, b)
  BY <1>8, <1>9, <1>10 DEF Strings
<1>12. a + 4 <= b /\ a + 4 + 4 * n <= b
  BY <1>1, <1>2, <1>3, <1>5
<1> QED BY <1>3, <1>11, <1>12 DEF StringsFrom

LEMMA SliceStrings ==
  ASSUME NEW s \in Seq(Byte), NEW a \in Nat, NEW b \in Nat,
         b <= Len(s), StringsFrom(s, a, b)
  PROVE  ValueSized(25, Slice(s, a, b))
<1> DEFINE t == Slice(s, a, b)
           n == U32At(t, 0)
           rest == SubSeq(t, 5, Len(t))
<1>1. a + 4 <= b /\ a <= b /\ a + 4 + 4 * U32At(s, a) <= b
  BY DEF StringsFrom
<1>2. Len(t) = b - a /\ t \in Seq(Byte)
  BY <1>1, SliceProperties
<1>3. n = U32At(s, a) /\ n \in Nat
  BY <1>1, SlicePrefix, PrefixOfBytes
<1>4. rest = Slice(s, a + 4, b)
  <2>1. rest = Slice(t, 4, b - a)
    BY <1>2 DEF Slice
  <2>2. a + (b - a) = b
    OBVIOUS
  <2>3. Slice(t, 4, b - a) = Slice(s, a + 4, a + (b - a))
    BY <1>1, <1>2, SliceOfSlice
  <2> QED BY <2>1, <2>2, <2>3
<1> HIDE DEF t, rest
<1>5. Len(rest) = b - (a + 4)
  <2>1. a + 4 \in Nat /\ a + 4 <= b
    BY <1>1
  <2> QED BY <1>4, <2>1, SliceProperties
<1> HIDE DEF n
<1>6. PICK cut : Strings(s, cut, n, a + 4, b)
  BY <1>3 DEF StringsFrom
<1>7. /\ cut \in [0 .. n -> a + 4 .. b] /\ cut[0] = a + 4 /\ cut[n] = b
      /\ \A i \in 1 .. n : StringFrom(s, cut[i - 1], cut[i])
  BY <1>6 DEF Strings
<1> DEFINE c == [i \in 0 .. n |-> cut[i] - (a + 4)]
<1>8. c \in [0 .. n -> 0 .. Len(rest)]
  <2>1. \A i \in 0 .. n : cut[i] \in a + 4 .. b
    BY <1>7
  <2>2. \A x \in a + 4 .. b : x - (a + 4) \in 0 .. b - (a + 4)
    OBVIOUS
  <2> QED BY <1>5, <2>1, <2>2
<1>9. c[0] = 0 /\ c[n] = Len(rest)
  BY <1>1, <1>3, <1>5, <1>7
<1>10. ASSUME NEW i \in 1 .. n
       PROVE  c[i - 1] <= c[i] /\ StringSized(Part(rest, c, i))
  <2>1. i \in 0 .. n /\ i - 1 \in 0 .. n
    BY <1>3
  <2> DEFINE j == c[i - 1]
             k == c[i]
             p == cut[i - 1]
             q == cut[i]
  <2>2. /\ p \in Nat /\ q \in Nat /\ a + 4 <= p /\ q <= b
        /\ j = p - (a + 4) /\ k = q - (a + 4)
    BY <1>7, <2>1
  <2>3. StringFrom(s, p, q)
    BY <1>7
  <2>4. Part(rest, c, i) = Slice(rest, j, k)
    BY DEF Part, Slice
  <2> HIDE DEF j, k, c, p, q
  <2>5. p <= q
    BY <2>2, <2>3 DEF StringFrom
  <2>6. /\ j \in Nat /\ k \in Nat /\ j <= k /\ k <= b - (a + 4)
        /\ a + 4 + j = p /\ a + 4 + k = q
    BY <2>2, <2>5
  <2>7. Slice(rest, j, k) = Slice(s, a + 4 + j, a + 4 + k)
    BY <1>1, <1>4, <2>6, SliceOfSlice
  <2>8. StringSized(Slice(s, p, q))
    BY <2>2, <2>3, <2>5, StringSlice
  <2>9. c[i - 1] <= c[i]
    BY <2>6 DEF j, k
  <2> QED BY <2>4, <2>6, <2>7, <2>8, <2>9
<1> HIDE DEF c
<1>11. c \in Cuts(rest, n)
  BY <1>8, <1>9, <1>10 DEF Cuts
<1>12. Len(t) >= 4 /\ 4 * n <= Len(rest)
  BY <1>1, <1>2, <1>3, <1>5
<1>13. ValueSized(25, t)
  BY <1>10, <1>11, <1>12 DEF ValueSized, n, rest
<1> QED BY <1>13 DEF t

(* The arms of ValueSized for values of a fixed size and for vectors of them. *)
LEMMA FixedValue ==
  ASSUME NEW bytes, NEW type \in 0 .. 11
  PROVE  ValueSized(type, bytes) <=> Len(bytes) = ElementSize[type + 1]
<1>1. type # 12 /\ type \notin 13 .. 24 /\ type # 25
  OBVIOUS
<1>2. type \in 0 .. 11
  OBVIOUS
<1> QED BY ONLY <1>1, <1>2, Zenon DEF ValueSized

LEMMA VecValue ==
  ASSUME NEW bytes, NEW type \in 13 .. 24
  PROVE  ValueSized(type, bytes) <=>
           /\ Len(bytes) >= 4
           /\ Len(bytes) - 4 = U32At(bytes, 0) * ElementSize[type - 12]
<1>1. type \notin 0 .. 11 /\ type # 12 /\ type # 25
  OBVIOUS
<1>2. type \in 13 .. 24
  OBVIOUS
<1> QED BY ONLY <1>1, <1>2, Zenon DEF ValueSized

(* data[a..b] is a number, a bool or a char.                               *)
LEMMA FixedSlice ==
  ASSUME NEW s \in Seq(Byte), NEW a \in Nat, NEW b \in Nat,
         a <= b, b <= Len(s), NEW type \in 0 .. 11
  PROVE  ValueSized(type, Slice(s, a, b)) <=> b = a + ElementSize[type + 1]
<1>1. Len(Slice(s, a, b)) = b - a
  BY SliceProperties
<1>2. ElementSize[type + 1] \in Nat
  BY SizeType
<1>3. ValueSized(type, Slice(s, a, b)) <=>
        Len(Slice(s, a, b)) = ElementSize[type + 1]
  BY FixedValue
<1> QED BY <1>1, <1>2, <1>3

(* data[a..b] is a string or a vector of values of the types above.        *)
LEMMA VecSlice ==
  ASSUME NEW s \in Seq(Byte), NEW a \in Nat, NEW b \in Nat,
         a <= b, b <= Len(s), NEW type \in 12 .. 24
  PROVE  ValueSized(type, Slice(s, a, b)) <=>
           a + 4 <= b /\ b = a + (4 + U32At(s, a) * VecElementSize(type))
<1> DEFINE t == Slice(s, a, b)
           n == U32At(t, 0) * VecElementSize(type)
<1>1. Len(t) = b - a
  BY SliceProperties
<1>2. ValueSized(type, t) <=> Len(t) >= 4 /\ Len(t) - 4 = n
  <2>1. CASE type = 12
    <3>1. ValueSized(type, t) <=> StringSized(t)
      BY <2>1 DEF ValueSized
    <3>2. StringSized(t) <=> Len(t) >= 4 /\ Len(t) - 4 = U32At(t, 0)
      BY DEF StringSized
    <3>3. CASE Len(t) >= 4
      <4>1. U32At(t, 0) \in Nat
        <5>1. t \in Seq(Byte)
          BY SliceProperties
        <5> QED BY <3>3, <5>1, PrefixOfBytes
      <4>2. n = U32At(t, 0)
        BY <2>1, <4>1 DEF VecElementSize
      <4> QED BY <3>1, <3>2, <4>2
    <3>4. CASE ~(Len(t) >= 4)
      BY <3>1, <3>2, <3>4
    <3> QED BY <3>3, <3>4
  <2>2. CASE type \in 13 .. 24
    <3>1. VecElementSize(type) = ElementSize[type - 12]
      BY <2>2 DEF VecElementSize
    <3> QED BY <2>2, <3>1, VecValue
  <2> QED BY <2>1, <2>2
<1>3. CASE a + 4 <= b
  <2>1. U32At(t, 0) = U32At(s, a) /\ U32At(s, a) \in Nat
    BY <1>3, SlicePrefix, PrefixOfBytes
  <2>2. VecElementSize(type) \in Nat
    BY SizeType
  <2>3. n = U32At(s, a) * VecElementSize(type) /\ n \in Nat
    BY <2>1, <2>2
  <2> HIDE DEF n, t
  <2> QED BY <1>1, <1>2, <1>3, <2>3 DEF t
<1>4. CASE ~(a + 4 <= b)
  <2> HIDE DEF n
  <2> QED BY <1>1, <1>2, <1>4
<1> QED BY <1>3, <1>4

-----------------------------------------------------------------------------
(* The loop over the layout. What it has read has the sizes of the fields  *)
(* so far, and all data with the sizes of the layout is cut there.         *)

(* data[0..e] has the sizes of the first n fields.                         *)
SizedTo(types, s, n, e) ==
  \E cut \in [0 .. n -> 0 .. e] :
    /\ cut[0] = 0
    /\ cut[n] = e
    /\ \A i \in 1 .. n : /\ cut[i - 1] <= cut[i]
                         /\ ValueSized(types[i], Slice(s, cut[i - 1], cut[i]))

(* The n-th field ends at e however the data is read.                      *)
Forced(types, s, n, e) ==
  \A cut \in Cuts(s, Len(types)) :
    (\A i \in 1 .. Len(types) : ValueSized(types[i], Part(s, cut, i)))
      => cut[n] = e

(* The only value of a type that begins at a ends at b, if there is one.   *)
ReadFrom(type, s, a, b) ==
  /\ a <= b
  /\ b <= Len(s) => ValueSized(type, Slice(s, a, b))
  /\ \A e \in a .. Len(s) : ValueSized(type, Slice(s, a, e)) => e = b

(* No data with the right sizes begins like that.                          *)
LEMMA NotSized ==
  ASSUME NEW types \in Seq(Byte), NEW s \in Seq(Byte),
         NEW n \in 1 .. Len(types), NEW a \in 0 .. Len(s),
         Forced(types, s, n - 1, a),
         \A e \in a .. Len(s) : ~ValueSized(types[n], Slice(s, a, e))
  PROVE  ~LayoutSized(types, s)
<1> SUFFICES ASSUME NEW cut \in Cuts(s, Len(types)),
                    \A i \in 1 .. Len(types) :
                      ValueSized(types[i], Part(s, cut, i))
             PROVE  FALSE
  BY DEF LayoutSized
<1>1. /\ cut \in [0 .. Len(types) -> 0 .. Len(s)]
      /\ \A i \in 1 .. Len(types) : cut[i - 1] <= cut[i]
  BY DEF Cuts
<1>2. cut[n - 1] = a
  BY DEF Forced
<1>3. Len(types) \in Nat /\ Len(s) \in Nat
  OBVIOUS
<1>4. n \in 0 .. Len(types)
  BY <1>3
<1>5. cut[n] \in a .. Len(s)
  <2>1. cut[n] \in 0 .. Len(s) /\ cut[n - 1] <= cut[n]
    BY <1>1, <1>4
  <2> QED BY <1>2, <1>3, <2>1
<1>6. Part(s, cut, n) = Slice(s, a, cut[n])
  BY <1>2 DEF Part, Slice
<1>7. ValueSized(types[n], Slice(s, a, cut[n]))
  BY <1>6
<1> QED BY <1>5, <1>7

LEMMA FieldSized ==
  ASSUME NEW types \in Seq(Byte), NEW s \in Seq(Byte),
         NEW n \in 1 .. Len(types), NEW a \in 0 .. Len(s), NEW b \in Nat,
         SizedTo(types, s, n - 1, a), ReadFrom(types[n], s, a, b),
         b <= Len(s)
  PROVE  SizedTo(types, s, n, b)
<1>1. n \in Nat /\ n >= 1 /\ a \in Nat /\ a <= b /\ Len(s) \in Nat
  BY DEF ReadFrom
<1>2. ValueSized(types[n], Slice(s, a, b))
  BY DEF ReadFrom
<1>3. PICK old \in [0 .. n - 1 -> 0 .. a] :
        /\ old[0] = 0
        /\ old[n - 1] = a
        /\ \A i \in 1 .. n - 1 :
             /\ old[i - 1] <= old[i]
             /\ ValueSized(types[i], Slice(s, old[i - 1], old[i]))
  BY DEF SizedTo
<1> DEFINE cut == [i \in 0 .. n |-> IF i = n THEN b ELSE old[i]]
<1>4. cut \in [0 .. n -> 0 .. b]
  <2>1. \A i \in 0 .. n : i # n => i \in 0 .. n - 1
    BY <1>1
  <2>2. \A i \in 0 .. n - 1 : old[i] \in 0 .. b
    BY <1>1, <1>3
  <2> QED BY <1>1, <2>1, <2>2
<1>5. cut[0] = 0 /\ cut[n] = b
  BY <1>1, <1>3
<1>6. \A i \in 0 .. n - 1 : cut[i] = old[i]
  BY <1>1
<1> HIDE DEF cut
<1>7. ASSUME NEW i \in 1 .. n
      PROVE  /\ cut[i - 1] <= cut[i]
             /\ ValueSized(types[i], Slice(s, cut[i - 1], cut[i]))
  <2>1. CASE i = n
    <3>1. cut[i - 1] = a /\ cut[i] = b
      BY <1>1, <1>3, <1>5, <1>6, <2>1
    <3> QED BY <1>1, <1>2, <2>1, <3>1
  <2>2. CASE i # n
    <3>1. i \in 1 .. n - 1 /\ i \in 0 .. n - 1 /\ i - 1 \in 0 .. n - 1
      BY <1>1, <2>2
    <3> QED BY <1>3, <1>6, <3>1
  <2> QED BY <2>1, <2>2
<1> QED BY <1>4, <1>5, <1>7 DEF SizedTo

LEMMA FieldForced ==
  ASSUME NEW types \in Seq(Byte), NEW s \in Seq(Byte),
         NEW n \in 1 .. Len(types), NEW a \in 0 .. Len(s), NEW b \in Nat,
         Forced(types, s, n - 1, a), ReadFrom(types[n], s, a, b)
  PROVE  Forced(types, s, n, b)
<1> SUFFICES ASSUME NEW cut \in Cuts(s, Len(types)),
                    \A i \in 1 .. Len(types) :
                      ValueSized(types[i], Part(s, cut, i))
             PROVE  cut[n] = b
  BY DEF Forced
<1>1. /\ cut \in [0 .. Len(types) -> 0 .. Len(s)]
      /\ \A i \in 1 .. Len(types) : cut[i - 1] <= cut[i]
  BY DEF Cuts
<1>2. cut[n - 1] = a
  BY DEF Forced
<1>3. Len(types) \in Nat /\ Len(s) \in Nat
  OBVIOUS
<1>4. n \in 0 .. Len(types)
  BY <1>3
<1>5. cut[n] \in a .. Len(s)
  <2>1. cut[n] \in 0 .. Len(s) /\ cut[n - 1] <= cut[n]
    BY <1>1, <1>4
  <2> QED BY <1>2, <1>3, <2>1
<1>6. Part(s, cut, n) = Slice(s, a, cut[n])
  BY <1>2 DEF Part, Slice
<1>7. ValueSized(types[n], Slice(s, a, cut[n]))
  BY <1>6
<1> QED BY <1>5, <1>7 DEF ReadFrom

(* When all fields are read, all of the data has to be.                    *)
LEMMA AllSized ==
  ASSUME NEW types \in Seq(Byte), NEW s \in Seq(Byte), NEW e \in Nat,
         SizedTo(types, s, Len(types), e), Forced(types, s, Len(types), e)
  PROVE  LayoutSized(types, s) <=> e = Len(s)
<1>1. ASSUME e = Len(s)
      PROVE  LayoutSized(types, s)
  <2>1. PICK cut \in [0 .. Len(types) -> 0 .. e] :
          /\ cut[0] = 0
          /\ cut[Len(types)] = e
          /\ \A i \in 1 .. Len(types) :
               /\ cut[i - 1] <= cut[i]
               /\ ValueSized(types[i], Slice(s, cut[i - 1], cut[i]))
    BY DEF SizedTo
  <2>2. cut \in Cuts(s, Len(types))
    BY <1>1, <2>1 DEF Cuts
  <2>3. \A i \in 1 .. Len(types) :
          Part(s, cut, i) = Slice(s, cut[i - 1], cut[i])
    BY DEF Part, Slice
  <2> QED BY <2>1, <2>2, <2>3 DEF LayoutSized
<1>2. ASSUME LayoutSized(types, s)
      PROVE  e = Len(s)
  <2>1. PICK cut \in Cuts(s, Len(types)) :
          \A i \in 1 .. Len(types) : ValueSized(types[i], Part(s, cut, i))
    BY <1>2 DEF LayoutSized
  <2>2. cut[Len(types)] = Len(s)
    BY DEF Cuts
  <2>3. cut[Len(types)] = e
    BY <2>1 DEF Forced
  <2> QED BY <2>2, <2>3
<1> QED BY <1>1, <1>2

-----------------------------------------------------------------------------
(* What one iteration of the loop reads is the only value there is.        *)

LEMMA FixedRead ==
  ASSUME NEW s \in Seq(Byte), NEW a \in 0 .. Len(s), NEW type \in 0 .. 11
  PROVE  ReadFrom(type, s, a, a + ElementSize[type + 1])
<1> DEFINE b == a + ElementSize[type + 1]
<1>1. a \in Nat /\ Len(s) \in Nat
  OBVIOUS
<1>2. b \in Nat /\ a <= b
  <2>1. ElementSize[type + 1] \in Nat
    BY SizeType
  <2> QED BY <1>1, <2>1
<1>3. \A e \in a .. Len(s) : ValueSized(type, Slice(s, a, e)) <=> e = b
  <2> TAKE e \in a .. Len(s)
  <2>1. e \in Nat /\ a <= e /\ e <= Len(s)
    BY <1>1
  <2> QED BY <1>1, <2>1, FixedSlice
<1> HIDE DEF b
<1>4. b <= Len(s) => b \in a .. Len(s)
  BY <1>1, <1>2
<1>5. ReadFrom(type, s, a, b)
  BY <1>2, <1>3, <1>4 DEF ReadFrom
<1> QED BY <1>5 DEF b

LEMMA VecRead ==
  ASSUME NEW s \in Seq(Byte), NEW a \in 0 .. Len(s), NEW type \in 12 .. 24,
         a + 4 <= Len(s)
  PROVE  ReadFrom(type, s, a, a + (4 + U32At(s, a) * VecElementSize(type)))
<1> DEFINE n == U32At(s, a) * VecElementSize(type)
           b == a + (4 + n)
<1>1. a \in Nat /\ Len(s) \in Nat
  OBVIOUS
<1>2. n \in Nat
  <2>1. U32At(s, a) \in Nat /\ VecElementSize(type) \in Nat
    BY <1>1, PrefixOfBytes, SizeType
  <2> QED BY <2>1
<1>3. \A e \in a .. Len(s) :
        ValueSized(type, Slice(s, a, e)) <=> a + 4 <= e /\ e = b
  <2> TAKE e \in a .. Len(s)
  <2>1. e \in Nat /\ a <= e /\ e <= Len(s)
    BY <1>1
  <2> QED BY <1>1, <2>1, VecSlice
<1> HIDE DEF n
<1>4. b \in Nat /\ a <= b /\ a + 4 <= b
  BY <1>1, <1>2
<1> HIDE DEF b
<1>5. b <= Len(s) => b \in a .. Len(s)
  BY <1>1, <1>4
<1>6. ReadFrom(type, s, a, b)
  BY <1>3, <1>4, <1>5 DEF ReadFrom
<1> QED BY <1>6 DEF b, n

(* No string and no vector ends before its prefix does.                    *)
LEMMA NoPrefixNoValue ==
  ASSUME NEW s \in Seq(Byte), NEW a \in 0 .. Len(s), NEW type \in 12 .. 25,
         ~(a + 4 <= Len(s))
  PROVE  \A e \in a .. Len(s) : ~ValueSized(type, Slice(s, a, e))
<1> SUFFICES ASSUME NEW e \in a .. Len(s), ValueSized(type, Slice(s, a, e))
             PROVE  FALSE
  OBVIOUS
<1>1. a \in Nat /\ Len(s) \in Nat /\ e \in Nat /\ a <= e /\ e <= Len(s)
  OBVIOUS
<1>2. ~(a + 4 <= e)
  BY <1>1
<1>3. CASE type \in 12 .. 24
  BY <1>1, <1>2, <1>3, VecSlice
<1>4. CASE type = 25
  BY <1>1, <1>2, <1>4, StringsSlice DEF StringsFrom
<1> QED BY <1>3, <1>4

LEMMA NoValueOfUnknownType ==
  ASSUME NEW bytes, NEW type \in Byte, type \notin 0 .. 25
  PROVE  ~ValueSized(type, bytes)
<1>1. /\ type \notin 0 .. 11 /\ type # 12 /\ type \notin 13 .. 24
      /\ type # 25
  BY DEF Byte
<1> QED BY ONLY <1>1, Zenon DEF ValueSized

(* Inside the loop over the strings of a Vec<String> at a: n of them end   *)
(* at o, and no other way to read them does not.                           *)
StringsSoFar(s, a, n, o) ==
  /\ a + 4 <= Len(s)
  /\ n \in 0 .. U32At(s, a)
  /\ o >= a + 4 + 4 * n
  /\ o <= Len(s) => \E cut : Strings(s, cut, n, a + 4, o)
  /\ \A e \in a .. Len(s) :
       \A cut : Strings(s, cut, U32At(s, a), a + 4, e) => cut[n] = o

LEMMA NoStringsYet ==
  ASSUME NEW s \in Seq(Byte), NEW a \in 0 .. Len(s), a + 4 <= Len(s)
  PROVE  StringsSoFar(s, a, 0, a + 4)
<1>1. a \in Nat /\ U32At(s, a) \in Nat
  BY PrefixOfBytes
<1> DEFINE cut == [i \in 0 .. 0 |-> a + 4]
<1>2. Strings(s, cut, 0, a + 4, a + 4)
  <2>1. cut \in [0 .. 0 -> a + 4 .. a + 4] /\ cut[0] = a + 4
    BY <1>1
  <2>2. 1 .. 0 = {}
    OBVIOUS
  <2> QED BY <2>1, <2>2 DEF Strings
<1> HIDE DEF cut
<1>3. 0 \in 0 .. U32At(s, a) /\ a + 4 >= a + 4 + 4 * 0
  BY <1>1
<1>4. \A e : \A c : Strings(s, c, U32At(s, a), a + 4, e) => c[0] = a + 4
  BY DEF Strings
<1> QED BY <1>2, <1>3, <1>4 DEF StringsSoFar

LEMMA OneStringMoreRead ==
  ASSUME NEW s \in Seq(Byte), NEW a \in 0 .. Len(s), NEW n \in Nat,
         NEW o \in Nat, StringsSoFar(s, a, n, o), n < U32At(s, a),
         o + 4 <= Len(s)
  PROVE  StringsSoFar(s, a, n + 1, o + (4 + U32At(s, o)))
<1> DEFINE count == U32At(s, a)
           p == o + (4 + U32At(s, o))
<1>1. a \in Nat /\ Len(s) \in Nat /\ count \in Nat /\ U32At(s, o) \in Nat
  BY PrefixOfBytes DEF StringsSoFar
<1>2. /\ p \in Nat /\ o <= p /\ o + 4 <= p /\ p = o + 4 + U32At(s, o)
  BY <1>1
<1>3. /\ a + 4 <= Len(s) /\ o >= a + 4 + 4 * n /\ o <= Len(s)
  BY <1>1 DEF StringsSoFar
<1>4. PICK old : Strings(s, old, n, a + 4, o)
  BY <1>3 DEF StringsSoFar
<1>5. /\ old \in [0 .. n -> a + 4 .. o] /\ old[0] = a + 4 /\ old[n] = o
      /\ \A i \in 1 .. n : StringFrom(s, old[i - 1], old[i])
  BY <1>4 DEF Strings
<1>6. StringFrom(s, o, p)
  BY <1>2 DEF StringFrom
<1>7. n \in 0 .. count /\ n + 1 \in 0 .. count /\ n + 1 \in 1 .. count
  BY <1>1
<1>8. \A e \in a .. Len(s) :
        \A c : Strings(s, c, count, a + 4, e) => c[n + 1] = p
  <2> TAKE e \in a .. Len(s)
  <2> SUFFICES ASSUME NEW c, Strings(s, c, count, a + 4, e)
               PROVE  c[n + 1] = p
    OBVIOUS
  <2>1. c[n] = o
    BY DEF StringsSoFar
  <2>2. StringFrom(s, c[n + 1 - 1], c[n + 1])
    BY <1>7 DEF Strings
  <2>3. n + 1 - 1 = n
    OBVIOUS
  <2>4. StringFrom(s, o, c[n + 1])
    BY <2>1, <2>2, <2>3
  <2> QED BY <1>2, <2>4 DEF StringFrom
<1> HIDE DEF p, count
<1> DEFINE cut == [i \in 0 .. n + 1 |-> IF i = n + 1 THEN p ELSE old[i]]
<1>9. cut \in [0 .. n + 1 -> a + 4 .. p]
  <2>1. \A i \in 0 .. n + 1 : i # n + 1 => i \in 0 .. n
    OBVIOUS
  <2>2. \A i \in 0 .. n : old[i] \in a + 4 .. p
    <3>1. \A x \in a + 4 .. o : x \in a + 4 .. p
      BY <1>1, <1>2
    <3> QED BY <1>5, <3>1
  <2>3. p \in a + 4 .. p
    BY <1>1, <1>2, <1>3
  <2> QED BY <2>1, <2>2, <2>3
<1>10. cut[n + 1] = p /\ \A i \in 0 .. n : cut[i] = old[i]
  OBVIOUS
<1> HIDE DEF cut
<1>11. ASSUME NEW i \in 1 .. n + 1
       PROVE  StringFrom(s, cut[i - 1], cut[i])
  <2>1. CASE i = n + 1
    <3>1. cut[i - 1] = o /\ cut[i] = p
      BY <1>5, <1>10, <2>1
    <3> QED BY <1>6, <3>1
  <2>2. CASE i # n + 1
    <3>1. i \in 1 .. n /\ i \in 0 .. n /\ i - 1 \in 0 .. n
      BY <2>2
    <3> QED BY <1>5, <1>10, <3>1
  <2> QED BY <2>1, <2>2
<1>12. cut[0] = a + 4
  BY <1>5, <1>10
<1>13. Strings(s, cut, n + 1, a + 4, p)
  BY <1>9, <1>10, <1>11, <1>12 DEF Strings
<1>14. p >= a + 4 + 4 * (n + 1)
  BY <1>1, <1>2, <1>3
<1>15. StringsSoFar(s, a, n + 1, p)
  BY <1>3, <1>7, <1>8, <1>13, <1>14 DEF StringsSoFar, count
<1> QED BY <1>15 DEF p

LEMMA NoStringNoValue ==
  ASSUME NEW s \in Seq(Byte), NEW a \in 0 .. Len(s), NEW n \in Nat,
         NEW o \in Nat, StringsSoFar(s, a, n, o), n < U32At(s, a),
         ~(o + 4 <= Len(s))
  PROVE  \A e \in a .. Len(s) : ~ValueSized(25, Slice(s, a, e))
<1> SUFFICES ASSUME NEW e \in a .. Len(s), ValueSized(25, Slice(s, a, e))
             PROVE  FALSE
  OBVIOUS
<1> DEFINE count == U32At(s, a)
<1>1. a \in Nat /\ Len(s) \in Nat /\ e \in Nat /\ a <= e /\ e <= Len(s)
  OBVIOUS
<1>2. count \in Nat
  BY <1>1, PrefixOfBytes DEF StringsSoFar
<1>3. PICK c : Strings(s, c, count, a + 4, e)
  <2>1. StringsFrom(s, a, e)
    BY <1>1, StringsSlice
  <2> QED BY <2>1 DEF StringsFrom
<1>4. c[n] = o
  BY <1>3 DEF StringsSoFar
<1>5. n + 1 \in 1 .. count /\ n + 1 \in 0 .. count /\ n + 1 - 1 = n
  BY <1>2
<1>6. StringFrom(s, o, c[n + 1]) /\ c[n + 1] \in a + 4 .. e
  BY <1>3, <1>4, <1>5 DEF Strings
<1>7. o + 4 <= c[n + 1] /\ c[n + 1] <= e
  BY <1>1, <1>6 DEF StringFrom
<1>8. c[n + 1] \in Nat
  BY <1>1, <1>6
<1> QED BY <1>1, <1>7, <1>8

LEMMA AllStringsRead ==
  ASSUME NEW s \in Seq(Byte), NEW a \in 0 .. Len(s), NEW o \in Nat,
         StringsSoFar(s, a, U32At(s, a), o)
  PROVE  ReadFrom(25, s, a, o)
<1> DEFINE count == U32At(s, a)
<1>1. a \in Nat /\ Len(s) \in Nat /\ count \in Nat
  BY PrefixOfBytes DEF StringsSoFar
<1>2. o >= a + 4 + 4 * count
  BY DEF StringsSoFar
<1>3. a + 4 <= o /\ a + 4 + 4 * count <= o /\ a <= o
  <2> HIDE DEF count
  <2> QED BY <1>1, <1>2
<1>4. ASSUME o <= Len(s)
      PROVE  ValueSized(25, Slice(s, a, o))
  <2>1. StringsFrom(s, a, o)
    BY <1>3, <1>4 DEF StringsFrom, StringsSoFar
  <2> QED BY <1>1, <1>4, <2>1, SliceStrings
<1>5. ASSUME NEW e \in a .. Len(s), ValueSized(25, Slice(s, a, e))
      PROVE  e = o
  <2>1. e \in Nat /\ a <= e /\ e <= Len(s)
    BY <1>1
  <2>2. StringsFrom(s, a, e)
    BY <1>1, <1>5, <2>1, StringsSlice
  <2>3. PICK c : Strings(s, c, count, a + 4, e)
    BY <2>2 DEF StringsFrom
  <2>4. c[count] = e
    BY <2>3 DEF Strings
  <2>5. c[count] = o
    BY <2>3 DEF StringsSoFar
  <2> QED BY <2>4, <2>5
<1> QED BY <1>3, <1>4, <1>5 DEF ReadFrom

-----------------------------------------------------------------------------
(* The invariant of the loops: where an iteration began (data_offset when  *)
(* the field was taken up) is an offset in the data up to which the fields *)
(* before it have their sizes, cut in no other way; at the end of the loops*)
(* their verdict is the right one.                                         *)

BeganAt(start) ==
  /\ start \in 0 .. Len(data)
  /\ SizedTo(layout, data, field - 1, start)
  /\ Forced(layout, data, field - 1, start)

AtField ==
  pc = "field" => field \in 1 .. Len(layout) + 1 /\ BeganAt(offset)

AtCheck ==
  pc = "check" =>
    /\ field \in 1 .. Len(layout)
    /\ \E start \in 0 .. Len(data) :
         /\ BeganAt(start)
         /\ ReadFrom(layout[field], data, start, offset)

AtStrings ==
  pc = "strings" =>
    /\ field \in 1 .. Len(layout)
    /\ layout[field] = 25
    /\ \E start \in 0 .. Len(data) :
         /\ BeganAt(start)
         /\ strings <= U32At(data, start)
         /\ StringsSoFar(data, start, U32At(data, start) - strings, offset)

AtEnd ==
  /\ pc = "done" <=> result # "running"
  /\ pc = "done" => (result = "ok" <=> LayoutSized(layout, data))

Reading ==
  /\ IInv
  /\ AtField
  /\ AtCheck
  /\ AtStrings
  /\ AtEnd

LEMMA InitReading ==
  ASSUME Entered
  PROVE  Reading
<1>1. IInv
  BY InitIInv
<1>2. pc = "field" /\ field = 1 /\ offset = 0 /\ result = "running"
  BY DEF Entered, Enter
<1>3. layout \in Seq(Byte) /\ data \in Seq(Byte)
  BY <1>1 DEF IInv, TypeOK, Byte
<1>4. Len(layout) \in Nat /\ Len(data) \in Nat
  BY <1>3
<1>5. SizedTo(layout, data, 0, 0)
  <2> DEFINE cut == [i \in 0 .. 0 |-> 0]
  <2>1. cut \in [0 .. 0 -> 0 .. 0] /\ cut[0] = 0
    OBVIOUS
  <2>2. 1 .. 0 = {}
    OBVIOUS
  <2> HIDE DEF cut
  <2> QED BY <2>1, <2>2 DEF SizedTo
<1>6. Forced(layout, data, 0, 0)
  BY DEF Forced, Cuts
<1>7. AtField
  <2>1. field \in 1 .. Len(layout) + 1 /\ field - 1 = 0
    BY <1>2, <1>4
  <2>2. offset \in 0 .. Len(data)
    BY <1>2, <1>4
  <2> QED BY <1>2, <1>5, <1>6, <2>1, <2>2 DEF AtField, BeganAt
<1>8. AtCheck /\ AtStrings /\ AtEnd
  BY <1>2 DEF AtCheck, AtStrings, AtEnd
<1> QED BY <1>1, <1>7, <1>8 DEF Reading

(* An iteration whose field has no value ends the loop.                    *)
LEMMA StopReading ==
  ASSUME Reading, IInv', pc # "done",
         NEW verdict \in {"InvalidAttestationData", "panic"}, Stop(verdict),
         ~LayoutSized(layout, data)
  PROVE  Reading'
<1>1. pc' = "done" /\ result' = verdict /\ layout' = layout /\ data' = data
  BY DEF Stop
<1>2. AtField' /\ AtCheck' /\ AtStrings'
  BY <1>1 DEF AtField, AtCheck, AtStrings
<1>3. AtEnd'
  BY <1>1 DEF AtEnd
<1> QED BY <1>2, <1>3 DEF Reading

(* An iteration that has read its field.                                   *)
LEMMA CheckReading ==
  ASSUME Reading, IInv', pc # "done", pc' = "check",
         UNCHANGED <<layout, data, field, result>>,
         field \in 1 .. Len(layout), NEW start \in 0 .. Len(data),
         BeganAt(start),
         ReadFrom(layout[field], data, start, offset')
  PROVE  Reading'
<1>1. AtField' /\ AtStrings'
  BY DEF AtField, AtStrings
<1>2. AtEnd'
  BY DEF AtEnd, Reading
<1>3. AtCheck'
  BY DEF AtCheck, BeganAt
<1> QED BY <1>1, <1>2, <1>3 DEF Reading

LEMMA FieldFacts ==
  ASSUME Reading, pc = "field", field <= Len(layout)
  PROVE  /\ layout \in Seq(Byte) /\ data \in Seq(Byte)
         /\ Len(layout) \in Nat /\ Len(data) \in Nat
         /\ field \in 1 .. Len(layout)
         /\ layout[field] \in Byte
         /\ offset \in 0 .. Len(data)
         /\ BeganAt(offset)
         /\ pc # "done"
<1>1. layout \in Seq(Byte) /\ data \in Seq(Byte)
  BY DEF Reading, IInv, TypeOK, Byte
<1>2. Len(layout) \in Nat /\ Len(data) \in Nat
  BY <1>1
<1>3. field \in 1 .. Len(layout) + 1 /\ BeganAt(offset)
  BY DEF Reading, AtField
<1>4. field \in 1 .. Len(layout)
  BY <1>2, <1>3
<1>5. layout[field] \in Byte
  BY <1>1, <1>4, ElementOfSeq
<1>6. offset \in 0 .. Len(data)
  BY <1>3 DEF BeganAt
<1> QED BY <1>1, <1>2, <1>3, <1>4, <1>5, <1>6

(* A field for which the data has no value at the offset.                  *)
LEMMA RefusedField ==
  ASSUME Reading, IInv', pc = "field", field <= Len(layout), Stop("panic"),
         \A e \in offset .. Len(data) :
           ~ValueSized(layout[field], Slice(data, offset, e))
  PROVE  Reading'
<1>1. /\ layout \in Seq(Byte) /\ data \in Seq(Byte)
      /\ field \in 1 .. Len(layout) /\ offset \in 0 .. Len(data)
      /\ BeganAt(offset) /\ pc # "done"
  BY FieldFacts
<1>2. ~LayoutSized(layout, data)
  BY <1>1, NotSized DEF BeganAt
<1> QED BY <1>1, <1>2, StopReading

LEMMA ReadFixedReading ==
  ASSUME Reading, IInv', ReadFixed
  PROVE  Reading'
<1>1. /\ pc = "field" /\ field <= Len(layout) /\ layout[field] \in 0 .. 11
      /\ offset' = offset + ElementSize[layout[field] + 1]
      /\ pc' = "check"
      /\ UNCHANGED <<layout, data, field, result>>
  BY DEF ReadFixed, Type
<1>2. /\ data \in Seq(Byte) /\ field \in 1 .. Len(layout)
      /\ offset \in 0 .. Len(data) /\ BeganAt(offset) /\ pc # "done"
  BY <1>1, FieldFacts
<1>3. ReadFrom(layout[field], data, offset, offset')
  BY <1>1, <1>2, FixedRead
<1> QED BY <1>1, <1>2, <1>3, CheckReading

LEMMA ReadVecReading ==
  ASSUME Reading, IInv', ReadVec
  PROVE  Reading'
<1>1. pc = "field" /\ field <= Len(layout) /\ layout[field] \in 12 .. 24
  BY DEF ReadVec, Type
<1>2. /\ data \in Seq(Byte) /\ field \in 1 .. Len(layout)
      /\ offset \in 0 .. Len(data) /\ BeganAt(offset) /\ pc # "done"
  BY <1>1, FieldFacts
<1>3. CASE PrefixAtEnd /\ Stop("panic")
  <2>1. ~(offset + 4 <= Len(data))
    BY <1>3 DEF PrefixAtEnd, CanReadU32
  <2>2. layout[field] \in 12 .. 25
    BY <1>1
  <2>3. \A e \in offset .. Len(data) :
          ~ValueSized(layout[field], Slice(data, offset, e))
    BY <1>2, <2>1, <2>2, NoPrefixNoValue
  <2> QED BY <1>1, <1>3, <2>3, RefusedField
<1>4. CASE ~PrefixAtEnd
  <2>1. offset + 4 <= Len(data)
    BY <1>4 DEF PrefixAtEnd, CanReadU32
  <2>2. /\ offset' = offset + VecSize(VecElementSize(layout[field]))
        /\ pc' = "check"
        /\ UNCHANGED <<layout, data, field, result>>
    BY <1>4 DEF ReadVec, Type
  <2>3. ReadFrom(layout[field], data, offset, offset')
    BY <1>1, <1>2, <2>1, <2>2, VecRead DEF VecSize
  <2> QED BY <1>2, <2>2, <2>3, CheckReading
<1> QED BY <1>3, <1>4 DEF ReadVec

LEMMA ReadCountReading ==
  ASSUME Reading, IInv', ReadCount
  PROVE  Reading'
<1>1. pc = "field" /\ field <= Len(layout) /\ layout[field] = 25
  BY DEF ReadCount, Type
<1>2. /\ data \in Seq(Byte) /\ field \in 1 .. Len(layout)
      /\ offset \in 0 .. Len(data) /\ BeganAt(offset) /\ pc # "done"
  BY <1>1, FieldFacts
<1>3. CASE PrefixAtEnd /\ Stop("panic")
  <2>1. ~(offset + 4 <= Len(data))
    BY <1>3 DEF PrefixAtEnd, CanReadU32
  <2>2. layout[field] \in 12 .. 25
    BY <1>1
  <2>3. \A e \in offset .. Len(data) :
          ~ValueSized(layout[field], Slice(data, offset, e))
    BY <1>2, <2>1, <2>2, NoPrefixNoValue
  <2> QED BY <1>1, <1>3, <2>3, RefusedField
<1>4. CASE ~PrefixAtEnd
  <2>1. offset + 4 <= Len(data) /\ offset \in Nat
    BY <1>2, <1>4 DEF PrefixAtEnd, CanReadU32
  <2>2. /\ strings' = U32At(data, offset)
        /\ offset' = offset + 4
        /\ pc' = "strings"
        /\ UNCHANGED <<layout, data, field, result>>
    BY <1>4 DEF ReadCount
  <2>3. U32At(data, offset) \in Nat
    BY <1>2, <2>1, PrefixOfBytes
  <2>4. StringsSoFar(data, offset, 0, offset + 4)
    BY <1>2, <2>1, NoStringsYet
  <2>5. /\ strings' <= U32At(data, offset)
        /\ U32At(data, offset) - strings' = 0
    BY <2>2, <2>3
  <2>6. AtStrings'
    BY <1>1, <1>2, <2>2, <2>4, <2>5 DEF AtStrings, BeganAt
  <2>7. AtField' /\ AtCheck'
    BY <2>2 DEF AtField, AtCheck
  <2>8. AtEnd'
    BY <1>2, <2>2 DEF AtEnd, Reading
  <2> QED BY <2>6, <2>7, <2>8 DEF Reading
<1> QED BY <1>3, <1>4 DEF ReadCount

LEMMA StringsFacts ==
  ASSUME Reading, pc = "strings"
  PROVE  /\ layout \in Seq(Byte) /\ data \in Seq(Byte)
         /\ field \in 1 .. Len(layout)
         /\ layout[field] = 25
         /\ offset \in Nat
         /\ strings \in Nat
         /\ pc # "done"
<1>1. layout \in Seq(Byte) /\ data \in Seq(Byte)
  BY DEF Reading, IInv, TypeOK, Byte
<1>2. offset \in Nat /\ strings \in Nat
  BY DEF Reading, IInv, TypeOK
<1>3. field \in 1 .. Len(layout) /\ layout[field] = 25
  BY DEF Reading, AtStrings
<1> QED BY <1>1, <1>2, <1>3

LEMMA ReadStringReading ==
  ASSUME Reading, IInv', ReadString
  PROVE  Reading'
<1>1. pc = "strings" /\ strings > 0
  BY DEF ReadString, MoreStrings
<1>2. /\ layout \in Seq(Byte) /\ data \in Seq(Byte)
      /\ field \in 1 .. Len(layout) /\ layout[field] = 25
      /\ offset \in Nat /\ strings \in Nat /\ pc # "done"
  BY <1>1, StringsFacts
<1>3. PICK start \in 0 .. Len(data) :
        /\ BeganAt(start)
        /\ strings <= U32At(data, start)
        /\ StringsSoFar(data, start, U32At(data, start) - strings, offset)
  BY <1>1 DEF Reading, AtStrings
<1> DEFINE count == U32At(data, start)
           n == count - strings
<1>4. count \in Nat
  <2>1. start + 4 <= Len(data) /\ start \in Nat
    BY <1>3 DEF StringsSoFar
  <2> QED BY <1>2, <2>1, PrefixOfBytes
<1>5. n \in Nat /\ n < count
  BY <1>1, <1>2, <1>3, <1>4
<1> HIDE DEF n, count
<1>6. StringsSoFar(data, start, n, offset) /\ n < U32At(data, start)
  BY <1>3, <1>5 DEF n, count
<1>7. CASE PrefixAtEnd /\ Stop("panic")
  <2>1. ~(offset + 4 <= Len(data))
    BY <1>7 DEF PrefixAtEnd, CanReadU32
  <2>2. \A e \in start .. Len(data) :
          ~ValueSized(layout[field], Slice(data, start, e))
    BY <1>2, <1>5, <1>6, <2>1, NoStringNoValue
  <2>3. ~LayoutSized(layout, data)
    BY <1>2, <1>3, <2>2, NotSized DEF BeganAt
  <2> QED BY <1>2, <1>7, <2>3, StopReading
<1>8. CASE ~PrefixAtEnd
  <2>1. offset + 4 <= Len(data)
    BY <1>8 DEF PrefixAtEnd, CanReadU32
  <2>2. /\ offset' = offset + VecSize(1)
        /\ strings' = strings - 1
        /\ UNCHANGED <<layout, data, pc, field, result>>
    BY <1>8 DEF ReadString
  <2>3. offset' = offset + (4 + U32At(data, offset))
    <3>1. U32At(data, offset) \in Nat
      BY <1>2, <2>1, PrefixOfBytes
    <3>2. VecSize(1) = 4 + U32At(data, offset)
      BY <3>1 DEF VecSize
    <3> QED BY <2>2, <3>2
  <2>4. StringsSoFar(data, start, n + 1, offset')
    BY <1>2, <1>5, <1>6, <2>1, <2>3, OneStringMoreRead
  <2>5. /\ strings' <= U32At(data, start)
        /\ U32At(data, start) - strings' = n + 1
    BY <1>2, <1>4, <1>5, <2>2 DEF n, count
  <2>6. AtStrings'
    BY <1>2, <1>3, <2>2, <2>4, <2>5 DEF AtStrings, BeganAt
  <2>7. AtField' /\ AtCheck'
    BY <1>1, <2>2 DEF AtField, AtCheck
  <2>8. AtEnd'
    BY <1>2, <2>2 DEF AtEnd, Reading
  <2> QED BY <2>6, <2>7, <2>8 DEF Reading
<1> QED BY <1>7, <1>8 DEF ReadString

LEMMA StringsReadReading ==
  ASSUME Reading, IInv', StringsRead
  PROVE  Reading'
<1>1. /\ pc = "strings" /\ ~(strings > 0) /\ pc' = "check"
      /\ UNCHANGED <<layout, data, field, offset, result>>
  BY DEF StringsRead, MoreStrings
<1>2. /\ data \in Seq(Byte)
      /\ field \in 1 .. Len(layout) /\ layout[field] = 25
      /\ offset \in Nat /\ strings \in Nat /\ pc # "done"
  BY <1>1, StringsFacts
<1>3. PICK start \in 0 .. Len(data) :
        /\ BeganAt(start)
        /\ strings <= U32At(data, start)
        /\ StringsSoFar(data, start, U32At(data, start) - strings, offset)
  BY <1>1 DEF Reading, AtStrings
<1>4. U32At(data, start) \in Nat
  <2>1. start + 4 <= Len(data) /\ start \in Nat
    BY <1>3 DEF StringsSoFar
  <2> QED BY <1>2, <2>1, PrefixOfBytes
<1>5. U32At(data, start) - strings = U32At(data, start)
  BY <1>1, <1>2, <1>4
<1>6. ReadFrom(layout[field], data, start, offset')
  BY <1>1, <1>2, <1>3, <1>5, AllStringsRead
<1> QED BY <1>1, <1>2, <1>3, <1>6, CheckReading

LEMMA UnknownTypeReading ==
  ASSUME Reading, IInv', UnknownType
  PROVE  Reading'
<1>1. /\ pc = "field" /\ field <= Len(layout)
      /\ layout[field] \notin 0 .. 25 /\ Stop("panic")
  BY DEF UnknownType, Type
<1>2. layout[field] \in Byte
  BY <1>1, FieldFacts
<1> QED BY <1>1, <1>2, NoValueOfUnknownType, RefusedField

LEMMA CheckOffsetReading ==
  ASSUME Reading, IInv', CheckOffset
  PROVE  Reading'
<1>1. pc = "check" /\ pc # "done"
  BY DEF CheckOffset
<1>2. /\ layout \in Seq(Byte) /\ data \in Seq(Byte)
      /\ Len(layout) \in Nat /\ Len(data) \in Nat /\ offset \in Nat
  <2>1. layout \in Seq(Byte) /\ data \in Seq(Byte)
    BY DEF Reading, IInv, TypeOK, Byte
  <2> QED BY <2>1 DEF Reading, IInv, TypeOK
<1>3. field \in 1 .. Len(layout)
  BY <1>1 DEF Reading, AtCheck
<1>4. PICK start \in 0 .. Len(data) :
        /\ BeganAt(start)
        /\ ReadFrom(layout[field], data, start, offset)
  BY <1>1 DEF Reading, AtCheck
<1>5. Forced(layout, data, field, offset)
  BY <1>2, <1>3, <1>4, FieldForced DEF BeganAt
<1>6. CASE OffsetPastEnd /\ Stop("InvalidAttestationData")
  <2>1. ASSUME NEW e \in start .. Len(data),
               ValueSized(layout[field], Slice(data, start, e))
        PROVE  FALSE
    <3>1. e = offset
      BY <1>4, <2>1 DEF ReadFrom
    <3> QED BY <1>2, <1>6, <3>1 DEF OffsetPastEnd
  <2>2. ~LayoutSized(layout, data)
    BY <1>2, <1>3, <1>4, <2>1, NotSized DEF BeganAt
  <2> QED BY <1>1, <1>6, <2>2, StopReading
<1>7. CASE ~OffsetPastEnd
  <2>1. offset <= Len(data)
    BY <1>2, <1>7 DEF OffsetPastEnd
  <2>2. /\ field' = field + 1
        /\ pc' = "field"
        /\ UNCHANGED <<layout, data, offset, result>>
    BY <1>7 DEF CheckOffset
  <2>3. SizedTo(layout, data, field, offset)
    BY <1>2, <1>3, <1>4, <2>1, FieldSized DEF BeganAt
  <2>4. field' - 1 = field /\ field' \in 1 .. Len(layout) + 1
    BY <1>2, <1>3, <2>2
  <2>5. offset \in 0 .. Len(data)
    BY <1>2, <2>1
  <2>6. AtField'
    BY <1>5, <2>2, <2>3, <2>4, <2>5 DEF AtField, BeganAt
  <2>7. AtCheck' /\ AtStrings'
    BY <2>2 DEF AtCheck, AtStrings
  <2>8. AtEnd'
    BY <1>1, <2>2 DEF AtEnd, Reading
  <2> QED BY <2>6, <2>7, <2>8 DEF Reading
<1> QED BY <1>6, <1>7 DEF CheckOffset

LEMMA ReturnReading ==
  ASSUME Reading, IInv', Return
  PROVE  Reading'
<1>1. /\ pc = "field" /\ field > Len(layout)
      /\ Stop(IF offset = Len(data) THEN "ok" ELSE "InvalidAttestationData")
  BY DEF Return
<1>2. /\ layout \in Seq(Byte) /\ data \in Seq(Byte)
      /\ Len(layout) \in Nat /\ offset \in Nat
  <2>1. layout \in Seq(Byte) /\ data \in Seq(Byte)
    BY DEF Reading, IInv, TypeOK, Byte
  <2> QED BY <2>1 DEF Reading, IInv, TypeOK
<1>3. field \in 1 .. Len(layout) + 1 /\ BeganAt(offset)
  BY <1>1 DEF Reading, AtField
<1>4. field - 1 = Len(layout)
  BY <1>1, <1>2, <1>3
<1>5. LayoutSized(layout, data) <=> offset = Len(data)
  BY <1>2, <1>3, <1>4, AllSized DEF BeganAt
<1>6. /\ pc' = "done" /\ layout' = layout /\ data' = data
      /\ result' = IF offset = Len(data) THEN "ok"
                                         ELSE "InvalidAttestationData"
  BY <1>1 DEF Stop
<1>7. AtField' /\ AtCheck' /\ AtStrings'
  BY <1>6 DEF AtField, AtCheck, AtStrings
<1>8. AtEnd'
  BY <1>5, <1>6 DEF AtEnd
<1> QED BY <1>7, <1>8 DEF Reading

LEMMA NextReading ==
  ASSUME Reading, [Next]_vars
  PROVE  Reading'
<1>1. IInv'
  BY NextIInv DEF Reading
<1>2. CASE UNCHANGED vars
  BY <1>1, <1>2 DEF vars, Reading, AtField, AtCheck, AtStrings, AtEnd, BeganAt
<1>3. CASE Next
  BY <1>1, <1>3, ReadFixedReading, ReadVecReading, ReadCountReading,
     ReadStringReading, StringsReadReading, UnknownTypeReading,
     CheckOffsetReading, ReturnReading DEF Next
<1> QED BY <1>2, <1>3

LEMMA ReadingHolds == Spec => []Reading
<1>1. Init => Reading
  BY InitEntered, InitReading
<1>2. Reading /\ [Next]_vars => Reading'
  BY NextReading
<1> QED BY <1>1, <1>2, PTL DEF Spec

(* For every layout and all data: validate_data returns Ok exactly when    *)
(* the data can be cut into one part of the right size for each field of   *)
(* the layout, one after the other and nothing else. What lies in those    *)
(* parts makes no difference to it.                                        *)
THEOREM AcceptanceIsBySizes == Spec => []AcceptsBySizes
<1>1. Reading => AcceptsBySizes
  BY DEF Reading, AtEnd, AcceptsBySizes
<1> QED BY <1>1, ReadingHolds, PTL

(* In particular validate_data never refuses, and never panics on, data    *)
(* that does encode a value of its type for each field.                    *)
EncodingAccepted ==
  IsEncoding(layout, data) /\ result # "running" => result = "ok"

THEOREM EncodingsNeverRefused == Spec => []EncodingAccepted
<1>1. ASSUME NEW types, NEW bytes, IsEncoding(types, bytes)
      PROVE  LayoutSized(types, bytes)
  BY <1>1 DEF IsEncoding, LayoutSized, IsValue
<1>2. AcceptsBySizes => EncodingAccepted
  BY <1>1 DEF AcceptsBySizes, EncodingAccepted
<1> QED BY <1>2, AcceptanceIsBySizes, PTL

(* But it accepts more, although state/attestation.rs:24 says of the data  *)
(* "Data that was verified and matches the Schema": any byte will do for a *)
(* bool, and all but two of them encode none.                              *)
OneBool == layout = <<10>> /\ Len(data) = 1
AnyByteIsABool ==
  OneBool /\ result # "running" =>
    result = "ok" /\ (IsEncoding(layout, data) <=> data[1] \in {0, 1})

THEOREM BoolsAreNotLookedAt == Spec => []AnyByteIsABool
<1>1. ASSUME TypeOK, AcceptsBySizes, OneBool, result # "running"
      PROVE  result = "ok" /\ (IsEncoding(layout, data) <=> data[1] \in {0, 1})
  <2>1. /\ Len(layout) = 1 /\ layout[1] = 10
        /\ data \in Seq(0 .. 255)
    BY <1>1 DEF TypeOK, OneBool
  <2>2. ASSUME NEW cut \in Cuts(data, 1)
        PROVE  /\ Part(data, cut, 1) = SubSeq(data, 1, 1)
               /\ ValueSized(10, Part(data, cut, 1))
               /\ IsValue(10, Part(data, cut, 1)) <=> data[1] \in {0, 1}
    <3>1. cut[0] = 0 /\ cut[1] = 1
      BY <1>1 DEF Cuts, OneBool
    <3>2. Part(data, cut, 1) = SubSeq(data, 1, 1)
      BY <3>1 DEF Part
    <3>3. /\ Len(SubSeq(data, 1, 1)) = 1
          /\ SubSeq(data, 1, 1)[1] = data[1]
      BY <1>1, <2>1 DEF OneBool
    <3>4. ValueSized(10, SubSeq(data, 1, 1))
      BY <3>3 DEF ValueSized, ElementSize
    <3> DEFINE part == SubSeq(data, 1, 1)
    <3>5. IsValue(10, part) <=> part[1] \in {0, 1}
      <4> HIDE DEF part
      <4>1. ValueSized(10, part)
        BY <3>4 DEF part
      <4> QED BY <4>1 DEF IsValue
    <3> QED BY <3>2, <3>3, <3>4, <3>5
  <2>3. [i \in 0 .. 1 |-> i] \in Cuts(data, 1)
    BY <1>1 DEF Cuts, OneBool
  <2>4. LayoutSized(layout, data)
    BY <2>1, <2>2, <2>3 DEF LayoutSized
  <2>5. IsEncoding(layout, data) <=> data[1] \in {0, 1}
    BY <2>1, <2>2, <2>3 DEF IsEncoding
  <2> QED BY <1>1, <2>4, <2>5 DEF AcceptsBySizes
<1>2. TypeOK /\ AcceptsBySizes => AnyByteIsABool
  BY <1>1 DEF AnyByteIsABool
<1> QED BY <1>2, TypesCorrect, AcceptanceIsBySizes, PTL

-----------------------------------------------------------------------------
(* ValidateData, the verdict in one expression, which the instructions     *)
(* use: its offsets are those of the loops.                                *)

(* A value of the variable offset, or Panic.                               *)
Offset == Nat \cup {Panic}

LEMMA PanicIsNoOffset == Panic \notin Nat /\ Panic \in Offset
BY DEF Panic, Offset

LEMMA VecEndType ==
  ASSUME NEW s \in Seq(Byte), NEW o \in Nat, NEW size \in Nat
  PROVE  /\ VecEnd(s, o, size) \in Offset
         /\ VecEnd(s, o, size) = Panic <=> ~(o + 4 <= Len(s))
<1>1. CASE o + 4 <= Len(s)
  <2>1. U32At(s, o) \in Nat
    BY <1>1, PrefixOfBytes
  <2> DEFINE n == U32At(s, o) * size
  <2>2. n \in Nat
    BY <2>1
  <2>3. VecEnd(s, o, size) = o + 4 + n
    BY <1>1 DEF VecEnd, CanReadU32
  <2> HIDE DEF n
  <2>4. o + 4 + n \in Nat
    BY <2>2
  <2> QED BY <1>1, <2>3, <2>4, PanicIsNoOffset DEF Offset
<1>2. CASE ~(o + 4 <= Len(s))
  BY <1>2, PanicIsNoOffset DEF VecEnd, CanReadU32
<1> QED BY <1>1, <1>2

(* Where the strings of a Vec<String> end: the first n of them at end[n].  *)
StringEnds(s, a, count, end) ==
  /\ end \in [0 .. count -> Offset]
  /\ end[0] = a + 4
  /\ \A n \in 1 .. count :
       end[n] = IF end[n - 1] = Panic THEN Panic
                ELSE VecEnd(s, end[n - 1], 1)

LEMMA VecStringEndValue ==
  ASSUME NEW s \in Seq(Byte), NEW a \in Nat, a + 4 <= Len(s)
  PROVE  \E end : /\ StringEnds(s, a, U32At(s, a), end)
                  /\ VecStringEnd(s, a) =
                       IF a + 4 + 4 * U32At(s, a) <= Len(s)
                         THEN end[U32At(s, a)] ELSE Panic
<1> DEFINE count == U32At(s, a)
           Step(x) == IF x = Panic THEN Panic ELSE VecEnd(s, x, 1)
           Fun(g) == [n \in 0 .. count |->
                        IF n = 0 THEN a + 4
                        ELSE IF g[n - 1] = Panic THEN Panic
                        ELSE VecEnd(s, g[n - 1], 1)]
           end == CHOOSE g : g = Fun(g)
           step == [n \in 1 .. count |-> [x \in Offset |-> Step(x)]]
<1>1. count \in Nat
  BY PrefixOfBytes
<1> HIDE DEF count
<1>2. \A x \in Offset : Step(x) \in Offset
  BY VecEndType, PanicIsNoOffset DEF Offset
<1>3. step \in [1 .. count -> [Offset -> Offset]]
  BY <1>2
<1>4. a + 4 \in Offset
  BY DEF Offset
<1>5. PICK f \in [0 .. count -> Offset] :
        /\ f[0] = a + 4
        /\ \A n \in 1 .. count : f[n] = step[n][f[n - 1]]
  <2> DEFINE first == a + 4
  <2>1. first \in Offset
    BY <1>4
  <2> HIDE DEF step, first
  <2>2. count \in Nat /\ step \in [1 .. count -> [Offset -> Offset]]
    BY <1>1, <1>3
  <2>3. \E f : Follows(f, Offset, first, count, step)
    BY <2>1, <2>2, Recursion
  <2> QED BY <2>3 DEF first, Follows
<1>6. \A n \in 1 .. count : n - 1 \in 0 .. count /\ n # 0
  BY <1>1
<1>7. \A n \in 1 .. count : f[n] = Step(f[n - 1])
  <2> TAKE n \in 1 .. count
  <2>1. f[n - 1] \in Offset
    BY <1>5, <1>6
  <2>2. step[n][f[n - 1]] = Step(f[n - 1])
    BY <2>1
  <2> QED BY <1>5, <2>2
<1>8. f = Fun(f)
  <2>1. \A n \in 0 .. count : n # 0 => n \in 1 .. count
    BY <1>1
  <2>2. \A n \in 0 .. count : f[n] = Fun(f)[n]
    BY <1>5, <1>7, <2>1
  <2> QED BY <1>5, <2>2
<1> HIDE DEF Fun
<1>9. end = Fun(end)
  BY <1>8
<1> HIDE DEF end
<1>10. end = [n \in 0 .. count |->
                IF n = 0 THEN a + 4
                ELSE IF end[n - 1] = Panic THEN Panic
                ELSE VecEnd(s, end[n - 1], 1)]
  BY <1>9 DEF Fun
<1>11. /\ DOMAIN end = 0 .. count
       /\ end[0] = a + 4
       /\ \A n \in 1 .. count : end[n] = Step(end[n - 1])
  <2>1. 0 \in 0 .. count /\ \A n \in 1 .. count : n \in 0 .. count
    BY <1>1
  <2> QED BY <1>6, <1>10, <2>1
<1>12. \A n \in 0 .. count : end[n] \in Offset
  <2> DEFINE S == {n \in Nat : n <= count => end[n] \in Offset}
  <2>1. 0 \in S
    BY <1>4, <1>11
  <2>2. ASSUME NEW n \in Nat, n \in S
        PROVE  n + 1 \in S
    <3> SUFFICES ASSUME n + 1 <= count
                 PROVE  end[n + 1] \in Offset
      OBVIOUS
    <3>1. n <= count /\ n + 1 \in 1 .. count /\ n + 1 - 1 = n
      BY <1>1
    <3>2. end[n] \in Offset
      BY <2>2, <3>1
    <3>3. end[n + 1] = Step(end[n])
      BY <1>11, <3>1
    <3> HIDE DEF Step
    <3> QED BY <1>2, <3>2, <3>3
  <2> HIDE DEF S
  <2>3. Nat \subseteq S
    BY <2>1, <2>2, Induction
  <2>4. \A n \in 0 .. count : n \in Nat /\ n <= count
    BY <1>1
  <2> QED BY <2>3, <2>4 DEF S
<1>13. end \in [0 .. count -> Offset]
  BY <1>10, <1>12
<1>14. StringEnds(s, a, count, end)
  BY <1>11, <1>13 DEF StringEnds
<1>15. VecStringEnd(s, a) =
         IF a + 4 + 4 * count <= Len(s) THEN end[count] ELSE Panic
  BY DEF VecStringEnd, CanReadU32, count, end, Fun
<1> QED BY <1>14, <1>15 DEF count

(* Once a string has not been read, nothing is.                            *)
LEMMA PanicPersists ==
  ASSUME NEW s \in Seq(Byte), NEW a \in Nat, NEW count \in Nat, NEW end,
         StringEnds(s, a, count, end),
         NEW m \in 0 .. count, end[m] = Panic
  PROVE  end[count] = Panic
<1> DEFINE S == {n \in Nat : m + n <= count => end[m + n] = Panic}
<1>1. 0 \in S
  OBVIOUS
<1>2. ASSUME NEW n \in Nat, n \in S
      PROVE  n + 1 \in S
  <2> SUFFICES ASSUME m + (n + 1) <= count
               PROVE  end[m + (n + 1)] = Panic
    OBVIOUS
  <2>1. /\ m + n <= count /\ m + (n + 1) \in 1 .. count
        /\ m + (n + 1) - 1 = m + n
    OBVIOUS
  <2>2. end[m + n] = Panic
    BY <1>2, <2>1
  <2> QED BY <2>1, <2>2 DEF StringEnds
<1> HIDE DEF S
<1>3. Nat \subseteq S
  BY <1>1, <1>2, Induction
<1>4. count - m \in S /\ m + (count - m) = count
  BY <1>3
<1> QED BY <1>4 DEF S

(* The loop over the strings, followed by StringEnds.                      *)
LEMMA StringEndsSoFar ==
  ASSUME NEW s \in Seq(Byte), NEW a \in 0 .. Len(s), a + 4 <= Len(s),
         NEW end, StringEnds(s, a, U32At(s, a), end),
         NEW n \in 0 .. U32At(s, a), end[n] # Panic
  PROVE  StringsSoFar(s, a, n, end[n])
<1> DEFINE count == U32At(s, a)
           S == {m \in Nat : m <= n => /\ end[m] # Panic
                                       /\ StringsSoFar(s, a, m, end[m])}
<1>1. a \in Nat /\ Len(s) \in Nat /\ count \in Nat /\ n \in Nat /\ n <= count
  BY PrefixOfBytes
<1> HIDE DEF count
<1>2. /\ end \in [0 .. count -> Offset] /\ end[0] = a + 4
      /\ \A m \in 1 .. count :
           end[m] = IF end[m - 1] = Panic THEN Panic
                    ELSE VecEnd(s, end[m - 1], 1)
  BY DEF StringEnds, count
<1>3. \A m \in 0 .. n : end[m] # Panic
  <2> SUFFICES ASSUME NEW m \in 0 .. n, end[m] = Panic
               PROVE  FALSE
    OBVIOUS
  <2>1. m \in 0 .. n /\ n - m \in Nat /\ m \in 0 .. count
    BY <1>1
  <2>2. StringEnds(s, a, n, [i \in 0 .. n |-> end[i]])
    <3> DEFINE g == [i \in 0 .. n |-> end[i]]
    <3>1. \A i \in 0 .. n : i \in 0 .. count
      BY <1>1
    <3>2. g \in [0 .. n -> Offset] /\ g[0] = a + 4
      BY <1>1, <1>2, <3>1
    <3>3. \A i \in 1 .. n : /\ i \in 1 .. count /\ i - 1 \in 0 .. n
                            /\ i \in 0 .. n
      BY <1>1
    <3>4. \A i \in 0 .. n : g[i] = end[i]
      OBVIOUS
    <3> HIDE DEF g
    <3>5. StringEnds(s, a, n, g)
      BY <1>2, <3>2, <3>3, <3>4 DEF StringEnds
    <3> QED BY <3>5 DEF g
  <2>3. [i \in 0 .. n |-> end[i]][m] = Panic
    OBVIOUS
  <2>4. [i \in 0 .. n |-> end[i]][n] = Panic
    BY <1>1, <2>2, <2>3, PanicPersists
  <2> QED BY <1>1, <2>4
<1>4. 0 \in S
  <2>1. StringsSoFar(s, a, 0, a + 4)
    BY NoStringsYet
  <2> QED BY <1>1, <1>2, <1>3, <2>1
<1>5. ASSUME NEW m \in Nat, m \in S
      PROVE  m + 1 \in S
  <2> SUFFICES ASSUME m + 1 <= n
               PROVE  StringsSoFar(s, a, m + 1, end[m + 1])
    BY <1>1, <1>3
  <2>1. /\ m <= n /\ m \in 0 .. count /\ m + 1 \in 1 .. count
        /\ m + 1 - 1 = m /\ m < count /\ m + 1 \in 0 .. n
    BY <1>1
  <2>2. end[m] # Panic /\ StringsSoFar(s, a, m, end[m])
    BY <1>5, <2>1
  <2>3. end[m + 1] = VecEnd(s, end[m], 1) /\ end[m + 1] # Panic
    BY <1>2, <1>3, <2>1, <2>2
  <2>4. end[m] \in Nat
    BY <1>2, <2>1, <2>2 DEF Offset
  <2>5. end[m] + 4 <= Len(s)
    BY <2>3, <2>4, VecEndType
  <2>6. end[m + 1] = end[m] + (4 + U32At(s, end[m]))
    <3>1. U32At(s, end[m]) \in Nat
      BY <2>4, <2>5, PrefixOfBytes
    <3>2. VecEnd(s, end[m], 1) = end[m] + 4 + U32At(s, end[m]) * 1
      BY <2>5 DEF VecEnd, CanReadU32
    <3> QED BY <2>3, <2>4, <3>1, <3>2
  <2> QED BY <1>1, <2>1, <2>2, <2>4, <2>5, <2>6, OneStringMoreRead DEF count
<1> HIDE DEF S
<1>6. Nat \subseteq S
  BY <1>4, <1>5, Induction
<1> QED BY <1>1, <1>6 DEF S

(* ... and when there is no next string there is no value.                 *)
LEMMA NoMoreStrings ==
  ASSUME NEW s \in Seq(Byte), NEW a \in 0 .. Len(s), a + 4 <= Len(s),
         NEW end, StringEnds(s, a, U32At(s, a), end),
         end[U32At(s, a)] = Panic
  PROVE  \A e \in a .. Len(s) : ~ValueSized(25, Slice(s, a, e))
<1> DEFINE count == U32At(s, a)
           T == {m \in 0 .. count : end[m] = Panic}
<1>1. a \in Nat /\ Len(s) \in Nat /\ count \in Nat
  BY PrefixOfBytes
<1> HIDE DEF count
<1>2. /\ end \in [0 .. count -> Offset] /\ end[0] = a + 4
      /\ \A m \in 1 .. count :
           end[m] = IF end[m - 1] = Panic THEN Panic
                    ELSE VecEnd(s, end[m - 1], 1)
  BY DEF StringEnds, count
<1>3. PICK m \in T : \A y \in T : m <= y
  <2>1. T \subseteq Nat
    BY <1>1
  <2>2. count \in T
    BY <1>1 DEF count
  <2> HIDE DEF T
  <2> QED BY <2>1, <2>2, LeastElement
<1>4. end[m] = Panic /\ m \in 0 .. count
  OBVIOUS
<1>5. m # 0
  BY <1>1, <1>2, <1>4, PanicIsNoOffset
<1>6. m \in 1 .. count /\ m - 1 \in 0 .. count /\ m - 1 \in Nat /\ m - 1 < count
  BY <1>1, <1>4, <1>5
<1>7. end[m - 1] # Panic
  <2>1. m - 1 \notin T
    BY <1>1, <1>3, <1>6
  <2> QED BY <1>6, <2>1
<1>8. end[m - 1] \in Nat
  BY <1>2, <1>6, <1>7 DEF Offset
<1>9. ~(end[m - 1] + 4 <= Len(s))
  <2>1. VecEnd(s, end[m - 1], 1) = Panic
    BY <1>2, <1>4, <1>6, <1>7
  <2> QED BY <1>8, <2>1, VecEndType
<1>10. StringsSoFar(s, a, m - 1, end[m - 1])
  BY <1>6, <1>7, StringEndsSoFar DEF count
<1> QED BY <1>6, <1>8, <1>9, <1>10, NoStringNoValue DEF count

-----------------------------------------------------------------------------
(* One iteration over the layout, by the type of the field.                *)

LEMMA FieldEndOfType ==
  ASSUME NEW type \in Byte, NEW s, NEW a
  PROVE  /\ type \in 0 .. 11 =>
              FieldEnd(type, s, a) = a + ElementSize[type + 1]
         /\ type \in 12 .. 24 =>
              FieldEnd(type, s, a) = VecEnd(s, a, VecElementSize(type))
         /\ type = 25 => FieldEnd(type, s, a) = VecStringEnd(s, a)
         /\ type > 25 => FieldEnd(type, s, a) = Panic
<1>1. ASSUME type \in 0 .. 11
      PROVE  FieldEnd(type, s, a) = a + ElementSize[type + 1]
  <2>1. type # 12 /\ type \notin 13 .. 24 /\ type # 25
    BY <1>1
  <2> QED BY ONLY <1>1, <2>1, Zenon DEF FieldEnd
<1>2. ASSUME type \in 12 .. 24
      PROVE  FieldEnd(type, s, a) = VecEnd(s, a, VecElementSize(type))
  <2>1. CASE type = 12
    <3>1. type \notin 0 .. 11 /\ type \notin 13 .. 24 /\ type # 25
      BY <2>1
    <3>2. FieldEnd(type, s, a) = VecEnd(s, a, 1)
      BY ONLY <2>1, <3>1, Zenon DEF FieldEnd
    <3> QED BY <2>1, <3>2 DEF VecElementSize
  <2>2. CASE type \in 13 .. 24
    <3>1. type \notin 0 .. 11 /\ type # 12 /\ type # 25
      BY <2>2
    <3>2. FieldEnd(type, s, a) = VecEnd(s, a, ElementSize[type - 12])
      BY ONLY <2>2, <3>1, Zenon DEF FieldEnd
    <3>3. VecElementSize(type) = ElementSize[type - 12]
      BY <3>1 DEF VecElementSize
    <3> QED BY <3>2, <3>3
  <2> QED BY <1>2, <2>1, <2>2
<1>3. ASSUME type = 25
      PROVE  FieldEnd(type, s, a) = VecStringEnd(s, a)
  <2>1. type \notin 0 .. 11 /\ type # 12 /\ type \notin 13 .. 24
    BY <1>3
  <2> QED BY ONLY <1>3, <2>1, Zenon DEF FieldEnd
<1>4. ASSUME type > 25
      PROVE  FieldEnd(type, s, a) = Panic
  <2>1. /\ type \notin 0 .. 11 /\ type # 12 /\ type \notin 13 .. 24
        /\ type # 25
    BY <1>4 DEF Byte
  <2> QED BY ONLY <2>1, Zenon DEF FieldEnd
<1> QED BY <1>1, <1>2, <1>3, <1>4

(* It stops where the only value of the type ends; if it panics there is   *)
(* none.                                                                   *)
FieldRead(type, s, a) ==
  LET o == FieldEnd(type, s, a)
  IN  /\ o \in Offset
      /\ o # Panic => ReadFrom(type, s, a, o)
      /\ o = Panic => \A e \in a .. Len(s) : ~ValueSized(type, Slice(s, a, e))

LEMMA FieldIsRead ==
  ASSUME NEW s \in Seq(Byte), NEW a \in 0 .. Len(s), NEW type \in Byte
  PROVE  FieldRead(type, s, a)
<1> DEFINE o == FieldEnd(type, s, a)
<1>1. a \in Nat /\ Len(s) \in Nat
  OBVIOUS
<1> HIDE DEF o
<1>2. CASE type \in 0 .. 11
  <2>1. o = a + ElementSize[type + 1]
    BY <1>2, FieldEndOfType DEF o
  <2>2. ElementSize[type + 1] \in Nat
    BY <1>2, SizeType
  <2>3. o \in Nat
    BY <1>1, <2>1, <2>2
  <2>4. ReadFrom(type, s, a, o)
    BY <1>2, <2>1, FixedRead
  <2> QED BY <2>3, <2>4, PanicIsNoOffset DEF FieldRead, Offset, o
<1>3. CASE type \in 12 .. 24
  <2>1. o = VecEnd(s, a, VecElementSize(type))
    BY <1>3, FieldEndOfType DEF o
  <2>2. VecElementSize(type) \in Nat
    BY <1>3, SizeType
  <2>3. o \in Offset /\ (o = Panic <=> ~(a + 4 <= Len(s)))
    BY <1>1, <2>1, <2>2, VecEndType
  <2>4. CASE a + 4 <= Len(s)
    <3>1. o = a + (4 + U32At(s, a) * VecElementSize(type))
      <4> DEFINE n == U32At(s, a) * VecElementSize(type)
      <4>1. U32At(s, a) \in Nat
        BY <1>1, <2>4, PrefixOfBytes
      <4>2. n \in Nat
        BY <2>2, <4>1
      <4>3. o = a + 4 + n
        BY <2>1, <2>4 DEF VecEnd, CanReadU32
      <4> HIDE DEF n
      <4>4. o = a + (4 + n)
        BY <1>1, <4>2, <4>3
      <4> QED BY <4>4 DEF n
    <3>2. ReadFrom(type, s, a, o)
      BY <1>3, <2>4, <3>1, VecRead
    <3> QED BY <2>3, <2>4, <3>2 DEF FieldRead, o
  <2>5. CASE ~(a + 4 <= Len(s))
    <3>1. type \in 12 .. 25
      BY <1>3
    <3>2. \A e \in a .. Len(s) : ~ValueSized(type, Slice(s, a, e))
      BY <2>5, <3>1, NoPrefixNoValue
    <3> QED BY <2>3, <2>5, <3>2 DEF FieldRead, o
  <2> QED BY <2>4, <2>5
<1>4. CASE type = 25
  <2>1. o = VecStringEnd(s, a)
    BY <1>4, FieldEndOfType DEF o
  <2>2. CASE ~(a + 4 <= Len(s))
    <3>1. o = Panic
      BY <2>1, <2>2 DEF VecStringEnd, CanReadU32
    <3>2. type \in 12 .. 25
      BY <1>4
    <3>3. \A e \in a .. Len(s) : ~ValueSized(type, Slice(s, a, e))
      BY <2>2, <3>2, NoPrefixNoValue
    <3> QED BY <3>1, <3>3, PanicIsNoOffset DEF FieldRead, o
  <2>3. CASE a + 4 <= Len(s)
    <3> DEFINE count == U32At(s, a)
    <3>1. count \in Nat
      BY <1>1, <2>3, PrefixOfBytes
    <3>2. PICK end : /\ StringEnds(s, a, count, end)
                     /\ o = IF a + 4 + 4 * count <= Len(s)
                              THEN end[count] ELSE Panic
      BY <1>1, <2>1, <2>3, VecStringEndValue
    <3> HIDE DEF count
    <3>3. end[count] \in Offset
      BY <3>1, <3>2 DEF StringEnds
    <3>4. CASE ~(a + 4 + 4 * count <= Len(s))
      <4>1. o = Panic
        BY <3>2, <3>4
      <4>2. ASSUME NEW e \in a .. Len(s), ValueSized(25, Slice(s, a, e))
            PROVE  FALSE
        <5>1. e \in Nat /\ a <= e /\ e <= Len(s)
          BY <1>1
        <5>2. a + 4 + 4 * count <= e
          BY <1>1, <4>2, <5>1, StringsSlice DEF StringsFrom, count
        <5>3. 4 * count \in Nat
          BY <3>1
        <5> QED BY <1>1, <3>4, <5>1, <5>2, <5>3
      <4> QED BY <1>4, <4>1, <4>2, PanicIsNoOffset DEF FieldRead, o
    <3>5. CASE a + 4 + 4 * count <= Len(s) /\ end[count] = Panic
      <4>1. o = Panic
        BY <3>2, <3>5
      <4>2. \A e \in a .. Len(s) : ~ValueSized(25, Slice(s, a, e))
        BY <2>3, <3>2, <3>5, NoMoreStrings DEF count
      <4> QED BY <1>4, <4>1, <4>2, PanicIsNoOffset DEF FieldRead, o
    <3>6. CASE a + 4 + 4 * count <= Len(s) /\ end[count] # Panic
      <4>1. o = end[count] /\ o \in Nat
        BY <3>2, <3>3, <3>6 DEF Offset
      <4>2. count \in 0 .. count
        BY <3>1
      <4>3. StringsSoFar(s, a, count, o)
        BY <2>3, <3>2, <3>6, <4>1, <4>2, StringEndsSoFar DEF count
      <4>4. ReadFrom(25, s, a, o)
        BY <4>1, <4>3, AllStringsRead DEF count
      <4> QED BY <1>4, <4>1, <4>4, PanicIsNoOffset DEF FieldRead, Offset, o
    <3> QED BY <3>4, <3>5, <3>6
  <2> QED BY <2>2, <2>3
<1>5. CASE type > 25
  <2>1. o = Panic
    BY <1>5, FieldEndOfType DEF o
  <2>2. type \notin 0 .. 25
    BY <1>5
  <2>3. \A e \in a .. Len(s) : ~ValueSized(type, Slice(s, a, e))
    BY <2>2, NoValueOfUnknownType
  <2> QED BY <2>1, <2>3, PanicIsNoOffset DEF FieldRead, o
<1>6. type \in 0 .. 11 \/ type \in 12 .. 24 \/ type = 25 \/ type > 25
  BY DEF Byte
<1> QED BY <1>2, <1>3, <1>4, <1>5, <1>6

(* The offsets of ValidateData are defined for every layout and all data.  *)
FollowsLayout(types, s, off) ==
  /\ off \in [0 .. Len(types) -> Offset]
  /\ off[0] = 0
  /\ \A n \in 1 .. Len(types) :
       off[n] = IF Overrun(s, off[n - 1]) THEN off[n - 1]
                ELSE FieldEnd(types[n], s, off[n - 1])

LEMMA OffsetsValue ==
  ASSUME NEW types \in Seq(Byte), NEW s \in Seq(Byte)
  PROVE  FollowsLayout(types, s, Offsets(types, s))
<1> DEFINE N == Len(types)
           Step(n, x) == IF Overrun(s, x) THEN x
                         ELSE FieldEnd(types[n], s, x)
           Fun(g) == [n \in 0 .. N |->
                        IF n = 0 THEN 0
                        ELSE IF Overrun(s, g[n - 1]) THEN g[n - 1]
                        ELSE FieldEnd(types[n], s, g[n - 1])]
           off == Offsets(types, s)
           step == [n \in 1 .. N |-> [x \in Offset |-> Step(n, x)]]
<1>1. N \in Nat /\ Len(s) \in Nat
  OBVIOUS
<1>2. \A n \in 1 .. N : types[n] \in Byte
  BY ElementOfSeq
<1> HIDE DEF N
<1>3. \A n \in 1 .. N : \A x \in Offset : Step(n, x) \in Offset
  <2> TAKE n \in 1 .. N
  <2> TAKE x \in Offset
  <2>1. CASE Overrun(s, x)
    BY <2>1
  <2>2. CASE ~Overrun(s, x)
    <3>1. x \in Nat /\ ~(x > Len(s))
      BY <2>2 DEF Overrun, Offset
    <3>2. x \in 0 .. Len(s)
      BY <1>1, <3>1
    <3>3. FieldEnd(types[n], s, x) \in Offset
      BY <1>2, <3>2, FieldIsRead DEF FieldRead
    <3> QED BY <2>2, <3>3
  <2> QED BY <2>1, <2>2
<1>4. step \in [1 .. N -> [Offset -> Offset]]
  BY <1>3
<1>5. 0 \in Offset
  BY DEF Offset
<1>6. PICK f : Follows(f, Offset, 0, N, step)
  <2> HIDE DEF step
  <2> QED BY <1>1, <1>4, <1>5, Recursion
<1>7. /\ f \in [0 .. N -> Offset] /\ f[0] = 0
      /\ \A n \in 1 .. N : f[n] = step[n][f[n - 1]]
  BY <1>6 DEF Follows
<1>8. \A n \in 1 .. N : n - 1 \in 0 .. N /\ n # 0 /\ n \in 0 .. N
  BY <1>1
<1>9. \A n \in 1 .. N : f[n] = Step(n, f[n - 1])
  <2> TAKE n \in 1 .. N
  <2>1. f[n - 1] \in Offset
    BY <1>7, <1>8
  <2>2. step[n][f[n - 1]] = Step(n, f[n - 1])
    BY <2>1
  <2> QED BY <1>7, <2>2
<1>10. f = Fun(f)
  <2>1. \A n \in 0 .. N : n # 0 => n \in 1 .. N
    BY <1>1
  <2>2. \A n \in 0 .. N : f[n] = Fun(f)[n]
    BY <1>7, <1>9, <2>1
  <2> QED BY <1>7, <2>2
<1>11. off = CHOOSE g : g = Fun(g)
  BY DEF Offsets, Fun, N
<1> HIDE DEF Fun, off
<1>12. off = Fun(off)
  BY <1>10, <1>11
<1>13. off = [n \in 0 .. N |->
                IF n = 0 THEN 0
                ELSE IF Overrun(s, off[n - 1]) THEN off[n - 1]
                ELSE FieldEnd(types[n], s, off[n - 1])]
  BY <1>12 DEF Fun
<1>14. /\ DOMAIN off = 0 .. N
       /\ off[0] = 0
       /\ \A n \in 1 .. N : off[n] = Step(n, off[n - 1])
  <2>1. 0 \in 0 .. N
    BY <1>1
  <2> QED BY <1>8, <1>13, <2>1
<1>15. \A n \in 0 .. N : off[n] \in Offset
  <2> DEFINE S == {n \in Nat : n <= N => off[n] \in Offset}
  <2>1. 0 \in S
    BY <1>5, <1>14
  <2>2. ASSUME NEW n \in Nat, n \in S
        PROVE  n + 1 \in S
    <3> SUFFICES ASSUME n + 1 <= N
                 PROVE  off[n + 1] \in Offset
      OBVIOUS
    <3>1. n <= N /\ n + 1 \in 1 .. N /\ n + 1 - 1 = n
      BY <1>1
    <3>2. off[n] \in Offset
      BY <2>2, <3>1
    <3>3. off[n + 1] = Step(n + 1, off[n])
      BY <1>14, <3>1
    <3> HIDE DEF Step
    <3> QED BY <1>3, <3>1, <3>2, <3>3
  <2> HIDE DEF S
  <2>3. Nat \subseteq S
    BY <2>1, <2>2, Induction
  <2>4. \A n \in 0 .. N : n \in Nat /\ n <= N
    BY <1>1
  <2> QED BY <2>3, <2>4 DEF S
<1>16. off \in [0 .. N -> Offset]
  BY <1>13, <1>15
<1> QED BY <1>14, <1>16 DEF FollowsLayout, off, N

(* Nothing is read any more once the offset has left the data.             *)
LEMMA OverrunPersists ==
  ASSUME NEW types \in Seq(Byte), NEW s \in Seq(Byte), NEW off,
         FollowsLayout(types, s, off),
         NEW m \in 0 .. Len(types), Overrun(s, off[m])
  PROVE  off[Len(types)] = off[m]
<1> DEFINE N == Len(types)
           S == {n \in Nat : m + n <= N => off[m + n] = off[m]}
<1>1. N \in Nat /\ m \in 0 .. N
  OBVIOUS
<1>2. \A n \in 1 .. N : Overrun(s, off[n - 1]) => off[n] = off[n - 1]
  BY DEF FollowsLayout
<1> HIDE DEF N
<1>3. 0 \in S
  BY <1>1
<1>4. ASSUME NEW n \in Nat, n \in S
      PROVE  n + 1 \in S
  <2> SUFFICES ASSUME m + (n + 1) <= N
               PROVE  off[m + (n + 1)] = off[m]
    OBVIOUS
  <2>1. /\ m + n <= N /\ m + (n + 1) \in 1 .. N
        /\ m + (n + 1) - 1 = m + n
    BY <1>1
  <2>2. off[m + n] = off[m]
    BY <1>4, <2>1
  <2> QED BY <1>2, <2>1, <2>2
<1> HIDE DEF S
<1>5. Nat \subseteq S
  BY <1>3, <1>4, Induction
<1>6. N - m \in S /\ m + (N - m) = N
  BY <1>1, <1>5
<1> QED BY <1>6 DEF S, N

(* Up to there the fields have their sizes, and are cut in no other way.   *)
LEMMA SizedUpTo ==
  ASSUME NEW types \in Seq(Byte), NEW s \in Seq(Byte), NEW off,
         FollowsLayout(types, s, off),
         NEW m \in 0 .. Len(types), ~Overrun(s, off[m])
  PROVE  /\ off[m] \in 0 .. Len(s)
         /\ SizedTo(types, s, m, off[m])
         /\ Forced(types, s, m, off[m])
<1> DEFINE N == Len(types)
           Good(n) == /\ off[n] \in 0 .. Len(s)
                      /\ SizedTo(types, s, n, off[n])
                      /\ Forced(types, s, n, off[n])
           S == {n \in Nat : n <= N => (~Overrun(s, off[n]) => Good(n))}
<1>1. N \in Nat /\ m \in 0 .. N /\ Len(s) \in Nat
  OBVIOUS
<1>2. /\ off \in [0 .. N -> Offset] /\ off[0] = 0
      /\ \A n \in 1 .. N :
           off[n] = IF Overrun(s, off[n - 1]) THEN off[n - 1]
                    ELSE FieldEnd(types[n], s, off[n - 1])
  BY DEF FollowsLayout
<1>3. \A n \in 1 .. N : types[n] \in Byte
  BY ElementOfSeq
<1>4. 0 \in S
  <2>1. SizedTo(types, s, 0, 0)
    <3> DEFINE cut == [i \in 0 .. 0 |-> 0]
    <3>1. cut \in [0 .. 0 -> 0 .. 0] /\ cut[0] = 0
      OBVIOUS
    <3>2. 1 .. 0 = {}
      OBVIOUS
    <3> HIDE DEF cut
    <3> QED BY <3>1, <3>2 DEF SizedTo
  <2>2. Forced(types, s, 0, 0)
    BY DEF Forced, Cuts
  <2>3. 0 \in 0 .. Len(s)
    BY <1>1
  <2> QED BY <1>2, <2>1, <2>2, <2>3
<1>5. ASSUME NEW n \in Nat, n \in S
      PROVE  n + 1 \in S
  <2> SUFFICES ASSUME n + 1 <= N, ~Overrun(s, off[n + 1])
               PROVE  Good(n + 1)
    OBVIOUS
  <2>1. n <= N /\ n + 1 \in 1 .. N /\ n + 1 - 1 = n
    BY <1>1
  <2>2. ~Overrun(s, off[n])
    BY <1>2, <2>1
  <2>3. Good(n)
    BY <1>5, <2>1, <2>2
  <2> DEFINE a == off[n]
             b == off[n + 1]
  <2>4. b = FieldEnd(types[n + 1], s, a)
    BY <1>2, <2>1, <2>2
  <2>5. FieldRead(types[n + 1], s, a)
    BY <1>3, <2>1, <2>3, FieldIsRead
  <2>6. b \in Offset /\ b # Panic /\ ~(b > Len(s))
    <3>1. b \in Offset
      BY <2>4, <2>5 DEF FieldRead
    <3> QED BY <3>1 DEF Overrun
  <2>7. b \in Nat /\ b <= Len(s)
    BY <1>1, <2>6 DEF Offset
  <2>8. ReadFrom(types[n + 1], s, a, b)
    BY <2>4, <2>5, <2>6 DEF FieldRead
  <2> HIDE DEF a, b
  <2>9. /\ a \in 0 .. Len(s)
        /\ SizedTo(types, s, n + 1 - 1, a)
        /\ Forced(types, s, n + 1 - 1, a)
    BY <2>1, <2>3 DEF a
  <2>10. n + 1 \in 1 .. Len(types)
    BY <2>1
  <2>11. SizedTo(types, s, n + 1, b)
    BY <2>7, <2>8, <2>9, <2>10, FieldSized
  <2>12. Forced(types, s, n + 1, b)
    BY <2>7, <2>8, <2>9, <2>10, FieldForced
  <2>13. b \in 0 .. Len(s)
    BY <1>1, <2>7
  <2> QED BY <2>11, <2>12, <2>13 DEF b
<1> HIDE DEF S, Good
<1>6. Nat \subseteq S
  BY <1>4, <1>5, Induction
<1>7. m \in S /\ m <= N
  BY <1>1, <1>6
<1>8. Good(m)
  BY <1>7 DEF S
<1> QED BY <1>8 DEF Good

(* ValidateData, the expression the model of the instructions uses, says   *)
(* "ok" of exactly the data that can be cut into one part of the right     *)
(* size for each field, whatever the layout and the data. This is all that *)
(* create_attestation lets through.                                        *)
THEOREM VerdictIsBySizes ==
  ASSUME NEW types \in Seq(Byte), NEW s \in Seq(Byte)
  PROVE  ValidateData(types, s) = "ok" <=> LayoutSized(types, s)
<1> DEFINE N == Len(types)
           off == Offsets(types, s)
           last == off[N]
<1>1. N \in Nat /\ Len(s) \in Nat /\ N \in 0 .. N
  OBVIOUS
<1>2. FollowsLayout(types, s, off)
  BY OffsetsValue
<1>3. ValidateData(types, s) = IF last = Panic THEN "panic"
                               ELSE IF last # Len(s)
                                 THEN "InvalidAttestationData"
                               ELSE "ok"
  BY DEF ValidateData
<1> HIDE DEF off
<1>4. CASE ~Overrun(s, last)
  <2>1. /\ last \in 0 .. Len(s)
        /\ SizedTo(types, s, N, last)
        /\ Forced(types, s, N, last)
    BY <1>1, <1>2, <1>4, SizedUpTo
  <2>2. last \in Nat /\ last # Panic
    BY <1>1, <2>1, PanicIsNoOffset
  <2>3. LayoutSized(types, s) <=> last = Len(s)
    BY <2>1, <2>2, AllSized
  <2> QED BY <1>3, <2>2, <2>3
<1>5. CASE Overrun(s, last)
  <2>1. ValidateData(types, s) # "ok"
    BY <1>1, <1>3, <1>5 DEF Overrun
  <2> DEFINE T == {n \in 0 .. N : Overrun(s, off[n])}
  <2>2. PICK m \in T : \A y \in T : m <= y
    <3>1. T \subseteq Nat /\ N \in T
      BY <1>1, <1>5
    <3> HIDE DEF T
    <3> QED BY <3>1, LeastElement
  <2>3. m \in 0 .. N /\ Overrun(s, off[m])
    OBVIOUS
  <2>4. m # 0
    <3>1. off[0] = 0
      BY <1>2 DEF FollowsLayout
    <3> QED BY <1>1, <2>3, <3>1, PanicIsNoOffset DEF Overrun
  <2>5. /\ m \in 1 .. N /\ m - 1 \in 0 .. N /\ m - 1 \in Nat
    BY <1>1, <2>3, <2>4
  <2>6. ~Overrun(s, off[m - 1])
    <3>1. m - 1 \notin T
      BY <1>1, <2>2, <2>5
    <3> QED BY <2>5, <3>1
  <2> DEFINE a == off[m - 1]
             b == off[m]
  <2>7. a \in 0 .. Len(s) /\ Forced(types, s, m - 1, a)
    BY <1>2, <2>5, <2>6, SizedUpTo
  <2>8. b = FieldEnd(types[m], s, a)
    BY <1>2, <2>5, <2>6 DEF FollowsLayout
  <2>9. FieldRead(types[m], s, a)
    <3>1. types[m] \in Byte
      BY <2>5, ElementOfSeq
    <3> QED BY <2>7, <3>1, FieldIsRead
  <2>10. Overrun(s, b)
    BY <2>3
  <2> HIDE DEF a, b
  <2>11. ASSUME NEW e \in a .. Len(s), ValueSized(types[m], Slice(s, a, e))
         PROVE  FALSE
    <3>1. CASE b = Panic
      BY <2>8, <2>9, <2>11, <3>1 DEF FieldRead
    <3>2. CASE b # Panic
      <4>1. b > Len(s)
        BY <2>10, <3>2 DEF Overrun
      <4>2. e = b
        BY <2>8, <2>9, <2>11, <3>2 DEF FieldRead, ReadFrom
      <4> QED BY <1>1, <2>7, <4>1, <4>2
    <3> QED BY <3>1, <3>2
  <2>12. ~LayoutSized(types, s)
    BY <2>5, <2>7, <2>11, NotSized
  <2> QED BY <2>1, <2>12
<1> QED BY <1>4, <1>5

-----------------------------------------------------------------------------
(* The loops are where Offsets says, and their verdict is ValidateData's:  *)
(* also when it is an error or a panic.                                    *)

Off == Offsets(layout, data)

(* The string loop of a Vec<String> that began at start, n strings in.     *)
InStrings(s, start, n, o) ==
  /\ start + 4 <= Len(s)
  /\ n \in 0 .. U32At(s, start)
  /\ start + 4 + 4 * n <= Len(s)
  /\ \E end : /\ StringEnds(s, start, U32At(s, start), end)
              /\ VecStringEnd(s, start) =
                   IF start + 4 + 4 * U32At(s, start) <= Len(s)
                     THEN end[U32At(s, start)] ELSE Panic
              /\ end[n] = o

TrackField == pc = "field" => offset = Off[field - 1]

TrackCheck ==
  pc = "check" =>
    /\ ~Overrun(data, Off[field - 1])
    /\ offset = FieldEnd(layout[field], data, Off[field - 1])

TrackStrings ==
  pc = "strings" =>
    /\ Off[field - 1] \in 0 .. Len(data)
    /\ strings <= U32At(data, Off[field - 1])
    /\ InStrings(data, Off[field - 1],
                 U32At(data, Off[field - 1]) - strings, offset)

TrackEnd == pc = "done" => result = ValidateData(layout, data)

Tracking ==
  /\ Reading
  /\ TrackField
  /\ TrackCheck
  /\ TrackStrings
  /\ TrackEnd

LEMMA InitTracking ==
  ASSUME Entered
  PROVE  Tracking
<1>1. Reading
  BY InitReading
<1>2. pc = "field" /\ field = 1 /\ offset = 0
  BY DEF Entered, Enter
<1>3. layout \in Seq(Byte) /\ data \in Seq(Byte)
  BY <1>1 DEF Reading, IInv, TypeOK, Byte
<1>4. Off[0] = 0
  BY <1>3, OffsetsValue DEF Off, FollowsLayout
<1>5. field - 1 = 0
  BY <1>2
<1>6. TrackField
  BY <1>2, <1>4, <1>5 DEF TrackField
<1>7. TrackCheck /\ TrackStrings /\ TrackEnd
  BY <1>2 DEF TrackCheck, TrackStrings, TrackEnd
<1> QED BY <1>1, <1>6, <1>7 DEF Tracking

(* The facts about Offsets an iteration needs.                             *)
LEMMA OffFacts ==
  ASSUME layout \in Seq(Byte), data \in Seq(Byte),
         field \in 1 .. Len(layout), ~Overrun(data, Off[field - 1])
  PROVE  /\ Off[field - 1] \in 0 .. Len(data)
         /\ Off[field] = FieldEnd(layout[field], data, Off[field - 1])
         /\ layout[field] \in Byte
         /\ Overrun(data, Off[field]) => Off[Len(layout)] = Off[field]
<1>1. FollowsLayout(layout, data, Off)
  BY OffsetsValue DEF Off
<1>2. field - 1 \in 0 .. Len(layout) /\ field \in 0 .. Len(layout)
  <2>1. Len(layout) \in Nat
    OBVIOUS
  <2> QED BY <2>1
<1>3. Off[field - 1] \in 0 .. Len(data)
  BY <1>1, <1>2, SizedUpTo
<1>4. Off[field] = FieldEnd(layout[field], data, Off[field - 1])
  BY <1>1 DEF FollowsLayout
<1>5. layout[field] \in Byte
  BY ElementOfSeq
<1>6. Overrun(data, Off[field]) => Off[Len(layout)] = Off[field]
  BY <1>1, <1>2, OverrunPersists
<1> QED BY <1>3, <1>4, <1>5, <1>6

(* A panic in an iteration is the verdict.                                 *)
LEMMA PanicTracking ==
  ASSUME Tracking, Reading', Stop("panic"), layout \in Seq(Byte),
         data \in Seq(Byte), field \in 1 .. Len(layout),
         ~Overrun(data, Off[field - 1]),
         FieldEnd(layout[field], data, Off[field - 1]) = Panic
  PROVE  Tracking'
<1>1. Off[field] = Panic
  BY OffFacts
<1>2. Off[Len(layout)] = Panic
  BY <1>1, OffFacts DEF Overrun
<1>3. ValidateData(layout, data) = "panic"
  BY <1>2 DEF ValidateData, Off
<1>4. pc' = "done" /\ result' = "panic" /\ layout' = layout /\ data' = data
  BY DEF Stop
<1>5. TrackEnd'
  BY <1>3, <1>4 DEF TrackEnd
<1>6. TrackField' /\ TrackCheck' /\ TrackStrings'
  BY <1>4 DEF TrackField, TrackCheck, TrackStrings
<1> QED BY <1>5, <1>6 DEF Tracking

(* What an iteration finds at its start.                                   *)
LEMMA TrackedField ==
  ASSUME Tracking, pc = "field", field <= Len(layout)
  PROVE  /\ layout \in Seq(Byte) /\ data \in Seq(Byte)
         /\ field \in 1 .. Len(layout)
         /\ layout[field] \in Byte
         /\ offset \in 0 .. Len(data)
         /\ Off[field - 1] = offset
         /\ ~Overrun(data, Off[field - 1])
<1>1. /\ layout \in Seq(Byte) /\ data \in Seq(Byte)
      /\ Len(data) \in Nat
      /\ field \in 1 .. Len(layout)
      /\ layout[field] \in Byte
      /\ offset \in 0 .. Len(data)
  BY FieldFacts DEF Tracking
<1>2. Off[field - 1] = offset
  BY DEF Tracking, TrackField
<1>3. ~Overrun(data, offset)
  BY <1>1, PanicIsNoOffset DEF Overrun
<1> QED BY <1>1, <1>2, <1>3

(* An iteration that has read its field.                                   *)
LEMMA CheckTracking ==
  ASSUME Reading', pc' = "check", UNCHANGED <<layout, data, field>>,
         ~Overrun(data, Off[field - 1]),
         offset' = FieldEnd(layout[field], data, Off[field - 1])
  PROVE  Tracking'
<1>1. TrackField' /\ TrackStrings' /\ TrackEnd'
  BY DEF TrackField, TrackStrings, TrackEnd
<1>2. TrackCheck'
  BY DEF TrackCheck, Off
<1> QED BY <1>1, <1>2 DEF Tracking

LEMMA ReadFixedTracking ==
  ASSUME Tracking, Reading', ReadFixed
  PROVE  Tracking'
<1>1. /\ pc = "field" /\ field <= Len(layout) /\ layout[field] \in 0 .. 11
      /\ offset' = offset + ElementSize[layout[field] + 1]
      /\ pc' = "check"
      /\ UNCHANGED <<layout, data, field>>
  BY DEF ReadFixed, Type
<1>2. /\ layout[field] \in Byte /\ Off[field - 1] = offset
      /\ ~Overrun(data, Off[field - 1])
  BY <1>1, TrackedField
<1>3. offset' = FieldEnd(layout[field], data, Off[field - 1])
  BY <1>1, <1>2, FieldEndOfType
<1> QED BY <1>1, <1>2, <1>3, CheckTracking

LEMMA ReadVecTracking ==
  ASSUME Tracking, Reading', ReadVec
  PROVE  Tracking'
<1>1. pc = "field" /\ field <= Len(layout) /\ layout[field] \in 12 .. 24
  BY DEF ReadVec, Type
<1>2. /\ layout \in Seq(Byte) /\ data \in Seq(Byte)
      /\ field \in 1 .. Len(layout) /\ layout[field] \in Byte
      /\ offset \in 0 .. Len(data) /\ Off[field - 1] = offset
      /\ ~Overrun(data, Off[field - 1])
  BY <1>1, TrackedField
<1>3. FieldEnd(layout[field], data, offset) =
        VecEnd(data, offset, VecElementSize(layout[field]))
  BY <1>1, <1>2, FieldEndOfType
<1>4. CASE PrefixAtEnd /\ Stop("panic")
  <2>1. FieldEnd(layout[field], data, offset) = Panic
    BY <1>3, <1>4 DEF VecEnd, PrefixAtEnd
  <2> QED BY <1>2, <1>4, <2>1, PanicTracking
<1>5. CASE ~PrefixAtEnd
  <2>1. offset + 4 <= Len(data) /\ offset \in Nat
    BY <1>2, <1>5 DEF PrefixAtEnd, CanReadU32
  <2>2. /\ offset' = offset + VecSize(VecElementSize(layout[field]))
        /\ pc' = "check"
        /\ UNCHANGED <<layout, data, field>>
    BY <1>5 DEF ReadVec, Type
  <2> DEFINE n == U32At(data, offset) * VecElementSize(layout[field])
  <2>3. n \in Nat
    <3>1. U32At(data, offset) \in Nat /\ VecElementSize(layout[field]) \in Nat
      BY <1>1, <1>2, <2>1, PrefixOfBytes, SizeType
    <3> QED BY <3>1
  <2>4. VecEnd(data, offset, VecElementSize(layout[field])) = offset + 4 + n
    BY <1>5 DEF VecEnd, PrefixAtEnd
  <2>5. offset' = offset + (4 + n)
    BY <2>2 DEF VecSize
  <2> HIDE DEF n
  <2>6. offset' = offset + 4 + n
    BY <2>1, <2>3, <2>5
  <2>7. offset' = FieldEnd(layout[field], data, Off[field - 1])
    BY <1>2, <1>3, <2>4, <2>6
  <2> QED BY <1>2, <2>2, <2>7, CheckTracking
<1> QED BY <1>4, <1>5 DEF ReadVec

LEMMA ReadCountTracking ==
  ASSUME Tracking, Reading', ReadCount
  PROVE  Tracking'
<1>1. pc = "field" /\ field <= Len(layout) /\ layout[field] = 25
  BY DEF ReadCount, Type
<1>2. /\ layout \in Seq(Byte) /\ data \in Seq(Byte)
      /\ field \in 1 .. Len(layout) /\ layout[field] \in Byte
      /\ offset \in 0 .. Len(data) /\ Off[field - 1] = offset
      /\ ~Overrun(data, Off[field - 1])
  BY <1>1, TrackedField
<1>3. CASE PrefixAtEnd /\ Stop("panic")
  <2>1. FieldEnd(layout[field], data, offset) = VecStringEnd(data, offset)
    BY <1>1, <1>2, FieldEndOfType
  <2>2. FieldEnd(layout[field], data, offset) = Panic
    BY <1>3, <2>1 DEF VecStringEnd, PrefixAtEnd
  <2> QED BY <1>2, <1>3, <2>2, PanicTracking
<1>4. CASE ~PrefixAtEnd
  <2>1. offset + 4 <= Len(data) /\ offset \in Nat
    BY <1>2, <1>4 DEF PrefixAtEnd, CanReadU32
  <2>2. /\ strings' = U32At(data, offset)
        /\ offset' = offset + 4
        /\ pc' = "strings"
        /\ UNCHANGED <<layout, data, field>>
    BY <1>4 DEF ReadCount
  <2>3. U32At(data, offset) \in Nat
    BY <1>2, <2>1, PrefixOfBytes
  <2>4. InStrings(data, offset, 0, offset + 4)
    <3>1. PICK end : /\ StringEnds(data, offset, U32At(data, offset), end)
                     /\ VecStringEnd(data, offset) =
                          IF offset + 4 + 4 * U32At(data, offset) <= Len(data)
                            THEN end[U32At(data, offset)] ELSE Panic
      BY <1>2, <2>1, VecStringEndValue
    <3>2. end[0] = offset + 4
      BY <3>1 DEF StringEnds
    <3>3. 0 \in 0 .. U32At(data, offset) /\ offset + 4 + 4 * 0 <= Len(data)
      BY <2>1, <2>3
    <3> QED BY <2>1, <3>1, <3>2, <3>3 DEF InStrings
  <2>5. /\ strings' <= U32At(data, offset)
        /\ U32At(data, offset) - strings' = 0
    BY <2>2, <2>3
  <2>6. Off' = Off
    BY <2>2 DEF Off
  <2>7. TrackStrings'
    BY <1>2, <2>2, <2>4, <2>5, <2>6 DEF TrackStrings
  <2>8. TrackField' /\ TrackCheck' /\ TrackEnd'
    BY <2>2 DEF TrackField, TrackCheck, TrackEnd
  <2> QED BY <2>7, <2>8 DEF Tracking
<1> QED BY <1>3, <1>4 DEF ReadCount

(* What the loop over the strings finds at each of its iterations.         *)
LEMMA TrackedStrings ==
  ASSUME Tracking, pc = "strings"
  PROVE  /\ layout \in Seq(Byte) /\ data \in Seq(Byte)
         /\ field \in 1 .. Len(layout)
         /\ layout[field] \in Byte
         /\ offset \in Nat /\ strings \in Nat
         /\ Off[field - 1] \in 0 .. Len(data)
         /\ ~Overrun(data, Off[field - 1])
         /\ U32At(data, Off[field - 1]) \in Nat
         /\ FieldEnd(layout[field], data, Off[field - 1]) =
              VecStringEnd(data, Off[field - 1])
<1>1. /\ layout \in Seq(Byte) /\ data \in Seq(Byte)
      /\ field \in 1 .. Len(layout) /\ layout[field] = 25
      /\ offset \in Nat /\ strings \in Nat
  BY StringsFacts DEF Tracking
<1>2. layout[field] \in Byte
  BY <1>1, ElementOfSeq
<1>3. Off[field - 1] \in 0 .. Len(data) /\ Off[field - 1] + 4 <= Len(data)
  BY DEF Tracking, TrackStrings, InStrings
<1>4. Off[field - 1] \in Nat /\ Len(data) \in Nat
      /\ ~(Off[field - 1] > Len(data))
  BY <1>1, <1>3
<1>5. ~Overrun(data, Off[field - 1])
  BY <1>4, PanicIsNoOffset DEF Overrun
<1>6. U32At(data, Off[field - 1]) \in Nat
  BY <1>1, <1>3, <1>4, PrefixOfBytes
<1>7. FieldEnd(layout[field], data, Off[field - 1]) =
        VecStringEnd(data, Off[field - 1])
  BY <1>1, <1>2, FieldEndOfType
<1> QED BY <1>1, <1>2, <1>3, <1>5, <1>6, <1>7

LEMMA ReadStringTracking ==
  ASSUME Tracking, Reading', ReadString
  PROVE  Tracking'
<1> DEFINE start == Off[field - 1]
           count == U32At(data, start)
           n == count - strings
<1>1. pc = "strings" /\ strings > 0
  BY DEF ReadString, MoreStrings
<1>2. /\ layout \in Seq(Byte) /\ data \in Seq(Byte)
      /\ field \in 1 .. Len(layout)
      /\ offset \in Nat /\ strings \in Nat
      /\ start \in 0 .. Len(data)
      /\ ~Overrun(data, start)
      /\ count \in Nat
      /\ FieldEnd(layout[field], data, start) = VecStringEnd(data, start)
  BY <1>1, TrackedStrings
<1>3. strings <= count /\ InStrings(data, start, n, offset)
  BY <1>1 DEF Tracking, TrackStrings
<1> HIDE DEF start, count
<1>4. n \in Nat /\ n < count /\ n + 1 \in 1 .. count /\ n + 1 - 1 = n
      /\ n + 1 \in 0 .. count
  BY <1>1, <1>2, <1>3
<1> HIDE DEF n
<1>5. start + 4 <= Len(data) /\ start + 4 + 4 * n <= Len(data)
  BY <1>3 DEF InStrings
<1>6. PICK end : /\ StringEnds(data, start, count, end)
                 /\ VecStringEnd(data, start) =
                      IF start + 4 + 4 * count <= Len(data)
                        THEN end[count] ELSE Panic
                 /\ end[n] = offset
  BY <1>3 DEF InStrings, count
<1>7. end[n + 1] = VecEnd(data, offset, 1)
  <2>1. offset # Panic
    BY <1>2, PanicIsNoOffset
  <2> QED BY <1>4, <1>6, <2>1 DEF StringEnds
<1>8. start \in Nat /\ Len(data) \in Nat
  BY <1>2
<1>9. CASE PrefixAtEnd /\ Stop("panic")
  <2>1. end[n + 1] = Panic
    BY <1>7, <1>9 DEF VecEnd, PrefixAtEnd
  <2>2. end[count] = Panic
    BY <1>2, <1>4, <1>6, <1>8, <2>1, PanicPersists
  <2>3. FieldEnd(layout[field], data, start) = Panic
    BY <1>2, <1>6, <2>2
  <2> QED BY <1>2, <1>9, <2>3, PanicTracking DEF start
<1>10. CASE ~PrefixAtEnd
  <2>1. offset + 4 <= Len(data)
    BY <1>10 DEF PrefixAtEnd, CanReadU32
  <2>2. /\ offset' = offset + VecSize(1)
        /\ strings' = strings - 1
        /\ UNCHANGED <<layout, data, pc, field>>
    BY <1>10 DEF ReadString
  <2>3. U32At(data, offset) \in Nat
    BY <1>2, <2>1, PrefixOfBytes
  <2>4. offset' = end[n + 1]
    <3>1. VecEnd(data, offset, 1) = offset + 4 + U32At(data, offset) * 1
      BY <1>10 DEF VecEnd, PrefixAtEnd
    <3>2. VecSize(1) = 4 + U32At(data, offset)
      BY <2>3 DEF VecSize
    <3> QED BY <1>2, <1>7, <2>2, <2>3, <3>1, <3>2
  <2>5. start + 4 + 4 * (n + 1) <= Len(data)
    <3>1. offset >= start + 4 + 4 * n
      <4>1. n \in 0 .. count /\ end[n] # Panic
        BY <1>2, <1>4, <1>6, PanicIsNoOffset
      <4>2. StringsSoFar(data, start, n, offset)
        BY <1>2, <1>5, <1>6, <4>1, StringEndsSoFar DEF count
      <4> QED BY <4>2 DEF StringsSoFar
    <3> QED BY <1>2, <1>4, <1>8, <2>1, <3>1
  <2>6. InStrings(data, start, n + 1, offset')
    BY <1>4, <1>5, <1>6, <2>4, <2>5 DEF InStrings, count
  <2>7. strings' <= count /\ count - strings' = n + 1
    BY <1>2, <1>3, <1>4, <2>2 DEF n
  <2>8. Off' = Off
    BY <2>2 DEF Off
  <2>9. /\ Off'[field' - 1] = start /\ U32At(data', Off'[field' - 1]) = count
        /\ Len(data') = Len(data) /\ data' = data
    BY <2>2, <2>8 DEF start, count
  <2>10. TrackStrings'
    BY <1>2, <2>6, <2>7, <2>9 DEF TrackStrings
  <2>11. TrackField' /\ TrackCheck' /\ TrackEnd'
    BY <1>1, <2>2 DEF TrackField, TrackCheck, TrackEnd
  <2> QED BY <2>10, <2>11 DEF Tracking
<1> QED BY <1>9, <1>10 DEF ReadString

LEMMA StringsReadTracking ==
  ASSUME Tracking, Reading', StringsRead
  PROVE  Tracking'
<1> DEFINE start == Off[field - 1]
           count == U32At(data, start)
<1>1. /\ pc = "strings" /\ ~(strings > 0) /\ pc' = "check"
      /\ UNCHANGED <<layout, data, field, offset>>
  BY DEF StringsRead, MoreStrings
<1>2. /\ strings \in Nat
      /\ ~Overrun(data, start)
      /\ count \in Nat
      /\ FieldEnd(layout[field], data, start) = VecStringEnd(data, start)
  BY <1>1, TrackedStrings
<1>3. strings <= count /\ InStrings(data, start, count - strings, offset)
  BY <1>1 DEF Tracking, TrackStrings
<1> HIDE DEF start, count
<1>4. count - strings = count
  BY <1>1, <1>2
<1>5. InStrings(data, start, count, offset)
  BY <1>3, <1>4
<1>6. VecStringEnd(data, start) = offset
  BY <1>5 DEF InStrings, count
<1>7. offset' = FieldEnd(layout[field], data, start)
  BY <1>1, <1>2, <1>6
<1> QED BY <1>1, <1>2, <1>7, CheckTracking DEF start

LEMMA UnknownTypeTracking ==
  ASSUME Tracking, Reading', UnknownType
  PROVE  Tracking'
<1>1. /\ pc = "field" /\ field <= Len(layout)
      /\ layout[field] \notin 0 .. 25 /\ Stop("panic")
  BY DEF UnknownType, Type
<1>2. /\ layout \in Seq(Byte) /\ data \in Seq(Byte)
      /\ field \in 1 .. Len(layout) /\ layout[field] \in Byte
      /\ ~Overrun(data, Off[field - 1])
  BY <1>1, TrackedField
<1>3. layout[field] > 25
  <2>1. \A type \in Byte : type \notin 0 .. 25 => type > 25
    BY DEF Byte
  <2> QED BY ONLY <1>1, <1>2, <2>1
<1>4. FieldEnd(layout[field], data, Off[field - 1]) = Panic
  BY <1>2, <1>3, FieldEndOfType
<1> QED BY <1>1, <1>2, <1>4, PanicTracking

LEMMA CheckOffsetTracking ==
  ASSUME Tracking, Reading', CheckOffset
  PROVE  Tracking'
<1>1. pc = "check"
  BY DEF CheckOffset
<1>2. /\ layout \in Seq(Byte) /\ data \in Seq(Byte)
      /\ field \in 1 .. Len(layout) /\ offset \in Nat
  <2>1. layout \in Seq(Byte) /\ data \in Seq(Byte)
    BY DEF Tracking, Reading, IInv, TypeOK, Byte
  <2> QED BY <1>1, <2>1 DEF Tracking, Reading, AtCheck, IInv, TypeOK
<1>3. /\ ~Overrun(data, Off[field - 1])
      /\ offset = FieldEnd(layout[field], data, Off[field - 1])
  BY <1>1 DEF Tracking, TrackCheck
<1>4. offset = Off[field]
  BY <1>2, <1>3, OffFacts
<1>5. CASE OffsetPastEnd /\ Stop("InvalidAttestationData")
  <2>1. Overrun(data, Off[field])
    BY <1>4, <1>5 DEF Overrun, OffsetPastEnd
  <2>2. Off[Len(layout)] = offset
    BY <1>2, <1>3, <1>4, <2>1, OffFacts
  <2>3. offset # Panic /\ offset # Len(data)
    BY <1>2, <1>5, PanicIsNoOffset DEF OffsetPastEnd
  <2>4. ValidateData(layout, data) = "InvalidAttestationData"
    BY <2>2, <2>3 DEF ValidateData, Off
  <2>5. /\ pc' = "done" /\ result' = "InvalidAttestationData"
        /\ layout' = layout /\ data' = data
    BY <1>5 DEF Stop
  <2>6. TrackEnd'
    BY <2>4, <2>5 DEF TrackEnd
  <2>7. TrackField' /\ TrackCheck' /\ TrackStrings'
    BY <2>5 DEF TrackField, TrackCheck, TrackStrings
  <2> QED BY <2>6, <2>7 DEF Tracking
<1>6. CASE ~OffsetPastEnd
  <2>1. /\ field' = field + 1
        /\ pc' = "field"
        /\ UNCHANGED <<layout, data, offset>>
    BY <1>6 DEF CheckOffset
  <2>2. field' - 1 = field /\ Off' = Off
    <3>1. field \in Nat
      BY <1>2
    <3> QED BY <2>1, <3>1 DEF Off
  <2>3. TrackField'
    BY <1>4, <2>1, <2>2 DEF TrackField
  <2>4. TrackCheck' /\ TrackStrings' /\ TrackEnd'
    BY <2>1 DEF TrackCheck, TrackStrings, TrackEnd
  <2> QED BY <2>3, <2>4 DEF Tracking
<1> QED BY <1>5, <1>6 DEF CheckOffset

LEMMA ReturnTracking ==
  ASSUME Tracking, Reading', Return
  PROVE  Tracking'
<1>1. /\ pc = "field" /\ field > Len(layout)
      /\ Stop(IF offset = Len(data) THEN "ok" ELSE "InvalidAttestationData")
  BY DEF Return
<1>2. /\ Len(layout) \in Nat /\ offset \in Nat
      /\ field \in 1 .. Len(layout) + 1
  <2>1. layout \in Seq(Byte)
    BY DEF Tracking, Reading, IInv, TypeOK, Byte
  <2>2. Len(layout) \in Nat
    BY <2>1
  <2> QED BY <1>1, <2>2 DEF Tracking, Reading, AtField, IInv, TypeOK
<1>3. field - 1 = Len(layout)
  BY <1>1, <1>2
<1>4. Off[Len(layout)] = offset
  BY <1>1, <1>3 DEF Tracking, TrackField
<1>5. ValidateData(layout, data) = IF offset = Len(data) THEN "ok"
                                   ELSE "InvalidAttestationData"
  <2>1. offset # Panic
    BY <1>2, PanicIsNoOffset
  <2> QED BY <1>4, <2>1 DEF ValidateData, Off
<1>6. /\ pc' = "done" /\ layout' = layout /\ data' = data
      /\ result' = IF offset = Len(data) THEN "ok"
                                         ELSE "InvalidAttestationData"
  BY <1>1 DEF Stop
<1>7. TrackEnd'
  BY <1>5, <1>6 DEF TrackEnd
<1>8. TrackField' /\ TrackCheck' /\ TrackStrings'
  BY <1>6 DEF TrackField, TrackCheck, TrackStrings
<1> QED BY <1>7, <1>8 DEF Tracking

LEMMA NextTracking ==
  ASSUME Tracking, [Next]_vars
  PROVE  Tracking'
<1>1. Reading'
  BY NextReading DEF Tracking
<1>2. CASE UNCHANGED vars
  BY <1>1, <1>2 DEF vars, Tracking, TrackField, TrackCheck, TrackStrings,
                    TrackEnd, Off
<1>3. CASE Next
  BY <1>1, <1>3, ReadFixedTracking, ReadVecTracking, ReadCountTracking,
     ReadStringTracking, StringsReadTracking, UnknownTypeTracking,
     CheckOffsetTracking, ReturnTracking DEF Next
<1> QED BY <1>2, <1>3

(* ValidationSpec has its own instance of the definitions of               *)
(* DataValidation.                                                         *)
LEMMA SameVerdict ==
  ASSUME NEW types, NEW s
  PROVE  Promise!ValidateData(types, s) = ValidateData(types, s)
<1>1. Promise!Panic = Panic /\ Promise!ElementSize = ElementSize
  BY DEF Panic, Promise!Panic, ElementSize, Promise!ElementSize
<1>2. \A a : Promise!U32At(s, a) = U32At(s, a)
  BY DEF U32At, Promise!U32At
<1>3. \A a : Promise!CanReadU32(s, a) <=> CanReadU32(s, a)
  BY DEF CanReadU32, Promise!CanReadU32
<1>4. \A a, size : Promise!VecEnd(s, a, size) = VecEnd(s, a, size)
  BY <1>1, <1>2, <1>3 DEF VecEnd, Promise!VecEnd
<1>5. \A a : Promise!VecStringEnd(s, a) = VecStringEnd(s, a)
  <2> TAKE a
  <2> DEFINE count == U32At(s, a)
             Fun(g) == [n \in 0 .. count |->
                          IF n = 0 THEN a + 4
                          ELSE IF g[n - 1] = Panic THEN Panic
                          ELSE VecEnd(s, g[n - 1], 1)]
             PromiseFun(g) == [n \in 0 .. count |->
                                 IF n = 0 THEN a + 4
                                 ELSE IF g[n - 1] = Promise!Panic
                                   THEN Promise!Panic
                                 ELSE Promise!VecEnd(s, g[n - 1], 1)]
             end == CHOOSE g : g = Fun(g)
             promiseEnd == CHOOSE g : g = PromiseFun(g)
             room == CanReadU32(s, a) /\ a + 4 + 4 * count <= Len(s)
  <2>1. \A g : PromiseFun(g) = Fun(g)
    BY <1>1, <1>4
  <2>2. VecStringEnd(s, a) = IF room THEN end[count] ELSE Panic
    BY DEF VecStringEnd
  <2>3. Promise!U32At(s, a) = count
    BY <1>2
  <2>4. Promise!VecStringEnd(s, a) =
          IF room THEN promiseEnd[count] ELSE Promise!Panic
    <3>1. Promise!CanReadU32(s, a) /\ a + 4 + 4 * count <= Len(s) <=> room
      BY <1>3
    <3> HIDE DEF room, count
    <3> QED BY <2>3, <3>1 DEF Promise!VecStringEnd
  <2> HIDE DEF Fun, PromiseFun
  <2>5. promiseEnd = end
    BY <2>1
  <2> HIDE DEF end, promiseEnd, room, count
  <2> QED BY <1>1, <2>2, <2>4, <2>5
<1>6. \A type, a : Promise!FieldEnd(type, s, a) = FieldEnd(type, s, a)
  BY <1>1, <1>4, <1>5, Zenon DEF FieldEnd, Promise!FieldEnd
<1>7. \A a : Promise!Overrun(s, a) <=> Overrun(s, a)
  BY <1>1 DEF Overrun, Promise!Overrun
<1>8. Promise!Offsets(types, s) = Offsets(types, s)
  BY <1>6, <1>7 DEF Offsets, Promise!Offsets
<1> QED BY <1>1, <1>8 DEF ValidateData, Promise!ValidateData

(* A step of the loops is the decision ValidationSpec promises, or nothing *)
(* its caller sees.                                                        *)
LEMMA StepDecides ==
  ASSUME Tracking, Tracking', [Next]_vars
  PROVE  [Promise!Decide]_<<layout, data, result>>
<1>1. CASE UNCHANGED vars
  BY <1>1 DEF vars
<1>2. CASE Next
  <2>1. layout' = layout /\ data' = data
    BY <1>2 DEF Next, ReadFixed, ReadVec, ReadCount, ReadString, StringsRead,
                UnknownType, CheckOffset, Return, Stop
  <2>2. pc # "done"
    BY <1>2 DEF Next, ReadFixed, ReadVec, ReadCount, ReadString, StringsRead,
                UnknownType, CheckOffset, Return
  <2>3. result = "running"
    BY <2>2 DEF Tracking, Reading, AtEnd
  <2>4. CASE pc' = "done"
    <3>1. result' = ValidateData(layout', data')
      BY <2>4 DEF Tracking, TrackEnd
    <3>2. result' = Promise!ValidateData(layout, data)
      BY <2>1, <3>1, SameVerdict
    <3> QED BY <2>1, <2>3, <3>2 DEF Promise!Decide
  <2>5. CASE pc' # "done"
    <3>1. result' = "running"
      BY <2>5 DEF Tracking, Reading, AtEnd
    <3> QED BY <2>1, <2>3, <3>1
  <2> QED BY <2>4, <2>5
<1> QED BY <1>1, <1>2

(* validate_data keeps its promise for every layout and all data: all its  *)
(* caller ever sees is one change of the result, from running to the       *)
(* verdict of ValidateData, an error or a panic as well as "ok". (That it  *)
(* comes to a verdict is the part of KeepsPromise left to the run.)        *)
THEOREM OneVerdict ==
  Spec => /\ result = "running"
          /\ [][Promise!Decide]_<<layout, data, result>>
<1>1. Init => Tracking
  BY InitEntered, InitTracking
<1>2. Tracking /\ [Next]_vars => Tracking'
  BY NextTracking
<1>3. Init => result = "running"
  BY DEF Init, Enter
<1>4. Tracking /\ Tracking' /\ [Next]_vars
        => [Promise!Decide]_<<layout, data, result>>
  BY StepDecides
<1> QED BY <1>1, <1>2, <1>3, <1>4, PTL DEF Spec

-----------------------------------------------------------------------------
(* Sequences of bytes, joined to one.                                      *)
Bytes == Seq(Byte)

(* The first n of the sequences seqs make joined[n].                       *)
Joins(joined, seqs) ==
  /\ joined \in [0 .. Len(seqs) -> Bytes]
  /\ joined[0] = <<>>
  /\ \A n \in 1 .. Len(seqs) : joined[n] = joined[n - 1] \o seqs[n]

LEMMA JoinsExist ==
  ASSUME NEW seqs \in Seq(Bytes)
  PROVE  \E joined : Joins(joined, seqs)
<1> DEFINE N == Len(seqs)
           step == [n \in 1 .. N |-> [x \in Bytes |-> x \o seqs[n]]]
           first == <<>>
<1>1. N \in Nat
  OBVIOUS
<1>2. first \in Bytes
  BY DEF Bytes
<1>3. \A n \in 1 .. N, x \in Bytes : x \o seqs[n] \in Bytes
  <2> TAKE n \in 1 .. N, x \in Bytes
  <2>1. seqs[n] \in Bytes
    BY ElementOfSeq
  <2> QED BY <2>1, ConcatProperties DEF Bytes
<1>4. step \in [1 .. N -> [Bytes -> Bytes]]
  BY <1>3
<1>5. \A n \in 1 .. N, x \in Bytes : step[n][x] = x \o seqs[n]
  OBVIOUS
<1> HIDE DEF step, first, N
<1>6. PICK f : Follows(f, Bytes, first, N, step)
  BY <1>1, <1>2, <1>4, Recursion
<1>7. /\ f \in [0 .. N -> Bytes]
      /\ f[0] = <<>>
      /\ \A n \in 1 .. N : f[n] = step[n][f[n - 1]]
  BY <1>6 DEF Follows, first
<1>8. \A n \in 1 .. N : f[n] = f[n - 1] \o seqs[n]
  <2> TAKE n \in 1 .. N
  <2>1. n - 1 \in 0 .. N
    BY <1>1
  <2>2. f[n - 1] \in Bytes
    BY <1>7, <2>1
  <2> QED BY <1>5, <1>7, <2>2
<1> QED BY <1>7, <1>8 DEF Joins, N

LEMMA FlattenValue ==
  ASSUME NEW seqs \in Seq(Bytes), NEW joined, Joins(joined, seqs)
  PROVE  FlattenSeq(seqs) = joined[Len(seqs)]
<1> DEFINE N == Len(seqs)
           Fun(g) == [i \in 1 .. N |->
                        IF i = 1 THEN seqs[i] ELSE g[i - 1] \o seqs[i]]
           flatten == CHOOSE g : g = Fun(g)
           f == [i \in 1 .. N |-> joined[i]]
<1>1. N \in Nat
  OBVIOUS
<1>2. FlattenSeq(seqs) = IF N = 0 THEN seqs ELSE flatten[N]
  BY DEF FlattenSeq
<1>3. CASE N = 0
  <2>1. seqs = <<>>
    BY <1>3, EmptySeq
  <2> QED BY <1>2, <1>3, <2>1 DEF Joins
<1>4. CASE N # 0
  <2>1. \A i \in 1 .. N : i # 1 => i - 1 \in 1 .. N
    BY <1>1
  <2>2. \A i \in 1 .. N : i = 1 => joined[i] = seqs[i]
    <3>1. 1 \in 1 .. N /\ 1 - 1 = 0
      BY <1>1, <1>4
    <3>2. joined[1] = <<>> \o seqs[1]
      BY <3>1 DEF Joins
    <3>3. seqs[1] \in Bytes
      BY <3>1, ElementOfSeq
    <3>4. <<>> \o seqs[1] = seqs[1]
      BY <3>3, ConcatEmptySeq DEF Bytes
    <3> QED BY <3>2, <3>4
  <2>3. \A i \in 1 .. N : i # 1 => joined[i] = f[i - 1] \o seqs[i]
    BY <2>1 DEF Joins
  <2>4. f = Fun(f)
    BY <2>2, <2>3
  <2> HIDE DEF Fun
  <2>5. flatten = Fun(flatten)
    BY <2>4
  <2> HIDE DEF flatten
  <2>6. flatten = [i \in 1 .. N |->
                     IF i = 1 THEN seqs[i] ELSE flatten[i - 1] \o seqs[i]]
    BY <2>5 DEF Fun
  <2>12. \A i \in 1 .. N : i # 1 => flatten[i] = flatten[i - 1] \o seqs[i]
    BY <2>6
  <2> DEFINE S == {n \in Nat : n + 1 <= N => flatten[n + 1] = joined[n + 1]}
  <2>7. 0 \in S
    <3>1. 1 \in 1 .. N /\ 0 + 1 = 1
      BY <1>1, <1>4
    <3>2. flatten[1] = seqs[1]
      BY <2>6, <3>1
    <3> QED BY <2>2, <3>1, <3>2
  <2>8. ASSUME NEW n \in Nat, n \in S
        PROVE  n + 1 \in S
    <3> SUFFICES ASSUME n + 1 + 1 <= N
                 PROVE  flatten[n + 1 + 1] = joined[n + 1 + 1]
      OBVIOUS
    <3> DEFINE k == n + 1 + 1
    <3>1. k \in 1 .. N /\ k - 1 = n + 1 /\ k # 1 /\ n + 1 <= N
      BY <1>1
    <3>2. flatten[n + 1] = joined[n + 1]
      BY <2>8, <3>1
    <3> HIDE DEF k
    <3>3. flatten[k] = flatten[n + 1] \o seqs[k]
      BY <2>12, <3>1
    <3>4. joined[k] = joined[n + 1] \o seqs[k]
      BY <3>1 DEF Joins
    <3>5. flatten[k] = joined[k]
      BY <3>2, <3>3, <3>4
    <3> QED BY <3>5 DEF k
  <2> HIDE DEF S
  <2>9. Nat \subseteq S
    BY <2>7, <2>8, Induction
  <2>10. N - 1 \in Nat /\ N - 1 + 1 = N /\ N <= N
    BY <1>1, <1>4
  <2>11. flatten[N] = joined[N]
    BY <2>9, <2>10 DEF S
  <2> QED BY <1>2, <1>4, <2>11
<1> QED BY <1>3, <1>4

LEMMA FlattenBytes ==
  ASSUME NEW seqs \in Seq(Bytes)
  PROVE  FlattenSeq(seqs) \in Bytes
<1>1. PICK joined : Joins(joined, seqs)
  BY JoinsExist
<1>2. FlattenSeq(seqs) = joined[Len(seqs)]
  BY <1>1, FlattenValue
<1>3. Len(seqs) \in 0 .. Len(seqs)
  OBVIOUS
<1> QED BY <1>1, <1>2, <1>3 DEF Joins

(* Parts of a concatenation.                                               *)
LEMMA ConcatLeft ==
  ASSUME NEW s \in Bytes, NEW t \in Bytes, NEW a \in Nat, NEW b \in Nat,
         a <= b, b <= Len(s)
  PROVE  SubSeq(s \o t, a + 1, b) = SubSeq(s, a + 1, b)
<1> DEFINE u == s \o t
           x == Slice(u, a, b)
           y == Slice(s, a, b)
<1>1. /\ u \in Bytes /\ Len(u) = Len(s) + Len(t)
      /\ \A i \in 1 .. Len(s) + Len(t) :
           u[i] = IF i <= Len(s) THEN s[i] ELSE t[i - Len(s)]
  BY ConcatProperties DEF Bytes
<1>2. Len(s) \in Nat /\ Len(t) \in Nat
  BY DEF Bytes
<1> HIDE DEF u
<1>3. b <= Len(u)
  BY <1>1, <1>2
<1>4. /\ x \in Bytes /\ Len(x) = b - a
      /\ \A i \in 1 .. b - a : x[i] = u[a + i]
  BY <1>1, <1>3, SliceProperties DEF Bytes
<1>5. /\ y \in Bytes /\ Len(y) = b - a
      /\ \A i \in 1 .. b - a : y[i] = s[a + i]
  BY SliceProperties DEF Bytes
<1> HIDE DEF x, y
<1>6. \A i \in 1 .. b - a : u[a + i] = s[a + i]
  <2> TAKE i \in 1 .. b - a
  <2>1. a + i \in 1 .. Len(s) + Len(t) /\ a + i <= Len(s)
    BY <1>2
  <2> QED BY <1>1, <2>1
<1>7. \A i \in 1 .. b - a : x[i] = y[i]
  BY <1>4, <1>5, <1>6
<1>8. x = y
  BY <1>4, <1>5, <1>7, SeqEqual DEF Bytes
<1> QED BY <1>8 DEF x, y, u, Slice

LEMMA ConcatRight ==
  ASSUME NEW s \in Bytes, NEW t \in Bytes
  PROVE  SubSeq(s \o t, Len(s) + 1, Len(s) + Len(t)) = t
<1> DEFINE u == s \o t
           a == Len(s)
           b == Len(s) + Len(t)
           x == Slice(u, a, b)
<1>1. /\ u \in Bytes /\ Len(u) = Len(s) + Len(t)
      /\ \A i \in 1 .. Len(s) + Len(t) :
           u[i] = IF i <= Len(s) THEN s[i] ELSE t[i - Len(s)]
  BY ConcatProperties DEF Bytes
<1>2. Len(s) \in Nat /\ Len(t) \in Nat
  BY DEF Bytes
<1>3. a \in Nat /\ b \in Nat /\ a <= b /\ b <= Len(u) /\ b - a = Len(t)
  BY <1>1, <1>2
<1> HIDE DEF u
<1>4. /\ x \in Bytes /\ Len(x) = b - a
      /\ \A i \in 1 .. b - a : x[i] = u[a + i]
  BY <1>1, <1>3, SliceProperties DEF Bytes
<1> HIDE DEF x
<1>5. \A i \in 1 .. Len(t) : x[i] = t[i]
  <2> TAKE i \in 1 .. Len(t)
  <2>1. /\ a + i \in 1 .. Len(s) + Len(t) /\ ~(a + i <= Len(s))
        /\ a + i - Len(s) = i
    BY <1>2
  <2> QED BY <1>1, <1>3, <1>4, <2>1
<1>6. x = t
  BY <1>3, <1>4, <1>5, SeqEqual DEF Bytes
<1> QED BY <1>6 DEF x, u, Slice

(* What is joined is cut again into what it was joined from.               *)
LEMMA JoinedParts ==
  ASSUME NEW seqs \in Seq(Bytes), NEW joined, Joins(joined, seqs),
         NEW m \in 0 .. Len(seqs)
  PROVE  \A i \in 1 .. m :
           /\ Len(joined[i - 1]) <= Len(joined[i])
           /\ Len(joined[i]) <= Len(joined[m])
           /\ SubSeq(joined[m], Len(joined[i - 1]) + 1, Len(joined[i]))
                = seqs[i]
<1> DEFINE N == Len(seqs)
           size(i) == Len(joined[i])
           Good(n) == \A i \in 1 .. n :
                        /\ size(i - 1) <= size(i)
                        /\ size(i) <= size(n)
                        /\ SubSeq(joined[n], size(i - 1) + 1, size(i)) = seqs[i]
           S == {n \in Nat : n <= N => Good(n)}
<1>1. N \in Nat
  OBVIOUS
<1>2. \A n \in 0 .. N : joined[n] \in Bytes /\ size(n) \in Nat
  BY DEF Joins, Bytes
<1>3. \A n \in 1 .. N : n - 1 \in 0 .. N /\ n \in 0 .. N
  BY <1>1
<1>9. \A n \in 1 .. N : joined[n] = joined[n - 1] \o seqs[n]
  BY DEF Joins
<1>4. 0 \in S
  <2>1. 1 .. 0 = {}
    OBVIOUS
  <2>2. Good(0)
    BY ONLY <2>1
  <2> HIDE DEF Good
  <2> QED BY <2>2
<1>5. ASSUME NEW n \in Nat, n \in S
      PROVE  n + 1 \in S
  <2> SUFFICES ASSUME n + 1 <= N
               PROVE  Good(n + 1)
    <3> HIDE DEF Good
    <3> QED OBVIOUS
  <2>1. n <= N /\ n + 1 \in 1 .. N /\ n + 1 - 1 = n /\ n \in 0 .. N
    BY <1>1
  <2>2. Good(n)
    <3> HIDE DEF Good
    <3> QED BY <1>5, <2>1
  <2>3. joined[n + 1] = joined[n] \o seqs[n + 1]
    <3> DEFINE k == n + 1
    <3>1. k \in 1 .. N /\ k - 1 = n
      BY <2>1
    <3> HIDE DEF k
    <3>2. joined[k] = joined[n] \o seqs[k]
      BY <1>9, <3>1
    <3> QED BY <3>2 DEF k
  <2>4. joined[n] \in Bytes /\ seqs[n + 1] \in Bytes
    BY <1>2, <2>1, ElementOfSeq
  <2>5. size(n + 1) = size(n) + Len(seqs[n + 1])
    BY <2>3, <2>4, ConcatProperties DEF Bytes
  <2>6. size(n) \in Nat /\ Len(seqs[n + 1]) \in Nat
    BY <2>4 DEF Bytes
  <2> SUFFICES ASSUME NEW i \in 1 .. n + 1
               PROVE  /\ size(i - 1) <= size(i)
                      /\ size(i) <= size(n + 1)
                      /\ SubSeq(joined[n + 1], size(i - 1) + 1, size(i)) = seqs[i]
    OBVIOUS
  <2>7. CASE i = n + 1
    <3>1. SubSeq(joined[n + 1], size(n) + 1, size(n) + Len(seqs[n + 1])) = seqs[n + 1]
      BY <2>3, <2>4, ConcatRight
    <3>2. i - 1 = n
      BY <2>7
    <3>3. size(i - 1) = size(n) /\ size(i) = size(n + 1)
      BY <2>7, <3>2
    <3> HIDE DEF size
    <3> QED BY <2>5, <2>6, <2>7, <3>1, <3>3
  <2>8. CASE i # n + 1
    <3>1. i \in 1 .. n /\ i \in 1 .. N
      BY <2>1, <2>8
    <3>2. /\ size(i - 1) <= size(i)
          /\ size(i) <= size(n)
          /\ SubSeq(joined[n], size(i - 1) + 1, size(i)) = seqs[i]
      BY <2>2, <3>1
    <3>3. size(i) \in Nat /\ size(i - 1) \in Nat
      BY <1>2, <1>3, <3>1
    <3>4. SubSeq(joined[n] \o seqs[n + 1], size(i - 1) + 1, size(i)) =
            SubSeq(joined[n], size(i - 1) + 1, size(i))
      <4> DEFINE a == size(i - 1)
                 b == size(i)
      <4>1. a \in Nat /\ b \in Nat /\ a <= b /\ b <= Len(joined[n])
        BY <3>2, <3>3
      <4> HIDE DEF a, b
      <4>2. SubSeq(joined[n] \o seqs[n + 1], a + 1, b) = SubSeq(joined[n], a + 1, b)
        BY <2>4, <4>1, ConcatLeft
      <4> QED BY <4>2 DEF a, b
    <3>5. size(i) <= size(n + 1)
      <4> HIDE DEF size
      <4> QED BY <2>5, <2>6, <3>2, <3>3
    <3>6. SubSeq(joined[n + 1], size(i - 1) + 1, size(i)) = seqs[i]
      BY <2>3, <3>2, <3>4
    <3> QED BY <3>2, <3>5, <3>6
  <2> QED BY <2>7, <2>8
<1> HIDE DEF S
<1>6. Nat \subseteq S
  BY <1>4, <1>5, Induction
<1>7. m \in Nat /\ m <= N
  BY <1>1
<1>8. Good(m)
  BY <1>6, <1>7 DEF S
<1> QED BY <1>8

(* What has the sizes of the fields has, joined, the sizes of the layout.  *)
LEMMA FlattenIsSized ==
  ASSUME NEW types \in Seq(Byte), NEW seqs \in Seq(Bytes),
         Len(types) = Len(seqs),
         \A i \in 1 .. Len(types) : ValueSized(types[i], seqs[i])
  PROVE  FlattenSeq(seqs) \in Bytes /\ LayoutSized(types, FlattenSeq(seqs))
<1> DEFINE N == Len(seqs)
           s == FlattenSeq(seqs)
<1>1. N \in Nat
  OBVIOUS
<1>2. PICK joined : Joins(joined, seqs)
  BY JoinsExist
<1> DEFINE cut == [i \in 0 .. N |-> Len(joined[i])]
<1>3. s = joined[N]
  BY <1>2, FlattenValue
<1>4. \A i \in 0 .. N : joined[i] \in Bytes /\ Len(joined[i]) \in Nat
  BY <1>2 DEF Joins, Bytes
<1>5. \A i \in 1 .. N :
        /\ Len(joined[i - 1]) <= Len(joined[i])
        /\ Len(joined[i]) <= Len(joined[N])
        /\ SubSeq(joined[N], Len(joined[i - 1]) + 1, Len(joined[i])) = seqs[i]
  <2>1. N \in 0 .. Len(seqs)
    BY <1>1
  <2> QED BY <1>2, <2>1, JoinedParts
<1>6. N \in 0 .. N /\ 0 \in 0 .. N /\ s \in Bytes
  BY <1>1, <1>3, <1>4
<1>7. cut[0] = 0
  <2>1. joined[0] = <<>> /\ Len(<<>>) = 0
    BY <1>2 DEF Joins
  <2> QED BY <1>6, <2>1
<1>8. cut[N] = Len(s)
  BY <1>3, <1>6
<1>9. \A i \in 1 .. N : i - 1 \in 0 .. N /\ i \in 0 .. N
  BY <1>1
<1>10. \A i \in 1 .. N : cut[i - 1] <= cut[i]
  BY <1>5, <1>9
<1>11. \A i \in 0 .. N : Len(joined[i]) <= Len(s)
  <2> TAKE i \in 0 .. N
  <2>1. CASE i = 0
    <3>1. joined[0] = <<>> /\ Len(<<>>) = 0
      BY <1>2 DEF Joins
    <3>2. Len(s) \in Nat
      BY <1>6 DEF Bytes
    <3> QED BY <2>1, <3>1, <3>2
  <2>2. CASE i # 0
    <3>1. i \in 1 .. N
      BY <1>1, <2>2
    <3> QED BY <1>3, <1>5, <3>1
  <2> QED BY <2>1, <2>2
<1>12. cut \in [0 .. N -> 0 .. Len(s)]
  <2>1. Len(s) \in Nat
    BY <1>6 DEF Bytes
  <2>2. \A i \in 0 .. N : Len(joined[i]) \in 0 .. Len(s)
    BY <1>4, <1>11, <2>1
  <2> QED BY <2>2
<1>13. \A i \in 1 .. N : Part(s, cut, i) = seqs[i]
  BY <1>3, <1>5, <1>9 DEF Part
<1> HIDE DEF cut, s
<1>14. cut \in Cuts(s, N)
  BY <1>7, <1>8, <1>10, <1>12 DEF Cuts
<1>15. LayoutSized(types, s)
  BY <1>13, <1>14 DEF LayoutSized
<1> QED BY <1>6, <1>15 DEF s

-----------------------------------------------------------------------------
(* Values as Borsh writes them.                                            *)
LEMMA PlainNames ==
  /\ \A i \in 1 .. 12 : Plain[i] # "String" /\ Plain[i] # "Vec"
  /\ \A i, j \in 1 .. 12 : Plain[i] = Plain[j] => i = j
BY DEF Plain

LEMMA PlainSize ==
  ASSUME NEW i \in 1 .. 12
  PROVE  (CHOOSE k \in 1 .. 12 : Plain[k] = Plain[i]) = i
<1> DEFINE k == CHOOSE k \in 1 .. 12 : Plain[k] = Plain[i]
<1>1. k \in 1 .. 12 /\ Plain[k] = Plain[i]
  OBVIOUS
<1> HIDE DEF k
<1>2. k = i
  BY <1>1, PlainNames
<1> QED BY <1>2 DEF k

(* Borsh: the bytes of a number and of a string.                           *)
LEMMA NumberBytes ==
  ASSUME NEW width \in Nat, NEW n \in Byte
  PROVE  /\ Number(width, n) \in Bytes
         /\ Len(Number(width, n)) = width
         /\ \A i \in 1 .. width : Number(width, n)[i] = IF i = 1 THEN n ELSE 0
<1>1. 0 \in Byte
  BY DEF Byte
<1>2. \A i \in 1 .. width : (IF i = 1 THEN n ELSE 0) \in Byte
  BY <1>1
<1> HIDE DEF Byte
<1>3. Number(width, n) \in [1 .. width -> Byte]
  BY <1>2 DEF Number
<1>4. Number(width, n) \in Seq(Byte)
  BY <1>3
<1>5. Len(Number(width, n)) = width
  BY <1>3
<1> QED BY <1>4, <1>5 DEF Number, Bytes

LEMMA PrefixedBytes ==
  ASSUME NEW n \in Byte, NEW t \in Bytes
  PROVE  /\ Number(4, n) \o t \in Bytes
         /\ Len(Number(4, n) \o t) = 4 + Len(t)
         /\ U32At(Number(4, n) \o t, 0) = n
<1> DEFINE p == Number(4, n)
           s == p \o t
<1>1. /\ p \in Bytes /\ Len(p) = 4
      /\ \A i \in 1 .. 4 : p[i] = IF i = 1 THEN n ELSE 0
  BY NumberBytes
<1> HIDE DEF p
<1>2. /\ s \in Bytes /\ Len(s) = 4 + Len(t)
      /\ \A i \in 1 .. 4 + Len(t) :
           s[i] = IF i <= 4 THEN p[i] ELSE t[i - 4]
  <2>1. /\ p \o t \in Bytes /\ Len(p \o t) = Len(p) + Len(t)
        /\ \A i \in 1 .. Len(p) + Len(t) :
             (p \o t)[i] = IF i <= Len(p) THEN p[i] ELSE t[i - Len(p)]
    BY <1>1, ConcatProperties DEF Bytes
  <2> QED BY <1>1, <2>1
<1>3. Len(t) \in Nat
  BY DEF Bytes
<1> HIDE DEF s
<1>4. \A i \in 1 .. 4 : i \in 1 .. 4 + Len(t) /\ i <= 4
  BY <1>3
<1>5. \A i \in 1 .. 4 : s[i] = p[i]
  BY <1>2, <1>4
<1>6. s[1] = n /\ s[2] = 0 /\ s[3] = 0 /\ s[4] = 0
  BY <1>1, <1>5
<1>7. U32At(s, 0) = s[1] + 256 * s[2] + 65536 * s[3] + 16777216 * s[4]
  BY DEF U32At
<1>8. n \in Nat
  BY DEF Byte
<1>9. U32At(s, 0) = n
  BY <1>6, <1>7, <1>8
<1> QED BY <1>2, <1>9 DEF s, p

LEMMA BorshPlain ==
  ASSUME NEW i \in 1 .. 12, NEW e, e[1] \in Byte
  PROVE  /\ BorshElement(Plain[i], e) \in Bytes
         /\ Len(BorshElement(Plain[i], e)) = ElementSize[i]
<1>1. BorshElement(Plain[i], e) = Number(ElementSize[i], e[1])
  BY PlainNames, PlainSize DEF BorshElement
<1>2. ElementSize[i] \in Nat
  BY DEF ElementSize
<1> QED BY <1>1, <1>2, NumberBytes

LEMMA BorshString ==
  ASSUME NEW e \in Bytes, Len(e) \in Byte
  PROVE  /\ BorshElement("String", e) \in Bytes
         /\ StringSized(BorshElement("String", e))
<1> DEFINE s == BorshElement("String", e)
<1>1. s = Number(4, Len(e)) \o e
  BY DEF BorshElement
<1>2. s \in Bytes /\ Len(s) = 4 + Len(e) /\ U32At(s, 0) = Len(e)
  BY <1>1, PrefixedBytes
<1>3. Len(e) \in Nat
  BY DEF Bytes
<1> HIDE DEF s
<1>4. StringSized(s)
  BY <1>2, <1>3 DEF StringSized
<1> QED BY <1>2, <1>4 DEF s

(* The texts and the numbers of the values.                                *)
LEMMA Texts ==
  \A e \in {<<>>, <<97>>} : e \in Bytes /\ Len(e) \in Byte
<1>1. <<>> \in Bytes /\ Len(<<>>) = 0
  BY DEF Bytes
<1>2. 97 \in Byte /\ 0 \in Byte /\ 1 \in Byte
  BY DEF Byte
<1>3. <<97>> \in Bytes /\ Len(<<97>>) = 1
  BY <1>2 DEF Bytes
<1> QED BY <1>1, <1>2, <1>3

(* A char is four bytes.                                                   *)
Letter == << <<97>>, <<0>>, <<0>>, <<0>> >>

LEMMA FourBytes == FlattenSeq(Letter) \in Bytes /\ Len(FlattenSeq(Letter)) = 4
<1> DEFINE elements == Letter
<1>1. /\ <<97>> \in Bytes /\ <<0>> \in Bytes
      /\ Len(<<97>>) = 1 /\ Len(<<0>>) = 1
  BY DEF Bytes, Byte
<1>2. elements \in Seq(Bytes) /\ Len(elements) = 4
  BY <1>1 DEF Letter
<1>3. \A i \in 1 .. 4 : Len(elements[i]) = 1
  BY <1>1 DEF Letter
<1> HIDE DEF elements
<1>4. PICK f : Joins(f, elements)
  BY <1>2, JoinsExist
<1>5. FlattenSeq(elements) = f[4]
  BY <1>2, <1>4, FlattenValue
<1>6. \A n \in 0 .. 4 : f[n] \in Bytes
  BY <1>2, <1>4 DEF Joins
<1>7. \A n \in 1 .. 4 : Len(f[n]) = Len(f[n - 1]) + 1
  <2> TAKE n \in 1 .. 4
  <2>1. f[n] = f[n - 1] \o elements[n]
    BY <1>2, <1>4 DEF Joins
  <2>2. elements[n] \in Bytes
    BY <1>2, ElementOfSeq
  <2>3. f[n - 1] \in Bytes
    BY <1>6
  <2>4. Len(f[n]) = Len(f[n - 1]) + Len(elements[n])
    BY <2>1, <2>2, <2>3, ConcatProperties DEF Bytes
  <2> QED BY <1>3, <2>4
<1>8. Len(f[0]) = 0
  BY <1>4 DEF Joins
<1>9. Len(f[1]) = 1 /\ Len(f[2]) = 2 /\ Len(f[3]) = 3 /\ Len(f[4]) = 4
  <2>1. Len(f[1]) = Len(f[1 - 1]) + 1 /\ Len(f[2]) = Len(f[2 - 1]) + 1
        /\ Len(f[3]) = Len(f[3 - 1]) + 1 /\ Len(f[4]) = Len(f[4 - 1]) + 1
    BY <1>7
  <2> QED BY <1>8, <2>1
<1> QED BY <1>5, <1>6, <1>9 DEF elements

-----------------------------------------------------------------------------
(* The types: the one of each code, and the arms of the derive macro.      *)
LEMMA ArmNames ==
  /\ DOMAIN MacroArms = 1 .. 13
  /\ \A i \in 1 .. 12 : MacroArms[i] = Plain[i]
  /\ MacroArms[13] = "String"
BY DEF MacroArms, Plain

LEMMA TypeOfCode ==
  /\ \A i \in 1 .. 13 : SchemaDataTypes[i] = <<MacroArms[i]>>
  /\ \A i \in 14 .. 25 : SchemaDataTypes[i] = <<"Vec", Plain[i - 13]>>
  /\ SchemaDataTypes[25] = <<"Vec", "char">>
  /\ SchemaDataTypes[26] = <<"Vec", "String">>
<1> DEFINE T(i) == CASE i \in 1 .. 12  -> <<Plain[i]>>
                     [] i = 13        -> <<"String">>
                     [] i \in 14 .. 25 -> <<"Vec", Plain[i - 13]>>
                     [] OTHER         -> <<"Vec", "String">>
<1>1. \A i \in 1 .. 26 : SchemaDataTypes[i] = T(i)
  BY DEF SchemaDataTypes
<1>2. ASSUME NEW i \in 1 .. 12
      PROVE  SchemaDataTypes[i] = <<Plain[i]>>
  <2>1. i \in 1 .. 12 /\ i # 13 /\ i \notin 14 .. 25
    OBVIOUS
  <2>2. T(i) = <<Plain[i]>>
    BY ONLY <2>1, Zenon
  <2>3. i \in 1 .. 26
    OBVIOUS
  <2> HIDE DEF T
  <2> QED BY <1>1, <2>2, <2>3
<1>3. ASSUME NEW i \in 14 .. 25
      PROVE  SchemaDataTypes[i] = <<"Vec", Plain[i - 13]>>
  <2>1. i \in 14 .. 25 /\ i # 13 /\ i \notin 1 .. 12
    OBVIOUS
  <2>2. T(i) = <<"Vec", Plain[i - 13]>>
    BY ONLY <2>1, Zenon
  <2>3. i \in 1 .. 26
    OBVIOUS
  <2> HIDE DEF T
  <2> QED BY <1>1, <2>2, <2>3
<1>4. SchemaDataTypes[13] = <<"String">>
  BY DEF SchemaDataTypes
<1>5. SchemaDataTypes[26] = <<"Vec", "String">>
  BY DEF SchemaDataTypes
<1>6. Plain[25 - 13] = "char"
  BY DEF Plain
<1>7. \A i \in 1 .. 13 : i \in 1 .. 12 \/ i = 13
  OBVIOUS
<1> HIDE DEF T
<1> QED BY <1>2, <1>3, <1>4, <1>5, <1>6, <1>7, ArmNames

LEMMA ArmsDiffer ==
  /\ \A i \in 1 .. 13 : MacroArms[i] # "Vec"
  /\ \A i, j \in 1 .. 13 : MacroArms[i] = MacroArms[j] => i = j
<1>1. \A i \in 1 .. 13 : i \in 1 .. 12 \/ i = 13
  OBVIOUS
<1> QED BY <1>1, ArmNames, PlainNames

LEMMA DerivedType ==
  ASSUME NEW type \in StructTypes, Derivable(type)
  PROVE  /\ DerivedCode(type) \in 0 .. 12
         /\ type = <<MacroArms[DerivedCode(type) + 1]>>
<1>1. PICK k \in 1 .. 26 : type = SchemaDataTypes[k]
  BY StructAssumption
<1>2. PICK m \in 1 .. 13 : type[1] = MacroArms[m]
  BY ArmNames DEF Derivable, Range
<1>3. k \in 1 .. 13
  <2>1. k \in 14 .. 25 => type[1] = "Vec"
    BY <1>1, TypeOfCode
  <2>2. k = 26 => type[1] = "Vec"
    BY <1>1, TypeOfCode
  <2>3. k \in 1 .. 13 \/ k \in 14 .. 25 \/ k = 26
    OBVIOUS
  <2> QED BY <1>2, <2>1, <2>2, <2>3, ArmsDiffer
<1> DEFINE i == CHOOSE i \in DOMAIN MacroArms : MacroArms[i] = type[1]
<1>4. i \in 1 .. 13 /\ MacroArms[i] = type[1]
  BY <1>2, ArmNames
<1>5. DerivedCode(type) = i - 1
  BY DEF DerivedCode
<1> HIDE DEF i
<1>6. type = <<MacroArms[k]>>
  BY <1>1, <1>3, TypeOfCode
<1>7. type = <<MacroArms[i]>>
  BY <1>4, <1>6
<1>8. DerivedCode(type) \in 0 .. 12 /\ DerivedCode(type) + 1 = i
  BY <1>4, <1>5
<1> QED BY <1>7, <1>8

LEMMA HelperTypeOfCode ==
  ASSUME NEW c \in 0 .. 12
  PROVE  compactLayoutMapping[c + 1] = <<MacroArms[c + 1]>>
<1>1. c + 1 \in 1 .. 26 /\ c + 1 # 25 /\ c + 1 # 26 /\ c + 1 \in 1 .. 13
  OBVIOUS
<1> DEFINE i == c + 1
<1>2. i \in 1 .. 26 /\ i # 25 /\ i # 26
  BY <1>1
<1> HIDE DEF i
<1>3. compactLayoutMapping[i] = SchemaDataTypes[i]
  BY ONLY <1>2, Zenon DEF compactLayoutMapping
<1> QED BY <1>1, <1>3, TypeOfCode DEF i

(* What Borsh makes of a value of a type the macro knows is a value of the *)
(* type with the macro's code, for the program.                            *)
LEMMA DerivedValue ==
  ASSUME NEW c \in 0 .. 12, NEW value \in ValuesOf(<<MacroArms[c + 1]>>)
  PROVE  /\ Borsh(<<MacroArms[c + 1]>>, value.elements) \in Bytes
         /\ ValueSized(c, Borsh(<<MacroArms[c + 1]>>, value.elements))
<1> DEFINE ident == MacroArms[c + 1]
           type == <<ident>>
           bytes == Borsh(type, value.elements)
<1>1. Len(type) = 1 /\ type[1] = ident
  OBVIOUS
<1>2. c + 1 \in 1 .. 13
  OBVIOUS
<1>3. CASE ident = "char"
  <2>1. c = 11
    <3>1. MacroArms[12] = "char"
      BY ArmNames DEF Plain
    <3> QED BY <1>2, <1>3, <3>1, ArmsDiffer
  <2>2. value.elements = Letter
    BY <1>3 DEF ValuesOf, Letter
  <2>3. bytes = FlattenSeq(value.elements)
    BY <1>3 DEF Borsh
  <2>4. bytes \in Bytes /\ Len(bytes) = 4
    BY <2>2, <2>3, FourBytes
  <2>5. ElementSize[12] = 4
    BY DEF ElementSize
  <2>6. ValueSized(11, bytes) <=> Len(bytes) = ElementSize[11 + 1]
    BY FixedValue
  <2>7. bytes \in Bytes /\ ValueSized(c, bytes)
    <3> HIDE DEF bytes, type, ident
    <3> QED BY <2>1, <2>4, <2>5, <2>6
  <2> QED BY <2>7
<1>4. CASE ident # "char"
  <2>1. type # <<"char">>
    BY <1>1, <1>4
  <2>2. value \in [kind : {Kind(ident)}, array : {FALSE},
                   elements : {<<e>> : e \in Elements(ident)}]
    <3> HIDE DEF type
    <3> QED BY <1>1, <2>1 DEF ValuesOf, type
  <2>3. PICK e \in Elements(ident) : value.elements = <<e>>
    BY <2>2
  <2>4. bytes = BorshElement(ident, e)
    <3>1. bytes = BorshElement(type[1], value.elements[1])
      <4> HIDE DEF type
      <4> QED BY <1>1, <2>1 DEF Borsh
    <3> QED BY <1>1, <2>3, <3>1
  <2>5. CASE c = 12
    <3>1. ident = "String"
      BY <2>5, ArmNames
    <3>2. e \in {<<>>, <<97>>}
      BY <2>3, <3>1 DEF Elements
    <3>3. bytes \in Bytes /\ StringSized(bytes)
      BY <2>4, <3>1, <3>2, Texts, BorshString
    <3>4. ValueSized(12, bytes) <=> StringSized(bytes)
      BY DEF ValueSized
    <3> QED BY <2>5, <3>3, <3>4
  <2>6. CASE c # 12
    <3>1. c \in 0 .. 11 /\ c + 1 \in 1 .. 12
      BY <2>6
    <3>2. ident = Plain[c + 1] /\ ident # "String"
      BY <3>1, ArmNames, PlainNames
    <3>3. e = <<1>>
      BY <1>4, <2>3, <3>2 DEF Elements
    <3>4. e[1] \in Byte
      BY <3>3 DEF Byte
    <3>5. bytes \in Bytes /\ Len(bytes) = ElementSize[c + 1]
      BY <2>4, <3>1, <3>2, <3>4, BorshPlain
    <3> QED BY <3>1, <3>5, FixedValue
  <2> QED BY <2>5, <2>6
<1> QED BY <1>3, <1>4

-----------------------------------------------------------------------------
(* The fields of an object schema, as they are gathered along the struct.  *)
Gathered(keys, fields, N) ==
  /\ keys \in [0 .. N -> Seq(1 .. N)]
  /\ keys[0] = <<>>
  /\ \A n \in 1 .. N :
       keys[n] = IF \E i \in 1 .. n - 1 : fields[i].name = fields[n].name
                   THEN keys[n - 1] ELSE Append(keys[n - 1], n)

LEMMA KeysValue ==
  ASSUME NEW fields, NEW N \in Nat, Len(fields) = N
  PROVE  \E keys : Gathered(keys, fields, N) /\ Keys(fields) = keys[N]
<1> DEFINE Seen(n) == \E i \in 1 .. n - 1 : fields[i].name = fields[n].name
           Next1(n, x) == IF Seen(n) THEN x ELSE Append(x, n)
           Indices == Seq(1 .. N)
           Fun(g) == [n \in 0 .. N |->
                        IF n = 0 THEN <<>>
                        ELSE IF \E i \in 1 .. n - 1 :
                                  fields[i].name = fields[n].name
                          THEN g[n - 1]
                        ELSE Append(g[n - 1], n)]
           keys == CHOOSE g : g = Fun(g)
           step == [n \in 1 .. N |-> [x \in Indices |-> Next1(n, x)]]
           first == <<>>
<1>1. first \in Indices
  OBVIOUS
<1>2. \A n \in 1 .. N, x \in Indices : Next1(n, x) \in Indices
  <2> TAKE n \in 1 .. N, x \in Indices
  <2>1. Append(x, n) \in Indices
    BY AppendProperties
  <2> QED BY <2>1
<1> HIDE DEF Next1, Indices
<1>3. step \in [1 .. N -> [Indices -> Indices]]
  BY <1>2
<1>4. \A n \in 1 .. N, x \in Indices : step[n][x] = Next1(n, x)
  OBVIOUS
<1> HIDE DEF step, first
<1>5. PICK f : Follows(f, Indices, first, N, step)
  BY <1>1, <1>3, Recursion
<1>6. /\ f \in [0 .. N -> Indices]
      /\ f[0] = <<>>
      /\ \A n \in 1 .. N : f[n] = step[n][f[n - 1]]
  BY <1>5 DEF Follows, first
<1>7. \A n \in 1 .. N : f[n] = Next1(n, f[n - 1])
  <2> TAKE n \in 1 .. N
  <2>1. n - 1 \in 0 .. N
    OBVIOUS
  <2> QED BY <1>4, <1>6, <2>1
<1>8. f = Fun(f)
  <2> SUFFICES ASSUME NEW n \in 0 .. N
               PROVE  f[n] = Fun(f)[n]
    BY <1>6
  <2>1. CASE n = 0
    BY <1>6, <2>1
  <2>2. CASE n # 0
    <3>1. n \in 1 .. N
      BY <2>2
    <3> QED BY <1>7, <2>2, <3>1 DEF Next1
  <2> QED BY <2>1, <2>2
<1> HIDE DEF Fun
<1>9. keys = Fun(keys)
  BY <1>8
<1> HIDE DEF keys
<1>10. keys = [n \in 0 .. N |->
                 IF n = 0 THEN <<>>
                 ELSE IF \E i \in 1 .. n - 1 : fields[i].name = fields[n].name
                   THEN keys[n - 1]
                 ELSE Append(keys[n - 1], n)]
  BY <1>9 DEF Fun
<1>11. \A n \in 1 .. N : keys[n] = Next1(n, keys[n - 1])
  <2> TAKE n \in 1 .. N
  <2>1. n \in 0 .. N /\ n # 0
    OBVIOUS
  <2> QED BY <1>10, <2>1 DEF Next1
<1>12. keys[0] = <<>> /\ DOMAIN keys = 0 .. N
  <2>1. 0 \in 0 .. N
    OBVIOUS
  <2> QED BY <1>10, <2>1
<1> DEFINE S == {n \in Nat : n <= N => keys[n] \in Indices}
<1>13. 0 \in S
  BY <1>1, <1>12 DEF first
<1>14. ASSUME NEW n \in Nat, n \in S
       PROVE  n + 1 \in S
  <2> SUFFICES ASSUME n + 1 <= N
               PROVE  keys[n + 1] \in Indices
    OBVIOUS
  <2> DEFINE k == n + 1
  <2>1. k \in 1 .. N /\ k - 1 = n /\ n <= N
    OBVIOUS
  <2>2. keys[n] \in Indices
    BY <1>14, <2>1
  <2> HIDE DEF k
  <2>3. keys[k] = Next1(k, keys[n])
    BY <1>11, <2>1
  <2>4. keys[k] \in Indices
    BY <1>2, <2>1, <2>2, <2>3
  <2> QED BY <2>4 DEF k
<1> HIDE DEF S
<1>15. Nat \subseteq S
  BY <1>13, <1>14, Induction
<1>16. \A n \in 0 .. N : keys[n] \in Indices
  <2>1. \A n \in 0 .. N : n \in Nat /\ n <= N
    OBVIOUS
  <2> QED BY <1>15, <2>1 DEF S
<1>17. keys \in [0 .. N -> Indices]
  BY <1>10, <1>16
<1>18. Gathered(keys, fields, N)
  BY <1>11, <1>12, <1>17 DEF Gathered, Next1, Indices
<1>19. Keys(fields) = keys[N]
  BY DEF Keys, keys, Fun
<1> QED BY <1>18, <1>19

LEMMA LastExists ==
  ASSUME NEW fields, NEW N \in Nat, DOMAIN fields = 1 .. N, NEW i \in 1 .. N
  PROVE  LastOf(fields, i) \in 1 .. N
<1> DEFINE Same(j) == fields[j].name = fields[i].name
           T == {n \in Nat : \A k \in 1 .. N : Same(k) => k <= n}
<1> HIDE DEF Same
<1>1. N \in T
  OBVIOUS
<1>2. T \subseteq Nat /\ T # {}
  BY <1>1
<1> HIDE DEF T
<1>3. PICK m \in T : \A n \in T : m <= n
  BY <1>2, LeastElement
<1>4. m \in Nat /\ \A k \in 1 .. N : Same(k) => k <= m
  BY DEF T
<1>5. m \in 1 .. N
  <2>1. m <= N
    BY <1>1, <1>3
  <2>2. i <= m
    BY <1>4 DEF Same
  <2> QED BY <1>4, <2>1, <2>2
<1>6. Same(m)
  <2> SUFFICES ASSUME ~Same(m)
               PROVE  FALSE
    OBVIOUS
  <2>1. m - 1 \in Nat
    BY <1>5
  <2>2. \A k \in 1 .. N : Same(k) => k <= m - 1
    <3> TAKE k \in 1 .. N
    <3> HAVE Same(k)
    <3>1. k <= m /\ k # m
      BY <1>4
    <3> QED BY <1>4, <3>1
  <2>3. m - 1 \in T
    BY <2>1, <2>2 DEF T
  <2>4. m <= m - 1
    BY <1>3, <2>3
  <2> QED BY <1>4, <2>4
<1>7. LastOf(fields, i) =
        CHOOSE j \in DOMAIN fields :
          Same(j) /\ \A k \in DOMAIN fields : Same(k) => k <= j
  BY DEF LastOf, Same
<1> QED BY <1>4, <1>5, <1>6, <1>7

(* The fields of a struct, whose names are distinct, are those of the      *)
(* object the helper makes.                                                *)
LEMMA DistinctLast ==
  ASSUME NEW fields, NEW N \in Nat, DOMAIN fields = 1 .. N, Distinct(fields),
         NEW i \in 1 .. N
  PROVE  LastOf(fields, i) = i
<1> DEFINE IsLast(j) == /\ fields[j].name = fields[i].name
                        /\ \A k \in DOMAIN fields :
                             fields[k].name = fields[i].name => k <= j
<1>1. \A k \in 1 .. N : fields[k].name = fields[i].name => k = i
  BY DEF Distinct
<1>2. IsLast(i)
  BY <1>1
<1>3. \A j \in DOMAIN fields : IsLast(j) => j = i
  BY <1>1
<1>4. LastOf(fields, i) = CHOOSE j \in DOMAIN fields : IsLast(j)
  BY DEF LastOf
<1> HIDE DEF IsLast
<1> QED BY <1>2, <1>3, <1>4

LEMMA DistinctKeys ==
  ASSUME NEW fields, NEW N \in Nat, DOMAIN fields = 1 .. N, Len(fields) = N,
         Distinct(fields)
  PROVE  Keys(fields) = [i \in 1 .. N |-> i]
<1> DEFINE first(n) == [i \in 1 .. n |-> i]
<1>1. PICK keys : Gathered(keys, fields, N) /\ Keys(fields) = keys[N]
  BY KeysValue
<1>2. \A n \in 1 .. N : first(n) = Append(first(n - 1), n)
  <2> TAKE n \in 1 .. N
  <2>1. first(n - 1) \in Seq(Nat) /\ Len(first(n - 1)) = n - 1
        /\ first(n) \in Seq(Nat) /\ Len(first(n)) = n
    OBVIOUS
  <2>2. /\ Append(first(n - 1), n) \in Seq(Nat)
        /\ Len(Append(first(n - 1), n)) = Len(first(n - 1)) + 1
        /\ \A i \in 1 .. Len(first(n - 1)) :
             Append(first(n - 1), n)[i] = first(n - 1)[i]
        /\ Append(first(n - 1), n)[Len(first(n - 1)) + 1] = n
    <3> HIDE DEF first
    <3> QED BY <2>1, AppendProperties
  <2>3. \A i \in 1 .. n : first(n)[i] = Append(first(n - 1), n)[i]
    <3> TAKE i \in 1 .. n
    <3>1. CASE i = n
      <4>1. n - 1 + 1 = n
        OBVIOUS
      <4> QED BY <2>1, <2>2, <3>1, <4>1
    <3>2. CASE i # n
      <4>1. i \in 1 .. n - 1
        BY <3>2
      <4> QED BY <2>1, <2>2, <4>1
    <3> QED BY <3>1, <3>2
  <2> HIDE DEF first
  <2>4. Len(Append(first(n - 1), n)) = n
    BY <2>1, <2>2
  <2> QED BY <2>1, <2>2, <2>3, <2>4, SeqEqual
<1>3. first(0) = <<>>
  OBVIOUS
<1> HIDE DEF first
<1>4. \A n \in 1 .. N : keys[n] = Append(keys[n - 1], n)
  <2> TAKE n \in 1 .. N
  <2>1. ~(\E i \in 1 .. n - 1 : fields[i].name = fields[n].name)
    <3> SUFFICES ASSUME NEW i \in 1 .. n - 1
                 PROVE  fields[i].name # fields[n].name
      OBVIOUS
    <3>1. i \in 1 .. N /\ i # n
      OBVIOUS
    <3> QED BY <3>1 DEF Distinct
  <2> QED BY <1>1, <2>1 DEF Gathered
<1> DEFINE S == {n \in Nat : n <= N => keys[n] = first(n)}
<1>5. 0 \in S
  BY <1>1, <1>3 DEF Gathered
<1>6. ASSUME NEW n \in Nat, n \in S
      PROVE  n + 1 \in S
  <2> SUFFICES ASSUME n + 1 <= N
               PROVE  keys[n + 1] = first(n + 1)
    OBVIOUS
  <2> DEFINE k == n + 1
  <2>1. k \in 1 .. N /\ k - 1 = n /\ n <= N
    OBVIOUS
  <2>2. keys[n] = first(n)
    BY <1>6, <2>1
  <2> HIDE DEF k
  <2>3. keys[k] = Append(keys[n], k) /\ first(k) = Append(first(n), k)
    BY <1>2, <1>4, <2>1
  <2>4. keys[k] = first(k)
    BY <2>2, <2>3
  <2> QED BY <2>4 DEF k
<1> HIDE DEF S
<1>7. Nat \subseteq S
  BY <1>5, <1>6, Induction
<1>8. keys[N] = first(N)
  BY <1>7 DEF S
<1> QED BY <1>1, <1>8 DEF first

-----------------------------------------------------------------------------
(* A struct as the derive macro takes it, and the values of its fields.    *)
Derived(fields, object, types) ==
  /\ fields \in Seq([name : FieldName, type : StructTypes])
  /\ Distinct(fields)
  /\ \A i \in DOMAIN fields : Derivable(fields[i].type)
  /\ \A i \in DOMAIN fields : object[i] \in ValuesOf(fields[i].type)
  /\ types = [i \in DOMAIN fields |-> DerivedCode(fields[i].type)]

LEMMA DerivedFields ==
  ASSUME NEW fields, NEW object, NEW types, Derived(fields, object, types)
  PROVE  /\ types \in Seq(Byte)
         /\ Len(types) = Len(fields)
         /\ RustData(fields, object) \in Bytes
         /\ LayoutSized(types, RustData(fields, object))
<1> DEFINE N == Len(fields)
           bytes(i) == Borsh(fields[i].type, object[i].elements)
           seqs == [i \in DOMAIN fields |-> bytes(i)]
<1>1. N \in Nat /\ DOMAIN fields = 1 .. N
  BY DEF Derived
<1>2. ASSUME NEW i \in 1 .. N
      PROVE  /\ types[i] \in 0 .. 12
             /\ bytes(i) \in Bytes
             /\ ValueSized(types[i], bytes(i))
  <2> DEFINE t == fields[i].type
             c == DerivedCode(t)
  <2>1. fields[i] \in [name : FieldName, type : StructTypes]
    BY ElementOfSeq DEF Derived
  <2>2. t \in StructTypes /\ Derivable(t) /\ object[i] \in ValuesOf(t)
        /\ types[i] = c
    BY <1>1, <2>1 DEF Derived
  <2> HIDE DEF t
  <2>3. c \in 0 .. 12 /\ t = <<MacroArms[c + 1]>>
    BY <2>2, DerivedType
  <2> HIDE DEF c
  <2>4. object[i] \in ValuesOf(<<MacroArms[c + 1]>>)
    BY <2>2, <2>3
  <2>5. /\ Borsh(<<MacroArms[c + 1]>>, object[i].elements) \in Bytes
        /\ ValueSized(c, Borsh(<<MacroArms[c + 1]>>, object[i].elements))
    BY <2>3, <2>4, DerivedValue
  <2>6. bytes(i) = Borsh(<<MacroArms[c + 1]>>, object[i].elements)
    BY <2>3 DEF t
  <2> HIDE DEF bytes
  <2> QED BY <2>2, <2>3, <2>5, <2>6
<1>3. RustData(fields, object) = FlattenSeq(seqs)
  BY DEF RustData
<1>4. types \in Seq(Byte) /\ Len(types) = N
  <2>1. types = [i \in 1 .. N |-> types[i]]
    BY <1>1 DEF Derived
  <2>2. \A i \in 1 .. N : types[i] \in Byte
    BY <1>2 DEF Byte
  <2> HIDE DEF Byte
  <2> QED BY <1>1, <2>1, <2>2
<1> HIDE DEF bytes
<1>5. seqs \in Seq(Bytes) /\ Len(seqs) = N
  <2>1. seqs \in [1 .. N -> Bytes]
    BY <1>1, <1>2
  <2> HIDE DEF seqs
  <2> QED BY <1>1, <2>1
<1>6. \A i \in 1 .. N : ValueSized(types[i], seqs[i])
  BY <1>1, <1>2
<1> HIDE DEF seqs
<1>7. FlattenSeq(seqs) \in Bytes /\ LayoutSized(types, FlattenSeq(seqs))
  BY <1>4, <1>5, <1>6, FlattenIsSized
<1> QED BY <1>3, <1>4, <1>7

(* For such a struct, the helper makes of an object what Borsh makes of    *)
(* the struct.                                                             *)
LEMMA HelperIsBorsh ==
  ASSUME NEW fields, NEW object, NEW types, Derived(fields, object, types)
  PROVE  serializeAttestationData(fields, types, object)
           = RustData(fields, object)
<1> DEFINE N == Len(fields)
           keys == Keys(fields)
           made(n) == Borsh(HelperType(fields, types, keys[n]),
                            object[LastOf(fields, keys[n])].elements)
<1>1. N \in Nat /\ DOMAIN fields = 1 .. N
  BY DEF Derived
<1>2. keys = [i \in 1 .. N |-> i]
  BY <1>1, DistinctKeys DEF Derived
<1>3. ASSUME NEW n \in 1 .. N
      PROVE  made(n) = Borsh(fields[n].type, object[n].elements)
  <2> DEFINE t == fields[n].type
             c == DerivedCode(t)
  <2>1. keys[n] = n
    BY <1>2
  <2>2. LastOf(fields, n) = n
    BY <1>1, DistinctLast DEF Derived
  <2>3. fields[n] \in [name : FieldName, type : StructTypes]
    BY ElementOfSeq DEF Derived
  <2>4. t \in StructTypes /\ Derivable(t) /\ types[n] = c
    BY <1>1, <2>3 DEF Derived
  <2> HIDE DEF t
  <2>5. c \in 0 .. 12 /\ t = <<MacroArms[c + 1]>>
    BY <2>4, DerivedType
  <2> HIDE DEF c
  <2>6. compactLayoutMapping[c + 1] = t
    BY <2>5, HelperTypeOfCode
  <2>7. HelperType(fields, types, n) = t
    BY <2>2, <2>4, <2>6 DEF HelperType
  <2> HIDE DEF keys
  <2> QED BY <2>1, <2>2, <2>7 DEF t
<1>4. DOMAIN keys = 1 .. N
  BY <1>2
<1>5. serializeAttestationData(fields, types, object) =
        FlattenSeq([n \in DOMAIN keys |-> made(n)])
  BY DEF serializeAttestationData
<1>6. RustData(fields, object) =
        FlattenSeq([n \in 1 .. N |-> Borsh(fields[n].type, object[n].elements)])
  BY <1>1 DEF RustData
<1> HIDE DEF made, keys
<1>7. [n \in DOMAIN keys |-> made(n)] =
        [n \in 1 .. N |-> Borsh(fields[n].type, object[n].elements)]
  BY <1>3, <1>4
<1> QED BY <1>5, <1>6, <1>7

-----------------------------------------------------------------------------
(* Every tool, of every struct: what is validated are bytes.               *)
(* A vector of at most two elements that are bytes each.                   *)
LEMMA VecBytes ==
  ASSUME NEW ident, NEW E, NEW elements \in BoundedSeq(E, 2),
         \A e \in E : BorshElement(ident, e) \in Bytes
  PROVE  Borsh(<<"Vec", ident>>, elements) \in Bytes
<1> DEFINE type == <<"Vec", ident>>
           seqs == [i \in DOMAIN elements |-> BorshElement(type[2], elements[i])]
<1>1. Len(type) # 1 /\ type[2] = ident /\ type # <<"char">>
  OBVIOUS
<1>2. PICK m \in 0 .. 2 : elements \in [1 .. m -> E]
  BY DEF BoundedSeq, SeqOf
<1>3. Len(elements) \in Byte
  <2>1. m \in Nat /\ m \in Byte
    BY DEF Byte
  <2>2. Len(elements) = m
    BY <1>2, <2>1
  <2> QED BY <2>1, <2>2
<1>4. seqs \in [1 .. m -> Bytes]
  BY <1>1, <1>2
<1>5. Borsh(type, elements) = Number(4, Len(elements)) \o FlattenSeq(seqs)
  <2> HIDE DEF type
  <2> QED BY ONLY <1>1, Zenon DEF Borsh, seqs
<1> HIDE DEF seqs, type
<1>6. seqs \in Seq(Bytes)
  BY <1>4
<1>7. FlattenSeq(seqs) \in Bytes
  BY <1>6, FlattenBytes
<1> QED BY <1>3, <1>5, <1>7, PrefixedBytes DEF type

(* The values of a vector.                                                 *)
LEMMA VecValues ==
  ASSUME NEW ident, NEW value \in ValuesOf(<<"Vec", ident>>)
  PROVE  /\ value.elements \in BoundedSeq(Elements(ident), 2)
         /\ value.kind = Kind(ident)
<1> DEFINE type == <<"Vec", ident>>
<1>1. Len(type) # 1 /\ type[2] = ident /\ type # <<"char">>
  OBVIOUS
<1>2. value \in [kind : {Kind(ident)}, array : {TRUE},
                 elements : BoundedSeq(Elements(ident), 2)]
  <2> HIDE DEF type
  <2> QED BY <1>1 DEF ValuesOf, type
<1> QED BY <1>2

LEMMA BorshBytes ==
  ASSUME NEW k \in 1 .. 26, k # 25, NEW value \in ValuesOf(SchemaDataTypes[k])
  PROVE  Borsh(SchemaDataTypes[k], value.elements) \in Bytes
<1>1. CASE k \in 1 .. 13
  <2>1. k - 1 \in 0 .. 12 /\ k - 1 + 1 = k
    BY <1>1
  <2>2. SchemaDataTypes[k] = <<MacroArms[k - 1 + 1]>>
    BY <1>1, <2>1, TypeOfCode
  <2> QED BY <2>1, <2>2, DerivedValue
<1>2. CASE k \in 14 .. 24
  <2> DEFINE ident == Plain[k - 13]
  <2>1. k - 13 \in 1 .. 12 /\ k - 13 # 12 /\ k \in 14 .. 25
    BY <1>2
  <2>2. SchemaDataTypes[k] = <<"Vec", ident>>
    BY <2>1, TypeOfCode
  <2>3. ident # "String" /\ ident # "char"
    <3>1. Plain[12] = "char" /\ 12 \in 1 .. 12
      BY DEF Plain
    <3> QED BY <2>1, <3>1, PlainNames
  <2>4. \A e \in Elements(ident) : e[1] \in Byte
    <3>1. Elements(ident) = {<<1>>}
      BY ONLY <2>3, Zenon DEF Elements
    <3>2. <<1>>[1] \in Byte
      BY DEF Byte
    <3> QED BY <3>1, <3>2
  <2>5. \A e \in Elements(ident) : BorshElement(ident, e) \in Bytes
    BY <2>1, <2>4, BorshPlain
  <2> HIDE DEF ident
  <2> QED BY <2>2, <2>5, VecValues, VecBytes
<1>3. CASE k = 26
  <2>1. Elements("String") = {<<>>, <<97>>}
    BY DEF Elements
  <2>2. \A e \in Elements("String") : BorshElement("String", e) \in Bytes
    BY <2>1, Texts, BorshString
  <2> QED BY <1>3, <2>2, TypeOfCode, VecValues, VecBytes
<1> QED BY <1>1, <1>2, <1>3

(* The helper takes every type for what it is but two, and gives up on one *)
(* of those.                                                               *)
LEMMA HelperBytes ==
  ASSUME NEW k \in 1 .. 26, NEW value \in ValuesOf(SchemaDataTypes[k]),
         Fits(compactLayoutMapping[k], value)
  PROVE  Borsh(compactLayoutMapping[k], value.elements) \in Bytes
<1>1. CASE k \in 1 .. 24
  <2>1. k # 25 /\ k # 26
    BY <1>1
  <2>2. compactLayoutMapping[k] = SchemaDataTypes[k]
    BY ONLY <2>1, k \in 1 .. 26, Zenon DEF compactLayoutMapping
  <2> QED BY <2>1, <2>2, BorshBytes
<1>2. CASE k = 25
  <2>1. compactLayoutMapping[25] = <<"Vec", "String">>
    BY DEF compactLayoutMapping
  <2>2. value.elements \in BoundedSeq(Elements("char"), 2)
    BY <1>2, TypeOfCode, VecValues
  <2>3. Elements("char") = {<<97>>}
    BY DEF Elements
  <2>4. \A e \in Elements("char") : BorshElement("String", e) \in Bytes
    BY <2>3, Texts, BorshString
  <2> QED BY <1>2, <2>1, <2>2, <2>4, VecBytes
<1>3. CASE k = 26
  <2>1. compactLayoutMapping[26] = <<"char">>
    BY DEF compactLayoutMapping
  <2>2. value.kind = "string"
    BY <1>3, TypeOfCode, VecValues DEF Kind
  <2>3. value.kind = "number"
    BY <1>3, <2>1 DEF Fits
  <2> QED BY <2>2, <2>3
<1> QED BY <1>1, <1>2, <1>3

(* A struct, the values of its fields and a layout written by hand.        *)
Written(fields, object, types) ==
  /\ fields \in Seq([name : FieldName, type : StructTypes])
  /\ \A i \in DOMAIN fields : object[i] \in ValuesOf(fields[i].type)
  /\ types = [i \in DOMAIN fields |-> Code(fields[i].type)]

HasCode(fields, object, types, i) ==
  \E k \in 1 .. 26 : /\ types[i] = k - 1
                     /\ fields[i].type = SchemaDataTypes[k]
                     /\ object[i] \in ValuesOf(SchemaDataTypes[k])

LEMMA WrittenField ==
  ASSUME NEW fields, NEW object, NEW types, Written(fields, object, types),
         NEW i \in 1 .. Len(fields)
  PROVE  HasCode(fields, object, types, i)
<1> DEFINE type == fields[i].type
           k == CHOOSE k \in 1 .. 26 : SchemaDataTypes[k] = type
<1>1. i \in DOMAIN fields
  BY DEF Written
<1>2. fields[i] \in [name : FieldName, type : StructTypes]
  BY ElementOfSeq DEF Written
<1>3. \E m \in 1 .. 26 : SchemaDataTypes[m] = type
  BY <1>2, StructAssumption
<1>4. k \in 1 .. 26 /\ SchemaDataTypes[k] = type
  BY <1>3
<1>5. types[i] = Code(type)
  BY <1>1 DEF Written
<1>6. Code(type) = k - 1
  BY DEF Code
<1>7. object[i] \in ValuesOf(type)
  BY <1>1 DEF Written
<1> HIDE DEF k, type
<1>8. /\ types[i] = k - 1 /\ type = SchemaDataTypes[k]
      /\ object[i] \in ValuesOf(SchemaDataTypes[k])
  BY <1>4, <1>5, <1>6, <1>7
<1> QED BY <1>4, <1>8 DEF type, HasCode

LEMMA WrittenBytes ==
  ASSUME NEW fields, NEW object, NEW types, Written(fields, object, types)
  PROVE  /\ types \in Seq(Byte)
         /\ RustSerializes(fields) => RustData(fields, object) \in Bytes
         /\ HelperSerializes(fields, types, object)
              => serializeAttestationData(fields, types, object) \in Bytes
<1> DEFINE N == Len(fields)
<1>1. N \in Nat /\ DOMAIN fields = 1 .. N
  BY DEF Written
<1>2. types \in Seq(Byte)
  <2>1. \A i \in 1 .. N : types[i] \in Byte
    <3> TAKE i \in 1 .. N
    <3>1. HasCode(fields, object, types, i)
      BY WrittenField
    <3> QED BY <3>1 DEF HasCode, Byte
  <2>2. types = [i \in 1 .. N |-> types[i]]
    BY <1>1 DEF Written
  <2> HIDE DEF Byte
  <2> QED BY <1>1, <2>1, <2>2
<1>3. ASSUME RustSerializes(fields)
      PROVE  RustData(fields, object) \in Bytes
  <2> DEFINE bytes(i) == Borsh(fields[i].type, object[i].elements)
             seqs == [i \in DOMAIN fields |-> bytes(i)]
  <2>1. ASSUME NEW i \in 1 .. N
        PROVE  bytes(i) \in Bytes
    <3>1. PICK k \in 1 .. 26 : /\ fields[i].type = SchemaDataTypes[k]
                               /\ object[i] \in ValuesOf(SchemaDataTypes[k])
      <4>1. HasCode(fields, object, types, i)
        BY WrittenField
      <4> QED BY <4>1 DEF HasCode
    <3>2. k # 25
      <4>1. <<"Vec", "char">>[2] = "char" /\ 2 \in DOMAIN <<"Vec", "char">>
        OBVIOUS
      <4>2. "char" \in Range(<<"Vec", "char">>)
        BY <4>1 DEF Range
      <4>3. "char" \notin Range(fields[i].type)
        BY <1>1, <1>3 DEF RustSerializes
      <4> QED BY <3>1, <4>2, <4>3, TypeOfCode
    <3> QED BY <3>1, <3>2, BorshBytes
  <2>2. RustData(fields, object) = FlattenSeq(seqs)
    BY DEF RustData
  <2> HIDE DEF bytes
  <2>3. seqs \in [1 .. N -> Bytes]
    BY <1>1, <2>1
  <2> HIDE DEF seqs
  <2>4. seqs \in Seq(Bytes)
    BY <1>1, <2>3
  <2> QED BY <2>2, <2>4, FlattenBytes
<1>4. ASSUME HelperSerializes(fields, types, object)
      PROVE  serializeAttestationData(fields, types, object) \in Bytes
  <2> DEFINE keys == Keys(fields)
             made(n) == Borsh(HelperType(fields, types, keys[n]),
                              object[LastOf(fields, keys[n])].elements)
             seqs == [n \in DOMAIN keys |-> made(n)]
  <2>1. PICK along : Gathered(along, fields, N) /\ keys = along[N]
    BY <1>1, KeysValue
  <2>2. keys \in Seq(1 .. N)
    <3>1. N \in 0 .. N
      BY <1>1
    <3> HIDE DEF keys
    <3> QED BY <2>1, <3>1 DEF Gathered
  <2>3. Len(keys) \in Nat /\ DOMAIN keys = 1 .. Len(keys)
    <3> HIDE DEF keys
    <3> QED BY <2>2
  <2>4. ASSUME NEW n \in 1 .. Len(keys)
        PROVE  made(n) \in Bytes
    <3> DEFINE i == keys[n]
               l == LastOf(fields, i)
    <3>1. i \in 1 .. N
      <4> HIDE DEF keys
      <4> QED BY <2>2, ElementOfSeq
    <3> HIDE DEF i
    <3>2. l \in 1 .. N
      BY <1>1, <3>1, LastExists
    <3>3. HelperType(fields, types, i) = compactLayoutMapping[types[l] + 1]
      BY DEF HelperType
    <3>4. Fits(HelperType(fields, types, i), object[l])
      BY <1>1, <1>4, <3>1 DEF HelperSerializes
    <3> HIDE DEF l
    <3>5. PICK k \in 1 .. 26 : /\ types[l] = k - 1
                               /\ object[l] \in ValuesOf(SchemaDataTypes[k])
      <4>1. HasCode(fields, object, types, l)
        BY <3>2, WrittenField
      <4> QED BY <4>1 DEF HasCode
    <3>6. types[l] + 1 = k
      <4>1. types[l] = k - 1 /\ k \in Int
        BY <3>5
      <4> QED BY ONLY <4>1
    <3>7. Borsh(compactLayoutMapping[k], object[l].elements) \in Bytes
      BY <3>3, <3>4, <3>5, <3>6, HelperBytes
    <3> HIDE DEF keys
    <3> QED BY <3>3, <3>6, <3>7 DEF l, i
  <2>5. serializeAttestationData(fields, types, object) = FlattenSeq(seqs)
    BY DEF serializeAttestationData
  <2> HIDE DEF made, keys
  <2>6. seqs \in [1 .. Len(keys) -> Bytes]
    BY <2>3, <2>4
  <2> HIDE DEF seqs
  <2>7. seqs \in Seq(Bytes)
    BY <2>3, <2>6
  <2> QED BY <2>5, <2>7, FlattenBytes
<1> QED BY <1>2, <1>3, <1>4

(* The struct of a state the tools begin in.                               *)
LEMMA StructType ==
  ASSUME struct \in BoundedSeq([name : FieldName, type : StructTypes], MaxFields)
  PROVE  struct \in Seq([name : FieldName, type : StructTypes])
<1> DEFINE Fields == [name : FieldName, type : StructTypes]
<1> HIDE DEF Fields
<1>1. struct \in BoundedSeq(Fields, MaxFields)
  BY DEF Fields
<1>2. PICK m \in 0 .. MaxFields : struct \in [1 .. m -> Fields]
  BY <1>1 DEF BoundedSeq, SeqOf
<1>3. m \in Nat
  OBVIOUS
<1>4. struct \in Seq(Fields)
  BY <1>2, <1>3
<1> QED BY <1>4 DEF Fields

(* Whatever the tools, validate_data is entered with a layout and data     *)
(* that are bytes, of the sizes of the layout if the macro wrote it.       *)
LEMMA InitTools ==
  ToolsInit => Entered /\ (maker = "macro" => LayoutSized(layout, data))
<1> SUFFICES ASSUME ToolsInit
             PROVE  Entered /\ (maker = "macro" => LayoutSized(layout, data))
  OBVIOUS
<1>1. CASE Init /\ maker = "anyone"
  BY <1>1, InitEntered
<1>2. CASE /\ struct \in BoundedSeq([name : FieldName, type : StructTypes], MaxFields)
           /\ WriteLayout(struct)
           /\ \E object \in [DOMAIN struct -> UNION {ValuesOf(t) : t \in StructTypes}] :
                /\ \A i \in DOMAIN struct : object[i] \in ValuesOf(struct[i].type)
                /\ Serialize(struct, object)
           /\ Enter
  <2>1. PICK object :
          /\ \A i \in DOMAIN struct : object[i] \in ValuesOf(struct[i].type)
          /\ Serialize(struct, object)
    BY <1>2
  <2>2. struct \in Seq([name : FieldName, type : StructTypes])
    BY <1>2, StructType
  <2>3. CASE /\ maker = "macro"
             /\ Distinct(struct)
             /\ \A i \in DOMAIN struct : Derivable(struct[i].type)
             /\ layout = [i \in DOMAIN struct |-> DerivedCode(struct[i].type)]
    <3>1. Derived(struct, object, layout)
      BY <2>1, <2>2, <2>3 DEF Derived
    <3>2. data = RustData(struct, object)
      BY <2>1, <3>1, HelperIsBorsh DEF Serialize
    <3>3. /\ layout \in Seq(Byte)
          /\ RustData(struct, object) \in Bytes
          /\ LayoutSized(layout, RustData(struct, object))
      BY <3>1, DerivedFields
    <3> QED BY <1>2, <3>2, <3>3 DEF Entered, Bytes, Byte
  <2>4. CASE /\ maker = "hand"
             /\ layout = [i \in DOMAIN struct |-> Code(struct[i].type)]
    <3>1. Written(struct, object, layout)
      BY <2>1, <2>2, <2>4 DEF Written
    <3>2. layout \in Seq(Byte) /\ data \in Bytes
      BY <2>1, <3>1, WrittenBytes DEF Serialize
    <3> QED BY <1>2, <2>4, <3>2 DEF Entered, Bytes, Byte
  <2> QED BY <1>2, <2>3, <2>4 DEF WriteLayout
<1> QED BY <1>1, <1>2 DEF ToolsInit

-----------------------------------------------------------------------------
(* The inductive invariant: the loops read what the tools have written,    *)
(* and what they have written for a derived schema has its sizes.          *)
ToolsInv ==
  /\ Tracking
  /\ maker = "macro" => LayoutSized(layout, data)

LEMMA ToolsInvHolds == ToolsSpec => []ToolsInv
<1>1. ToolsInit => ToolsInv
  BY InitTools, InitTracking DEF ToolsInv
<1>2. ToolsInv /\ [Validate]_<<vars, toolVars>> => ToolsInv'
  <2> SUFFICES ASSUME ToolsInv, [Validate]_<<vars, toolVars>>
               PROVE  ToolsInv'
    OBVIOUS
  <2>1. maker' = maker /\ [Next]_vars
    BY DEF Validate, toolVars
  <2>2. Tracking'
    BY <2>1, NextTracking DEF ToolsInv
  <2>3. layout' = layout /\ data' = data
    BY <2>1 DEF Next, vars, ReadFixed, ReadVec, ReadCount, ReadString,
                StringsRead, UnknownType, CheckOffset, Return, Stop
  <2>4. LayoutSized(layout, data)' <=> LayoutSized(layout, data)
    BY <2>3
  <2> QED BY <2>1, <2>2, <2>4 DEF ToolsInv
<1> QED BY <1>1, <1>2, PTL DEF ToolsSpec

(* A schema whose layout the derive macro wrote works for every attester:  *)
(* whatever the struct, as long as its field names are distinct and the    *)
(* macro knows their types, validate_data accepts what Borsh or the helper *)
(* makes of its values.                                                    *)
THEOREM DerivedSchemasAccepted == ToolsSpec => []DerivedSchemasWork
<1>1. ToolsInv => DerivedSchemasWork
  BY DEF ToolsInv, Tracking, Reading, AtEnd, DerivedSchemasWork
<1> QED BY <1>1, ToolsInvHolds, PTL

(* The guarantees of validate_data hold of what the tools send it, as of   *)
(* data from anywhere: a schema written by hand and a helper that reads it *)
(* otherwise than the program make data that is judged by its sizes.       *)
THEOREM ToolsDataJudged ==
  ToolsSpec => [](TypeOK /\ ReadsBounded /\ AcceptsBySizes)
<1>1. ToolsInv => TypeOK /\ ReadsBounded /\ AcceptsBySizes
  BY DEF ToolsInv, Tracking, Reading, IInv, AtEnd, AcceptsBySizes
<1> QED BY <1>1, ToolsInvHolds, PTL

(* What the tools send gets one verdict, the one of ValidateData.          *)
THEOREM ToolsOneVerdict ==
  ToolsSpec => /\ result = "running"
               /\ [][Promise!Decide]_<<layout, data, result>>
<1>1. ToolsInit => result = "running"
  BY InitTools DEF Entered, Enter
<1>2. ToolsInv /\ ToolsInv' /\ [Validate]_<<vars, toolVars>>
        => [Promise!Decide]_<<layout, data, result>>
  BY StepDecides DEF ToolsInv, Validate
<1> QED BY <1>1, <1>2, ToolsInvHolds, PTL DEF ToolsSpec

=============================================================================
