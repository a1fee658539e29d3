--------------------------- MODULE ValidationLoop ---------------------------
(***************************************************************************)
(* Attestation::validate_data as it runs: a loop over the layout, with a   *)
(* loop over the strings of a Vec<String> inside, that moves an offset     *)
(* over the data and stops at the first error.  A slice that runs past the *)
(* end of the data panics; a field that ends past it is an error that the  *)
(* check at the end of the iteration finds.                                *)
(***************************************************************************)
EXTENDS DataValidation

CONSTANTS
  Layouts,  \* layouts validated, sequences of type codes
  Inputs    \* data validated, sequences of bytes

ASSUME InputAssumption ==
  /\ Layouts \subseteq Seq(0 .. 255)
  /\ Inputs \subseteq Seq(0 .. 255)

VARIABLES
  layout,   \* the layout of the schema
  data,     \* the data of the attestation
  pc,       \* "field", "strings", "check" or "done"
  field,    \* data_type: the field being read, from 1
  strings,  \* iterations left of the loop over strings
  offset,   \* data_offset
  reads,    \* length prefixes read so far (ghost)
  result    \* "running" until the function returns or panics

vars == <<layout, data, pc, field, strings, offset, reads, result>>

(* The variables of the function as it is entered.                         *)
Enter ==
  /\ pc = "field"
  /\ field = 1
  /\ strings = 0
  /\ offset = 0
  /\ reads = 0
  /\ result = "running"

Init ==
  /\ layout \in Layouts
  /\ data \in Inputs
  /\ Enter

-----------------------------------------------------------------------------
Stop(verdict) ==
  /\ result' = verdict
  /\ pc' = "done"
  /\ UNCHANGED <<layout, data, field, strings, offset, reads>>

(* The slice data[offset..offset + 4].                                     *)
PrefixAtEnd == ~CanReadU32(data, offset)

Type == layout[field]

(* A number, a bool or a char: the bytes themselves are not looked at.     *)
ReadFixed ==
  /\ pc = "field"
  /\ field <= Len(layout)
  /\ Type \in 0 .. 11
  /\ offset' = offset + ElementSize[Type + 1]
  /\ pc' = "check"
  /\ UNCHANGED <<layout, data, field, strings, reads, result>>

\* Fault: the elements of every vector are taken for bytes.
ByteElements(type) == 1

(* The element_size the arms of the match pass on.                         *)
VecElementSize(type) == IF type = 12 THEN 1 ELSE ElementSize[type - 12]

\* Fault: the prefix itself is not counted.
VecSizeWithoutPrefix(size) == U32At(data, offset) * size

(* get_size_of_vec, once the slice has worked.                             *)
VecSize(size) == 4 + U32At(data, offset) * size

(* A string or a vector of values of the types above.                      *)
ReadVec ==
  /\ pc = "field"
  /\ field <= Len(layout)
  /\ Type \in 12 .. 24
  /\ \/ PrefixAtEnd /\ Stop("panic")
     \/ /\ ~PrefixAtEnd
        /\ offset' = offset + VecSize(VecElementSize(Type))
        /\ reads' = reads + 1
        /\ pc' = "check"
        /\ UNCHANGED <<layout, data, field, strings, result>>

(* The count of a Vec<String>.                                             *)
ReadCount ==
  /\ pc = "field"
  /\ field <= Len(layout)
  /\ Type = 25
  /\ \/ PrefixAtEnd /\ Stop("panic")
     \/ /\ ~PrefixAtEnd
        /\ strings' = U32At(data, offset)
        /\ offset' = offset + 4
        /\ reads' = reads + 1
        /\ pc' = "strings"
        /\ UNCHANGED <<layout, data, field, result>>

\* Fault: one string more than the count says.
OneStringMore == strings >= 0

(* for _ in 0..len                                                         *)
MoreStrings == strings > 0

(* One more string.  Nothing checks that the one before it ended inside    *)
(* the data; its prefix would not, then.                                   *)
ReadString ==
  /\ pc = "strings"
  /\ MoreStrings
  /\ \/ PrefixAtEnd /\ Stop("panic")
     \/ /\ ~PrefixAtEnd
        /\ offset' = offset + VecSize(1)
        /\ strings' = strings - 1
        /\ reads' = reads + 1
        /\ UNCHANGED <<layout, data, pc, field, result>>

StringsRead ==
  /\ pc = "strings"
  /\ ~MoreStrings
  /\ pc' = "check"
  /\ UNCHANGED <<layout, data, field, strings, offset, reads, result>>

(* SchemaDataTypes::from does not know the code.                           *)
UnknownType ==
  /\ pc = "field"
  /\ field <= Len(layout)
  /\ Type \notin 0 .. 25
  /\ Stop("panic")

\* Fault: the offset is not compared with the end of the data.
NeverPastEnd == FALSE

OffsetPastEnd == offset > Len(data)

(* The end of an iteration.                                                *)
CheckOffset ==
  /\ pc = "check"
  /\ \/ OffsetPastEnd /\ Stop("InvalidAttestationData")
     \/ /\ ~OffsetPastEnd
        /\ field' = field + 1
        /\ pc' = "field"
        /\ UNCHANGED <<layout, data, strings, offset, reads, result>>

(* The end of the function.                                                *)
Return ==
  /\ pc = "field"
  /\ field > Len(layout)
  /\ Stop(IF offset = Len(data) THEN "ok" ELSE "InvalidAttestationData")

Next ==
  \/ ReadFixed
  \/ ReadVec
  \/ ReadCount
  \/ ReadString
  \/ StringsRead
  \/ UnknownType
  \/ CheckOffset
  \/ Return

(* The program runs on to the end of the function.                         *)
Spec == Init /\ [][Next]_vars /\ WF_vars(Next)

-----------------------------------------------------------------------------
(* Properties.                                                             *)

TypeOK ==
  /\ layout \in Seq(0 .. 255)
  /\ data \in Seq(0 .. 255)
  /\ pc \in {"field", "strings", "check", "done"}
  /\ field \in Nat \ {0}
  /\ strings \in Nat
  /\ offset \in Nat
  /\ reads \in Nat
  /\ result \in {"running", "ok", "InvalidAttestationData", "panic"}

(* The count of a Vec<String> comes from the data and may be any u32, yet  *)
(* the loops do no more work than the data has room for: no two prefixes   *)
(* share a byte, so there are no more of them than a quarter of its bytes. *)
ReadsBounded == 4 * reads <= Len(data)

(* What it means for bytes to have the size of a value of a type, a size   *)
(* that begins with the count or length where there is one, and for data   *)
(* to be as long as that, field after field of a layout: there are cuts    *)
(* that part it so.                                                        *)
StringSized(bytes) ==
  Len(bytes) >= 4 /\ Len(bytes) - 4 = U32At(bytes, 0)

Cuts(bytes, n) ==
  {cut \in [0 .. n -> 0 .. Len(bytes)] :
     /\ cut[0] = 0
     /\ cut[n] = Len(bytes)
     /\ \A i \in 1 .. n : cut[i - 1] <= cut[i]}

Part(bytes, cut, i) == SubSeq(bytes, cut[i - 1] + 1, cut[i])

ValueSized(type, bytes) ==
  CASE type \in 0 .. 11 -> Len(bytes) = ElementSize[type + 1]
    [] type = 12 -> StringSized(bytes)
    [] type \in 13 .. 24 ->
         /\ Len(bytes) >= 4
         /\ Len(bytes) - 4 = U32At(bytes, 0) * ElementSize[type - 12]
    [] type = 25 ->
         /\ Len(bytes) >= 4
         /\ LET count == U32At(bytes, 0)
                rest == SubSeq(bytes, 5, Len(bytes))
            IN  /\ 4 * count <= Len(rest)
                /\ \E cut \in Cuts(rest, count) :
                     \A i \in 1 .. count : StringSized(Part(rest, cut, i))
    [] OTHER -> FALSE

LayoutSized(types, bytes) ==
  \E cut \in Cuts(bytes, Len(types)) :
    \A i \in 1 .. Len(types) : ValueSized(types[i], Part(bytes, cut, i))

(* The function accepts exactly the data that parts into the sizes of its  *)
(* fields, whatever the bytes between the prefixes are: neither a count or *)
(* length past the end of the data, nor one that lands back at its end by  *)
(* chance, nor a panic in place of an error gets anything else accepted or *)
(* any such data refused.                                                  *)
AcceptsBySizes ==
  result # "running" => (result = "ok" <=> LayoutSized(layout, data))

(* What it means for data to be values of the types of a layout, which the *)
(* loops do not ask for: that the sizes are those, but also that a bool is *)
(* 0 or 1 and a string is UTF-8.  How a char lies in its four bytes is     *)
(* laid down nowhere, so any four will do.                                 *)
Utf8Char(bytes) ==
  /\ \A i \in 2 .. Len(bytes) : bytes[i] \in 128 .. 191
  /\ CASE Len(bytes) = 1 -> bytes[1] \in 0 .. 127
       [] Len(bytes) = 2 -> bytes[1] \in 194 .. 223
       [] Len(bytes) = 3 -> /\ bytes[1] \in 224 .. 239
                            /\ bytes[1] = 224 => bytes[2] >= 160
                            /\ bytes[1] = 237 => bytes[2] <= 159
       [] Len(bytes) = 4 -> /\ bytes[1] \in 240 .. 244
                            /\ bytes[1] = 240 => bytes[2] >= 144
                            /\ bytes[1] = 244 => bytes[2] <= 143

IsUtf8(bytes) ==
  LET utf8[n \in 0 .. Len(bytes)] ==
        n = 0 \/ \E k \in (1 .. 4) \cap (1 .. n) :
                  utf8[n - k] /\ Utf8Char(SubSeq(bytes, n - k + 1, n))
  IN  utf8[Len(bytes)]

After(prefix, bytes) == SubSeq(bytes, prefix + 1, Len(bytes))

IsString(bytes) == StringSized(bytes) /\ IsUtf8(After(4, bytes))

IsValue(type, bytes) ==
  /\ ValueSized(type, bytes)
  /\ type = 10 => bytes[1] \in {0, 1}
  /\ type = 12 => IsString(bytes)
  /\ type = 23 => \A i \in 5 .. Len(bytes) : bytes[i] \in {0, 1}
  /\ type = 25 =>
       \E cut \in Cuts(After(4, bytes), U32At(bytes, 0)) :
         \A i \in 1 .. U32At(bytes, 0) : IsString(Part(After(4, bytes), cut, i))

IsEncoding(types, bytes) ==
  \E cut \in Cuts(bytes, Len(types)) :
    \A i \in 1 .. Len(types) : IsValue(types[i], Part(bytes, cut, i))

(* The loops give the verdict the rest of the development takes from       *)
(* ValidateData.                                                           *)
Promise == INSTANCE ValidationSpec

KeepsPromise == Promise!Spec

=============================================================================
