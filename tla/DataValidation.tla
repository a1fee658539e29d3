--------------------------- MODULE DataValidation ---------------------------
(***************************************************************************)
(* Attestation::validate_data: does a byte string follow a Schema layout?  *)
(*                                                                         *)
(* A layout is a sequence of type codes (SchemaDataTypes, 0..25) and the   *)
(* data is a sequence of bytes.  The code walks the layout and moves an    *)
(* offset over the data; the only bytes it ever looks at are the 4-byte    *)
(* little-endian length prefixes of strings and vectors.                   *)
(*                                                                         *)
(* An offset is a natural number, or Panic once a slice such as            *)
(* data[offset..offset + 4] has run past the end of the data.  usize is 64 *)
(* bits wide on the SBF target and every length is a u32, so the sums      *)
(* below cannot wrap.                                                      *)
(***************************************************************************)
EXTENDS Integers, Sequences

Panic == -1

(* The largest valid type code (VecString).                                *)
MaxDataType == 25

(* Bytes taken by one value of the types U8 .. Char (codes 0 .. 11); a     *)
(* vector of them has code 13 .. 24 in the same order.                     *)
ElementSize == <<1, 2, 4, 8, 16, 1, 2, 4, 8, 16, 1, 4>>

U32At(data, offset) ==
  data[offset + 1] + 256 * data[offset + 2]
    + 65536 * data[offset + 3] + 16777216 * data[offset + 4]

CanReadU32(data, offset) == offset + 4 <= Len(data)

(* A length prefix followed by that many elements of the given size.       *)
VecEnd(data, offset, size) ==
  IF CanReadU32(data, offset)
    THEN offset + 4 + U32At(data, offset) * size
    ELSE Panic

(* A count followed by that many strings: each string is read only when    *)
(* the ones before it left enough data for its prefix, so a count of more  *)
(* strings than the data has room for prefixes ends in a panic.            *)
VecStringEnd(data, offset) ==
  LET count == U32At(data, offset)
      end[n \in 0 .. count] ==
        IF n = 0 THEN offset + 4
        ELSE IF end[n - 1] = Panic THEN Panic
        ELSE VecEnd(data, end[n - 1], 1)
  IN  IF CanReadU32(data, offset) /\ offset + 4 + 4 * count <= Len(data)
        THEN end[count]
        ELSE Panic

(* The offset after one field of the given type; SchemaDataTypes::from     *)
(* panics on a code it does not know.                                      *)
FieldEnd(type, data, offset) ==
  CASE type \in 0 .. 11  -> offset + ElementSize[type + 1]
    [] type = 12         -> VecEnd(data, offset, 1)
    [] type \in 13 .. 24 -> VecEnd(data, offset, ElementSize[type - 12])
    [] type = 25         -> VecStringEnd(data, offset)
    [] OTHER             -> Panic

(* The check at the end of each iteration: nothing more is read once the   *)
(* offset has left the data.                                               *)
Overrun(data, offset) == offset = Panic \/ offset > Len(data)

(* The offset after the first n fields, n = 0 .. Len(layout).              *)
Offsets(layout, data) ==
  LET offset[n \in 0 .. Len(layout)] ==
        IF n = 0 THEN 0
        ELSE IF Overrun(data, offset[n - 1]) THEN offset[n - 1]
        ELSE FieldEnd(layout[n], data, offset[n - 1])
  IN  offset

(* "ok", the error the code returns, or "panic" when it aborts instead.    *)
ValidateData(layout, data) ==
  LET last == Offsets(layout, data)[Len(layout)]
  IN  IF last = Panic THEN "panic"
      ELSE IF last # Len(data) THEN "InvalidAttestationData"
      ELSE "ok"

=============================================================================
