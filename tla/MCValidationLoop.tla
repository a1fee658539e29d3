-------------------------- MODULE MCValidationLoop --------------------------
(***************************************************************************)
(* Layouts of up to two fields and data put together from up to four       *)
(* pieces: prefixes that say 0, 1 or 2, one that says more than any data   *)
(* has, half a prefix, and a byte.  Structs of some types or of all.       *)
(***************************************************************************)
EXTENDS SchemaTools

CONSTANT MaxPieces

(* u8, u32, bool, String, Vec<u8>, Vec<u16>, Vec<String> and a code past   *)
(* it.                                                                     *)
SomeCodes == {0, 2, 10, 12, 13, 14, 25, 26}

SomeLayouts == BoundedSeq(SomeCodes, 2)
NoLayouts == {}

SomeTypes ==
  {<<"u8">>, <<"u16">>, <<"u32">>, <<"i128">>, <<"bool">>, <<"char">>,
   <<"String">>, <<"Vec", "u16">>, <<"Vec", "String">>}
AllTypes == Range(SchemaDataTypes)

Pieces ==
  {<<0, 0, 0, 0>>, <<1, 0, 0, 0>>, <<2, 0, 0, 0>>, <<0, 0, 1, 0>>,
   <<1, 0>>, <<7>>}

SomeInputs == {FlattenSeq(pieces) : pieces \in BoundedSeq(Pieces, MaxPieces)}
NoInputs == {}

=============================================================================
