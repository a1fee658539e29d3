---------------------------- MODULE SchemaTools ----------------------------
(***************************************************************************)
(* The tools around layouts, and the validation of what they produce: the  *)
(* issuer takes the layout of a schema from a struct, by the derive macro  *)
(* where it can and by hand elsewhere; the attester serializes the data in *)
(* Rust, with Borsh, or in TypeScript, with the helper that goes by the    *)
(* layout of the schema; the program validates it.  Three tables of type   *)
(* codes meet: the macro's, the helper's and the program's.                *)
(*                                                                         *)
(* A tool that gives up (the macro does not compile, the serializer        *)
(* throws) sends nothing, and there is no data to validate.                *)
(***************************************************************************)
EXTENDS ValidationLoop, SequencesExt

CONSTANTS
  StructTypes,  \* types of the fields of structs
  FieldName,    \* their names
  MaxFields     \* bound: fields of a struct

VARIABLES
  struct,    \* what the layout describes, as [name, type] by field, or <<>>
  maker,     \* who wrote the layout: "macro" or "hand"; "anyone" of bytes
  attester   \* who wrote the data: "rust" or "helper", or "anyone"

toolVars == <<struct, maker, attester>>

-----------------------------------------------------------------------------
(* Types: <<ident>> or <<"Vec", ident>>, as the enum SchemaDataTypes lists  *)
(* them by their codes.                                                    *)
Plain == <<"u8", "u16", "u32", "u64", "u128", "i8", "i16", "i32", "i64",
           "i128", "bool", "char">>

SchemaDataTypes ==
  [i \in 1 .. 26 |-> CASE i \in 1 .. 12  -> <<Plain[i]>>
                       [] i = 13        -> <<"String">>
                       [] i \in 14 .. 25 -> <<"Vec", Plain[i - 13]>>
                       [] OTHER         -> <<"Vec", "String">>]

Code(type) == (CHOOSE i \in 1 .. 26 : SchemaDataTypes[i] = type) - 1

\* Fault: the arm of u16 is missing, and the codes are counted.
ArmsWithoutU16 == <<"u8">> \o SubSeq(Plain, 3, 12) \o <<"String">>

(* Structs have fields of these types only.                                *)
ASSUME StructAssumption ==
  /\ StructTypes \subseteq {SchemaDataTypes[i] : i \in 1 .. 26}
  /\ MaxFields \in Nat

(* The derive macro compares the ident of the last segment of a type with  *)
(* the names of its arms, in the order of the codes.  The ident of every   *)
(* vector is "Vec"; the arms "Vec<u8>" to "Vec<String>" are never taken.   *)
MacroArms == Plain \o <<"String">>
Derivable(type) == type[1] \in Range(MacroArms)
DerivedCode(type) == (CHOOSE i \in DOMAIN MacroArms : MacroArms[i] = type[1]) - 1

(* The type the helper takes for each code.                                *)
compactLayoutMapping ==
  [i \in 1 .. 26 |-> CASE i = 25 -> <<"Vec", "String">>
                       [] i = 26 -> <<"char">>
                       [] OTHER  -> SchemaDataTypes[i]]

-----------------------------------------------------------------------------
(* What a value is to JavaScript: its kind, of the elements if it is an    *)
(* array.  A char is an array of four numbers where it stands alone, and   *)
(* text in arrays.                                                         *)
Kind(ident) ==
  CASE ident \in {"u64", "u128", "i64", "i128"} -> "bigint"
    [] ident = "bool" -> "boolean"
    [] ident \in {"char", "String"} -> "string"
    [] OTHER -> "number"

(* The elements of a value are texts or, each in a sequence of its own,    *)
(* small numbers; a value that is no array has one.                        *)
Elements(ident) ==
  CASE ident = "String" -> {<<>>, <<97>>}
    [] ident = "char"   -> {<<97>>}
    [] OTHER            -> {<<1>>}

ValuesOf(type) ==
  IF type = <<"char">> THEN
    [kind : {"number"}, array : {TRUE},
     elements : {<< <<97>>, <<0>>, <<0>>, <<0>> >>}]
  ELSE IF Len(type) = 1 THEN
    [kind : {Kind(type[1])}, array : {FALSE},
     elements : {<<e>> : e \in Elements(type[1])}]
  ELSE
    [kind : {Kind(type[2])}, array : {TRUE},
     elements : BoundedSeq(Elements(type[2]), 2)]

(* Borsh.  A number lies in the lowest of its bytes.                       *)
Number(width, n) == [i \in 1 .. width |-> IF i = 1 THEN n ELSE 0]

BorshElement(ident, e) ==
  IF ident = "String" THEN Number(4, Len(e)) \o e
  ELSE Number(ElementSize[CHOOSE i \in 1 .. 12 : Plain[i] = ident], e[1])

Borsh(type, elements) ==
  IF type = <<"char">> THEN FlattenSeq(elements)
  ELSE IF Len(type) = 1 THEN BorshElement(type[1], elements[1])
  ELSE Number(4, Len(elements)) \o
         FlattenSeq([i \in DOMAIN elements |->
                       BorshElement(type[2], elements[i])])

(* The serializer does not throw.                                          *)
Fits(type, value) ==
  IF type = <<"char">> THEN
    value.array /\ value.kind = "number" /\ Len(value.elements) = 4
  ELSE IF Len(type) = 1 THEN ~value.array /\ value.kind = Kind(type[1])
  ELSE value.array /\ (value.elements = <<>> \/ value.kind = Kind(type[2]))

(* The fields of the object schema the helper makes: a name counts once,   *)
(* where it comes first and with the type it comes with last.              *)
Keys(fields) ==
  LET keys[n \in 0 .. Len(fields)] ==
        IF n = 0 THEN <<>>
        ELSE IF \E i \in 1 .. n - 1 : fields[i].name = fields[n].name
          THEN keys[n - 1]
          ELSE Append(keys[n - 1], n)
  IN  keys[Len(fields)]
LastOf(fields, i) ==
  CHOOSE j \in DOMAIN fields :
    /\ fields[j].name = fields[i].name
    /\ \A k \in DOMAIN fields : fields[k].name = fields[i].name => k <= j

HelperType(fields, types, i) == compactLayoutMapping[types[LastOf(fields, i)] + 1]

(* convertSasSchemaToBorshSchema and serialize, where nothing throws.      *)
HelperSerializes(fields, types, object) ==
  \A i \in DOMAIN fields :
    Fits(HelperType(fields, types, i), object[LastOf(fields, i)])

serializeAttestationData(fields, types, object) ==
  LET keys == Keys(fields)
  IN  FlattenSeq([n \in DOMAIN keys |->
        Borsh(HelperType(fields, types, keys[n]),
              object[LastOf(fields, keys[n])].elements)])

(* BorshSerialize of the struct, which does not exist for char.            *)
RustSerializes(fields) == \A i \in DOMAIN fields : "char" \notin Range(fields[i].type)

RustData(fields, object) ==
  FlattenSeq([i \in DOMAIN fields |-> Borsh(fields[i].type, object[i].elements)])

-----------------------------------------------------------------------------
Distinct(fields) ==
  \A i, j \in DOMAIN fields : i # j => fields[i].name # fields[j].name

(* A struct gives a layout; field names written by hand may repeat.        *)
WriteLayout(fields) ==
  \/ /\ maker = "macro"
     /\ Distinct(fields)
     /\ \A i \in DOMAIN fields : Derivable(fields[i].type)
     /\ layout = [i \in DOMAIN fields |-> DerivedCode(fields[i].type)]
  \/ /\ maker = "hand"
     /\ layout = [i \in DOMAIN fields |-> Code(fields[i].type)]

Serialize(fields, object) ==
  \/ /\ attester = "rust"
     /\ RustSerializes(fields)
     /\ Distinct(fields)
     /\ data = RustData(fields, object)
  \/ /\ attester = "helper"
     /\ HelperSerializes(fields, layout, object)
     /\ data = serializeAttestationData(fields, layout, object)

(* Data from anywhere, or what the tools make of a struct and its values.  *)
ToolsInit ==
  \/ /\ Init
     /\ struct = <<>> /\ maker = "anyone" /\ attester = "anyone"
  \/ /\ struct \in BoundedSeq([name : FieldName, type : StructTypes], MaxFields)
     /\ WriteLayout(struct)
     /\ \E object \in [DOMAIN struct -> UNION {ValuesOf(t) : t \in StructTypes}] :
          /\ \A i \in DOMAIN struct : object[i] \in ValuesOf(struct[i].type)
          /\ Serialize(struct, object)
     /\ Enter

Validate == Next /\ UNCHANGED toolVars

ToolsSpec ==
  /\ ToolsInit
  /\ [][Validate]_<<vars, toolVars>>
  /\ WF_<<vars, toolVars>>(Validate)

-----------------------------------------------------------------------------
(* Properties.                                                             *)

(* A schema whose layout the derive macro wrote works for every attester:  *)
(* macro, program, Borsh and helper agree on its types, their sizes and    *)
(* their order.                                                            *)
DerivedSchemasWork ==
  maker = "macro" /\ result # "running" => result = "ok"

(* utils.ts:86 says of serializeAttestationData that it serializes the     *)
(* attestation data "to valid byte array".  So the program takes what the  *)
(* helper makes of an object, whatever its schema.                         *)
HelperBytesValid ==
  attester = "helper" /\ result # "running" => result = "ok"

=============================================================================
