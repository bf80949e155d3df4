------------------------------ MODULE MCUnpack ------------------------------
(* Unpack on a few messages that between them have every label and type.   *)
EXTENDS Unpack

Field(l, t) == [label |-> l, type |-> t, default_value |-> FALSE]
WithDefault(l, t) == [label |-> l, type |-> t, default_value |-> TRUE]

Messages ==
  { << >>,
    <<Field("required", "fixed"), Field("repeated", "string"),
      Field("required", "bytes")>>,
    <<Field("repeated", "varint"), Field("required", "string")>>,
    <<Field("repeated", "string"), Field("optional", "varint"),
      Field("required", "varint"), Field("repeated", "message")>>,
    <<Field("optional", "message"), Field("repeated", "bytes")>>,
    <<Field("repeated", "bool"), Field("repeated", "fixed")>>,
    <<Field("repeated", "message"), WithDefault("required", "bytes"),
      Field("optional", "bool")>> }

\* Required fields only.
AllRequired == {<<Field("required", "varint"), Field("required", "varint"),
                  Field("required", "string")>>}
=============================================================================
