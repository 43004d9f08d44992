---------------------------- MODULE MCCommandLine ----------------------------
(***************************************************************************)
(* The registry as MCConverterRegistry has it, used on its own and by the  *)
(* command line.  The payloads printed have up to two fields of every type *)
(* a converter builds, and previews within previews.                       *)
(***************************************************************************)
EXTENDS CommandLine, MCConverterRegistry

TextV2(l) == [type |-> "TextV2", label |-> l, value |-> "v"]

Leaves == {TextV2("A"), TextV2("B"),
           [type |-> "AmountV2", label |-> "A", value |-> "1", abbreviation |-> Absent],
           [type |-> "AmountV2", label |-> "A", value |-> "1", abbreviation |-> "SOL"],
           [type |-> "AddressV2", label |-> "B", value |-> "v"]}

(* create_number_field's, which presets put into their views.              *)
Number == [type |-> "Number", label |-> "N", value |-> "7"]

Lists(S) == {<<>>} \cup {<<f>> : f \in S} \cup (S \X S)

Preview(title, condensed, expanded) ==
  [type |-> "PreviewLayout", label |-> "P", title |-> title, subtitle |-> Absent,
   condensed |-> condensed, expanded |-> expanded]

Inner == {Preview(t, c, e) : t \in {Absent, "A"}, c \in {Absent, <<TextV2("A")>>},
                             e \in {<<>>, <<TextV2("A")>>}}

Few == {TextV2("A"), Number} \cup Inner

Outer == {Preview(Absent, c, e) : c \in {Absent} \cup {<<f>> : f \in Few},
                                e \in {<<>>} \cup {<<f>> : f \in Few}}
         \cup {Preview(Absent, c, <<TextV2("A")>>) : c \in Few \X Few}
         \cup {[Preview("A", Absent, <<>>) EXCEPT !.subtitle = s] : s \in {Absent, "A"}}

MCFields == Leaves \cup {Number} \cup Inner \cup Outer

MCDepth == [f \in MCFields |-> IF f \in Inner THEN 1 ELSE IF f \in Outer THEN 2 ELSE 0]

FieldLists == Lists(Leaves) \cup {<<f>> : f \in Outer} \cup (Inner \X ({TextV2("A")} \cup Inner))

Drawing(subtitle, type, fields) ==
  [title |-> "T", subtitle |-> subtitle, version |-> "0", payload_type |-> type,
   fields |-> fields]

MCDrawings ==
  {Drawing(Absent, "Sui", fields) : fields \in FieldLists}
  \cup {Drawing(s, t, <<>>) : s \in {Absent, "S"}, t \in {"", "Sui"}}
=============================================================================
