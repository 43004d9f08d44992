--------------------------- MODULE PayloadEncoding ---------------------------
(***************************************************************************)
(* How a SignablePayload becomes the JSON text the enclave signs.          *)
(*                                                                         *)
(* A converter assembles fields with the builders of field_builders.rs,    *)
(* the payload is serialised once with sorted keys and its characters are  *)
(* checked (validate_charset), and parse() then serialises it a second     *)
(* time, without sorting, into the string that is hashed and signed.       *)
(*                                                                         *)
(* A payload is the set of its JSON objects, each the path to it and the   *)
(* Rust value there: its type, the keys whose values are present, and the  *)
(* kinds of characters in its strings.  A document is the set of the       *)
(* objects written, each its path and the sequence of its keys.  The       *)
(* nesting of serialize calls is the length of a path: the payload and its *)
(* fields are written by their own Serialize, everything below them        *)
(* through serde_json::to_value.                                           *)
(***************************************************************************)
EXTENDS FiniteSets, Functions, Filters

CONSTANTS
  Requests,       \* what converters ask of the builders
  Builds          \* whether serde_json's preserve_order is enabled: one or both

ASSUME BuildsAssumption == Builds \subseteq BOOLEAN

VARIABLES
  preserveOrder,  \* the build: a Value::Object keeps the order of insertion
  request,    \* the fields a converter is asked to build
  payload,    \* the SignablePayload it returned
  stage,      \* how far the call to parse() has come
  responses   \* the documents sent for this payload

vars == <<preserveOrder, request, payload, stage, responses>>

(***************************************************************************)
(* Keys.                                                                   *)
(***************************************************************************)
Alphabet == <<"Abbreviation", "Address", "AddressV2", "Amount", "AmountV2",
              "AssetLabel", "BadgeText", "Condensed", "Data", "Divider",
              "DynamicAnnotation", "Expanded", "Explanation", "FallbackText",
              "Fields", "ID", "Label", "ListLayout", "Memo", "Name", "Number",
              "Params", "PayloadType", "PreviewLayout", "StaticAnnotation",
              "Style", "Subtitle", "Text", "TextV2", "Title", "Type",
              "Unknown", "Version">>

Sorted(keys) == Filter(Alphabet, keys)

Variants == [text |-> "Text", text_v2 |-> "TextV2", address |-> "Address",
             address_v2 |-> "AddressV2", number |-> "Number", amount |-> "Amount",
             amount_v2 |-> "AmountV2", divider |-> "Divider",
             preview_layout |-> "PreviewLayout", list_layout |-> "ListLayout",
             unknown |-> "Unknown"]

CommonKeys == {"FallbackText", "Label", "Type"}

\* Mistake: the struct is declared in the order of its constructor.
PayloadKeysAsConstructed == <<"Version", "Title", "Subtitle", "Fields", "PayloadType">>

PayloadKeys == <<"Fields", "PayloadType", "Subtitle", "Title", "Version">>

AddressV2Keys == <<"Address", "Name", "Memo", "AssetLabel", "BadgeText">>

AmountKeys == <<"Amount", "Abbreviation">>

\* What the Serialize of a dynamic annotation writes, one by one.
DynamicAnnotationKeys == <<"ID", "Params", "Type">>

\* The order in which a derived Serialize, or one that is written out key by
\* key, writes the keys of each struct.
Declared == [payload |-> PayloadKeys, text |-> <<"Text">>, text_v2 |-> <<"Text">>,
             address |-> <<"Address", "Name">>, address_v2 |-> AddressV2Keys,
             number |-> <<"Number">>, amount |-> AmountKeys,
             divider |-> <<"Style">>, list_layout |-> <<"Fields">>,
             unknown |-> <<"Data", "Explanation">>,
             static_annotation |-> <<"Text">>,
             dynamic_annotation |-> DynamicAnnotationKeys]

(***************************************************************************)
(* The builders.  An Ask names a builder and what it is given; a converter *)
(* puts the field it gets at the top of the payload or inside a layout.    *)
(* Layouts inside layouts are left out: they are written the same way.     *)
(***************************************************************************)
\* Kinds of characters a string may hold: printable, white space (tab, line
\* feed, form feed, carriage return, space), U+0008, the other control
\* characters, U+007F, anything beyond ASCII, and a backslash before a "u".
Chars == {"graphic", "whitespace", "backspace", "control", "delete", "unicode",
          "backslash_u"}

Ask == [builder : {"text", "raw", "number", "amount", "address", "literal"},
        kind : DOMAIN Variants \ {"preview_layout", "list_layout"},
        number : {"empty", "proper", "improper"},
        optional : SUBSET {"Name", "Memo", "AssetLabel", "BadgeText", "Abbreviation"},
        annotations : SUBSET {"StaticAnnotation", "DynamicAnnotation"},
        chars : SUBSET Chars]

\* What a payload holds at the top: one field, a layout with a list of them,
\* or a preview with any of its titles and of its two views, each a list.
\* The chars of a layout are those of its labels and titles.
Titles == {"Title", "Subtitle"}
Views == {"Condensed", "Expanded"}

Slot == [layout : {"none"}, ask : Ask]
          \union [layout : {"list"}, asks : Seq(Ask), chars : SUBSET Chars]
          \union [layout : {"preview"}, keys : SUBSET (Titles \union Views),
                  asks : [Views -> Seq(Ask)], chars : SUBSET Chars]

Request == [slots : Seq(Slot), header : SUBSET {"PayloadType", "Subtitle"}, chars : SUBSET Chars]

\* The fields asked for in a slot.
AsksOf(slot) ==
  CASE slot.layout = "none" -> {slot.ask}
    [] slot.layout = "list" -> Range(slot.asks)
    [] slot.layout = "preview" -> UNION {Range(slot.asks[v]) : v \in slot.keys \intersect Views}

ASSUME RequestsAssumption == Requests \subseteq Request

ValidateNumberString(number) == number = "proper"

CreateTextField(ask) == [kind |-> "text_v2", keys |-> {"Text"}, ann |-> {}, ok |-> TRUE]

CreateNumberField(ask) == [kind |-> "number", keys |-> {"Number"}, ann |-> {},
                           ok |-> ValidateNumberString(ask.number)]

CreateAmountField(ask) ==
  [kind |-> "amount_v2", keys |-> {"Amount", "Abbreviation"}, ann |-> {},
   ok |-> ValidateNumberString(ask.number) /\ "Abbreviation" \in ask.optional]

CreateAddressField(ask) ==
  [kind |-> "address_v2", ann |-> {}, ok |-> TRUE,
   keys |-> {"Address"} \union (ask.optional \ {"Abbreviation"})]

CreateRawDataField(ask) == [kind |-> "text_v2", keys |-> {"Text"}, ann |-> {}, ok |-> TRUE]

\* A field written out as a struct literal: any variant, its required keys,
\* the optional ones asked for, and annotations.
Literal(ask) ==
  LET required == CASE ask.kind = "address_v2" -> {"Address"}
                    [] ask.kind \in {"amount", "amount_v2"} -> {"Amount"}
                    [] OTHER -> Range(Declared[ask.kind])
      all == IF ask.kind = "amount_v2" THEN AmountKeys ELSE Declared[ask.kind]
  IN [kind |-> ask.kind, keys |-> required \union (ask.optional \intersect Range(all)),
      ann |-> ask.annotations, ok |-> TRUE]

Built(ask) == CASE ask.builder = "text" -> CreateTextField(ask)
                [] ask.builder = "raw" -> CreateRawDataField(ask)
                [] ask.builder = "number" -> CreateNumberField(ask)
                [] ask.builder = "amount" -> CreateAmountField(ask)
                [] ask.builder = "address" -> CreateAddressField(ask)
                [] ask.builder = "literal" -> Literal(ask)

(***************************************************************************)
(* The payload a converter returns.                                        *)
(***************************************************************************)
Object(path, type, keys, chars) ==
  [path |-> path, type |-> type, keys |-> keys, chars |-> chars]

Annotation(path, name, chars) ==
  IF name = "StaticAnnotation"
  THEN Object(Append(path, name), "static_annotation", {"Text"}, chars)
  ELSE Object(Append(path, name), "dynamic_annotation", {"Type", "ID", "Params"}, chars)

\* A SignablePayloadField, or an AnnotatedPayloadField when wrapper says so.
FieldObjects(path, wrapper, built, ann, chars) ==
  LET key == Variants[built.kind]
  IN {Object(path, wrapper, CommonKeys \union {key} \union ann, chars),
      Object(Append(path, key), built.kind, built.keys, chars)}
     \union {Annotation(path, a, chars) : a \in ann}

Shell(path, kind, keys, chars) ==
  FieldObjects(path, "field", [kind |-> kind, keys |-> keys], {}, chars)

\* A list and its fields, the i-th of them at index i of "Fields".
ListObjects(path, asks) ==
  {Object(path, "list_layout", {"Fields"}, {})}
    \union UNION {LET built == Built(asks[i])
                  IN FieldObjects(Append(Append(path, "Fields"), i), "annotated",
                                  built, built.ann, asks[i].chars) : i \in DOMAIN asks}

\* A field put inside a layout keeps its annotations; at the top of the
\* payload only its signable_payload_field is taken.
Placed(path, slot) ==
  LET preview == Append(path, "PreviewLayout")
  IN CASE slot.layout = "none" ->
            FieldObjects(path, "field", Built(slot.ask), {}, slot.ask.chars)
       [] slot.layout = "list" ->
            Shell(path, "list_layout", {"Fields"}, slot.chars)
            \union ListObjects(Append(path, "ListLayout"), slot.asks)
       [] slot.layout = "preview" ->
            Shell(path, "preview_layout", slot.keys, slot.chars)
            \union {Object(Append(preview, t), "text_v2", {"Text"}, slot.chars) :
                      t \in slot.keys \intersect Titles}
            \union UNION {ListObjects(Append(preview, v), slot.asks[v]) :
                            v \in slot.keys \intersect Views}

NewPayload(r) ==
  {Object(<<>>, "payload", {"Fields", "Title", "Version"} \union r.header, r.chars)}
    \union UNION {Placed(<<i>>, r.slots[i]) : i \in DOMAIN r.slots}

(***************************************************************************)
(* Serialisation.  A HashMap is read in whatever order its hasher gives.   *)
(***************************************************************************)
HashOrders == {h \in [1..4 -> CommonKeys \union {"variant"}] : IsInjective(h)}

HashOrder(keys, hash) ==
  LET own == CHOOSE k \in keys : k \notin CommonKeys
  IN [i \in 1..4 |-> IF hash[i] = "variant" THEN own ELSE hash[i]]

\* Mistake: the fields are returned in the order the HashMap is read in.
SerializeToHashMap(keys, hash) == HashOrder(keys, hash)

SerializeToMap(keys, hash) == Sorted(Range(HashOrder(keys, hash)))

ExpectedFields(object) == CommonKeys \union (object.keys \intersect Range(Variants))

Annotations == {"StaticAnnotation", "DynamicAnnotation"}

\* Mistake: else if let Some(ref dynamic_annotation).
SerializeOneAnnotation(object, hash) ==
  LET fieldMap == SerializeToMap(object.keys \ Annotations, hash)
  IN Sorted(Range(fieldMap)
            \union (IF "StaticAnnotation" \in object.keys THEN {"StaticAnnotation"}
                    ELSE object.keys \intersect {"DynamicAnnotation"}))

SerializeAnnotated(object, hash) ==
  LET fieldMap == SerializeToMap(object.keys \ Annotations, hash)
  IN Sorted(Range(fieldMap)
            \union (object.keys \intersect {"StaticAnnotation"})
            \union (object.keys \intersect {"DynamicAnnotation"}))

SerializePreviewLayout(object) ==
  Sorted((object.keys \intersect {"Condensed"}) \union (object.keys \intersect {"Expanded"})
         \union (object.keys \intersect {"Subtitle"}) \union (object.keys \intersect {"Title"}))

SerializeAmountV2(object) == Sorted({"Amount"} \union (object.keys \intersect {"Abbreviation"}))

\* The keys of one object, in the order its Serialize writes them.
Written(object, hash) ==
  CASE object.type = "field" -> SerializeToMap(object.keys, hash)
    [] object.type = "annotated" -> SerializeAnnotated(object, hash)
    [] object.type = "preview_layout" -> SerializePreviewLayout(object)
    [] object.type = "amount_v2" -> SerializeAmountV2(object)
    [] OTHER -> Filter(Declared[object.type], object.keys)

\* serde_json::Value keeps the order of insertion only with preserve_order.
ToValue(keys) == IF preserveOrder THEN keys ELSE Sorted(Range(keys))

ValueOf(objects, hash) ==
  {[path |-> o.path, keys |-> ToValue(Written(o, hash))] : o \in objects}

SortJson(document) == {[d EXCEPT !.keys = Sorted(Range(@))] : d \in document}

ToJson(objects, hash) == SortJson(ValueOf(objects, hash))

\* serde_json::to_string: the payload and its fields straight from their own
\* Serialize, their contents as the values those make.
Encoded(objects, hash) ==
  {[path |-> o.path, keys |-> IF Len(o.path) <= 1 THEN Written(o, hash)
                              ELSE ToValue(Written(o, hash))] : o \in objects}

FieldsAreExpected(objects, hash) ==
  \A o \in objects : o.type = "field" =>
    Range(SerializeToMap(o.keys, hash)) = ExpectedFields(o)

Alphabetical(document) == \A d \in document : d.keys = Sorted(Range(d.keys))

VerifyDeterministicOrdering(objects, hash) == Alphabetical(ValueOf(objects, hash))

(***************************************************************************)
(* The characters of the text.  JSON writes white space other than a blank *)
(* and U+0008 as two printable characters, the other control characters as *)
(* \uXXXX, and doubles every backslash; it writes U+007F and what is beyond *)
(* ASCII as they are.                                                      *)
(***************************************************************************)
WireOf(char) == CASE char \in {"graphic", "whitespace", "backspace"} -> "printable"
                  [] char \in {"control", "backslash_u"} -> "u_escape"
                  [] OTHER -> char

\* The characters of the text of a document of these objects.
Wire(objects, document) ==
  {WireOf(c) : c \in UNION {o.chars : o \in {x \in objects : \E d \in document : d.path = x.path}}}

ContainsUnicodeEscape(wire) == "u_escape" \in wire

IsAscii(wire) == "unicode" \notin wire

IsPrintable(wire) == "delete" \notin wire

\* Mistake: is_ascii() is taken to be enough.
ValidateAsciiOnly(wire) == ~ContainsUnicodeEscape(wire) /\ IsAscii(wire)

ValidateCharset(wire) == ~ContainsUnicodeEscape(wire) /\ IsAscii(wire) /\ IsPrintable(wire)

(***************************************************************************)
(* The state machine: one transaction, asked of parse() any number of      *)
(* times, in one process or in several.                                    *)
(***************************************************************************)
NoPayload == {}

Init ==
  /\ preserveOrder \in Builds
  /\ request \in Requests
  /\ payload = NoPayload
  /\ stage = "requested"
  /\ responses = {}

\* The converter builds its fields; the first builder that fails is the
\* conversion's error.
Convert ==
  /\ stage = "requested"
  /\ IF \A i \in DOMAIN request.slots : \A ask \in AsksOf(request.slots[i]) : Built(ask).ok
     THEN payload' = NewPayload(request) /\ stage' = "converted"
     ELSE payload' = payload /\ stage' = "refused"
  /\ UNCHANGED <<preserveOrder, request, responses>>

\* to_validated_visual_sign_payload: the payload is serialised, its
\* characters are checked, and the text is thrown away.
Validate ==
  /\ stage = "converted"
  /\ \E hash \in HashOrders :
       stage' = IF ValidateCharset(Wire(payload, ToJson(payload, hash)))
                THEN "validated" ELSE "refused"
  /\ UNCHANGED <<preserveOrder, request, payload, responses>>

\* parse(): the payload is serialised again, into what is signed and sent.
Answer ==
  /\ stage \in {"validated", "answered"}
  /\ \E hash \in HashOrders :
       IF FieldsAreExpected(payload, hash)
       THEN /\ stage' = "answered"
            /\ LET document == Encoded(payload, hash)
               IN responses' = responses \union
                    {[document |-> document, wire |-> Wire(payload, document),
                      verified |-> VerifyDeterministicOrdering(payload, hash)]}
       ELSE stage' = "failed" /\ responses' = responses
  /\ UNCHANGED <<preserveOrder, request, payload>>

Next == Convert \/ Validate \/ Answer

Spec == Init /\ [][Next]_vars
-----------------------------------------------------------------------------
(***************************************************************************)
(* Properties.                                                             *)
(***************************************************************************)
\* Whatever order the HashMaps of serialize_to_map are read in, every answer
\* for one payload is the same text: the digest of two enclaves, or of two
\* calls, can be compared byte for byte.
SameAnswer == Cardinality(responses) <= 1

\* Every value a converter put in the payload, its annotations included, is
\* in the text under its key, once, and nothing else is: no insertion into the
\* BTreeMaps of the hand-written Serialize implementations hides another or is
\* forgotten.
NothingDropped ==
  \A r \in responses :
    /\ {[path |-> d.path, keys |-> Range(d.keys)] : d \in r.document}
         = {[path |-> o.path, keys |-> o.keys] : o \in payload}
    /\ \A d \in r.document : IsInjective(d.keys)

\* validate_charset checks one serialisation and parse() sends another: the
\* text that is sent still holds printable ASCII only, whichever object of
\* the payload a character came from, and no \u escape.
SentIsPrintable == \A r \in responses : r.wire \subseteq {"printable"}

\* The runtime check of DeterministicOrdering looks at serde_json's Value and
\* parse() sends what Serialize writes: a payload the check accepts is sent
\* in alphabetical order all the same, in either build of serde_json.
VerifiedIsAlphabetical ==
  \A r \in responses : r.verified => Alphabetical(r.document)

=============================================================================
