------------------------ MODULE PayloadEncodingProofs ------------------------
(***************************************************************************)
(* The text that is signed, for any payload a converter may assemble with  *)
(* the builders, any number of answers and either build of serde_json.     *)
(***************************************************************************)
EXTENDS PayloadEncoding, SequenceFacts, FiniteSetTheorems

(* No key is in the alphabet twice.                                        *)
LEMMA AlphabetOnce == Alphabet \in Seq(Range(Alphabet)) /\ Len(Alphabet) = 33 /\ IsInjective(Alphabet)
<1>1. Alphabet \in Seq(Range(Alphabet)) /\ Len(Alphabet) = 33
  <2>1. Len(Alphabet) = 33
    BY DEF Alphabet
  <2>2. Alphabet = [i \in 1..33 |-> Alphabet[i]]
    BY DEF Alphabet
  <2> QED
    BY <2>1, <2>2 DEF Range
<1>2. IsInjective(Alphabet)
  BY DEF Alphabet, IsInjective
<1> QED
  BY <1>1, <1>2

(* Every key of the payload is in the alphabet.                            *)
LEMMA AlphabetHas ==
  {"Abbreviation", "Address", "AddressV2", "Amount", "AmountV2", "AssetLabel", "BadgeText",
   "Condensed", "Data", "Divider", "DynamicAnnotation", "Expanded", "Explanation", "FallbackText",
   "Fields", "ID", "Label", "ListLayout", "Memo", "Name", "Number", "Params", "PayloadType",
   "PreviewLayout", "StaticAnnotation", "Style", "Subtitle", "Text", "TextV2", "Title", "Type",
   "Unknown", "Version"} \subseteq Range(Alphabet)
  BY DEF Alphabet, Range

(* PayloadKeys is in alphabetical order.                                   *)
LEMMA PayloadKeysSorted == Sorted(Range(PayloadKeys)) = PayloadKeys
<1> DEFINE S == Range(PayloadKeys)
<1>1. PICK k : Kept(Alphabet, S, k) /\ Filter(Alphabet, S) = k[Len(Alphabet)]
  BY AlphabetOnce, FilterIsKept
<1>2. S = {"Fields", "PayloadType", "Subtitle", "Title", "Version"}
  BY DEF PayloadKeys, Range
<1> DEFINE E == Range(Alphabet)
<1> HIDE DEF S, E
<1>3. k[0] = <<>>
  BY <1>1, AlphabetOnce, KeptSteps, Zenon
<1>4. ASSUME NEW a, NEW b, Follows(Alphabet, S, a, b) PROVE k[b] = Append(k[a], Alphabet[b])
  <2>1. Kept(Alphabet, S, k) /\ Alphabet \in Seq(E)
    BY <1>1, AlphabetOnce DEF E
  <2> QED
    BY <1>4, <2>1, KeptNext
<1>5. /\ k[15] \in Seq(E) /\ Len(k[15]) = 1 /\ k[15][1] = "Fields"
  <2>1. \A i \in 1..33 : 0 < i /\ i < 15 => Alphabet[i] \notin S
    BY <1>2 DEF Alphabet
  <2>2. Alphabet[15] = "Fields" /\ "Fields" \in S /\ "Fields" \in E
    BY <1>2 DEF Alphabet, E, Range
  <2>3. Follows(Alphabet, S, 0, 15)
    BY <2>1, <2>2, AlphabetOnce DEF Follows
  <2>4. k[15] = Append(k[0], "Fields")
    BY <1>4, <2>2, <2>3
  <2> QED
    BY <1>3, <2>2, <2>4
<1>6. /\ k[23] \in Seq(E) /\ Len(k[23]) = 2 /\ k[23][1] = "Fields" /\ k[23][2] = "PayloadType"
  <2>1. \A i \in 1..33 : 15 < i /\ i < 23 => Alphabet[i] \notin S
    BY <1>2 DEF Alphabet
  <2>2. Alphabet[23] = "PayloadType" /\ "PayloadType" \in S /\ "PayloadType" \in E
    BY <1>2 DEF Alphabet, E, Range
  <2>3. Follows(Alphabet, S, 15, 23)
    BY <2>1, <2>2, AlphabetOnce DEF Follows
  <2>4. k[23] = Append(k[15], "PayloadType")
    BY <1>4, <2>2, <2>3
  <2> QED
    BY <1>5, <2>2, <2>4
<1>7. /\ k[27] \in Seq(E) /\ Len(k[27]) = 3 /\ k[27][1] = "Fields" /\ k[27][2] = "PayloadType"
      /\ k[27][3] = "Subtitle"
  <2>1. \A i \in 1..33 : 23 < i /\ i < 27 => Alphabet[i] \notin S
    BY <1>2 DEF Alphabet
  <2>2. Alphabet[27] = "Subtitle" /\ "Subtitle" \in S /\ "Subtitle" \in E
    BY <1>2 DEF Alphabet, E, Range
  <2>3. Follows(Alphabet, S, 23, 27)
    BY <2>1, <2>2, AlphabetOnce DEF Follows
  <2>4. k[27] = Append(k[23], "Subtitle")
    BY <1>4, <2>2, <2>3
  <2> QED
    BY <1>6, <2>2, <2>4
<1>8. /\ k[30] \in Seq(E) /\ Len(k[30]) = 4 /\ k[30][1] = "Fields" /\ k[30][2] = "PayloadType"
      /\ k[30][3] = "Subtitle" /\ k[30][4] = "Title"
  <2>1. \A i \in 1..33 : 27 < i /\ i < 30 => Alphabet[i] \notin S
    BY <1>2 DEF Alphabet
  <2>2. Alphabet[30] = "Title" /\ "Title" \in S /\ "Title" \in E
    BY <1>2 DEF Alphabet, E, Range
  <2>3. Follows(Alphabet, S, 27, 30)
    BY <2>1, <2>2, AlphabetOnce DEF Follows
  <2>4. k[30] = Append(k[27], "Title")
    BY <1>4, <2>2, <2>3
  <2> QED
    BY <1>7, <2>2, <2>4
<1>9. /\ k[33] \in Seq(E) /\ Len(k[33]) = 5 /\ k[33][1] = "Fields" /\ k[33][2] = "PayloadType"
      /\ k[33][3] = "Subtitle" /\ k[33][4] = "Title" /\ k[33][5] = "Version"
  <2>1. \A i \in 1..33 : 30 < i /\ i < 33 => Alphabet[i] \notin S
    BY <1>2 DEF Alphabet
  <2>2. Alphabet[33] = "Version" /\ "Version" \in S /\ "Version" \in E
    BY <1>2 DEF Alphabet, E, Range
  <2>3. Follows(Alphabet, S, 30, 33)
    BY <2>1, <2>2, AlphabetOnce DEF Follows
  <2>4. k[33] = Append(k[30], "Version")
    BY <1>4, <2>2, <2>3
  <2> QED
    <3>1. k[30] \in Seq(E) /\ "Version" \in E
      BY <1>8, <2>2
    <3>2. /\ k[33] \in Seq(E) /\ Len(k[33]) = Len(k[30]) + 1
          /\ k[33][Len(k[30]) + 1] = "Version"
          /\ \A i \in 1..Len(k[30]) : k[33][i] = k[30][i]
      BY <2>4, <3>1
    <3>3. \A i \in 1..4 : k[33][i] = k[30][i]
      BY <1>8, <3>2
    <3> QED
      BY <1>8, <3>2, <3>3
<1>10. k[33] = PayloadKeys
  BY <1>9 DEF PayloadKeys
<1> QED
  BY <1>1, <1>10, AlphabetOnce DEF S, Sorted

(* Sorting keys loses none that the alphabet has, doubles none, and        *)
(* sorting again changes nothing.                                          *)
LEMMA SortedKeys ==
  ASSUME NEW K
  PROVE  /\ Range(Sorted(K)) = Range(Alphabet) \cap K
         /\ IsInjective(Sorted(K))
         /\ Sorted(Range(Sorted(K))) = Sorted(K)
<1>1. Range(Sorted(K)) = Range(Alphabet) \cap K
  BY AlphabetOnce, FilterRange DEF Sorted
<1>2. IsInjective(Sorted(K))
  BY AlphabetOnce, FilterInjective DEF Sorted
<1>3. Sorted(Range(Alphabet) \cap K) = Sorted(K)
  BY AlphabetOnce, FilterOwn DEF Sorted
<1> QED
  BY <1>1, <1>2, <1>3

(* A struct declares no key twice.                                         *)
LEMMA DeclaredOnce ==
  ASSUME NEW t \in DOMAIN Declared
  PROVE  Declared[t] \in Seq(Range(Declared[t])) /\ IsInjective(Declared[t])
<1> USE DEF Range, IsInjective
<1>1. t \in {"payload", "text", "text_v2", "address", "address_v2", "number", "amount", "divider",
             "list_layout", "unknown", "static_annotation", "dynamic_annotation"}
  BY DEF Declared
<1>2. CASE t = "payload"
  BY <1>2 DEF Declared, PayloadKeys
<1>3. CASE t = "address_v2"
  BY <1>3 DEF Declared, AddressV2Keys
<1>4. CASE t = "amount"
  BY <1>4 DEF Declared, AmountKeys
<1>5. CASE t \in {"text", "text_v2", "number", "divider", "list_layout", "static_annotation"}
  BY <1>5 DEF Declared
<1>8. CASE t = "dynamic_annotation"
  BY <1>8 DEF Declared, DynamicAnnotationKeys
<1>6. CASE t = "address"
  BY <1>6 DEF Declared
<1>7. CASE t = "unknown"
  BY <1>7 DEF Declared
<1> QED
  BY <1>1, <1>2, <1>3, <1>4, <1>5, <1>6, <1>7, <1>8

(* The alphabet has every key a struct declares.                           *)
LEMMA DeclaredInAlphabet ==
  ASSUME NEW t \in DOMAIN Declared
  PROVE  Range(Declared[t]) \subseteq Range(Alphabet)
<1>1. t \in {"payload", "text", "text_v2", "address", "address_v2", "number", "amount", "divider",
             "list_layout", "unknown", "static_annotation", "dynamic_annotation"}
  BY DEF Declared
<1>2. CASE t = "payload"
  BY <1>2, AlphabetHas DEF Declared, PayloadKeys, Range
<1>3. CASE t = "address_v2"
  BY <1>3, AlphabetHas DEF Declared, AddressV2Keys, Range
<1>4. CASE t = "amount"
  BY <1>4, AlphabetHas DEF Declared, AmountKeys, Range
<1>5. CASE t \in {"text", "text_v2", "number", "divider", "list_layout", "static_annotation"}
  BY <1>5, AlphabetHas DEF Declared, Range
<1>6. CASE t \in {"address", "unknown"}
  BY <1>6, AlphabetHas DEF Declared, Range
<1>7. CASE t = "dynamic_annotation"
  BY <1>7, AlphabetHas DEF Declared, DynamicAnnotationKeys, Range
<1> QED
  BY <1>1, <1>2, <1>3, <1>4, <1>5, <1>6, <1>7

(* A field's variant is no key all fields have, and no annotation.         *)
LEMMA VariantKeys ==
  ASSUME NEW v \in Range(Variants)
  PROVE  /\ v \notin CommonKeys /\ v \notin Annotations
         /\ v \in Range(Alphabet)
  BY AlphabetHas DEF Variants, Range, CommonKeys, Annotations

(* Whatever order a HashMap of a field is read in, its four keys are read. *)
LEMMA HashOrderReadsAll ==
  ASSUME NEW v \in Range(Variants), NEW hash \in HashOrders
  PROVE  Range(HashOrder(CommonKeys \union {v}, hash)) = CommonKeys \union {v}
<1> DEFINE K == CommonKeys \union {v}
           h == HashOrder(K, hash)
<1>1. (CHOOSE k \in K : k \notin CommonKeys) = v
  BY VariantKeys
<1>2. h = [i \in 1..4 |-> IF hash[i] = "variant" THEN v ELSE hash[i]]
  BY <1>1 DEF HashOrder
<1>3. /\ hash \in [1..4 -> {"FallbackText", "Label", "Type", "variant"}]
      /\ \A i, j \in 1..4 : hash[i] = hash[j] => i = j
  BY DEF HashOrders, CommonKeys, IsInjective
<1>4. \A x \in {"FallbackText", "Label", "Type", "variant"} : \E i \in 1..4 : hash[i] = x
  <2>1. /\ hash[1] \in {"FallbackText", "Label", "Type", "variant"}
        /\ hash[2] \in {"FallbackText", "Label", "Type", "variant"}
        /\ hash[3] \in {"FallbackText", "Label", "Type", "variant"}
        /\ hash[4] \in {"FallbackText", "Label", "Type", "variant"}
        /\ hash[1] # hash[2] /\ hash[1] # hash[3] /\ hash[1] # hash[4]
        /\ hash[2] # hash[3] /\ hash[2] # hash[4] /\ hash[3] # hash[4]
    BY <1>3
  <2>2. \A x \in {"FallbackText", "Label", "Type", "variant"} :
          hash[1] = x \/ hash[2] = x \/ hash[3] = x \/ hash[4] = x
    BY <2>1
  <2> QED
    BY <2>2
<1>5. \A i \in 1..4 : h[i] \in K
  BY <1>2, <1>3 DEF CommonKeys
<1>6. \A k \in K : \E i \in 1..4 : h[i] = k
  BY <1>2, <1>4 DEF CommonKeys
<1>7. DOMAIN h = 1..4
  BY <1>2
<1> HIDE DEF h
<1> QED
  BY <1>5, <1>6, <1>7 DEF Range, h

-----------------------------------------------------------------------------
(* What the builders and Placed make of an object: its keys are those its  *)
(* type has, and only the payload and its fields are written directly.     *)
FieldOK(o) == o.type = "field" /\ \E v \in Range(Variants) : o.keys = CommonKeys \union {v}

AnnotatedOK(o) ==
  /\ o.type = "annotated"
  /\ \E v \in Range(Variants), a \in SUBSET Annotations : o.keys = CommonKeys \union {v} \union a

(* The keys a Serialize that goes through a BTreeMap inserts.              *)
Inserted(type, keys) ==
  \/ type = "preview_layout" /\ keys \subseteq {"Condensed", "Expanded", "Subtitle", "Title"}
  \/ type = "amount_v2" /\ "Amount" \in keys /\ keys \subseteq {"Amount", "Abbreviation"}

SortedOK(o) == Inserted(o.type, o.keys)

StructOK(o) == o.type \in DOMAIN Declared /\ o.keys \subseteq Range(Declared[o.type])

ObjectOK(o) ==
  /\ o.chars \subseteq Chars
  /\ Len(o.path) <= 1 => o.type \in {"payload", "field"}
  /\ FieldOK(o) \/ AnnotatedOK(o) \/ SortedOK(o) \/ StructOK(o)

(* The structs whose own Serialize goes through a BTreeMap.                 *)
WrittenSorted == {"preview_layout", "amount_v2"}

(* The keys of an object as they are written, in any order of a HashMap.   *)
Canonical(o) ==
  IF o.type \in {"field", "annotated"} \union WrittenSorted THEN Sorted(o.keys)
  ELSE Filter(Declared[o.type], o.keys)

(* The order HashMaps are read in makes no difference to what is written,  *)
(* which is all keys of the object, each once.                             *)
LEMMA WrittenIsCanonical ==
  ASSUME NEW o, ObjectOK(o), NEW hash \in HashOrders
  PROVE  /\ Written(o, hash) = Canonical(o)
         /\ Range(Canonical(o)) = o.keys
         /\ IsInjective(Canonical(o))
<1>1. \A v \in Range(Variants) : SerializeToMap(CommonKeys \union {v}, hash) = Sorted(CommonKeys \union {v})
  BY HashOrderReadsAll DEF SerializeToMap
<1>2. CommonKeys \subseteq Range(Alphabet) /\ Annotations \subseteq Range(Alphabet)
  BY AlphabetHas DEF CommonKeys, Annotations
<1>3. CASE FieldOK(o)
  <2>1. PICK v \in Range(Variants) : o.keys = CommonKeys \union {v}
    BY <1>3 DEF FieldOK
  <2>2. Written(o, hash) = Sorted(o.keys) /\ Canonical(o) = Sorted(o.keys)
    BY <1>1, <1>3, <2>1 DEF Written, Canonical, FieldOK
  <2>3. o.keys \subseteq Range(Alphabet)
    BY <1>2, <2>1, VariantKeys
  <2> QED
    BY <2>2, <2>3, SortedKeys
<1>4. CASE AnnotatedOK(o)
  <2>1. PICK v \in Range(Variants), a \in SUBSET Annotations : o.keys = CommonKeys \union {v} \union a
    BY <1>4 DEF AnnotatedOK
  <2>2. o.keys \ Annotations = CommonKeys \union {v}
    BY <2>1, VariantKeys DEF CommonKeys, Annotations
  <2>3. Range(SerializeToMap(o.keys \ Annotations, hash)) = CommonKeys \union {v}
    BY <1>1, <1>2, <2>2, SortedKeys, VariantKeys
  <2>4. (CommonKeys \union {v}) \union (o.keys \intersect {"StaticAnnotation"})
          \union (o.keys \intersect {"DynamicAnnotation"}) = o.keys
    BY <2>1 DEF Annotations
  <2>5. SerializeAnnotated(o, hash) = Sorted(o.keys)
    BY <2>3, <2>4, Zenon DEF SerializeAnnotated
  <2>6. Written(o, hash) = Sorted(o.keys) /\ Canonical(o) = Sorted(o.keys)
    BY <1>4, <2>5 DEF Written, Canonical, AnnotatedOK
  <2>7. o.keys \subseteq Range(Alphabet)
    BY <1>2, <2>1, VariantKeys
  <2> QED
    BY <2>6, <2>7, SortedKeys
<1>5. CASE SortedOK(o)
  <2>1. /\ o.type = "preview_layout" =>
             Written(o, hash) = SerializePreviewLayout(o) /\ Canonical(o) = Sorted(o.keys)
        /\ o.type = "amount_v2" =>
             Written(o, hash) = SerializeAmountV2(o) /\ Canonical(o) = Sorted(o.keys)
    BY DEF Written, Canonical, WrittenSorted
  <2>2. ASSUME o.type = "preview_layout"
        PROVE  Written(o, hash) = Sorted(o.keys) /\ Canonical(o) = Sorted(o.keys)
    <3>1. o.keys = (o.keys \intersect {"Condensed"}) \union (o.keys \intersect {"Expanded"})
                   \union (o.keys \intersect {"Subtitle"}) \union (o.keys \intersect {"Title"})
      BY <1>5, <2>2 DEF SortedOK, Inserted
    <3>2. SerializePreviewLayout(o) = Sorted(o.keys)
      BY <3>1, Zenon DEF SerializePreviewLayout
    <3> QED
      BY <2>1, <2>2, <3>2, Zenon
  <2>3. ASSUME o.type = "amount_v2"
        PROVE  Written(o, hash) = Sorted(o.keys) /\ Canonical(o) = Sorted(o.keys)
    <3>1. o.keys = {"Amount"} \union (o.keys \intersect {"Abbreviation"})
      BY <1>5, <2>3 DEF SortedOK, Inserted
    <3>2. SerializeAmountV2(o) = Sorted(o.keys)
      BY <3>1, Zenon DEF SerializeAmountV2
    <3> QED
      BY <2>1, <2>3, <3>2, Zenon
  <2>4. o.keys \subseteq Range(Alphabet)
    BY <1>5, AlphabetHas DEF SortedOK, Inserted
  <2>5. o.type \in {"preview_layout", "amount_v2"}
    BY <1>5 DEF SortedOK, Inserted
  <2>6. Written(o, hash) = Sorted(o.keys) /\ Canonical(o) = Sorted(o.keys)
    BY <2>2, <2>3, <2>5, Zenon
  <2> QED
    BY <2>4, <2>6, SortedKeys
<1>6. CASE StructOK(o)
  <2> DEFINE d == Declared[o.type]
  <2>1. o.type \in DOMAIN Declared /\ o.keys \subseteq Range(d)
    BY <1>6 DEF StructOK
  <2>2. o.type \notin {"field", "annotated"} \union WrittenSorted
    BY <2>1 DEF Declared, WrittenSorted
  <2>3. Written(o, hash) = Filter(d, o.keys) /\ Canonical(o) = Filter(d, o.keys)
    BY <2>2 DEF Written, Canonical, WrittenSorted
  <2>4. d \in Seq(Range(d)) /\ IsInjective(d)
    BY <2>1, DeclaredOnce
  <2> HIDE DEF d
  <2>5. Range(Filter(d, o.keys)) = Range(d) \cap o.keys
    BY <2>4, FilterRange
  <2>6. IsInjective(Filter(d, o.keys))
    BY <2>4, FilterInjective
  <2> QED
    BY <2>1, <2>3, <2>5, <2>6
<1> QED
  BY <1>3, <1>4, <1>5, <1>6 DEF ObjectOK

(* The alphabet has every key of an object.                                *)
LEMMA KeysInAlphabet ==
  ASSUME NEW o, ObjectOK(o)
  PROVE  o.keys \subseteq Range(Alphabet)
<1>1. CommonKeys \subseteq Range(Alphabet) /\ Annotations \subseteq Range(Alphabet)
  BY AlphabetHas DEF CommonKeys, Annotations
<1>2. CASE FieldOK(o)
  BY <1>1, <1>2, VariantKeys DEF FieldOK
<1>3. CASE AnnotatedOK(o)
  <2>1. PICK v \in Range(Variants), a \in SUBSET Annotations : o.keys = CommonKeys \union {v} \union a
    BY <1>3 DEF AnnotatedOK
  <2> QED
    BY <1>1, <2>1, VariantKeys
<1>4. CASE SortedOK(o)
  BY <1>4, AlphabetHas DEF SortedOK, Inserted
<1>5. CASE StructOK(o)
  BY <1>5, DeclaredInAlphabet DEF StructOK
<1> QED
  BY <1>2, <1>3, <1>4, <1>5 DEF ObjectOK

(* A path of n keys or more.                                               *)
IsPath(p, n) == \E E : p \in Seq(E) /\ Len(p) >= n

(* Every key makes a path longer.                                          *)
LEMMA LongerPath ==
  ASSUME NEW n \in Nat, NEW p, IsPath(p, n), NEW k
  PROVE  IsPath(Append(p, k), n + 1)
<1>1. PICK E : p \in Seq(E) /\ Len(p) >= n
  BY DEF IsPath
<1>2. p \in Seq(E \union {k})
  BY <1>1
<1>3. Append(p, k) \in Seq(E \union {k}) /\ Len(Append(p, k)) >= n + 1
  BY <1>1, <1>2
<1> QED
  BY <1>3 DEF IsPath

(* An object below the fields is not written directly.                     *)
LEMMA DeepObject ==
  ASSUME NEW p, IsPath(p, 2), NEW o, o.path = p, o.chars \subseteq Chars,
         AnnotatedOK(o) \/ SortedOK(o) \/ StructOK(o)
  PROVE  ObjectOK(o)
<1>1. PICK E : p \in Seq(E) /\ Len(p) >= 2
  BY DEF IsPath
<1>2. ~(Len(o.path) <= 1)
  BY <1>1
<1> QED
  BY <1>2 DEF ObjectOK

(* The struct of a kind of field, with keys that it has.                   *)
KindOK(kind, keys) ==
  /\ kind \in DOMAIN Variants
  /\ \/ Inserted(kind, keys)
     \/ kind \in DOMAIN Declared /\ keys \subseteq Range(Declared[kind])

(* A builder makes a field of some variant with keys of its struct.        *)
LEMMA BuiltOK ==
  ASSUME NEW ask \in Ask
  PROVE  KindOK(Built(ask).kind, Built(ask).keys) /\ Built(ask).ann \subseteq Annotations
<1>1. /\ ask.builder \in {"text", "raw", "number", "amount", "address", "literal"}
      /\ ask.kind \in DOMAIN Variants \ {"preview_layout", "list_layout"}
      /\ ask.optional \subseteq {"Name", "Memo", "AssetLabel", "BadgeText", "Abbreviation"}
      /\ ask.annotations \subseteq Annotations
  BY DEF Ask, Annotations
<1>2. /\ "text_v2" \in DOMAIN Declared /\ Range(Declared["text_v2"]) = {"Text"}
      /\ "number" \in DOMAIN Declared /\ Range(Declared["number"]) = {"Number"}
  BY DEF Declared, Range
<1>3. /\ "address_v2" \in DOMAIN Declared
      /\ Range(Declared["address_v2"]) = {"Address", "Name", "Memo", "AssetLabel", "BadgeText"}
  <2>1. /\ "address_v2" \in DOMAIN Declared /\ Declared["address_v2"] = AddressV2Keys
    BY DEF Declared
  <2>2. Range(AddressV2Keys) = {"Address", "Name", "Memo", "AssetLabel", "BadgeText"}
    BY DEF AddressV2Keys, Range
  <2> QED
    BY <2>1, <2>2
<1>4. {"text_v2", "number", "amount_v2", "address_v2"} \subseteq DOMAIN Variants
  BY DEF Variants
<1>6. CASE ask.builder = "text"
  BY <1>2, <1>4, <1>6 DEF Built, CreateTextField, KindOK
<1>7. CASE ask.builder = "raw"
  BY <1>2, <1>4, <1>7 DEF Built, CreateRawDataField, KindOK
<1>8. CASE ask.builder = "number"
  BY <1>2, <1>4, <1>8 DEF Built, CreateNumberField, KindOK
<1>9. CASE ask.builder = "amount"
  BY <1>4, <1>9 DEF Built, CreateAmountField, KindOK, Inserted
<1>10. CASE ask.builder = "address"
  BY <1>1, <1>3, <1>4, <1>10 DEF Built, CreateAddressField, KindOK
<1>11. CASE ask.builder = "literal"
  <2>1. Built(ask) = Literal(ask)
    BY <1>11 DEF Built
  <2>2. Literal(ask).kind = ask.kind /\ Literal(ask).ann = ask.annotations
    BY DEF Literal
  <2>3. CASE ask.kind = "amount_v2"
    <3>1. Range(AmountKeys) = {"Amount", "Abbreviation"}
      BY DEF AmountKeys, Range
    <3>2. Literal(ask).keys \subseteq {"Amount", "Abbreviation"} /\ "Amount" \in Literal(ask).keys
      BY <2>3, <3>1 DEF Literal
    <3> QED
      BY <1>1, <2>1, <2>2, <2>3, <3>2 DEF KindOK, Inserted
  <2>4. CASE ask.kind # "amount_v2"
    <3>1. ask.kind \in DOMAIN Declared
      BY <1>1, <2>4 DEF Declared, Variants
    <3>2. "amount" \in DOMAIN Declared /\ "Amount" \in Range(Declared["amount"])
      BY DEF Declared, AmountKeys, Range
    <3>3. Literal(ask).keys \subseteq Range(Declared[ask.kind])
      BY <1>3, <2>4, <3>2 DEF Literal
    <3> QED
      BY <1>1, <2>1, <2>2, <3>1, <3>3 DEF KindOK
  <2> QED
    BY <2>3, <2>4
<1> QED
  BY <1>1, <1>6, <1>7, <1>8, <1>9, <1>10, <1>11

(* The objects of a field, plain or annotated, are as they should be.      *)
LEMMA FieldObjectsOK ==
  ASSUME NEW path, IsPath(path, 1), NEW wrapper, NEW built, NEW ann, NEW chars,
         (wrapper = "field" /\ ann = {}) \/ (wrapper = "annotated" /\ IsPath(path, 2)),
         KindOK(built.kind, built.keys), ann \subseteq Annotations, chars \subseteq Chars,
         NEW o \in FieldObjects(path, wrapper, built, ann, chars)
  PROVE  ObjectOK(o)
<1> DEFINE key == Variants[built.kind]
<1>1. key \in Range(Variants)
  BY DEF KindOK, Range
<1>2. CASE o = Object(path, wrapper, CommonKeys \union {key} \union ann, chars)
  <2>1. /\ o.path = path /\ o.type = wrapper /\ o.chars = chars
        /\ o.keys = CommonKeys \union {key} \union ann
    BY <1>2 DEF Object
  <2>2. CASE wrapper = "field" /\ ann = {}
    <3>1. o.keys = CommonKeys \union {key}
      BY <2>1, <2>2
    <3> QED
      BY <1>1, <2>1, <2>2, <3>1 DEF ObjectOK, FieldOK
  <2>3. CASE wrapper = "annotated" /\ IsPath(path, 2)
    <3>1. AnnotatedOK(o)
      BY <1>1, <2>1, <2>3 DEF AnnotatedOK
    <3> QED
      BY <2>1, <2>3, <3>1, DeepObject
  <2> QED
    BY <2>2, <2>3
<1>3. CASE o = Object(Append(path, key), built.kind, built.keys, chars)
  <2>1. o.path = Append(path, key) /\ o.type = built.kind /\ o.keys = built.keys /\ o.chars = chars
    BY <1>3 DEF Object
  <2>2. SortedOK(o) \/ StructOK(o)
    BY <2>1 DEF KindOK, SortedOK, StructOK
  <2>3. IsPath(o.path, 2)
    BY <2>1, LongerPath
  <2> QED
    BY <2>1, <2>2, <2>3, DeepObject
<1>4. CASE \E a \in ann : o = Annotation(path, a, chars)
  <2>1. PICK a \in ann : o = Annotation(path, a, chars)
    BY <1>4
  <2>2. IsPath(Append(path, a), 2)
    BY LongerPath
  <2>3. CASE a = "StaticAnnotation"
    <3>1. o = Object(Append(path, a), "static_annotation", {"Text"}, chars)
      BY <2>1, <2>3 DEF Annotation
    <3>2. "static_annotation" \in DOMAIN Declared /\ Range(Declared["static_annotation"]) = {"Text"}
      BY DEF Declared, Range
    <3>3. /\ o.path = Append(path, a) /\ o.type = "static_annotation"
          /\ o.keys = {"Text"} /\ o.chars = chars
      BY <3>1 DEF Object
    <3>4. StructOK(o)
      BY <3>2, <3>3 DEF StructOK
    <3> QED
      BY <2>2, <3>3, <3>4, DeepObject
  <2>4. CASE a # "StaticAnnotation"
    <3>1. o = Object(Append(path, a), "dynamic_annotation", {"Type", "ID", "Params"}, chars)
      BY <2>1, <2>4 DEF Annotation
    <3>2. /\ o.path = Append(path, a) /\ o.type = "dynamic_annotation"
          /\ o.keys = {"Type", "ID", "Params"} /\ o.chars = chars
      BY <3>1 DEF Object
    <3>4. "dynamic_annotation" \in DOMAIN Declared
          /\ Range(Declared["dynamic_annotation"]) = {"ID", "Params", "Type"}
      BY DEF Declared, DynamicAnnotationKeys, Range
    <3>3. StructOK(o)
      BY <3>2, <3>4 DEF StructOK
    <3> QED
      BY <2>2, <3>2, <3>3, DeepObject
  <2> QED
    BY <2>3, <2>4
<1> QED
  BY <1>2, <1>3, <1>4 DEF FieldObjects

(* So are those of a layout around fields.                                 *)
LEMMA ShellOK ==
  ASSUME NEW path, IsPath(path, 1), NEW kind, NEW keys, KindOK(kind, keys),
         NEW chars \in SUBSET Chars, NEW o \in Shell(path, kind, keys, chars)
  PROVE  ObjectOK(o)
<1> DEFINE built == [kind |-> kind, keys |-> keys]
<1>1. built.kind = kind /\ built.keys = keys
  OBVIOUS
<1>2. KindOK(built.kind, built.keys) /\ o \in FieldObjects(path, "field", built, {}, chars)
  BY <1>1 DEF Shell
<1>3. {} \subseteq Annotations
  OBVIOUS
<1> HIDE DEF built
<1> QED
  BY <1>2, <1>3, FieldObjectsOK

(* And those of a list with the fields in it.                              *)
LEMMA ListObjectsOK ==
  ASSUME NEW path, IsPath(path, 2), NEW asks \in Seq(Ask), NEW o \in ListObjects(path, asks)
  PROVE  ObjectOK(o)
<1>1. CASE o = Object(path, "list_layout", {"Fields"}, {})
  <2>1. o.path = path /\ o.type = "list_layout" /\ o.keys = {"Fields"} /\ o.chars = {}
    BY <1>1 DEF Object
  <2>2. "list_layout" \in DOMAIN Declared /\ Range(Declared["list_layout"]) = {"Fields"}
    BY DEF Declared, Range
  <2>3. StructOK(o) /\ o.chars \subseteq Chars
    BY <2>1, <2>2 DEF StructOK
  <2> QED
    BY <2>1, <2>3, DeepObject
<1>2. ASSUME NEW i \in DOMAIN asks,
             o \in FieldObjects(Append(Append(path, "Fields"), i), "annotated", Built(asks[i]),
                               Built(asks[i]).ann, asks[i].chars)
      PROVE  ObjectOK(o)
  <2>1. IsPath(Append(path, "Fields"), 3)
    BY LongerPath
  <2>2. IsPath(Append(Append(path, "Fields"), i), 4)
    BY <2>1, LongerPath
  <2>3. /\ IsPath(Append(Append(path, "Fields"), i), 1)
        /\ IsPath(Append(Append(path, "Fields"), i), 2)
    BY <2>2 DEF IsPath
  <2>4. asks[i] \in Ask
    OBVIOUS
  <2>5. /\ KindOK(Built(asks[i]).kind, Built(asks[i]).keys)
        /\ Built(asks[i]).ann \subseteq Annotations /\ asks[i].chars \subseteq Chars
    BY <2>4, BuiltOK DEF Ask
  <2> QED
    BY <1>2, <2>3, <2>5, FieldObjectsOK
<1> QED
  BY <1>1, <1>2 DEF ListObjects

(* And so is all a converter places in one slot.                           *)
LEMMA PlacedOK ==
  ASSUME NEW path, IsPath(path, 1), NEW slot \in Slot, NEW o \in Placed(path, slot)
  PROVE  ObjectOK(o)
<1>1. CASE slot.layout = "none"
  <2>1. slot.ask \in Ask
    BY <1>1 DEF Slot
  <2>2. o \in FieldObjects(path, "field", Built(slot.ask), {}, slot.ask.chars)
    BY <1>1 DEF Placed
  <2>3. /\ KindOK(Built(slot.ask).kind, Built(slot.ask).keys)
        /\ {} \subseteq Annotations /\ slot.ask.chars \subseteq Chars
    BY <2>1, BuiltOK DEF Ask
  <2> QED
    BY <2>2, <2>3, FieldObjectsOK
<1>2. CASE slot.layout = "list"
  <2>1. slot.asks \in Seq(Ask) /\ slot.chars \in SUBSET Chars
    BY <1>2 DEF Slot
  <2>2. \/ o \in Shell(path, "list_layout", {"Fields"}, slot.chars)
        \/ o \in ListObjects(Append(path, "ListLayout"), slot.asks)
    BY <1>2 DEF Placed
  <2>3. KindOK("list_layout", {"Fields"})
    <3>1. "list_layout" \in DOMAIN Declared /\ Range(Declared["list_layout"]) = {"Fields"}
      BY DEF Declared, Range
    <3> QED
      BY <3>1 DEF KindOK, Variants
  <2>4. IsPath(Append(path, "ListLayout"), 2)
    BY LongerPath
  <2> QED
    BY <2>1, <2>2, <2>3, <2>4, ShellOK, ListObjectsOK
<1>3. CASE slot.layout = "preview"
  <2> DEFINE preview == Append(path, "PreviewLayout")
  <2>1. /\ slot.keys \subseteq Titles \union Views /\ slot.chars \in SUBSET Chars
        /\ \A v \in Views : slot.asks[v] \in Seq(Ask)
    BY <1>3 DEF Slot
  <2>2. \/ o \in Shell(path, "preview_layout", slot.keys, slot.chars)
        \/ \E t \in slot.keys \intersect Titles :
             o = Object(Append(preview, t), "text_v2", {"Text"}, slot.chars)
        \/ \E v \in slot.keys \intersect Views :
             o \in ListObjects(Append(preview, v), slot.asks[v])
    BY <1>3 DEF Placed
  <2>3. ASSUME NEW k PROVE IsPath(Append(preview, k), 2)
    <3>1. IsPath(preview, 2)
      BY LongerPath
    <3>2. IsPath(Append(preview, k), 3)
      BY <3>1, LongerPath
    <3> QED
      BY <3>2 DEF IsPath
  <2> HIDE DEF preview
  <2>4. CASE o \in Shell(path, "preview_layout", slot.keys, slot.chars)
    <3>1. KindOK("preview_layout", slot.keys)
      BY <2>1 DEF KindOK, Inserted, Variants, Titles, Views
    <3> QED
      BY <2>1, <2>4, <3>1, ShellOK
  <2>5. ASSUME NEW t \in slot.keys \intersect Titles,
               o = Object(Append(preview, t), "text_v2", {"Text"}, slot.chars)
        PROVE  ObjectOK(o)
    <3>1. /\ o.path = Append(preview, t) /\ o.type = "text_v2"
          /\ o.keys = {"Text"} /\ o.chars = slot.chars
      BY <2>5 DEF Object
    <3>2. "text_v2" \in DOMAIN Declared /\ Range(Declared["text_v2"]) = {"Text"}
      BY DEF Declared, Range
    <3>3. StructOK(o) /\ o.chars \subseteq Chars
      BY <2>1, <3>1, <3>2 DEF StructOK
    <3> QED
      BY <2>3, <3>1, <3>3, DeepObject
  <2>6. ASSUME NEW v \in slot.keys \intersect Views,
               o \in ListObjects(Append(preview, v), slot.asks[v])
        PROVE  ObjectOK(o)
    BY <2>1, <2>3, <2>6, ListObjectsOK
  <2> QED
    BY <2>2, <2>4, <2>5, <2>6
<1>4. slot.layout \in {"none", "list", "preview"}
  BY DEF Slot
<1> QED
  BY <1>1, <1>2, <1>3, <1>4

(* What a converter returns has only objects that are as they should be.   *)
LEMMA NewPayloadOK ==
  ASSUME NEW r \in Request, NEW o \in NewPayload(r)
  PROVE  ObjectOK(o)
<1>1. /\ r.slots \in Seq(Slot) /\ r.header \subseteq {"PayloadType", "Subtitle"}
      /\ r.chars \subseteq Chars
  BY DEF Request
<1>2. CASE o = Object(<<>>, "payload", {"Fields", "Title", "Version"} \union r.header, r.chars)
  <2>1. /\ o.type = "payload" /\ o.chars = r.chars
        /\ o.keys = {"Fields", "Title", "Version"} \union r.header
    BY <1>2 DEF Object
  <2>2. "payload" \in DOMAIN Declared /\ Declared["payload"] = PayloadKeys
    BY DEF Declared
  <2>3. Range(PayloadKeys) = {"Fields", "PayloadType", "Subtitle", "Title", "Version"}
    BY DEF PayloadKeys, Range
  <2>4. StructOK(o)
    BY <1>1, <2>1, <2>2, <2>3 DEF StructOK
  <2> QED
    BY <1>1, <2>1, <2>4 DEF ObjectOK
<1>3. CASE \E i \in DOMAIN r.slots : o \in Placed(<<i>>, r.slots[i])
  <2>1. PICK i \in DOMAIN r.slots : o \in Placed(<<i>>, r.slots[i])
    BY <1>3
  <2>2. r.slots[i] \in Slot
    BY <1>1
  <2>3. <<i>> \in Seq({i}) /\ Len(<<i>>) >= 1
    OBVIOUS
  <2>4. IsPath(<<i>>, 1)
    BY <2>3 DEF IsPath
  <2> QED
    BY <2>1, <2>2, <2>4, PlacedOK
<1> QED
  BY <1>2, <1>3 DEF NewPayload

-----------------------------------------------------------------------------
(* The one answer there is for a payload.                                  *)
TheDocument ==
  {[path |-> o.path, keys |-> IF Len(o.path) <= 1 THEN Canonical(o) ELSE ToValue(Canonical(o))] :
     o \in payload}

TheValue == {[path |-> o.path, keys |-> ToValue(Canonical(o))] : o \in payload}

TheWire == {WireOf(c) : c \in UNION {o.chars : o \in payload}}

TheAnswer == [document |-> TheDocument, wire |-> TheWire, verified |-> Alphabetical(TheValue)]

(* The inductive invariant: the payload is as the builders make it, its    *)
(* characters were checked before anything is answered, and what is        *)
(* answered is a function of the payload and the build alone.              *)
BuildOK == preserveOrder \in BOOLEAN /\ request \in Request

PayloadOK == \A o \in payload : ObjectOK(o)

CheckedFirst ==
  /\ stage \in {"requested", "converted"} => responses = {}
  /\ stage \in {"validated", "answered"} \/ responses # {} => TheWire \subseteq {"printable"}

OneAnswer == responses \subseteq {TheAnswer}

IInv == BuildOK /\ PayloadOK /\ CheckedFirst /\ OneAnswer

(* Which text is checked or sent makes no difference to its characters.    *)
LEMMA WireOfAny ==
  ASSUME NEW document, \A o \in payload : \E d \in document : d.path = o.path
  PROVE  Wire(payload, document) = TheWire
<1>1. {x \in payload : \E d \in document : d.path = x.path} = payload
  OBVIOUS
<1> QED
  BY <1>1 DEF Wire, TheWire

(* Encoding reads HashMaps in any order and writes the same document.      *)
LEMMA EncodedIsOne ==
  ASSUME PayloadOK, NEW hash \in HashOrders
  PROVE  /\ Encoded(payload, hash) = TheDocument
         /\ ValueOf(payload, hash) = TheValue
<1>1. \A o \in payload : Written(o, hash) = Canonical(o)
  BY WrittenIsCanonical DEF PayloadOK
<1>2. Encoded(payload, hash) = TheDocument
  BY <1>1 DEF Encoded, TheDocument
<1>3. ValueOf(payload, hash) = TheValue
  BY <1>1 DEF ValueOf, TheValue
<1> QED
  BY <1>2, <1>3

(* A text that passes validate_charset is printable throughout.            *)
LEMMA CheckedIsPrintable ==
  ASSUME PayloadOK, ValidateCharset(TheWire)
  PROVE  TheWire \subseteq {"printable"}
<1>1. \A c \in UNION {o.chars : o \in payload} : c \in Chars
  BY DEF PayloadOK, ObjectOK
<1>2. \A c \in Chars : WireOf(c) \in {"printable", "u_escape", "unicode", "delete"}
  BY DEF Chars, WireOf
<1>3. TheWire \subseteq {"printable", "u_escape", "unicode", "delete"}
  BY <1>1, <1>2 DEF TheWire
<1> QED
  BY <1>3 DEF ValidateCharset, ContainsUnicodeEscape, IsAscii, IsPrintable

(* Before anything is built there is nothing wrong with it.                *)
LEMMA InitIInv == Init => IInv
<1> SUFFICES ASSUME Init PROVE IInv
  OBVIOUS
<1>1. BuildOK
  BY BuildsAssumption, RequestsAssumption DEF Init, BuildOK
<1>2. PayloadOK /\ OneAnswer
  BY DEF Init, NoPayload, PayloadOK, OneAnswer
<1>3. CheckedFirst
  BY DEF Init, CheckedFirst
<1> QED
  BY <1>1, <1>2, <1>3 DEF IInv

(* Every step of a conversion keeps the invariant.                         *)
LEMMA NextIInv == IInv /\ [Next]_vars => IInv'
<1> SUFFICES ASSUME IInv, [Next]_vars PROVE IInv'
  OBVIOUS
<1>0. BuildOK /\ PayloadOK /\ CheckedFirst /\ OneAnswer
  BY DEF IInv
<1>1. CASE Convert
  <2>1. /\ stage = "requested" /\ UNCHANGED <<preserveOrder, request, responses>>
        /\ \/ payload' = NewPayload(request) /\ stage' = "converted"
           \/ payload' = payload /\ stage' = "refused"
    BY <1>1 DEF Convert
  <2>2. responses = {} /\ responses' = {}
    BY <1>0, <2>1 DEF CheckedFirst
  <2>3. BuildOK'
    BY <1>0, <2>1 DEF BuildOK
  <2>4. PayloadOK'
    BY <1>0, <2>1, NewPayloadOK DEF PayloadOK, BuildOK
  <2>5. CheckedFirst' /\ OneAnswer'
    BY <2>1, <2>2 DEF CheckedFirst, OneAnswer
  <2> QED
    BY <2>3, <2>4, <2>5 DEF IInv
<1>2. CASE Validate
  <2>1. stage = "converted" /\ UNCHANGED <<preserveOrder, request, payload, responses>>
    BY <1>2 DEF Validate
  <2>2. PICK hash \in HashOrders :
          stage' = IF ValidateCharset(Wire(payload, ToJson(payload, hash))) THEN "validated" ELSE "refused"
    BY <1>2 DEF Validate
  <2>3. \A o \in payload : \E d \in ToJson(payload, hash) : d.path = o.path
    <3> SUFFICES ASSUME NEW o \in payload PROVE \E d \in ToJson(payload, hash) : d.path = o.path
      OBVIOUS
    <3> DEFINE e == [path |-> o.path, keys |-> ToValue(Written(o, hash))]
               d == [e EXCEPT !.keys = Sorted(Range(@))]
    <3>1. e \in ValueOf(payload, hash)
      BY DEF ValueOf
    <3>2. d \in ToJson(payload, hash)
      BY <3>1, Zenon DEF ToJson, SortJson
    <3>3. d.path = o.path
      OBVIOUS
    <3> QED
      BY <3>2, <3>3
  <2>4. Wire(payload, ToJson(payload, hash)) = TheWire
    BY <2>3, WireOfAny
  <2>5. stage' \in {"validated", "answered"} => TheWire \subseteq {"printable"}
    BY <1>0, <2>2, <2>4, CheckedIsPrintable
  <2>6. TheWire' = TheWire /\ TheAnswer' = TheAnswer
    BY <2>1 DEF TheWire, TheAnswer, TheDocument, TheValue, ToValue
  <2>7. BuildOK' /\ PayloadOK' /\ OneAnswer'
    BY <1>0, <2>1, <2>6 DEF BuildOK, PayloadOK, OneAnswer
  <2>8. CheckedFirst'
    BY <1>0, <2>1, <2>2, <2>5, <2>6 DEF CheckedFirst
  <2> QED
    BY <2>7, <2>8 DEF IInv
<1>3. CASE Answer
  <2>1. stage \in {"validated", "answered"} /\ UNCHANGED <<preserveOrder, request, payload>>
    BY <1>3 DEF Answer
  <2>2. PICK hash \in HashOrders :
          \/ /\ stage' = "answered"
             /\ responses' = responses \union
                  {[document |-> Encoded(payload, hash), wire |-> Wire(payload, Encoded(payload, hash)),
                    verified |-> VerifyDeterministicOrdering(payload, hash)]}
          \/ stage' = "failed" /\ responses' = responses
    BY <1>3 DEF Answer
  <2>3. \A o \in payload : \E d \in Encoded(payload, hash) : d.path = o.path
    <3> SUFFICES ASSUME NEW o \in payload PROVE \E d \in Encoded(payload, hash) : d.path = o.path
      OBVIOUS
    <3> DEFINE d == [path |-> o.path, keys |-> IF Len(o.path) <= 1 THEN Written(o, hash)
                                               ELSE ToValue(Written(o, hash))]
    <3>1. d \in Encoded(payload, hash)
      BY DEF Encoded
    <3>2. d.path = o.path
      OBVIOUS
    <3> QED
      BY <3>1, <3>2
  <2>4. /\ Encoded(payload, hash) = TheDocument
        /\ Wire(payload, Encoded(payload, hash)) = TheWire
        /\ VerifyDeterministicOrdering(payload, hash) = Alphabetical(TheValue)
    BY <1>0, <2>3, EncodedIsOne, WireOfAny DEF VerifyDeterministicOrdering
  <2>5. responses' \subseteq responses \union {TheAnswer}
    BY <2>2, <2>4 DEF TheAnswer
  <2>6. TheWire' = TheWire /\ TheAnswer' = TheAnswer
    BY <2>1 DEF TheWire, TheAnswer, TheDocument, TheValue, ToValue
  <2>7. BuildOK' /\ PayloadOK' /\ OneAnswer'
    BY <1>0, <2>1, <2>5, <2>6 DEF BuildOK, PayloadOK, OneAnswer
  <2>8. CheckedFirst'
    BY <1>0, <2>1, <2>2, <2>6 DEF CheckedFirst
  <2> QED
    BY <2>7, <2>8 DEF IInv
<1>4. CASE UNCHANGED vars
  <2>1. UNCHANGED <<preserveOrder, request, payload, stage, responses>>
    BY <1>4 DEF vars
  <2>2. TheWire' = TheWire /\ TheAnswer' = TheAnswer
    BY <2>1 DEF TheWire, TheAnswer, TheDocument, TheValue, ToValue
  <2> QED
    BY <1>0, <2>1, <2>2 DEF IInv, BuildOK, PayloadOK, CheckedFirst, OneAnswer
<1> QED
  BY <1>1, <1>2, <1>3, <1>4 DEF Next

(* The invariant holds throughout.                                         *)
THEOREM Invariant == Spec => []IInv
<1>1. Init => IInv
  BY InitIInv
<1>2. IInv /\ [Next]_vars => IInv'
  BY NextIInv
<1> QED
  BY <1>1, <1>2, PTL DEF Spec

(* Any number of calls, in any number of processes, answer one payload     *)
(* with the same bytes: the order in which serialize_to_map reads its      *)
(* HashMap never shows.                                                    *)
THEOREM AnswersAgree == Spec => []SameAnswer
<1>1. IInv => SameAnswer
  <2> SUFFICES ASSUME IInv PROVE Cardinality(responses) <= 1
    BY DEF SameAnswer
  <2>1. responses \subseteq {TheAnswer}
    BY DEF IInv, OneAnswer
  <2>2. IsFiniteSet({TheAnswer}) /\ Cardinality({TheAnswer}) = 1
    BY FS_Singleton
  <2>3. IsFiniteSet(responses) /\ Cardinality(responses) <= Cardinality({TheAnswer})
    BY <2>1, <2>2, FS_Subset
  <2> QED
    BY <2>2, <2>3
<1> QED
  BY <1>1, Invariant, PTL

(* Every text that is sent was checked: it is printable ASCII, whichever   *)
(* of the two serialisations validate_charset looked at.                   *)
THEOREM AnswersArePrintable == Spec => []SentIsPrintable
<1>1. IInv => SentIsPrintable
  <2> SUFFICES ASSUME IInv, NEW r \in responses PROVE r.wire \subseteq {"printable"}
    BY DEF SentIsPrintable
  <2>1. r = TheAnswer /\ TheWire \subseteq {"printable"}
    BY DEF IInv, OneAnswer, CheckedFirst
  <2>2. r.wire = TheWire
    BY <2>1 DEF TheAnswer
  <2> QED
    BY <2>1, <2>2
<1> QED
  BY <1>1, Invariant, PTL

(* Every key of every object of the payload is sent, once, and no other:   *)
(* the maps of serialize_to_map and of the hand-written implementations    *)
(* hide nothing, for any fields a converter may build.                     *)
THEOREM AnswersAreComplete == Spec => []NothingDropped
<1>1. IInv => NothingDropped
  <2> SUFFICES ASSUME IInv, NEW r \in responses
               PROVE  /\ {[path |-> d.path, keys |-> Range(d.keys)] : d \in r.document}
                           = {[path |-> o.path, keys |-> o.keys] : o \in payload}
                      /\ \A d \in r.document : IsInjective(d.keys)
    BY DEF NothingDropped
  <2> DEFINE K(o) == IF Len(o.path) <= 1 THEN Canonical(o) ELSE ToValue(Canonical(o))
  <2>1. r.document = {[path |-> o.path, keys |-> K(o)] : o \in payload}
    BY DEF IInv, OneAnswer, TheAnswer, TheDocument
  <2>2. ASSUME NEW o \in payload PROVE Range(K(o)) = o.keys /\ IsInjective(K(o))
    <3>1. Range(Canonical(o)) = o.keys /\ IsInjective(Canonical(o))
      <4>1. ObjectOK(o)
        BY DEF IInv, PayloadOK
      <4>2. \E hash : hash \in HashOrders
        <5>1. <<"FallbackText", "Label", "Type", "variant">> \in HashOrders
          BY DEF HashOrders, CommonKeys, IsInjective
        <5> QED
          BY <5>1
      <4> QED
        BY <4>1, <4>2, WrittenIsCanonical
    <3>2. o.keys \subseteq Range(Alphabet)
      BY KeysInAlphabet DEF IInv, PayloadOK
    <3>3. Range(Sorted(o.keys)) = o.keys /\ IsInjective(Sorted(o.keys))
      BY <3>2, SortedKeys
    <3> QED
      BY <3>1, <3>3 DEF ToValue
  <2> HIDE DEF K
  <2>3. ASSUME NEW d \in r.document
        PROVE  \E o \in payload : d.path = o.path /\ Range(d.keys) = o.keys /\ IsInjective(d.keys)
    <3>1. PICK o \in payload : d = [path |-> o.path, keys |-> K(o)]
      BY <2>1
    <3>2. d.path = o.path /\ d.keys = K(o)
      BY <3>1
    <3> QED
      BY <2>2, <3>2
  <2>4. ASSUME NEW o \in payload
        PROVE  \E d \in r.document : d.path = o.path /\ Range(d.keys) = o.keys
    <3> DEFINE d == [path |-> o.path, keys |-> K(o)]
    <3>1. d \in r.document
      BY <2>1
    <3>2. d.path = o.path /\ d.keys = K(o)
      OBVIOUS
    <3> QED
      BY <2>2, <3>1, <3>2
  <2> DEFINE sent == {[path |-> d.path, keys |-> Range(d.keys)] : d \in r.document}
             built == {[path |-> o.path, keys |-> o.keys] : o \in payload}
  <2>5. sent \subseteq built
    BY <2>3
  <2>6. built \subseteq sent
    BY <2>4
  <2> QED
    BY <2>3, <2>5, <2>6
<1> QED
  BY <1>1, Invariant, PTL

(* A payload that the runtime check accepts is sent in alphabetical order, *)
(* although the check looks at a Value and the text is written directly.   *)
THEOREM VerifiedAnswersAreAlphabetical == Spec => []VerifiedIsAlphabetical
<1>1. IInv => VerifiedIsAlphabetical
  <2> SUFFICES ASSUME IInv, NEW r \in responses, r.verified, NEW d \in r.document
               PROVE  d.keys = Sorted(Range(d.keys))
    BY DEF VerifiedIsAlphabetical, Alphabetical
  <2>1. r.document = TheDocument /\ Alphabetical(TheValue)
    BY DEF IInv, OneAnswer, TheAnswer
  <2>2. PICK o \in payload :
          d = [path |-> o.path, keys |-> IF Len(o.path) <= 1 THEN Canonical(o) ELSE ToValue(Canonical(o))]
    BY <2>1 DEF TheDocument
  <2>3. ToValue(Canonical(o)) = Sorted(Range(ToValue(Canonical(o))))
    <3> DEFINE e == [path |-> o.path, keys |-> ToValue(Canonical(o))]
    <3>1. e \in TheValue
      BY DEF TheValue
    <3>2. e.keys = Sorted(Range(e.keys))
      BY <2>1, <3>1, Zenon DEF Alphabetical
    <3> QED
      BY <3>2
  <2>4. CASE Len(o.path) <= 1
    <3>1. d.keys = Canonical(o)
      BY <2>2, <2>4
    <3>2. ObjectOK(o) /\ o.type \in {"payload", "field"}
      BY <2>4 DEF IInv, PayloadOK, ObjectOK
    <3>3. CASE o.type = "field"
      <4>1. Canonical(o) = Sorted(o.keys)
        BY <3>3 DEF Canonical
      <4> QED
        BY <3>1, <4>1, SortedKeys
    <3>4. CASE o.type = "payload"
      <4>1. Canonical(o) = Filter(PayloadKeys, o.keys)
        BY <3>4 DEF Canonical, Declared, WrittenSorted
      <4>2. Filter(PayloadKeys, o.keys) = Sorted(Range(PayloadKeys) \cap o.keys)
        <5>1. Filter(Filter(Alphabet, Range(PayloadKeys)), o.keys)
                = Filter(Alphabet, Range(PayloadKeys) \cap o.keys)
          BY AlphabetOnce, FilterTwice
        <5> QED
          BY <5>1, PayloadKeysSorted DEF Sorted
      <4> QED
        BY <3>1, <4>1, <4>2, SortedKeys
    <3> QED
      BY <3>2, <3>3, <3>4
  <2>5. CASE ~(Len(o.path) <= 1)
    BY <2>2, <2>3, <2>5
  <2> QED
    BY <2>4, <2>5
<1> QED
  BY <1>1, Invariant, PTL
=============================================================================
