-------------------------- MODULE CommandLineProofs --------------------------
(***************************************************************************)
(* What the registry and the command line promise, for any chains,         *)
(* converters, texts, formats and payloads.  Of the registry: detection    *)
(* finds a chain whose converter accepts the text if there is one, in      *)
(* whatever order it tries them, texts are read as they were meant unless  *)
(* they are ambiguous, and what is shown is printable.  Of the command     *)
(* line that fills it: the tree it prints can be read back, and condensed  *)
(* it is the same tree with lines left out, however deep fields are nested.*)
(***************************************************************************)
EXTENDS CommandLine, SequenceFacts

(* The chains the loop has passed do not convert the text.                 *)
TriedInv ==
  asked # Nothing =>
    \A c \in DOMAIN converters \ untried : Converted(c, asked).is # "payload"

(* What convert_transaction returned is what it would return again.        *)
ConvertInv ==
  outcome.of = "convert" => outcome.result = Converted(outcome.chain, outcome.text)

(* TypeOK of a registry that may have any chain, as the one the command    *)
(* line fills.                                                             *)
Uses ==
  /\ \A c \in DOMAIN converters : converters[c] \in Converters
  /\ asked \in Texts \cup {Nothing}
  /\ untried \subseteq DOMAIN converters
  /\ outcome.of \in {"none", "convert", "detect"}
  /\ outcome.of # "none" => outcome.text \in Texts

UseInv == Uses /\ TriedInv /\ ConvertInv /\ DetectsWhatConverts

(* A conversion is an error or a payload that passed validate_charset.     *)
LEMMA ConvertedPayload ==
  ASSUME NEW c, NEW t
  PROVE  LET r == Converted(c, t)
         IN  \/ r.is = "error"
             \/ r.is = "payload" /\ r = Payload(r.payload) /\ r.payload \notin Unprintable
<1>1. \A k : Error(k).is = "error"
  BY DEF Error
<1>2. \A p : Payload(p).is = "payload" /\ Payload(p).payload = p
  BY DEF Payload
<1>3. CASE c \in DOMAIN converters
  <2> DEFINE tx == from_string(converters[c], t)
             p == to_visual_sign_payload(converters[c], tx)
  <2>1. \/ \E k : Converted(c, t) = Error(k)
        \/ Converted(c, t) = Payload(p) /\ p \notin Unprintable
    BY <1>3 DEF Converted, to_visual_sign_payload_from_string,
      to_validated_visual_sign_payload
  <2> HIDE DEF p
  <2> QED
    BY <1>1, <1>2, <2>1
<1>4. CASE c \notin DOMAIN converters
  BY <1>1, <1>4 DEF Converted
<1> QED
  BY <1>3, <1>4

(* A new registry is empty.                                                *)
LEMMA InitUseInv == Init => UseInv
BY DEF Init, UseInv, Uses, TriedInv, ConvertInv, DetectsWhatConverts, None

(* register ends whatever was said of the converters before.               *)
LEMMA RegisterUseInv ==
  ASSUME UseInv, NEW chain, NEW converter \in Converters, register(chain, converter)
  PROVE  UseInv'
<1> USE DEF UseInv, register
<1>1. Uses'
  <2>1. DOMAIN converters' = DOMAIN converters \cup {chain}
    OBVIOUS
  <2> QED
    BY <2>1 DEF Uses, None
<1>2. TriedInv' /\ ConvertInv' /\ DetectsWhatConverts'
  BY DEF TriedInv, ConvertInv, DetectsWhatConverts, None
<1> QED
  BY <1>1, <1>2

(* Asking for a chain, or for any chain, keeps the invariant.              *)
LEMMA AskUseInv ==
  ASSUME UseInv, NEW t \in Texts,
         \/ auto_detect_and_convert(t)
         \/ \E chain : convert_transaction(chain, t)
  PROVE  UseInv'
<1> USE DEF UseInv
<1>1. CASE auto_detect_and_convert(t)
  BY <1>1 DEF auto_detect_and_convert, Uses, TriedInv, ConvertInv,
     DetectsWhatConverts, None
<1>2. ASSUME NEW chain, convert_transaction(chain, t) PROVE UseInv'
  <2>1. /\ converters' = converters /\ asked' = asked /\ asked = Nothing
        /\ untried' = untried
        /\ outcome'.of = "convert" /\ outcome'.chain = chain /\ outcome'.text = t
        /\ outcome'.result = Converted(chain, t)
    BY <1>2 DEF convert_transaction
  <2>2. Converted(chain, t)' = Converted(chain, t)
    BY <2>1 DEF Converted
  <2> QED
    BY <2>1, <2>2 DEF Uses, TriedInv, ConvertInv, DetectsWhatConverts, Converted
<1> QED
  BY <1>1, <1>2

(* A turn of the loop, and its end, keep the invariant: a chain is passed  *)
(* only if it does not convert the text.                                   *)
LEMMA LoopUseInv ==
  ASSUME UseInv, GiveUp \/ \E chain : Try(chain)
  PROVE  UseInv'
<1> USE DEF UseInv
<1>1. CASE GiveUp
  <2>1. /\ converters' = converters /\ asked' = Nothing /\ untried' = untried
        /\ asked \in Texts
        /\ outcome'.of = "detect" /\ outcome'.text = asked
        /\ outcome'.result = Error("ConversionError")
    BY <1>1 DEF GiveUp, Uses
  <2>2. Accepting(asked) = {}
    BY <1>1 DEF GiveUp, TriedInv, Accepting
  <2>3. \A t : Accepting(t)' = Accepting(t)
    BY <2>1 DEF Accepting, Converted
  <2>4. DetectsWhatConverts'
    BY <2>1, <2>2, <2>3 DEF DetectsWhatConverts, Error
  <2> QED
    BY <2>1, <2>4 DEF Uses, TriedInv, ConvertInv
<1>2. ASSUME NEW chain, Try(chain) PROVE UseInv'
  <2> DEFINE r == Converted(chain, asked)
  <2>1. /\ asked # Nothing /\ asked \in Texts /\ chain \in untried
        /\ converters' = converters /\ chain \in DOMAIN converters
    BY <1>2 DEF Try, Uses
  <2>2. CASE supports_format(converters[chain], asked) /\ r.is = "payload"
    <3>1. /\ outcome'.of = "detect" /\ outcome'.text = asked
          /\ outcome'.result = Detected(chain, r.payload)
          /\ asked' = Nothing /\ untried' = {}
      BY <1>2, <2>2 DEF Try
    <3>2. chain \in Accepting(asked) /\ r = Payload(r.payload)
      BY <2>1, <2>2, ConvertedPayload DEF Accepting
    <3>3. /\ \A t : Accepting(t)' = Accepting(t)
          /\ \A t : Converted(chain, t)' = Converted(chain, t)
      BY <2>1 DEF Accepting, Converted
    <3>4. DetectsWhatConverts'
      BY <3>1, <3>2, <3>3 DEF DetectsWhatConverts, Detected
    <3> QED
      BY <2>1, <3>1, <3>4 DEF Uses, TriedInv, ConvertInv
  <2>3. CASE ~(supports_format(converters[chain], asked) /\ r.is = "payload")
    <3>1. untried' = untried \ {chain} /\ UNCHANGED <<asked, outcome>>
      BY <1>2, <2>3 DEF Try
    <3>2. r.is # "payload"
      <4>1. ~supports_format(converters[chain], asked) => r = Error("ParseError")
        BY <2>1 DEF supports_format, Converted, to_visual_sign_payload_from_string
      <4> QED
        BY <2>3, <4>1 DEF Error
    <3>3. \A c, t : Converted(c, t)' = Converted(c, t)
      BY <2>1 DEF Converted
    <3>4. \A t : Accepting(t)' = Accepting(t)
      BY <2>1, <3>3 DEF Accepting
    <3> HIDE DEF r
    <3>5. TriedInv'
      BY <2>1, <3>1, <3>2, <3>3 DEF TriedInv, r
    <3>6. ConvertInv' /\ DetectsWhatConverts'
      BY <3>1, <3>3, <3>4 DEF ConvertInv, DetectsWhatConverts
    <3> QED
      BY <2>1, <3>1, <3>5, <3>6 DEF Uses
  <2> QED
    BY <2>2, <2>3
<1> QED
  BY <1>1, <1>2

(* Every step of the registry keeps the invariant, one of a program that   *)
(* leaves it alone too.                                                    *)
LEMMA NextUseInv == UseInv /\ [Next]_vars => UseInv'
<1> SUFFICES ASSUME UseInv, [Next]_vars PROVE UseInv'
  OBVIOUS
<1>1. CASE UNCHANGED vars
  BY <1>1 DEF vars, UseInv, Uses, TriedInv, ConvertInv, DetectsWhatConverts, Accepting,
     Converted
<1> QED
  BY <1>1, RegisterUseInv, AskUseInv, LoopUseInv DEF Next

(* The invariant holds whatever is registered and asked.                   *)
LEMMA Invariant == Spec => []UseInv
<1>1. Init => UseInv
  BY InitUseInv
<1> QED
  BY <1>1, NextUseInv, PTL DEF Spec

(* Type correctness of the registry: a loop only comes to chains that are  *)
(* registered, and every one of those has a converter.                     *)
THEOREM TypeCorrect == Spec => []TypeOK
<1> DEFINE I == UseInv /\ DOMAIN converters \subseteq Chains
<1>1. Init => I
  BY InitUseInv DEF Init
<1>2. I /\ [Next]_vars => I'
  <2> SUFFICES ASSUME DOMAIN converters \subseteq Chains, [Next]_vars
               PROVE  DOMAIN converters' \subseteq Chains
    BY NextUseInv
  <2>1. ASSUME NEW chain \in Chains, NEW converter \in Converters, register(chain, converter)
        PROVE  DOMAIN converters' \subseteq Chains
    <3>1. DOMAIN converters' = DOMAIN converters \cup {chain}
      BY <2>1 DEF register
    <3> QED
      BY <3>1
  <2> QED
    BY <2>1 DEF Next, vars, convert_transaction, auto_detect_and_convert, Try, GiveUp
<1>3. I => TypeOK
  BY DEF UseInv, Uses, TypeOK
<1> HIDE DEF I
<1> QED
  BY <1>1, <1>2, <1>3, PTL DEF Spec

(* auto_detect_and_convert finds a chain exactly if one accepts the text,  *)
(* with the payload convert_transaction gives, in any order of the map.    *)
THEOREM DetectionFindsConversions == Spec => []DetectsWhatConverts
<1>1. UseInv => DetectsWhatConverts
  BY DEF UseInv
<1> QED
  BY <1>1, Invariant, PTL

(* Nothing leaves the registry that validate_charset turns down.           *)
THEOREM PayloadsPrintable == Spec => []OnlyPrintable
<1>1. UseInv => OnlyPrintable
  <2> SUFFICES ASSUME UseInv, outcome.of # "none",
                      outcome.result.is \in {"payload", "detected"}
               PROVE  outcome.result.payload \notin Unprintable
    BY DEF OnlyPrintable
  <2>1. CASE outcome.of = "convert"
    <3>1. outcome.result = Converted(outcome.chain, outcome.text)
      BY <2>1 DEF UseInv, ConvertInv
    <3>2. \/ outcome.result.is = "error"
          \/ outcome.result.payload \notin Unprintable
      BY <3>1, ConvertedPayload
    <3> QED
      BY <3>2
  <2>2. CASE outcome.of = "detect"
    <3> DEFINE r == outcome.result
               s == Converted(r.chain, outcome.text)
    <3>1. r.is # "payload"
      BY <2>2 DEF UseInv, DetectsWhatConverts
    <3>2. Payload(r.payload) = s
      BY <2>2, <3>1 DEF UseInv, DetectsWhatConverts
    <3>3. s.is = "payload" /\ s.payload = r.payload
      BY <3>2 DEF Payload
    <3> QED
      BY <3>3, ConvertedPayload
  <2> QED
    BY <2>1, <2>2 DEF UseInv, Uses
<1> QED
  BY <1>1, Invariant, PTL

(* A text that is not ambiguous is read as the bytes it stands for.        *)
LEMMA BytesAsMeant ==
  ASSUME NEW t \in Texts, NEW k \in Converters, ~Mistaken(k, t)
  PROVE  bytes(k, t) = Meaning(t)
BY RegistryAssumption DEF Text, Mistaken, bytes, detect, StripsZeroX, Meaning

(* What is converted is read as it was meant.                              *)
LEMMA UseReadAsMeant == UseInv => ReadAsMeant
<1> DEFINE k == converters[outcome.chain]
           t == outcome.text
           tx == DecodeBytes(k, Meaning(t))
<1> SUFFICES ASSUME UseInv, outcome.of = "convert", outcome.result.is = "payload",
                    k # "Unspecified", ~Mistaken(k, t)
             PROVE  tx # Bad /\ outcome.result.payload = Shows[<<k, tx>>]
  BY DEF ReadAsMeant
<1>1. outcome.result = Converted(outcome.chain, t) /\ t \in Texts
  BY DEF UseInv, ConvertInv, Uses
<1>2. outcome.chain \in DOMAIN converters /\ k \in Converters
  BY <1>1 DEF UseInv, Uses, Converted, Error
<1>3. bytes(k, t) = Meaning(t)
  BY <1>1, <1>2, BytesAsMeant
<1> DEFINE read == from_string(k, t)
<1>4. outcome.result = to_visual_sign_payload_from_string(k, t)
  BY <1>1, <1>2 DEF Converted
<1>5. read # Bad /\ outcome.result.payload = to_visual_sign_payload(k, read)
  BY <1>4 DEF to_visual_sign_payload_from_string,
    to_validated_visual_sign_payload, Error, Payload
<1>6. read = tx
  BY <1>2, <1>3, <1>5 DEF from_string
<1> HIDE DEF read, tx
<1> QED
  BY <1>5, <1>6 DEF to_visual_sign_payload

(* Every conversion shows the transaction its text stands for, in either   *)
(* encoding, but for the three kinds of text that are mistaken.            *)
THEOREM TextsReadAsMeant == Spec => []ReadAsMeant
BY UseReadAsMeant, Invariant, PTL

-----------------------------------------------------------------------------
(* The process: what it has before it converts, and what it prints.        *)
ProcessInv ==
  /\ process \in {"none", "create", "convert", "display", "done", "usage"}
  /\ process # "none" => args.condensed_only \in BOOLEAN /\ args.transaction \in Texts
  /\ process = "create" => converters = <<>> /\ asked = Nothing /\ outcome = None
  /\ process # "done" => stdout = NoOutput
  /\ stdout.as = "human" =>
       /\ process = "done"
       /\ stdout.payload \in Drawings
       /\ stdout.lines = HumanReadable(stdout.payload, args.condensed_only)

CliInv == UseInv /\ ProcessInv

LEMMA InitCliInv == CliInit => CliInv
BY InitUseInv DEF CliInit, CliInv, ProcessInv, NoOutput

(* Until the arguments are there, the registry may be another program's.   *)
LEMMA BeforeCliInv ==
  ASSUME CliInv, Library \/ ParseArgs
  PROVE  CliInv'
<1>1. CASE Library
  <2>1. UseInv'
    BY <1>1, NextUseInv DEF Library, CliInv
  <2>2. ProcessInv'
    BY <1>1 DEF Library, CliInv, ProcessInv, cli
  <2> QED
    BY <2>1, <2>2 DEF CliInv
<1>2. CASE ParseArgs
  <2>1. UseInv'
    BY <1>2, NextUseInv DEF ParseArgs, CliInv
  <2>2. /\ args'.condensed_only \in BOOLEAN /\ args'.transaction \in Texts
        /\ process' \in {"create", "usage"} /\ process = "none"
        /\ stdout' = NoOutput /\ stdout'.as # "human"
        /\ converters' = <<>> /\ asked' = Nothing /\ outcome' = None
    BY <1>2 DEF ParseArgs, vars, CliInv, ProcessInv, NoOutput
  <2>3. ProcessInv'
    BY <2>2 DEF ProcessInv
  <2> QED
    BY <2>1, <2>3 DEF CliInv
<1> QED
  BY <1>1, <1>2

(* The registry is new when it is filled, so nothing was said of it.       *)
LEMMA CreateCliInv ==
  ASSUME CliInv, create_registry
  PROVE  CliInv'
<1>1. /\ asked' = Nothing /\ outcome' = None /\ untried' = {}
      /\ converters' = [c \in Converters |-> c]
  <2>1. process = "create" /\ converters = <<>> /\ asked = Nothing /\ outcome = None
    BY DEF create_registry, CliInv, ProcessInv
  <2>2. untried = {}
    BY <2>1 DEF CliInv, UseInv, Uses
  <2> QED
    BY <2>1, <2>2 DEF create_registry
<1>2. UseInv'
  BY <1>1 DEF UseInv, Uses, TriedInv, ConvertInv, DetectsWhatConverts, None
<1>3. ProcessInv'
  BY DEF create_registry, CliInv, ProcessInv, NoOutput
<1> QED
  BY <1>2, <1>3 DEF CliInv

LEMMA ConvertCliInv ==
  ASSUME CliInv, ConvertArgs
  PROVE  CliInv'
<1>1. UseInv'
  <2>1. convert_transaction(parse_chain(args.chain), args.transaction) /\ args.transaction \in Texts
    BY DEF ConvertArgs, CliInv, ProcessInv
  <2> QED
    BY <2>1, AskUseInv DEF CliInv
<1>2. ProcessInv'
  BY DEF ConvertArgs, CliInv, ProcessInv, NoOutput
<1> QED
  BY <1>1, <1>2 DEF CliInv

(* What is printed for a person is the tree of the payload.                *)
LEMMA DisplayCliInv ==
  ASSUME CliInv,
         DisplayError \/ DisplayStructured \/ \E payload \in Drawings : DisplayHuman(payload)
  PROVE  CliInv'
<1>1. UNCHANGED vars /\ UNCHANGED args /\ process = "display" /\ process' = "done"
  BY DEF DisplayError, DisplayStructured, DisplayHuman
<1>2. UseInv'
  BY <1>1, NextUseInv DEF CliInv
<1>3. args.condensed_only \in BOOLEAN /\ args.transaction \in Texts /\ stdout = NoOutput
  BY <1>1 DEF CliInv, ProcessInv
<1>4. stdout'.as = "human" =>
        /\ stdout'.payload \in Drawings
        /\ stdout'.lines = HumanReadable(stdout'.payload, args.condensed_only)
  <2>1. CASE DisplayError
    BY <1>3, <2>1 DEF DisplayError, NoOutput
  <2>2. CASE DisplayStructured
    BY <2>2 DEF DisplayStructured
  <2>3. ASSUME NEW payload \in Drawings, DisplayHuman(payload)
        PROVE  /\ stdout'.payload \in Drawings
               /\ stdout'.lines = HumanReadable(stdout'.payload, args.condensed_only)
    BY <2>3 DEF DisplayHuman
  <2> QED
    BY <2>1, <2>2, <2>3
<1>5. ProcessInv'
  BY <1>1, <1>3, <1>4 DEF ProcessInv
<1> QED
  BY <1>2, <1>5 DEF CliInv

LEMMA NextCliInv == CliInv /\ [CliNext]_<<vars, cli>> => CliInv'
<1> SUFFICES ASSUME CliInv, [CliNext]_<<vars, cli>> PROVE CliInv'
  OBVIOUS
<1>1. CASE UNCHANGED <<vars, cli>>
  <2>1. UseInv'
    BY <1>1, NextUseInv DEF CliInv
  <2>2. ProcessInv'
    BY <1>1 DEF CliInv, ProcessInv, vars, cli
  <2> QED
    BY <2>1, <2>2 DEF CliInv
<1>2. CASE CliNext
  BY <1>2, BeforeCliInv, CreateCliInv, ConvertCliInv, DisplayCliInv DEF CliNext
<1> QED
  BY <1>1, <1>2

LEMMA CliInvariant == CliSpec => []CliInv
BY InitCliInv, NextCliInv, PTL DEF CliSpec

(* The command line's registry, with all five converters, or another       *)
(* program's, keeps what a registry promises of detection ...              *)
THEOREM CliDetectionFindsConversions == CliSpec => []DetectsWhatConverts
<1>1. CliInv => DetectsWhatConverts
  BY DEF CliInv, UseInv
<1> QED
  BY <1>1, CliInvariant, PTL

(* ... and of what texts are read as, whatever name the chain was given.   *)
THEOREM CliTextsReadAsMeant == CliSpec => []ReadAsMeant
<1>1. CliInv => ReadAsMeant
  BY UseReadAsMeant DEF CliInv
<1> QED
  BY <1>1, CliInvariant, PTL

-----------------------------------------------------------------------------
(* What lines are made of.                                                 *)
Ink ==
  Piece \cup {".- ", "|", "Transaction", "Subtitle", "Version", "Type", "Fields", "Field",
              "Unknown", "Title", "Detail", "Condensed View", "Expanded View", ""}
    \cup {f.label : f \in Fields} \cup {f.value : f \in Fields}
    \cup {f.abbreviation : f \in Fields} \cup {f.title : f \in Fields}
    \cup {f.subtitle : f \in Fields}
    \cup {p.title : p \in Drawings} \cup {p.subtitle : p \in Drawings}
    \cup {p.version : p \in Drawings} \cup {p.payload_type : p \in Drawings}

Row == Seq(Ink)

Smaller(f) == {g \in Fields : Depth[g] < Depth[f]}

(* A preview's own line has its label only, any other's two or three words.*)
LEMMA WordsType ==
  ASSUME NEW f \in Fields
  PROVE  Words(f) \in Row /\ (f.type = "PreviewLayout" <=> Len(Words(f)) = 1)
<1>1. /\ f.label \in Ink /\ f.value \in Ink /\ f.abbreviation \in Ink
      /\ "" \in Ink /\ "Field" \in Ink /\ "Unknown" \in Ink
  BY DEF Ink
<1>2. \A a, b, c \in Ink : /\ <<a>> \in Row /\ <<a, b>> \in Row /\ <<a, b, c>> \in Row
                           /\ Len(<<a>>) = 1 /\ Len(<<a, b>>) = 2 /\ Len(<<a, b, c>>) = 3
  BY DEF Row
<1>3. CASE f.type = "PreviewLayout"
  <2>1. Words(f) = <<f.label>>
    BY <1>3 DEF Words
  <2> QED
    BY <1>1, <1>2, <1>3, <2>1
<1>4. CASE f.type = "AmountV2"
  <2>1. Words(f) = <<f.label, f.value, IF f.abbreviation = Absent THEN "" ELSE f.abbreviation>>
    BY <1>4 DEF Words
  <2>2. (IF f.abbreviation = Absent THEN "" ELSE f.abbreviation) \in Ink
    BY <1>1
  <2>3. Words(f) \in Row /\ Len(Words(f)) = 3
    BY <1>1, <1>2, <2>1, <2>2
  <2> QED
    BY <1>4, <2>3
<1>5. CASE f.type \in {"TextV2", "AddressV2"}
  <2>1. Words(f) = <<f.label, f.value>>
    BY <1>5 DEF Words
  <2>2. Words(f) \in Row /\ Len(Words(f)) = 2
    BY <1>1, <1>2, <2>1
  <2> QED
    BY <1>5, <2>2
<1>6. CASE f.type \notin {"TextV2", "AddressV2", "AmountV2", "PreviewLayout"}
  <2>1. Words(f) = <<"Field", "Unknown">>
    BY <1>6 DEF Words, common_label
  <2>2. Words(f) \in Row /\ Len(Words(f)) = 2
    BY <1>1, <1>2, <2>1
  <2> QED
    BY <1>6, <2>2
<1> QED
  BY <1>3, <1>4, <1>5, <1>6

LEMMA PieceInk == Piece \subseteq Ink /\ \A s \in Seq(Piece) : s \in Row
<1>1. Piece \subseteq Ink
  BY DEF Ink
<1> QED
  BY <1>1 DEF Row

(* A line is one row.                                                      *)
LEMMA LineIsRow ==
  ASSUME NEW pieces \in Row, NEW words \in Row
  PROVE  /\ Line(pieces, words) \in Seq(Row) /\ Len(Line(pieces, words)) = 1
         /\ Line(pieces, words)[1] = pieces \o words /\ pieces \o words \in Row
<1>1. pieces \o words \in Row
  BY ConcatProperties DEF Row
<1>2. \A r \in Row : <<r>> \in Seq(Row) /\ Len(<<r>>) = 1 /\ <<r>>[1] = r
  OBVIOUS
<1> QED
  BY <1>1, <1>2 DEF Line

(* The fields of a preview's views are smaller.                            *)
LEMMA ViewsAreSmaller ==
  ASSUME NEW f \in Fields, f.type = "PreviewLayout"
  PROVE  Shown(f.condensed) \in Seq(Smaller(f)) /\ Shown(f.expanded) \in Seq(Smaller(f))
<1>1. <<>> \in Seq(Smaller(f))
  BY EmptyIsSeq
<1>2. \A fields \in {f.condensed, f.expanded} \ {Absent} : fields \in Seq(Smaller(f))
  BY FieldsAssumption DEF Smaller
<1> QED
  BY <1>1, <1>2 DEF Shown

(* A field that ends a list and one that does not.                         *)
Branches == {"|- ", "L- "}

Below(branch) == IF branch = "L- " THEN "   " ELSE "|  "

Called(c, margin, condensed_only) ==
  [field |-> c[1], prefix |-> margin \o <<c[2]>>, continuation |-> margin \o <<Below(c[2])>>,
   condensed_only |-> condensed_only]

Drawn(S, margin, condensed_only, draw) ==
  [c \in S \X Branches |-> draw[Called(c, margin, condensed_only)]]

Branched(fields) ==
  [i \in DOMAIN fields |-> <<fields[i], IF i = Len(fields) THEN "L- " ELSE "|- ">>]

(* Listed draws each field by itself, told only whether it is the last.    *)
LEMMA ListedIsFlatMap ==
  ASSUME NEW S, NEW fields \in Seq(S), NEW margin, NEW condensed_only, NEW draw
  PROVE  /\ Branched(fields) \in Seq(S \X Branches) /\ Len(Branched(fields)) = Len(fields)
         /\ Listed(fields, margin, condensed_only, draw)
              = FlatMap(Drawn(S, margin, condensed_only, draw), Branched(fields))
<1> DEFINE s == Branched(fields)
           F == Drawn(S, margin, condensed_only, draw)
           end(i) == IF i = Len(fields) THEN "L- " ELSE "|- "
<1>1. DOMAIN fields = 1..Len(fields) /\ Len(fields) \in Nat
      /\ \A i \in 1..Len(fields) : fields[i] \in S
  OBVIOUS
<1>a. s = [i \in 1..Len(fields) |-> <<fields[i], end(i)>>]
  BY <1>1 DEF Branched
<1>b. \A i \in 1..Len(fields) : end(i) \in Branches
  BY DEF Branches
<1> HIDE DEF end, s
<1>c. /\ s = [i \in 1..Len(fields) |-> s[i]]
      /\ \A i \in 1..Len(fields) : s[i] = <<fields[i], end(i)>>
  BY <1>a
<1>2. \A i \in 1..Len(fields) : /\ s[i] \in S \X Branches
                                /\ s[i][1] = fields[i] /\ s[i][2] = end(i)
  <2>1. \A x \in S : \A b \in Branches : /\ <<x, b>> \in S \X Branches
                                         /\ <<x, b>>[1] = x /\ <<x, b>>[2] = b
    OBVIOUS
  <2> SUFFICES ASSUME NEW i \in 1..Len(fields)
               PROVE  s[i] \in S \X Branches /\ s[i][1] = fields[i] /\ s[i][2] = end(i)
    OBVIOUS
  <2>2. s[i] = <<fields[i], end(i)>> /\ fields[i] \in S /\ end(i) \in Branches
    BY <1>1, <1>b, <1>c
  <2> QED
    BY <2>1, <2>2
<1>3. s \in Seq(S \X Branches) /\ Len(s) = Len(fields)
  <2>1. \A i \in 1..Len(fields) : s[i] \in S \X Branches
    BY <1>2
  <2> QED
    BY <1>1, <1>c, <2>1, FunctionIsSeq
<1>4. DOMAIN s = DOMAIN fields
  BY <1>1, <1>a
<1>5. ASSUME NEW i \in 1..Len(fields)
      PROVE  F[s[i]] =
               draw[[field |-> fields[i],
                     prefix |-> margin \o <<IF i = Len(fields) THEN "L- " ELSE "|- ">>,
                     continuation |-> margin \o <<IF i = Len(fields) THEN "   " ELSE "|  ">>,
                     condensed_only |-> condensed_only]]
  <2>1. F[s[i]] = draw[Called(s[i], margin, condensed_only)]
    BY <1>2 DEF Drawn
  <2>2. s[i][1] = fields[i] /\ s[i][2] = IF i = Len(fields) THEN "L- " ELSE "|- "
    BY <1>2 DEF end
  <2>3. Below(s[i][2]) = IF i = Len(fields) THEN "   " ELSE "|  "
    BY <2>2 DEF Below
  <2> QED
    BY <2>1, <2>2, <2>3 DEF Called
<1> HIDE DEF F
<1>6. Listed(fields, margin, condensed_only, draw) = FlattenSeq([i \in DOMAIN s |-> F[s[i]]])
  <2> DEFINE drawn(i) ==
               draw[[field |-> fields[i],
                     prefix |-> margin \o <<IF i = Len(fields) THEN "L- " ELSE "|- ">>,
                     continuation |-> margin \o <<IF i = Len(fields) THEN "   " ELSE "|  ">>,
                     condensed_only |-> condensed_only]]
  <2>1. Listed(fields, margin, condensed_only, draw) = FlattenSeq([i \in DOMAIN fields |-> drawn(i)])
    BY DEF Listed
  <2>2. \A i \in DOMAIN fields : F[s[i]] = drawn(i)
    BY <1>1, <1>5
  <2> HIDE DEF drawn
  <2>3. [i \in DOMAIN s |-> F[s[i]]] = [i \in DOMAIN fields |-> drawn(i)]
    BY <1>4, <2>2
  <2> QED
    BY <2>1, <2>3
<1> QED
  BY <1>3, <1>6 DEF FlatMap, s, F

(* The call made for a field.                                              *)
LEMMA CalledIsCall ==
  ASSUME NEW c \in Fields \X Branches, NEW margin \in Seq(Piece), NEW condensed_only \in BOOLEAN
  PROVE  LET call == Called(c, margin, condensed_only)
         IN  /\ call \in Calls /\ call.field = c[1] /\ call.condensed_only = condensed_only
             /\ call.prefix = margin \o <<c[2]>> /\ call.continuation = margin \o <<Below(c[2])>>
<1>1. c[1] \in Fields /\ c[2] \in Piece /\ Below(c[2]) \in Piece
  BY DEF Branches, Below, Piece
<1>2. margin \o <<c[2]>> \in Seq(Piece) /\ margin \o <<Below(c[2])>> \in Seq(Piece)
  BY <1>1
<1> QED
  BY <1>1, <1>2 DEF Called, Calls

(* draw gives rows for the fields within a call's.                         *)
DrawsBelow(call, draw) ==
  \A e \in Calls : Depth[e.field] < Depth[call.field] => draw[e] \in Seq(Row)

(* What a call writes below the field's own line.                          *)
Beneath(call, draw) ==
  LET field == call.field
  IN  IF field.type # "PreviewLayout" THEN <<>>
      ELSE Detail(call.continuation, "Title", field.title)
             \o Detail(call.continuation, "Detail", field.subtitle)
             \o View("Condensed View", field.condensed, call, draw)
             \o (IF call.condensed_only THEN <<>>
                 ELSE View("Expanded View", field.expanded, call, draw))

LEMMA FormattedIs ==
  \A call, draw : Formatted(call, draw) = Line(call.prefix, Words(call.field)) \o Beneath(call, draw)
BY DEF Formatted, Beneath

(* The parts of a call.                                                    *)
LEMMA CallParts ==
  ASSUME NEW call \in Calls
  PROVE  /\ call.field \in Fields /\ call.condensed_only \in BOOLEAN
         /\ call.prefix \in Seq(Piece) /\ call.prefix \in Row
         /\ call.continuation \in Seq(Piece) /\ call.continuation \in Row
         /\ call.continuation \o <<"   ">> \in Seq(Piece)
         /\ call.continuation \o <<"   ">> \in Row
<1>1. /\ call.field \in Fields /\ call.condensed_only \in BOOLEAN
      /\ call.prefix \in Seq(Piece) /\ call.continuation \in Seq(Piece)
  BY DEF Calls
<1>2. <<"   ">> \in Seq(Piece)
  BY DEF Piece
<1>3. call.continuation \o <<"   ">> \in Seq(Piece)
  BY <1>1, <1>2, ConcatProperties
<1> QED
  BY <1>1, <1>3, PieceInk

(* A list of smaller fields is drawn by smaller calls.                     *)
LEMMA DrawnType ==
  ASSUME NEW call \in Calls, NEW draw, DrawsBelow(call, draw), NEW margin \in Seq(Piece),
         NEW condensed_only \in BOOLEAN
  PROVE  Drawn(Smaller(call.field), margin, condensed_only, draw)
           \in [Smaller(call.field) \X Branches -> Seq(Row)]
<1> DEFINE S == Smaller(call.field)
<1>1. ASSUME NEW c \in S \X Branches
      PROVE  draw[Called(c, margin, condensed_only)] \in Seq(Row)
  <2>1. c \in Fields \X Branches /\ Depth[c[1]] < Depth[call.field]
    BY DEF Smaller
  <2> QED
    BY <2>1, CalledIsCall DEF DrawsBelow
<1> QED
  BY <1>1 DEF Drawn

LEMMA ViewType ==
  ASSUME NEW call \in Calls, NEW draw, DrawsBelow(call, draw), NEW name \in Ink,
         NEW fields, Shown(fields) \in Seq(Smaller(call.field))
  PROVE  /\ View(name, fields, call, draw) \in Seq(Row)
         /\ Listed(Shown(fields), call.continuation \o <<"   ">>, call.condensed_only, draw)
              \in Seq(Row)
         /\ View(name, fields, call, draw) =
              IF Shown(fields) = <<>> THEN <<>>
              ELSE Line(call.continuation \o <<"   ">>, <<name>>)
                     \o Listed(Shown(fields), call.continuation \o <<"   ">>,
                               call.condensed_only, draw)
<1> DEFINE margin == call.continuation \o <<"   ">>
           lines == Listed(Shown(fields), margin, call.condensed_only, draw)
           S == Smaller(call.field)
<1>1. margin \in Seq(Piece) /\ margin \in Row /\ call.condensed_only \in BOOLEAN
  BY CallParts
<1>2. lines \in Seq(Row)
  <2> HIDE DEF margin
  <2>1. /\ Branched(Shown(fields)) \in Seq(S \X Branches)
        /\ lines = FlatMap(Drawn(S, margin, call.condensed_only, draw), Branched(Shown(fields)))
    BY ListedIsFlatMap
  <2>2. Drawn(S, margin, call.condensed_only, draw) \in [S \X Branches -> Seq(Row)]
    BY <1>1, DrawnType
  <2>3. FlatMap(Drawn(S, margin, call.condensed_only, draw), Branched(Shown(fields))) \in Seq(Row)
    <3> HIDE DEF S
    <3> QED
      BY <2>1, <2>2, FlatMapType
  <2> QED
    BY <2>1, <2>3
<1>3. View(name, fields, call, draw) =
        IF Shown(fields) = <<>> THEN <<>> ELSE Line(margin, <<name>>) \o lines
  BY DEF View, Shown
<1>4. <<name>> \in Row
  BY DEF Row
<1>5. Line(margin, <<name>>) \in Seq(Row)
  BY <1>1, <1>4, LineIsRow
<1>6. <<>> \in Seq(Row) /\ Line(margin, <<name>>) \o lines \in Seq(Row)
  <2> HIDE DEF lines, margin
  <2> QED
    BY <1>2, <1>5, EmptyIsSeq, ConcatProperties
<1> HIDE DEF lines, margin
<1>7. View(name, fields, call, draw) \in Seq(Row)
  BY <1>3, <1>6
<1> QED
  BY <1>2, <1>3, <1>7 DEF lines, margin

LEMMA DetailType ==
  ASSUME NEW call \in Calls, NEW name \in Ink, NEW value \in Ink
  PROVE  Detail(call.continuation, name, value) \in Seq(Row)
<1>1. call.continuation \o <<"   ">> \in Row /\ <<name, value>> \in Row
  <2>1. \A a, b \in Ink : <<a, b>> \in Row
    BY DEF Row
  <2> QED
    BY <2>1, CallParts
<1>2. Line(call.continuation \o <<"   ">>, <<name, value>>) \in Seq(Row) /\ <<>> \in Seq(Row)
  BY <1>1, LineIsRow, EmptyIsSeq
<1> QED
  BY <1>2 DEF Detail

LEMMA NamesAreInk ==
  /\ "Title" \in Ink /\ "Detail" \in Ink /\ "Condensed View" \in Ink /\ "Expanded View" \in Ink
  /\ \A f \in Fields : f.title \in Ink /\ f.subtitle \in Ink
BY DEF Ink

(* The parts written below a preview's line.                               *)
LEMMA BeneathParts ==
  ASSUME NEW call \in Calls, NEW draw, DrawsBelow(call, draw),
         call.field.type = "PreviewLayout"
  PROVE  LET f == call.field
             c == call.continuation
         IN  /\ Detail(c, "Title", f.title) \in Seq(Row)
             /\ Detail(c, "Detail", f.subtitle) \in Seq(Row)
             /\ View("Condensed View", f.condensed, call, draw) \in Seq(Row)
             /\ View("Expanded View", f.expanded, call, draw) \in Seq(Row)
             /\ Shown(f.condensed) \in Seq(Smaller(f)) /\ Shown(f.expanded) \in Seq(Smaller(f))
<1> DEFINE f == call.field
<1>1. f \in Fields
  BY CallParts
<1>2. Shown(f.condensed) \in Seq(Smaller(f)) /\ Shown(f.expanded) \in Seq(Smaller(f))
  BY <1>1, ViewsAreSmaller
<1>3. f.title \in Ink /\ f.subtitle \in Ink
  BY <1>1, NamesAreInk
<1>4. Detail(call.continuation, "Title", f.title) \in Seq(Row)
  BY <1>3, NamesAreInk, DetailType
<1>5. Detail(call.continuation, "Detail", f.subtitle) \in Seq(Row)
  BY <1>3, NamesAreInk, DetailType
<1>6. View("Condensed View", f.condensed, call, draw) \in Seq(Row)
  BY <1>2, NamesAreInk, ViewType
<1>7. View("Expanded View", f.expanded, call, draw) \in Seq(Row)
  BY <1>2, NamesAreInk, ViewType
<1> QED
  BY <1>2, <1>4, <1>5, <1>6, <1>7

(* What a call writes are rows if what the calls it makes write are.       *)
LEMMA FormattedType ==
  ASSUME NEW call \in Calls, NEW draw, DrawsBelow(call, draw)
  PROVE  Beneath(call, draw) \in Seq(Row) /\ Formatted(call, draw) \in Seq(Row)
<1>1. Beneath(call, draw) \in Seq(Row)
  <2>0. <<>> \in Seq(Row)
    BY EmptyIsSeq
  <2>1. CASE call.field.type # "PreviewLayout"
    BY <2>0, <2>1 DEF Beneath
  <2>2. CASE call.field.type = "PreviewLayout"
    <3> DEFINE t == Detail(call.continuation, "Title", call.field.title)
               d == Detail(call.continuation, "Detail", call.field.subtitle)
               c == View("Condensed View", call.field.condensed, call, draw)
               x == IF call.condensed_only THEN <<>>
                    ELSE View("Expanded View", call.field.expanded, call, draw)
    <3>1. t \in Seq(Row) /\ d \in Seq(Row) /\ c \in Seq(Row) /\ x \in Seq(Row)
      BY <2>0, <2>2, BeneathParts
    <3>2. Beneath(call, draw) = t \o d \o c \o x
      BY <2>2 DEF Beneath
    <3> HIDE DEF t, d, c, x
    <3>3. t \o d \in Seq(Row)
      BY <3>1, ConcatProperties
    <3>4. t \o d \o c \in Seq(Row)
      BY <3>1, <3>3, ConcatProperties
    <3> QED
      BY <3>1, <3>2, <3>4, ConcatProperties
  <2> QED
    BY <2>1, <2>2
<1>2. Line(call.prefix, Words(call.field)) \in Seq(Row)
  BY CallParts, WordsType, LineIsRow
<1> QED
  BY <1>1, <1>2, FormattedIs, ConcatProperties

(* And depends on nothing but what they write.                             *)
LEMMA FormattedLocal ==
  ASSUME NEW call \in Calls, NEW draw, NEW paint,
         \A e \in Calls : Depth[e.field] < Depth[call.field] => draw[e] = paint[e]
  PROVE  Formatted(call, draw) = Formatted(call, paint)
<1> DEFINE f == call.field
           margin == call.continuation \o <<"   ">>
           S == Smaller(f)
<1>1. margin \in Seq(Piece) /\ call.condensed_only \in BOOLEAN /\ f \in Fields
  BY CallParts
<1>2. ASSUME NEW name, NEW fields, Shown(fields) \in Seq(S)
      PROVE  View(name, fields, call, draw) = View(name, fields, call, paint)
  <2>1. Drawn(S, margin, call.condensed_only, draw) = Drawn(S, margin, call.condensed_only, paint)
    <3>1. ASSUME NEW c \in S \X Branches
          PROVE  draw[Called(c, margin, call.condensed_only)]
                   = paint[Called(c, margin, call.condensed_only)]
      <4>1. c \in Fields \X Branches /\ Depth[c[1]] < Depth[f]
        BY DEF Smaller
      <4> HIDE DEF margin
      <4> QED
        BY <1>1, <4>1, CalledIsCall
    <3> HIDE DEF margin
    <3> QED
      BY <3>1 DEF Drawn
  <2> HIDE DEF margin
  <2>2. Listed(Shown(fields), margin, call.condensed_only, draw)
          = Listed(Shown(fields), margin, call.condensed_only, paint)
    <3>1. \A d : Listed(Shown(fields), margin, call.condensed_only, d)
                 = FlatMap(Drawn(S, margin, call.condensed_only, d), Branched(Shown(fields)))
      BY <1>2, ListedIsFlatMap
    <3> QED
      BY <2>1, <3>1
  <2>3. \A d : View(name, fields, call, d) =
        IF Shown(fields) = <<>> THEN <<>>
        ELSE Line(margin, <<name>>) \o Listed(Shown(fields), margin, call.condensed_only, d)
    BY DEF View, Shown, margin
  <2> QED
    BY <2>2, <2>3
<1>3. CASE f.type = "PreviewLayout"
  <2>1. Shown(f.condensed) \in Seq(S) /\ Shown(f.expanded) \in Seq(S)
    BY <1>1, <1>3, ViewsAreSmaller
  <2>2. View("Condensed View", f.condensed, call, draw) = View("Condensed View", f.condensed, call, paint)
    BY <1>2, <2>1
  <2>3. View("Expanded View", f.expanded, call, draw) = View("Expanded View", f.expanded, call, paint)
    BY <1>2, <2>1
  <2> QED
    BY <2>2, <2>3 DEF Formatted
<1>4. CASE f.type # "PreviewLayout"
  BY <1>4 DEF Formatted
<1> QED
  BY <1>3, <1>4

-----------------------------------------------------------------------------
(* There are functions that are what format_field and SameField are said   *)
(* to be: a field's depth bounds how far the calls go.                     *)
LEMMA FormatFieldExists ==
  \E g : g = [call \in Calls |-> Formatted(call, g)]
<1> DEFINE R == Seq(Row)
           F == [g \in [Calls -> R] |-> [call \in Calls |-> Formatted(call, g)]]
           rank == [call \in Calls |-> Depth[call.field]]
<1>1. \A call \in Calls : call.field \in Fields /\ Depth[call.field] \in Nat
  BY CallParts, FieldsAssumption
<1>2. rank \in [Calls -> Nat] /\ \A call \in Calls : rank[call] = Depth[call.field]
  BY <1>1
<1>3. ASSUME NEW g \in [Calls -> R]
      PROVE  F[g] \in [Calls -> R] /\ \A call \in Calls : F[g][call] = Formatted(call, g)
  <2>1. \A call \in Calls : DrawsBelow(call, g)
    BY DEF DrawsBelow
  <2>2. \A call \in Calls : Formatted(call, g) \in R
    BY <2>1, FormattedType
  <2> QED
    BY <2>2
<1>4. F \in [[Calls -> R] -> [Calls -> R]]
  BY <1>3
<1>5. R # {}
  BY EmptyIsSeq
<1> HIDE DEF R, F, rank
<1>6. ASSUME NEW g \in [Calls -> R], NEW h \in [Calls -> R], NEW call \in Calls,
             \A e \in Calls : rank[e] < rank[call] => g[e] = h[e]
      PROVE  F[g][call] = F[h][call]
  <2>1. \A e \in Calls : Depth[e.field] < Depth[call.field] => g[e] = h[e]
    BY <1>2, <1>6
  <2>2. Formatted(call, g) = Formatted(call, h)
    BY <2>1, FormattedLocal
  <2> QED
    BY <1>3, <2>2
<1>7. Recursion(Calls, R, rank, F)
  BY <1>2, <1>4, <1>6 DEF Recursion
<1>8. PICK g \in [Calls -> R] : g = F[g]
  <2>1. \A r, f : Recursion(Calls, R, r, f) => \E g \in [Calls -> R] : g = f[g]
    BY <1>5, RecursionExists
  <2> QED
    BY <1>7, <2>1
<1>9. g = [call \in Calls |-> Formatted(call, g)]
  <2>1. \A call \in Calls : g[call] = Formatted(call, g)
    BY <1>3, <1>8
  <2> QED
    BY <2>1
<1> QED
  BY <1>9

(* Each call draws rows, out of the calls it makes.                        *)
LEMMA FormatFieldIs ==
  ASSUME NEW call \in Calls
  PROVE  /\ format_field[call] = Formatted(call, format_field)
         /\ DrawsBelow(call, format_field)
         /\ format_field[call] \in Seq(Row)
         /\ call.field \in Fields /\ Depth[call.field] \in Nat
<1>1. format_field = [e \in Calls |-> Formatted(e, format_field)]
  BY FormatFieldExists DEF format_field
<1>2. \A e \in Calls : format_field[e] = Formatted(e, format_field)
  <2> SUFFICES ASSUME NEW e \in Calls PROVE format_field[e] = Formatted(e, format_field)
    OBVIOUS
  <2> DEFINE g == format_field
  <2>1. g = [c \in Calls |-> Formatted(c, g)]
    BY <1>1
  <2> HIDE DEF g
  <2>2. g[e] = Formatted(e, g)
    BY <2>1
  <2> QED
    BY <2>2 DEF g
<1>3. \A e \in Calls : e.field \in Fields /\ Depth[e.field] \in Nat
  BY CallParts, FieldsAssumption
<1> DEFINE Typed(n) == \A e \in Calls : Depth[e.field] < n => format_field[e] \in Seq(Row)
           N == {n \in Nat : Typed(n)}
<1>4. 0 \in N
  BY <1>3
<1>5. ASSUME NEW n \in Nat, n \in N PROVE n + 1 \in N
  <2> SUFFICES ASSUME NEW e \in Calls, Depth[e.field] < n + 1
               PROVE  format_field[e] \in Seq(Row)
    OBVIOUS
  <2>1. DrawsBelow(e, format_field)
    <3>1. ASSUME NEW d \in Calls, Depth[d.field] < Depth[e.field] PROVE Depth[d.field] < n
      BY <1>3, <3>1
    <3> QED
      BY <1>5, <3>1 DEF DrawsBelow
  <2> QED
    BY <1>2, <2>1, FormattedType
<1>6. Nat \subseteq N
  <2> HIDE DEF N
  <2> QED
    BY <1>4, <1>5, NaturalsBySteps
<1>7. \A e \in Calls : format_field[e] \in Seq(Row)
  <2> SUFFICES ASSUME NEW e \in Calls PROVE format_field[e] \in Seq(Row)
    OBVIOUS
  <2>1. Depth[e.field] + 1 \in N /\ Depth[e.field] < Depth[e.field] + 1
    BY <1>3, <1>6
  <2> QED
    BY <2>1
<1> QED
  BY <1>2, <1>3, <1>7 DEF DrawsBelow

LEMMA SameFieldExists ==
  \E g : g = [pair \in Fields \X Fields |-> SameShown(pair[1], pair[2], g)]
<1> DEFINE D == Fields \X Fields
           R == BOOLEAN
           F == [g \in [D -> R] |-> [pair \in D |-> SameShown(pair[1], pair[2], g)]]
           rank == [pair \in D |-> Depth[pair[1]]]
<1>1. \A pair \in D : pair[1] \in Fields /\ pair[2] \in Fields /\ Depth[pair[1]] \in Nat
  BY FieldsAssumption
<1>2. rank \in [D -> Nat] /\ \A pair \in D : rank[pair] = Depth[pair[1]]
  BY <1>1
<1>3. ASSUME NEW g \in [D -> R]
      PROVE  F[g] \in [D -> R] /\ \A pair \in D : F[g][pair] = SameShown(pair[1], pair[2], g)
  <2>1. \A pair \in D : SameShown(pair[1], pair[2], g) \in R
    BY Zenon DEF SameShown
  <2> HIDE DEF D, R
  <2>2. F[g] = [pair \in D |-> SameShown(pair[1], pair[2], g)]
    BY Zenon
  <2> HIDE DEF F
  <2> QED
    BY <2>1, <2>2, Zenon
<1>4. F \in [[D -> R] -> [D -> R]]
  <2>1. F = [g \in [D -> R] |-> F[g]]
    BY Zenon
  <2> HIDE DEF F, D, R
  <2> QED
    BY <1>3, <2>1, Zenon
<1>5. R # {}
  OBVIOUS
<1> HIDE DEF F
<1>6. ASSUME NEW g \in [D -> R], NEW h \in [D -> R], NEW pair \in D,
             \A e \in D : rank[e] < rank[pair] => g[e] = h[e]
      PROVE  F[g][pair] = F[h][pair]
  <2> DEFINE a == pair[1]
             b == pair[2]
  <2>1. ASSUME NEW s, NEW t, s \in Seq(Smaller(a)), t \in Seq(Fields)
        PROVE  SameEach(s, t, g) = SameEach(s, t, h)
    <3>1. ASSUME NEW i \in DOMAIN s, Len(s) = Len(t) PROVE g[<<s[i], t[i]>>] = h[<<s[i], t[i]>>]
      <4>1. s[i] \in Fields /\ t[i] \in Fields /\ Depth[s[i]] < Depth[a]
        BY <2>1, <3>1 DEF Smaller
      <4> DEFINE e == <<s[i], t[i]>>
      <4>2. e \in D /\ e[1] = s[i]
        BY <4>1
      <4> HIDE DEF e, D
      <4>3. rank[e] < rank[pair]
        BY <1>2, <4>1, <4>2
      <4> QED
        BY <1>6, <4>2, <4>3 DEF e
    <3>2. SameEach(s, t, g) => SameEach(s, t, h)
      BY <3>1, Zenon DEF SameEach
    <3>3. SameEach(s, t, h) => SameEach(s, t, g)
      BY <3>1, Zenon DEF SameEach
    <3>4. SameEach(s, t, g) \in BOOLEAN /\ SameEach(s, t, h) \in BOOLEAN
      BY Zenon DEF SameEach
    <3> QED
      BY <3>2, <3>3, <3>4
  <2>2. a \in Fields /\ b \in Fields
    BY <1>1
  <2>3. ASSUME a.type = "PreviewLayout", b.type = "PreviewLayout"
        PROVE  /\ SameEach(Shown(a.condensed), Shown(b.condensed), g)
                    = SameEach(Shown(a.condensed), Shown(b.condensed), h)
               /\ SameEach(Shown(a.expanded), Shown(b.expanded), g)
                    = SameEach(Shown(a.expanded), Shown(b.expanded), h)
    <3>1. Shown(a.condensed) \in Seq(Smaller(a)) /\ Shown(a.expanded) \in Seq(Smaller(a))
      BY <2>2, <2>3, ViewsAreSmaller
    <3>2. Shown(b.condensed) \in Seq(Fields) /\ Shown(b.expanded) \in Seq(Fields)
      <4>1. Shown(b.condensed) \in Seq(Smaller(b)) /\ Shown(b.expanded) \in Seq(Smaller(b))
        BY <2>2, <2>3, ViewsAreSmaller
      <4>2. Smaller(b) \subseteq Fields
        BY DEF Smaller
      <4> QED
        BY <4>1, <4>2
    <3> QED
      BY <2>1, <3>1, <3>2, Zenon
  <2>4. SameShown(a, b, g) => SameShown(a, b, h)
    BY <2>3, Zenon DEF SameShown
  <2>5. SameShown(a, b, h) => SameShown(a, b, g)
    BY <2>3, Zenon DEF SameShown
  <2>6. SameShown(a, b, g) \in BOOLEAN /\ SameShown(a, b, h) \in BOOLEAN
    BY Zenon DEF SameShown
  <2>7. SameShown(a, b, g) = SameShown(a, b, h)
    BY <2>4, <2>5, <2>6
  <2>8. F[g][pair] = SameShown(a, b, g)
    BY <1>3, Zenon
  <2>9. F[h][pair] = SameShown(a, b, h)
    BY <1>3, Zenon
  <2> QED
    BY <2>7, <2>8, <2>9, Zenon
<1> HIDE DEF D, R, F, rank
<1>7. Recursion(D, R, rank, F)
  BY <1>2, <1>4, <1>6, Zenon DEF Recursion
<1>8. PICK g \in [D -> R] : g = F[g]
  <2>1. \A r, f : Recursion(D, R, r, f) => \E g \in [D -> R] : g = f[g]
    BY <1>5, RecursionExists
  <2> QED
    BY <1>7, <2>1
<1>9. g = [pair \in D |-> SameShown(pair[1], pair[2], g)]
  <2>1. \A pair \in D : g[pair] = SameShown(pair[1], pair[2], g)
    BY <1>3, <1>8, Zenon
  <2>2. g = [pair \in D |-> g[pair]]
    OBVIOUS
  <2> QED
    BY <2>1, <2>2, Zenon
<1> QED
  BY <1>9 DEF D

LEMMA SameFieldIs ==
  ASSUME NEW f \in Fields, NEW g \in Fields
  PROVE  SameField[<<f, g>>] <=> SameShown(f, g, SameField)
<1>1. SameField = [pair \in Fields \X Fields |-> SameShown(pair[1], pair[2], SameField)]
  BY SameFieldExists, Zenon DEF SameField
<1> DEFINE same == SameField
           pair == <<f, g>>
<1>2. pair \in Fields \X Fields /\ pair[1] = f /\ pair[2] = g
  OBVIOUS
<1>3. same = [p \in Fields \X Fields |-> SameShown(p[1], p[2], same)]
  BY <1>1, Zenon
<1> HIDE DEF same, pair
<1>4. same[pair] = SameShown(pair[1], pair[2], same)
  BY <1>2, <1>3, Zenon
<1>5. same[pair] = SameShown(f, g, same)
  BY <1>2, <1>4, Zenon
<1> QED
  BY <1>5, Zenon DEF same, pair

-----------------------------------------------------------------------------
(* Where the rows of a field are: they all begin with its margin, and the  *)
(* box behind that tells its own line from those below it.                 *)
Begins(row, margin) == \A i \in 1..Len(margin) : row[i] = margin[i]

RowsIn(margin) == {r \in Row : Begins(r, margin) /\ r[Len(margin) + 1] \in Piece}

RowsUnder(continuation) == {r \in Row : Begins(r, continuation \o <<"   ">>)}

LEMMA BeginsConcat ==
  ASSUME NEW E, NEW m \in Seq(E), NEW z \in Seq(E), z # <<>>
  PROVE  /\ Begins(m \o z, m) /\ (m \o z)[Len(m) + 1] = z[1]
         /\ \A row : Begins(row, m \o z) => Begins(row, m) /\ row[Len(m) + 1] = z[1]
<1>1. Len(m) \in Nat /\ Len(z) \in Nat /\ Len(z) > 0 /\ Len(m \o z) = Len(m) + Len(z)
  BY ConcatProperties, EmptySeq
<1>2. \A i \in 1..Len(m) : (m \o z)[i] = m[i]
  OBVIOUS
<1>3. (m \o z)[Len(m) + 1] = z[1]
  <2>1. /\ Len(m) + 1 \in 1..(Len(m) + Len(z)) /\ ~(Len(m) + 1 <= Len(m))
        /\ (Len(m) + 1) - Len(m) = 1
    BY <1>1
  <2> QED
    BY <2>1, ConcatProperties
<1>4. Begins(m \o z, m)
  BY <1>2 DEF Begins
<1>5. ASSUME NEW row, Begins(row, m \o z)
      PROVE  Begins(row, m) /\ row[Len(m) + 1] = z[1]
  <2>1. \A i \in 1..(Len(m) + Len(z)) : row[i] = (m \o z)[i]
    BY <1>1, <1>5 DEF Begins
  <2>2. \A i \in 1..Len(m) : row[i] = m[i]
    BY <1>1, <1>2, <2>1
  <2>3. row[Len(m) + 1] = z[1]
    <3>1. Len(m) + 1 \in 1..(Len(m) + Len(z))
      BY <1>1
    <3> QED
      BY <1>3, <2>1, <3>1
  <2> QED
    BY <2>2, <2>3 DEF Begins
<1> QED
  BY <1>3, <1>4, <1>5

(* The lines of a call made for a field of a list, if those below keep to  *)
(* their margin.                                                           *)
LEMMA DrawnRows ==
  ASSUME NEW c \in Fields \X Branches, NEW margin \in Seq(Piece), NEW condensed_only \in BOOLEAN
  PROVE  LET call == Called(c, margin, condensed_only)
             head == call.prefix \o Words(call.field)
             rest == Beneath(call, format_field)
         IN  /\ head \in RowsIn(margin) /\ head[Len(margin) + 1] = c[2]
             /\ rest \in Seq(Row)
             /\ format_field[call] = <<head>> \o rest
             /\ rest \in Seq(RowsUnder(call.continuation)) =>
                  /\ rest \in Seq(RowsIn(margin))
                  /\ \A k \in 1..Len(rest) : rest[k][Len(margin) + 1] = Below(c[2])
<1> DEFINE call == Called(c, margin, condensed_only)
           head == call.prefix \o Words(call.field)
           rest == Beneath(call, format_field)
<1>1. /\ call \in Calls /\ call.field = c[1]
      /\ call.prefix = margin \o <<c[2]>> /\ call.continuation = margin \o <<Below(c[2])>>
  BY CalledIsCall
<1>2. c[1] \in Fields /\ c[2] \in Piece /\ Below(c[2]) \in Piece
  BY DEF Branches, Below, Piece
<1>3. margin \in Row /\ Words(c[1]) \in Row /\ c[2] \in Ink
  BY <1>2, WordsType, PieceInk
<1> HIDE DEF call
<1>4. /\ format_field[call] = Formatted(call, format_field) /\ rest \in Seq(Row)
  BY <1>1, FormatFieldIs, FormattedType
<1>5. format_field[call] = <<head>> \o rest
  BY <1>4, FormattedIs DEF Line
<1>6. head \in RowsIn(margin) /\ head[Len(margin) + 1] = c[2]
  <2> DEFINE z == <<c[2]>>
             w == Words(c[1])
  <2>1. z \in Seq(Ink) /\ z # <<>> /\ z[1] = c[2] /\ w \in Seq(Ink) /\ margin \in Seq(Ink)
    BY <1>3 DEF Row
  <2>2. head = (margin \o z) \o w
    BY <1>1
  <2> HIDE DEF z, w, head
  <2>3. (margin \o z) \o w = margin \o (z \o w)
    BY <2>1, ConcatAssociative
  <2>4. z \o w \in Seq(Ink) /\ z \o w # <<>> /\ (z \o w)[1] = c[2]
    <3>1. z \o w \in Seq(Ink) /\ z \o w # <<>>
      BY <2>1, ConcatProperties, ConcatEqualIffEmpty
    <3>2. (z \o w)[1] = z[1]
      BY <2>1
    <3> QED
      BY <2>1, <3>1, <3>2
  <2>5. Begins(head, margin) /\ head[Len(margin) + 1] = c[2]
    <3> DEFINE v == z \o w
    <3>1. v \in Seq(Ink) /\ v # <<>> /\ v[1] = c[2] /\ head = margin \o v
      BY <2>2, <2>3, <2>4
    <3> HIDE DEF v
    <3> QED
      BY <2>1, <3>1, BeginsConcat
  <2>6. head \in Row
    BY <2>1, <2>2, <2>3, <2>4, ConcatProperties DEF Row
  <2> QED
    BY <1>2, <2>5, <2>6 DEF RowsIn
<1>7. ASSUME NEW r \in RowsUnder(call.continuation)
      PROVE  r \in RowsIn(margin) /\ r[Len(margin) + 1] = Below(c[2])
  <2> DEFINE b == <<Below(c[2])>>
             e == <<"   ">>
  <2>1. b \in Seq(Ink) /\ b # <<>> /\ b[1] = Below(c[2]) /\ e \in Seq(Ink) /\ margin \in Seq(Ink)
    <3>1. Below(c[2]) \in Ink /\ "   " \in Ink
      BY <1>2, PieceInk DEF Piece
    <3>2. \A x \in Ink : <<x>> \in Seq(Ink) /\ <<x>> # <<>> /\ <<x>>[1] = x
      OBVIOUS
    <3>3. margin \in Seq(Ink)
      BY <1>3 DEF Row
    <3> QED
      BY <3>1, <3>2, <3>3
  <2>2. Begins(r, (margin \o b) \o e) /\ r \in Row
    BY <1>1, <1>7 DEF RowsUnder
  <2> HIDE DEF b, e
  <2>3. (margin \o b) \o e = margin \o (b \o e)
    BY <2>1, ConcatAssociative
  <2>4. b \o e \in Seq(Ink) /\ b \o e # <<>> /\ (b \o e)[1] = b[1]
    <3>1. b \o e \in Seq(Ink) /\ b \o e # <<>>
      BY <2>1, ConcatProperties, ConcatEqualIffEmpty
    <3> QED
      BY <2>1, <3>1
  <2>5. Begins(r, margin) /\ r[Len(margin) + 1] = Below(c[2])
    <3> DEFINE v == b \o e
    <3>1. v \in Seq(Ink) /\ v # <<>> /\ v[1] = Below(c[2]) /\ Begins(r, margin \o v)
      BY <2>1, <2>2, <2>3, <2>4
    <3> HIDE DEF v
    <3> QED
      BY <2>1, <3>1, BeginsConcat
  <2> QED
    BY <1>2, <2>2, <2>5 DEF RowsIn
<1>8. ASSUME rest \in Seq(RowsUnder(call.continuation))
      PROVE  /\ rest \in Seq(RowsIn(margin))
             /\ \A k \in 1..Len(rest) : rest[k][Len(margin) + 1] = Below(c[2])
  <2> HIDE DEF rest
  <2>1. \A k \in 1..Len(rest) : rest[k] \in RowsUnder(call.continuation)
    BY <1>8
  <2>2. RowsUnder(call.continuation) \subseteq RowsIn(margin)
    BY <1>7
  <2> QED
    BY <1>7, <1>8, <2>1, <2>2
<1> QED
  BY <1>4, <1>5, <1>6, <1>8 DEF call

(* So all lines of a list are in its margin.                               *)
LEMMA ListedRows ==
  ASSUME NEW S \in SUBSET Fields, NEW fields \in Seq(S), NEW margin \in Seq(Piece),
         NEW condensed_only \in BOOLEAN,
         \A c \in S \X Branches :
           LET call == Called(c, margin, condensed_only)
           IN  Beneath(call, format_field) \in Seq(RowsUnder(call.continuation))
  PROVE  /\ Listed(fields, margin, condensed_only, format_field) \in Seq(RowsIn(margin))
         /\ Drawn(S, margin, condensed_only, format_field) \in [S \X Branches -> Seq(RowsIn(margin))]
<1> DEFINE F == Drawn(S, margin, condensed_only, format_field)
<1>1. ASSUME NEW c \in S \X Branches
      PROVE  format_field[Called(c, margin, condensed_only)] \in Seq(RowsIn(margin))
  <2> DEFINE call == Called(c, margin, condensed_only)
             head == call.prefix \o Words(call.field)
             rest == Beneath(call, format_field)
  <2>1. c \in Fields \X Branches
    OBVIOUS
  <2>2. Beneath(call, format_field) \in Seq(RowsUnder(call.continuation))
    OBVIOUS
  <2>3. /\ head \in RowsIn(margin) /\ rest \in Seq(RowsIn(margin))
        /\ format_field[call] = <<head>> \o rest
    BY <2>1, <2>2, DrawnRows
  <2> HIDE DEF head, rest, call
  <2>4. <<head>> \in Seq(RowsIn(margin))
    BY <2>3
  <2>5. <<head>> \o rest \in Seq(RowsIn(margin))
    BY <2>3, <2>4, ConcatProperties
  <2> QED
    BY <2>3, <2>5 DEF call
<1>2. F \in [S \X Branches -> Seq(RowsIn(margin))]
  BY <1>1 DEF Drawn
<1>3. /\ Branched(fields) \in Seq(S \X Branches)
      /\ Listed(fields, margin, condensed_only, format_field) = FlatMap(F, Branched(fields))
  BY ListedIsFlatMap
<1> HIDE DEF F
<1>4. FlatMap(F, Branched(fields)) \in Seq(RowsIn(margin))
  BY <1>2, <1>3, FlatMapType
<1> QED
  BY <1>2, <1>3, <1>4 DEF F

(* What stands first behind the margin of the lines below a field's own.   *)
RowsKeyed(continuation, K) ==
  {r \in RowsUnder(continuation) : r[Len(continuation) + 2] \in K}

LEMMA MarginLength ==
  ASSUME NEW call \in Calls
  PROVE  LET c == call.continuation
             m == c \o <<"   ">>
         IN  /\ c \in Seq(Ink) /\ m \in Seq(Ink) /\ m \in Row /\ m \in Seq(Piece)
             /\ Len(c) \in Nat /\ Len(m) = Len(c) + 1 /\ Len(m) + 1 = Len(c) + 2
<1> DEFINE c == call.continuation
<1>1. c \in Row /\ c \o <<"   ">> \in Row /\ c \o <<"   ">> \in Seq(Piece)
  BY CallParts
<1>2. <<"   ">> \in Seq(Ink) /\ Len(<<"   ">>) = 1
  <2>1. "   " \in Ink
    BY PieceInk DEF Piece
  <2>2. \A x \in Ink : <<x>> \in Seq(Ink) /\ Len(<<x>>) = 1
    OBVIOUS
  <2> QED
    BY <2>1, <2>2
<1>3. \A s \in Row : s \in Seq(Ink) /\ Len(s) \in Nat
  BY DEF Row
<1>4. Len(c \o <<"   ">>) = Len(c) + 1
  BY <1>1, <1>2, <1>3, ConcatProperties
<1>5. \A k \in Nat : (k + 1) + 1 = k + 2
  OBVIOUS
<1> QED
  BY <1>1, <1>3, <1>4, <1>5, Zenon

LEMMA KeyedLine ==
  ASSUME NEW call \in Calls, NEW words \in Row, words # <<>>
  PROVE  LET l == Line(call.continuation \o <<"   ">>, words)
         IN  /\ l \in Seq(RowsKeyed(call.continuation, {words[1]})) /\ Len(l) = 1
             /\ l[1] \in RowsKeyed(call.continuation, {words[1]})
<1> DEFINE c == call.continuation
           m == c \o <<"   ">>
           r == m \o words
<1>1. c \in Seq(Ink) /\ m \in Seq(Ink) /\ m \in Row /\ Len(m) = Len(c) + 1 /\ Len(c) \in Nat
  BY MarginLength
<1> HIDE DEF m
<1>2. words \in Seq(Ink)
  BY DEF Row
<1>3. Begins(r, m) /\ r[Len(m) + 1] = words[1]
  BY <1>1, <1>2, BeginsConcat
<1>4. r \in Row
  BY <1>1, <1>2, ConcatProperties DEF Row
<1>5. Len(m) + 1 = Len(c) + 2
  BY <1>1
<1>6. r \in RowsKeyed(c, {words[1]})
  BY <1>3, <1>4, <1>5 DEF RowsKeyed, RowsUnder, m
<1> HIDE DEF r
<1>7. <<r>> \in Seq(RowsKeyed(c, {words[1]})) /\ Len(<<r>>) = 1 /\ <<r>>[1] = r
  <2> DEFINE K == RowsKeyed(c, {words[1]})
  <2> HIDE DEF K
  <2>1. \A x \in K : <<x>> \in Seq(K) /\ Len(<<x>>) = 1 /\ <<x>>[1] = x
    OBVIOUS
  <2> QED
    BY <1>6, <2>1 DEF K
<1> QED
  BY <1>6, <1>7 DEF Line, r, m

(* The calls within a call keep to their margins.                          *)
KeepsBelow(call) ==
  \A e \in Calls : Depth[e.field] < Depth[call.field] =>
    Beneath(e, format_field) \in Seq(RowsUnder(e.continuation))

LEMMA KeyedDetail ==
  ASSUME NEW call \in Calls, NEW name \in Ink, NEW value \in Ink
  PROVE  Detail(call.continuation, name, value) \in Seq(RowsKeyed(call.continuation, {name}))
<1> DEFINE K == RowsKeyed(call.continuation, {name})
           w == <<name, value>>
<1>1. w \in Row /\ w # <<>> /\ w[1] = name
  <2>1. \A a, b \in Ink : <<a, b>> \in Row /\ <<a, b>> # <<>> /\ <<a, b>>[1] = a
    BY DEF Row
  <2> QED
    BY <2>1
<1> HIDE DEF w
<1>2. Line(call.continuation \o <<"   ">>, w) \in Seq(K)
  BY <1>1, KeyedLine
<1>3. <<>> \in Seq(K)
  BY EmptyIsSeq
<1> HIDE DEF K
<1> QED
  BY <1>2, <1>3 DEF Detail, w, K

LEMMA KeyedView ==
  ASSUME NEW call \in Calls, KeepsBelow(call), NEW name \in Ink, NEW fields,
         Shown(fields) \in Seq(Smaller(call.field))
  PROVE  LET v == View(name, fields, call, format_field)
             c == call.continuation
         IN  /\ v \in Seq(RowsKeyed(c, {name} \cup Piece))
             /\ v = <<>> \/ v[1] \in RowsKeyed(c, {name})
<1> DEFINE c == call.continuation
           m == c \o <<"   ">>
           S == Smaller(call.field)
           lines == Listed(Shown(fields), m, call.condensed_only, format_field)
           v == View(name, fields, call, format_field)
           K == RowsKeyed(c, {name} \cup Piece)
<1>1. /\ m \in Seq(Piece) /\ call.condensed_only \in BOOLEAN
      /\ Len(m) + 1 = Len(c) + 2 /\ DrawsBelow(call, format_field)
  BY CallParts, MarginLength, FormatFieldIs
<1>2. v = IF Shown(fields) = <<>> THEN <<>> ELSE Line(m, <<name>>) \o lines
  BY <1>1, ViewType
<1>3. S \in SUBSET Fields
  BY DEF Smaller
<1> HIDE DEF m
<1>4. ASSUME NEW b \in S \X Branches
      PROVE  LET e == Called(b, m, call.condensed_only)
             IN  Beneath(e, format_field) \in Seq(RowsUnder(e.continuation))
  <2>1. b \in Fields \X Branches /\ Depth[b[1]] < Depth[call.field]
    BY DEF Smaller
  <2> QED
    BY <1>1, <2>1, CalledIsCall DEF KeepsBelow
<1>5. lines \in Seq(RowsIn(m))
  <2> HIDE DEF S
  <2> QED
    BY <1>1, <1>3, <1>4, ListedRows DEF S
<1>6. RowsIn(m) \subseteq K
  BY <1>1 DEF RowsIn, RowsKeyed, RowsUnder, m
<1> DEFINE w == <<name>>
           l == Line(m, w)
<1>7. w \in Row /\ w # <<>> /\ w[1] = name
  <2>1. \A a \in Ink : <<a>> \in Row /\ <<a>> # <<>> /\ <<a>>[1] = a
    BY DEF Row
  <2> QED
    BY <2>1
<1> HIDE DEF w, l
<1>8. l \in Seq(RowsKeyed(c, {name})) /\ l[1] \in RowsKeyed(c, {name}) /\ Len(l) = 1
  BY <1>7, KeyedLine DEF m, l
<1>9. RowsKeyed(c, {name}) \subseteq K
  BY DEF RowsKeyed
<1> HIDE DEF lines, v, K
<1>10. l \in Seq(K) /\ lines \in Seq(K)
  <2>1. \A A : A \subseteq K => Seq(A) \subseteq Seq(K)
    OBVIOUS
  <2> QED
    BY <1>5, <1>6, <1>8, <1>9, <2>1
<1>11. l \o lines \in Seq(K) /\ (l \o lines)[1] = l[1] /\ <<>> \in Seq(K)
  BY <1>8, <1>10, ConcatProperties, EmptyIsSeq
<1> QED
  BY <1>2, <1>8, <1>11 DEF v, K, l, w

(* Below a preview's own line: the title, the subtitle and the views, each *)
(* known by what it begins with.                                           *)
LEMMA KeyedBeneath ==
  ASSUME NEW call \in Calls, KeepsBelow(call), call.field.type = "PreviewLayout"
  PROVE  LET f == call.field
             c == call.continuation
             condensed == View("Condensed View", f.condensed, call, format_field)
             expanded == View("Expanded View", f.expanded, call, format_field)
         IN  /\ Detail(c, "Title", f.title) \in Seq(RowsKeyed(c, {"Title"}))
             /\ Detail(c, "Detail", f.subtitle) \in Seq(RowsKeyed(c, {"Detail"}))
             /\ condensed \in Seq(RowsKeyed(c, {"Condensed View"} \cup Piece))
             /\ condensed = <<>> \/ condensed[1] \in RowsKeyed(c, {"Condensed View"})
             /\ expanded \in Seq(RowsKeyed(c, {"Expanded View"} \cup Piece))
             /\ expanded = <<>> \/ expanded[1] \in RowsKeyed(c, {"Expanded View"})
<1> DEFINE f == call.field
           c == call.continuation
<1>1. f \in Fields
  BY CallParts
<1>2. Shown(f.condensed) \in Seq(Smaller(f)) /\ Shown(f.expanded) \in Seq(Smaller(f))
  BY <1>1, ViewsAreSmaller
<1>3. f.title \in Ink /\ f.subtitle \in Ink
  BY <1>1, NamesAreInk
<1>4. Detail(c, "Title", f.title) \in Seq(RowsKeyed(c, {"Title"}))
  BY <1>3, NamesAreInk, KeyedDetail
<1>5. Detail(c, "Detail", f.subtitle) \in Seq(RowsKeyed(c, {"Detail"}))
  BY <1>3, NamesAreInk, KeyedDetail
<1>6. LET v == View("Condensed View", f.condensed, call, format_field)
      IN  /\ v \in Seq(RowsKeyed(c, {"Condensed View"} \cup Piece))
          /\ v = <<>> \/ v[1] \in RowsKeyed(c, {"Condensed View"})
  BY <1>2, NamesAreInk, KeyedView
<1>7. LET v == View("Expanded View", f.expanded, call, format_field)
      IN  /\ v \in Seq(RowsKeyed(c, {"Expanded View"} \cup Piece))
          /\ v = <<>> \/ v[1] \in RowsKeyed(c, {"Expanded View"})
  BY <1>2, NamesAreInk, KeyedView
<1> QED
  BY <1>4, <1>5, <1>6, <1>7

(* Every line below a field's own keeps to the field's margin.             *)
LEMMA KeepsMargin ==
  ASSUME NEW call \in Calls
  PROVE  Beneath(call, format_field) \in Seq(RowsUnder(call.continuation)) /\ KeepsBelow(call)
<1> DEFINE N == {n \in Nat : \A e \in Calls : Depth[e.field] < n =>
                   Beneath(e, format_field) \in Seq(RowsUnder(e.continuation))}
<1>0. \A e \in Calls : Depth[e.field] \in Nat
  BY FormatFieldIs
<1>1. 0 \in N
  BY <1>0
<1>2. ASSUME NEW n \in Nat, n \in N PROVE n + 1 \in N
  <2> SUFFICES ASSUME NEW e \in Calls, Depth[e.field] < n + 1
               PROVE  Beneath(e, format_field) \in Seq(RowsUnder(e.continuation))
    OBVIOUS
  <2>1. KeepsBelow(e)
    <3>1. ASSUME NEW d \in Calls, Depth[d.field] < Depth[e.field] PROVE Depth[d.field] < n
      BY <1>0, <3>1
    <3> QED
      BY <1>2, <3>1 DEF KeepsBelow
  <2> HIDE DEF N
  <2> DEFINE K == RowsUnder(e.continuation)
  <2>0. <<>> \in Seq(K) /\ \A k : RowsKeyed(e.continuation, k) \subseteq K
    BY EmptyIsSeq DEF RowsKeyed
  <2>2. CASE e.field.type # "PreviewLayout"
    BY <2>0, <2>2 DEF Beneath
  <2>3. CASE e.field.type = "PreviewLayout"
    <3> DEFINE t == Detail(e.continuation, "Title", e.field.title)
               d == Detail(e.continuation, "Detail", e.field.subtitle)
               c == View("Condensed View", e.field.condensed, e, format_field)
               v == View("Expanded View", e.field.expanded, e, format_field)
               x == IF e.condensed_only THEN <<>> ELSE v
    <3>1. /\ t \in Seq(RowsKeyed(e.continuation, {"Title"}))
          /\ d \in Seq(RowsKeyed(e.continuation, {"Detail"}))
          /\ c \in Seq(RowsKeyed(e.continuation, {"Condensed View"} \cup Piece))
          /\ v \in Seq(RowsKeyed(e.continuation, {"Expanded View"} \cup Piece))
      BY <2>1, <2>3, KeyedBeneath
    <3>2. Beneath(e, format_field) = t \o d \o c \o x
      BY <2>3 DEF Beneath
    <3> HIDE DEF t, d, c, v, K
    <3>3. t \in Seq(K) /\ d \in Seq(K) /\ c \in Seq(K) /\ v \in Seq(K)
      <4>1. \A A : A \subseteq K => Seq(A) \subseteq Seq(K)
        OBVIOUS
      <4> QED
        BY <2>0, <3>1, <4>1
    <3>4. x \in Seq(K)
      BY <2>0, <3>3
    <3> HIDE DEF x
    <3>5. t \o d \in Seq(K)
      BY <3>3, ConcatProperties
    <3>6. t \o d \o c \in Seq(K)
      BY <3>3, <3>5, ConcatProperties
    <3>7. t \o d \o c \o x \in Seq(K)
      BY <3>4, <3>6, ConcatProperties
    <3> QED
      BY <3>2, <3>7 DEF K
  <2> QED
    BY <2>2, <2>3
<1>3. Nat \subseteq N
  <2> HIDE DEF N
  <2> QED
    BY <1>1, <1>2, NaturalsBySteps
<1>4. \A e \in Calls : Beneath(e, format_field) \in Seq(RowsUnder(e.continuation))
  <2> SUFFICES ASSUME NEW e \in Calls
               PROVE  Beneath(e, format_field) \in Seq(RowsUnder(e.continuation))
    OBVIOUS
  <2>1. Depth[e.field] + 1 \in N /\ Depth[e.field] < Depth[e.field] + 1
    BY <1>0, <1>3
  <2> QED
    BY <2>1
<1> QED
  BY <1>4 DEF KeepsBelow

-----------------------------------------------------------------------------
(* The lines of one field, at the end of any others, tell where they begin *)
(* and which field they are of.                                            *)
Told(f, g) ==
  \A margin \in Seq(Piece) : \A b, d \in Branches : \A x, y \in Seq(Row) :
    x \o format_field[Called(<<f, b>>, margin, FALSE)]
        = y \o format_field[Called(<<g, d>>, margin, FALSE)]
      => x = y /\ SameField[<<f, g>>]

(* Then the lines of a list tell its fields.                               *)
LEMMA ListTold ==
  ASSUME NEW S \in SUBSET Fields, \A f, g \in S : Told(f, g),
         NEW s \in Seq(S), NEW t \in Seq(S), NEW margin \in Seq(Piece),
         Listed(s, margin, FALSE, format_field) = Listed(t, margin, FALSE, format_field)
  PROVE  SameEach(s, t, SameField)
<1> DEFINE C == S \X Branches
           F == Drawn(S, margin, FALSE, format_field)
           R == {p \in C \X C : SameField[<<p[1][1], p[2][1]>>]}
<1>1. ASSUME NEW c \in C
      PROVE  /\ F[c] = format_field[Called(c, margin, FALSE)]
             /\ F[c] \in Seq(Row) /\ F[c] # <<>>
             /\ c[1] \in S /\ c[2] \in Branches /\ c = <<c[1], c[2]>>
  <2> DEFINE call == Called(c, margin, FALSE)
             head == call.prefix \o Words(call.field)
             rest == Beneath(call, format_field)
  <2>1. c \in Fields \X Branches /\ FALSE \in BOOLEAN
    OBVIOUS
  <2>2. F[c] = format_field[call]
    BY DEF Drawn
  <2>3. head \in Row /\ rest \in Seq(Row) /\ format_field[call] = <<head>> \o rest
    <3>1. head \in RowsIn(margin) /\ rest \in Seq(Row) /\ format_field[call] = <<head>> \o rest
      BY <2>1, DrawnRows
    <3> QED
      BY <3>1 DEF RowsIn
  <2> HIDE DEF head, rest, call, F
  <2>4. <<head>> \in Seq(Row) /\ <<head>> # <<>>
    BY <2>3
  <2>5. <<head>> \o rest \in Seq(Row) /\ <<head>> \o rest # <<>>
    BY <2>3, <2>4, ConcatProperties, ConcatEqualIffEmpty
  <2> QED
    BY <2>2, <2>3, <2>5 DEF call
<1>2. F = [c \in C |-> F[c]]
  BY DEF Drawn
<1> HIDE DEF F
<1>3. F \in [C -> Seq(Row)]
  BY <1>1, <1>2
<1>4. ToldApart(C, Row, F, R)
  <2> SUFFICES ASSUME NEW c \in C, NEW d \in C, NEW x \in Seq(Row), NEW y \in Seq(Row),
                      x \o F[c] = y \o F[d]
               PROVE  x = y /\ <<c, d>> \in R
    BY DEF ToldApart
  <2>1. Told(c[1], d[1])
    BY <1>1
  <2>2. /\ F[c] = format_field[Called(<<c[1], c[2]>>, margin, FALSE)]
        /\ F[d] = format_field[Called(<<d[1], d[2]>>, margin, FALSE)]
        /\ c[2] \in Branches /\ d[2] \in Branches
    BY <1>1
  <2>3. x = y /\ SameField[<<c[1], d[1]>>]
    <3>1. \A b, e \in Branches : \A u, v \in Seq(Row) :
            u \o format_field[Called(<<c[1], b>>, margin, FALSE)]
                = v \o format_field[Called(<<d[1], e>>, margin, FALSE)]
              => u = v /\ SameField[<<c[1], d[1]>>]
      BY <2>1, Zenon DEF Told
    <3>2. x \o format_field[Called(<<c[1], c[2]>>, margin, FALSE)]
            = y \o format_field[Called(<<d[1], d[2]>>, margin, FALSE)]
      BY <2>2
    <3> QED
      BY <2>2, <3>1, <3>2, Zenon
  <2> DEFINE p == <<c, d>>
  <2>4. p \in C \X C /\ p[1] = c /\ p[2] = d
    OBVIOUS
  <2> HIDE DEF p, C
  <2> QED
    BY <2>3, <2>4, Zenon DEF p
<1>5. /\ Branched(s) \in Seq(C) /\ Len(Branched(s)) = Len(s)
      /\ Listed(s, margin, FALSE, format_field) = FlatMap(F, Branched(s))
  BY ListedIsFlatMap DEF F
<1>6. /\ Branched(t) \in Seq(C) /\ Len(Branched(t)) = Len(t)
      /\ Listed(t, margin, FALSE, format_field) = FlatMap(F, Branched(t))
  BY ListedIsFlatMap DEF F
<1>7. Related(Branched(s), Branched(t), R)
  <2>1. \A c \in C : F[c] # <<>>
    BY <1>1
  <2>2. FlatMap(F, Branched(s)) = FlatMap(F, Branched(t))
    BY <1>5, <1>6
  <2> HIDE DEF C, R
  <2> QED
    BY <1>3, <1>4, <1>5, <1>6, <2>1, <2>2, WrittenAlike
<1>8. Len(s) = Len(t)
  BY <1>5, <1>6, <1>7 DEF Related
<1>9. ASSUME NEW i \in DOMAIN s PROVE SameField[<<s[i], t[i]>>]
  <2>1. i \in 1..Len(Branched(s)) /\ i \in DOMAIN t
    BY <1>5, <1>8
  <2>2. <<Branched(s)[i], Branched(t)[i]>> \in R
    BY <1>7, <2>1 DEF Related
  <2>3. Branched(s)[i][1] = s[i] /\ Branched(t)[i][1] = t[i]
    BY <2>1 DEF Branched
  <2> DEFINE p == <<Branched(s)[i], Branched(t)[i]>>
  <2>4. p[1] = Branched(s)[i] /\ p[2] = Branched(t)[i]
    OBVIOUS
  <2>5. SameField[<<p[1][1], p[2][1]>>]
    <3> HIDE DEF p, C
    <3> QED
      BY <2>2, Zenon DEF p
  <2> HIDE DEF p
  <2> QED
    BY <2>3, <2>4, <2>5, Zenon
<1> QED
  BY <1>8, <1>9, Zenon DEF SameEach

(* A line for an Option tells it, and a view its fields.                   *)
LEMMA DetailTold ==
  ASSUME NEW call \in Calls, NEW name \in Ink, NEW v \in Ink, NEW w \in Ink,
         Detail(call.continuation, name, v) = Detail(call.continuation, name, w)
  PROVE  v = w
<1> DEFINE m == call.continuation \o <<"   ">>
<1>1. m \in Seq(Ink)
  BY MarginLength
<1>2. \A a, b \in Ink : /\ <<a, b>> \in Seq(Ink) /\ Len(<<a, b>>) = 2
                        /\ <<a, b>>[2] = b
  OBVIOUS
<1>3. \A a : Detail(call.continuation, name, a) =
               IF a = Absent THEN <<>> ELSE <<m \o <<name, a>>>>
  BY DEF Detail, Line
<1>4. \A a, b : (<<a>> = <<b>> => a = b) /\ <<a>> # <<>>
  OBVIOUS
<1> HIDE DEF m
<1>5. CASE v = Absent \/ w = Absent
  <2>1. \A a : Detail(call.continuation, name, a) = <<>> <=> a = Absent
    BY <1>3, <1>4
  <2> QED
    BY <1>5, <2>1
<1>6. CASE v # Absent /\ w # Absent
  <2>1. m \o <<name, v>> = m \o <<name, w>>
    BY <1>3, <1>4, <1>6
  <2>2. <<name, v>> = <<name, w>>
    <3> DEFINE p == <<name, v>>
               q == <<name, w>>
    <3>1. p \in Seq(Ink) /\ q \in Seq(Ink) /\ m \o p = m \o q
      BY <1>2, <2>1
    <3> HIDE DEF p, q
    <3>2. SameConcat(Ink, m, m, p, q)
      BY <1>1, <3>1 DEF SameConcat
    <3>3. p = q
      BY <3>2, SameBeginnings
    <3> QED
      BY <3>3 DEF p, q
  <2> QED
    BY <1>2, <2>2
<1> QED
  BY <1>5, <1>6

LEMMA ViewTold ==
  ASSUME NEW S \in SUBSET Fields, \A f, g \in S : Told(f, g),
         NEW call \in Calls, NEW other \in Calls, ~call.condensed_only, ~other.condensed_only,
         call.continuation = other.continuation, NEW name \in Ink, NEW fs, NEW gs,
         Shown(fs) \in Seq(Smaller(call.field)), Shown(gs) \in Seq(Smaller(other.field)),
         Smaller(call.field) \subseteq S, Smaller(other.field) \subseteq S,
         View(name, fs, call, format_field) = View(name, gs, other, format_field)
  PROVE  SameEach(Shown(fs), Shown(gs), SameField)
<1> DEFINE m == call.continuation \o <<"   ">>
           l == Line(m, <<name>>)
           a == Listed(Shown(fs), m, FALSE, format_field)
           b == Listed(Shown(gs), m, FALSE, format_field)
<1>1. call.condensed_only = FALSE /\ other.condensed_only = FALSE
  BY CallParts
<1>2. /\ View(name, fs, call, format_field) = IF Shown(fs) = <<>> THEN <<>> ELSE l \o a
      /\ a \in Seq(Row)
  <2>1. DrawsBelow(call, format_field)
    BY FormatFieldIs
  <2> QED
    BY <1>1, <2>1, ViewType
<1>3. /\ View(name, gs, other, format_field) = IF Shown(gs) = <<>> THEN <<>> ELSE l \o b
      /\ b \in Seq(Row)
  <2>1. DrawsBelow(other, format_field)
    BY FormatFieldIs
  <2> QED
    BY <1>1, <2>1, ViewType
<1>4. l \in Seq(Row) /\ l # <<>> /\ m \in Seq(Piece)
  <2>1. m \in Row /\ m \in Seq(Piece)
    BY MarginLength
  <2>2. <<name>> \in Row
    BY DEF Row
  <2>3. l \in Seq(Row) /\ Len(l) = 1
    BY <2>1, <2>2, LineIsRow
  <2>4. l # <<>>
    <3>1. \A r : <<r>> # <<>>
      OBVIOUS
    <3> QED
      BY <3>1 DEF Line
  <2> HIDE DEF l
  <2> QED
    BY <2>1, <2>3, <2>4
<1> HIDE DEF l, a, b
<1>5. l \o a # <<>> /\ l \o b # <<>>
  <2>1. \A p, r \in Seq(Row) : p \o r = <<>> <=> p = <<>> /\ r = <<>>
    BY ConcatEqualIffEmpty
  <2> QED
    BY <1>2, <1>3, <1>4, <2>1
<1>6. Shown(fs) \in Seq(S) /\ Shown(gs) \in Seq(S)
  OBVIOUS
<1>7. CASE Shown(fs) = <<>> \/ Shown(gs) = <<>>
  <2>1. Shown(fs) = <<>> /\ Shown(gs) = <<>>
    BY <1>2, <1>3, <1>5, <1>7
  <2> QED
    BY <2>1 DEF SameEach
<1>8. CASE Shown(fs) # <<>> /\ Shown(gs) # <<>>
  <2>1. l \o a = l \o b
    BY <1>2, <1>3, <1>8
  <2>2. a = b
    <3>1. SameConcat(Row, l, l, a, b)
      BY <1>2, <1>3, <1>4, <2>1 DEF SameConcat
    <3> QED
      BY <3>1, SameBeginnings
  <2> QED
    BY <1>4, <1>6, <2>2, ListTold DEF a, b
<1> QED
  BY <1>7, <1>8

(* Two lists of rows, each with another behind it that begins with a row   *)
(* the list has not.                                                       *)
SameRows(A, B, x, y, u, v) ==
  /\ A \subseteq Row /\ A \cap B = {}
  /\ x \in Seq(A) /\ y \in Seq(A) /\ u \in Seq(Row) /\ v \in Seq(Row)
  /\ u = <<>> \/ u[1] \in B
  /\ v = <<>> \/ v[1] \in B
  /\ x \o u = y \o v

LEMMA SplitRows ==
  ASSUME NEW A, NEW B, NEW x, NEW y, NEW u, NEW v, SameRows(A, B, x, y, u, v)
  PROVE  x = y /\ u = v
<1>0. /\ A \subseteq Row /\ A \cap B = {}
      /\ x \in Seq(A) /\ y \in Seq(A) /\ u \in Seq(Row) /\ v \in Seq(Row)
      /\ u = <<>> \/ u[1] \in B
      /\ v = <<>> \/ v[1] \in B
      /\ x \o u = y \o v
  BY DEF SameRows
<1>1. x \in Seq(Row) /\ y \in Seq(Row)
  BY <1>0
<1>2. (\A i \in 1..Len(x) : x[i] \notin B) /\ (\A i \in 1..Len(y) : y[i] \notin B)
  BY <1>0
<1>3. SameConcat(Row, x, y, u, v)
  BY <1>0, <1>1 DEF SameConcat
<1> QED
  BY <1>0, <1>2, <1>3, SplitAtMark

(* What is written below a preview's line tells its parts.                 *)
LEMMA BeneathTold ==
  ASSUME NEW S \in SUBSET Fields, \A f, g \in S : Told(f, g),
         NEW call \in Calls, NEW other \in Calls, ~call.condensed_only, ~other.condensed_only,
         call.continuation = other.continuation,
         call.field.type = "PreviewLayout", other.field.type = "PreviewLayout",
         Smaller(call.field) \subseteq S, Smaller(other.field) \subseteq S,
         Beneath(call, format_field) = Beneath(other, format_field)
  PROVE  LET f == call.field
             g == other.field
         IN  /\ f.title = g.title /\ f.subtitle = g.subtitle
             /\ SameEach(Shown(f.condensed), Shown(g.condensed), SameField)
             /\ SameEach(Shown(f.expanded), Shown(g.expanded), SameField)
<1> DEFINE c == call.continuation
           f == call.field
           g == other.field
           t == Detail(c, "Title", f.title)
           d == Detail(c, "Detail", f.subtitle)
           k == View("Condensed View", f.condensed, call, format_field)
           v == View("Expanded View", f.expanded, call, format_field)
           t2 == Detail(c, "Title", g.title)
           d2 == Detail(c, "Detail", g.subtitle)
           k2 == View("Condensed View", g.condensed, other, format_field)
           v2 == View("Expanded View", g.expanded, other, format_field)
           T == RowsKeyed(c, {"Title"})
           D == RowsKeyed(c, {"Detail"})
           C == RowsKeyed(c, {"Condensed View"})
           X == RowsKeyed(c, {"Expanded View"})
           TD == RowsKeyed(c, {"Title", "Detail"})
           TDC == RowsKeyed(c, {"Title", "Detail", "Condensed View"} \cup Piece)
           CP == RowsKeyed(c, {"Condensed View"} \cup Piece)
           XP == RowsKeyed(c, {"Expanded View"} \cup Piece)
<1>1. /\ t \in Seq(T) /\ d \in Seq(D) /\ k \in Seq(CP) /\ v \in Seq(XP)
      /\ k = <<>> \/ k[1] \in C
      /\ v = <<>> \/ v[1] \in X
  BY KeepsMargin, KeyedBeneath
<1>2. /\ t2 \in Seq(T) /\ d2 \in Seq(D) /\ k2 \in Seq(CP) /\ v2 \in Seq(XP)
      /\ k2 = <<>> \/ k2[1] \in C
      /\ v2 = <<>> \/ v2[1] \in X
  BY KeepsMargin, KeyedBeneath
<1>3. t \o d \o k \o v = t2 \o d2 \o k2 \o v2
  BY DEF Beneath
<1>a. f \in Fields /\ g \in Fields
  BY CallParts
<1> HIDE DEF t, d, k, v, t2, d2, k2, v2
<1>4. /\ T \subseteq TD /\ D \subseteq TD /\ TD \subseteq TDC /\ CP \subseteq TDC
      /\ D \subseteq Row /\ CP \subseteq Row /\ XP \subseteq Row
  BY DEF RowsKeyed, RowsUnder
<1>5. \A A, B : A \subseteq B => Seq(A) \subseteq Seq(B)
  OBVIOUS
<1>b. "Expanded View" \notin {"Title", "Detail", "Condensed View"} \cup Piece
      /\ "Condensed View" \notin {"Title", "Detail"} /\ "Detail" \notin {"Title"}
  BY DEF Piece
<1>c. /\ T \in SUBSET Row /\ TD \in SUBSET Row /\ TDC \in SUBSET Row
      /\ TDC \cap X = {} /\ TD \cap C = {} /\ T \cap D = {} /\ T \subseteq Row
  BY <1>b DEF RowsKeyed, RowsUnder
<1> HIDE DEF T, D, C, X, TD, TDC, CP, XP
<1>6. /\ t \in Seq(TD) /\ d \in Seq(TD) /\ t2 \in Seq(TD) /\ d2 \in Seq(TD)
      /\ k \in Seq(TDC) /\ k2 \in Seq(TDC)
      /\ d \in Seq(Row) /\ d2 \in Seq(Row) /\ k \in Seq(Row) /\ k2 \in Seq(Row)
      /\ v \in Seq(Row) /\ v2 \in Seq(Row)
  BY <1>1, <1>2, <1>4, <1>5
<1>7. t \o d \in Seq(TD) /\ t2 \o d2 \in Seq(TD)
  BY <1>6, ConcatProperties
<1>8. t \o d \o k \in Seq(TDC) /\ t2 \o d2 \o k2 \in Seq(TDC)
  <2> DEFINE p == t \o d
             q == t2 \o d2
  <2>1. p \in Seq(TDC) /\ q \in Seq(TDC)
    BY <1>4, <1>5, <1>7
  <2> HIDE DEF p, q
  <2>2. p \o k \in Seq(TDC) /\ q \o k2 \in Seq(TDC)
    BY <1>6, <2>1, ConcatProperties
  <2> QED
    BY <2>2 DEF p, q
<1>9. t \o d \o k = t2 \o d2 \o k2 /\ v = v2
  <2> DEFINE p == t \o d \o k
             q == t2 \o d2 \o k2
  <2>1. p \in Seq(TDC) /\ q \in Seq(TDC) /\ p \o v = q \o v2
    BY <1>3, <1>8
  <2> HIDE DEF p, q
  <2>2. p = q /\ v = v2
    <3>1. SameRows(TDC, X, p, q, v, v2)
      BY <1>1, <1>2, <1>6, <1>c, <2>1 DEF SameRows
    <3> QED
      BY <3>1, SplitRows
  <2> QED
    BY <2>2 DEF p, q
<1>10. t \o d = t2 \o d2 /\ k = k2
  <2> DEFINE p == t \o d
             q == t2 \o d2
  <2>1. p \in Seq(TD) /\ q \in Seq(TD) /\ p \o k = q \o k2
    BY <1>7, <1>9
  <2> HIDE DEF p, q
  <2>2. p = q /\ k = k2
    <3>1. SameRows(TD, C, p, q, k, k2)
      BY <1>1, <1>2, <1>6, <1>c, <2>1 DEF SameRows
    <3> QED
      BY <3>1, SplitRows
  <2> QED
    BY <2>2 DEF p, q
<1>11. t = t2 /\ d = d2
  <2>1. (d = <<>> \/ d[1] \in D) /\ (d2 = <<>> \/ d2[1] \in D)
    <3>1. \A A : \A z \in Seq(A) : z = <<>> \/ z[1] \in A
      <4> SUFFICES ASSUME NEW A, NEW z \in Seq(A), z # <<>> PROVE z[1] \in A
        OBVIOUS
      <4>1. Len(z) \in Nat /\ Len(z) # 0
        BY EmptySeq
      <4> QED
        BY <4>1
    <3> QED
      BY <1>1, <1>2, <3>1
  <2> QED
    <3>1. SameRows(T, D, t, t2, d, d2)
      BY <1>1, <1>2, <1>6, <1>10, <1>c, <2>1 DEF SameRows
    <3> QED
      BY <3>1, SplitRows
<1>12. f.title = g.title
  <2>1. f.title \in Ink /\ g.title \in Ink /\ "Title" \in Ink
    BY <1>a, NamesAreInk
  <2> QED
    BY <1>11, <2>1, DetailTold DEF t, t2
<1>13. f.subtitle = g.subtitle
  <2>1. f.subtitle \in Ink /\ g.subtitle \in Ink /\ "Detail" \in Ink
    BY <1>a, NamesAreInk
  <2> QED
    BY <1>11, <2>1, DetailTold DEF d, d2
<1>14. /\ Shown(f.condensed) \in Seq(Smaller(f)) /\ Shown(f.expanded) \in Seq(Smaller(f))
       /\ Shown(g.condensed) \in Seq(Smaller(g)) /\ Shown(g.expanded) \in Seq(Smaller(g))
       /\ "Condensed View" \in Ink /\ "Expanded View" \in Ink
  BY <1>a, ViewsAreSmaller, NamesAreInk
<1>15. SameEach(Shown(f.condensed), Shown(g.condensed), SameField)
  BY <1>10, <1>14, ViewTold DEF k, k2
<1>16. SameEach(Shown(f.expanded), Shown(g.expanded), SameField)
  BY <1>9, <1>14, ViewTold DEF v, v2
<1> QED
  BY <1>12, <1>13, <1>15, <1>16

(* A field is told if the fields within it are.                            *)
LEMMA FieldTold ==
  ASSUME NEW S \in SUBSET Fields, \A f, g \in S : Told(f, g), NEW f \in Fields, NEW g \in Fields,
         Smaller(f) \subseteq S, Smaller(g) \subseteq S
  PROVE  Told(f, g)
<1> SUFFICES ASSUME NEW margin \in Seq(Piece), NEW b \in Branches, NEW d \in Branches,
                    NEW x \in Seq(Row), NEW y \in Seq(Row),
                    x \o format_field[Called(<<f, b>>, margin, FALSE)]
                      = y \o format_field[Called(<<g, d>>, margin, FALSE)]
             PROVE  x = y /\ SameField[<<f, g>>]
  BY Zenon DEF Told
<1> DEFINE call == Called(<<f, b>>, margin, FALSE)
           other == Called(<<g, d>>, margin, FALSE)
           h == call.prefix \o Words(f)
           j == other.prefix \o Words(g)
           r == Beneath(call, format_field)
           s == Beneath(other, format_field)
           n == Len(margin) + 1
           Heads == {row \in Row : row[n] \in Branches}
<1>1. <<f, b>> \in Fields \X Branches /\ <<g, d>> \in Fields \X Branches /\ FALSE \in BOOLEAN
      /\ <<f, b>>[1] = f /\ <<f, b>>[2] = b /\ <<g, d>>[1] = g /\ <<g, d>>[2] = d
  OBVIOUS
<1>2. /\ call \in Calls /\ call.field = f /\ ~call.condensed_only
      /\ call.prefix = margin \o <<b>> /\ call.continuation = margin \o <<Below(b)>>
  BY <1>1, CalledIsCall
<1>3. /\ other \in Calls /\ other.field = g /\ ~other.condensed_only
      /\ other.prefix = margin \o <<d>> /\ other.continuation = margin \o <<Below(d)>>
  BY <1>1, CalledIsCall
<1>4. /\ h \in RowsIn(margin) /\ h[n] = b /\ r \in Seq(Row)
      /\ format_field[call] = <<h>> \o r
      /\ \A i \in 1..Len(r) : r[i][n] = Below(b)
  BY <1>1, <1>2, DrawnRows, KeepsMargin
<1>5. /\ j \in RowsIn(margin) /\ j[n] = d /\ s \in Seq(Row)
      /\ format_field[other] = <<j>> \o s
      /\ \A i \in 1..Len(s) : s[i][n] = Below(d)
  BY <1>1, <1>3, DrawnRows, KeepsMargin
<1>6. h \in Heads /\ j \in Heads /\ Heads \subseteq Row
  BY <1>4, <1>5 DEF RowsIn
<1>7. (\A i \in 1..Len(r) : r[i] \notin Heads) /\ (\A i \in 1..Len(s) : s[i] \notin Heads)
  <2>1. Below(b) \notin Branches /\ Below(d) \notin Branches
    BY DEF Below, Branches
  <2> HIDE DEF r, s, n
  <2> QED
    BY <1>4, <1>5, <2>1
<1>8. x \o (<<h>> \o r) = y \o (<<j>> \o s)
  BY <1>4, <1>5
<1> HIDE DEF h, j, r, s, n, Heads, call, other
<1>9. ASSUME NEW e \in Heads, NEW z \in Seq(Row), \A i \in 1..Len(z) : z[i] \notin Heads
      PROVE  LET w == <<e>> \o z
             IN  /\ w \in Seq(Row) /\ Len(w) > 0 /\ w[1] \in Heads /\ w[1] = e
                 /\ \A i \in 2..Len(w) : w[i] \notin Heads
  <2> DEFINE p == <<e>>
             w == p \o z
  <2>1. p \in Seq(Row) /\ Len(p) = 1 /\ p[1] = e /\ Len(z) \in Nat
    BY <1>6
  <2> HIDE DEF p
  <2>a. \A i \in 1..(Len(p) + Len(z)) : w[i] = IF i <= Len(p) THEN p[i] ELSE z[i - Len(p)]
    BY <2>1, ConcatProperties
  <2>2. w \in Seq(Row) /\ Len(w) = 1 + Len(z) /\ w[1] = e
    <3>1. w \in Seq(Row) /\ Len(w) = 1 + Len(z)
      <4>1. p \o z \in Seq(Row)
        BY <2>1, ConcatProperties
      <4>2. Len(p \o z) = Len(p) + Len(z)
        BY <2>1, ConcatProperties
      <4> QED
        BY <2>1, <4>1, <4>2
    <3>2. 1 \in 1..(Len(p) + Len(z)) /\ 1 <= Len(p)
      BY <2>1
    <3>3. w[1] = p[1]
      BY <2>a, <3>2
    <3> QED
      BY <2>1, <3>1, <3>3
  <2>3. ASSUME NEW i \in 2..Len(w) PROVE w[i] \notin Heads
    <3>1. i \in 1..(1 + Len(z)) /\ ~(i <= 1) /\ i - 1 \in 1..Len(z)
      BY <2>1, <2>2
    <3>2. w[i] = z[i - 1]
      <4>1. i \in 1..(Len(p) + Len(z)) /\ ~(i <= Len(p)) /\ i - Len(p) = i - 1
        BY <2>1, <3>1
      <4> QED
        BY <2>a, <4>1
    <3> QED
      BY <1>9, <3>1, <3>2
  <2> QED
    BY <2>1, <2>2, <2>3 DEF p
<1>10. x = y /\ <<h>> \o r = <<j>> \o s
  <2> DEFINE u == <<h>> \o r
             v == <<j>> \o s
  <2>1. u \in Seq(Row) /\ Len(u) > 0 /\ u[1] \in Heads /\ \A i \in 2..Len(u) : u[i] \notin Heads
    BY <1>4, <1>6, <1>7, <1>9
  <2>2. v \in Seq(Row) /\ Len(v) > 0 /\ v[1] \in Heads /\ \A i \in 2..Len(v) : v[i] \notin Heads
    BY <1>5, <1>6, <1>7, <1>9
  <2>3. x \o u = y \o v
    BY <1>8
  <2> HIDE DEF u, v
  <2>4. SameConcat(Row, x, y, u, v)
    BY <2>1, <2>2, <2>3 DEF SameConcat
  <2>5. x = y /\ u = v
    BY <2>1, <2>2, <2>4, SplitAtLastMark
  <2> QED
    BY <2>5 DEF u, v
<1>11. h = j /\ r = s
  <2> DEFINE p == <<h>>
             q == <<j>>
  <2>1. p \in Seq(Row) /\ q \in Seq(Row) /\ Len(p) = Len(q)
    BY <1>6
  <2>2. p \o r = q \o s
    BY <1>10
  <2>3. p = q => h = j
    OBVIOUS
  <2> HIDE DEF p, q
  <2>4. SameConcat(Row, p, q, r, s)
    BY <1>4, <1>5, <2>1, <2>2 DEF SameConcat
  <2> QED
    BY <2>1, <2>3, <2>4, SameBeginnings
<1>12. b = d /\ Words(f) = Words(g)
  <2>1. b = d
    BY <1>4, <1>5, <1>11
  <2> DEFINE m == margin \o <<b>>
             w == Words(f)
             z == Words(g)
  <2>2. m \in Seq(Ink) /\ w \in Seq(Ink) /\ z \in Seq(Ink)
    <3>1. call.prefix \in Row /\ Words(f) \in Row /\ Words(g) \in Row
      BY <1>2, CallParts, WordsType
    <3> QED
      BY <1>2, <3>1 DEF Row
  <2>3. m \o w = m \o z
    BY <1>2, <1>3, <1>11, <2>1 DEF h, j
  <2> HIDE DEF m, w, z
  <2>4. SameConcat(Ink, m, m, w, z)
    BY <2>2, <2>3 DEF SameConcat
  <2>5. w = z
    BY <2>4, SameBeginnings
  <2> QED
    BY <2>1, <2>5 DEF w, z
<1>13. f.type = "PreviewLayout" <=> g.type = "PreviewLayout"
  BY <1>12, WordsType
<1>14. SameShown(f, g, SameField)
  <2>1. CASE f.type # "PreviewLayout"
    BY <1>12, <1>13, <2>1, Zenon DEF SameShown
  <2>2. CASE f.type = "PreviewLayout"
    <3>1. g.type = "PreviewLayout" /\ call.continuation = other.continuation
      BY <1>2, <1>3, <1>12, <1>13, <2>2
    <3>2. Beneath(call, format_field) = Beneath(other, format_field)
      BY <1>11 DEF r, s
    <3>3. /\ f.title = g.title /\ f.subtitle = g.subtitle
          /\ SameEach(Shown(f.condensed), Shown(g.condensed), SameField)
          /\ SameEach(Shown(f.expanded), Shown(g.expanded), SameField)
      BY <1>2, <1>3, <2>2, <3>1, <3>2, BeneathTold
    <3> QED
      BY <1>12, <1>13, <3>3, Zenon DEF SameShown
  <2> QED
    BY <2>1, <2>2
<1> QED
  BY <1>10, <1>14, SameFieldIs

(* Every two fields are told apart, if a person can tell them at all.      *)
LEMMA FieldsTold == \A f, g \in Fields : Told(f, g)
<1> DEFINE Up(n) == {f \in Fields : Depth[f] < n}
           N == {n \in Nat : \A f, g \in Up(n) : Told(f, g)}
<1>0. \A f \in Fields : Depth[f] \in Nat
  BY FieldsAssumption
<1>1. 0 \in N
  BY <1>0
<1>2. ASSUME NEW n \in Nat, n \in N PROVE n + 1 \in N
  <2> SUFFICES ASSUME NEW f \in Up(n + 1), NEW g \in Up(n + 1) PROVE Told(f, g)
    OBVIOUS
  <2>1. \A e \in Up(n + 1) : Smaller(e) \subseteq Up(n)
    BY <1>0 DEF Smaller
  <2>2. Up(n) \in SUBSET Fields /\ f \in Fields /\ g \in Fields
    OBVIOUS
  <2>3. \A a, e \in Up(n) : Told(a, e)
    BY <1>2
  <2> HIDE DEF Up, N
  <2> QED
    BY <2>1, <2>2, <2>3, FieldTold
<1>3. Nat \subseteq N
  <2> HIDE DEF N
  <2> QED
    BY <1>1, <1>2, NaturalsBySteps
<1> SUFFICES ASSUME NEW f \in Fields, NEW g \in Fields PROVE Told(f, g)
  OBVIOUS
<1>4. PICK n \in Nat : Depth[f] < n /\ Depth[g] < n
  <2>1. Depth[f] < Depth[f] + Depth[g] + 1 /\ Depth[g] < Depth[f] + Depth[g] + 1
        /\ Depth[f] + Depth[g] + 1 \in Nat
    BY <1>0
  <2> QED
    BY <2>1
<1>5. f \in Up(n) /\ g \in Up(n) /\ n \in N
  BY <1>3, <1>4
<1> QED
  BY <1>5

-----------------------------------------------------------------------------
(* The whole text: lines on the transaction, and the tree of its fields.   *)
SubtitleRows(p) ==
  IF p.subtitle = Absent THEN <<>> ELSE Line(<<"|  ">>, <<"Subtitle", p.subtitle>>)

TypeRows(p) ==
  IF p.payload_type = "" THEN <<>> ELSE Line(<<"|  ">>, <<"Type", p.payload_type>>)

Header(p) ==
  Line(<<".- ">>, <<"Transaction", p.title>>)
    \o SubtitleRows(p)
    \o Line(<<"|  ">>, <<"Version", p.version>>)
    \o TypeRows(p)
    \o Line(<<"|">>, <<>>)

FieldRows(p, condensed_only) ==
  IF p.fields = <<>> THEN <<>>
  ELSE Line(<<"L- ">>, <<"Fields">>)
         \o Listed(p.fields, <<"   ">>, condensed_only, format_field)

LEMMA HumanReadableIs ==
  \A p, condensed_only :
    HumanReadable(p, condensed_only) = Header(p) \o FieldRows(p, condensed_only)
BY DEF HumanReadable, Header, FieldRows, SubtitleRows, TypeRows

LEMMA OneRow ==
  \A K : \A x \in K : <<x>> \in Seq(K) /\ <<x>> # <<>> /\ Len(<<x>>) = 1 /\ <<x>>[1] = x
<1> SUFFICES ASSUME NEW K, NEW x \in K
             PROVE  <<x>> \in Seq(K) /\ <<x>> # <<>> /\ Len(<<x>>) = 1 /\ <<x>>[1] = x
  OBVIOUS
<1>1. <<x>> \in Seq(K) /\ Len(<<x>>) = 1 /\ <<x>>[1] = x
  OBVIOUS
<1>2. <<x>> # <<>>
  OBVIOUS
<1> QED
  BY <1>1, <1>2

(* A line with a name and a value.                                         *)
NamedRow(a, b, c) == <<a>> \o <<b, c>>

IsNamedLine(l, a, b, c) ==
  LET r == NamedRow(a, b, c)
  IN  /\ l = <<r>> /\ r \in Row
      /\ r[1] = a /\ r[2] = b /\ r[3] = c

LEMMA NamedLine == \A a, b, c \in Ink : IsNamedLine(Line(<<a>>, <<b, c>>), a, b, c)
<1> SUFFICES ASSUME NEW a \in Ink, NEW b \in Ink, NEW c \in Ink
             PROVE  IsNamedLine(Line(<<a>>, <<b, c>>), a, b, c)
  OBVIOUS
<1> DEFINE p == <<a>>
           q == <<b, c>>
           r == p \o q
<1>1. p \in Seq(Ink) /\ q \in Seq(Ink) /\ Len(p) = 1 /\ Len(q) = 2
      /\ p[1] = a /\ q[1] = b /\ q[2] = c
  OBVIOUS
<1>2. Line(p, q) = <<r>> /\ NamedRow(a, b, c) = r
  BY DEF Line, NamedRow
<1> HIDE DEF p, q
<1>3. r \in Seq(Ink)
  BY <1>1, ConcatProperties
<1>4. \A i \in 1..(Len(p) + Len(q)) : r[i] = IF i <= Len(p) THEN p[i] ELSE q[i - Len(p)]
  BY <1>1, ConcatProperties
<1> HIDE DEF r
<1>5. r[1] = a /\ r[2] = b /\ r[3] = c
  BY <1>1, <1>4
<1> QED
  BY <1>2, <1>3, <1>5 DEF p, q, Row, IsNamedLine

LEMMA BareLines ==
  /\ LET l == Line(<<"|">>, <<>>)
     IN  l \in Seq(Row) /\ Len(l) = 1 /\ l = <<l[1]>> /\ l[1] \in Row /\ l[1][1] = "|"
  /\ LET l == Line(<<"L- ">>, <<"Fields">>)
     IN  l \in Seq(Row) /\ Len(l) = 1 /\ l = <<l[1]>> /\ l[1] \in Row /\ l[1][1] = "L- "
<1>1. \A x \in Row : <<x>> \in Seq(Row) /\ Len(<<x>>) = 1 /\ <<x>>[1] = x
  OBVIOUS
<1>2. \A a \in Ink : \A s \in Seq(Ink) : <<a>> \o s \in Seq(Ink) /\ (<<a>> \o s)[1] = a
  <2> SUFFICES ASSUME NEW a \in Ink, NEW s \in Seq(Ink)
               PROVE  <<a>> \o s \in Seq(Ink) /\ (<<a>> \o s)[1] = a
    OBVIOUS
  <2> DEFINE p == <<a>>
  <2>1. p \in Seq(Ink) /\ Len(p) = 1 /\ p[1] = a /\ Len(s) \in Nat
    OBVIOUS
  <2> HIDE DEF p
  <2>2. p \o s \in Seq(Ink) /\ (p \o s)[1] = a
    BY <2>1, ConcatProperties
  <2> QED
    BY <2>2 DEF p
<1>3. "|" \in Ink /\ "L- " \in Ink /\ <<>> \in Seq(Ink) /\ <<"Fields">> \in Seq(Ink)
  <2>1. "|" \in Ink /\ "L- " \in Ink /\ "Fields" \in Ink
    BY DEF Ink, Piece
  <2>2. \A x \in Ink : <<x>> \in Seq(Ink)
    OBVIOUS
  <2> QED
    BY <2>1, <2>2, EmptyIsSeq
<1>4. /\ <<"|">> \o <<>> \in Row /\ (<<"|">> \o <<>>)[1] = "|"
      /\ <<"L- ">> \o <<"Fields">> \in Row /\ (<<"L- ">> \o <<"Fields">>)[1] = "L- "
  BY <1>2, <1>3 DEF Row
<1> QED
  BY <1>1, <1>4 DEF Line

LEMMA PayloadInk ==
  ASSUME NEW p \in Drawings
  PROVE  /\ p.title \in Ink /\ p.subtitle \in Ink /\ p.version \in Ink /\ p.payload_type \in Ink
         /\ {"Transaction", "Subtitle", "Version", "Type", ".- ", "|  "} \subseteq Ink
         /\ p.fields \in Seq(Fields)
<1>1. p.fields \in Seq(Fields)
  BY FieldsAssumption
<1> QED
  BY <1>1 DEF Ink, Piece

(* Rows that begin in one of some ways.                                    *)
Starting(K) == {r \in Row : r[1] \in K}

Named(K) == {r \in Row : r[1] \in {".- ", "|  "} /\ r[2] \in K}

HasNamed(l, b, c) == l \in Seq(Named({b})) /\ Len(l) = 1 /\ l # <<>> /\ l[1][3] = c

LEMMA NamedIn ==
  \A a, b, c \in Ink : a \in {".- ", "|  "} => HasNamed(Line(<<a>>, <<b, c>>), b, c)
<1> SUFFICES ASSUME NEW a \in Ink, NEW b \in Ink, NEW c \in Ink, a \in {".- ", "|  "}
             PROVE  HasNamed(Line(<<a>>, <<b, c>>), b, c)
  OBVIOUS
<1> DEFINE l == Line(<<a>>, <<b, c>>)
           r == NamedRow(a, b, c)
<1>0. IsNamedLine(l, a, b, c)
  BY NamedLine, Zenon
<1> HIDE DEF l
<1>1. l = <<r>> /\ r \in Row /\ r[1] = a /\ r[2] = b /\ r[3] = c
  BY <1>0 DEF IsNamedLine
<1> HIDE DEF r
<1>2. r \in Named({b})
  BY <1>1 DEF Named
<1>3. <<r>> \in Seq(Named({b})) /\ <<r>> # <<>> /\ Len(<<r>>) = 1 /\ <<r>>[1] = r
  BY <1>2, OneRow, Zenon
<1> QED
  BY <1>1, <1>3 DEF l, HasNamed

LEMMA HeaderRows ==
  ASSUME NEW p \in Drawings
  PROVE  LET first == Line(<<".- ">>, <<"Transaction", p.title>>)
             version == Line(<<"|  ">>, <<"Version", p.version>>)
         IN  /\ first \in Seq(Named({"Transaction"})) /\ Len(first) = 1
             /\ first[1][3] = p.title
             /\ SubtitleRows(p) \in Seq(Named({"Subtitle"}))
             /\ SubtitleRows(p) = <<>> <=> p.subtitle = Absent
             /\ p.subtitle # Absent => SubtitleRows(p)[1][3] = p.subtitle
             /\ version \in Seq(Named({"Version"})) /\ Len(version) = 1
             /\ version[1][3] = p.version
             /\ TypeRows(p) \in Seq(Named({"Type"}))
             /\ TypeRows(p) = <<>> <=> p.payload_type = ""
             /\ p.payload_type # "" => TypeRows(p)[1][3] = p.payload_type
<1>1. ASSUME NEW a \in {".- ", "|  "}, NEW b \in {"Transaction", "Subtitle", "Version", "Type"},
             NEW c \in Ink
      PROVE  HasNamed(Line(<<a>>, <<b, c>>), b, c)
  <2>1. a \in Ink /\ b \in Ink
    BY DEF Ink, Piece
  <2> QED
    BY <2>1, NamedIn, Zenon
<1>2. /\ p.title \in Ink /\ p.subtitle \in Ink /\ p.version \in Ink /\ p.payload_type \in Ink
  BY PayloadInk
<1>3. \A K : <<>> \in Seq(Named(K))
  BY EmptyIsSeq
<1>4. LET l == Line(<<".- ">>, <<"Transaction", p.title>>)
      IN  l \in Seq(Named({"Transaction"})) /\ Len(l) = 1 /\ l[1][3] = p.title
  BY <1>1, <1>2 DEF HasNamed
<1>5. LET l == Line(<<"|  ">>, <<"Version", p.version>>)
      IN  l \in Seq(Named({"Version"})) /\ Len(l) = 1 /\ l[1][3] = p.version
  BY <1>1, <1>2 DEF HasNamed
<1>6. LET l == Line(<<"|  ">>, <<"Subtitle", p.subtitle>>)
      IN  l \in Seq(Named({"Subtitle"})) /\ l # <<>> /\ l[1][3] = p.subtitle
  BY <1>1, <1>2 DEF HasNamed
<1>7. LET l == Line(<<"|  ">>, <<"Type", p.payload_type>>)
      IN  l \in Seq(Named({"Type"})) /\ l # <<>> /\ l[1][3] = p.payload_type
  BY <1>1, <1>2 DEF HasNamed
<1>8. /\ SubtitleRows(p) \in Seq(Named({"Subtitle"}))
      /\ SubtitleRows(p) = <<>> <=> p.subtitle = Absent
      /\ p.subtitle # Absent => SubtitleRows(p)[1][3] = p.subtitle
  BY <1>3, <1>6 DEF SubtitleRows
<1>9. /\ TypeRows(p) \in Seq(Named({"Type"}))
      /\ TypeRows(p) = <<>> <=> p.payload_type = ""
      /\ p.payload_type # "" => TypeRows(p)[1][3] = p.payload_type
  BY <1>3, <1>7 DEF TypeRows
<1> QED
  BY <1>4, <1>5, <1>8, <1>9

(* The lines on a transaction tell what they were written from.            *)
LEMMA HeaderTold ==
  ASSUME NEW p \in Drawings, NEW q \in Drawings, Header(p) = Header(q)
  PROVE  /\ p.title = q.title /\ p.subtitle = q.subtitle
         /\ p.version = q.version /\ p.payload_type = q.payload_type
<1> DEFINE f(d) == Line(<<".- ">>, <<"Transaction", d.title>>)
           s(d) == SubtitleRows(d)
           v(d) == Line(<<"|  ">>, <<"Version", d.version>>)
           t(d) == TypeRows(d)
           b == Line(<<"|">>, <<>>)
           T == Named({"Type"})
           A == Named({"Transaction", "Subtitle", "Version"})
<1>1. /\ T \subseteq Row /\ A \subseteq Row /\ A \cap T = {}
      /\ Named({"Transaction"}) \subseteq A /\ Named({"Subtitle"}) \subseteq A
      /\ Named({"Version"}) \subseteq A
  BY DEF Named
<1>2. \A C, D : C \subseteq D => Seq(C) \subseteq Seq(D)
  OBVIOUS
<1>3. \A d \in Drawings :
        /\ f(d) \in Seq(Named({"Transaction"})) /\ Len(f(d)) = 1 /\ f(d)[1][3] = d.title
        /\ s(d) \in Seq(Named({"Subtitle"}))
        /\ s(d) = <<>> <=> d.subtitle = Absent
        /\ d.subtitle # Absent => s(d)[1][3] = d.subtitle
        /\ v(d) \in Seq(Named({"Version"})) /\ Len(v(d)) = 1 /\ v(d)[1][3] = d.version
        /\ t(d) \in Seq(T)
        /\ t(d) = <<>> <=> d.payload_type = ""
        /\ d.payload_type # "" => t(d)[1][3] = d.payload_type
  BY HeaderRows
<1>4. b \in Seq(Row) /\ Len(b) = 1
  BY BareLines
<1>5. ((f(p) \o s(p)) \o v(p)) \o t(p) \o b = ((f(q) \o s(q)) \o v(q)) \o t(q) \o b
  BY DEF Header
<1> HIDE DEF f, s, v, t, b, T, A
<1>6. \A d \in Drawings : f(d) \in Seq(A) /\ s(d) \in Seq(A) /\ v(d) \in Seq(A)
  <2> SUFFICES ASSUME NEW d \in Drawings
               PROVE  f(d) \in Seq(A) /\ s(d) \in Seq(A) /\ v(d) \in Seq(A)
    OBVIOUS
  <2>1. /\ f(d) \in Seq(Named({"Transaction"})) /\ s(d) \in Seq(Named({"Subtitle"}))
        /\ v(d) \in Seq(Named({"Version"}))
    BY <1>3
  <2>2. /\ Seq(Named({"Transaction"})) \subseteq Seq(A) /\ Seq(Named({"Subtitle"})) \subseteq Seq(A)
        /\ Seq(Named({"Version"})) \subseteq Seq(A)
    BY <1>1, <1>2, Zenon
  <2> QED
    BY <2>1, <2>2, Zenon
<1>7. \A d \in Drawings :
        /\ f(d) \in Seq(Row) /\ s(d) \in Seq(Row) /\ v(d) \in Seq(Row) /\ t(d) \in Seq(Row)
        /\ f(d) \o s(d) \in Seq(Row)
        /\ (f(d) \o s(d)) \o v(d) \in Seq(A) /\ (f(d) \o s(d)) \o v(d) \in Seq(Row)
        /\ ((f(d) \o s(d)) \o v(d)) \o t(d) \in Seq(Row)
        /\ t(d) = <<>> \/ t(d)[1] \in T
  <2> SUFFICES ASSUME NEW d \in Drawings
               PROVE  /\ f(d) \in Seq(Row) /\ s(d) \in Seq(Row) /\ v(d) \in Seq(Row)
                      /\ t(d) \in Seq(Row) /\ f(d) \o s(d) \in Seq(Row)
                      /\ (f(d) \o s(d)) \o v(d) \in Seq(A) /\ (f(d) \o s(d)) \o v(d) \in Seq(Row)
                      /\ ((f(d) \o s(d)) \o v(d)) \o t(d) \in Seq(Row)
                      /\ t(d) = <<>> \/ t(d)[1] \in T
    OBVIOUS
  <2>1. t(d) \in Seq(T) /\ f(d) \in Seq(A) /\ s(d) \in Seq(A) /\ v(d) \in Seq(A)
    BY <1>3, <1>6
  <2>2. Seq(T) \subseteq Seq(Row) /\ Seq(A) \subseteq Seq(Row)
    BY <1>1, <1>2, Zenon
  <2>3. t(d) = <<>> \/ t(d)[1] \in T
    <3>1. Len(t(d)) \in Nat /\ (Len(t(d)) = 0 => t(d) = <<>>)
      BY <2>1, EmptySeq
    <3> QED
      BY <2>1, <3>1
  <2>4. f(d) \o s(d) \in Seq(A)
    BY <2>1, ConcatProperties
  <2>5. (f(d) \o s(d)) \o v(d) \in Seq(A)
    BY <2>1, <2>4, ConcatProperties
  <2>6. ((f(d) \o s(d)) \o v(d)) \o t(d) \in Seq(Row)
    BY <2>1, <2>2, <2>5, ConcatProperties
  <2> QED
    BY <2>1, <2>2, <2>3, <2>4, <2>5, <2>6
<1>8. ((f(p) \o s(p)) \o v(p)) \o t(p) = ((f(q) \o s(q)) \o v(q)) \o t(q)
  <2> DEFINE x == ((f(p) \o s(p)) \o v(p)) \o t(p)
             y == ((f(q) \o s(q)) \o v(q)) \o t(q)
  <2>1. x \in Seq(Row) /\ y \in Seq(Row) /\ x \o b = y \o b
    BY <1>5, <1>7
  <2> HIDE DEF x, y
  <2>2. SameConcat(Row, x, y, b, b)
    BY <1>4, <2>1 DEF SameConcat
  <2>3. x = y
    BY <2>2, SameEnds
  <2> QED
    BY <2>3 DEF x, y
<1>9. (f(p) \o s(p)) \o v(p) = (f(q) \o s(q)) \o v(q) /\ t(p) = t(q)
  <2> DEFINE x == (f(p) \o s(p)) \o v(p)
             y == (f(q) \o s(q)) \o v(q)
             u == t(p)
             w == t(q)
  <2>1. x \in Seq(A) /\ y \in Seq(A) /\ u \in Seq(Row) /\ w \in Seq(Row)
        /\ (u = <<>> \/ u[1] \in T) /\ (w = <<>> \/ w[1] \in T) /\ x \o u = y \o w
    BY <1>7, <1>8
  <2> HIDE DEF x, y, u, w
  <2>2. SameRows(A, T, x, y, u, w)
    BY <1>1, <2>1 DEF SameRows
  <2>3. x = y /\ u = w
    BY <2>2, SplitRows
  <2> QED
    BY <2>3 DEF x, y, u, w
<1>10. f(p) \o s(p) = f(q) \o s(q) /\ v(p) = v(q)
  <2> DEFINE x == f(p) \o s(p)
             y == f(q) \o s(q)
             u == v(p)
             w == v(q)
  <2>1. /\ x \in Seq(Row) /\ y \in Seq(Row) /\ u \in Seq(Row) /\ w \in Seq(Row)
        /\ x \o u = y \o w /\ Len(u) = Len(w)
    BY <1>3, <1>7, <1>9
  <2> HIDE DEF x, y, u, w
  <2>2. SameConcat(Row, x, y, u, w)
    BY <2>1 DEF SameConcat
  <2>3. x = y /\ u = w
    BY <2>1, <2>2, SameEnds
  <2> QED
    BY <2>3 DEF x, y, u, w
<1>11. f(p) = f(q) /\ s(p) = s(q)
  <2> DEFINE x == f(p)
             y == f(q)
             u == s(p)
             w == s(q)
  <2>1. /\ x \in Seq(Row) /\ y \in Seq(Row) /\ u \in Seq(Row) /\ w \in Seq(Row)
        /\ x \o u = y \o w /\ Len(x) = Len(y)
    BY <1>3, <1>7, <1>10
  <2> HIDE DEF x, y, u, w
  <2>2. SameConcat(Row, x, y, u, w)
    BY <2>1 DEF SameConcat
  <2>3. x = y /\ u = w
    BY <2>1, <2>2, SameBeginnings
  <2> QED
    BY <2>3 DEF x, y, u, w
<1>12. p.title = q.title /\ p.version = q.version
  BY <1>3, <1>10, <1>11, Zenon
<1>13. p.subtitle = q.subtitle
  BY <1>3, <1>11, Zenon
<1>14. p.payload_type = q.payload_type
  BY <1>3, <1>9, Zenon
<1> QED
  BY <1>12, <1>13, <1>14

LEMMA HeaderType ==
  ASSUME NEW p \in Drawings
  PROVE  Header(p) \in Seq(Starting({".- ", "|  ", "|"})) /\ Header(p) \in Seq(Row)
<1> DEFINE H == Starting({".- ", "|  ", "|"})
           f == Line(<<".- ">>, <<"Transaction", p.title>>)
           s == SubtitleRows(p)
           v == Line(<<"|  ">>, <<"Version", p.version>>)
           t == TypeRows(p)
           b == Line(<<"|">>, <<>>)
<1>1. \A K : Named(K) \subseteq H
  BY DEF Named, Starting
<1>2. \A C, D : C \subseteq D => Seq(C) \subseteq Seq(D)
  OBVIOUS
<1>3. \A K : Seq(Named(K)) \subseteq Seq(H)
  <2> HIDE DEF H
  <2> QED
    BY <1>1, <1>2, Zenon
<1>4. f \in Seq(H) /\ s \in Seq(H) /\ v \in Seq(H) /\ t \in Seq(H)
  <2>1. /\ f \in Seq(Named({"Transaction"})) /\ s \in Seq(Named({"Subtitle"}))
        /\ v \in Seq(Named({"Version"})) /\ t \in Seq(Named({"Type"}))
    BY HeaderRows
  <2> HIDE DEF f, s, v, t, H
  <2> QED
    BY <1>3, <2>1, Zenon
<1>5. b \in Seq(H)
  <2>1. b = <<b[1]>> /\ b[1] \in Row /\ b[1][1] = "|"
    BY BareLines
  <2> HIDE DEF b
  <2>2. b[1] \in H
    BY <2>1 DEF Starting
  <2> HIDE DEF H
  <2>3. <<b[1]>> \in Seq(H)
    BY <2>2, OneRow, Zenon
  <2> QED
    BY <2>1, <2>3, Zenon
<1>6. H \subseteq Row
  BY DEF Starting
<1>7. Header(p) = (((f \o s) \o v) \o t) \o b
  BY DEF Header
<1> HIDE DEF H, f, s, v, t, b
<1>8. Header(p) \in Seq(H)
  <2>1. f \o s \in Seq(H)
    BY <1>4, ConcatProperties
  <2>2. (f \o s) \o v \in Seq(H)
    BY <1>4, <2>1, ConcatProperties
  <2>3. ((f \o s) \o v) \o t \in Seq(H)
    BY <1>4, <2>2, ConcatProperties
  <2>4. (((f \o s) \o v) \o t) \o b \in Seq(H)
    BY <1>5, <2>3, ConcatProperties
  <2> QED
    BY <1>7, <2>4
<1>9. Header(p) \in Seq(Row)
  BY <1>2, <1>6, <1>8, Zenon
<1> QED
  BY <1>8, <1>9 DEF H

(* The fields of a transaction, at the tree's margin.                      *)
LEMMA TopRows ==
  ASSUME NEW p \in Drawings, NEW condensed_only \in BOOLEAN
  PROVE  LET top == Line(<<"L- ">>, <<"Fields">>)
             list == Listed(p.fields, <<"   ">>, condensed_only, format_field)
         IN  /\ p.fields \in Seq(Fields) /\ <<"   ">> \in Seq(Piece)
             /\ top \in Seq(Row) /\ Len(top) = 1 /\ top[1] \in Starting({"L- "})
             /\ list \in Seq(Row)
             /\ FieldRows(p, condensed_only) = IF p.fields = <<>> THEN <<>> ELSE top \o list
             /\ FieldRows(p, condensed_only) \in Seq(Row)
             /\ \/ FieldRows(p, condensed_only) = <<>>
                \/ FieldRows(p, condensed_only)[1] \in Starting({"L- "})
             /\ FieldRows(p, condensed_only) = <<>> <=> p.fields = <<>>
<1> DEFINE top == Line(<<"L- ">>, <<"Fields">>)
           margin == <<"   ">>
           list == Listed(p.fields, margin, condensed_only, format_field)
           rows == FieldRows(p, condensed_only)
<1>1. p.fields \in Seq(Fields)
  BY PayloadInk
<1>2. margin \in Seq(Piece)
  <2>1. "   " \in Piece
    BY DEF Piece
  <2> QED
    BY <2>1, OneRow, Zenon
<1>3. top \in Seq(Row) /\ Len(top) = 1 /\ top[1] \in Starting({"L- "})
  <2>1. top \in Seq(Row) /\ Len(top) = 1 /\ top[1] \in Row /\ top[1][1] = "L- "
    BY BareLines
  <2> HIDE DEF top
  <2> QED
    BY <2>1 DEF Starting
<1>4. rows = IF p.fields = <<>> THEN <<>> ELSE top \o list
  BY DEF FieldRows
<1> HIDE DEF top, margin, rows
<1>5. list \in Seq(Row)
  <2>1. ASSUME NEW c \in Fields \X Branches
        PROVE  LET call == Called(c, margin, condensed_only)
               IN  Beneath(call, format_field) \in Seq(RowsUnder(call.continuation))
    <3>1. Called(c, margin, condensed_only) \in Calls
      BY <1>2, CalledIsCall
    <3> QED
      BY <3>1, KeepsMargin
  <2>2. list \in Seq(RowsIn(margin))
    <3>1. Fields \in SUBSET Fields
      OBVIOUS
    <3> QED
      BY <1>1, <1>2, <2>1, <3>1, ListedRows
  <2>3. RowsIn(margin) \subseteq Row
    BY DEF RowsIn
  <2> HIDE DEF list
  <2> QED
    BY <2>2, <2>3
<1> HIDE DEF list
<1>6. top \o list \in Seq(Row) /\ top \o list # <<>> /\ (top \o list)[1] \in Starting({"L- "})
  <2>0. top \in Seq(Row) /\ Len(top) = 1 /\ Len(list) \in Nat
    <3>1. Len(list) \in Nat
      BY <1>5
    <3> QED
      BY <1>3, <3>1, Zenon
  <2>1. top \o list \in Seq(Row) /\ Len(top \o list) = 1 + Len(list) /\ Len(list) \in Nat
    <3>1. top \o list \in Seq(Row) /\ Len(top \o list) = Len(top) + Len(list)
      BY <1>3, <1>5, ConcatProperties
    <3> QED
      BY <2>0, <3>1
  <2>2. (top \o list)[1] = top[1]
    <3>1. \A i \in 1..(Len(top) + Len(list)) :
            (top \o list)[i] = IF i <= Len(top) THEN top[i] ELSE list[i - Len(top)]
      BY <1>3, <1>5, ConcatProperties
    <3>2. 1 \in 1..(Len(top) + Len(list)) /\ 1 <= Len(top)
      BY <2>0
    <3> QED
      BY <3>1, <3>2
  <2>3. top \o list # <<>>
    BY <2>1, EmptySeq
  <2> QED
    BY <1>3, <2>1, <2>2, <2>3
<1>7. /\ rows \in Seq(Row)
      /\ rows = <<>> \/ rows[1] \in Starting({"L- "})
      /\ rows = <<>> <=> p.fields = <<>>
  BY <1>4, <1>6, EmptyIsSeq
<1> QED
  BY <1>1, <1>2, <1>3, <1>4, <1>5, <1>7 DEF top, margin, list, rows

(* And so does the whole text, the fields included.                        *)
LEMMA PayloadTold ==
  ASSUME NEW p \in Drawings, NEW q \in Drawings,
         HumanReadable(p, FALSE) = HumanReadable(q, FALSE)
  PROVE  SamePayload(p, q)
<1> DEFINE H == Starting({".- ", "|  ", "|"})
           L == Starting({"L- "})
           x == Header(p)
           y == Header(q)
           u == FieldRows(p, FALSE)
           w == FieldRows(q, FALSE)
           margin == <<"   ">>
           top == Line(<<"L- ">>, <<"Fields">>)
           a == Listed(p.fields, margin, FALSE, format_field)
           b == Listed(q.fields, margin, FALSE, format_field)
<1>1. H \subseteq Row /\ H \cap L = {}
  BY DEF Starting
<1>2. x \in Seq(H) /\ y \in Seq(H)
  BY HeaderType
<1>3. /\ p.fields \in Seq(Fields) /\ margin \in Seq(Piece)
      /\ top \in Seq(Row) /\ Len(top) = 1 /\ a \in Seq(Row)
      /\ u = IF p.fields = <<>> THEN <<>> ELSE top \o a
      /\ u \in Seq(Row) /\ (u = <<>> \/ u[1] \in L) /\ (u = <<>> <=> p.fields = <<>>)
  BY TopRows
<1>4. /\ q.fields \in Seq(Fields) /\ b \in Seq(Row)
      /\ w = IF q.fields = <<>> THEN <<>> ELSE top \o b
      /\ w \in Seq(Row) /\ (w = <<>> \/ w[1] \in L) /\ (w = <<>> <=> q.fields = <<>>)
  BY TopRows
<1>5. x \o u = y \o w
  BY HumanReadableIs
<1> HIDE DEF H, L, x, y, u, w, margin, top
<1>6. x = y /\ u = w
  <2>1. SameRows(H, L, x, y, u, w)
    BY <1>1, <1>2, <1>3, <1>4, <1>5 DEF SameRows
  <2> QED
    BY <2>1, SplitRows
<1>7. /\ p.title = q.title /\ p.subtitle = q.subtitle
      /\ p.version = q.version /\ p.payload_type = q.payload_type
  BY <1>6, HeaderTold DEF x, y
<1>8. SameEach(p.fields, q.fields, SameField)
  <2>1. CASE p.fields = <<>>
    <3>1. q.fields = <<>>
      BY <1>3, <1>4, <1>6, <2>1, Zenon
    <3> QED
      BY <2>1, <3>1 DEF SameEach
  <2>2. CASE p.fields # <<>>
    <3>1. q.fields # <<>>
      BY <1>3, <1>4, <1>6, <2>2, Zenon
    <3>2. top \o a = top \o b
      BY <1>3, <1>4, <1>6, <2>2, <3>1, Zenon
    <3> HIDE DEF a, b
    <3>3. SameConcat(Row, top, top, a, b)
      BY <1>3, <1>4, <3>2 DEF SameConcat
    <3>4. a = b
      BY <3>3, SameBeginnings
    <3>5. Fields \in SUBSET Fields /\ \A f, g \in Fields : Told(f, g)
      BY FieldsTold
    <3> QED
      BY <1>3, <1>4, <3>4, <3>5, ListTold DEF a, b
  <2> QED
    BY <2>1, <2>2
<1> QED
  BY <1>7, <1>8 DEF SamePayload

-----------------------------------------------------------------------------
(* found is what the recursive function in Within(lines, text) is meant to *)
(* be.                                                                     *)
Found(lines, text, found) ==
  found = [k \in 0..Len(text) |->
            IF k = 0 THEN 0
            ELSE LET n == found[k - 1]
                 IN  IF n < Len(lines) /\ lines[n + 1] = text[k] THEN n + 1 ELSE n]

LEMMA FoundExists ==
  ASSUME NEW E, NEW lines \in Seq(E), NEW text \in Seq(E)
  PROVE  \E found : Found(lines, text, found)
<1> DEFINE D == 0..Len(text)
           next(k, n) == IF n < Len(lines) /\ lines[n + 1] = text[k] THEN n + 1 ELSE n
           F == [g \in [D -> Nat] |-> [k \in D |-> IF k = 0 THEN 0 ELSE next(k, g[k - 1])]]
           rank == [k \in D |-> k]
<1>0. /\ D \subseteq Nat /\ \A k \in D : k # 0 => k - 1 \in D /\ k - 1 < k
      /\ \A k : \A n \in Nat : next(k, n) \in Nat
  OBVIOUS
<1> HIDE DEF D, next
<1>1. rank \in [D -> Nat]
  BY <1>0
<1>2. ASSUME NEW g \in [D -> Nat]
      PROVE  /\ F[g] \in [D -> Nat]
             /\ \A k \in D : F[g][k] = IF k = 0 THEN 0 ELSE next(k, g[k - 1])
  <2>1. \A k \in D : (IF k = 0 THEN 0 ELSE next(k, g[k - 1])) \in Nat
    BY <1>0
  <2> QED
    BY <2>1
<1>3. F \in [[D -> Nat] -> [D -> Nat]]
  BY <1>2
<1> HIDE DEF F
<1>4. ASSUME NEW g \in [D -> Nat], NEW h \in [D -> Nat], NEW d \in D,
             \A e \in D : rank[e] < rank[d] => g[e] = h[e]
      PROVE  F[g][d] = F[h][d]
  <2>1. d # 0 => d - 1 \in D /\ rank[d - 1] = d - 1 /\ rank[d] = d /\ d - 1 < d
    BY <1>0
  <2>2. d # 0 => g[d - 1] = h[d - 1]
    BY <1>4, <2>1
  <2>3. F[g][d] = IF d = 0 THEN 0 ELSE next(d, g[d - 1])
    BY <1>2
  <2>4. F[h][d] = IF d = 0 THEN 0 ELSE next(d, h[d - 1])
    BY <1>2
  <2> QED
    BY <2>2, <2>3, <2>4
<1>5. Recursion(D, Nat, rank, F)
  <2> HIDE DEF rank
  <2> QED
    BY <1>1, <1>3, <1>4 DEF Recursion
<1>6. PICK g \in [D -> Nat] : g = F[g]
  <2>1. Nat # {}
    OBVIOUS
  <2> HIDE DEF rank
  <2>2. \A r, f : Recursion(D, Nat, r, f) => \E g \in [D -> Nat] : g = f[g]
    BY <2>1, RecursionExists
  <2> QED
    BY <1>5, <2>2
<1>7. g = [k \in D |-> IF k = 0 THEN 0 ELSE next(k, g[k - 1])]
  <2>1. \A k \in D : g[k] = IF k = 0 THEN 0 ELSE next(k, g[k - 1])
    BY <1>2, <1>6
  <2> QED
    BY <2>1
<1>8. Found(lines, text, g)
  BY <1>7 DEF Found, D, next
<1> QED
  BY <1>8

(* What is left of a text is found within it, taking each line where it    *)
(* is first met.                                                           *)
LEMMA LeftIsWithin ==
  ASSUME NEW E, NEW lines \in Seq(E), NEW text \in Seq(E), LeftOf(lines, text)
  PROVE  Within(lines, text)
<1>1. PICK e : Places(lines, text, e)
  BY DEF LeftOf
<1> DEFINE found == CHOOSE f : Found(lines, text, f)
<1>2. Within(lines, text) <=> found[Len(text)] = Len(lines)
  BY DEF Within, Found
<1>3. Found(lines, text, found)
  BY FoundExists
<1> HIDE DEF found
<1>4. ASSUME NEW k \in 1..Len(text)
      PROVE  LET n == found[k - 1]
             IN  found[k] = IF n < Len(lines) /\ lines[n + 1] = text[k] THEN n + 1 ELSE n
  <2>1. k \in 0..Len(text) /\ k # 0
    OBVIOUS
  <2> QED
    BY <1>3, <2>1 DEF Found
<1>5. found[0] = 0
  <2>1. 0 \in 0..Len(text)
    OBVIOUS
  <2> QED
    BY <1>3, <2>1 DEF Found
<1> DEFINE Holds(k) == /\ found[k] \in 0..Len(lines)
                       /\ \A i \in 1..Len(lines) : e[i] <= k => i <= found[k]
           N == {k \in Nat : k <= Len(text) => Holds(k)}
<1>6. 0 \in N
  <2>1. \A i \in 1..Len(lines) : ~(e[i] <= 0)
    BY <1>1 DEF Places
  <2>2. 0 \in 0..Len(lines)
    OBVIOUS
  <2>3. Holds(0)
    BY <1>5, <2>1, <2>2
  <2> HIDE DEF Holds
  <2> QED
    BY <2>3
<1>7. ASSUME NEW k \in Nat, k \in N PROVE k + 1 \in N
  <2> SUFFICES ASSUME k + 1 <= Len(text) PROVE Holds(k + 1)
    OBVIOUS
  <2>1. k + 1 \in 1..Len(text) /\ (k + 1) - 1 = k
    OBVIOUS
  <2> DEFINE n == found[k]
  <2>2. n \in 0..Len(lines) /\ \A i \in 1..Len(lines) : e[i] <= k => i <= n
    BY <1>7
  <2>3. found[k + 1] = IF n < Len(lines) /\ lines[n + 1] = text[k + 1] THEN n + 1 ELSE n
    BY <1>4, <2>1
  <2> HIDE DEF n, N
  <2>4. found[k + 1] \in 0..Len(lines) /\ n <= found[k + 1]
    BY <2>2, <2>3
  <2>5. ASSUME NEW i \in 1..Len(lines), e[i] <= k + 1 PROVE i <= found[k + 1]
    <3>0. \A j \in 1..Len(lines) : e[j] \in Nat
      BY <1>1 DEF Places
    <3>1. CASE e[i] <= k
      BY <2>2, <2>4, <3>1
    <3>2. CASE e[i] = k + 1
      <4>1. i = 1 \/ (i - 1 \in 1..Len(lines) /\ e[i - 1] < e[i])
        BY <1>1 DEF Places
      <4>2. i - 1 <= n
        BY <2>2, <3>0, <3>2, <4>1
      <4>3. lines[i] = text[k + 1]
        BY <1>1, <3>2 DEF Places
      <4>4. CASE n = i - 1
        <5>1. n < Len(lines) /\ n + 1 = i
          BY <4>4
        <5> QED
          BY <2>3, <4>3, <5>1
      <4>5. CASE n # i - 1
        BY <2>2, <2>4, <4>2, <4>5
      <4> QED
        BY <4>4, <4>5
    <3> QED
      BY <2>5, <3>0, <3>1, <3>2
  <2> QED
    BY <2>4, <2>5
<1>8. Nat \subseteq N
  <2> HIDE DEF N
  <2> QED
    BY <1>6, <1>7, NaturalsBySteps
<1>9. Holds(Len(text))
  <2>1. Len(text) \in Nat
    OBVIOUS
  <2> QED
    BY <1>8, <2>1
<1>10. \A i \in 1..Len(lines) : e[i] <= Len(text)
  BY <1>1 DEF Places
<1>11. found[Len(text)] = Len(lines)
  <2>1. Len(lines) \in Nat
    OBVIOUS
  <2>2. CASE Len(lines) = 0
    BY <1>9, <2>2
  <2>3. CASE Len(lines) > 0
    BY <1>9, <1>10, <2>1, <2>3
  <2> QED
    BY <2>1, <2>2, <2>3
<1> QED
  BY <1>2, <1>11

(* The condensed text: each field keeps the lines it has in the full one,  *)
(* less those of expanded views.                                           *)
KeepsLines(f) ==
  \A b \in Branches : \A margin \in Seq(Piece) :
    LeftOf(format_field[Called(<<f, b>>, margin, TRUE)],
           format_field[Called(<<f, b>>, margin, FALSE)])

LEMMA DrawnFields ==
  ASSUME NEW S \in SUBSET Fields, NEW margin \in Seq(Piece), NEW condensed_only \in BOOLEAN
  PROVE  Drawn(S, margin, condensed_only, format_field) \in [S \X Branches -> Seq(Row)]
<1>1. ASSUME NEW c \in S \X Branches
      PROVE  format_field[Called(c, margin, condensed_only)] \in Seq(Row)
  <2>1. c \in Fields \X Branches
    OBVIOUS
  <2>2. Called(c, margin, condensed_only) \in Calls
    BY <2>1, CalledIsCall
  <2> QED
    BY <2>2, FormatFieldIs
<1> QED
  BY <1>1 DEF Drawn

LEMMA ListedKeepsLines ==
  ASSUME NEW S \in SUBSET Fields, \A f \in S : KeepsLines(f), NEW fields \in Seq(S),
         NEW margin \in Seq(Piece)
  PROVE  LeftOf(Listed(fields, margin, TRUE, format_field),
                Listed(fields, margin, FALSE, format_field))
<1> DEFINE C == S \X Branches
           F == Drawn(S, margin, TRUE, format_field)
           G == Drawn(S, margin, FALSE, format_field)
           s == Branched(fields)
<1>1. /\ s \in Seq(C)
      /\ Listed(fields, margin, TRUE, format_field) = FlatMap(F, s)
      /\ Listed(fields, margin, FALSE, format_field) = FlatMap(G, s)
  BY ListedIsFlatMap
<1>2. F \in [C -> Seq(Row)] /\ G \in [C -> Seq(Row)]
  BY DrawnFields
<1>3. ASSUME NEW c \in C PROVE LeftOf(F[c], G[c])
  <2>1. c = <<c[1], c[2]>> /\ c[1] \in S /\ c[2] \in Branches
    OBVIOUS
  <2>2. LeftOf(format_field[Called(<<c[1], c[2]>>, margin, TRUE)],
               format_field[Called(<<c[1], c[2]>>, margin, FALSE)])
    BY <2>1, Zenon DEF KeepsLines
  <2>3. F[c] = format_field[Called(c, margin, TRUE)] /\ G[c] = format_field[Called(c, margin, FALSE)]
    BY DEF Drawn
  <2> QED
    BY <2>1, <2>2, <2>3, Zenon
<1> HIDE DEF C, F, G, s
<1>4. LeftOf(FlatMap(F, s), FlatMap(G, s))
  BY <1>1, <1>2, <1>3, FlatMapLeftOf
<1> QED
  BY <1>1, <1>4, Zenon

(* The same view in the two texts.                                         *)
LEMMA ViewKeepsLines ==
  ASSUME NEW call \in Calls, NEW other \in Calls, call.condensed_only, ~other.condensed_only,
         call.continuation = other.continuation, call.field = other.field,
         \A f \in Smaller(call.field) : KeepsLines(f), NEW name \in Ink, NEW fields,
         Shown(fields) \in Seq(Smaller(call.field))
  PROVE  LeftOf(View(name, fields, call, format_field), View(name, fields, other, format_field))
<1> DEFINE margin == call.continuation \o <<"   ">>
           l == Line(margin, <<name>>)
           x == Listed(Shown(fields), margin, TRUE, format_field)
           y == Listed(Shown(fields), margin, FALSE, format_field)
<1>0. DrawsBelow(call, format_field) /\ DrawsBelow(other, format_field)
  BY FormatFieldIs
<1>a. call.condensed_only = TRUE /\ other.condensed_only = FALSE
  BY CallParts
<1>1. /\ x \in Seq(Row)
      /\ View(name, fields, call, format_field) = IF Shown(fields) = <<>> THEN <<>> ELSE l \o x
  BY <1>0, <1>a, ViewType
<1>2. /\ y \in Seq(Row)
      /\ View(name, fields, other, format_field) = IF Shown(fields) = <<>> THEN <<>> ELSE l \o y
  BY <1>0, <1>a, ViewType
<1>3. margin \in Seq(Piece) /\ margin \in Row /\ Smaller(call.field) \in SUBSET Fields
  BY CallParts DEF Smaller
<1> HIDE DEF margin
<1>4. l \in Seq(Row)
  <2>1. <<name>> \in Row
    BY OneRow, Zenon DEF Row
  <2> QED
    BY <1>3, <2>1, LineIsRow
<1>5. LeftOf(x, y)
  BY <1>3, ListedKeepsLines
<1> HIDE DEF l, x, y
<1>6. LeftOf(l \o x, l \o y)
  <2>1. LeftOf(l, l)
    BY <1>4, LeftOfItself
  <2> QED
    BY <1>1, <1>2, <1>4, <1>5, <2>1, LeftOfConcat
<1>7. LeftOf(<<>>, <<>>)
  <2>1. <<>> \in Seq(Row)
    BY EmptyIsSeq
  <2> QED
    BY <2>1, LeftOfItself
<1> QED
  BY <1>1, <1>2, <1>6, <1>7, Zenon

(* And what is below a field's own line.                                   *)
LEMMA BeneathKeepsLines ==
  ASSUME NEW call \in Calls, NEW other \in Calls, call.condensed_only, ~other.condensed_only,
         call.continuation = other.continuation, call.field = other.field,
         \A f \in Smaller(call.field) : KeepsLines(f)
  PROVE  LeftOf(Beneath(call, format_field), Beneath(other, format_field))
<1> DEFINE f == call.field
           c == call.continuation
           t == Detail(c, "Title", f.title)
           d == Detail(c, "Detail", f.subtitle)
           k == View("Condensed View", f.condensed, call, format_field)
           k2 == View("Condensed View", f.condensed, other, format_field)
           v2 == View("Expanded View", f.expanded, other, format_field)
<1>0. DrawsBelow(call, format_field) /\ DrawsBelow(other, format_field)
  BY FormatFieldIs
<1>1. CASE f.type # "PreviewLayout"
  <2>1. Beneath(call, format_field) = <<>> /\ Beneath(other, format_field) = <<>>
    BY <1>1 DEF Beneath
  <2>2. <<>> \in Seq(Row)
    BY EmptyIsSeq
  <2> QED
    BY <2>1, <2>2, LeftOfItself
<1>2. CASE f.type = "PreviewLayout"
  <2>1. /\ t \in Seq(Row) /\ d \in Seq(Row) /\ k \in Seq(Row)
        /\ Shown(f.condensed) \in Seq(Smaller(f))
    BY <1>0, <1>2, BeneathParts
  <2>2. k2 \in Seq(Row) /\ v2 \in Seq(Row)
    BY <1>0, <1>2, BeneathParts
  <2>3. /\ Beneath(call, format_field) = ((t \o d) \o k) \o <<>>
        /\ Beneath(other, format_field) = ((t \o d) \o k2) \o v2
    BY <1>2 DEF Beneath
  <2>4. LeftOf(k, k2)
    <3>1. "Condensed View" \in Ink
      BY NamesAreInk
    <3> QED
      BY <2>1, <3>1, ViewKeepsLines
  <2>a. <<>> \in Seq(Row)
    BY EmptyIsSeq
  <2> HIDE DEF f, c, t, d, k, k2, v2
  <2>5. t \o d \in Seq(Row)
    BY <2>1, ConcatProperties
  <2> DEFINE z == t \o d
  <2>b. z \in Seq(Row)
    BY <2>5
  <2> HIDE DEF z
  <2>6. LeftOf(z, z) /\ LeftOf(<<>>, v2)
    BY <2>b, <2>2, LeftOfItself
  <2>7. LeftOf(z \o k, z \o k2)
    BY <2>1, <2>2, <2>4, <2>b, <2>6, LeftOfConcat
  <2>8. z \o k \in Seq(Row) /\ z \o k2 \in Seq(Row)
    BY <2>1, <2>2, <2>b, ConcatProperties
  <2>9. LeftOf((z \o k) \o <<>>, (z \o k2) \o v2)
    <3> DEFINE x == z \o k
               y == z \o k2
    <3>1. x \in Seq(Row) /\ y \in Seq(Row) /\ LeftOf(x, y)
      BY <2>7, <2>8
    <3> HIDE DEF x, y
    <3>2. LeftOf(x \o <<>>, y \o v2)
      BY <2>2, <2>6, <2>a, <3>1, LeftOfConcat
    <3> QED
      BY <3>2 DEF x, y
  <2> QED
    BY <2>3, <2>9, Zenon DEF z
<1> QED
  BY <1>1, <1>2

LEMMA FieldKeepsLines ==
  ASSUME NEW f \in Fields, \A g \in Smaller(f) : KeepsLines(g)
  PROVE  KeepsLines(f)
<1> SUFFICES ASSUME NEW b \in Branches, NEW margin \in Seq(Piece)
             PROVE  LeftOf(format_field[Called(<<f, b>>, margin, TRUE)],
                           format_field[Called(<<f, b>>, margin, FALSE)])
  BY DEF KeepsLines
<1> DEFINE call == Called(<<f, b>>, margin, TRUE)
           other == Called(<<f, b>>, margin, FALSE)
           x == Beneath(call, format_field)
           y == Beneath(other, format_field)
           l == Line(call.prefix, Words(f))
<1>1. <<f, b>> \in Fields \X Branches /\ <<f, b>>[1] = f
  OBVIOUS
<1>2. /\ call \in Calls /\ call.field = f /\ call.condensed_only
      /\ call.prefix = margin \o <<b>> /\ call.continuation = margin \o <<Below(b)>>
  BY <1>1, CalledIsCall
<1>3. /\ other \in Calls /\ other.field = f /\ ~other.condensed_only
      /\ other.prefix = margin \o <<b>> /\ other.continuation = margin \o <<Below(b)>>
  BY <1>1, CalledIsCall
<1> HIDE DEF call, other
<1>4. format_field[call] = l \o x /\ format_field[other] = l \o y
  <2>1. format_field[call] = Line(call.prefix, Words(f)) \o x
    BY <1>2, FormatFieldIs, FormattedIs
  <2>2. format_field[other] = Line(other.prefix, Words(f)) \o y
    BY <1>3, FormatFieldIs, FormattedIs
  <2> QED
    BY <1>2, <1>3, <2>1, <2>2, Zenon
<1>5. x \in Seq(Row) /\ y \in Seq(Row) /\ l \in Seq(Row)
  <2>1. x \in Seq(Row) /\ y \in Seq(Row)
    BY <1>2, <1>3, FormatFieldIs, FormattedType
  <2>2. call.prefix \in Row /\ Words(f) \in Row
    BY <1>2, CallParts, WordsType
  <2> QED
    BY <2>1, <2>2, LineIsRow
<1>6. LeftOf(x, y)
  BY <1>2, <1>3, BeneathKeepsLines
<1> HIDE DEF x, y, l
<1>7. LeftOf(l, l)
  BY <1>5, LeftOfItself
<1>8. LeftOf(l \o x, l \o y)
  BY <1>5, <1>6, <1>7, LeftOfConcat
<1> QED
  BY <1>4, <1>8, Zenon DEF call, other

LEMMA FieldsKeepLines == \A f \in Fields : KeepsLines(f)
<1> DEFINE Up(n) == {f \in Fields : Depth[f] < n}
           N == {n \in Nat : \A f \in Up(n) : KeepsLines(f)}
<1>0. \A f \in Fields : Depth[f] \in Nat
  BY FieldsAssumption
<1>1. 0 \in N
  BY <1>0
<1>2. ASSUME NEW n \in Nat, n \in N PROVE n + 1 \in N
  <2> SUFFICES ASSUME NEW f \in Up(n + 1) PROVE KeepsLines(f)
    OBVIOUS
  <2>1. Smaller(f) \subseteq Up(n)
    BY <1>0 DEF Smaller
  <2>2. f \in Fields
    OBVIOUS
  <2>3. \A g \in Up(n) : KeepsLines(g)
    BY <1>2
  <2> HIDE DEF Up, N
  <2> QED
    BY <2>1, <2>2, <2>3, FieldKeepsLines
<1>3. Nat \subseteq N
  <2> HIDE DEF N
  <2> QED
    BY <1>1, <1>2, NaturalsBySteps
<1> SUFFICES ASSUME NEW f \in Fields PROVE KeepsLines(f)
  OBVIOUS
<1>4. Depth[f] + 1 \in Nat /\ Depth[f] < Depth[f] + 1
  BY <1>0
<1>5. f \in Up(Depth[f] + 1) /\ Depth[f] + 1 \in N
  BY <1>3, <1>4
<1> QED
  BY <1>5

(* The condensed text is the full one with lines left out.                 *)
LEMMA PayloadKeepsLines ==
  ASSUME NEW p \in Drawings
  PROVE  Within(HumanReadable(p, TRUE), HumanReadable(p, FALSE))
<1> DEFINE h == Header(p)
           x == FieldRows(p, TRUE)
           y == FieldRows(p, FALSE)
           margin == <<"   ">>
           top == Line(<<"L- ">>, <<"Fields">>)
           a == Listed(p.fields, margin, TRUE, format_field)
           b == Listed(p.fields, margin, FALSE, format_field)
<1>1. h \in Seq(Row)
  BY HeaderType
<1>2. /\ p.fields \in Seq(Fields) /\ margin \in Seq(Piece) /\ top \in Seq(Row) /\ a \in Seq(Row)
      /\ x = IF p.fields = <<>> THEN <<>> ELSE top \o a
      /\ x \in Seq(Row)
  BY TopRows
<1>3. /\ b \in Seq(Row)
      /\ y = IF p.fields = <<>> THEN <<>> ELSE top \o b
      /\ y \in Seq(Row)
  BY TopRows
<1>4. HumanReadable(p, TRUE) = h \o x /\ HumanReadable(p, FALSE) = h \o y
  BY HumanReadableIs
<1> HIDE DEF h, x, y, margin, top
<1>5. LeftOf(a, b)
  <2>1. Fields \in SUBSET Fields
    OBVIOUS
  <2> QED
    BY <1>2, <2>1, FieldsKeepLines, ListedKeepsLines
<1> HIDE DEF a, b
<1>6. LeftOf(x, y)
  <2>1. LeftOf(top, top) /\ LeftOf(<<>>, <<>>)
    BY <1>2, EmptyIsSeq, LeftOfItself
  <2>2. LeftOf(top \o a, top \o b)
    BY <1>2, <1>3, <1>5, <2>1, LeftOfConcat
  <2> QED
    BY <1>2, <1>3, <2>1, <2>2, Zenon
<1>7. LeftOf(h, h)
  BY <1>1, LeftOfItself
<1>8. LeftOf(h \o x, h \o y)
  BY <1>1, <1>2, <1>3, <1>6, <1>7, LeftOfConcat
<1>9. h \o x \in Seq(Row) /\ h \o y \in Seq(Row)
  BY <1>1, <1>2, <1>3, ConcatProperties
<1>10. Within(h \o x, h \o y)
  <2> DEFINE u == h \o x
             w == h \o y
  <2>1. u \in Seq(Row) /\ w \in Seq(Row) /\ LeftOf(u, w)
    BY <1>8, <1>9
  <2> HIDE DEF u, w
  <2>2. Within(u, w)
    BY <2>1, LeftIsWithin
  <2> QED
    BY <2>2 DEF u, w
<1> QED
  BY <1>4, <1>10, Zenon

-----------------------------------------------------------------------------
(* A printed tree can be read back: two payloads whose full trees are the  *)
(* same have the same title, version and fields, in the same views, at     *)
(* every depth (format_field's prefixes and continuations).                *)
THEOREM TreesReadBack == CliSpec => []TreeCanBeReadBack
<1>1. CliInv => TreeCanBeReadBack
  <2> SUFFICES ASSUME CliInv, stdout.as = "human", ~args.condensed_only,
                      NEW p \in Drawings, FullText[p] = stdout.lines
               PROVE  SamePayload(p, stdout.payload)
    BY DEF TreeCanBeReadBack
  <2>1. /\ stdout.payload \in Drawings /\ args.condensed_only = FALSE
        /\ stdout.lines = HumanReadable(stdout.payload, args.condensed_only)
    BY DEF CliInv, ProcessInv
  <2>2. HumanReadable(p, FALSE) = HumanReadable(stdout.payload, FALSE)
    BY <2>1 DEF FullText
  <2> QED
    BY <2>1, <2>2, PayloadTold
<1> QED
  BY <1>1, CliInvariant, PTL

(* --condensed-only leaves lines out of a tree and changes none of those   *)
(* it prints, however deep it is read (what format_field asks it for).     *)
THEOREM CondensedLeavesOut == CliSpec => []CondensedWithinFull
<1>1. CliInv => CondensedWithinFull
  <2> SUFFICES ASSUME CliInv, stdout.as = "human", args.condensed_only
               PROVE  Within(stdout.lines, FullText[stdout.payload])
    BY DEF CondensedWithinFull
  <2>1. /\ stdout.payload \in Drawings /\ args.condensed_only = TRUE
        /\ stdout.lines = HumanReadable(stdout.payload, args.condensed_only)
    BY DEF CliInv, ProcessInv
  <2>2. FullText[stdout.payload] = HumanReadable(stdout.payload, FALSE)
    BY <2>1 DEF FullText
  <2>3. Within(HumanReadable(stdout.payload, TRUE), HumanReadable(stdout.payload, FALSE))
    BY <2>1, PayloadKeepsLines
  <2> QED
    BY <2>1, <2>2, <2>3
<1> QED
  BY <1>1, CliInvariant, PTL
=============================================================================
