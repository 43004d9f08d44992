----------------------------- MODULE CommandLine ------------------------------
(***************************************************************************)
(* parser_cli: the process that takes a chain's name, a transaction and an *)
(* output format, creates the registry the enclave uses, asks it for a     *)
(* payload and prints that: as JSON, as a debugging text, or as a tree of  *)
(* rows drawn with box characters for a person to read.                    *)
(*                                                                         *)
(* The registry is ConverterRegistry's; its payloads are abstract, so the  *)
(* fields of the one that is printed are any of Drawings.  A line of the   *)
(* tree is a sequence of pieces three columns wide, the branch and what    *)
(* continues the branches above it, and then its words, kept apart: what a *)
(* colon or a line break within a label or a value does is left out.       *)
(***************************************************************************)
EXTENDS ConverterRegistry, Naturals, SequencesExt

CONSTANTS
  Names,         \* chain names a user may give
  Outputs,       \* output formats a user may give
  Fields,        \* the fields that occur in payloads, nested ones too
  Depth,         \* how deep views are nested in each of them
  Drawings,      \* what payloads hold: title, version and fields
  Absent         \* the None of an Option

(* A field owns the fields of its views, so no field is within itself: the *)
(* fields of a view have fewer views nested in them than its owner.        *)
ASSUME FieldsAssumption ==
  /\ Depth \in [Fields -> Nat]
  /\ \A f \in Fields : f.type = "PreviewLayout" =>
       \A fields \in {f.condensed, f.expanded} \ {Absent} :
         fields \in Seq({g \in Fields : Depth[g] < Depth[f]})
  /\ \A p \in Drawings : p.fields \in Seq(Fields)

VARIABLES
  process,  \* how far Cli::execute has come; "none": another program uses
            \* the registry
  args,     \* the command line
  stdout,   \* what was printed, and how
  hint      \* stderr has the line about --condensed-only

cli == <<process, args, stdout, hint>>

NoArgs == [chain |-> Absent]
NoOutput == [as |-> "nothing"]

-----------------------------------------------------------------------------
chain_string_mapping ==
  [solana |-> "Solana", ethereum |-> "Ethereum", bitcoin |-> "Bitcoin",
   sui |-> "Sui", aptos |-> "Aptos", polkadot |-> "Polkadot"]

parse_chain(name) ==
  IF name \in DOMAIN chain_string_mapping THEN chain_string_mapping[name]
  ELSE "Unspecified"

-----------------------------------------------------------------------------
common_label(field) ==
  IF field.type \in {"TextV2", "PreviewLayout", "AmountV2", "AddressV2"}
  THEN field.label ELSE "Unknown"

(* The words of a field's own line.                                        *)
Words(field) ==
  CASE field.type \in {"TextV2", "AddressV2"} -> <<field.label, field.value>>
    [] field.type = "AmountV2" ->
         <<field.label, field.value,
           IF field.abbreviation = Absent THEN "" ELSE field.abbreviation>>
    [] field.type = "PreviewLayout" -> <<field.label>>
    [] OTHER -> <<"Field", common_label(field)>>

Line(pieces, words) == <<pieces \o words>>

(* One line for an Option, none for Absent.                                 *)
Detail(continuation, name, value) ==
  IF value = Absent THEN <<>> ELSE Line(continuation \o <<"   ">>, <<name, value>>)

(* The boxes in front of a line's words.                                   *)
Piece == {"   ", "|  ", "|- ", "L- "}

(* What format_field is called with, a call for every nested field.        *)
Calls == [field: Fields, prefix: Seq(Piece), continuation: Seq(Piece),
          condensed_only: BOOLEAN]

(* Mistake: a nested field continues its parent's branches, not its own.   *)
ListedWithoutBranches(fields, margin, condensed_only, draw) ==
  FlattenSeq([i \in DOMAIN fields |->
    draw[[field |-> fields[i],
          prefix |-> margin \o <<IF i = Len(fields) THEN "L- " ELSE "|- ">>,
          continuation |-> Front(margin),
          condensed_only |-> condensed_only]]])

(* Fields below one another, the last at the end of the branch.            *)
Listed(fields, margin, condensed_only, draw) ==
  FlattenSeq([i \in DOMAIN fields |->
    draw[[field |-> fields[i],
          prefix |-> margin \o <<IF i = Len(fields) THEN "L- " ELSE "|- ">>,
          continuation |-> margin \o <<IF i = Len(fields) THEN "   " ELSE "|  ">>,
          condensed_only |-> condensed_only]]])

View(name, fields, call, draw) ==
  IF fields \in {Absent, <<>>} THEN <<>>
  ELSE Line(call.continuation \o <<"   ">>, <<name>>)
         \o Listed(fields, call.continuation \o <<"   ">>, call.condensed_only, draw)

(* Mistake: where there is no condensed view the expanded one stands in.   *)
FormatSomeView(call, draw) ==
  LET field == call.field
  IN  Line(call.prefix, Words(field)) \o
        IF field.type # "PreviewLayout" THEN <<>>
        ELSE Detail(call.continuation, "Title", field.title)
               \o Detail(call.continuation, "Detail", field.subtitle)
               \o View("Condensed View",
                       IF call.condensed_only /\ field.condensed = Absent
                       THEN field.expanded ELSE field.condensed, call, draw)
               \o (IF call.condensed_only THEN <<>>
                   ELSE View("Expanded View", field.expanded, call, draw))

(* The lines of one call, draw giving those of the calls it makes.         *)
Formatted(call, draw) ==
  LET field == call.field
  IN  Line(call.prefix, Words(field)) \o
        IF field.type # "PreviewLayout" THEN <<>>
        ELSE Detail(call.continuation, "Title", field.title)
               \o Detail(call.continuation, "Detail", field.subtitle)
               \o View("Condensed View", field.condensed, call, draw)
               \o (IF call.condensed_only THEN <<>>
                   ELSE View("Expanded View", field.expanded, call, draw))

format_field[call \in Calls] == Formatted(call, format_field)

(* HumanReadableFormatter::fmt.                                            *)
HumanReadable(payload, condensed_only) ==
  Line(<<".- ">>, <<"Transaction", payload.title>>)
    \o (IF payload.subtitle = Absent THEN <<>>
        ELSE Line(<<"|  ">>, <<"Subtitle", payload.subtitle>>))
    \o Line(<<"|  ">>, <<"Version", payload.version>>)
    \o (IF payload.payload_type = "" THEN <<>>
        ELSE Line(<<"|  ">>, <<"Type", payload.payload_type>>))
    \o Line(<<"|">>, <<>>)
    \o (IF payload.fields = <<>> THEN <<>>
        ELSE Line(<<"L- ">>, <<"Fields">>) \o
           Listed(payload.fields, <<"   ">>, condensed_only, format_field))

-----------------------------------------------------------------------------
CliInit ==
  /\ Init
  /\ process = "none" /\ args = NoArgs /\ stdout = NoOutput /\ hint = FALSE

(* The registry in another program: any use of it.                         *)
Library == process = "none" /\ Next /\ UNCHANGED cli

(* Args::parse: clap ends the process when OutputFormat::from_str fails.   *)
ParseArgs ==
  /\ process = "none" /\ converters = <<>> /\ asked = Nothing /\ outcome = None
  /\ args' \in [chain: Names, transaction: Texts, output: Outputs,
                 condensed_only: BOOLEAN]
  /\ process' = IF args'.output \in {"text", "json", "human"} THEN "create" ELSE "usage"
  /\ UNCHANGED <<vars, stdout, hint>>

create_registry ==
  /\ process = "create"
  /\ converters' = [c \in Converters |-> c]
  /\ process' = "convert"
  /\ UNCHANGED <<asked, untried, outcome, args, stdout, hint>>

ConvertArgs ==
  /\ process = "convert"
  /\ convert_transaction(parse_chain(args.chain), args.transaction)
  /\ process' = "display"
  /\ UNCHANGED <<args, stdout, hint>>

DisplayError ==
  /\ process = "display" /\ outcome.result.is = "error"
  /\ process' = "done"
  /\ UNCHANGED <<vars, args, stdout, hint>>

(* {payload:#?} and to_string_pretty: the payload as it is.                *)
DisplayStructured ==
  /\ process = "display" /\ outcome.result.is = "payload"
  /\ args.output \in {"json", "text"}
  /\ stdout' = [as |-> args.output, payload |-> outcome.result.payload]
  /\ process' = "done"
  /\ UNCHANGED <<vars, args, hint>>

DisplayHuman(payload) ==
  /\ process = "display" /\ outcome.result.is = "payload"
  /\ args.output = "human"
  /\ stdout' = [as |-> "human", payload |-> payload,
                lines |-> HumanReadable(payload, args.condensed_only)]
  /\ hint' = ~args.condensed_only
  /\ process' = "done"
  /\ UNCHANGED <<vars, args>>

CliNext ==
  \/ Library
  \/ ParseArgs
  \/ create_registry
  \/ ConvertArgs
  \/ DisplayError
  \/ DisplayStructured
  \/ \E payload \in Drawings : DisplayHuman(payload)

CliSpec == CliInit /\ [][CliNext]_<<vars, cli>>

-----------------------------------------------------------------------------
(* The fields of a view, none if there is no view: both are drawn alike.   *)
Shown(fields) == IF fields = Absent THEN <<>> ELSE fields

(* Fields, and whole lists of them, of which a person learns the same.     *)
SameEach(fields, others, same) ==
  /\ Len(fields) = Len(others)
  /\ \A i \in DOMAIN fields : same[<<fields[i], others[i]>>]

SameShown(f, g, same) ==
  /\ Words(f) = Words(g)
  /\ f.type = "PreviewLayout" <=> g.type = "PreviewLayout"
  /\ f.type = "PreviewLayout" =>
       /\ f.title = g.title
       /\ f.subtitle = g.subtitle
       /\ SameEach(Shown(f.condensed), Shown(g.condensed), same)
       /\ SameEach(Shown(f.expanded), Shown(g.expanded), same)

SameField[pair \in Fields \X Fields] == SameShown(pair[1], pair[2], SameField)

SamePayload(p, q) ==
  /\ p.title = q.title
  /\ p.subtitle = q.subtitle
  /\ p.version = q.version
  /\ p.payload_type = q.payload_type
  /\ SameEach(p.fields, q.fields, SameField)

FullText == [p \in Drawings |-> HumanReadable(p, FALSE)]

(* Whether lines are among those of a text, in their order: found[k] of    *)
(* them are met in its first k lines.                                      *)
Within(lines, text) ==
  LET found[k \in 0..Len(text)] ==
        IF k = 0 THEN 0
        ELSE LET n == found[k - 1]
             IN  IF n < Len(lines) /\ lines[n + 1] = text[k] THEN n + 1 ELSE n
  IN  found[Len(text)] = Len(lines)

(* The full tree format_field draws can be read back, line by line: two    *)
(* payloads drawn alike have the same fields, at the same depth, in the    *)
(* same view of the same preview.                                          *)
TreeCanBeReadBack ==
  stdout.as = "human" /\ ~args.condensed_only =>
    \A p \in Drawings : FullText[p] = stdout.lines => SamePayload(p, stdout.payload)

(* --condensed-only leaves rows out and changes none: the lines it prints  *)
(* are lines of the full tree, branches included, in their order.          *)
CondensedWithinFull ==
  stdout.as = "human" /\ args.condensed_only =>
    Within(stdout.lines, FullText[stdout.payload])
=============================================================================
