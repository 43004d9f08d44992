-------------------------- MODULE SolanaConversion --------------------------
(***************************************************************************)
(* How a Solana transaction becomes a screen (visualsign-solana, core): a  *)
(* row for each instruction, made by the first visualizer that handles its *)
(* program, the transfers solana-parser finds, and the accounts with their *)
(* rights, which are read off the header's three counters.  Messages come  *)
(* from bincode and have passed no check: an index may point nowhere and   *)
(* the counters need not fit the keys.  Only the keys in the message are   *)
(* known, not those its address lookup tables stand for.                   *)
(***************************************************************************)
EXTENDS SolanaPresets, SequencesExt, Filters

CONSTANTS
  Messages,     \* the messages considered
  Compared,     \* those of them whose screens are compared with each other
  ParserRejects,\* the messages solana-parser does not parse
  Token,        \* the token program
  TokenTransfer \* the data of its transfers, and the amounts

VARIABLES
  message,          \* the message of the transaction
  decode_transfers, \* VisualSignOptions::decode_transfers
  checks,           \* the build panics when arithmetic overflows
  outcome           \* what the caller gets

vars == <<message, decode_transfers, checks, outcome>>

Pending == [is |-> "pending"]
Error == [is |-> "error"]
Panic == [is |-> "panic"]
Rows(rows) == [is |-> "rows", rows |-> rows]

(* What bincode makes of bytes: nothing but their types.                   *)
IsInstruction(ci) ==
  /\ ci.program \in Nat
  /\ ci.accounts \in Seq(Nat)
  /\ ci.data \in Seq(0..255)
  /\ ci = [program |-> ci.program, accounts |-> ci.accounts, data |-> ci.data]

IsMessage(m) ==
  /\ m.version \in {"legacy", "v0"}
  /\ m.account_keys \in Seq(Range(m.account_keys))
  /\ {m.required_signatures, m.readonly_signed, m.readonly_unsigned} \subseteq Nat
  /\ m.instructions \in Seq(Range(m.instructions))
  /\ \A k \in DOMAIN m.instructions : IsInstruction(m.instructions[k])
  /\ m.version = "legacy" => m.address_table_lookups = <<>>

IndexSet(m) == 0..(Len(m.account_keys) - 1)
Key(m, i) == m.account_keys[i + 1]
InMessage(m, i) == i < Len(m.account_keys)

Map(f(_), s) == [k \in DOMAIN s |-> f(s[k])]

-----------------------------------------------------------------------------
(* A row for each instruction: the preview its visualizer makes of it, and *)
(* its program and data as the fallback text.                              *)
Field(n, instruction) ==
  [label |-> "Instruction", number |-> n,
   program |-> instruction.program, data |-> instruction.data,
   preview |-> VisualizeInstruction(instruction)]

(* The first that is turned down is the error returned.                    *)
Visualize(instructions) ==
  IF \E k \in DOMAIN instructions : VisualizeInstruction(instructions[k]) = Rejected
  THEN Error
  ELSE Rows([k \in DOMAIN instructions |-> Field(k, instructions[k])])

(* A compiled instruction with its keys in place of indexes.               *)
Resolved(m, ci) ==
  [program |-> Key(m, ci.program),
   accounts |-> Map(LAMBDA i : Key(m, i), ci.accounts),
   data |-> ci.data]

AllInMessage(m) ==
  \A k \in DOMAIN m.instructions :
    /\ InMessage(m, m.instructions[k].program)
    /\ \A j \in DOMAIN m.instructions[k].accounts :
         InMessage(m, m.instructions[k].accounts[j])

(* The same with the accounts in the message only.                         *)
Known(m, ci) ==
  Resolved(m, [ci EXCEPT !.accounts = Filter(ci.accounts, IndexSet(m))])

(* An index out of range panics.                                           *)
decode_instructions(m) ==
  IF AllInMessage(m)
  THEN Visualize(Map(LAMBDA ci : Resolved(m, ci), m.instructions))
  ELSE Panic

StaticPrograms(m) == {ci \in Range(m.instructions) : InMessage(m, ci.program)}

(* A mutant of decode_v0_instructions: instructions with an account from a *)
(* lookup table are left out as well.                                      *)
DecodeV0StaticOnly(m) ==
  IF m.account_keys = <<>> THEN Error
  ELSE Visualize(Map(LAMBDA ci : Resolved(m, ci),
         Filter(m.instructions, {ci \in StaticPrograms(m) : Range(ci.accounts) \subseteq IndexSet(m)})))

(* What comes from a lookup table is left out: such an account of an       *)
(* instruction, and an instruction of such a program.                      *)
decode_v0_instructions(m) ==
  IF m.account_keys = <<>> THEN Error
  ELSE Visualize(Map(LAMBDA ci : Known(m, ci), Filter(m.instructions, StaticPrograms(m))))

-----------------------------------------------------------------------------
(* Accounts.  The counters are bytes, the arithmetic on them is usize's:   *)
(* a difference below zero panics or wraps to a number above every index.  *)

(* A mutant of Underflows: the last writable index is computed instead of  *)
(* the number of writable accounts.                                        *)
UnderflowsAtZero(m) ==
  \E i \in IndexSet(m) :
    IF i < m.required_signatures
    THEN m.readonly_signed >= m.required_signatures
    ELSE m.readonly_unsigned >= Len(m.account_keys) - m.required_signatures

Underflows(m) ==
  \E i \in IndexSet(m) :
    IF i < m.required_signatures
    THEN m.readonly_signed > m.required_signatures
    ELSE m.readonly_unsigned > Len(m.account_keys) - m.required_signatures

IsSigner(m, i) == i < m.required_signatures

(* A mutant of IsWritable: the readonly accounts come first in each range. *)
IsWritableSwapped(m, i) ==
  IF IsSigner(m, i) THEN i >= m.readonly_signed
  ELSE i - m.required_signatures >= m.readonly_unsigned

IsWritable(m, i) ==
  LET others == Len(m.account_keys) - m.required_signatures
  IN  IF IsSigner(m, i)
      THEN \/ m.readonly_signed > m.required_signatures
           \/ i < m.required_signatures - m.readonly_signed
      ELSE \/ m.readonly_unsigned > others
           \/ i - m.required_signatures < others - m.readonly_unsigned

Category(m, i) == (IF IsSigner(m, i) THEN 0 ELSE 2) + (IF IsWritable(m, i) THEN 0 ELSE 1)

(* Ordered by category, and by index within each.                          *)
Sorted(m) ==
  LET ofCategory(c) ==
        Filter([k \in DOMAIN m.account_keys |-> k - 1],
               {i \in IndexSet(m) : Category(m, i) = c})
  IN  ofCategory(0) \o ofCategory(1) \o ofCategory(2) \o ofCategory(3)

Infos(m) ==
  Map(LAMBDA i : [index |-> i, address |-> Key(m, i), signer |-> IsSigner(m, i),
                  writable |-> IsWritable(m, i)], Sorted(m))

(* The condensed view of the accounts counts each once; a count of zero    *)
(* has no row.                                                             *)
Summary(infos) ==
  LET count(S) == Len(Filter(infos, S))
  IN  [Signers |-> count({a \in Range(infos) : a.signer}),
       Writable |-> count({a \in Range(infos) : ~a.signer /\ a.writable}),
       ReadOnly |-> count({a \in Range(infos) : ~a.signer /\ ~a.writable})]

create_accounts_advanced_preview_layout(infos) ==
  [label |-> "Accounts", accounts |-> infos, subtitle |-> Len(infos), summary |-> Summary(infos)]

decode_accounts(m) ==
  IF checks /\ Underflows(m) THEN Panic
  ELSE Rows(<<create_accounts_advanced_preview_layout(Infos(m))>>)

-----------------------------------------------------------------------------
(* Transfers.  What solana-parser finds: the transfers of lamports and of  *)
(* tokens among the instructions, with the accounts they are between.      *)
TransfersAmong(m, program, amounts) ==
  LET found == Filter(m.instructions, {ci \in StaticPrograms(m) :
        /\ Key(m, ci.program) = program
        /\ ci.data \in DOMAIN amounts
        /\ Len(ci.accounts) >= 2})
      party(i) == IF InMessage(m, i) THEN Key(m, i) ELSE "in_a_lookup_table"
  IN  Map(LAMBDA ci : [from |-> party(ci.accounts[1]), to |-> party(ci.accounts[2]),
                       amount |-> amounts[ci.data]], found)

Lamports ==
  [d \in {d \in DOMAIN SystemInstruction : SystemInstruction[d].name = "Transfer"} |->
     SystemInstruction[d].lamports]

Numbered(label, transfers) ==
  [k \in DOMAIN transfers |->
     [label |-> label, number |-> k, from |-> transfers[k].from, to |-> transfers[k].to,
      amount |-> transfers[k].amount]]

(* decode_transfers, and decode_v0_transfers, which has a label of its own.*)
decode_transfers_of(m, spl) ==
  IF m \in ParserRejects THEN Error
  ELSE Rows(Numbered("Transfer", TransfersAmong(m, System, Lamports))
              \o Numbered(spl, TransfersAmong(m, Token, TokenTransfer)))

Note(label) == Rows(<<[label |-> label]>>)
Nothing == Rows(<<>>)

(* The parts of a screen in the order they are made: the first that is no  *)
(* rows is the outcome.                                                    *)
Screen(parts) ==
  IF \A k \in DOMAIN parts : parts[k].is = "rows"
  THEN Rows(parts[1].rows \o parts[2].rows \o parts[3].rows \o parts[4].rows)
  ELSE parts[CHOOSE k \in DOMAIN parts :
               /\ parts[k].is # "rows"
               /\ \A j \in 1..(k - 1) : parts[j].is = "rows"]

convert_to_visual_sign_payload(m) ==
  Screen(<<Rows(<<[label |-> "Solana"]>>),
           IF decode_transfers THEN decode_transfers_of(m, "SPL_Transfer") ELSE Nothing,
           decode_instructions(m),
           decode_accounts(m)>>)

create_address_lookup_table_field(m) ==
  IF m.address_table_lookups = <<>> THEN <<>>
  ELSE <<[label |-> "Address_Lookup_Tables", tables |-> m.address_table_lookups]>>

OrNote(part, label) == IF part = Error THEN Note(label) ELSE part

(* The accounts come last, though they are decoded first.                  *)
convert_v0_to_visual_sign_payload(m) ==
  Screen(<<Rows(<<[label |-> "Solana_(V0)"]>> \o create_address_lookup_table_field(m)),
           OrNote(decode_v0_instructions(m), "Instruction_Decoding_Note"),
           IF decode_transfers
           THEN OrNote(decode_transfers_of(m, "V0_SPL_Transfer"), "Transfer_Decoding_Note")
           ELSE Nothing,
           decode_accounts(m)>>)

(* A legacy message in a versioned transaction is converted as in its own. *)
convert_versioned_to_visual_sign_payload(m) ==
  IF m.version = "v0" THEN convert_v0_to_visual_sign_payload(m)
  ELSE convert_to_visual_sign_payload(m)

-----------------------------------------------------------------------------
Init ==
  /\ message \in Messages
  /\ decode_transfers \in BOOLEAN
  /\ checks \in BOOLEAN
  /\ outcome = Pending

ConvertLegacy ==
  /\ outcome = Pending
  /\ message.version = "legacy"
  /\ outcome' = convert_to_visual_sign_payload(message)
  /\ UNCHANGED <<message, decode_transfers, checks>>

ConvertVersioned ==
  /\ outcome = Pending
  /\ outcome' = convert_versioned_to_visual_sign_payload(message)
  /\ UNCHANGED <<message, decode_transfers, checks>>

Next == ConvertLegacy \/ ConvertVersioned

Spec == Init /\ [][Next]_vars

-----------------------------------------------------------------------------
Labelled(label) ==
  IF outcome.is = "rows"
  THEN Filter(outcome.rows, {r \in Range(outcome.rows) : r.label = label})
  ELSE <<>>
Instructions == Labelled("Instruction")
Accounts == Labelled("Accounts")

(* The header fits the keys, and every index is of a key the message has   *)
(* or a lookup table stands for.                                           *)
LookedUp(m) ==
  UNION {{<<t, rights, j>> : j \in DOMAIN m.address_table_lookups[t][rights]} :
           t \in DOMAIN m.address_table_lookups, rights \in {"writable", "readonly"}}

Consistent(m) ==
  /\ m.required_signatures <= Len(m.account_keys)
  /\ m.readonly_signed <= m.required_signatures
  /\ m.readonly_unsigned <= Len(m.account_keys) - m.required_signatures
  /\ \A k \in DOMAIN m.instructions :
       LET ci == m.instructions[k]
       IN  /\ InMessage(m, ci.program)
           /\ \A j \in DOMAIN ci.accounts :
                ci.accounts[j] < Len(m.account_keys) + Cardinality(LookedUp(m))

(* A message the runtime would accept panics no converter, in any build.   *)
ConsistentNeverPanics == Consistent(message) => outcome # Panic

(* The screen has a row for every instruction, in their order, with the    *)
(* program and the data of that instruction; or, for a V0 message, a note  *)
(* in place of all of them, and only if one could not be decoded.          *)
EveryInstructionShown ==
  outcome.is = "rows" /\ Consistent(message) =>
    \/ /\ Len(Instructions) = Len(message.instructions)
       /\ \A k \in DOMAIN Instructions :
            /\ Instructions[k].number = k
            /\ Instructions[k].program = Key(message, message.instructions[k].program)
            /\ Instructions[k].data = message.instructions[k].data
    \/ /\ message.version = "v0"
       /\ Len(Labelled("Instruction_Decoding_Note")) = 1
       /\ Instructions = <<>>
       /\ \/ message.account_keys = <<>>
          \/ \E k \in DOMAIN message.instructions :
               VisualizeInstruction(Known(message, message.instructions[k])) = Rejected

(* The rows that name an account of the instruction, its position there,   *)
(* and how the account is named.                                           *)
Positions == [Payer |-> 0, New_Account |-> 1, Input_Token |-> 0, Output_Token_Address |-> 5]
Naming(label, key) == IF label = "Input_Token" THEN get_token_info(key).symbol ELSE key

NamingRows(row) == {r \in ToSet(row.preview.expanded) : r[1] \in DOMAIN Positions}

(* As far as an instruction's accounts are in the message, those named by  *)
(* position are the ones it has there.                                     *)
NamedUpToLookup ==
  outcome.is = "rows" /\ Consistent(message) =>
    \A k \in DOMAIN Instructions : \A r \in NamingRows(Instructions[k]) :
      LET accounts == message.instructions[k].accounts
          p == Positions[r[1]]
      IN  p < Len(accounts) /\ (\A j \in 1..(p + 1) : InMessage(message, accounts[j]))
            => r[2] = Naming(r[1], Key(message, accounts[p + 1]))

(* "This works for all V0 transactions, including those with lookup        *)
(* tables" (decode_v0_instructions): an account is named for the position  *)
(* it has in the instruction, or not at all.                               *)
NamedInPlace ==
  outcome.is = "rows" /\ Consistent(message) =>
    \A k \in DOMAIN Instructions : \A r \in NamingRows(Instructions[k]) :
      LET accounts == message.instructions[k].accounts
          p == Positions[r[1]]
      IN  r[2] # NoKeyThere =>
            /\ p < Len(accounts)
            /\ InMessage(message, accounts[p + 1])
            /\ r[2] = Naming(r[1], Key(message, accounts[p + 1]))

(* What the rows of a swap say of its numbers, put together again.         *)
Says(row, label) == \E r \in ToSet(row.preview.expanded) : r[1] = label
Said(row, label) == (CHOOSE r \in ToSet(row.preview.expanded) : r[1] = label)[2]

(* The two amounts, the slippage and the fee on the rows of a Jupiter swap *)
(* are, in this order, the 19 bytes its data ends with, and the condensed  *)
(* view has the same numbers; a fee that is not shown is zero.             *)
SwapAsEncoded ==
  \A k \in DOMAIN Instructions :
    LET row == Instructions[k]
        n == Len(row.data)
        fee == IF Says(row, "Platform_Fee") THEN Said(row, "Platform_Fee") ELSE 0
        text == row.preview.title
    IN  Says(row, "Input_Token") /\ Says(row, "Output_Token") =>
          /\ SubSeq(row.data, n - 18, n) =
               Said(row, "Input_Amount") \o Said(row, "Quoted_Output_Amount")
                 \o Said(row, "Slippage") \o <<fee>>
          /\ text[2] = Said(row, "Input_Amount") /\ text[3] = Said(row, "Input_Token")
          /\ text[4] = Said(row, "Quoted_Output_Amount") /\ text[5] = Said(row, "Output_Token")

(* What an instruction does, as far as its views tell: a stake pool        *)
(* instruction without its arguments, a token account without the bytes    *)
(* behind the first, no accounts but those that are named.                 *)
Doing(i) ==
  CASE i.program = System ->
         <<i.program, SystemInstruction[i.data],
           IF SystemInstruction[i.data].name = "CreateAccount"
           THEN <<AccountAt(i, 0), AccountAt(i, 1)>> ELSE <<>> >>
    [] i.program = Jupiter ->
         <<i.program, i.data,
           IF Routes(i.data) = {} THEN <<>>
           ELSE <<SymbolOf(TokenAt(i, 0)), AccountAt(i, 5)>> >>
    [] i.program = AssociatedTokenAccount -> <<i.program, i.data[1]>>
    [] i.program = StakePool -> <<i.program, StakePoolInstruction[i.data].name>>
    [] OTHER -> <<i.program, i.data>>

Doings(m) == [k \in DOMAIN m.instructions |-> Doing(Known(m, m.instructions[k]))]

(* What the transfers among the instructions move.                         *)
Moves(m) == <<TransfersAmong(m, System, Lamports), TransfersAmong(m, Token, TokenTransfer)>>

(* The rows as they are displayed: without the fallback texts.             *)
Displayed(o) ==
  [k \in DOMAIN o.rows |->
     LET row == o.rows[k]
     IN  IF row.label = "Instruction"
         THEN [label |-> row.label, number |-> row.number, preview |-> row.preview] ELSE row]

(* Two messages the runtime would accept, displayed alike, without any     *)
(* fallback text, have the same keys, programs and instructions in the     *)
(* same order, as far as the views tell what an instruction does; unless a *)
(* note stands in for them.  With the transfers, they also have the same   *)
(* senders and receivers.                                                  *)
SameScreenSameInstructions ==
  outcome.is = "rows" /\ message \in Compared /\ Consistent(message) =>
    \A other \in Compared :
      LET o == convert_versioned_to_visual_sign_payload(other)
      IN  Consistent(other) /\ o.is = "rows" /\ Displayed(o) = Displayed(outcome) =>
            /\ other.account_keys = message.account_keys
            /\ Labelled("Instruction_Decoding_Note") = <<>> => Doings(other) = Doings(message)
            /\ decode_transfers /\ Labelled("Transfer_Decoding_Note") = <<>> =>
                 Moves(other) = Moves(message)

(* Whatever the header says, and whether or not its counters wrap, the     *)
(* sort by importance leaves every account at its index in the message.    *)
(* If the header fits, an account is shown writable exactly where the      *)
(* runtime lets it be written: all but the last readonly_signed signers    *)
(* and the last readonly_unsigned keys; and the summary has every account  *)
(* in one of its counts.                                                   *)
AccountsAsTheRuntimeReadsThem ==
  outcome.is = "rows" =>
    LET shown == Accounts[1].accounts
        counts == Accounts[1].summary
    IN  /\ Len(shown) = Len(message.account_keys)
        /\ \A k \in DOMAIN shown :
             shown[k].index = k - 1 /\ shown[k].address = Key(message, k - 1)
        /\ Consistent(message) =>
             /\ counts.Signers = message.required_signatures
             /\ counts.ReadOnly = message.readonly_unsigned
             /\ counts.Signers + counts.Writable + counts.ReadOnly = Accounts[1].subtitle
             /\ \A a \in ToSet(shown) :
                  /\ a.signer = (a.index < message.required_signatures)
                  /\ a.writable =
                       \/ a.index < message.required_signatures - message.readonly_signed
                       \/ /\ a.index >= message.required_signatures
                          /\ a.index < Len(message.account_keys) - message.readonly_unsigned
=============================================================================
