-------------------------- MODULE ChainConversion ---------------------------
(***************************************************************************)
(* The conversions a request can ask for, by its chain: the parser app     *)
(* registers one converter for each (parser/app, registry) and hands the   *)
(* transaction to it.  Solana, Sui and Tron are here, Ethereum has a       *)
(* module of its own.                                                      *)
(***************************************************************************)
CONSTANTS
  \* of SolanaConversion
  Messages, Compared, ParserRejects, System, Jupiter, ComputeBudget,
  AssociatedTokenAccount, StakePool, SystemInstruction, ComputeBudgetInstruction,
  StakePoolInstruction, Tokens, Truncated, NoKeyThere, Token, TokenTransfer,
  \* of SuiConversion
  Bare, Programs, Orders, Unconvertible,
  \* of TronConversion
  Raws, Earliest, Latest

VARIABLES
  chain,            \* the chain of the request
  message,          \* the Solana message, if it is of that chain
  program,          \* the Sui transaction, if it is of that chain
  raw,              \* the Tron transaction, if it is of that chain
  visualizers,      \* the order of Sui's visualizers
  decode_transfers, \* VisualSignOptions::decode_transfers
  checks,           \* the build panics when arithmetic overflows
  outcome           \* what the caller gets

vars == <<chain, message, program, raw, visualizers, decode_transfers, checks, outcome>>

Solana == INSTANCE SolanaConversion
Sui == INSTANCE SuiConversion
Tron == INSTANCE TronConversion

(* The programs of the presets have addresses of their own.                *)
ASSUME ProgramsAssumption ==
  /\ Jupiter # System
  /\ ComputeBudget \notin {System, Jupiter}
  /\ AssociatedTokenAccount \notin {System, Jupiter, ComputeBudget}
  /\ StakePool \notin {System, Jupiter, ComputeBudget, AssociatedTokenAccount}

(* What is decoded is of the form borsh, bincode, bcs and protobuf give    *)
(* it, and the build finds each of Sui's presets.                          *)
ASSUME SystemAssumption ==
  \A d \in DOMAIN SystemInstruction : Solana!IsSystemInstruction(SystemInstruction[d])
ASSUME BudgetAssumption ==
  \A d \in DOMAIN ComputeBudgetInstruction :
    Solana!IsComputeBudgetInstruction(ComputeBudgetInstruction[d])
ASSUME MessagesAssumption == \A m \in Messages : Solana!IsMessage(m)
ASSUME ComparedAssumption == Compared \subseteq Messages
ASSUME OrdersAssumption == \A o \in Orders : Sui!IsOrder(o)
ASSUME SuiProgramsAssumption == \A p \in Programs : Sui!IsProgram(p)
ASSUME RawsAssumption == \A r \in Raws : Tron!IsTransaction(r)

NotOfThisChain == [is |-> "absent"]

Init ==
  \/ /\ chain = "Solana"
     /\ Solana!Init
     /\ program = NotOfThisChain
     /\ raw = NotOfThisChain
     /\ visualizers = <<>>
  \/ /\ chain = "Sui"
     /\ Sui!Init
     /\ message = NotOfThisChain
     /\ raw = NotOfThisChain
  \/ /\ chain = "Tron"
     /\ Tron!Init
     /\ message = NotOfThisChain
     /\ program = NotOfThisChain
     /\ visualizers = <<>>
     /\ decode_transfers \in BOOLEAN
     /\ checks \in BOOLEAN

ConvertSolanaLegacy ==
  /\ chain = "Solana"
  /\ Solana!ConvertLegacy
  /\ UNCHANGED <<chain, program, raw, visualizers>>

ConvertSolanaVersioned ==
  /\ chain = "Solana"
  /\ Solana!ConvertVersioned
  /\ UNCHANGED <<chain, program, raw, visualizers>>

ConvertSui ==
  /\ chain = "Sui"
  /\ Sui!Convert
  /\ UNCHANGED <<chain, message, raw>>

(* Neither option is looked at.                                            *)
ConvertTron ==
  /\ chain = "Tron"
  /\ Tron!Convert
  /\ UNCHANGED <<chain, message, program, visualizers, decode_transfers, checks>>

Next == ConvertSolanaLegacy \/ ConvertSolanaVersioned \/ ConvertSui \/ ConvertTron

Spec == Init /\ [][Next]_vars

-----------------------------------------------------------------------------
(* A Solana message the runtime would accept panics no converter, in any   *)
(* build.                                                                  *)
ConsistentNeverPanics == chain = "Solana" => Solana!ConsistentNeverPanics

(* A Solana screen has a row for every instruction, in order and with its  *)
(* program and data, or, for V0, a note in place of all of them, if one    *)
(* could not be decoded.                                                   *)
EveryInstructionShown == chain = "Solana" => Solana!EveryInstructionShown

(* As far as a Solana instruction's accounts are in the message, those     *)
(* named by position are the ones it has there.                            *)
NamedUpToLookup == chain = "Solana" => Solana!NamedUpToLookup

(* The numbers on the rows of a Jupiter swap are the bytes its data ends   *)
(* with, in both views; a fee that is not shown is zero.                   *)
SwapAsEncoded == chain = "Solana" => Solana!SwapAsEncoded

(* Solana messages the runtime would accept that are displayed alike have  *)
(* the same keys and instructions in the same order, as far as the views   *)
(* tell what an instruction does, and the same senders and receivers, if   *)
(* the transfers are asked for.                                            *)
SameScreenSameInstructions == chain = "Solana" => Solana!SameScreenSameInstructions

(* The sort by importance moves no Solana account from its index; each is  *)
(* shown as signer and as writable exactly where the runtime reads the     *)
(* header so, and the summary counts it once.                              *)
AccountsAsTheRuntimeReadsThem == chain = "Solana" => Solana!AccountsAsTheRuntimeReadsThem

(* The order in which the build finds Sui's presets decides nothing.       *)
OrderIndependent == chain = "Sui" => Sui!OrderIndependent

(* Each declared Sui call has its own row, in order, and the pool, market  *)
(* or position it names is one its own call was given.                     *)
CallsShownInOrder == chain = "Sui" => Sui!CallsShownInOrder

(* A Cetus swap counts what is paid in the coin that goes in and what is   *)
(* received in the coin that comes out.                                    *)
SwapUnits == chain = "Sui" => Sui!SwapUnits

(* Each object a Sui program sends has a row, if asked for; the amount in  *)
(* its field, title and summary is that of the coin sent.  Field and title *)
(* are in MIST exactly if it was split off the gas coin; the summary is in *)
(* MIST always, so that it contradicts the field for every other coin.     *)
TransferAmounts == chain = "Sui" => Sui!TransferAmounts

(* The amount shown for a Sui stake or repayment is that of the coin it is *)
(* taken to be of: the coin staked if that is a result, the coin repaid    *)
(* with if that is the first of a split.  For a stake of an input it is    *)
(* what the command with that index splits off, for a repayment with       *)
(* another coin of a split it is the first one's: not their amounts.       *)
StakeAndRepayAmounts == chain = "Sui" => Sui!StakeAndRepayAmounts

(* No well-formed Sui program panics the converter or keeps it going       *)
(* around, unless it takes or repays a flash loan, or stakes without an    *)
(* argument.                                                               *)
WellFormedNeverPanics == chain = "Sui" => Sui!WellFormedNeverPanics

(* Tron transactions with one screen make the same transfers in the same   *)
(* order, between the same other contracts.                                *)
SameScreenSameTransfers == chain = "Tron" => Tron!SameScreenSameTransfers
=============================================================================
