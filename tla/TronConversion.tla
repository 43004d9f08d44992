--------------------------- MODULE TronConversion ---------------------------
(***************************************************************************)
(* How a Tron transaction becomes a screen (visualsign-tron): six rows for *)
(* the transaction, then four for each transfer of TRX and one for every   *)
(* contract of another type.  Protobuf is external: what it makes of the   *)
(* bytes of a contract's parameter comes with the parameter.               *)
(***************************************************************************)
EXTENDS Integers, Sequences, SequencesExt

CONSTANTS
  Raws,     \* the transactions considered
  Earliest, \* the first millisecond chrono has a date for
  Latest    \* the last one

VARIABLES
  raw,     \* transaction::Raw, as protobuf decoded it
  outcome  \* what the caller gets

vars == <<raw, outcome>>

Pending == [is |-> "pending"]
Panic == [is |-> "panic"]
Rows(rows) == [is |-> "rows", rows |-> rows]

(* A row; _ stands for a blank in its label and in its text.               *)
Row(label, text) == [label |-> label, text |-> text]

NoParameter == [is |-> "none"]
NoTransfer == [is |-> "undecodable"]
TransferUrl == "type.googleapis.com/protocol.TransferContract"

(* What protobuf makes of a transaction: a sequence of contracts, each with *)
(* a parameter or none; only a transfer's bytes are decoded.               *)
IsContract(contract) ==
  LET p == contract.parameter
      t == p.decoded
  IN  \/ p = NoParameter
      \/ p.is = "some" /\ t = NoTransfer
      \/ /\ p.is = "some" /\ p.type_url = TransferUrl
         /\ t = [is |-> "transfer", owner_address |-> t.owner_address,
                 to_address |-> t.to_address, amount |-> t.amount]

IsTransaction(r) ==
  /\ r.contract \in Seq(Range(r.contract))
  /\ \A k \in DOMAIN r.contract : IsContract(r.contract[k])

-----------------------------------------------------------------------------
(* chrono's date of a millisecond, to the second.                          *)
HasDate(ms) == ms \in Earliest..Latest
format_timestamp(ms) == ms \div 1000

(* A mutant of Moment: the milliseconds are not written behind the date.   *)
MomentToTheSecond(ms) == <<"UTC", format_timestamp(ms)>>
Moment(ms) == <<"UTC", format_timestamp(ms), ms>>

(* The TRX are the SUN over a million, as a float: the SUN are exact.      *)
Sun(n) == <<"SUN", n>>

(* Base58 of the bytes and four of their checksum.                         *)
address_to_base58(bytes) == <<"base58", bytes, "checksum">>

hex_encode(bytes) == <<"hex", bytes>>

TransferRows(transfer) ==
  <<Row("Contract_Type", <<"TransferContract_(TRX_Transfer)">>),
    Row("From", address_to_base58(transfer.owner_address)),
    Row("To", address_to_base58(transfer.to_address)),
    Row("Amount", Sun(transfer.amount))>>

(* A transfer protobuf does not decode, and a contract without parameter,  *)
(* leave no trace.                                                         *)
ContractRows(contract) ==
  IF contract.parameter = NoParameter THEN <<>>
  ELSE IF contract.parameter.type_url = TransferUrl
       THEN IF contract.parameter.decoded = NoTransfer THEN <<>>
            ELSE TransferRows(contract.parameter.decoded)
       ELSE <<Row("Contract_Type", <<contract.parameter.type_url, "not_fully_decoded">>)>>

TransactionRows(r) ==
  <<Row("Network", <<"Tron">>),
    Row("Timestamp", Moment(r.timestamp)),
    Row("Expiration", Moment(r.expiration)),
    Row("Fee_Limit", Sun(r.fee_limit)),
    Row("Ref_Block", hex_encode(r.ref_block_bytes)),
    Row("Ref_Block_Hash", hex_encode(r.ref_block_hash))>>

convert_to_visual_sign_payload(r) ==
  IF HasDate(r.timestamp) /\ HasDate(r.expiration)
  THEN Rows(TransactionRows(r)
              \o FlattenSeq([k \in DOMAIN r.contract |-> ContractRows(r.contract[k])]))
  ELSE Panic

-----------------------------------------------------------------------------
Init ==
  /\ raw \in Raws
  /\ outcome = Pending

Convert ==
  /\ outcome = Pending
  /\ outcome' = convert_to_visual_sign_payload(raw)
  /\ UNCHANGED raw

Spec == Init /\ [][Convert]_vars

-----------------------------------------------------------------------------
(* What of a contract a reader can tell: nothing of one that leaves no     *)
(* trace, the type of one that is not decoded, all of a transfer but the   *)
(* contract's own type and permission.                                     *)
Readable(contract) ==
  IF contract.parameter = NoParameter THEN <<>>
  ELSE IF contract.parameter.decoded # NoTransfer
       THEN << <<"transfer", contract.parameter.decoded>> >>
       ELSE IF contract.parameter.type_url = TransferUrl THEN <<>>
            ELSE << <<"other", contract.parameter.type_url>> >>

Contracts(r) == FlattenSeq([k \in DOMAIN r.contract |-> Readable(r.contract[k])])

(* Two transactions with one screen move the same amounts between the same *)
(* addresses in the same order, name the same other contracts between      *)
(* them, and have the same block, times and fee limit: the rows of one     *)
(* contract never pass for those of another, or of several.                *)
SameScreenSameTransfers ==
  outcome.is = "rows" =>
    \A other \in Raws :
      convert_to_visual_sign_payload(other) = outcome =>
        /\ Contracts(other) = Contracts(raw)
        /\ \A f \in {"timestamp", "expiration", "fee_limit", "ref_block_bytes",
                     "ref_block_hash"} : other[f] = raw[f]
=============================================================================
