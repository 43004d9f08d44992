----------------------- MODULE ChainConversionProofs ------------------------
(***************************************************************************)
(* Proofs about ChainConversion, for any transactions.                     *)
(***************************************************************************)
EXTENDS ChainConversion, SequenceFacts, FiniteSetTheorems, TLAPS

-----------------------------------------------------------------------------
(* Tron.                                                                   *)

(* The contracts of the transactions, and what is written and read of each.*)
TronContracts == UNION {Range(r.contract) : r \in Raws}
TronWritten == UNION {Range(Tron!ContractRows(c)) : c \in TronContracts}
TronReadable == UNION {Range(Tron!Readable(c)) : c \in TronContracts}
WriteTron == [c \in TronContracts |-> Tron!ContractRows(c)]
ReadTron == [c \in TronContracts |-> Tron!Readable(c)]

(* The module of Tron flattens as the facts about sequences do.            *)
LEMMA TronFlatten == \A s : Tron!FlattenSeq(s) = FlattenSeq(s)
BY DEF Tron!FlattenSeq, FlattenSeq

LEMMA TronRange == \A s : Tron!Range(s) = Range(s)
BY DEF Tron!Range, Range

(* A contract leaves no row, one, or four.                                 *)
LEMMA TronCases ==
  ASSUME NEW c, Tron!IsContract(c)
  PROVE  \/ Tron!ContractRows(c) = <<>> /\ Tron!Readable(c) = <<>>
         \/ /\ c.parameter # Tron!NoParameter
            /\ c.parameter.decoded # Tron!NoTransfer
            /\ LET t == c.parameter.decoded
               IN  /\ t = [is |-> "transfer", owner_address |-> t.owner_address,
                           to_address |-> t.to_address, amount |-> t.amount]
                   /\ Tron!ContractRows(c) = Tron!TransferRows(t)
                   /\ Tron!Readable(c) = << <<"transfer", t>> >>
         \/ /\ Tron!ContractRows(c) =
                 << Tron!Row("Contract_Type", <<c.parameter.type_url, "not_fully_decoded">>) >>
            /\ Tron!Readable(c) = << <<"other", c.parameter.type_url>> >>
<1>1. CASE c.parameter = Tron!NoParameter
  BY <1>1 DEF Tron!ContractRows, Tron!Readable
<1>2. CASE c.parameter # Tron!NoParameter /\ c.parameter.decoded = Tron!NoTransfer
  BY <1>2 DEF Tron!ContractRows, Tron!Readable
<1>3. CASE c.parameter # Tron!NoParameter /\ c.parameter.decoded # Tron!NoTransfer
  BY <1>3 DEF Tron!IsContract, Tron!ContractRows, Tron!Readable
<1> QED
  BY <1>1, <1>2, <1>3


(* The rows of a transfer tell its amount and the addresses.               *)
LEMMA TransferRowsTell ==
  ASSUME NEW t, NEW u,
         t = [is |-> "transfer", owner_address |-> t.owner_address,
              to_address |-> t.to_address, amount |-> t.amount],
         u = [is |-> "transfer", owner_address |-> u.owner_address,
              to_address |-> u.to_address, amount |-> u.amount],
         Tron!TransferRows(t) = Tron!TransferRows(u)
  PROVE  t = u
<1>1. \A v : /\ Tron!TransferRows(v)[2] = Tron!Row("From", Tron!address_to_base58(v.owner_address))
             /\ Tron!TransferRows(v)[3] = Tron!Row("To", Tron!address_to_base58(v.to_address))
             /\ Tron!TransferRows(v)[4] = Tron!Row("Amount", Tron!Sun(v.amount))
  BY DEF Tron!TransferRows
<1>2. \A l, x, y : Tron!Row(l, x) = Tron!Row(l, y) => x = y
  BY DEF Tron!Row
<1>3. \A x, y : Tron!address_to_base58(x) = Tron!address_to_base58(y) => x = y
  BY DEF Tron!address_to_base58
<1>4. \A x, y : Tron!Sun(x) = Tron!Sun(y) => x = y
  BY DEF Tron!Sun
<1>5. /\ t.owner_address = u.owner_address
      /\ t.to_address = u.to_address
      /\ t.amount = u.amount
  BY <1>1, <1>2, <1>3, <1>4
<1> QED
  BY <1>5

(* The contracts of a transaction, and the rows and readings of them.      *)
LEMMA TronTypes ==
  /\ \A r \in Raws : r.contract \in Seq(TronContracts)
  /\ \A c \in TronContracts : Tron!IsContract(c)
  /\ WriteTron \in [TronContracts -> Seq(TronWritten)]
  /\ ReadTron \in [TronContracts -> Seq(TronReadable)]
<1>1. ASSUME NEW r \in Raws PROVE r.contract \in Seq(TronContracts)
  <2>1. r.contract \in Seq(Range(r.contract))
    BY RawsAssumption, TronRange DEF Tron!IsTransaction
  <2>2. Range(r.contract) \subseteq TronContracts
    BY DEF TronContracts
  <2> QED
    BY <2>1, <2>2, SeqMonotonic
<1>2. ASSUME NEW c \in TronContracts PROVE Tron!IsContract(c)
  <2>1. PICK r \in Raws : c \in Range(r.contract)
    BY DEF TronContracts
  <2>2. PICK k \in DOMAIN r.contract : c = r.contract[k]
    BY <2>1 DEF Range
  <2> QED
    BY <2>2, RawsAssumption DEF Tron!IsTransaction
<1>3. ASSUME NEW c \in TronContracts
      PROVE  /\ Tron!ContractRows(c) \in Seq(TronWritten)
             /\ Tron!Readable(c) \in Seq(TronReadable)
  <2>1. \/ Tron!ContractRows(c) = <<>> /\ Tron!Readable(c) = <<>>
        \/ /\ Tron!ContractRows(c) = Tron!TransferRows(c.parameter.decoded)
           /\ Tron!Readable(c) = << <<"transfer", c.parameter.decoded>> >>
        \/ /\ Tron!ContractRows(c) =
                << Tron!Row("Contract_Type", <<c.parameter.type_url, "not_fully_decoded">>) >>
           /\ Tron!Readable(c) = << <<"other", c.parameter.type_url>> >>
    BY <1>2, TronCases
  <2>2. Tron!ContractRows(c) \in Seq(Range(Tron!ContractRows(c)))
    BY <2>1, ShortTuples DEF Tron!TransferRows
  <2>3. Tron!Readable(c) \in Seq(Range(Tron!Readable(c)))
    BY <2>1, ShortTuples
  <2>4. Range(Tron!ContractRows(c)) \subseteq TronWritten
    BY DEF TronWritten
  <2>5. Range(Tron!Readable(c)) \subseteq TronReadable
    BY DEF TronReadable
  <2> QED
    BY <2>2, <2>3, <2>4, <2>5, SeqMonotonic
<1>4. WriteTron \in [TronContracts -> Seq(TronWritten)]
  BY <1>3 DEF WriteTron
<1>5. ReadTron \in [TronContracts -> Seq(TronReadable)]
  BY <1>3 DEF ReadTron
<1> QED
  BY <1>1, <1>2, <1>4, <1>5

(* The last of a contract's rows tells how many they are.                  *)
LEMMA TronLastRow ==
  ASSUME NEW c, Tron!IsContract(c), Tron!ContractRows(c) # <<>>
  PROVE  \/ /\ Len(Tron!ContractRows(c)) = 4
            /\ Tron!ContractRows(c)[4].label = "Amount"
            /\ Tron!ContractRows(c) = Tron!TransferRows(c.parameter.decoded)
         \/ /\ Len(Tron!ContractRows(c)) = 1
            /\ Tron!ContractRows(c)[1].label = "Contract_Type"
            /\ Tron!ContractRows(c) =
                 << Tron!Row("Contract_Type", <<c.parameter.type_url, "not_fully_decoded">>) >>
<1>1. \/ Tron!ContractRows(c) = Tron!TransferRows(c.parameter.decoded)
      \/ Tron!ContractRows(c) =
           << Tron!Row("Contract_Type", <<c.parameter.type_url, "not_fully_decoded">>) >>
  BY TronCases, Zenon
<1>2. \A w : Len(Tron!TransferRows(w)) = 4 /\ Tron!TransferRows(w)[4].label = "Amount"
  BY DEF Tron!TransferRows, Tron!Row
<1>3. \A w : Len(<<Tron!Row("Contract_Type", w)>>) = 1
           /\ <<Tron!Row("Contract_Type", w)>>[1].label = "Contract_Type"
  BY DEF Tron!Row
<1> QED
  BY <1>1, <1>2, <1>3

LEMMA TronSameLength ==
  ASSUME NEW c, NEW d, Tron!IsContract(c), Tron!IsContract(d),
         Tron!ContractRows(c) # <<>>, Tron!ContractRows(d) # <<>>
  PROVE  /\ Len(Tron!ContractRows(c)) > 0
         /\ Len(Tron!ContractRows(d)) > 0
         /\ Tron!ContractRows(c)[Len(Tron!ContractRows(c))]
               = Tron!ContractRows(d)[Len(Tron!ContractRows(d))]
             => Len(Tron!ContractRows(c)) = Len(Tron!ContractRows(d))
<1> DEFINE u == Tron!ContractRows(c)
           v == Tron!ContractRows(d)
<1>1. \/ Len(u) = 4 /\ u[4].label = "Amount"
      \/ Len(u) = 1 /\ u[1].label = "Contract_Type"
  BY TronLastRow
<1>2. \/ Len(v) = 4 /\ v[4].label = "Amount"
      \/ Len(v) = 1 /\ v[1].label = "Contract_Type"
  BY TronLastRow
<1> HIDE DEF u, v
<1>3. Len(u) > 0 /\ Len(v) > 0 /\ (u[Len(u)] = v[Len(v)] => Len(u) = Len(v))
  BY <1>1, <1>2
<1> QED
  BY <1>3 DEF u, v

(* A reader of a contract's rows knows what can be read of it.             *)
LEMMA TronSameReadable ==
  ASSUME NEW c, NEW d, Tron!IsContract(c), Tron!IsContract(d),
         Tron!ContractRows(c) # <<>>, Tron!ContractRows(c) = Tron!ContractRows(d)
  PROVE  Tron!Readable(c) = Tron!Readable(d)
<1>0. \A w, x : Tron!TransferRows(w) # <<Tron!Row("Contract_Type", x)>>
  BY DEF Tron!TransferRows
<1>1. CASE Tron!ContractRows(c) = Tron!TransferRows(c.parameter.decoded)
  <2> DEFINE t == c.parameter.decoded
             u == d.parameter.decoded
  <2>0. ASSUME NEW e, Tron!IsContract(e), Tron!ContractRows(e) = Tron!ContractRows(c)
        PROVE  /\ e.parameter.decoded =
                    [is |-> "transfer", owner_address |-> e.parameter.decoded.owner_address,
                     to_address |-> e.parameter.decoded.to_address,
                     amount |-> e.parameter.decoded.amount]
               /\ Tron!ContractRows(e) = Tron!TransferRows(e.parameter.decoded)
               /\ Tron!Readable(e) = << <<"transfer", e.parameter.decoded>> >>
    BY <1>0, <1>1, <2>0, TronCases, Zenon
  <2>1. /\ t = [is |-> "transfer", owner_address |-> t.owner_address,
                to_address |-> t.to_address, amount |-> t.amount]
        /\ u = [is |-> "transfer", owner_address |-> u.owner_address,
                to_address |-> u.to_address, amount |-> u.amount]
        /\ Tron!TransferRows(t) = Tron!TransferRows(u)
    BY <2>0, Zenon
  <2> HIDE DEF t, u
  <2>2. t = u
    BY <2>1, TransferRowsTell
  <2> QED
    BY <2>0, <2>2, Zenon DEF t, u
<1>2. CASE Tron!ContractRows(c) =
             << Tron!Row("Contract_Type", <<c.parameter.type_url, "not_fully_decoded">>) >>
  <2>1. ASSUME NEW e, Tron!IsContract(e), Tron!ContractRows(e) = Tron!ContractRows(c)
        PROVE  /\ Tron!ContractRows(e) =
                    << Tron!Row("Contract_Type", <<e.parameter.type_url, "not_fully_decoded">>) >>
               /\ Tron!Readable(e) = << <<"other", e.parameter.type_url>> >>
    BY <1>0, <1>2, <2>1, TronCases, Zenon
  <2>2. \A a, b : << Tron!Row("Contract_Type", <<a, "not_fully_decoded">>) >> =
                   << Tron!Row("Contract_Type", <<b, "not_fully_decoded">>) >> => a = b
    BY DEF Tron!Row
  <2>3. c.parameter.type_url = d.parameter.type_url
    <3> DEFINE Named(a) == << Tron!Row("Contract_Type", <<a, "not_fully_decoded">>) >>
    <3>1. Named(c.parameter.type_url) = Named(d.parameter.type_url)
      BY <2>1, Zenon
    <3>2. \A a, b : Named(a) = Named(b) => a = b
      BY <2>2, Zenon
    <3> HIDE DEF Named
    <3> QED
      BY <3>1, <3>2, Zenon
  <2> QED
    BY <2>1, <2>3, Zenon
<1> QED
  BY <1>1, <1>2, TronLastRow, Zenon

(* What is written of a contract can be told from the end.                 *)
LEMMA TronToldFromTheEnd == ToldFromTheEnd(TronContracts, TronWritten, WriteTron, ReadTron)
<1> DEFINE W == WriteTron
           R == ReadTron
<1> SUFFICES \A c, d \in TronContracts : \A x, y \in Seq(TronWritten) :
               W[c] # <<>> /\ W[d] # <<>> /\ x \o W[c] = y \o W[d] => x = y /\ R[c] = R[d]
  BY Zenon DEF ToldFromTheEnd
<1> TAKE c, d \in TronContracts
<1> TAKE x, y \in Seq(TronWritten)
<1>0. HAVE W[c] # <<>> /\ W[d] # <<>> /\ x \o W[c] = y \o W[d]
<1>1. /\ W[c] = Tron!ContractRows(c) /\ R[c] = Tron!Readable(c)
      /\ W[d] = Tron!ContractRows(d) /\ R[d] = Tron!Readable(d)
  BY Zenon DEF WriteTron, ReadTron
<1>2. Tron!IsContract(c) /\ Tron!IsContract(d)
  BY TronTypes, Zenon
<1>3. /\ Len(W[c]) > 0 /\ Len(W[d]) > 0
      /\ W[c][Len(W[c])] = W[d][Len(W[d])] => Len(W[c]) = Len(W[d])
  BY <1>0, <1>1, <1>2, TronSameLength, Zenon
<1>4. x = y /\ W[c] = W[d]
  <2>1. W[c] \in Seq(TronWritten) /\ W[d] \in Seq(TronWritten)
    BY TronTypes
  <2>2. SameConcat(TronWritten, x, y, W[c], W[d])
    BY <1>0, <2>1, Zenon DEF SameConcat
  <2> QED
    BY <1>3, <2>2, LastTellsLength, Zenon
<1> QED
  BY <1>0, <1>1, <1>2, <1>4, TronSameReadable, Zenon


(* The six rows of a transaction.                                          *)
TronFirst == UNION {Range(Tron!TransactionRows(r)) : r \in Raws}

LEMMA TransactionRowsType ==
  ASSUME NEW r \in Raws
  PROVE  Tron!TransactionRows(r) \in Seq(TronFirst) /\ Len(Tron!TransactionRows(r)) = 6
<1> DEFINE s == Tron!TransactionRows(r)
<1>1. s \in Seq(Range(s)) /\ Len(s) = 6
  BY SixTuple DEF Tron!TransactionRows
<1> HIDE DEF s
<1>2. Range(s) \subseteq TronFirst
  BY DEF TronFirst, s
<1> QED
  BY <1>1, <1>2, SeqMonotonic DEF s

(* They tell the transaction's own fields.                                 *)
LEMMA TransactionRowsTell ==
  ASSUME NEW r, NEW o, Tron!TransactionRows(o) = Tron!TransactionRows(r)
  PROVE  \A f \in {"timestamp", "expiration", "fee_limit", "ref_block_bytes", "ref_block_hash"} :
           o[f] = r[f]
<1>1. \A v : /\ Tron!TransactionRows(v)[2] = Tron!Row("Timestamp", Tron!Moment(v.timestamp))
             /\ Tron!TransactionRows(v)[3] = Tron!Row("Expiration", Tron!Moment(v.expiration))
             /\ Tron!TransactionRows(v)[4] = Tron!Row("Fee_Limit", Tron!Sun(v.fee_limit))
             /\ Tron!TransactionRows(v)[5] = Tron!Row("Ref_Block", Tron!hex_encode(v.ref_block_bytes))
             /\ Tron!TransactionRows(v)[6] = Tron!Row("Ref_Block_Hash", Tron!hex_encode(v.ref_block_hash))
  BY DEF Tron!TransactionRows
<1>2. \A l, x, y : Tron!Row(l, x) = Tron!Row(l, y) => x = y
  BY DEF Tron!Row
<1>3. \A x, y : Tron!Moment(x) = Tron!Moment(y) => x = y
  BY DEF Tron!Moment
<1>4. \A x, y : Tron!Sun(x) = Tron!Sun(y) => x = y
  BY DEF Tron!Sun
<1>5. \A x, y : Tron!hex_encode(x) = Tron!hex_encode(y) => x = y
  BY DEF Tron!hex_encode
<1>6. o.timestamp = r.timestamp /\ o.expiration = r.expiration
  BY <1>1, <1>2, <1>3
<1>7. o.fee_limit = r.fee_limit
  BY <1>1, <1>2, <1>4
<1>8. o.ref_block_bytes = r.ref_block_bytes /\ o.ref_block_hash = r.ref_block_hash
  BY <1>1, <1>2, <1>5
<1> QED
  BY <1>6, <1>7, <1>8

(* What a screen shows of the contracts, and what can be read of them.     *)
LEMMA TronShown ==
  ASSUME NEW r \in Raws
  PROVE  /\ Tron!convert_to_visual_sign_payload(r) =
              IF Tron!HasDate(r.timestamp) /\ Tron!HasDate(r.expiration)
              THEN Tron!Rows(Tron!TransactionRows(r) \o FlatMap(WriteTron, r.contract))
              ELSE Tron!Panic
         /\ Tron!Contracts(r) = FlatMap(ReadTron, r.contract)
         /\ FlatMap(WriteTron, r.contract) \in Seq(TronWritten)
<1>1. r.contract \in Seq(TronContracts)
  BY TronTypes, Zenon
<1>2. \A k \in DOMAIN r.contract : r.contract[k] \in TronContracts
  BY <1>1
<1>3. [k \in DOMAIN r.contract |-> Tron!ContractRows(r.contract[k])] =
      [k \in DOMAIN r.contract |-> WriteTron[r.contract[k]]]
  BY <1>2, Zenon DEF WriteTron
<1>4. [k \in DOMAIN r.contract |-> Tron!Readable(r.contract[k])] =
      [k \in DOMAIN r.contract |-> ReadTron[r.contract[k]]]
  BY <1>2, Zenon DEF ReadTron
<1>5. FlatMap(WriteTron, r.contract) \in Seq(TronWritten)
  BY <1>1, TronTypes, FlatMapType, Zenon
<1> QED
  BY <1>3, <1>4, <1>5, TronFlatten, Zenon
     DEF Tron!convert_to_visual_sign_payload, Tron!Contracts, FlatMap

(* A contract that leaves no rows leaves nothing to read.                  *)
LEMMA TronTraceless == \A c \in TronContracts : WriteTron[c] = <<>> => ReadTron[c] = <<>>
<1> SUFFICES ASSUME NEW c \in TronContracts, WriteTron[c] = <<>> PROVE ReadTron[c] = <<>>
  OBVIOUS
<1>1. Tron!ContractRows(c) = <<>> /\ ReadTron[c] = Tron!Readable(c)
  BY Zenon DEF WriteTron, ReadTron
<1>2. Tron!IsContract(c)
  BY TronTypes, Zenon
<1>3. \A w : <<w>> # <<>> /\ Tron!TransferRows(w) # <<>>
  BY DEF Tron!TransferRows
<1> QED
  BY <1>1, <1>2, <1>3, TronCases, Zenon

(* The same screen, the same transfers.                                    *)
LEMMA TronSameScreen ==
  ASSUME NEW r \in Raws, NEW o \in Raws,
         Tron!convert_to_visual_sign_payload(r).is = "rows",
         Tron!convert_to_visual_sign_payload(o) = Tron!convert_to_visual_sign_payload(r)
  PROVE  /\ Tron!Contracts(o) = Tron!Contracts(r)
         /\ \A f \in {"timestamp", "expiration", "fee_limit", "ref_block_bytes",
                      "ref_block_hash"} : o[f] = r[f]
<1> DEFINE Shown(v) == Tron!TransactionRows(v) \o FlatMap(WriteTron, v.contract)
           E == TronFirst \cup TronWritten
<1>1. \A x, y : Tron!Rows(x) = Tron!Rows(y) => x = y
  BY DEF Tron!Rows
<1>2. \A x : Tron!Rows(x).is = "rows" /\ Tron!Panic.is # "rows" /\ Tron!Rows(x) # Tron!Panic
  BY DEF Tron!Rows, Tron!Panic
<1>3. Shown(o) = Shown(r)
  BY <1>1, <1>2, TronShown, Zenon
<1>4. /\ Tron!TransactionRows(o) \in Seq(E) /\ Tron!TransactionRows(r) \in Seq(E)
      /\ FlatMap(WriteTron, o.contract) \in Seq(E) /\ FlatMap(WriteTron, r.contract) \in Seq(E)
  <2>1. /\ Tron!TransactionRows(o) \in Seq(TronFirst) /\ Tron!TransactionRows(r) \in Seq(TronFirst)
    BY TransactionRowsType
  <2>2. /\ FlatMap(WriteTron, o.contract) \in Seq(TronWritten)
        /\ FlatMap(WriteTron, r.contract) \in Seq(TronWritten)
    BY TronShown
  <2>3. TronFirst \subseteq E /\ TronWritten \subseteq E
    OBVIOUS
  <2> QED
    BY <2>1, <2>2, <2>3, SeqMonotonic
<1>5. Len(Tron!TransactionRows(o)) = Len(Tron!TransactionRows(r))
  BY TransactionRowsType
<1> HIDE DEF E
<1>6. SameConcat(E, Tron!TransactionRows(o), Tron!TransactionRows(r),
                 FlatMap(WriteTron, o.contract), FlatMap(WriteTron, r.contract))
  BY <1>3, <1>4, Zenon DEF SameConcat
<1>7. /\ Tron!TransactionRows(o) = Tron!TransactionRows(r)
      /\ FlatMap(WriteTron, o.contract) = FlatMap(WriteTron, r.contract)
  BY <1>5, <1>6, SameBeginnings
<1>8. FlatMap(ReadTron, o.contract) = FlatMap(ReadTron, r.contract)
  <2>1. Readings(TronContracts, TronWritten, TronReadable, WriteTron, ReadTron)
    BY TronTypes, TronTraceless, TronToldFromTheEnd, Zenon DEF Readings
  <2>2. r.contract \in Seq(TronContracts) /\ o.contract \in Seq(TronContracts)
    BY TronTypes, Zenon
  <2> QED
    BY <1>7, <2>1, <2>2, UniquelyRead
<1>9. Tron!Contracts(o) = Tron!Contracts(r)
  BY <1>8, TronShown, Zenon
<1> QED
  BY <1>7, <1>9, TransactionRowsTell, Zenon


(* The outcome of a Tron request is that of its own transaction.           *)
TronInv ==
  chain = "Tron" =>
    /\ raw \in Raws
    /\ outcome \in {Tron!Pending, Tron!convert_to_visual_sign_payload(raw)}

THEOREM TronOutcome == Spec => []TronInv
<1>1. Init => TronInv
  BY DEF Init, TronInv, Tron!Init
<1>2. TronInv /\ [Next]_vars => TronInv'
  <2> SUFFICES ASSUME TronInv, [Next]_vars, chain' = "Tron" PROVE TronInv'
    BY DEF TronInv
  <2>1. CASE ConvertTron
    BY <2>1 DEF ConvertTron, TronInv, Tron!Convert
  <2>2. CASE UNCHANGED vars
    BY <2>2 DEF vars, TronInv
  <2>3. CASE ConvertSolanaLegacy \/ ConvertSolanaVersioned \/ ConvertSui
    BY <2>3 DEF ConvertSolanaLegacy, ConvertSolanaVersioned, ConvertSui
  <2> QED
    BY <2>1, <2>2, <2>3 DEF Next
<1> QED
  BY <1>1, <1>2, PTL DEF Spec

(* Tron transactions with one screen make the same transfers in the same   *)
(* order, between the same other contracts, at the same times and under    *)
(* the same fee limit and block: TransferRows, ContractRows and            *)
(* TransactionRows leave nothing of those out.                             *)
THEOREM SameScreenSameTronTransfers == Spec => []SameScreenSameTransfers
<1>1. TronInv => SameScreenSameTransfers
  <2> SUFFICES ASSUME TronInv, chain = "Tron", outcome.is = "rows", NEW o \in Raws,
                      Tron!convert_to_visual_sign_payload(o) = outcome
               PROVE  /\ Tron!Contracts(o) = Tron!Contracts(raw)
                      /\ \A f \in {"timestamp", "expiration", "fee_limit", "ref_block_bytes",
                                   "ref_block_hash"} : o[f] = raw[f]
    BY Zenon DEF SameScreenSameTransfers, Tron!SameScreenSameTransfers
  <2>1. outcome = Tron!convert_to_visual_sign_payload(raw)
    BY DEF TronInv, Tron!Pending
  <2>2. raw \in Raws
    BY DEF TronInv
  <2> QED
    BY <2>1, <2>2, TronSameScreen, Zenon
<1> QED
  BY <1>1, TronOutcome, PTL


-----------------------------------------------------------------------------
(* Solana.                                                                 *)

(* The module of Solana filters and counts as the facts do.                *)
LEMMA SolanaFilter == \A s, S : Solana!Filter(s, S) = Filter(s, S)
BY DEF Solana!Filter, Filter

LEMMA SolanaRange == \A s : Solana!Range(s) = Range(s)
BY DEF Solana!Range, Range

LEMMA SolanaCardinality == \A S : Solana!Cardinality(S) = Cardinality(S)
BY DEF Solana!Cardinality, Cardinality

(* In a consistent message no counter goes below zero.                     *)
LEMMA ConsistentNoUnderflow ==
  ASSUME NEW m, Solana!IsMessage(m), Solana!Consistent(m)
  PROVE  ~Solana!Underflows(m)
<1>1. /\ Len(m.account_keys) \in Nat /\ m.required_signatures \in Nat
      /\ m.readonly_signed \in Nat /\ m.readonly_unsigned \in Nat
  BY DEF Solana!IsMessage
<1> QED
  BY <1>1 DEF Solana!Underflows, Solana!Consistent

(* And in a legacy message, which has no lookup tables, no index is out of *)
(* range.                                                                  *)
LEMMA LegacyInMessage ==
  ASSUME NEW m, Solana!IsMessage(m), Solana!Consistent(m), m.version = "legacy"
  PROVE  Solana!AllInMessage(m)
<1>1. Solana!LookedUp(m) = {}
  BY DEF Solana!IsMessage, Solana!LookedUp
<1>2. Solana!Cardinality(Solana!LookedUp(m)) = 0
  BY <1>1, SolanaCardinality, FS_EmptySet
<1>3. Len(m.account_keys) \in Nat
  BY DEF Solana!IsMessage
<1> QED
  BY <1>2, <1>3 DEF Solana!Consistent, Solana!AllInMessage, Solana!InMessage


(* The parts of a screen that are not rows are errors, if none panics.     *)
SolanaFine(part) == part.is = "rows" \/ part = Solana!Error

LEMMA SolanaScreen ==
  ASSUME NEW a, NEW b, NEW c, NEW d,
         SolanaFine(a), SolanaFine(b), SolanaFine(c), SolanaFine(d)
  PROVE  Solana!Screen(<<a, b, c, d>>) =
           IF a.is = "rows" /\ b.is = "rows" /\ c.is = "rows" /\ d.is = "rows"
           THEN Solana!Rows(a.rows \o b.rows \o c.rows \o d.rows)
           ELSE Solana!Error
<1> DEFINE parts == <<a, b, c, d>>
           P(k) == /\ parts[k].is # "rows"
                   /\ \A j \in 1..(k - 1) : parts[j].is = "rows"
           first == CHOOSE k \in DOMAIN parts : P(k)
<1>1. DOMAIN parts = 1..4 /\ parts[1] = a /\ parts[2] = b /\ parts[3] = c /\ parts[4] = d
  OBVIOUS
<1>2. \A k \in 1..4 : SolanaFine(parts[k])
  <2> SUFFICES ASSUME NEW k \in 1..4 PROVE SolanaFine(parts[k])
    OBVIOUS
  <2>1. k = 1 \/ k = 2 \/ k = 3 \/ k = 4
    OBVIOUS
  <2> QED
    BY <1>1, <2>1
<1>3. CASE \A k \in DOMAIN parts : parts[k].is = "rows"
  <2>1. a.is = "rows" /\ b.is = "rows" /\ c.is = "rows" /\ d.is = "rows"
    BY <1>1, <1>3
  <2>2. Solana!Screen(parts) = Solana!Rows(a.rows \o b.rows \o c.rows \o d.rows)
    BY <1>1, <1>3 DEF Solana!Screen
  <2> QED
    BY <2>1, <2>2
<1>4. CASE ~ \A k \in DOMAIN parts : parts[k].is = "rows"
  <2>1. ~(a.is = "rows" /\ b.is = "rows" /\ c.is = "rows" /\ d.is = "rows")
    <3> SUFFICES ASSUME a.is = "rows", b.is = "rows", c.is = "rows", d.is = "rows"
                 PROVE  \A k \in 1..4 : parts[k].is = "rows"
      BY <1>1, <1>4
    <3> TAKE k \in 1..4
    <3>1. k = 1 \/ k = 2 \/ k = 3 \/ k = 4
      OBVIOUS
    <3> QED
      BY <1>1, <3>1
  <2>2. \E k \in 1..4 : P(k)
    <3> DEFINE T == {k \in 1..4 : parts[k].is # "rows"}
    <3>1. T \in SUBSET Nat /\ T # {}
      BY <1>1, <1>4
    <3>2. PICK k \in T : \A j \in T : k <= j
      BY <3>1, LeastNatural
    <3>3. \A j \in 1..(k - 1) : j \in 1..4 /\ j \notin T
      BY <3>2
    <3> QED
      BY <3>2, <3>3
  <2>3. first \in 1..4 /\ P(first)
    BY <1>1, <2>2
  <2>4. Solana!Screen(parts) = parts[first]
    BY <1>4 DEF Solana!Screen
  <2> HIDE DEF first
  <2>5. parts[first] = Solana!Error
    BY <1>2, <2>3 DEF SolanaFine
  <2> QED
    BY <2>1, <2>4, <2>5
<1> QED
  BY <1>3, <1>4


LEMMA SolanaRows ==
  /\ \A x : SolanaFine(Solana!Rows(x)) /\ Solana!Rows(x).is = "rows" /\ Solana!Rows(x).rows = x
  /\ SolanaFine(Solana!Error) /\ Solana!Error.is # "rows"
  /\ \A x : SolanaFine(x) => x # Solana!Panic
  /\ Solana!Panic.is # "rows" /\ Solana!Pending.is # "rows" /\ Solana!Panic # Solana!Pending
BY DEF SolanaFine, Solana!Rows, Solana!Error, Solana!Panic, Solana!Pending

(* Every part of a consistent message's screen is rows or an error.        *)
LEMMA SolanaParts ==
  ASSUME NEW m, Solana!IsMessage(m), Solana!Consistent(m)
  PROVE  /\ \A spl : SolanaFine(Solana!decode_transfers_of(m, spl))
         /\ m.version = "legacy" => SolanaFine(Solana!decode_instructions(m))
         /\ SolanaFine(Solana!decode_v0_instructions(m))
         /\ Solana!decode_accounts(m) =
              Solana!Rows(<<Solana!create_accounts_advanced_preview_layout(Solana!Infos(m))>>)
<1>1. \A is : SolanaFine(Solana!Visualize(is))
  BY SolanaRows DEF Solana!Visualize
<1>2. ASSUME NEW spl PROVE SolanaFine(Solana!decode_transfers_of(m, spl))
  BY SolanaRows DEF Solana!decode_transfers_of
<1>3. ASSUME m.version = "legacy" PROVE SolanaFine(Solana!decode_instructions(m))
  BY <1>1, <1>3, LegacyInMessage, Zenon DEF Solana!decode_instructions
<1>4. SolanaFine(Solana!decode_v0_instructions(m))
  BY <1>1, SolanaRows, Zenon DEF Solana!decode_v0_instructions
<1>5. Solana!decode_accounts(m) =
        Solana!Rows(<<Solana!create_accounts_advanced_preview_layout(Solana!Infos(m))>>)
  BY ConsistentNoUnderflow, Zenon DEF Solana!decode_accounts
<1> QED
  BY <1>2, <1>3, <1>4, <1>5

(* The three other parts and the accounts, as a screen puts them together. *)
SolanaParted(m, first, second, third) ==
  /\ SolanaFine(first) /\ SolanaFine(second) /\ SolanaFine(third)
  /\ Solana!convert_versioned_to_visual_sign_payload(m) =
       IF first.is = "rows" /\ second.is = "rows" /\ third.is = "rows"
       THEN Solana!Rows(first.rows \o second.rows \o third.rows
              \o <<Solana!create_accounts_advanced_preview_layout(Solana!Infos(m))>>)
       ELSE Solana!Error

LEMMA SolanaLegacyScreen ==
  ASSUME NEW m, Solana!IsMessage(m), Solana!Consistent(m), m.version = "legacy"
  PROVE  SolanaParted(m, Solana!Rows(<<[label |-> "Solana"]>>),
           IF decode_transfers THEN Solana!decode_transfers_of(m, "SPL_Transfer")
           ELSE Solana!Nothing,
           Solana!decode_instructions(m))
<1> DEFINE a == Solana!Rows(<<[label |-> "Solana"]>>)
           b == IF decode_transfers THEN Solana!decode_transfers_of(m, "SPL_Transfer")
                ELSE Solana!Nothing
           c == Solana!decode_instructions(m)
           d == Solana!decode_accounts(m)
           row == Solana!create_accounts_advanced_preview_layout(Solana!Infos(m))
<1>1. Solana!convert_versioned_to_visual_sign_payload(m) = Solana!Screen(<<a, b, c, d>>)
  BY DEF Solana!convert_versioned_to_visual_sign_payload, Solana!convert_to_visual_sign_payload
<1>2. SolanaFine(a) /\ SolanaFine(b) /\ SolanaFine(c) /\ SolanaFine(d)
      /\ d.is = "rows" /\ d.rows = <<row>>
  BY SolanaParts, SolanaRows, Zenon DEF Solana!Nothing
<1> HIDE DEF a, b, c, d, row
<1>3. SolanaParted(m, a, b, c)
  BY <1>1, <1>2, SolanaScreen DEF SolanaParted, row
<1> QED
  BY <1>3 DEF a, b, c

LEMMA SolanaV0Screen ==
  ASSUME NEW m, Solana!IsMessage(m), Solana!Consistent(m), m.version = "v0"
  PROVE  SolanaParted(m,
           Solana!Rows(<<[label |-> "Solana_(V0)"]>> \o Solana!create_address_lookup_table_field(m)),
           Solana!OrNote(Solana!decode_v0_instructions(m), "Instruction_Decoding_Note"),
           IF decode_transfers
           THEN Solana!OrNote(Solana!decode_transfers_of(m, "V0_SPL_Transfer"),
                              "Transfer_Decoding_Note")
           ELSE Solana!Nothing)
<1> DEFINE a == Solana!Rows(<<[label |-> "Solana_(V0)"]>>
                              \o Solana!create_address_lookup_table_field(m))
           b == Solana!OrNote(Solana!decode_v0_instructions(m), "Instruction_Decoding_Note")
           c == IF decode_transfers
                THEN Solana!OrNote(Solana!decode_transfers_of(m, "V0_SPL_Transfer"),
                                   "Transfer_Decoding_Note")
                ELSE Solana!Nothing
           d == Solana!decode_accounts(m)
           row == Solana!create_accounts_advanced_preview_layout(Solana!Infos(m))
<1>1. Solana!convert_versioned_to_visual_sign_payload(m) = Solana!Screen(<<a, b, c, d>>)
  BY DEF Solana!convert_versioned_to_visual_sign_payload, Solana!convert_v0_to_visual_sign_payload
<1>0. \A p, l : SolanaFine(p) => SolanaFine(Solana!OrNote(p, l))
  BY SolanaRows, Zenon DEF Solana!OrNote, Solana!Note
<1>2. SolanaFine(a) /\ SolanaFine(b) /\ SolanaFine(c) /\ SolanaFine(d)
      /\ d.is = "rows" /\ d.rows = <<row>>
  BY <1>0, SolanaParts, SolanaRows, Zenon DEF Solana!Nothing
<1> HIDE DEF a, b, c, d, row
<1>3. SolanaParted(m, a, b, c)
  BY <1>1, <1>2, SolanaScreen DEF SolanaParted, row
<1> QED
  BY <1>3 DEF a, b, c

LEMMA SolanaConsistentFine ==
  ASSUME NEW m, Solana!IsMessage(m), Solana!Consistent(m)
  PROVE  SolanaFine(Solana!convert_versioned_to_visual_sign_payload(m))
<1>1. m.version \in {"legacy", "v0"}
  BY DEF Solana!IsMessage
<1>2. \A a, b, c : SolanaParted(m, a, b, c)
                     => SolanaFine(Solana!convert_versioned_to_visual_sign_payload(m))
  BY SolanaRows, Zenon DEF SolanaParted
<1> QED
  BY <1>1, <1>2, SolanaLegacyScreen, SolanaV0Screen, Zenon

(* The outcome of a Solana request is that of its own message and options, *)
(* by whichever of the two converters.                                     *)
SolanaInv ==
  chain = "Solana" =>
    /\ message \in Messages
    /\ outcome \in {Solana!Pending, Solana!convert_versioned_to_visual_sign_payload(message)}

THEOREM SolanaOutcome == Spec => []SolanaInv
<1>1. Init => SolanaInv
  BY DEF Init, SolanaInv, Solana!Init
<1>2. SolanaInv /\ [Next]_vars => SolanaInv'
  <2> SUFFICES ASSUME SolanaInv, [Next]_vars, chain' = "Solana" PROVE SolanaInv'
    BY DEF SolanaInv
  <2>0. ASSUME UNCHANGED <<message, decode_transfers, checks>>
        PROVE  Solana!convert_versioned_to_visual_sign_payload(message)'
                 = Solana!convert_versioned_to_visual_sign_payload(message)
    BY <2>0, Zenon
       DEF Solana!convert_versioned_to_visual_sign_payload, Solana!convert_v0_to_visual_sign_payload,
           Solana!convert_to_visual_sign_payload, Solana!decode_accounts
  <2>1. CASE ConvertSolanaLegacy
    <3>1. outcome' = Solana!convert_to_visual_sign_payload(message) /\ message.version # "v0"
          /\ UNCHANGED <<message, decode_transfers, checks>> /\ chain = "Solana"
      BY <2>1 DEF ConvertSolanaLegacy, Solana!ConvertLegacy
    <3>2. outcome' = Solana!convert_versioned_to_visual_sign_payload(message)
      BY <3>1, Zenon DEF Solana!convert_versioned_to_visual_sign_payload
    <3>3. message' \in Messages
      BY <3>1 DEF SolanaInv
    <3> QED
      BY <2>0, <3>1, <3>2, <3>3 DEF SolanaInv
  <2>2. CASE ConvertSolanaVersioned
    <3>1. outcome' = Solana!convert_versioned_to_visual_sign_payload(message)
          /\ UNCHANGED <<message, decode_transfers, checks>> /\ chain = "Solana"
      BY <2>2 DEF ConvertSolanaVersioned, Solana!ConvertVersioned
    <3>2. message' \in Messages
      BY <3>1 DEF SolanaInv
    <3> QED
      BY <2>0, <3>1, <3>2 DEF SolanaInv
  <2>3. CASE ConvertSui \/ ConvertTron
    BY <2>3 DEF ConvertSui, ConvertTron
  <2>4. CASE UNCHANGED vars
    <3>1. UNCHANGED <<message, decode_transfers, checks, outcome, chain>>
      BY <2>4 DEF vars
    <3> QED
      BY <2>0, <3>1 DEF SolanaInv
  <2> QED
    BY <2>1, <2>2, <2>3, <2>4 DEF Next
<1> QED
  BY <1>1, <1>2, PTL DEF Spec

(* A Solana message the runtime would accept panics no converter, in any   *)
(* build: the header's arithmetic in decode_accounts does not go below     *)
(* zero and decode_instructions finds every key.                           *)
THEOREM ConsistentMessagesNeverPanic == Spec => []ConsistentNeverPanics
<1>1. SolanaInv => ConsistentNeverPanics
  <2> SUFFICES ASSUME SolanaInv, chain = "Solana", Solana!Consistent(message)
               PROVE  outcome # Solana!Panic
    BY DEF ConsistentNeverPanics, Solana!ConsistentNeverPanics
  <2>1. Solana!IsMessage(message)
    BY MessagesAssumption DEF SolanaInv
  <2>2. outcome \in {Solana!Pending, Solana!convert_versioned_to_visual_sign_payload(message)}
    BY DEF SolanaInv
  <2> QED
    BY <2>1, <2>2, SolanaConsistentFine, SolanaRows, Zenon
<1> QED
  BY <1>1, SolanaOutcome, PTL


-----------------------------------------------------------------------------
(* The rows of a screen, by their labels.                                  *)

LabelledRows(s, L) == s \in Seq(Range(s)) /\ \A k \in DOMAIN s : s[k].label \in L
Picked(s, l) == Filter(s, {r \in Range(s) : r.label = l})

LEMMA NoRows == \A L : LabelledRows(<<>>, L)
BY EmptyIsSeq DEF LabelledRows

LEMMA OneRow ==
  ASSUME NEW L, NEW r, r.label \in L
  PROVE  LabelledRows(<<r>>, L)
<1>1. <<r>> \in Seq(Range(<<r>>))
  BY ShortTuples
<1>2. \A k \in DOMAIN <<r>> : <<r>>[k] = r
  OBVIOUS
<1> QED
  BY <1>1, <1>2 DEF LabelledRows

LEMMA ManyRows ==
  ASSUME NEW L, NEW n \in Nat, NEW f, f = [k \in 1..n |-> f[k]], \A k \in 1..n : f[k].label \in L
  PROVE  LabelledRows(f, L) /\ Len(f) = n
<1>1. \A k \in 1..n : f[k] \in Range(f)
  BY DEF Range
<1>2. f \in Seq(Range(f)) /\ Len(f) = n
  BY <1>1, FunctionIsSeq
<1> QED
  BY <1>2 DEF LabelledRows

LEMMA MoreRows ==
  ASSUME NEW L, NEW s, NEW t, LabelledRows(s, L), LabelledRows(t, L)
  PROVE  LabelledRows(s \o t, L)
<1> DEFINE E == Range(s) \cup Range(t)
           u == s \o t
<1>1. s \in Seq(E) /\ t \in Seq(E)
  BY SeqMonotonic DEF LabelledRows
<1> HIDE DEF E
<1>2. u \in Seq(E) /\ Len(u) = Len(s) + Len(t)
      /\ (\A i \in 1..Len(s) : u[i] = s[i])
      /\ \A i \in 1..Len(u) : i > Len(s) => u[i] = t[i - Len(s)] /\ i - Len(s) \in 1..Len(t)
  BY <1>1
<1>3. \A i \in 1..Len(u) : u[i].label \in L
  BY <1>1, <1>2 DEF LabelledRows
<1>4. u \in Seq(Range(u))
  BY <1>2, SeqOfRange
<1> QED
  BY <1>2, <1>3, <1>4 DEF LabelledRows

LEMMA LabelledMore ==
  ASSUME NEW L, NEW M, NEW s, LabelledRows(s, L), L \subseteq M
  PROVE  LabelledRows(s, M)
BY DEF LabelledRows

LEMMA PickedConcat ==
  ASSUME NEW L, NEW l, NEW s, NEW t, LabelledRows(s, L), LabelledRows(t, L)
  PROVE  Picked(s \o t, l) = Picked(s, l) \o Picked(t, l)
<1> DEFINE E == Range(s) \cup Range(t)
           u == s \o t
           S == {r \in E : r.label = l}
<1>1. s \in Seq(E) /\ t \in Seq(E)
  BY SeqMonotonic DEF LabelledRows
<1>2. u \in Seq(E)
  <2> HIDE DEF E
  <2> QED
    BY <1>1
<1>3. Filter(u, S) = Filter(s, S) \o Filter(t, S)
  <2> HIDE DEF E, S
  <2> QED
    BY <1>1, FilterConcat
<1>4. ASSUME NEW v \in Seq(E) PROVE Filter(v, S) = Picked(v, l)
  <2>1. Range(v) \subseteq E
    <3> HIDE DEF E
    <3> QED
      BY DEF Range
  <2>2. Range(v) \cap S = {r \in Range(v) : r.label = l}
    BY <2>1
  <2>3. Filter(v, S) = Filter(v, Range(v) \cap S)
    <3> HIDE DEF E, S
    <3> QED
      BY FilterOwn
  <2> QED
    BY <2>2, <2>3 DEF Picked
<1> HIDE DEF E, S
<1> QED
  BY <1>1, <1>2, <1>3, <1>4, Zenon

LEMMA PickedNone ==
  ASSUME NEW L, NEW l, NEW s, LabelledRows(s, L), l \notin L
  PROVE  Picked(s, l) = <<>>
<1>1. s \in Seq(Range(s)) /\ \A i \in 1..Len(s) : s[i].label # l
  BY DEF LabelledRows
<1> QED
  BY <1>1, FilterNone DEF Picked

LEMMA PickedAll ==
  ASSUME NEW l, NEW s, LabelledRows(s, {l})
  PROVE  Picked(s, l) = s
<1>1. s \in Seq(Range(s)) /\ \A i \in 1..Len(s) : s[i].label = l /\ s[i] \in Range(s)
  BY DEF LabelledRows, Range
<1> QED
  BY <1>1, FilterAll DEF Picked


-----------------------------------------------------------------------------
(* What the screen of a Solana message consists of.                        *)

SolanaOthers ==
  {"Solana", "Solana_(V0)", "Address_Lookup_Tables", "Transfer", "SPL_Transfer",
   "V0_SPL_Transfer", "Transfer_Decoding_Note"}
SolanaAccounts(m) == Solana!create_accounts_advanced_preview_layout(Solana!Infos(m))
SolanaNote == <<[label |-> "Instruction_Decoding_Note"]>>

(* The instructions that are visualized, by version.                       *)
LegacyInstructions(m) ==
  [k \in DOMAIN m.instructions |-> Solana!Resolved(m, m.instructions[k])]
StaticInstructions(m) == Filter(m.instructions, Solana!StaticPrograms(m))
V0Instructions(m) ==
  [k \in DOMAIN StaticInstructions(m) |-> Solana!Known(m, StaticInstructions(m)[k])]

SomeRejected(is) == \E k \in DOMAIN is : Solana!VisualizeInstruction(is[k]) = Solana!Rejected
SolanaFields(is) == [k \in DOMAIN is |-> Solana!Field(k, is[k])]

SolanaBetween(m, rows) ==
  \/ /\ m.version = "legacy"
     /\ rows = SolanaFields(LegacyInstructions(m))
     /\ ~SomeRejected(LegacyInstructions(m))
  \/ /\ m.version = "v0"
     /\ rows = SolanaFields(V0Instructions(m))
     /\ ~SomeRejected(V0Instructions(m))
  \/ /\ m.version = "v0"
     /\ rows = SolanaNote
     /\ m.account_keys = <<>> \/ SomeRejected(V0Instructions(m))

SolanaLaidOut(m, before, between, after, rows) ==
  /\ LabelledRows(before, SolanaOthers)
  /\ SolanaBetween(m, between)
  /\ LabelledRows(after, SolanaOthers)
  /\ rows = before \o between \o after \o <<SolanaAccounts(m)>>

(* A screen is rows only if all its parts are.                             *)
LEMMA SolanaScreenRows ==
  ASSUME NEW a, NEW b, NEW c, NEW d, Solana!Screen(<<a, b, c, d>>).is = "rows"
  PROVE  /\ a.is = "rows" /\ b.is = "rows" /\ c.is = "rows" /\ d.is = "rows"
         /\ Solana!Screen(<<a, b, c, d>>) = Solana!Rows(a.rows \o b.rows \o c.rows \o d.rows)
<1> DEFINE parts == <<a, b, c, d>>
           P(k) == /\ parts[k].is # "rows"
                   /\ \A j \in 1..(k - 1) : parts[j].is = "rows"
           first == CHOOSE k \in DOMAIN parts : P(k)
<1>1. DOMAIN parts = 1..4 /\ parts[1] = a /\ parts[2] = b /\ parts[3] = c /\ parts[4] = d
  OBVIOUS
<1>2. \A k \in DOMAIN parts : parts[k].is = "rows"
  <2> SUFFICES ASSUME ~ \A k \in DOMAIN parts : parts[k].is = "rows" PROVE FALSE
    OBVIOUS
  <2>1. \E k \in 1..4 : P(k)
    <3> DEFINE T == {k \in 1..4 : parts[k].is # "rows"}
    <3>1. T \in SUBSET Nat /\ T # {}
      BY <1>1
    <3>2. PICK k \in T : \A j \in T : k <= j
      BY <3>1, LeastNatural
    <3>3. \A j \in 1..(k - 1) : j \in 1..4 /\ j \notin T
      BY <3>2
    <3> QED
      BY <3>2, <3>3
  <2>2. P(first)
    BY <1>1, <2>1
  <2>3. Solana!Screen(parts) = parts[first]
    BY DEF Solana!Screen
  <2> HIDE DEF first
  <2> QED
    BY <2>2, <2>3
<1>3. Solana!Screen(parts) = Solana!Rows(a.rows \o b.rows \o c.rows \o d.rows)
  BY <1>1, <1>2 DEF Solana!Screen
<1> QED
  BY <1>1, <1>2, <1>3

(* The transfers found are a sequence.                                     *)
LEMMA TransfersCounted ==
  ASSUME NEW m, Solana!IsMessage(m), NEW p, NEW a
  PROVE  /\ DOMAIN Solana!TransfersAmong(m, p, a) = 1..Len(Solana!TransfersAmong(m, p, a))
         /\ Len(Solana!TransfersAmong(m, p, a)) \in Nat
<1> DEFINE S == {ci \in Solana!StaticPrograms(m) :
                   /\ Solana!Key(m, ci.program) = p
                   /\ ci.data \in DOMAIN a
                   /\ Len(ci.accounts) >= 2}
           found == Filter(m.instructions, S)
<1>1. m.instructions \in Seq(Range(m.instructions))
  BY SolanaRange, Zenon DEF Solana!IsMessage
<1>2. found \in Seq(Range(m.instructions))
  <2> HIDE DEF S
  <2> QED
    BY <1>1, FilterType
<1>3. \E f : Solana!TransfersAmong(m, p, a) = [k \in DOMAIN found |-> f[k]]
  <2> DEFINE f == Solana!TransfersAmong(m, p, a)
  <2>1. f = [k \in DOMAIN found |-> f[k]]
    <3> HIDE DEF S
    <3> QED
      BY SolanaFilter, Zenon DEF Solana!TransfersAmong, Solana!Map, S
  <2> QED
    BY <2>1
<1> HIDE DEF found
<1> QED
  BY <1>2, <1>3

(* The transfers are rows of other labels.                                 *)
LEMMA SolanaTransferRows ==
  ASSUME NEW m, Solana!IsMessage(m), NEW l \in {"SPL_Transfer", "V0_SPL_Transfer"},
         Solana!decode_transfers_of(m, l).is = "rows"
  PROVE  LabelledRows(Solana!decode_transfers_of(m, l).rows, SolanaOthers)
<1>1. ASSUME NEW p, NEW a
      PROVE  /\ DOMAIN Solana!TransfersAmong(m, p, a) = 1..Len(Solana!TransfersAmong(m, p, a))
             /\ Len(Solana!TransfersAmong(m, p, a)) \in Nat
  BY TransfersCounted
<1>2. ASSUME NEW p, NEW a, NEW k \in {"Transfer", "SPL_Transfer", "V0_SPL_Transfer"}
      PROVE  LabelledRows(Solana!Numbered(k, Solana!TransfersAmong(m, p, a)), SolanaOthers)
  <2> DEFINE t == Solana!TransfersAmong(m, p, a)
             f == Solana!Numbered(k, t)
             n == Len(t)
  <2>1. DOMAIN t = 1..n /\ n \in Nat
    BY <1>1
  <2> HIDE DEF t, n
  <2>2. f = [j \in 1..n |-> f[j]] /\ \A j \in 1..n : f[j].label \in SolanaOthers
    BY <2>1 DEF Solana!Numbered, SolanaOthers
  <2> HIDE DEF f
  <2>3. LabelledRows(f, SolanaOthers)
    BY <2>1, <2>2, ManyRows
  <2> QED
    BY <2>3 DEF f, t
<1>3. Solana!decode_transfers_of(m, l) =
        Solana!Rows(Solana!Numbered("Transfer", Solana!TransfersAmong(m, System, Solana!Lamports))
              \o Solana!Numbered(l, Solana!TransfersAmong(m, Token, TokenTransfer)))
  BY SolanaRows, Zenon DEF Solana!decode_transfers_of
<1>4. LabelledRows(Solana!Numbered("Transfer", Solana!TransfersAmong(m, System, Solana!Lamports)),
                   SolanaOthers)
  BY <1>2
<1>5. LabelledRows(Solana!Numbered(l, Solana!TransfersAmong(m, Token, TokenTransfer)), SolanaOthers)
  BY <1>2
<1> QED
  <2> DEFINE x == Solana!Numbered("Transfer", Solana!TransfersAmong(m, System, Solana!Lamports))
             y == Solana!Numbered(l, Solana!TransfersAmong(m, Token, TokenTransfer))
  <2>1. LabelledRows(x, SolanaOthers) /\ LabelledRows(y, SolanaOthers)
    BY <1>4, <1>5, Zenon
  <2>2. Solana!decode_transfers_of(m, l) = Solana!Rows(x \o y)
    BY <1>3, Zenon
  <2> HIDE DEF x, y
  <2>3. Solana!decode_transfers_of(m, l).rows = x \o y
    BY <2>2, SolanaRows
  <2>4. LabelledRows(x \o y, SolanaOthers)
    BY <2>1, MoreRows
  <2> QED
    BY <2>3, <2>4


(* The instructions' part, by version.                                     *)
LEMMA SolanaLegacyBetween ==
  ASSUME NEW m, m.version = "legacy", Solana!decode_instructions(m).is = "rows"
  PROVE  SolanaBetween(m, Solana!decode_instructions(m).rows)
<1> DEFINE is == LegacyInstructions(m)
<1>1. Solana!decode_instructions(m) = Solana!Visualize(is)
  BY SolanaRows, Zenon DEF Solana!decode_instructions, LegacyInstructions, Solana!Map
<1> HIDE DEF is
<1>2. Solana!decode_instructions(m).rows = SolanaFields(is) /\ ~SomeRejected(is)
  BY <1>1, SolanaRows, Zenon DEF Solana!Visualize, SolanaFields, SomeRejected
<1> QED
  BY <1>2, Zenon DEF SolanaBetween, is

LEMMA SolanaV0Between ==
  ASSUME NEW m, m.version = "v0",
         Solana!OrNote(Solana!decode_v0_instructions(m), "Instruction_Decoding_Note").is = "rows"
  PROVE  SolanaBetween(m, Solana!OrNote(Solana!decode_v0_instructions(m),
                                        "Instruction_Decoding_Note").rows)
<1> DEFINE is == V0Instructions(m)
           p == Solana!decode_v0_instructions(m)
           q == Solana!OrNote(p, "Instruction_Decoding_Note")
<1>1. p = IF m.account_keys = <<>> THEN Solana!Error ELSE Solana!Visualize(is)
  BY SolanaFilter, Zenon
     DEF Solana!decode_v0_instructions, V0Instructions, StaticInstructions, Solana!Map
<1> HIDE DEF is, p
<1>2. CASE m.account_keys = <<>> \/ SomeRejected(is)
  <2>1. p = Solana!Error
    BY <1>1, <1>2, Zenon DEF Solana!Visualize, SomeRejected
  <2>2. q.rows = SolanaNote
    BY <2>1, SolanaRows, Zenon DEF Solana!OrNote, Solana!Note, SolanaNote
  <2> QED
    BY <1>2, <2>2, Zenon DEF SolanaBetween, is, p
<1>3. CASE ~(m.account_keys = <<>> \/ SomeRejected(is))
  <2>1. p = Solana!Rows(SolanaFields(is))
    BY <1>1, <1>3, Zenon DEF Solana!Visualize, SomeRejected, SolanaFields
  <2>2. q.rows = SolanaFields(is)
    <3>1. p # Solana!Error
      BY <2>1, SolanaRows
    <3>2. q = p
      BY <3>1, Zenon DEF Solana!OrNote
    <3> QED
      BY <2>1, <3>2, SolanaRows
  <2> QED
    BY <1>3, <2>2, Zenon DEF SolanaBetween, is, p
<1> QED
  BY <1>2, <1>3

(* The transfers, if they are asked for.                                   *)
LEMMA SolanaMaybeTransfers ==
  ASSUME NEW m, Solana!IsMessage(m)
  PROVE  /\ LET b == IF decode_transfers THEN Solana!decode_transfers_of(m, "SPL_Transfer")
                     ELSE Solana!Nothing
            IN  b.is = "rows" => LabelledRows(b.rows, SolanaOthers)
         /\ LET b == IF decode_transfers
                     THEN Solana!OrNote(Solana!decode_transfers_of(m, "V0_SPL_Transfer"),
                                        "Transfer_Decoding_Note")
                     ELSE Solana!Nothing
            IN  b.is = "rows" => LabelledRows(b.rows, SolanaOthers)
<1>1. Solana!Nothing.rows = <<>> /\ LabelledRows(<<>>, SolanaOthers)
  BY SolanaRows, NoRows DEF Solana!Nothing
<1>2. ASSUME NEW l \in {"SPL_Transfer", "V0_SPL_Transfer"}, Solana!decode_transfers_of(m, l).is = "rows"
      PROVE  LabelledRows(Solana!decode_transfers_of(m, l).rows, SolanaOthers)
  BY <1>2, SolanaTransferRows
<1>3. LabelledRows(<<[label |-> "Transfer_Decoding_Note"]>>, SolanaOthers)
  BY OneRow DEF SolanaOthers
<1>4. ASSUME Solana!OrNote(Solana!decode_transfers_of(m, "V0_SPL_Transfer"),
                           "Transfer_Decoding_Note").is = "rows"
      PROVE  LabelledRows(Solana!OrNote(Solana!decode_transfers_of(m, "V0_SPL_Transfer"),
                                        "Transfer_Decoding_Note").rows, SolanaOthers)
  <2>1. CASE Solana!decode_transfers_of(m, "V0_SPL_Transfer") = Solana!Error
    BY <1>3, <2>1, SolanaRows, Zenon DEF Solana!OrNote, Solana!Note
  <2>2. CASE Solana!decode_transfers_of(m, "V0_SPL_Transfer") # Solana!Error
    BY <1>2, <1>4, <2>2, Zenon DEF Solana!OrNote
  <2> QED
    BY <2>1, <2>2
<1> QED
  BY <1>1, <1>2, <1>4

(* What is between is rows, instructions or a note.                        *)
SolanaMiddle == {"Instruction", "Instruction_Decoding_Note"}

LEMMA SolanaInstructionCounts ==
  ASSUME NEW m, Solana!IsMessage(m)
  PROVE  /\ m.instructions \in Seq(Range(m.instructions))
         /\ StaticInstructions(m) \in Seq(Range(m.instructions))
         /\ \A is \in {LegacyInstructions(m), V0Instructions(m)} :
              Len(is) \in Nat /\ DOMAIN is = 1..Len(is)
<1>1. m.instructions \in Seq(Range(m.instructions))
  BY SolanaRange, Zenon DEF Solana!IsMessage
<1>2. StaticInstructions(m) \in Seq(Range(m.instructions))
  BY <1>1, FilterType DEF StaticInstructions
<1>3. Len(LegacyInstructions(m)) \in Nat /\ DOMAIN LegacyInstructions(m) = 1..Len(LegacyInstructions(m))
  BY <1>1 DEF LegacyInstructions
<1>4. Len(V0Instructions(m)) \in Nat /\ DOMAIN V0Instructions(m) = 1..Len(V0Instructions(m))
  BY <1>2 DEF V0Instructions
<1> QED
  BY <1>1, <1>2, <1>3, <1>4

LEMMA SolanaFieldRows ==
  ASSUME NEW is, Len(is) \in Nat, DOMAIN is = 1..Len(is)
  PROVE  LabelledRows(SolanaFields(is), {"Instruction"}) /\ Len(SolanaFields(is)) = Len(is)
<1> DEFINE f == SolanaFields(is)
           n == Len(is)
<1>1. f = [k \in 1..n |-> f[k]] /\ \A k \in 1..n : f[k].label = "Instruction"
  BY DEF SolanaFields, Solana!Field
<1> HIDE DEF f, n
<1>2. n \in Nat
  BY DEF n
<1>3. LabelledRows(f, {"Instruction"}) /\ Len(f) = n
  BY <1>1, <1>2, ManyRows
<1> QED
  BY <1>3 DEF f, n

LEMMA SolanaBetweenRows ==
  ASSUME NEW m, Solana!IsMessage(m), NEW rows, SolanaBetween(m, rows)
  PROVE  LabelledRows(rows, SolanaMiddle)
<1>1. LabelledRows(SolanaNote, SolanaMiddle)
  BY OneRow DEF SolanaNote, SolanaMiddle
<1>2. \A is \in {LegacyInstructions(m), V0Instructions(m)} :
        LabelledRows(SolanaFields(is), {"Instruction"})
  BY SolanaInstructionCounts, SolanaFieldRows, Zenon
<1>3. {"Instruction"} \subseteq SolanaMiddle
  BY DEF SolanaMiddle
<1>4. \A is \in {LegacyInstructions(m), V0Instructions(m)} :
        LabelledRows(SolanaFields(is), SolanaMiddle)
  BY <1>2, <1>3, LabelledMore, Zenon
<1> QED
  BY <1>1, <1>4, Zenon DEF SolanaBetween

LEMMA RowsAndNothing ==
  ASSUME NEW L, NEW M, NEW s, NEW t, LabelledRows(s, L), LabelledRows(t, M)
  PROVE  s \o t \o <<>> = s \o t
<1>1. LabelledRows(s, L \cup M) /\ LabelledRows(t, L \cup M)
  BY LabelledMore
<1>2. LabelledRows(s \o t, L \cup M)
  BY <1>1, MoreRows
<1> DEFINE u == s \o t
<1>3. u \in Seq(Range(u))
  BY <1>2 DEF LabelledRows
<1> HIDE DEF u
<1>4. u \o <<>> = u
  BY <1>3, ConcatEmptySeq
<1> QED
  BY <1>4 DEF u

(* The screen of a message, laid out.                                      *)
LEMMA SolanaLegacyShown ==
  ASSUME NEW m, Solana!IsMessage(m), m.version = "legacy",
         Solana!convert_versioned_to_visual_sign_payload(m).is = "rows"
  PROVE  \E before, between, after :
           SolanaLaidOut(m, before, between, after,
                         Solana!convert_versioned_to_visual_sign_payload(m).rows)
<1> DEFINE o == Solana!convert_versioned_to_visual_sign_payload(m)
           a == Solana!Rows(<<[label |-> "Solana"]>>)
           b == IF decode_transfers THEN Solana!decode_transfers_of(m, "SPL_Transfer")
                ELSE Solana!Nothing
           c == Solana!decode_instructions(m)
           d == Solana!decode_accounts(m)
<1>1. d.is = "rows" => d.rows = <<SolanaAccounts(m)>>
  BY SolanaRows, Zenon DEF Solana!decode_accounts, SolanaAccounts
<1>2. o.is = "rows" /\ o = Solana!Screen(<<a, b, c, d>>)
  BY DEF Solana!convert_versioned_to_visual_sign_payload, Solana!convert_to_visual_sign_payload
<1>3. LabelledRows(a.rows, SolanaOthers)
  BY OneRow, SolanaRows DEF SolanaOthers
<1>4. b.is = "rows" => LabelledRows(b.rows, SolanaOthers)
  BY SolanaMaybeTransfers, Zenon
<1>5. c.is = "rows" => SolanaBetween(m, c.rows)
  BY SolanaLegacyBetween, Zenon
<1> HIDE DEF a, b, c, d, o
<1>6. /\ a.is = "rows" /\ b.is = "rows" /\ c.is = "rows" /\ d.is = "rows"
      /\ o = Solana!Rows(a.rows \o b.rows \o c.rows \o d.rows)
  BY <1>2, SolanaScreenRows
<1>7. LabelledRows(a.rows \o b.rows, SolanaOthers) /\ LabelledRows(c.rows, SolanaMiddle)
  <2>1. LabelledRows(a.rows \o b.rows, SolanaOthers)
    BY <1>3, <1>4, <1>6, MoreRows
  <2> QED
    BY <1>5, <1>6, <2>1, SolanaBetweenRows
<1>8. (a.rows \o b.rows) \o c.rows \o <<>> = a.rows \o b.rows \o c.rows
  BY <1>7, RowsAndNothing
<1>9. o.rows = (a.rows \o b.rows) \o c.rows \o <<>> \o <<SolanaAccounts(m)>>
  BY <1>1, <1>6, <1>8, SolanaRows, Zenon
<1>10. SolanaLaidOut(m, a.rows \o b.rows, c.rows, <<>>, o.rows)
  BY <1>5, <1>6, <1>7, <1>9, NoRows, Zenon DEF SolanaLaidOut
<1> QED
  BY <1>10, Zenon DEF o

LEMMA SolanaV0Shown ==
  ASSUME NEW m, Solana!IsMessage(m), m.version = "v0",
         Solana!convert_versioned_to_visual_sign_payload(m).is = "rows"
  PROVE  \E before, between, after :
           SolanaLaidOut(m, before, between, after,
                         Solana!convert_versioned_to_visual_sign_payload(m).rows)
<1> DEFINE o == Solana!convert_versioned_to_visual_sign_payload(m)
           a == Solana!Rows(<<[label |-> "Solana_(V0)"]>>
                              \o Solana!create_address_lookup_table_field(m))
           b == Solana!OrNote(Solana!decode_v0_instructions(m), "Instruction_Decoding_Note")
           c == IF decode_transfers
                THEN Solana!OrNote(Solana!decode_transfers_of(m, "V0_SPL_Transfer"),
                                   "Transfer_Decoding_Note")
                ELSE Solana!Nothing
           d == Solana!decode_accounts(m)
<1>1. d.is = "rows" => d.rows = <<SolanaAccounts(m)>>
  BY SolanaRows, Zenon DEF Solana!decode_accounts, SolanaAccounts
<1>2. o.is = "rows" /\ o = Solana!Screen(<<a, b, c, d>>)
  BY DEF Solana!convert_versioned_to_visual_sign_payload, Solana!convert_v0_to_visual_sign_payload
<1>3. LabelledRows(a.rows, SolanaOthers)
  <2> DEFINE f == Solana!create_address_lookup_table_field(m)
             h == <<[label |-> "Solana_(V0)"]>>
  <2>1. LabelledRows(f, SolanaOthers)
    <3>1. \A x : LabelledRows(<<[label |-> "Address_Lookup_Tables", tables |-> x]>>, SolanaOthers)
      BY OneRow DEF SolanaOthers
    <3> QED
      BY <3>1, NoRows, Zenon DEF Solana!create_address_lookup_table_field
  <2>2. LabelledRows(h, SolanaOthers)
    BY OneRow DEF SolanaOthers
  <2> HIDE DEF f, h
  <2>3. LabelledRows(h \o f, SolanaOthers)
    BY <2>1, <2>2, MoreRows
  <2> QED
    BY <2>3, SolanaRows DEF f, h
<1>4. c.is = "rows" => LabelledRows(c.rows, SolanaOthers)
  BY SolanaMaybeTransfers, Zenon
<1>5. b.is = "rows" => SolanaBetween(m, b.rows)
  BY SolanaV0Between, Zenon
<1> HIDE DEF a, b, c, d, o
<1>6. /\ a.is = "rows" /\ b.is = "rows" /\ c.is = "rows" /\ d.is = "rows"
      /\ o = Solana!Rows(a.rows \o b.rows \o c.rows \o d.rows)
  BY <1>2, SolanaScreenRows
<1>7. o.rows = a.rows \o b.rows \o c.rows \o <<SolanaAccounts(m)>>
  BY <1>1, <1>6, SolanaRows, Zenon
<1>8. SolanaLaidOut(m, a.rows, b.rows, c.rows, o.rows)
  BY <1>3, <1>4, <1>5, <1>6, <1>7, Zenon DEF SolanaLaidOut
<1> QED
  BY <1>8, Zenon DEF o

LEMMA SolanaShown ==
  ASSUME NEW m, Solana!IsMessage(m),
         Solana!convert_versioned_to_visual_sign_payload(m).is = "rows"
  PROVE  \E before, between, after :
           SolanaLaidOut(m, before, between, after,
                         Solana!convert_versioned_to_visual_sign_payload(m).rows)
<1>1. m.version = "legacy" \/ m.version = "v0"
  BY DEF Solana!IsMessage
<1> QED
  BY <1>1, SolanaLegacyShown, SolanaV0Shown, Zenon

(* What is found on it by label.                                           *)
LEMMA SolanaPicked ==
  ASSUME NEW m, Solana!IsMessage(m), NEW a, NEW b, NEW c, NEW rows,
         SolanaLaidOut(m, a, b, c, rows)
  PROVE  /\ Picked(rows, "Accounts") = <<SolanaAccounts(m)>>
         /\ \A l \in SolanaMiddle : Picked(rows, l) = Picked(b, l)
<1> DEFINE d == <<SolanaAccounts(m)>>
           L == SolanaOthers \cup SolanaMiddle \cup {"Accounts"}
<1>1. /\ LabelledRows(a, SolanaOthers) /\ LabelledRows(b, SolanaMiddle)
      /\ LabelledRows(c, SolanaOthers) /\ LabelledRows(d, {"Accounts"})
  <2>1. SolanaAccounts(m).label = "Accounts"
    BY DEF SolanaAccounts, Solana!create_accounts_advanced_preview_layout
  <2>2. LabelledRows(d, {"Accounts"})
    BY <2>1, OneRow
  <2> QED
    BY <2>2, SolanaBetweenRows, Zenon DEF SolanaLaidOut
<1>2. rows = a \o b \o c \o d
  BY Zenon DEF SolanaLaidOut
<1>3. /\ LabelledRows(a, L) /\ LabelledRows(b, L) /\ LabelledRows(c, L) /\ LabelledRows(d, L)
  <2>1. SolanaOthers \subseteq L /\ SolanaMiddle \subseteq L /\ {"Accounts"} \subseteq L
    OBVIOUS
  <2> HIDE DEF L, d
  <2> QED
    BY <1>1, <2>1, LabelledMore, Zenon
<1> HIDE DEF L, d
<1>4. LabelledRows(a \o b, L) /\ LabelledRows(a \o b \o c, L)
  BY <1>3, MoreRows
<1>5. ASSUME NEW l
      PROVE  Picked(rows, l) = Picked(a, l) \o Picked(b, l) \o Picked(c, l) \o Picked(d, l)
  <2>1. Picked(a \o b, l) = Picked(a, l) \o Picked(b, l)
    BY <1>3, PickedConcat
  <2>2. Picked((a \o b) \o c, l) = Picked(a \o b, l) \o Picked(c, l)
    BY <1>3, <1>4, PickedConcat
  <2>3. Picked((a \o b \o c) \o d, l) = Picked(a \o b \o c, l) \o Picked(d, l)
    BY <1>3, <1>4, PickedConcat
  <2> QED
    BY <1>2, <2>1, <2>2, <2>3, Zenon
<1>6. \A s \in {a, c} : \A l \in SolanaMiddle \cup {"Accounts"} : Picked(s, l) = <<>>
  BY <1>1, PickedNone DEF SolanaOthers, SolanaMiddle
<1>7. Picked(b, "Accounts") = <<>> /\ \A l \in SolanaMiddle : Picked(d, l) = <<>>
  BY <1>1, PickedNone DEF SolanaMiddle
<1>8. Picked(d, "Accounts") = d
  BY <1>1, PickedAll
<1>9. Picked(rows, "Accounts") = d
  <2>1. <<>> \o <<>> = <<>> /\ <<>> \o d = d
    BY DEF d
  <2> QED
    BY <1>5, <1>6, <1>7, <1>8, <2>1, Zenon
<1>10. ASSUME NEW l \in SolanaMiddle PROVE Picked(rows, l) = Picked(b, l)
  <2>1. Picked(b, l) \in Seq(Range(b))
    BY <1>1, FilterType DEF Picked, LabelledRows
  <2>2. <<>> \o Picked(b, l) = Picked(b, l) /\ Picked(b, l) \o <<>> = Picked(b, l)
    BY <2>1, ConcatEmptySeq
  <2> QED
    BY <1>5, <1>6, <1>7, <2>2, Zenon
<1> QED
  BY <1>9, <1>10 DEF d


LEMMA SolanaLabelled ==
  ASSUME outcome.is = "rows"
  PROVE  \A l : Solana!Labelled(l) = Picked(outcome.rows, l)
BY SolanaFilter, SolanaRange, Zenon DEF Solana!Labelled, Picked

(* A consistent message has no program in a lookup table.                  *)
LEMMA SolanaStatic ==
  ASSUME NEW m, Solana!IsMessage(m), Solana!Consistent(m)
  PROVE  StaticInstructions(m) = m.instructions
<1>1. m.instructions \in Seq(Range(m.instructions))
  BY SolanaInstructionCounts, Zenon
<1>2. \A k \in 1..Len(m.instructions) : m.instructions[k] \in Solana!StaticPrograms(m)
  <2> SUFFICES ASSUME NEW k \in 1..Len(m.instructions)
               PROVE  m.instructions[k] \in Solana!StaticPrograms(m)
    OBVIOUS
  <2>1. k \in DOMAIN m.instructions
    BY <1>1
  <2>2. m.instructions[k] \in Range(m.instructions)
    BY <2>1 DEF Range
  <2>3. Solana!InMessage(m, m.instructions[k].program)
    BY <2>1 DEF Solana!Consistent
  <2> QED
    BY <2>2, <2>3, SolanaRange DEF Solana!StaticPrograms
<1> QED
  BY <1>1, <1>2, FilterAll DEF StaticInstructions

(* Its accounts in place of their indexes, an instruction has its program *)
(* and its data still.                                                     *)
LEMMA SolanaProgramAndData ==
  ASSUME NEW m, NEW ci, Solana!IsInstruction(ci)
  PROVE  \A i \in {Solana!Resolved(m, ci), Solana!Known(m, ci)} :
           i.program = Solana!Key(m, ci.program) /\ i.data = ci.data
<1> DEFINE x == Solana!Filter(ci.accounts, Solana!IndexSet(m))
           e == [ci EXCEPT !.accounts = x]
<1>1. \A c : /\ Solana!Resolved(m, c).program = Solana!Key(m, c.program)
             /\ Solana!Resolved(m, c).data = c.data
  BY DEF Solana!Resolved
<1>2. ci = [program |-> ci.program, accounts |-> ci.accounts, data |-> ci.data]
  BY DEF Solana!IsInstruction
<1>3. Solana!Known(m, ci) = Solana!Resolved(m, e)
  BY DEF Solana!Known
<1> HIDE DEF x
<1>4. e.program = ci.program /\ e.data = ci.data
  BY <1>2
<1> HIDE DEF e
<1> QED
  BY <1>1, <1>3, <1>4

(* What the instructions' rows say, beside their previews.                 *)
SolanaRowsTell(m, rows) ==
  /\ Len(rows) = Len(m.instructions)
  /\ DOMAIN rows = 1..Len(m.instructions)
  /\ \A k \in DOMAIN rows :
       /\ rows[k].number = k
       /\ rows[k].program = Solana!Key(m, m.instructions[k].program)
       /\ rows[k].data = m.instructions[k].data

LEMMA SolanaFieldsTell ==
  ASSUME NEW m, Solana!IsMessage(m)
  PROVE  /\ SolanaRowsTell(m, SolanaFields(LegacyInstructions(m)))
         /\ Solana!Consistent(m) => SolanaRowsTell(m, SolanaFields(V0Instructions(m)))
<1> DEFINE n == Len(m.instructions)
<1>0. n \in Nat /\ DOMAIN m.instructions = 1..n
  BY SolanaInstructionCounts
<1>2. \A ci : /\ Solana!Resolved(m, ci).program = Solana!Key(m, ci.program)
              /\ Solana!Resolved(m, ci).data = ci.data
  BY DEF Solana!Resolved
<1>3. \A k \in DOMAIN m.instructions :
        /\ Solana!Known(m, m.instructions[k]).program = Solana!Key(m, m.instructions[k].program)
        /\ Solana!Known(m, m.instructions[k]).data = m.instructions[k].data
  BY SolanaProgramAndData DEF Solana!IsMessage
<1>4. SolanaRowsTell(m, SolanaFields(LegacyInstructions(m)))
  <2> DEFINE is == LegacyInstructions(m)
  <2>1. DOMAIN is = 1..n /\ Len(is) = n
    BY <1>0 DEF LegacyInstructions
  <2>2. \A k \in 1..n : is[k] = Solana!Resolved(m, m.instructions[k])
    BY <1>0 DEF LegacyInstructions
  <2> HIDE DEF is, n
  <2>3. /\ Len(SolanaFields(is)) = n /\ DOMAIN SolanaFields(is) = 1..n
        /\ \A k \in 1..n : /\ SolanaFields(is)[k].number = k
                           /\ SolanaFields(is)[k].program = is[k].program
                           /\ SolanaFields(is)[k].data = is[k].data
    BY <1>0, <2>1, SolanaFieldRows DEF SolanaFields, Solana!Field
  <2> QED
    BY <1>2, <2>2, <2>3 DEF SolanaRowsTell, is, n
<1>5. ASSUME Solana!Consistent(m) PROVE SolanaRowsTell(m, SolanaFields(V0Instructions(m)))
  <2> DEFINE is == V0Instructions(m)
  <2>0. StaticInstructions(m) = m.instructions
    BY <1>5, SolanaStatic
  <2>1. DOMAIN is = 1..n /\ Len(is) = n
    BY <1>0, <2>0 DEF V0Instructions
  <2>2. \A k \in 1..n : is[k] = Solana!Known(m, m.instructions[k])
    BY <1>0, <2>0 DEF V0Instructions
  <2> HIDE DEF is, n
  <2>3. /\ Len(SolanaFields(is)) = n /\ DOMAIN SolanaFields(is) = 1..n
        /\ \A k \in 1..n : /\ SolanaFields(is)[k].number = k
                           /\ SolanaFields(is)[k].program = is[k].program
                           /\ SolanaFields(is)[k].data = is[k].data
    BY <1>0, <2>1, SolanaFieldRows DEF SolanaFields, Solana!Field
  <2> QED
    BY <1>0, <1>3, <2>2, <2>3 DEF SolanaRowsTell, is, n
<1> QED
  BY <1>4, <1>5

(* A Solana screen has a row for every instruction, in order and with its  *)
(* program and data, or, for V0, a note in place of all of them, only if   *)
(* one could not be decoded (decode_instructions, decode_v0_instructions   *)
(* and what the two converters make of them).                              *)
THEOREM EveryInstructionIsShown == Spec => []EveryInstructionShown
<1>1. SolanaInv => EveryInstructionShown
  <2> SUFFICES ASSUME SolanaInv, chain = "Solana", outcome.is = "rows", Solana!Consistent(message)
               PROVE  Solana!EveryInstructionShown
    BY Zenon DEF EveryInstructionShown, Solana!EveryInstructionShown
  <2> DEFINE m == message
  <2>1. Solana!IsMessage(m) /\ outcome = Solana!convert_versioned_to_visual_sign_payload(m)
    BY MessagesAssumption, SolanaRows DEF SolanaInv
  <2>2. PICK a, b, c : SolanaLaidOut(m, a, b, c, outcome.rows)
    BY <2>1, SolanaShown, Zenon
  <2>3. SolanaBetween(m, b)
    BY <2>2, Zenon DEF SolanaLaidOut
  <2>4. /\ Solana!Instructions = Picked(b, "Instruction")
        /\ Solana!Labelled("Instruction_Decoding_Note") = Picked(b, "Instruction_Decoding_Note")
    BY <2>1, <2>2, SolanaLabelled, SolanaPicked DEF Solana!Instructions, SolanaMiddle
  <2>5. CASE b = SolanaFields(LegacyInstructions(m)) \/ b = SolanaFields(V0Instructions(m))
    <3>1. SolanaRowsTell(m, b)
      BY <2>1, <2>5, SolanaFieldsTell
    <3>2. LabelledRows(b, {"Instruction"})
      BY <2>1, <2>5, SolanaInstructionCounts, SolanaFieldRows
    <3>3. Solana!Instructions = b
      BY <2>4, <3>2, PickedAll
    <3> QED
      BY <3>1, <3>3, Zenon DEF Solana!EveryInstructionShown, SolanaRowsTell
  <2>6. CASE /\ m.version = "v0"
             /\ b = SolanaNote
             /\ m.account_keys = <<>> \/ SomeRejected(V0Instructions(m))
    <3>1. LabelledRows(b, {"Instruction_Decoding_Note"})
      BY <2>6, OneRow DEF SolanaNote
    <3>2. Solana!Instructions = <<>>
      BY <2>4, <3>1, PickedNone
    <3>3. Solana!Labelled("Instruction_Decoding_Note") = SolanaNote
      BY <2>4, <2>6, <3>1, PickedAll
    <3>4. Len(SolanaNote) = 1
      BY DEF SolanaNote
    <3>5. SomeRejected(V0Instructions(m)) =>
            \E k \in DOMAIN m.instructions :
              Solana!VisualizeInstruction(Solana!Known(m, m.instructions[k])) = Solana!Rejected
      BY <2>1, SolanaStatic DEF SomeRejected, V0Instructions
    <3> QED
      BY <2>6, <3>2, <3>3, <3>4, <3>5, Zenon DEF Solana!EveryInstructionShown
  <2> QED
    BY <2>3, <2>5, <2>6, Zenon DEF SolanaBetween
<1> QED
  BY <1>1, SolanaOutcome, PTL


-----------------------------------------------------------------------------
(* The accounts of a Solana message.                                       *)

(* The four categories are four intervals of the indexes: they end at the  *)
(* last writable signer, the last signer and the last writable key.        *)
SolanaEnds(m, p, q, r) ==
  LET n == Len(m.account_keys)
  IN  /\ p \in 0..q /\ q \in 0..r /\ r \in 0..n
      /\ \A i \in Solana!IndexSet(m) :
           /\ Solana!Category(m, i) = 0 <=> i < p
           /\ Solana!Category(m, i) = 1 <=> p <= i /\ i < q
           /\ Solana!Category(m, i) = 2 <=> q <= i /\ i < r
           /\ Solana!Category(m, i) = 3 <=> r <= i

LEMMA SolanaEndsExist ==
  ASSUME NEW m, Solana!IsMessage(m)
  PROVE  \E p, q, r : SolanaEnds(m, p, q, r)
<1> DEFINE n == Len(m.account_keys)
           R == m.required_signatures
           S == m.readonly_signed
           U == m.readonly_unsigned
           q == IF R < n THEN R ELSE n
           p == IF S > R THEN q ELSE IF R - S < n THEN R - S ELSE n
           r == IF U > n - R THEN n ELSE n - U
<1>1. n \in Nat /\ R \in Nat /\ S \in Nat /\ U \in Nat
  BY DEF Solana!IsMessage
<1>2. ASSUME NEW i
      PROVE  /\ Solana!IsSigner(m, i) <=> i < R
             /\ Solana!IsWritable(m, i) <=>
                  IF i < R THEN S > R \/ i < R - S
                  ELSE U > n - R \/ i - R < (n - R) - U
             /\ Solana!Category(m, i) =
                  (IF Solana!IsSigner(m, i) THEN 0 ELSE 2)
                    + (IF Solana!IsWritable(m, i) THEN 0 ELSE 1)
  BY DEF Solana!IsSigner, Solana!IsWritable, Solana!Category
<1>3. Solana!IndexSet(m) = 0..(n - 1)
  BY DEF Solana!IndexSet
<1> HIDE DEF n, R, S, U
<1>4. p \in 0..q /\ q \in 0..r /\ r \in 0..n
  BY <1>1
<1>5. ASSUME NEW i \in 0..(n - 1)
      PROVE  /\ Solana!IsSigner(m, i) <=> i < q
             /\ i < q => (Solana!IsWritable(m, i) <=> i < p)
             /\ ~(i < q) => (Solana!IsWritable(m, i) <=> i < r)
  BY <1>1, <1>2
<1>6. ASSUME NEW i \in 0..(n - 1)
      PROVE  /\ Solana!Category(m, i) = 0 <=> i < p
             /\ Solana!Category(m, i) = 1 <=> p <= i /\ i < q
             /\ Solana!Category(m, i) = 2 <=> q <= i /\ i < r
             /\ Solana!Category(m, i) = 3 <=> r <= i
  <2> DEFINE s == Solana!IsSigner(m, i)
             w == Solana!IsWritable(m, i)
  <2> HIDE DEF p, q, r
  <2>1. s <=> i < q
    BY <1>5
  <2>2. i < q => (w <=> i < p)
    BY <1>5
  <2>3. ~(i < q) => (w <=> i < r)
    BY <1>5
  <2>4. Solana!Category(m, i) = (IF s THEN 0 ELSE 2) + (IF w THEN 0 ELSE 1)
    BY <1>2
  <2> HIDE DEF s, w
  <2> QED
    BY <1>1, <1>4, <2>1, <2>2, <2>3, <2>4
<1>7. SolanaEnds(m, p, q, r)
  <2> HIDE DEF p, q, r
  <2> QED
    BY <1>3, <1>4, <1>6 DEF SolanaEnds, n
<1> QED
  BY <1>7

(* So the sort by importance leaves every index in its place.              *)
LEMMA SolanaSorted ==
  ASSUME NEW m, Solana!IsMessage(m)
  PROVE  Solana!Sorted(m) = [k \in 1..Len(m.account_keys) |-> k - 1]
<1> DEFINE n == Len(m.account_keys)
           s == [k \in 1..n |-> k - 1]
           T(c) == {i \in Solana!IndexSet(m) : Solana!Category(m, i) = c}
<1>1. n \in Nat /\ DOMAIN m.account_keys = 1..n
  BY DEF Solana!IsMessage
<1>2. PICK p, q, r : SolanaEnds(m, p, q, r)
  BY SolanaEndsExist
<1>3. p \in Nat /\ q \in Nat /\ r \in Nat /\ p <= q /\ q <= r /\ r <= n
  BY <1>1, <1>2 DEF SolanaEnds
<1>4. s \in Seq(Nat) /\ Len(s) = n /\ \A k \in 1..n : s[k] = k - 1 /\ k - 1 \in Solana!IndexSet(m)
  BY <1>1 DEF Solana!IndexSet
<1>5. Solana!Sorted(m) = Filter(s, T(0)) \o Filter(s, T(1)) \o Filter(s, T(2)) \o Filter(s, T(3))
  <2>1. [k \in DOMAIN m.account_keys |-> k - 1] = s
    BY <1>1, Zenon
  <2> HIDE DEF s
  <2> QED
    BY <2>1, SolanaFilter, Zenon DEF Solana!Sorted
<1>6. \A k \in 1..n : /\ s[k] \in T(0) <=> 0 < k /\ k <= p
                      /\ s[k] \in T(1) <=> p < k /\ k <= q
                      /\ s[k] \in T(2) <=> q < k /\ k <= r
                      /\ s[k] \in T(3) <=> r < k /\ k <= n
  <2> SUFFICES ASSUME NEW k \in 1..n
               PROVE  /\ s[k] \in T(0) <=> 0 < k /\ k <= p
                      /\ s[k] \in T(1) <=> p < k /\ k <= q
                      /\ s[k] \in T(2) <=> q < k /\ k <= r
                      /\ s[k] \in T(3) <=> r < k /\ k <= n
    OBVIOUS
  <2>1. s[k] = k - 1 /\ k - 1 \in Solana!IndexSet(m)
    BY <1>4
  <2>2. /\ Solana!Category(m, k - 1) = 0 <=> k - 1 < p
        /\ Solana!Category(m, k - 1) = 1 <=> p <= k - 1 /\ k - 1 < q
        /\ Solana!Category(m, k - 1) = 2 <=> q <= k - 1 /\ k - 1 < r
        /\ Solana!Category(m, k - 1) = 3 <=> r <= k - 1
    BY <1>2, <2>1 DEF SolanaEnds
  <2> HIDE DEF s
  <2> QED
    BY <1>1, <1>3, <2>1, <2>2
<1> HIDE DEF s, T
<1>7. /\ Filter(s, T(0)) = SubSeq(s, 1, p)
      /\ Filter(s, T(1)) = SubSeq(s, p + 1, q)
      /\ Filter(s, T(2)) = SubSeq(s, q + 1, r)
      /\ Filter(s, T(3)) = SubSeq(s, r + 1, n)
  <2>1. /\ KeptBetween(s, T(0), 0, p) /\ KeptBetween(s, T(1), p, q)
        /\ KeptBetween(s, T(2), q, r) /\ KeptBetween(s, T(3), r, n)
    BY <1>1, <1>3, <1>4, <1>6 DEF KeptBetween
  <2> HIDE DEF n
  <2>2. s \in Seq(Nat)
    BY <1>4
  <2>3. Filter(s, T(0)) = SubSeq(s, 0 + 1, p)
    BY <2>1, <2>2, FilterInterval, Zenon
  <2>4. Filter(s, T(1)) = SubSeq(s, p + 1, q)
    BY <2>1, <2>2, FilterInterval, Zenon
  <2>5. Filter(s, T(2)) = SubSeq(s, q + 1, r)
    BY <2>1, <2>2, FilterInterval, Zenon
  <2>6. Filter(s, T(3)) = SubSeq(s, r + 1, n)
    BY <2>1, <2>2, FilterInterval, Zenon
  <2>7. 0 + 1 = 1
    OBVIOUS
  <2> QED
    BY <2>3, <2>4, <2>5, <2>6, <2>7, Zenon
<1>8. SubSeq(s, 1, p) \o SubSeq(s, p + 1, q) \o SubSeq(s, q + 1, r) \o SubSeq(s, r + 1, n) = s
  <2>1. \A k, j \in Nat : k <= j /\ j <= n =>
          SubSeq(s, 1, k) \o SubSeq(s, k + 1, j) = SubSeq(s, 1, j)
    BY <1>1, <1>4, ConcatAdjacentSubSeq
  <2>2. SubSeq(s, 1, p) \o SubSeq(s, p + 1, q) = SubSeq(s, 1, q)
    BY <1>3, <2>1
  <2>3. SubSeq(s, 1, q) \o SubSeq(s, q + 1, r) = SubSeq(s, 1, r)
    BY <1>3, <2>1
  <2>4. SubSeq(s, 1, r) \o SubSeq(s, r + 1, n) = SubSeq(s, 1, n)
    <3>1. n \in Nat /\ n <= n
      BY <1>1
    <3> QED
      BY <1>3, <2>1, <3>1
  <2>5. SubSeq(s, 1, n) = s
    BY <1>4, SubSeqFull
  <2> QED
    BY <2>2, <2>3, <2>4, <2>5, Zenon
<1> QED
  BY <1>5, <1>7, <1>8 DEF s


(* What is shown of each account.                                          *)
SolanaInfo(m, k) ==
  [index |-> k - 1, address |-> Solana!Key(m, k - 1), signer |-> Solana!IsSigner(m, k - 1),
   writable |-> Solana!IsWritable(m, k - 1)]

LEMMA SolanaInfos ==
  ASSUME NEW m, Solana!IsMessage(m)
  PROVE  Solana!Infos(m) = [k \in 1..Len(m.account_keys) |-> SolanaInfo(m, k)]
<1> DEFINE n == Len(m.account_keys)
<1>1. n \in Nat
  BY DEF Solana!IsMessage
<1>2. Solana!Sorted(m) = [k \in 1..n |-> k - 1]
  BY SolanaSorted
<1> HIDE DEF n
<1>3. DOMAIN Solana!Sorted(m) = 1..n /\ \A k \in 1..n : Solana!Sorted(m)[k] = k - 1
  BY <1>2
<1>4. Solana!Infos(m) =
        [k \in 1..n |-> [index |-> Solana!Sorted(m)[k], address |-> Solana!Key(m, Solana!Sorted(m)[k]),
                         signer |-> Solana!IsSigner(m, Solana!Sorted(m)[k]),
                         writable |-> Solana!IsWritable(m, Solana!Sorted(m)[k])]]
  BY <1>3, Zenon DEF Solana!Infos, Solana!Map
<1>5. \A k \in 1..n :
        [index |-> Solana!Sorted(m)[k], address |-> Solana!Key(m, Solana!Sorted(m)[k]),
         signer |-> Solana!IsSigner(m, Solana!Sorted(m)[k]),
         writable |-> Solana!IsWritable(m, Solana!Sorted(m)[k])] = SolanaInfo(m, k)
  BY <1>3, Zenon DEF SolanaInfo
<1> QED
  BY <1>4, <1>5, Zenon DEF n

(* If the header fits, the rights are those of the runtime.                *)
LEMMA SolanaRights ==
  ASSUME NEW m, Solana!IsMessage(m), Solana!Consistent(m), NEW k \in 1..Len(m.account_keys)
  PROVE  /\ Solana!IsSigner(m, k - 1) <=> k - 1 < m.required_signatures
         /\ Solana!IsWritable(m, k - 1) <=>
              \/ k - 1 < m.required_signatures - m.readonly_signed
              \/ /\ k - 1 >= m.required_signatures
                 /\ k - 1 < Len(m.account_keys) - m.readonly_unsigned
<1> DEFINE n == Len(m.account_keys)
           R == m.required_signatures
           S == m.readonly_signed
           U == m.readonly_unsigned
<1>1. n \in Nat /\ R \in Nat /\ S \in Nat /\ U \in Nat /\ R <= n /\ S <= R /\ U <= n - R
  BY DEF Solana!IsMessage, Solana!Consistent
<1>2. Solana!IsSigner(m, k - 1) <=> k - 1 < R
  BY DEF Solana!IsSigner
<1>3. Solana!IsWritable(m, k - 1) <=>
        IF k - 1 < R THEN S > R \/ k - 1 < R - S
        ELSE U > n - R \/ (k - 1) - R < (n - R) - U
  BY DEF Solana!IsWritable, Solana!IsSigner
<1>4. k \in 1..n
  OBVIOUS
<1> HIDE DEF n, R, S, U
<1>5. (IF k - 1 < R THEN S > R \/ k - 1 < R - S
       ELSE U > n - R \/ (k - 1) - R < (n - R) - U)
      <=> \/ k - 1 < R - S
          \/ k - 1 >= R /\ k - 1 < n - U
  BY <1>1, <1>4
<1> QED
  BY <1>2, <1>3, <1>5, Zenon DEF n, R, S, U

(* And the summary has every account in one of its counts.                 *)
LEMMA SolanaSummary ==
  ASSUME NEW m, Solana!IsMessage(m), Solana!Consistent(m)
  PROVE  LET counts == Solana!Summary(Solana!Infos(m))
         IN  /\ counts.Signers = m.required_signatures
             /\ counts.ReadOnly = m.readonly_unsigned
             /\ counts.Signers + counts.Writable + counts.ReadOnly = Len(m.account_keys)
<1> DEFINE n == Len(m.account_keys)
           R == m.required_signatures
           U == m.readonly_unsigned
           s == Solana!Infos(m)
           A == {a \in Range(s) : a.signer}
           B == {a \in Range(s) : ~a.signer /\ a.writable}
           C == {a \in Range(s) : ~a.signer /\ ~a.writable}
           E == Range(s)
<1>1. n \in Nat /\ R \in Nat /\ m.readonly_signed \in Nat /\ U \in Nat
      /\ R <= n /\ m.readonly_signed <= R /\ U <= n - R
  BY DEF Solana!IsMessage, Solana!Consistent
<1>2. DOMAIN s = 1..n
      /\ \A k \in 1..n : /\ s[k].signer <=> Solana!IsSigner(m, k - 1)
                         /\ s[k].writable <=> Solana!IsWritable(m, k - 1)
  <2>1. s = [k \in 1..n |-> SolanaInfo(m, k)]
    BY SolanaInfos
  <2> HIDE DEF s, n
  <2> QED
    BY <2>1 DEF SolanaInfo
<1>3. \A k \in 1..n : /\ s[k].signer <=> k - 1 < R
                      /\ s[k].writable <=> \/ k - 1 < R - m.readonly_signed
                                           \/ k - 1 >= R /\ k - 1 < n - U
  BY <1>2, SolanaRights
<1>4. s \in Seq(E) /\ Len(s) = n /\ \A k \in 1..n : s[k] \in Range(s)
  <2>1. \A k \in 1..n : s[k] \in Range(s)
    BY <1>2 DEF Range
  <2>2. s = [k \in 1..n |-> s[k]]
    BY <1>2, SolanaInfos
  <2> HIDE DEF s, n
  <2> QED
    BY <1>1, <2>1, <2>2, FunctionIsSeq
<1>5. Solana!Summary(s) = [Signers |-> Len(Filter(s, A)), Writable |-> Len(Filter(s, B)),
                           ReadOnly |-> Len(Filter(s, C))]
  <2> HIDE DEF s
  <2> QED
    BY SolanaFilter, SolanaRange, Zenon DEF Solana!Summary
<1> HIDE DEF s, n, R, U, E
<1>6. KeptBetween(s, A, 0, R) /\ KeptBetween(s, B, R, n - U) /\ KeptBetween(s, C, n - U, n)
  <2>1. \A k \in 1..n : /\ s[k] \in A <=> 0 < k /\ k <= R
                        /\ s[k] \in B <=> R < k /\ k <= n - U
                        /\ s[k] \in C <=> n - U < k /\ k <= n
    <3> SUFFICES ASSUME NEW k \in 1..n
                 PROVE  /\ s[k] \in A <=> 0 < k /\ k <= R
                        /\ s[k] \in B <=> R < k /\ k <= n - U
                        /\ s[k] \in C <=> n - U < k /\ k <= n
      OBVIOUS
    <3>1. /\ s[k] \in A <=> s[k].signer
          /\ s[k] \in B <=> ~s[k].signer /\ s[k].writable
          /\ s[k] \in C <=> ~s[k].signer /\ ~s[k].writable
      BY <1>4
    <3>2. /\ s[k].signer <=> k - 1 < R
          /\ s[k].writable <=> \/ k - 1 < R - m.readonly_signed
                               \/ k - 1 >= R /\ k - 1 < n - U
      BY <1>3
    <3> QED
      BY <1>1, <3>1, <3>2
  <2> HIDE DEF A, B, C
  <2> QED
    BY <1>1, <1>4, <2>1 DEF KeptBetween
<1> HIDE DEF A, B, C
<1>7. /\ Len(Filter(s, A)) = R - 0
      /\ Len(Filter(s, B)) = (n - U) - R
      /\ Len(Filter(s, C)) = n - (n - U)
  <2>1. s \in Seq(E)
    BY <1>4
  <2>2. Len(Filter(s, A)) = R - 0
    BY <1>6, <2>1, FilterInterval, Zenon
  <2>3. Len(Filter(s, B)) = (n - U) - R
    BY <1>6, <2>1, FilterInterval, Zenon
  <2>4. Len(Filter(s, C)) = n - (n - U)
    BY <1>6, <2>1, FilterInterval, Zenon
  <2> QED
    BY <2>2, <2>3, <2>4
<1>8. /\ Solana!Summary(s).Signers = R - 0
      /\ Solana!Summary(s).Writable = (n - U) - R
      /\ Solana!Summary(s).ReadOnly = n - (n - U)
  BY <1>5, <1>7
<1>9. /\ Solana!Summary(s).Signers = R
      /\ Solana!Summary(s).ReadOnly = U
      /\ Solana!Summary(s).Signers + Solana!Summary(s).Writable + Solana!Summary(s).ReadOnly = n
  BY <1>1, <1>8
<1> QED
  BY <1>9 DEF s, n, R, U

(* The sort by importance moves no Solana account from its index; each is  *)
(* shown as signer and as writable exactly where the runtime reads the     *)
(* header so, and the summary counts it once (decode_accounts and          *)
(* create_accounts_advanced_preview_layout).                               *)
THEOREM AccountsAreRead == Spec => []AccountsAsTheRuntimeReadsThem
<1>1. SolanaInv => AccountsAsTheRuntimeReadsThem
  <2> SUFFICES ASSUME SolanaInv, chain = "Solana", outcome.is = "rows"
               PROVE  Solana!AccountsAsTheRuntimeReadsThem
    BY Zenon DEF AccountsAsTheRuntimeReadsThem, Solana!AccountsAsTheRuntimeReadsThem
  <2> DEFINE m == message
             n == Len(m.account_keys)
             s == Solana!Infos(m)
  <2>1. Solana!IsMessage(m) /\ outcome = Solana!convert_versioned_to_visual_sign_payload(m)
    BY MessagesAssumption, SolanaRows DEF SolanaInv
  <2>2. PICK a, b, c : SolanaLaidOut(m, a, b, c, outcome.rows)
    BY <2>1, SolanaShown, Zenon
  <2>3. Solana!Accounts = <<SolanaAccounts(m)>>
    BY <2>1, <2>2, SolanaLabelled, SolanaPicked DEF Solana!Accounts
  <2>4. /\ Solana!Accounts[1].accounts = s
        /\ Solana!Accounts[1].summary = Solana!Summary(s)
        /\ Solana!Accounts[1].subtitle = Len(s)
    BY <2>3 DEF SolanaAccounts, Solana!create_accounts_advanced_preview_layout
  <2>5. /\ DOMAIN s = 1..n /\ n \in Nat
        /\ \A k \in 1..n : s[k] = SolanaInfo(m, k)
    BY <2>1, SolanaInfos DEF Solana!IsMessage
  <2>6. Len(s) = n
    <3> HIDE DEF s, n
    <3> QED
      BY <2>5
  <2> HIDE DEF s, n, m
  <2>7. /\ \A k \in DOMAIN s : s[k].index = k - 1 /\ s[k].address = Solana!Key(m, k - 1)
        /\ \A k \in 1..n : /\ s[k].index = k - 1
                            /\ s[k].signer = Solana!IsSigner(m, k - 1)
                            /\ s[k].writable = Solana!IsWritable(m, k - 1)
    BY <2>5 DEF SolanaInfo
  <2>8. ASSUME Solana!Consistent(m)
        PROVE  /\ Solana!Summary(s).Signers = m.required_signatures
               /\ Solana!Summary(s).ReadOnly = m.readonly_unsigned
               /\ Solana!Summary(s).Signers + Solana!Summary(s).Writable
                    + Solana!Summary(s).ReadOnly = Len(s)
    <3>1. /\ Solana!Summary(Solana!Infos(m)).Signers = m.required_signatures
          /\ Solana!Summary(Solana!Infos(m)).ReadOnly = m.readonly_unsigned
          /\ Solana!Summary(Solana!Infos(m)).Signers + Solana!Summary(Solana!Infos(m)).Writable
               + Solana!Summary(Solana!Infos(m)).ReadOnly = Len(m.account_keys)
      BY <2>1, <2>8, SolanaSummary, Zenon
    <3> QED
      BY <2>6, <3>1, Zenon DEF n, s
  <2>9. ASSUME Solana!Consistent(m), NEW x \in Solana!ToSet(s)
        PROVE  /\ x.signer = (x.index < m.required_signatures)
               /\ x.writable =
                    (\/ x.index < m.required_signatures - m.readonly_signed
                     \/ /\ x.index >= m.required_signatures
                        /\ x.index < n - m.readonly_unsigned)
    <3>1. PICK k \in 1..n : x = s[k]
      BY <2>5, <2>9 DEF Solana!ToSet
    <3>2. x.index = k - 1 /\ x.signer = Solana!IsSigner(m, k - 1)
          /\ x.writable = Solana!IsWritable(m, k - 1)
      BY <2>7, <3>1
    <3>3. /\ Solana!IsSigner(m, k - 1) <=> k - 1 < m.required_signatures
          /\ Solana!IsWritable(m, k - 1) <=>
               \/ k - 1 < m.required_signatures - m.readonly_signed
               \/ /\ k - 1 >= m.required_signatures
                  /\ k - 1 < n - m.readonly_unsigned
      BY <2>1, <2>9, SolanaRights DEF n
    <3>4. /\ Solana!IsSigner(m, k - 1) \in BOOLEAN
          /\ Solana!IsWritable(m, k - 1) \in BOOLEAN
      BY DEF Solana!IsSigner, Solana!IsWritable
    <3> DEFINE writable == \/ x.index < m.required_signatures - m.readonly_signed
                           \/ /\ x.index >= m.required_signatures
                              /\ x.index < n - m.readonly_unsigned
    <3>5. x.signer = (x.index < m.required_signatures)
      BY <3>2, <3>3, <3>4
    <3>6. x.writable = writable
      <4>1. (x.writable <=> writable) /\ x.writable \in BOOLEAN
        BY <3>2, <3>3, <3>4
      <4>2. writable \in BOOLEAN
        OBVIOUS
      <4> HIDE DEF writable
      <4> QED
        BY <4>1, <4>2
    <3> QED
      BY <3>5, <3>6
  <2> QED
    BY <2>4, <2>6, <2>7, <2>8, <2>9, Zenon DEF Solana!AccountsAsTheRuntimeReadsThem, n, m
<1> QED
  BY <1>1, SolanaOutcome, PTL


-----------------------------------------------------------------------------
(* The rows of Solana's previews.                                          *)

IsTuple(s) == s \in Seq(Range(s))

LEMMA TupleRanges ==
  /\ IsTuple(<<>>) /\ Range(<<>>) = {}
  /\ \A a : IsTuple(<<a>>) /\ Range(<<a>>) = {a}
  /\ \A a, b : IsTuple(<<a, b>>) /\ Range(<<a, b>>) = {a, b}
  /\ \A a, b, c : IsTuple(<<a, b, c>>) /\ Range(<<a, b, c>>) = {a, b, c}
  /\ \A a, b, c, d : IsTuple(<<a, b, c, d>>) /\ Range(<<a, b, c, d>>) = {a, b, c, d}
<1>1. Range(<<>>) = {}
  BY DEF Range
<1>2. \A a : Range(<<a>>) = {a}
  BY DEF Range
<1>3. \A a, b : Range(<<a, b>>) = {a, b}
  BY DEF Range
<1>4. \A a, b, c : Range(<<a, b, c>>) = {a, b, c}
  BY DEF Range
<1>5. \A a, b, c, d : Range(<<a, b, c, d>>) = {a, b, c, d}
  BY DEF Range
<1>6. <<>> \in Seq({})
  BY EmptyIsSeq
<1>7. \A a : <<a>> \in Seq({a})
  OBVIOUS
<1>8. \A a, b : <<a, b>> \in Seq({a, b})
  OBVIOUS
<1>9. \A a, b, c : <<a, b, c>> \in Seq({a, b, c})
  OBVIOUS
<1>10. \A a, b, c, d : <<a, b, c, d>> \in Seq({a, b, c, d})
  OBVIOUS
<1> QED
  <2>1. IsTuple(<<>>)
    BY <1>1, <1>6 DEF IsTuple
  <2>2. \A a : IsTuple(<<a>>)
    BY <1>2, <1>7 DEF IsTuple
  <2>3. \A a, b : IsTuple(<<a, b>>)
    BY <1>3, <1>8 DEF IsTuple
  <2>4. \A a, b, c : IsTuple(<<a, b, c>>)
    BY <1>4, <1>9 DEF IsTuple
  <2>5. \A a, b, c, d : IsTuple(<<a, b, c, d>>)
    BY <1>5, <1>10 DEF IsTuple
  <2> QED
    BY <1>1, <1>2, <1>3, <1>4, <1>5, <2>1, <2>2, <2>3, <2>4, <2>5

LEMMA TupleConcat ==
  ASSUME NEW s, NEW t, IsTuple(s), IsTuple(t)
  PROVE  /\ IsTuple(s \o t)
         /\ Range(s \o t) = Range(s) \cup Range(t)
         /\ \A k \in 1..Len(s) : (s \o t)[k] = s[k]
<1> DEFINE E == Range(s) \cup Range(t)
           u == s \o t
<1>1. s \in Seq(E) /\ t \in Seq(E)
  BY SeqMonotonic DEF IsTuple
<1> HIDE DEF E
<1>2. u \in Seq(E)
  BY <1>1
<1>3. IsTuple(u)
  BY <1>2, SeqOfRange DEF IsTuple
<1>4. Range(u) = Range(s) \cup Range(t)
  BY <1>1, RangeConcatenation
<1>5. \A k \in 1..Len(s) : u[k] = s[k]
  BY <1>1
<1> QED
  BY <1>3, <1>4, <1>5

LEMMA SolanaToSet == \A s : Solana!ToSet(s) = Range(s)
BY DEF Solana!ToSet, Range

(* The rows of a swap, as a set.                                           *)
SwapRows(i, in, out) ==
  LET args == Solana!parse_amounts_and_slippage_from_data(i.data)
  IN  {<<"Program_ID", i.program>>, <<"Slippage", args.slippage_bps>>, <<"Raw_Data", i.data>>}
      \cup (IF in = <<>> THEN {}
            ELSE {<<"Input_Token", in[1].symbol>>, <<"Input_Amount", args.in_amount>>,
                  <<"Input_Token_Name", in[1].name>>})
      \cup (IF out = <<>> THEN {}
            ELSE {<<"Output_Token", out[1].symbol>>, <<"Quoted_Output_Amount", args.out_amount>>,
                  <<"Output_Token_Name", out[1].name>>,
                  <<"Output_Token_Address", out[1].address>>})
      \cup (IF args.platform_fee_bps > 0 THEN {<<"Platform_Fee", args.platform_fee_bps>>} ELSE {})

LEMMA SwapRowsShown ==
  ASSUME NEW i, NEW in, NEW out
  PROVE  Range(Solana!create_jupiter_swap_expanded_fields(i, in, out)) = SwapRows(i, in, out)
<1> DEFINE args == Solana!parse_amounts_and_slippage_from_data(i.data)
           a == << <<"Program_ID", i.program>> >>
           b == IF in = <<>> THEN <<>>
                ELSE << <<"Input_Token", in[1].symbol>>,
                        <<"Input_Amount", args.in_amount>>,
                        <<"Input_Token_Name", in[1].name>> >>
           c == IF out = <<>> THEN <<>>
                ELSE << <<"Output_Token", out[1].symbol>>,
                        <<"Quoted_Output_Amount", args.out_amount>>,
                        <<"Output_Token_Name", out[1].name>>,
                        <<"Output_Token_Address", out[1].address>> >>
           d == << <<"Slippage", args.slippage_bps>> >>
           e == IF args.platform_fee_bps > 0 THEN << <<"Platform_Fee", args.platform_fee_bps>> >>
                ELSE <<>>
           f == << <<"Raw_Data", i.data>> >>
<1>1. Solana!create_jupiter_swap_expanded_fields(i, in, out) = a \o b \o c \o d \o e \o f
  BY Zenon DEF Solana!create_jupiter_swap_expanded_fields
<1>2. IsTuple(a) /\ Range(a) = {<<"Program_ID", i.program>>}
  BY TupleRanges, Zenon
<1>3. IsTuple(b) /\ Range(b) = IF in = <<>> THEN {}
            ELSE {<<"Input_Token", in[1].symbol>>, <<"Input_Amount", args.in_amount>>,
                  <<"Input_Token_Name", in[1].name>>}
  <2>1. CASE in = <<>>
    BY <2>1, TupleRanges, Zenon
  <2>2. CASE in # <<>>
    BY <2>2, TupleRanges
  <2> QED
    BY <2>1, <2>2
<1>4. IsTuple(c) /\ Range(c) = IF out = <<>> THEN {}
            ELSE {<<"Output_Token", out[1].symbol>>, <<"Quoted_Output_Amount", args.out_amount>>,
                  <<"Output_Token_Name", out[1].name>>,
                  <<"Output_Token_Address", out[1].address>>}
  <2>1. CASE out = <<>>
    BY <2>1, TupleRanges, Zenon
  <2>2. CASE out # <<>>
    BY <2>2, TupleRanges
  <2> QED
    BY <2>1, <2>2
<1>5. IsTuple(d) /\ Range(d) = {<<"Slippage", args.slippage_bps>>}
  BY TupleRanges, Zenon
<1>6. IsTuple(e) /\ Range(e) = IF args.platform_fee_bps > 0
                               THEN {<<"Platform_Fee", args.platform_fee_bps>>} ELSE {}
  BY TupleRanges, Zenon
<1>7. IsTuple(f) /\ Range(f) = {<<"Raw_Data", i.data>>}
  BY TupleRanges, Zenon
<1> HIDE DEF a, b, c, d, e, f
<1>8. IsTuple(a \o b) /\ Range(a \o b) = Range(a) \cup Range(b)
  BY <1>2, <1>3, TupleConcat
<1>9. IsTuple(a \o b \o c) /\ Range(a \o b \o c) = Range(a \o b) \cup Range(c)
  BY <1>4, <1>8, TupleConcat
<1>10. IsTuple(a \o b \o c \o d) /\ Range(a \o b \o c \o d) = Range(a \o b \o c) \cup Range(d)
  BY <1>5, <1>9, TupleConcat
<1>11. IsTuple(a \o b \o c \o d \o e)
       /\ Range(a \o b \o c \o d \o e) = Range(a \o b \o c \o d) \cup Range(e)
  BY <1>6, <1>10, TupleConcat
<1>12. Range(a \o b \o c \o d \o e \o f) = Range(a \o b \o c \o d \o e) \cup Range(f)
  BY <1>7, <1>11, TupleConcat
<1>13. Range(a \o b \o c \o d \o e \o f) =
         Range(a) \cup Range(b) \cup Range(c) \cup Range(d) \cup Range(e) \cup Range(f)
  BY <1>8, <1>9, <1>10, <1>11, <1>12, Zenon
<1> DEFINE rb == Range(b)
           rc == Range(c)
           re == Range(e)
<1>14. SwapRows(i, in, out) = {<<"Program_ID", i.program>>, <<"Slippage", args.slippage_bps>>,
                               <<"Raw_Data", i.data>>} \cup rb \cup rc \cup re
  BY <1>3, <1>4, <1>6, Zenon DEF SwapRows
<1> HIDE DEF rb, rc, re
<1> QED
  BY <1>1, <1>2, <1>5, <1>7, <1>13, <1>14 DEF rb, rc, re


(* Which previews have a row that names an account by its position: those  *)
(* of swaps, and of the creation of accounts.                              *)
NamingLabels == {"Payer", "New_Account", "Input_Token", "Output_Token_Address"}
NamesNothing(p) == \A r \in Range(p.expanded) : r[1] \notin NamingLabels

IsSwap(i, p) ==
  /\ Len(i.data) >= 19
  /\ \E name : p = Solana!Preview(
       Solana!format_jupiter_swap_instruction(i, name, Solana!TokenAt(i, 0), Solana!TokenAt(i, 5)),
       << <<"Instruction", Solana!format_jupiter_swap_instruction(i, name, Solana!TokenAt(i, 0),
                                                                  Solana!TokenAt(i, 5))>> >>,
       Solana!create_jupiter_swap_expanded_fields(i, Solana!TokenAt(i, 0), Solana!TokenAt(i, 5)))

IsCreation(i, p) ==
  \A r \in Range(p.expanded) : r[1] \in NamingLabels =>
    \/ r = <<"New_Account", Solana!AccountAt(i, 1)>>
    \/ r = <<"Payer", Solana!AccountAt(i, 0)>>

LEMMA SolanaPreviewParts ==
  \A t, c, e : /\ Solana!Preview(t, c, e).expanded = e
               /\ Solana!Preview(t, c, e).title = t
               /\ Solana!Preview(t, c, e) # Solana!Rejected
BY DEF Solana!Preview, Solana!Rejected

LEMMA PairLabels == \A l, x : <<l, x>>[1] = l /\ <<l, x>>[2] = x
OBVIOUS

LEMMA SystemPreviews ==
  ASSUME NEW i, Solana!SystemVisualizer(i) # Solana!Rejected
  PROVE  \/ NamesNothing(Solana!SystemVisualizer(i))
         \/ IsCreation(i, Solana!SystemVisualizer(i))
<1> DEFINE args == SystemInstruction[i.data]
           p == Solana!SystemVisualizer(i)
<1>1. p = CASE args.name = "Transfer" -> Solana!TransferPreview(i, args)
            [] args.name = "CreateAccount" -> Solana!CreateAccountPreview(i, args)
            [] OTHER -> Solana!OtherSystemPreview(args)
  BY DEF Solana!SystemVisualizer
<1>2. CASE args.name = "Transfer"
  <2>1. p.expanded = << <<"Program_ID", i.program>>,
                        <<"Transfer_Amount", args.lamports>>,
                        <<"Raw_Data", i.data>> >>
    BY <1>1, <1>2, SolanaPreviewParts DEF Solana!TransferPreview
  <2>2. Range(p.expanded) = {<<"Program_ID", i.program>>, <<"Transfer_Amount", args.lamports>>,
                             <<"Raw_Data", i.data>>}
    BY <2>1, TupleRanges
  <2> QED
    BY <2>2 DEF NamesNothing, NamingLabels
<1>3. CASE args.name = "CreateAccount"
  <2> DEFINE n == <<"New_Account", Solana!AccountAt(i, 1)>>
             y == <<"Payer", Solana!AccountAt(i, 0)>>
             t1 == <<"Action", <<"Create_Account">> >>
             t2 == <<"Space_(bytes)", args.space>>
             t3 == <<"Rent_(lamports)", args.lamports>>
             t4 == <<"Owner_Program", args.owner>>
             t5 == <<"Program", "System_Program">>
  <2>1. p.expanded = <<t1, n, y, t2, t3, t4, t5>>
    BY <1>1, <1>3, SolanaPreviewParts DEF Solana!CreateAccountPreview
  <2>2. \A t \in {t1, t2, t3, t4, t5} : t[1] \notin NamingLabels
    BY DEF NamingLabels
  <2> HIDE DEF n, y, t1, t2, t3, t4, t5, p
  <2>3. Range(p.expanded) = {t1, n, y, t2, t3, t4, t5}
    BY <2>1 DEF Range
  <2>4. ASSUME NEW r \in Range(p.expanded), r[1] \in NamingLabels PROVE r = n \/ r = y
    BY <2>2, <2>3, <2>4
  <2> QED
    BY <2>4, Zenon DEF IsCreation, n, y, p
<1>4. CASE args.name # "Transfer" /\ args.name # "CreateAccount"
  <2>1. p.expanded = << <<"Action", Solana!system_instruction_label(args)>>,
                        <<"Program", "System_Program">>,
                        <<"Instruction_Data", args>> >>
    BY <1>1, <1>4, SolanaPreviewParts DEF Solana!OtherSystemPreview
  <2>2. Range(p.expanded) = {<<"Action", Solana!system_instruction_label(args)>>,
                             <<"Program", "System_Program">>, <<"Instruction_Data", args>>}
    BY <2>1, TupleRanges
  <2> QED
    BY <2>2 DEF NamesNothing, NamingLabels
<1> QED
  BY <1>2, <1>3, <1>4

LEMMA JupiterPreviews ==
  ASSUME NEW i, Solana!JupiterSwapVisualizer(i) # Solana!Rejected, Len(i.data) \in Nat
  PROVE  \/ NamesNothing(Solana!JupiterSwapVisualizer(i))
         \/ IsSwap(i, Solana!JupiterSwapVisualizer(i))
<1> DEFINE p == Solana!JupiterSwapVisualizer(i)
<1>0. ~(Len(i.data) < 8)
  BY DEF Solana!JupiterSwapVisualizer
<1>1. CASE Solana!Routes(i.data) = {}
  <2>1. p.expanded = << <<"Program_ID", i.program>>,
                        <<"Status", "Unknown_Jupiter_instruction_type">>,
                        <<"Raw_Data", i.data>> >>
    BY <1>0, <1>1, SolanaPreviewParts DEF Solana!JupiterSwapVisualizer, Solana!UnknownJupiter
  <2>2. Range(p.expanded) = {<<"Program_ID", i.program>>,
                             <<"Status", "Unknown_Jupiter_instruction_type">>,
                             <<"Raw_Data", i.data>>}
    BY <2>1, TupleRanges
  <2> QED
    BY <2>2 DEF NamesNothing, NamingLabels
<1>2. CASE Solana!Routes(i.data) # {}
  <2>1. ~(Len(i.data) < 19)
    BY <1>0, <1>2 DEF Solana!JupiterSwapVisualizer
  <2>2. Len(i.data) >= 19
    BY <2>1
  <2>3. \E name : p = Solana!Preview(
       Solana!format_jupiter_swap_instruction(i, name, Solana!TokenAt(i, 0), Solana!TokenAt(i, 5)),
       << <<"Instruction", Solana!format_jupiter_swap_instruction(i, name, Solana!TokenAt(i, 0),
                                                                  Solana!TokenAt(i, 5))>> >>,
       Solana!create_jupiter_swap_expanded_fields(i, Solana!TokenAt(i, 0), Solana!TokenAt(i, 5)))
    BY <1>0, <1>2, <2>1, Zenon DEF Solana!JupiterSwapVisualizer
  <2> QED
    BY <2>2, <2>3, Zenon DEF IsSwap
<1> QED
  BY <1>1, <1>2

LEMMA OtherPreviews ==
  ASSUME NEW i
  PROVE  /\ Solana!ComputeBudgetVisualizer(i) # Solana!Rejected
              => NamesNothing(Solana!ComputeBudgetVisualizer(i))
         /\ Solana!AssociatedTokenAccountVisualizer(i) # Solana!Rejected
              => NamesNothing(Solana!AssociatedTokenAccountVisualizer(i))
         /\ Solana!StakepoolVisualizer(i) # Solana!Rejected
              => NamesNothing(Solana!StakepoolVisualizer(i))
         /\ NamesNothing(Solana!UnknownProgramVisualizer(i))
<1>1. ASSUME Solana!ComputeBudgetVisualizer(i) # Solana!Rejected
      PROVE  NamesNothing(Solana!ComputeBudgetVisualizer(i))
  <2> DEFINE args == ComputeBudgetInstruction[i.data]
             x == << <<"Program_ID", i.program>> >>
             y == IF args.name = "Unused" THEN <<>>
                  ELSE << <<Solana!NumberLabel[args.name], args.number>> >>
             z == << <<"Raw_Data", i.data>> >>
  <2>1. i.data \in DOMAIN ComputeBudgetInstruction
    BY <1>1 DEF Solana!ComputeBudgetVisualizer
  <2>2. Solana!ComputeBudgetVisualizer(i).expanded = x \o y \o z
    <3>1. \E t, c : Solana!ComputeBudgetVisualizer(i) =
            Solana!Preview(t, c, Solana!create_compute_budget_expanded_fields(i, args))
      BY <2>1, Zenon DEF Solana!ComputeBudgetVisualizer
    <3>2. Solana!create_compute_budget_expanded_fields(i, args) = x \o y \o z
      BY Zenon DEF Solana!create_compute_budget_expanded_fields
    <3>3. PICK t, c : Solana!ComputeBudgetVisualizer(i) =
            Solana!Preview(t, c, Solana!create_compute_budget_expanded_fields(i, args))
      BY <3>1, Zenon
    <3> HIDE DEF x, y, z, args
    <3>4. Solana!ComputeBudgetVisualizer(i).expanded =
            Solana!create_compute_budget_expanded_fields(i, args)
      BY <3>3, SolanaPreviewParts
    <3> QED
      BY <3>2, <3>4, Zenon
  <2>3. IsTuple(x) /\ \A r \in Range(x) : r[1] \notin NamingLabels
    BY TupleRanges DEF NamingLabels
  <2>4. IsTuple(y) /\ \A r \in Range(y) : r[1] \notin NamingLabels
    <3>1. CASE args.name = "Unused"
      BY <3>1, TupleRanges, Zenon
    <3>2. CASE args.name # "Unused"
      <4>1. args.name \in DOMAIN Solana!NumberLabel
        BY <2>1, <3>2, BudgetAssumption DEF Solana!IsComputeBudgetInstruction
      <4>2. Solana!NumberLabel[args.name] \notin NamingLabels
        BY <4>1 DEF Solana!NumberLabel, NamingLabels
      <4> DEFINE label == Solana!NumberLabel[args.name]
                 number == args.number
      <4>3. Range(y) = {<<label, number>>} /\ IsTuple(y)
        BY <3>2, TupleRanges, Zenon
      <4> HIDE DEF label, number
      <4>4. <<label, number>>[1] \notin NamingLabels
        BY <4>2, PairLabels, Zenon DEF label
      <4> QED
        BY <4>3, <4>4, Zenon
    <3> QED
      BY <3>1, <3>2
  <2>5. IsTuple(z) /\ \A r \in Range(z) : r[1] \notin NamingLabels
    BY TupleRanges DEF NamingLabels
  <2> HIDE DEF x, y, z
  <2>6. IsTuple(x \o y) /\ Range(x \o y) = Range(x) \cup Range(y)
    BY <2>3, <2>4, TupleConcat
  <2>7. Range(x \o y \o z) = Range(x \o y) \cup Range(z)
    BY <2>5, <2>6, TupleConcat
  <2> QED
    BY <2>2, <2>3, <2>4, <2>5, <2>6, <2>7, Zenon DEF NamesNothing
<1>2. ASSUME Solana!AssociatedTokenAccountVisualizer(i) # Solana!Rejected
      PROVE  NamesNothing(Solana!AssociatedTokenAccountVisualizer(i))
  <2> DEFINE text == Solana!parse_ata_instruction(i.data)
  <2>1. Solana!AssociatedTokenAccountVisualizer(i).expanded =
          << <<"Program_ID", i.program>>, <<"Instruction", <<text>> >> >>
    BY <1>2, SolanaPreviewParts, Zenon DEF Solana!AssociatedTokenAccountVisualizer
  <2> QED
    BY <2>1, TupleRanges DEF NamesNothing, NamingLabels
<1>3. ASSUME Solana!StakepoolVisualizer(i) # Solana!Rejected
      PROVE  NamesNothing(Solana!StakepoolVisualizer(i))
  <2> DEFINE name == StakePoolInstruction[i.data].name
  <2>1. Solana!StakepoolVisualizer(i).expanded = << <<"Stake_Pool_Instruction", name>> >>
    BY <1>3, SolanaPreviewParts, Zenon DEF Solana!StakepoolVisualizer
  <2> QED
    BY <2>1, TupleRanges DEF NamesNothing, NamingLabels
<1>4. NamesNothing(Solana!UnknownProgramVisualizer(i))
  <2>1. Solana!UnknownProgramVisualizer(i).expanded =
          << <<"Program_ID", i.program>>, <<"Instruction_Data", i.data>> >>
    BY SolanaPreviewParts, Zenon DEF Solana!UnknownProgramVisualizer
  <2> QED
    BY <2>1, TupleRanges DEF NamesNothing, NamingLabels
<1> QED
  BY <1>1, <1>2, <1>3, <1>4

LEMMA SolanaPreviews ==
  ASSUME NEW i, Solana!VisualizeInstruction(i) # Solana!Rejected, Len(i.data) \in Nat
  PROVE  \/ NamesNothing(Solana!VisualizeInstruction(i))
         \/ IsCreation(i, Solana!VisualizeInstruction(i))
         \/ IsSwap(i, Solana!VisualizeInstruction(i))
<1> DEFINE p == Solana!VisualizeInstruction(i)
<1>1. \/ p = Solana!SystemVisualizer(i)
      \/ p = Solana!JupiterSwapVisualizer(i)
      \/ p = Solana!ComputeBudgetVisualizer(i)
      \/ p = Solana!AssociatedTokenAccountVisualizer(i)
      \/ p = Solana!StakepoolVisualizer(i)
      \/ p = Solana!UnknownProgramVisualizer(i)
  BY ProgramsAssumption DEF Solana!VisualizeInstruction
<1> HIDE DEF p
<1>2. p # Solana!Rejected
  BY DEF p
<1> QED
  BY <1>1, <1>2, SystemPreviews, JupiterPreviews, OtherPreviews DEF p

(* Whether its instruction is resolved or known only in part, an account   *)
(* is found at its position if all up to it are in the message.            *)
Reached(m, ci, i) ==
  \A q \in Nat : q < Len(ci.accounts) /\ (\A j \in 1..(q + 1) : Solana!InMessage(m, ci.accounts[j])) =>
    /\ Solana!HasAccount(i, q)
    /\ Solana!AccountAt(i, q) = Solana!Key(m, ci.accounts[q + 1])

LEMMA SolanaReached ==
  ASSUME NEW m, Solana!IsMessage(m), NEW ci, Solana!IsInstruction(ci)
  PROVE  /\ Reached(m, ci, Solana!Resolved(m, ci))
         /\ Reached(m, ci, Solana!Known(m, ci))
<1> DEFINE s == ci.accounts
           n == Len(m.account_keys)
           f == Filter(s, Solana!IndexSet(m))
<1>0. s \in Seq(Nat) /\ n \in Nat
  BY LenProperties DEF Solana!IsInstruction, Solana!IsMessage
<1>1. \A x : Solana!Resolved(m, x).accounts = [k \in DOMAIN x.accounts |-> Solana!Key(m, x.accounts[k])]
  BY Zenon DEF Solana!Resolved, Solana!Map
<1>2. ASSUME NEW i, NEW t \in Seq(Nat), i.accounts = [k \in DOMAIN t |-> Solana!Key(m, t[k])],
             NEW q \in Nat, q < Len(t)
      PROVE  Solana!HasAccount(i, q) /\ Solana!AccountAt(i, q) = Solana!Key(m, t[q + 1])
  <2>1. DOMAIN t = 1..Len(t) /\ Len(t) \in Nat
    OBVIOUS
  <2>2. Len(i.accounts) = Len(t) /\ i.accounts[q + 1] = Solana!Key(m, t[q + 1])
    BY <1>2, <2>1
  <2> QED
    BY <1>2, <2>2 DEF Solana!HasAccount, Solana!AccountAt
<1>3. Reached(m, ci, Solana!Resolved(m, ci))
  <2>0. s \in Seq(Nat)
    BY <1>0
  <2>1. Solana!Resolved(m, ci).accounts = [k \in DOMAIN s |-> Solana!Key(m, s[k])]
    BY <1>1, Zenon
  <2> HIDE DEF s
  <2>2. \A q \in Nat : q < Len(s) =>
          /\ Solana!HasAccount(Solana!Resolved(m, ci), q)
          /\ Solana!AccountAt(Solana!Resolved(m, ci), q) = Solana!Key(m, s[q + 1])
    BY <1>2, <2>0, <2>1, Zenon
  <2> QED
    BY <2>2, Zenon DEF Reached, s
<1>4. Solana!Known(m, ci).accounts = [k \in DOMAIN f |-> Solana!Key(m, f[k])]
  <2> DEFINE e == [ci EXCEPT !.accounts = f]
  <2>1. ci = [program |-> ci.program, accounts |-> ci.accounts, data |-> ci.data]
    BY DEF Solana!IsInstruction
  <2>2. Solana!Known(m, ci) = Solana!Resolved(m, e)
    BY SolanaFilter, Zenon DEF Solana!Known
  <2> HIDE DEF f
  <2>3. e.accounts = f
    BY <2>1
  <2> HIDE DEF e
  <2> QED
    BY <1>1, <2>2, <2>3
<1>5. ASSUME NEW q \in Nat, q < Len(s), \A j \in 1..(q + 1) : Solana!InMessage(m, s[j])
      PROVE  /\ Solana!HasAccount(Solana!Known(m, ci), q)
             /\ Solana!AccountAt(Solana!Known(m, ci), q) = Solana!Key(m, s[q + 1])
  <2>1. \A j \in 1..(q + 1) : s[j] \in Solana!IndexSet(m)
    BY <1>0, <1>5 DEF Solana!InMessage, Solana!IndexSet
  <2>2. q + 1 \in 0..Len(s)
    BY <1>0, <1>5
  <2> HIDE DEF s
  <2>3. f \in Seq(Nat) /\ q + 1 <= Len(f) /\ \A j \in 1..(q + 1) : f[j] = s[j]
    BY <1>0, <2>1, <2>2, FilterPrefix
  <2> HIDE DEF f
  <2>4. q < Len(f) /\ f[q + 1] = s[q + 1]
    BY <2>3
  <2>5. f \in Seq(Nat)
    BY <2>3
  <2> QED
    BY <1>2, <1>4, <2>4, <2>5, Zenon
<1> QED
  BY <1>3, <1>5 DEF Reached

(* Then what a preview names by position is the account that has it.       *)
NamesReached(m, ci, p) ==
  \A r \in Range(p.expanded) : r[1] \in NamingLabels =>
    LET q == Solana!Positions[r[1]]
    IN  q < Len(ci.accounts) /\ (\A j \in 1..(q + 1) : Solana!InMessage(m, ci.accounts[j])) =>
          r[2] = Solana!Naming(r[1], Solana!Key(m, ci.accounts[q + 1]))

LEMMA SwapNames ==
  ASSUME NEW i, NEW p, IsSwap(i, p), NEW r \in Range(p.expanded), r[1] \in NamingLabels
  PROVE  \/ /\ r[1] = "Input_Token"
            /\ Solana!HasAccount(i, 0)
            /\ r[2] = Solana!get_token_info(Solana!AccountAt(i, 0)).symbol
         \/ /\ r[1] = "Output_Token_Address"
            /\ Solana!HasAccount(i, 5)
            /\ r[2] = Solana!AccountAt(i, 5)
<1> DEFINE in == Solana!TokenAt(i, 0)
           out == Solana!TokenAt(i, 5)
<1>1. p.expanded = Solana!create_jupiter_swap_expanded_fields(i, in, out)
  <2>1. PICK t, c : p = Solana!Preview(t, c, Solana!create_jupiter_swap_expanded_fields(i, in, out))
    BY Zenon DEF IsSwap
  <2> QED
    BY <2>1, SolanaPreviewParts, Zenon
<1>2. r \in SwapRows(i, in, out)
  BY <1>1, SwapRowsShown, Zenon
<1>3. \/ in # <<>> /\ r = <<"Input_Token", in[1].symbol>>
      \/ out # <<>> /\ r = <<"Output_Token_Address", out[1].address>>
  BY <1>2 DEF SwapRows, NamingLabels
<1>4. \A q : Solana!TokenAt(i, q) # <<>> =>
        /\ Solana!HasAccount(i, q)
        /\ Solana!TokenAt(i, q)[1] = Solana!get_token_info(Solana!AccountAt(i, q))
  BY DEF Solana!TokenAt
<1>5. \A x : Solana!get_token_info(x).address = x
  BY DEF Solana!get_token_info
<1> HIDE DEF in, out
<1>6. CASE in # <<>> /\ r = <<"Input_Token", in[1].symbol>>
  BY <1>4, <1>6, Zenon DEF in
<1>7. CASE out # <<>> /\ r = <<"Output_Token_Address", out[1].address>>
  BY <1>4, <1>5, <1>7, Zenon DEF out
<1> QED
  BY <1>3, <1>6, <1>7

LEMMA SolanaNames ==
  ASSUME NEW m, NEW ci, NEW i, NEW p, Reached(m, ci, i),
         NamesNothing(p) \/ IsCreation(i, p) \/ IsSwap(i, p)
  PROVE  NamesReached(m, ci, p)
<1> SUFFICES ASSUME NEW r \in Range(p.expanded), r[1] \in NamingLabels,
                    Solana!Positions[r[1]] < Len(ci.accounts),
                    \A j \in 1..(Solana!Positions[r[1]] + 1) : Solana!InMessage(m, ci.accounts[j])
             PROVE  r[2] = Solana!Naming(r[1], Solana!Key(m, ci.accounts[Solana!Positions[r[1]] + 1]))
  BY DEF NamesReached
<1> DEFINE q == Solana!Positions[r[1]]
<1>0. q \in Nat
  BY DEF Solana!Positions, NamingLabels
<1>1. Solana!AccountAt(i, q) = Solana!Key(m, ci.accounts[q + 1])
  BY <1>0 DEF Reached
<1> DEFINE key == Solana!Key(m, ci.accounts[q + 1])
<1> HIDE DEF key
<1>2. CASE NamesNothing(p)
  BY <1>2 DEF NamesNothing
<1>3. CASE IsCreation(i, p)
  <2>1. \/ r = <<"New_Account", Solana!AccountAt(i, 1)>>
        \/ r = <<"Payer", Solana!AccountAt(i, 0)>>
    BY <1>3, Zenon DEF IsCreation
  <2>2. r[2] = key
    BY <1>1, <2>1 DEF Solana!Positions, key
  <2> QED
    BY <2>1, <2>2 DEF Solana!Naming, key
<1>4. CASE IsSwap(i, p)
  <2>1. \/ /\ r[1] = "Input_Token"
           /\ r[2] = Solana!get_token_info(Solana!AccountAt(i, 0)).symbol
        \/ /\ r[1] = "Output_Token_Address"
           /\ r[2] = Solana!AccountAt(i, 5)
    BY <1>4, SwapNames, Zenon
  <2> QED
    BY <1>1, <2>1 DEF Solana!Naming, Solana!Positions
<1> QED
  BY <1>2, <1>3, <1>4

(* Each row among the instructions is the field of one of them, resolved   *)
(* or known in part, which is not turned down; if the message is           *)
(* consistent, of the one that has its place.                              *)
ShownFor(m, k, i, ci) ==
  /\ Solana!VisualizeInstruction(i) # Solana!Rejected
  /\ Solana!IsInstruction(ci)
  /\ i \in {Solana!Resolved(m, ci), Solana!Known(m, ci)}
  /\ Solana!Consistent(m) => ci = m.instructions[k]

LEMMA SolanaInstructionsShown ==
  ASSUME NEW m, Solana!IsMessage(m), NEW b, SolanaBetween(m, b),
         NEW k \in DOMAIN Picked(b, "Instruction")
  PROVE  \E i, ci : Picked(b, "Instruction")[k] = Solana!Field(k, i) /\ ShownFor(m, k, i, ci)
<1>0. \A ci \in Range(m.instructions) : Solana!IsInstruction(ci)
  BY DEF Solana!IsMessage, Range
<1>1. ASSUME NEW is \in {LegacyInstructions(m), V0Instructions(m)}, b = SolanaFields(is)
      PROVE  Picked(b, "Instruction") = b
  <2>1. LabelledRows(b, {"Instruction"})
    BY <1>1, SolanaInstructionCounts, SolanaFieldRows
  <2> QED
    BY <2>1, PickedAll
<1>2. ASSUME NEW s \in Seq(Range(m.instructions)), NEW is, DOMAIN is = DOMAIN s,
             \A j \in DOMAIN is : is[j] \in {Solana!Resolved(m, s[j]), Solana!Known(m, s[j])},
             ~SomeRejected(is), Picked(b, "Instruction") = SolanaFields(is),
             Solana!Consistent(m) => s = m.instructions
      PROVE  \E i, ci : Picked(b, "Instruction")[k] = Solana!Field(k, i) /\ ShownFor(m, k, i, ci)
  <2>1. k \in DOMAIN is /\ SolanaFields(is)[k] = Solana!Field(k, is[k])
    BY <1>2 DEF SolanaFields
  <2>2. Solana!VisualizeInstruction(is[k]) # Solana!Rejected
    BY <1>2, <2>1, Zenon DEF SomeRejected
  <2>3. s[k] \in Range(m.instructions)
    BY <1>2, <2>1
  <2>4. Solana!IsInstruction(s[k])
    BY <1>0, <2>3, Zenon
  <2>5. ShownFor(m, k, is[k], s[k])
    BY <1>2, <2>1, <2>2, <2>4, Zenon DEF ShownFor
  <2> QED
    BY <1>2, <2>1, <2>5, Zenon
<1>3. CASE b = SolanaFields(LegacyInstructions(m)) /\ ~SomeRejected(LegacyInstructions(m))
  <2> DEFINE is == LegacyInstructions(m)
  <2>1. Picked(b, "Instruction") = SolanaFields(is)
    BY <1>1, <1>3
  <2>2. DOMAIN is = DOMAIN m.instructions
        /\ \A j \in DOMAIN is : is[j] = Solana!Resolved(m, m.instructions[j])
    BY DEF LegacyInstructions
  <2>3. m.instructions \in Seq(Range(m.instructions)) /\ ~SomeRejected(is)
    BY <1>3, SolanaInstructionCounts
  <2> HIDE DEF is
  <2> QED
    BY <1>2, <2>1, <2>2, <2>3, Zenon
<1>4. CASE b = SolanaFields(V0Instructions(m)) /\ ~SomeRejected(V0Instructions(m))
  <2> DEFINE is == V0Instructions(m)
             s == StaticInstructions(m)
  <2>1. Picked(b, "Instruction") = SolanaFields(is)
    BY <1>1, <1>4
  <2>2. DOMAIN is = DOMAIN s /\ \A j \in DOMAIN is : is[j] = Solana!Known(m, s[j])
    BY DEF V0Instructions
  <2>3. s \in Seq(Range(m.instructions)) /\ ~SomeRejected(is)
    BY <1>4, SolanaInstructionCounts
  <2>4. Solana!Consistent(m) => s = m.instructions
    BY SolanaStatic
  <2> HIDE DEF is, s
  <2> QED
    BY <1>2, <2>1, <2>2, <2>3, <2>4, Zenon
<1>5. CASE b = SolanaNote
  <2>1. LabelledRows(b, {"Instruction_Decoding_Note"})
    BY <1>5, OneRow DEF SolanaNote
  <2>2. Picked(b, "Instruction") = <<>>
    BY <2>1, PickedNone
  <2> QED
    BY <2>2
<1> QED
  BY <1>3, <1>4, <1>5, Zenon DEF SolanaBetween

(* What SolanaShown says of the rows that are an instruction's.            *)
LEMMA SolanaInstructionRows ==
  ASSUME SolanaInv, chain = "Solana", outcome.is = "rows", NEW k \in DOMAIN Solana!Instructions
  PROVE  /\ Solana!IsMessage(message)
         /\ \E i, ci : Solana!Instructions[k] = Solana!Field(k, i) /\ ShownFor(message, k, i, ci)
<1> DEFINE m == message
<1>1. Solana!IsMessage(m) /\ outcome = Solana!convert_versioned_to_visual_sign_payload(m)
  BY MessagesAssumption, SolanaRows DEF SolanaInv
<1>2. PICK a, b, c : SolanaLaidOut(m, a, b, c, outcome.rows)
  BY <1>1, SolanaShown, Zenon
<1>3. SolanaBetween(m, b)
  BY <1>2, Zenon DEF SolanaLaidOut
<1>4. Solana!Instructions = Picked(b, "Instruction")
  BY <1>1, <1>2, SolanaLabelled, SolanaPicked DEF Solana!Instructions, SolanaMiddle
<1> QED
  BY <1>1, <1>3, <1>4, SolanaInstructionsShown, Zenon

(* The data of such an instruction are bytes.                              *)
LEMMA SolanaShownData ==
  ASSUME NEW m, NEW k, NEW i, NEW ci, ShownFor(m, k, i, ci)
  PROVE  i.data \in Seq(0..255) /\ Len(i.data) \in Nat
<1>1. i.data = ci.data
  <2>1. Solana!IsInstruction(ci) /\ i \in {Solana!Resolved(m, ci), Solana!Known(m, ci)}
    BY DEF ShownFor
  <2> QED
    BY <2>1, SolanaProgramAndData, Zenon
<1>2. ci.data \in Seq(0..255)
  BY DEF Solana!IsInstruction, ShownFor
<1>3. i.data \in Seq(0..255)
  BY <1>1, <1>2, Zenon
<1> QED
  BY <1>3

(* As far as a Solana instruction's accounts are in the message, those its *)
(* rows name by position are the ones it has there: leaving out those of   *)
(* the lookup tables, decode_v0_instructions shifts none that comes before.*)
THEOREM NamedAsFarAsKnown == Spec => []NamedUpToLookup
<1>1. SolanaInv => NamedUpToLookup
  <2> SUFFICES ASSUME SolanaInv, chain = "Solana", outcome.is = "rows", Solana!Consistent(message),
                      NEW k \in DOMAIN Solana!Instructions
               PROVE  NamesReached(message, message.instructions[k],
                                   Solana!Instructions[k].preview)
    BY SolanaToSet, Zenon
       DEF NamedUpToLookup, Solana!NamedUpToLookup, NamesReached, Solana!NamingRows, NamingLabels,
           Solana!Positions
  <2>1. Solana!IsMessage(message)
    BY SolanaInstructionRows
  <2>2. PICK i, ci : Solana!Instructions[k] = Solana!Field(k, i) /\ ShownFor(message, k, i, ci)
    BY SolanaInstructionRows
  <2>3. Solana!IsInstruction(ci) /\ ci = message.instructions[k]
    BY <2>2 DEF ShownFor
  <2>4. Reached(message, ci, i)
    BY <2>1, <2>2, <2>3, SolanaReached DEF ShownFor
  <2>5. NamesReached(message, ci, Solana!VisualizeInstruction(i))
    BY <2>2, <2>4, SolanaShownData, SolanaPreviews, SolanaNames, Zenon DEF ShownFor
  <2>6. Solana!Instructions[k].preview = Solana!VisualizeInstruction(i)
    BY <2>2 DEF Solana!Field
  <2> QED
    BY <2>3, <2>5, <2>6, Zenon
<1> QED
  BY <1>1, SolanaOutcome, PTL

-----------------------------------------------------------------------------
(* What the rows of a swap say.                                            *)

LEMMA OnlyRow ==
  ASSUME NEW S, NEW l, NEW x, <<l, x>> \in S, \A r \in S : r[1] = l => r = <<l, x>>
  PROVE  /\ \E r \in S : r[1] = l
         /\ (CHOOSE r \in S : r[1] = l)[2] = x
<1>1. <<l, x>>[1] = l /\ <<l, x>>[2] = x
  OBVIOUS
<1>2. (CHOOSE r \in S : r[1] = l) = <<l, x>>
  <2> DEFINE c == CHOOSE r \in S : r[1] = l
  <2>1. c \in S /\ c[1] = l
    BY <1>1, Zenon
  <2> QED
    BY <2>1, Zenon
<1> QED
  BY <1>1, <1>2, Zenon

(* The value behind a label, among rows.                                   *)
Behind(S, l) == (CHOOSE r \in S : r[1] = l)[2]

LEMMA SwapSaid ==
  ASSUME NEW i, NEW in, NEW out, in # <<>>, out # <<>>
  PROVE  LET S == SwapRows(i, in, out)
             args == Solana!parse_amounts_and_slippage_from_data(i.data)
         IN  /\ Behind(S, "Input_Token") = in[1].symbol
             /\ Behind(S, "Output_Token") = out[1].symbol
             /\ Behind(S, "Input_Amount") = args.in_amount
             /\ Behind(S, "Quoted_Output_Amount") = args.out_amount
             /\ Behind(S, "Slippage") = args.slippage_bps
             /\ IF args.platform_fee_bps > 0
                THEN /\ \E r \in S : r[1] = "Platform_Fee"
                     /\ Behind(S, "Platform_Fee") = args.platform_fee_bps
                ELSE \A r \in S : r[1] # "Platform_Fee"
<1> DEFINE S == SwapRows(i, in, out)
           args == Solana!parse_amounts_and_slippage_from_data(i.data)
           Only(l, x) == <<l, x>> \in S /\ \A r \in S : r[1] = l => r = <<l, x>>
           x1 == in[1].symbol
           x2 == out[1].symbol
           x3 == args.in_amount
           x4 == args.out_amount
           x5 == args.slippage_bps
           x6 == args.platform_fee_bps
           x7 == i.program
           x8 == i.data
           x9 == in[1].name
           x10 == out[1].name
           x11 == out[1].address
<1>1. S = {<<"Program_ID", x7>>, <<"Slippage", x5>>, <<"Raw_Data", x8>>,
           <<"Input_Token", x1>>, <<"Input_Amount", x3>>, <<"Input_Token_Name", x9>>,
           <<"Output_Token", x2>>, <<"Quoted_Output_Amount", x4>>, <<"Output_Token_Name", x10>>,
           <<"Output_Token_Address", x11>>}
          \cup (IF x6 > 0 THEN {<<"Platform_Fee", x6>>} ELSE {})
  BY DEF SwapRows
<1> HIDE DEF S, x1, x2, x3, x4, x5, x6, x7, x8, x9, x10, x11
<1>2. Only("Input_Token", x1) /\ Only("Output_Token", x2)
  BY <1>1
<1>3. Only("Input_Amount", x3) /\ Only("Quoted_Output_Amount", x4)
  BY <1>1
<1>4. Only("Slippage", x5)
  BY <1>1
<1>5. IF x6 > 0 THEN Only("Platform_Fee", x6) ELSE \A r \in S : r[1] # "Platform_Fee"
  BY <1>1
<1>6. \A l, x : Only(l, x) => (\E r \in S : r[1] = l) /\ Behind(S, l) = x
  <2> SUFFICES ASSUME NEW l, NEW x, Only(l, x) PROVE (\E r \in S : r[1] = l) /\ Behind(S, l) = x
    BY Zenon
  <2>1. (\E r \in S : r[1] = l) /\ (CHOOSE r \in S : r[1] = l)[2] = x
    BY OnlyRow
  <2> QED
    BY <2>1, Zenon DEF Behind
<1> HIDE DEF Only
<1>7. /\ Behind(S, "Input_Token") = x1 /\ Behind(S, "Output_Token") = x2
      /\ Behind(S, "Input_Amount") = x3 /\ Behind(S, "Quoted_Output_Amount") = x4
      /\ Behind(S, "Slippage") = x5
  BY <1>2, <1>3, <1>4, <1>6, Zenon
<1>8. IF x6 > 0 THEN (\E r \in S : r[1] = "Platform_Fee") /\ Behind(S, "Platform_Fee") = x6
      ELSE \A r \in S : r[1] # "Platform_Fee"
  BY <1>5, <1>6
<1> QED
  BY <1>7, <1>8, Zenon DEF S, x1, x2, x3, x4, x5, x6

(* Data end with the four numbers that are cut out of them.                *)
LEMMA SwapBytes ==
  ASSUME NEW d \in Seq(0..255), Len(d) >= 19
  PROVE  LET args == Solana!parse_amounts_and_slippage_from_data(d)
         IN  /\ SubSeq(d, Len(d) - 18, Len(d)) =
                  args.in_amount \o args.out_amount \o args.slippage_bps
                    \o <<args.platform_fee_bps>>
             /\ args.platform_fee_bps \in 0..255
<1> DEFINE n == Len(d)
           Cut(j, k) == SubSeq(d, j, k)
<1>0. n \in Nat /\ n >= 19
  OBVIOUS
<1>1. Cut(n - 18, n - 11) \o Cut(n - 10, n - 3) = Cut(n - 18, n - 3)
  <2>1. n - 18 \in 1..(n + 1) /\ n - 11 \in (n - 18 - 1)..n /\ n - 3 \in (n - 11)..n
    BY <1>0
  <2>2. (n - 11) + 1 = n - 10
    BY <1>0
  <2> QED
    BY <2>1, <2>2, ConcatAdjacentSubSeq
<1>2. Cut(n - 18, n - 3) \o Cut(n - 2, n - 1) = Cut(n - 18, n - 1)
  <2>1. n - 18 \in 1..(n + 1) /\ n - 3 \in (n - 18 - 1)..n /\ n - 1 \in (n - 3)..n
    BY <1>0
  <2>2. (n - 3) + 1 = n - 2
    BY <1>0
  <2> QED
    BY <2>1, <2>2, ConcatAdjacentSubSeq
<1>3. Cut(n - 18, n - 1) \o Cut(n, n) = Cut(n - 18, n)
  <2>1. n - 18 \in 1..(n + 1) /\ n - 1 \in (n - 18 - 1)..n /\ n \in (n - 1)..n
    BY <1>0
  <2>2. (n - 1) + 1 = n
    BY <1>0
  <2> QED
    BY <2>1, <2>2, ConcatAdjacentSubSeq
<1>4. Cut(n, n) = <<d[n]>> /\ d[n] \in 0..255
  <2>1. n \in 1..Len(d) /\ d[n] \in 0..255
    <3>1. n \in 1..Len(d)
      BY <1>0
    <3> QED
      BY <3>1, ElementOfSeq
  <2>2. /\ Cut(n, n) \in Seq(0..255) /\ Len(Cut(n, n)) = 1 /\ Cut(n, n)[1] = d[n]
    BY <1>0, <2>1, SubSeqProperties
  <2> HIDE DEF Cut
  <2> QED
    BY <2>1, <2>2
<1> DEFINE args == Solana!parse_amounts_and_slippage_from_data(d)
<1>5. /\ args.in_amount = Cut(n - 18, n - 11) /\ args.out_amount = Cut(n - 10, n - 3)
      /\ args.slippage_bps = Cut(n - 2, n - 1) /\ args.platform_fee_bps = d[n]
  BY DEF Solana!parse_amounts_and_slippage_from_data
<1> HIDE DEF args, Cut, n
<1>6. Cut(n - 18, n) = args.in_amount \o args.out_amount \o args.slippage_bps
                         \o <<args.platform_fee_bps>>
  BY <1>1, <1>2, <1>3, <1>4, <1>5, Zenon
<1> QED
  BY <1>4, <1>5, <1>6 DEF args, Cut, n

(* The title of a swap has them too.                                       *)
LEMMA SwapTitle ==
  ASSUME NEW i, NEW name, NEW in, NEW out, in # <<>>, out # <<>>
  PROVE  LET text == Solana!format_jupiter_swap_instruction(i, name, in, out)
             args == Solana!parse_amounts_and_slippage_from_data(i.data)
         IN  /\ text[2] = args.in_amount /\ text[3] = in[1].symbol
             /\ text[4] = args.out_amount /\ text[5] = out[1].symbol
<1> DEFINE args == Solana!parse_amounts_and_slippage_from_data(i.data)
           text == Solana!format_jupiter_swap_instruction(i, name, in, out)
           s == <<name, args.in_amount, in[1].symbol, args.out_amount, out[1].symbol,
                  args.slippage_bps>>
           t == IF args.platform_fee_bps > 0 THEN <<args.platform_fee_bps>> ELSE <<>>
<1>1. text = s \o t
  BY Zenon DEF Solana!format_jupiter_swap_instruction, Solana!AmountOf, Solana!SymbolOf
<1>2. IsTuple(s) /\ Len(s) = 6
  <2>1. s \in Seq(Range(s)) /\ Len(s) = 6
    BY SixTuple, SeqOfRange
  <2> QED
    BY <2>1, Zenon DEF IsTuple
<1>3. IsTuple(t)
  BY TupleRanges, Zenon
<1>4. s[2] = args.in_amount /\ s[3] = in[1].symbol /\ s[4] = args.out_amount /\ s[5] = out[1].symbol
  OBVIOUS
<1> HIDE DEF s, t, args
<1>5. \A k \in 1..Len(s) : (s \o t)[k] = s[k]
  BY <1>2, <1>3, TupleConcat, Zenon
<1>6. (s \o t)[2] = s[2] /\ (s \o t)[3] = s[3] /\ (s \o t)[4] = s[4] /\ (s \o t)[5] = s[5]
  BY <1>2, <1>5
<1> HIDE DEF text
<1> QED
  BY <1>1, <1>4, <1>6, Zenon DEF args, text

LEMMA SmallestByte == \A x \in 0..255 : ~(x > 0) => x = 0
OBVIOUS

(* A preview that names both tokens of a swap.                             *)
LEMMA SwapTold ==
  ASSUME NEW i, i.data \in Seq(0..255), NEW p,
         NamesNothing(p) \/ IsCreation(i, p) \/ IsSwap(i, p),
         \E r \in Range(p.expanded) : r[1] = "Input_Token",
         \E r \in Range(p.expanded) : r[1] = "Output_Token"
  PROVE  LET S == Range(p.expanded)
             n == Len(i.data)
             fee == IF \E r \in S : r[1] = "Platform_Fee" THEN Behind(S, "Platform_Fee") ELSE 0
         IN  /\ SubSeq(i.data, n - 18, n) =
                  Behind(S, "Input_Amount") \o Behind(S, "Quoted_Output_Amount")
                    \o Behind(S, "Slippage") \o <<fee>>
             /\ p.title[2] = Behind(S, "Input_Amount") /\ p.title[3] = Behind(S, "Input_Token")
             /\ p.title[4] = Behind(S, "Quoted_Output_Amount")
             /\ p.title[5] = Behind(S, "Output_Token")
<1> DEFINE in == Solana!TokenAt(i, 0)
           out == Solana!TokenAt(i, 5)
           args == Solana!parse_amounts_and_slippage_from_data(i.data)
           S == Range(p.expanded)
           n == Len(i.data)
           fee == IF \E r \in S : r[1] = "Platform_Fee" THEN Behind(S, "Platform_Fee") ELSE 0
<1>1. IsSwap(i, p)
  BY DEF NamesNothing, IsCreation, NamingLabels
<1>2. PICK name, c : p = Solana!Preview(Solana!format_jupiter_swap_instruction(i, name, in, out), c,
                                        Solana!create_jupiter_swap_expanded_fields(i, in, out))
  BY <1>1, Zenon DEF IsSwap
<1>3. S = SwapRows(i, in, out)
      /\ p.title = Solana!format_jupiter_swap_instruction(i, name, in, out)
  <2> HIDE DEF in, out
  <2>1. /\ p.expanded = Solana!create_jupiter_swap_expanded_fields(i, in, out)
        /\ p.title = Solana!format_jupiter_swap_instruction(i, name, in, out)
    BY <1>2, SolanaPreviewParts
  <2> QED
    BY <2>1, SwapRowsShown, Zenon
<1>4. in # <<>> /\ out # <<>>
  BY <1>3 DEF SwapRows
<1>5. /\ SubSeq(i.data, n - 18, n) =
           args.in_amount \o args.out_amount \o args.slippage_bps \o <<args.platform_fee_bps>>
      /\ args.platform_fee_bps \in 0..255
  <2>1. n >= 19
    BY <1>1 DEF IsSwap
  <2> QED
    BY <2>1, SwapBytes
<1> HIDE DEF in, out
<1>6. /\ Behind(S, "Input_Token") = in[1].symbol /\ Behind(S, "Output_Token") = out[1].symbol
      /\ Behind(S, "Input_Amount") = args.in_amount
      /\ Behind(S, "Quoted_Output_Amount") = args.out_amount
      /\ Behind(S, "Slippage") = args.slippage_bps
      /\ IF args.platform_fee_bps > 0
         THEN /\ \E r \in S : r[1] = "Platform_Fee"
              /\ Behind(S, "Platform_Fee") = args.platform_fee_bps
         ELSE \A r \in S : r[1] # "Platform_Fee"
  BY <1>3, <1>4, SwapSaid
<1>7. /\ p.title[2] = args.in_amount /\ p.title[3] = in[1].symbol
      /\ p.title[4] = args.out_amount /\ p.title[5] = out[1].symbol
  BY <1>3, <1>4, SwapTitle
<1> HIDE DEF S, args, n
<1>8. fee = args.platform_fee_bps
  <2>1. CASE args.platform_fee_bps > 0
    BY <1>6, <2>1, Zenon
  <2>2. CASE ~(args.platform_fee_bps > 0)
    <3>1. args.platform_fee_bps \in 0..255
      BY <1>5, Zenon
    <3>2. args.platform_fee_bps = 0
      BY <2>2, <3>1, SmallestByte, Zenon
    <3> QED
      BY <1>6, <2>2, <3>2, Zenon
  <2> QED
    BY <2>1, <2>2
<1> HIDE DEF fee
<1> QED
  BY <1>5, <1>6, <1>7, <1>8, Zenon DEF S, n, fee

(* The numbers on the rows of a Jupiter swap are, in their order, the 19   *)
(* bytes its data ends with, its title has the same, and a fee that is not *)
(* shown is zero (parse_amounts_and_slippage_from_data and the two that    *)
(* make the views).                                                        *)
THEOREM SwapsAreAsEncoded == Spec => []SwapAsEncoded
<1>1. SolanaInv => SwapAsEncoded
  <2> SUFFICES ASSUME SolanaInv, chain = "Solana", NEW k \in DOMAIN Solana!Instructions,
                      Solana!Says(Solana!Instructions[k], "Input_Token"),
                      Solana!Says(Solana!Instructions[k], "Output_Token")
               PROVE  LET row == Solana!Instructions[k]
                          n == Len(row.data)
                          fee == IF Solana!Says(row, "Platform_Fee")
                                 THEN Solana!Said(row, "Platform_Fee") ELSE 0
                          text == row.preview.title
                      IN  /\ SubSeq(row.data, n - 18, n) =
                               Solana!Said(row, "Input_Amount")
                                 \o Solana!Said(row, "Quoted_Output_Amount")
                                 \o Solana!Said(row, "Slippage") \o <<fee>>
                          /\ text[2] = Solana!Said(row, "Input_Amount")
                          /\ text[3] = Solana!Said(row, "Input_Token")
                          /\ text[4] = Solana!Said(row, "Quoted_Output_Amount")
                          /\ text[5] = Solana!Said(row, "Output_Token")
    BY Zenon DEF SwapAsEncoded, Solana!SwapAsEncoded
  <2>1. outcome.is = "rows"
    BY DEF Solana!Instructions, Solana!Labelled
  <2>2. PICK i, ci : Solana!Instructions[k] = Solana!Field(k, i) /\ ShownFor(message, k, i, ci)
    BY <2>1, SolanaInstructionRows
  <2> DEFINE row == Solana!Instructions[k]
             p == row.preview
             S == Range(p.expanded)
  <2>3. row.data = i.data /\ p = Solana!VisualizeInstruction(i)
    BY <2>2 DEF Solana!Field
  <2>4. NamesNothing(p) \/ IsCreation(i, p) \/ IsSwap(i, p)
    BY <2>2, <2>3, SolanaShownData, SolanaPreviews, Zenon DEF ShownFor
  <2>5. \A l : /\ Solana!Says(row, l) <=> \E r \in S : r[1] = l
               /\ Solana!Said(row, l) = Behind(S, l)
    BY SolanaToSet, Zenon DEF Solana!Says, Solana!Said, Behind
  <2>6. i.data \in Seq(0..255)
    BY <2>2, SolanaShownData
  <2>7. (\E r \in S : r[1] = "Input_Token") /\ (\E r \in S : r[1] = "Output_Token")
    BY <2>5
  <2> DEFINE n == Len(i.data)
             fee == IF \E r \in S : r[1] = "Platform_Fee" THEN Behind(S, "Platform_Fee") ELSE 0
  <2> HIDE DEF p
  <2>8. /\ SubSeq(i.data, n - 18, n) =
             Behind(S, "Input_Amount") \o Behind(S, "Quoted_Output_Amount")
               \o Behind(S, "Slippage") \o <<fee>>
        /\ p.title[2] = Behind(S, "Input_Amount") /\ p.title[3] = Behind(S, "Input_Token")
        /\ p.title[4] = Behind(S, "Quoted_Output_Amount")
        /\ p.title[5] = Behind(S, "Output_Token")
    BY <2>4, <2>6, <2>7, SwapTold
  <2>9. fee = IF Solana!Says(row, "Platform_Fee") THEN Solana!Said(row, "Platform_Fee") ELSE 0
    BY <2>5, Zenon
  <2> HIDE DEF fee, S, row
  <2> QED
    BY <2>3, <2>5, <2>8, <2>9, Zenon DEF p, row
<1> QED
  BY <1>1, SolanaOutcome, PTL

-----------------------------------------------------------------------------
(* What the previews tell of an instruction, and that screens displayed   *)
(* alike are of messages that do the same.                                 *)

(* Short sequences behind one another.                                     *)
LEMMA ShortConcats ==
  /\ \A x, y : <<x>> \o <<>> \o <<y>> = <<x, y>>
  /\ \A x, y, z : <<x>> \o <<y>> \o <<z>> = <<x, y, z>>
<1>1. ASSUME NEW x, NEW y PROVE <<x, y>> = <<x>> \o <<y>> /\ <<x>> \o <<>> = <<x>>
  <2>1. <<x>> \in Seq({x, y}) /\ y \in {x, y}
    OBVIOUS
  <2>2. <<x, y>> = Append(<<x>>, y)
    OBVIOUS
  <2>3. <<x>> \o <<>> = <<x>>
    BY <2>1, ConcatEmptySeq
  <2> QED
    BY <2>1, <2>2, <2>3, AppendIsConcat
<1>2. ASSUME NEW x, NEW y, NEW z PROVE <<x, y, z>> = <<x, y>> \o <<z>>
  <2>1. <<x, y>> \in Seq({x, y, z}) /\ z \in {x, y, z}
    OBVIOUS
  <2>2. <<x, y, z>> = Append(<<x, y>>, z)
    OBVIOUS
  <2> QED
    BY <2>1, <2>2, AppendIsConcat
<1>3. ASSUME NEW x, NEW y PROVE <<x>> \o <<>> \o <<y>> = <<x, y>>
  BY <1>1, Zenon
<1>4. ASSUME NEW x, NEW y, NEW z PROVE <<x>> \o <<y>> \o <<z>> = <<x, y, z>>
  <2>1. <<x>> \o <<y>> = <<x, y>>
    BY <1>1
  <2> QED
    BY <1>2, <2>1, Zenon
<1> QED
  BY <1>3, <1>4

-----------------------------------------------------------------------------
(* What a preview says behind a label, and of what it says nothing.        *)
Tells(p, l, x) ==
  /\ <<l, x>> \in Range(p.expanded)
  /\ \A r \in Range(p.expanded) : r[1] = l => r = <<l, x>>
Silent(p, l) == \A r \in Range(p.expanded) : r[1] # l

LEMMA TellsOnce ==
  ASSUME NEW p, NEW l
  PROVE  /\ \A x, y : Tells(p, l, x) /\ Tells(p, l, y) => x = y
         /\ \A x : Tells(p, l, x) => ~Silent(p, l)
<1>1. \A x : <<l, x>>[1] = l /\ <<l, x>>[2] = x
  OBVIOUS
<1>2. ASSUME NEW x, NEW y, Tells(p, l, x), Tells(p, l, y) PROVE x = y
  <2>1. <<l, x>> = <<l, y>>
    BY <1>1, <1>2, Zenon DEF Tells
  <2> QED
    BY <1>1, <2>1, Zenon
<1>3. \A x : Tells(p, l, x) => ~Silent(p, l)
  BY <1>1, Zenon DEF Tells, Silent
<1> QED
  BY <1>2, <1>3

(* Rows with labels of their own.                                          *)
LEMMA ThreeRowsTell ==
  ASSUME NEW p, NEW a, NEW b, NEW c, NEW x, NEW y, NEW z, a # b, a # c, b # c,
         p.expanded = << <<a, x>>, <<b, y>>, <<c, z>> >>
  PROVE  /\ Tells(p, a, x) /\ Tells(p, b, y) /\ Tells(p, c, z)
         /\ \A l : l \notin {a, b, c} => Silent(p, l)
<1>1. Range(p.expanded) = {<<a, x>>, <<b, y>>, <<c, z>>}
  BY TupleRanges
<1> QED
  BY <1>1 DEF Tells, Silent

LEMMA TwoRowsTell ==
  ASSUME NEW p, NEW a, NEW b, NEW x, NEW y, a # b, p.expanded = << <<a, x>>, <<b, y>> >>
  PROVE  /\ Tells(p, a, x) /\ Tells(p, b, y)
         /\ \A l : l \notin {a, b} => Silent(p, l)
<1>1. Range(p.expanded) = {<<a, x>>, <<b, y>>}
  BY TupleRanges
<1> QED
  BY <1>1 DEF Tells, Silent

(* What the preview of a system instruction says.                          *)
SystemTold(i, p) ==
  LET args == SystemInstruction[i.data]
  IN  \/ /\ args.name = "Transfer"
         /\ Tells(p, "Program_ID", i.program) /\ Tells(p, "Raw_Data", i.data)
      \/ /\ args.name = "CreateAccount"
         /\ Silent(p, "Program_ID") /\ Silent(p, "Instruction_Data")
         /\ \E x : Tells(p, "Action", x)
         /\ Tells(p, "New_Account", Solana!AccountAt(i, 1))
         /\ Tells(p, "Payer", Solana!AccountAt(i, 0))
         /\ Tells(p, "Space_(bytes)", args.space) /\ Tells(p, "Rent_(lamports)", args.lamports)
         /\ Tells(p, "Owner_Program", args.owner)
      \/ /\ args.name \notin {"Transfer", "CreateAccount"}
         /\ Silent(p, "Program_ID") /\ Tells(p, "Instruction_Data", args)
         /\ \E x : Tells(p, "Action", x)

LEMMA SystemTells ==
  ASSUME NEW i, Solana!SystemVisualizer(i) # Solana!Rejected
  PROVE  SystemTold(i, Solana!SystemVisualizer(i))
<1> DEFINE args == SystemInstruction[i.data]
           p == Solana!SystemVisualizer(i)
<1>1. p = CASE args.name = "Transfer" -> Solana!TransferPreview(i, args)
            [] args.name = "CreateAccount" -> Solana!CreateAccountPreview(i, args)
            [] OTHER -> Solana!OtherSystemPreview(args)
  BY DEF Solana!SystemVisualizer
<1>2. CASE args.name = "Transfer"
  <2>1. p.expanded = << <<"Program_ID", i.program>>,
                        <<"Transfer_Amount", args.lamports>>,
                        <<"Raw_Data", i.data>> >>
    BY <1>1, <1>2, SolanaPreviewParts DEF Solana!TransferPreview
  <2> HIDE DEF p, args
  <2>2. Tells(p, "Program_ID", i.program) /\ Tells(p, "Raw_Data", i.data)
    BY <2>1, ThreeRowsTell
  <2> QED
    BY <1>2, <2>2, Zenon DEF SystemTold, p, args
<1>3. CASE args.name = "CreateAccount"
  <2> DEFINE n == Solana!AccountAt(i, 1)
             y == Solana!AccountAt(i, 0)
             x1 == <<"Create_Account">>
             x2 == args.space
             x3 == args.lamports
             x4 == args.owner
             x5 == "System_Program"
  <2>1. p.expanded = << <<"Action", x1>>, <<"New_Account", n>>, <<"Payer", y>>,
                        <<"Space_(bytes)", x2>>, <<"Rent_(lamports)", x3>>,
                        <<"Owner_Program", x4>>, <<"Program", x5>> >>
    BY <1>1, <1>3, SolanaPreviewParts DEF Solana!CreateAccountPreview
  <2> HIDE DEF n, y, x1, x2, x3, x4, x5, p, args
  <2>2. Range(p.expanded) =
          {<<"Action", x1>>, <<"New_Account", n>>, <<"Payer", y>>, <<"Space_(bytes)", x2>>,
           <<"Rent_(lamports)", x3>>, <<"Owner_Program", x4>>, <<"Program", x5>>}
    BY <2>1 DEF Range
  <2>3. Silent(p, "Program_ID") /\ Silent(p, "Instruction_Data") /\ Tells(p, "Action", x1)
    BY <2>2 DEF Tells, Silent
  <2>4. Tells(p, "New_Account", n) /\ Tells(p, "Payer", y)
    BY <2>2 DEF Tells
  <2>5. Tells(p, "Space_(bytes)", x2) /\ Tells(p, "Rent_(lamports)", x3)
        /\ Tells(p, "Owner_Program", x4)
    BY <2>2 DEF Tells
  <2> QED
    BY <1>3, <2>3, <2>4, <2>5, Zenon DEF SystemTold, n, y, x2, x3, x4, p, args
<1>4. CASE args.name \notin {"Transfer", "CreateAccount"}
  <2>1. p.expanded = << <<"Action", Solana!system_instruction_label(args)>>,
                        <<"Program", "System_Program">>,
                        <<"Instruction_Data", args>> >>
    BY <1>1, <1>4, SolanaPreviewParts DEF Solana!OtherSystemPreview
  <2> HIDE DEF p, args
  <2>2. /\ Tells(p, "Action", Solana!system_instruction_label(args))
        /\ Tells(p, "Instruction_Data", args)
        /\ Silent(p, "Program_ID")
    BY <2>1, ThreeRowsTell
  <2> QED
    BY <1>4, <2>2, Zenon DEF SystemTold, p, args
<1> QED
  BY <1>2, <1>3, <1>4

(* What the preview of a Jupiter instruction says.                         *)
JupiterTold(i, p) ==
  /\ Tells(p, "Program_ID", i.program)
  /\ Tells(p, "Raw_Data", i.data)
  /\ Solana!Routes(i.data) # {} =>
       /\ p.title[3] = Solana!SymbolOf(Solana!TokenAt(i, 0))
       /\ IF Solana!HasAccount(i, 5)
          THEN Tells(p, "Output_Token_Address", Solana!AccountAt(i, 5))
          ELSE Silent(p, "Output_Token_Address")

(* The third word of a title names the token given.                        *)
LEMMA SwapTitleNames ==
  ASSUME NEW i, NEW name, NEW in, NEW out
  PROVE  Solana!format_jupiter_swap_instruction(i, name, in, out)[3] = Solana!SymbolOf(in)
<1> DEFINE args == Solana!parse_amounts_and_slippage_from_data(i.data)
           x1 == Solana!AmountOf(in, args.in_amount)
           x2 == Solana!SymbolOf(in)
           x3 == Solana!AmountOf(out, args.out_amount)
           x4 == Solana!SymbolOf(out)
           x5 == args.slippage_bps
           s == <<name, x1, x2, x3, x4, x5>>
           t == IF args.platform_fee_bps > 0 THEN <<args.platform_fee_bps>> ELSE <<>>
<1>1. Solana!format_jupiter_swap_instruction(i, name, in, out) = s \o t
  BY Zenon DEF Solana!format_jupiter_swap_instruction
<1>2. IsTuple(t)
  BY TupleRanges, Zenon
<1> HIDE DEF t, x1, x2, x3, x4, x5
<1>3. IsTuple(s) /\ Len(s) = 6
  <2>1. s \in Seq(Range(s)) /\ Len(s) = 6
    BY SixTuple, SeqOfRange
  <2> QED
    BY <2>1, Zenon DEF IsTuple
<1>4. s[3] = x2
  OBVIOUS
<1> HIDE DEF s
<1>5. \A k \in 1..Len(s) : (s \o t)[k] = s[k]
  BY <1>2, <1>3, TupleConcat, Zenon
<1>6. (s \o t)[3] = s[3]
  BY <1>3, <1>5
<1> QED
  BY <1>1, <1>4, <1>6, Zenon DEF x2

LEMMA JupiterTells ==
  ASSUME NEW i, Solana!JupiterSwapVisualizer(i) # Solana!Rejected
  PROVE  JupiterTold(i, Solana!JupiterSwapVisualizer(i))
<1> DEFINE p == Solana!JupiterSwapVisualizer(i)
<1>0. ~(Len(i.data) < 8)
  BY DEF Solana!JupiterSwapVisualizer
<1>1. CASE Solana!Routes(i.data) = {}
  <2>1. p.expanded = << <<"Program_ID", i.program>>,
                        <<"Status", "Unknown_Jupiter_instruction_type">>,
                        <<"Raw_Data", i.data>> >>
    BY <1>0, <1>1, SolanaPreviewParts DEF Solana!JupiterSwapVisualizer, Solana!UnknownJupiter
  <2> HIDE DEF p
  <2>2. Tells(p, "Program_ID", i.program) /\ Tells(p, "Raw_Data", i.data)
    BY <2>1, ThreeRowsTell
  <2> QED
    BY <1>1, <2>2, Zenon DEF JupiterTold, p
<1>2. CASE Solana!Routes(i.data) # {}
  <2> DEFINE in == Solana!TokenAt(i, 0)
             out == Solana!TokenAt(i, 5)
             args == Solana!parse_amounts_and_slippage_from_data(i.data)
  <2>1. ~(Len(i.data) < 19)
    BY <1>0, <1>2 DEF Solana!JupiterSwapVisualizer
  <2>2. PICK name, c : p = Solana!Preview(
            Solana!format_jupiter_swap_instruction(i, name, in, out), c,
            Solana!create_jupiter_swap_expanded_fields(i, in, out))
    BY <1>0, <1>2, <2>1, Zenon DEF Solana!JupiterSwapVisualizer
  <2> HIDE DEF in, out, p
  <2>3. /\ p.title = Solana!format_jupiter_swap_instruction(i, name, in, out)
        /\ p.expanded = Solana!create_jupiter_swap_expanded_fields(i, in, out)
    BY <2>2, SolanaPreviewParts
  <2>4. Range(p.expanded) = SwapRows(i, in, out)
    BY <2>3, SwapRowsShown, Zenon
  <2>5. p.title[3] = Solana!SymbolOf(in)
    BY <2>3, SwapTitleNames, Zenon
  <2>6. Tells(p, "Program_ID", i.program) /\ Tells(p, "Raw_Data", i.data)
    BY <2>4 DEF Tells, SwapRows
  <2>7. IF out = <<>> THEN Silent(p, "Output_Token_Address")
        ELSE Tells(p, "Output_Token_Address", out[1].address)
    BY <2>4 DEF Tells, Silent, SwapRows
  <2>8. IF Solana!HasAccount(i, 5)
        THEN out # <<>> /\ out[1].address = Solana!AccountAt(i, 5)
        ELSE out = <<>>
    <3>1. \A x : <<x>> # <<>> /\ <<x>>[1] = x
      OBVIOUS
    <3>2. \A x : Solana!get_token_info(x).address = x
      BY DEF Solana!get_token_info
    <3> QED
      BY <3>1, <3>2, Zenon DEF Solana!TokenAt, out
  <2> QED
    BY <2>5, <2>6, <2>7, <2>8, Zenon DEF JupiterTold, p, in
<1> QED
  BY <1>1, <1>2

(* What those of the other presets say.                                    *)
LEMMA ComputeBudgetTells ==
  ASSUME NEW i, Solana!ComputeBudgetVisualizer(i) # Solana!Rejected
  PROVE  LET p == Solana!ComputeBudgetVisualizer(i)
         IN  Tells(p, "Program_ID", i.program) /\ Tells(p, "Raw_Data", i.data)
<1> DEFINE args == ComputeBudgetInstruction[i.data]
           p == Solana!ComputeBudgetVisualizer(i)
           e == Solana!create_compute_budget_expanded_fields(i, args)
           label == Solana!NumberLabel[args.name]
<1>1. i.data \in DOMAIN ComputeBudgetInstruction
  BY DEF Solana!ComputeBudgetVisualizer
<1>2. p.expanded = e
  <2>1. PICK t, c : p = Solana!Preview(t, c, e)
    BY <1>1, Zenon DEF Solana!ComputeBudgetVisualizer
  <2> HIDE DEF p, e
  <2> QED
    BY <2>1, SolanaPreviewParts
<1>3. CASE args.name = "Unused"
  <2>1. e = << <<"Program_ID", i.program>>, <<"Raw_Data", i.data>> >>
    BY <1>3, ShortConcats, Zenon DEF Solana!create_compute_budget_expanded_fields
  <2> HIDE DEF e, p
  <2>2. Tells(p, "Program_ID", i.program) /\ Tells(p, "Raw_Data", i.data)
    BY <1>2, <2>1, TwoRowsTell
  <2> QED
    BY <2>2 DEF p
<1>4. CASE args.name # "Unused"
  <2>1. args.name \in DOMAIN Solana!NumberLabel
    BY <1>1, <1>4, BudgetAssumption DEF Solana!IsComputeBudgetInstruction
  <2>2. label \notin {"Program_ID", "Raw_Data"}
    BY <2>1 DEF Solana!NumberLabel
  <2> HIDE DEF label
  <2>3. e = << <<"Program_ID", i.program>>, <<label, args.number>>, <<"Raw_Data", i.data>> >>
    BY <1>4, ShortConcats, Zenon DEF Solana!create_compute_budget_expanded_fields, label
  <2> HIDE DEF e, p, args
  <2>4. Tells(p, "Program_ID", i.program) /\ Tells(p, "Raw_Data", i.data)
    BY <1>2, <2>2, <2>3, ThreeRowsTell
  <2> QED
    BY <2>4 DEF p
<1> QED
  BY <1>3, <1>4

LEMMA OtherPresetsTell ==
  ASSUME NEW i
  PROVE  /\ LET p == Solana!AssociatedTokenAccountVisualizer(i)
                text == Solana!parse_ata_instruction(i.data)
            IN  p # Solana!Rejected =>
                  /\ Tells(p, "Program_ID", i.program) /\ Tells(p, "Instruction", <<text>>)
                  /\ text # "Unknown_ATA_instruction"
         /\ LET p == Solana!StakepoolVisualizer(i)
            IN  p # Solana!Rejected =>
                  /\ Silent(p, "Program_ID") /\ Silent(p, "Action")
                  /\ Tells(p, "Stake_Pool_Instruction", StakePoolInstruction[i.data].name)
         /\ LET p == Solana!UnknownProgramVisualizer(i)
            IN  Tells(p, "Program_ID", i.program) /\ Tells(p, "Instruction_Data", i.data)
<1>1. ASSUME Solana!AssociatedTokenAccountVisualizer(i) # Solana!Rejected
      PROVE  LET p == Solana!AssociatedTokenAccountVisualizer(i)
                 text == Solana!parse_ata_instruction(i.data)
             IN  /\ Tells(p, "Program_ID", i.program) /\ Tells(p, "Instruction", <<text>>)
                 /\ text # "Unknown_ATA_instruction"
  <2> DEFINE p == Solana!AssociatedTokenAccountVisualizer(i)
             text == Solana!parse_ata_instruction(i.data)
  <2>1. /\ p.expanded = << <<"Program_ID", i.program>>, <<"Instruction", <<text>> >> >>
        /\ text # "Unknown_ATA_instruction"
    BY <1>1, SolanaPreviewParts, Zenon DEF Solana!AssociatedTokenAccountVisualizer
  <2> HIDE DEF p, text
  <2>2. Tells(p, "Program_ID", i.program) /\ Tells(p, "Instruction", <<text>>)
    BY <2>1, TwoRowsTell
  <2> QED
    BY <2>1, <2>2 DEF p, text
<1>2. ASSUME Solana!StakepoolVisualizer(i) # Solana!Rejected
      PROVE  LET p == Solana!StakepoolVisualizer(i)
             IN  /\ Silent(p, "Program_ID") /\ Silent(p, "Action")
                 /\ Tells(p, "Stake_Pool_Instruction", StakePoolInstruction[i.data].name)
  <2> DEFINE p == Solana!StakepoolVisualizer(i)
             name == StakePoolInstruction[i.data].name
  <2>1. p.expanded = << <<"Stake_Pool_Instruction", name>> >>
    BY <1>2, SolanaPreviewParts, Zenon DEF Solana!StakepoolVisualizer
  <2> HIDE DEF p, name
  <2>2. Range(p.expanded) = {<<"Stake_Pool_Instruction", name>>}
    BY <2>1, TupleRanges, Zenon
  <2>3. Silent(p, "Program_ID") /\ Silent(p, "Action") /\ Tells(p, "Stake_Pool_Instruction", name)
    BY <2>2 DEF Tells, Silent
  <2> QED
    BY <2>3 DEF p, name
<1>3. LET p == Solana!UnknownProgramVisualizer(i)
      IN  Tells(p, "Program_ID", i.program) /\ Tells(p, "Instruction_Data", i.data)
  <2> DEFINE p == Solana!UnknownProgramVisualizer(i)
  <2>1. p.expanded = << <<"Program_ID", i.program>>, <<"Instruction_Data", i.data>> >>
    BY SolanaPreviewParts, Zenon DEF Solana!UnknownProgramVisualizer
  <2> HIDE DEF p
  <2>2. Tells(p, "Program_ID", i.program) /\ Tells(p, "Instruction_Data", i.data)
    BY <2>1, TwoRowsTell
  <2> QED
    BY <2>2 DEF p
<1> QED
  BY <1>1, <1>2, <1>3, Zenon

(* Every preview tells its program.                                        *)
Programmed(i, p) ==
  \/ Tells(p, "Program_ID", i.program)
  \/ i.program = System /\ Silent(p, "Program_ID") /\ \E x : Tells(p, "Action", x)
  \/ i.program = StakePool /\ Silent(p, "Program_ID") /\ Silent(p, "Action")

LEMMA ProgramTold ==
  ASSUME NEW i, Solana!VisualizeInstruction(i) # Solana!Rejected
  PROVE  Programmed(i, Solana!VisualizeInstruction(i))
<1> DEFINE p == Solana!VisualizeInstruction(i)
<1>1. \/ i.program = System /\ p = Solana!SystemVisualizer(i)
      \/ p = Solana!JupiterSwapVisualizer(i)
      \/ p = Solana!ComputeBudgetVisualizer(i)
      \/ p = Solana!AssociatedTokenAccountVisualizer(i)
      \/ i.program = StakePool /\ p = Solana!StakepoolVisualizer(i)
      \/ p = Solana!UnknownProgramVisualizer(i)
  BY ProgramsAssumption DEF Solana!VisualizeInstruction
<1>2. p # Solana!Rejected
  OBVIOUS
<1> SUFFICES Programmed(i, p)
  OBVIOUS
<1> HIDE DEF p
<1>3. CASE i.program = System /\ p = Solana!SystemVisualizer(i)
  <2>1. SystemTold(i, p)
    BY <1>2, <1>3, SystemTells, Zenon
  <2> QED
    BY <1>3, <2>1, Zenon DEF SystemTold, Programmed
<1>4. CASE p = Solana!JupiterSwapVisualizer(i)
  BY <1>2, <1>4, JupiterTells, Zenon DEF JupiterTold, Programmed
<1>5. CASE p = Solana!ComputeBudgetVisualizer(i)
  BY <1>2, <1>5, ComputeBudgetTells, Zenon DEF Programmed
<1>6. CASE i.program = StakePool /\ p = Solana!StakepoolVisualizer(i)
  BY <1>2, <1>6, OtherPresetsTell, Zenon DEF Programmed
<1>7. CASE \/ p = Solana!AssociatedTokenAccountVisualizer(i)
           \/ p = Solana!UnknownProgramVisualizer(i)
  BY <1>2, <1>7, OtherPresetsTell, Zenon DEF Programmed
<1> QED
  BY <1>1, <1>3, <1>4, <1>5, <1>6, <1>7

LEMMA SameProgram ==
  ASSUME NEW i, NEW j, NEW p, Programmed(i, p), Programmed(j, p)
  PROVE  i.program = j.program
<1>1. \A x, y : Tells(p, "Program_ID", x) /\ Tells(p, "Program_ID", y) => x = y
  BY TellsOnce, Zenon
<1>2. \A x : Tells(p, "Program_ID", x) => ~Silent(p, "Program_ID")
  BY TellsOnce, Zenon
<1>3. \A x : Tells(p, "Action", x) => ~Silent(p, "Action")
  BY TellsOnce, Zenon
<1>4. CASE Tells(p, "Program_ID", i.program)
  BY <1>1, <1>2, <1>4, Zenon DEF Programmed
<1>5. CASE i.program = System /\ Silent(p, "Program_ID") /\ \E x : Tells(p, "Action", x)
  BY <1>2, <1>3, <1>5, Zenon DEF Programmed
<1>6. CASE i.program = StakePool /\ Silent(p, "Program_ID") /\ Silent(p, "Action")
  BY <1>2, <1>3, <1>6, Zenon DEF Programmed
<1> QED
  BY <1>4, <1>5, <1>6, Zenon DEF Programmed

(* And, with the program, what the instruction does.                       *)
LEMMA SystemSaysDoing ==
  ASSUME NEW i, NEW j, NEW p, SystemTold(i, p), SystemTold(j, p),
         i.data \in DOMAIN SystemInstruction, j.data \in DOMAIN SystemInstruction
  PROVE  /\ SystemInstruction[i.data] = SystemInstruction[j.data]
         /\ SystemInstruction[i.data].name = "CreateAccount" =>
              /\ Solana!AccountAt(i, 0) = Solana!AccountAt(j, 0)
              /\ Solana!AccountAt(i, 1) = Solana!AccountAt(j, 1)
<1> DEFINE a == SystemInstruction[i.data]
           b == SystemInstruction[j.data]
<1>1. \A l, x, y : Tells(p, l, x) /\ Tells(p, l, y) => x = y
  BY TellsOnce, Zenon
<1>2. \A l, x : Tells(p, l, x) => ~Silent(p, l)
  BY TellsOnce, Zenon
<1>3. CASE a.name = "Transfer"
  <2>1. Tells(p, "Program_ID", i.program) /\ Tells(p, "Raw_Data", i.data)
    BY <1>3 DEF SystemTold
  <2>2. Tells(p, "Raw_Data", j.data)
    BY <1>2, <2>1, Zenon DEF SystemTold
  <2>3. i.data = j.data
    BY <1>1, <2>1, <2>2, Zenon
  <2> QED
    BY <1>3, <2>3
<1>4. CASE a.name = "CreateAccount"
  <2>1. /\ Silent(p, "Program_ID") /\ Silent(p, "Instruction_Data")
        /\ Tells(p, "New_Account", Solana!AccountAt(i, 1))
        /\ Tells(p, "Payer", Solana!AccountAt(i, 0))
        /\ Tells(p, "Space_(bytes)", a.space) /\ Tells(p, "Rent_(lamports)", a.lamports)
        /\ Tells(p, "Owner_Program", a.owner)
    BY <1>4 DEF SystemTold
  <2>2. /\ b.name = "CreateAccount"
        /\ Tells(p, "New_Account", Solana!AccountAt(j, 1))
        /\ Tells(p, "Payer", Solana!AccountAt(j, 0))
        /\ Tells(p, "Space_(bytes)", b.space) /\ Tells(p, "Rent_(lamports)", b.lamports)
        /\ Tells(p, "Owner_Program", b.owner)
    BY <1>2, <2>1, Zenon DEF SystemTold
  <2>3. /\ Solana!AccountAt(i, 0) = Solana!AccountAt(j, 0)
        /\ Solana!AccountAt(i, 1) = Solana!AccountAt(j, 1)
        /\ a.space = b.space /\ a.lamports = b.lamports /\ a.owner = b.owner
    BY <1>1, <2>1, <2>2, Zenon
  <2>4. /\ a = [name |-> a.name, lamports |-> a.lamports, space |-> a.space, owner |-> a.owner]
        /\ b = [name |-> b.name, lamports |-> b.lamports, space |-> b.space, owner |-> b.owner]
    BY <1>4, <2>2, SystemAssumption, Zenon DEF Solana!IsSystemInstruction
  <2>5. a = b
    BY <1>4, <2>2, <2>3, <2>4, Zenon
  <2> QED
    BY <2>3, <2>5
<1>5. CASE a.name \notin {"Transfer", "CreateAccount"}
  <2>1. Silent(p, "Program_ID") /\ Tells(p, "Instruction_Data", a)
    BY <1>5 DEF SystemTold
  <2>2. Tells(p, "Instruction_Data", b)
    BY <1>2, <2>1, Zenon DEF SystemTold
  <2>3. a = b
    BY <1>1, <2>1, <2>2, Zenon
  <2> QED
    BY <1>5, <2>3
<1> QED
  BY <1>3, <1>4, <1>5

LEMMA SameAtaText ==
  ASSUME NEW d, NEW e, Solana!parse_ata_instruction(d) = Solana!parse_ata_instruction(e),
         Solana!parse_ata_instruction(d) # "Unknown_ATA_instruction"
  PROVE  d[1] = e[1]
<1> DEFINE texts == <<"Create_Associated_Token_Account",
                      "Create_Associated_Token_Account_(Idempotent)",
                      "Recover_Nested_Associated_Token_Account">>
<1>1. \A x : Solana!parse_ata_instruction(x) # "Unknown_ATA_instruction" =>
        x[1] \in 0..2 /\ Solana!parse_ata_instruction(x) = texts[x[1] + 1]
  BY DEF Solana!parse_ata_instruction
<1>2. \A x, y \in 0..2 : texts[x + 1] = texts[y + 1] => x = y
  OBVIOUS
<1> HIDE DEF texts
<1> QED
  BY <1>1, <1>2, Zenon

LEMMA PreviewSaysDoing ==
  ASSUME NEW i, NEW j, Solana!VisualizeInstruction(i) = Solana!VisualizeInstruction(j),
         Solana!VisualizeInstruction(i) # Solana!Rejected
  PROVE  Solana!Doing(i) = Solana!Doing(j)
<1> DEFINE p == Solana!VisualizeInstruction(i)
           q == i.program
<1>0. i.program = j.program
  BY ProgramTold, SameProgram, Zenon
<1>1. \A l, x, y : Tells(p, l, x) /\ Tells(p, l, y) => x = y
  BY TellsOnce, Zenon
<1>2. \A l, x : Tells(p, l, x) => ~Silent(p, l)
  BY TellsOnce, Zenon
<1>3. CASE q = System
  <2>1. \A x : x.program = System =>
          /\ Solana!VisualizeInstruction(x) = Solana!SystemVisualizer(x)
          /\ Solana!Doing(x) =
               <<x.program, SystemInstruction[x.data],
                 IF SystemInstruction[x.data].name = "CreateAccount"
                 THEN <<Solana!AccountAt(x, 0), Solana!AccountAt(x, 1)>> ELSE <<>> >>
    BY ProgramsAssumption DEF Solana!VisualizeInstruction, Solana!Doing
  <2>2. p = Solana!SystemVisualizer(i) /\ p = Solana!SystemVisualizer(j)
    BY <1>0, <1>3, <2>1, Zenon
  <2> HIDE DEF p
  <2>3. p # Solana!Rejected
    BY DEF p
  <2>4. SystemTold(i, p) /\ SystemTold(j, p)
    BY <2>2, <2>3, SystemTells, Zenon
  <2>5. i.data \in DOMAIN SystemInstruction /\ j.data \in DOMAIN SystemInstruction
    BY <2>2, <2>3, Zenon DEF Solana!SystemVisualizer
  <2> QED
    BY <1>0, <1>3, <2>1, <2>4, <2>5, SystemSaysDoing, Zenon
<1>4. CASE q = Jupiter
  <2>1. \A x : x.program = Jupiter =>
          /\ Solana!VisualizeInstruction(x) = Solana!JupiterSwapVisualizer(x)
          /\ Solana!Doing(x) =
               <<x.program, x.data,
                 IF Solana!Routes(x.data) = {} THEN <<>>
                 ELSE <<Solana!SymbolOf(Solana!TokenAt(x, 0)), Solana!AccountAt(x, 5)>> >>
    BY ProgramsAssumption DEF Solana!VisualizeInstruction, Solana!Doing
  <2>2. p = Solana!JupiterSwapVisualizer(i) /\ p = Solana!JupiterSwapVisualizer(j)
    BY <1>0, <1>4, <2>1, Zenon
  <2> HIDE DEF p
  <2>3. p # Solana!Rejected
    BY DEF p
  <2>4. JupiterTold(i, p) /\ JupiterTold(j, p)
    BY <2>2, <2>3, JupiterTells, Zenon
  <2>5. i.data = j.data
    BY <1>1, <2>4, Zenon DEF JupiterTold
  <2>6. ASSUME Solana!Routes(i.data) # {}
        PROVE  /\ Solana!SymbolOf(Solana!TokenAt(i, 0)) = Solana!SymbolOf(Solana!TokenAt(j, 0))
               /\ Solana!AccountAt(i, 5) = Solana!AccountAt(j, 5)
    <3>1. Solana!SymbolOf(Solana!TokenAt(i, 0)) = Solana!SymbolOf(Solana!TokenAt(j, 0))
      BY <2>4, <2>5, <2>6, Zenon DEF JupiterTold
    <3>2. \A x \in {i, j} : IF Solana!HasAccount(x, 5)
                            THEN Tells(p, "Output_Token_Address", Solana!AccountAt(x, 5))
                            ELSE Silent(p, "Output_Token_Address")
      BY <2>4, <2>5, <2>6, Zenon DEF JupiterTold
    <3>3. \A x : ~Solana!HasAccount(x, 5) => Solana!AccountAt(x, 5) = NoKeyThere
      BY DEF Solana!AccountAt
    <3>4. Solana!AccountAt(i, 5) = Solana!AccountAt(j, 5)
      BY <1>1, <1>2, <3>2, <3>3, Zenon
    <3> QED
      BY <3>1, <3>4
  <2> QED
    BY <1>0, <1>4, <2>1, <2>5, <2>6, Zenon
<1>5. CASE q = ComputeBudget
  <2>1. \A x : x.program = ComputeBudget =>
          /\ Solana!VisualizeInstruction(x) = Solana!ComputeBudgetVisualizer(x)
          /\ Solana!Doing(x) = <<x.program, x.data>>
    BY ProgramsAssumption DEF Solana!VisualizeInstruction, Solana!Doing
  <2>2. Tells(p, "Raw_Data", i.data) /\ Tells(p, "Raw_Data", j.data)
    BY <1>0, <1>5, <2>1, ComputeBudgetTells, Zenon
  <2> QED
    BY <1>0, <1>1, <1>5, <2>1, <2>2, Zenon
<1>6. CASE q = AssociatedTokenAccount
  <2>1. \A x : x.program = AssociatedTokenAccount =>
          /\ Solana!VisualizeInstruction(x) = Solana!AssociatedTokenAccountVisualizer(x)
          /\ Solana!Doing(x) = <<x.program, x.data[1]>>
    BY ProgramsAssumption DEF Solana!VisualizeInstruction, Solana!Doing
  <2>2. \A x \in {i, j} : /\ Tells(p, "Instruction", <<Solana!parse_ata_instruction(x.data)>>)
                          /\ Solana!parse_ata_instruction(x.data) # "Unknown_ATA_instruction"
    BY <1>0, <1>6, <2>1, OtherPresetsTell, Zenon
  <2>3. <<Solana!parse_ata_instruction(i.data)>> = <<Solana!parse_ata_instruction(j.data)>>
    BY <1>1, <2>2, Zenon
  <2>4. \A x, y : <<x>> = <<y>> => x = y
    OBVIOUS
  <2>5. i.data[1] = j.data[1]
    BY <2>2, <2>3, <2>4, SameAtaText, Zenon
  <2> QED
    BY <1>0, <1>6, <2>1, <2>5, Zenon
<1>7. CASE q = StakePool
  <2>1. \A x : x.program = StakePool =>
          /\ Solana!VisualizeInstruction(x) = Solana!StakepoolVisualizer(x)
          /\ Solana!Doing(x) = <<x.program, StakePoolInstruction[x.data].name>>
    BY ProgramsAssumption DEF Solana!VisualizeInstruction, Solana!Doing
  <2>2. \A x \in {i, j} : Tells(p, "Stake_Pool_Instruction", StakePoolInstruction[x.data].name)
    BY <1>0, <1>7, <2>1, OtherPresetsTell, Zenon
  <2> QED
    BY <1>0, <1>1, <1>7, <2>1, <2>2, Zenon
<1>8. CASE q \notin {System, Jupiter, ComputeBudget, AssociatedTokenAccount, StakePool}
  <2>1. \A x : x.program = q =>
          /\ Solana!VisualizeInstruction(x) = Solana!UnknownProgramVisualizer(x)
          /\ Solana!Doing(x) = <<x.program, x.data>>
    BY <1>8 DEF Solana!VisualizeInstruction, Solana!Doing
  <2>2. Tells(p, "Instruction_Data", i.data) /\ Tells(p, "Instruction_Data", j.data)
    BY <1>0, <2>1, OtherPresetsTell, Zenon
  <2> QED
    BY <1>0, <1>1, <2>1, <2>2, Zenon
<1> QED
  BY <1>3, <1>4, <1>5, <1>6, <1>7, <1>8

(* A row as it is displayed.                                               *)
Display(row) ==
  IF row.label = "Instruction"
  THEN [label |-> row.label, number |-> row.number, preview |-> row.preview] ELSE row

(* The same rows but for the fallback texts of instructions, whose         *)
(* previews are the same in turn.                                          *)
RowsAlike(s, t) ==
  /\ \A l : l # "Instruction" => Picked(s, l) = Picked(t, l)
  /\ Len(Picked(s, "Instruction")) = Len(Picked(t, "Instruction"))
  /\ \A k \in 1..Len(Picked(s, "Instruction")) :
       Picked(s, "Instruction")[k].preview = Picked(t, "Instruction")[k].preview

(* Two screens displayed alike have such rows.                             *)
LEMMA DisplayedAlike ==
  ASSUME NEW L, NEW o, NEW p, LabelledRows(o.rows, L), LabelledRows(p.rows, L),
         Solana!Displayed(o) = Solana!Displayed(p)
  PROVE  RowsAlike(o.rows, p.rows)
<1> DEFINE s == o.rows
           t == p.rows
<1>1. /\ Solana!Displayed(o) = [k \in DOMAIN s |-> Display(s[k])]
      /\ Solana!Displayed(p) = [k \in DOMAIN t |-> Display(t[k])]
  BY DEF Solana!Displayed, Display
<1>2. s \in Seq(Range(s)) /\ t \in Seq(Range(t))
  BY DEF LabelledRows
<1> HIDE DEF s, t
<1>3. DOMAIN s = DOMAIN t /\ \A k \in DOMAIN s : Display(s[k]) = Display(t[k])
  <2>1. [k \in DOMAIN s |-> Display(s[k])] = [k \in DOMAIN t |-> Display(t[k])]
    BY <1>1 DEF s, t
  <2>2. DOMAIN s = DOMAIN t
    BY <2>1, Zenon
  <2>3. ASSUME NEW k \in DOMAIN s PROVE Display(s[k]) = Display(t[k])
    BY <2>1, <2>2
  <2> QED
    BY <2>2, <2>3
<1>4. Len(s) = Len(t) /\ DOMAIN s = 1..Len(s)
  BY <1>2, <1>3
<1>5. \A r : Display(r).label = r.label
  BY DEF Display
<1>6. ASSUME NEW k \in 1..Len(s)
      PROVE  /\ s[k].label = t[k].label
             /\ s[k].label # "Instruction" => s[k] = t[k]
             /\ s[k].label = "Instruction" => s[k].preview = t[k].preview
             /\ s[k] \in Range(s) /\ t[k] \in Range(t)
  <2>1. Display(s[k]) = Display(t[k])
    BY <1>3, <1>4
  <2>2. s[k].label = t[k].label
    BY <1>5, <2>1, Zenon
  <2>3. ASSUME s[k].label # "Instruction" PROVE s[k] = t[k]
    BY <2>1, <2>2, <2>3, Zenon DEF Display
  <2>4. ASSUME s[k].label = "Instruction" PROVE s[k].preview = t[k].preview
    <3>1. [label |-> s[k].label, number |-> s[k].number, preview |-> s[k].preview]
            = [label |-> t[k].label, number |-> t[k].number, preview |-> t[k].preview]
      BY <2>1, <2>2, <2>4, Zenon DEF Display
    <3> QED
      BY <3>1
  <2>5. s[k] \in Range(s) /\ t[k] \in Range(t)
    BY <1>3, <1>4 DEF Range
  <2> QED
    BY <2>2, <2>3, <2>4, <2>5
<1>7. ASSUME NEW l, NEW R, \A k \in 1..Len(s) : s[k].label = l => <<s[k], t[k]>> \in R
      PROVE  Related(Picked(s, l), Picked(t, l), R)
  <2> DEFINE S == {r \in Range(s) : r.label = l}
             T == {r \in Range(t) : r.label = l}
  <2>1. \A k \in 1..Len(s) : /\ s[k] \in S <=> t[k] \in T
                             /\ s[k] \in S => <<s[k], t[k]>> \in R
    BY <1>6, <1>7, Zenon
  <2>2. Picked(s, l) = Filter(s, S) /\ Picked(t, l) = Filter(t, T)
    BY DEF Picked
  <2> HIDE DEF S, T
  <2>3. Related(Filter(s, S), Filter(t, T), R)
    BY <1>2, <1>4, <2>1, FilterTogether
  <2> QED
    BY <2>2, <2>3
<1>8. ASSUME NEW l, l # "Instruction" PROVE Picked(s, l) = Picked(t, l)
  <2> DEFINE R == {x \in Range(s) \X Range(t) : x[1] = x[2]}
             u == Picked(s, l)
             v == Picked(t, l)
  <2>1. ASSUME NEW k \in 1..Len(s), s[k].label = l PROVE <<s[k], t[k]>> \in R
    <3>1. s[k] = t[k] /\ s[k] \in Range(s) /\ t[k] \in Range(t)
      BY <1>6, <1>8, <2>1, Zenon
    <3> QED
      BY <3>1
  <2>2. \A x, y : <<x, y>> \in R => x = y
    OBVIOUS
  <2> HIDE DEF R
  <2>3. Related(u, v, R)
    BY <1>7, <2>1
  <2>4. u \in Seq(Range(s)) /\ v \in Seq(Range(t))
    BY <1>2, FilterType DEF Picked
  <2> HIDE DEF u, v
  <2>5. Len(u) = Len(v) /\ \A k \in 1..Len(u) : u[k] = v[k]
    BY <2>2, <2>3 DEF Related
  <2>6. u = v
    BY <2>4, <2>5
  <2> QED
    BY <2>6 DEF u, v
<1>9. Len(Picked(s, "Instruction")) = Len(Picked(t, "Instruction"))
      /\ \A k \in 1..Len(Picked(s, "Instruction")) :
           Picked(s, "Instruction")[k].preview = Picked(t, "Instruction")[k].preview
  <2> DEFINE R == {x \in Range(s) \X Range(t) : x[1].preview = x[2].preview}
  <2>1. ASSUME NEW k \in 1..Len(s), s[k].label = "Instruction" PROVE <<s[k], t[k]>> \in R
    <3>1. s[k].preview = t[k].preview /\ s[k] \in Range(s) /\ t[k] \in Range(t)
      BY <1>6, <2>1, Zenon
    <3> QED
      BY <3>1
  <2>2. \A x, y : <<x, y>> \in R => x.preview = y.preview
    OBVIOUS
  <2> HIDE DEF R
  <2>3. Related(Picked(s, "Instruction"), Picked(t, "Instruction"), R)
    BY <1>7, <2>1
  <2> QED
    BY <2>2, <2>3, Zenon DEF Related
<1> QED
  BY <1>8, <1>9, Zenon DEF RowsAlike, s, t

(* A consistent legacy message has all the accounts of its instructions.   *)
LEMMA LegacyKnown ==
  ASSUME NEW m, Solana!IsMessage(m), Solana!Consistent(m), m.version = "legacy",
         NEW k \in DOMAIN m.instructions
  PROVE  Solana!Resolved(m, m.instructions[k]) = Solana!Known(m, m.instructions[k])
<1> DEFINE ci == m.instructions[k]
           a == ci.accounts
<1>1. Solana!IsInstruction(ci)
  BY DEF Solana!IsMessage
<1>2. \A j \in DOMAIN a : Solana!InMessage(m, a[j])
  BY LegacyInMessage DEF Solana!AllInMessage
<1>3. Len(m.account_keys) \in Nat
  BY DEF Solana!IsMessage
<1> HIDE DEF ci
<1>4. a \in Seq(Nat) /\ ci = [program |-> ci.program, accounts |-> a, data |-> ci.data]
  BY <1>1 DEF Solana!IsInstruction
<1>5. Filter(a, Solana!IndexSet(m)) = a
  <2>1. \A j \in 1..Len(a) : a[j] \in Solana!IndexSet(m)
    BY <1>2, <1>3, <1>4 DEF Solana!InMessage, Solana!IndexSet
  <2> HIDE DEF a
  <2> QED
    BY <1>4, <2>1, FilterAll
<1>6. [ci EXCEPT !.accounts = a] = ci
  BY <1>4
<1> QED
  BY <1>5, <1>6, SolanaFilter, Zenon DEF Solana!Known, ci

(* Without a note, there is a row for each instruction, with the preview   *)
(* of what is known of it.                                                 *)
PreviewsOf(m, rows) ==
  /\ Len(rows) = Len(m.instructions)
  /\ \A k \in DOMAIN m.instructions :
       /\ rows[k].preview = Solana!VisualizeInstruction(Solana!Known(m, m.instructions[k]))
       /\ rows[k].preview # Solana!Rejected

LEMMA SolanaPreviewed ==
  ASSUME NEW m, Solana!IsMessage(m), Solana!Consistent(m), NEW b, SolanaBetween(m, b),
         Picked(b, "Instruction_Decoding_Note") = <<>>
  PROVE  PreviewsOf(m, Picked(b, "Instruction"))
<1>2. ASSUME NEW is \in {LegacyInstructions(m), V0Instructions(m)},
             b = SolanaFields(is), ~SomeRejected(is), DOMAIN is = DOMAIN m.instructions,
             \A k \in DOMAIN is : is[k] = Solana!Known(m, m.instructions[k])
      PROVE  PreviewsOf(m, Picked(b, "Instruction"))
  <2>1. LabelledRows(b, {"Instruction"}) /\ Len(b) = Len(is)
    BY <1>2, SolanaInstructionCounts, SolanaFieldRows
  <2>2. Picked(b, "Instruction") = b
    BY <2>1, PickedAll
  <2>3. Len(is) = Len(m.instructions)
    BY <1>2, SolanaInstructionCounts
  <2>4. \A k \in DOMAIN is : b[k].preview = Solana!VisualizeInstruction(is[k])
    BY <1>2 DEF SolanaFields, Solana!Field
  <2> QED
    BY <1>2, <2>1, <2>2, <2>3, <2>4, Zenon DEF PreviewsOf, SomeRejected
<1>3. CASE /\ m.version = "legacy" /\ b = SolanaFields(LegacyInstructions(m))
           /\ ~SomeRejected(LegacyInstructions(m))
  <2>1. DOMAIN LegacyInstructions(m) = DOMAIN m.instructions
        /\ \A k \in DOMAIN m.instructions :
             LegacyInstructions(m)[k] = Solana!Resolved(m, m.instructions[k])
    BY DEF LegacyInstructions
  <2>2. \A k \in DOMAIN m.instructions :
          Solana!Resolved(m, m.instructions[k]) = Solana!Known(m, m.instructions[k])
    BY <1>3, LegacyKnown
  <2> QED
    BY <1>2, <1>3, <2>1, <2>2, Zenon
<1>4. CASE b = SolanaFields(V0Instructions(m)) /\ ~SomeRejected(V0Instructions(m))
  <2>1. StaticInstructions(m) = m.instructions
    BY SolanaStatic
  <2>2. DOMAIN V0Instructions(m) = DOMAIN m.instructions
        /\ \A k \in DOMAIN m.instructions :
             V0Instructions(m)[k] = Solana!Known(m, m.instructions[k])
    BY <2>1 DEF V0Instructions
  <2> QED
    BY <1>2, <1>4, <2>2, Zenon
<1>5. b # SolanaNote
  <2>1. LabelledRows(SolanaNote, {"Instruction_Decoding_Note"})
    BY OneRow DEF SolanaNote
  <2>2. Picked(SolanaNote, "Instruction_Decoding_Note") = SolanaNote
    BY <2>1, PickedAll
  <2>3. SolanaNote # <<>>
    BY DEF SolanaNote
  <2> QED
    BY <2>2, <2>3, Zenon
<1> QED
  BY <1>3, <1>4, <1>5, Zenon DEF SolanaBetween

(* Two messages with the same previews do the same.                        *)
LEMMA SameDoings ==
  ASSUME NEW m, NEW n, Solana!IsMessage(m), Solana!IsMessage(n), NEW s, NEW t,
         PreviewsOf(m, s), PreviewsOf(n, t), Len(s) = Len(t),
         \A k \in 1..Len(s) : s[k].preview = t[k].preview
  PROVE  Solana!Doings(m) = Solana!Doings(n)
<1>1. /\ DOMAIN m.instructions = 1..Len(m.instructions)
      /\ DOMAIN n.instructions = 1..Len(n.instructions)
  BY SolanaInstructionCounts
<1>2. DOMAIN m.instructions = DOMAIN n.instructions /\ DOMAIN m.instructions = 1..Len(s)
  BY <1>1 DEF PreviewsOf
<1>3. ASSUME NEW k \in DOMAIN m.instructions
      PROVE  Solana!Doing(Solana!Known(m, m.instructions[k]))
               = Solana!Doing(Solana!Known(n, n.instructions[k]))
  <2>1. /\ Solana!VisualizeInstruction(Solana!Known(m, m.instructions[k]))
             = Solana!VisualizeInstruction(Solana!Known(n, n.instructions[k]))
        /\ Solana!VisualizeInstruction(Solana!Known(m, m.instructions[k])) # Solana!Rejected
    BY <1>2, <1>3, Zenon DEF PreviewsOf
  <2> QED
    BY <2>1, PreviewSaysDoing, Zenon
<1> QED
  BY <1>2, <1>3, Zenon DEF Solana!Doings

(* Two messages whose accounts are shown alike have the same keys.         *)
LEMMA SameAccountKeys ==
  ASSUME NEW m, NEW n, Solana!IsMessage(m), Solana!IsMessage(n),
         SolanaAccounts(m) = SolanaAccounts(n)
  PROVE  m.account_keys = n.account_keys
<1> DEFINE a == m.account_keys
           b == n.account_keys
<1>1. Solana!Infos(m) = Solana!Infos(n)
  BY DEF SolanaAccounts, Solana!create_accounts_advanced_preview_layout
<1>2. a \in Seq(Range(a)) /\ b \in Seq(Range(b))
  BY SolanaRange, Zenon DEF Solana!IsMessage
<1>3. [k \in 1..Len(a) |-> SolanaInfo(m, k)] = [k \in 1..Len(b) |-> SolanaInfo(n, k)]
  BY <1>1, SolanaInfos
<1>4. 1..Len(a) = 1..Len(b)
  BY <1>3, Zenon
<1>5. \A k \in 1..Len(a) : SolanaInfo(m, k) = SolanaInfo(n, k)
  BY <1>3, <1>4, Zenon
<1>6. \A k \in 1..Len(a) : Solana!Key(m, k - 1) = Solana!Key(n, k - 1)
  BY <1>5 DEF SolanaInfo
<1>7. \A k \in 1..Len(a) : a[k] = b[k]
  BY <1>2, <1>6 DEF Solana!Key
<1> QED
  BY <1>2, <1>4, <1>7

(* Four parts of a screen, picked from one by one.                         *)
LEMMA PickedFour ==
  ASSUME NEW L, NEW p, NEW q, NEW r, NEW s, LabelledRows(p, L), LabelledRows(q, L),
         LabelledRows(r, L), LabelledRows(s, L), NEW l
  PROVE  Picked(p \o q \o r \o s, l)
           = Picked(p, l) \o Picked(q, l) \o Picked(r, l) \o Picked(s, l)
<1>1. LabelledRows(p \o q, L) /\ LabelledRows(p \o q \o r, L)
  BY MoreRows
<1>2. Picked(p \o q, l) = Picked(p, l) \o Picked(q, l)
  BY PickedConcat
<1>3. Picked((p \o q) \o r, l) = Picked(p \o q, l) \o Picked(r, l)
  BY <1>1, PickedConcat
<1>4. Picked((p \o q \o r) \o s, l) = Picked(p \o q \o r, l) \o Picked(s, l)
  BY <1>1, PickedConcat
<1> QED
  BY <1>2, <1>3, <1>4, Zenon

(* The rows of the transfers of a message, by their labels.                *)
TransferLabels == {"Transfer", "SPL_Transfer", "V0_SPL_Transfer", "Transfer_Decoding_Note"}
LamportTransfers(m) == Solana!TransfersAmong(m, System, Solana!Lamports)
TokenTransfers(m) == Solana!TransfersAmong(m, Token, TokenTransfer)

TransfersRead(m, rows) ==
  \E spl \in {"SPL_Transfer", "V0_SPL_Transfer"} :
    /\ Picked(rows, "Transfer") = Solana!Numbered("Transfer", LamportTransfers(m))
    /\ Picked(rows, spl) = Solana!Numbered(spl, TokenTransfers(m))
    /\ \A l \in {"SPL_Transfer", "V0_SPL_Transfer"} \ {spl} : Picked(rows, l) = <<>>

LEMMA TransfersAreRead ==
  ASSUME NEW m, Solana!IsMessage(m), NEW spl \in {"SPL_Transfer", "V0_SPL_Transfer"},
         Solana!decode_transfers_of(m, spl).is = "rows"
  PROVE  /\ LabelledRows(Solana!decode_transfers_of(m, spl).rows, TransferLabels)
         /\ TransfersRead(m, Solana!decode_transfers_of(m, spl).rows)
<1> DEFINE x == Solana!Numbered("Transfer", LamportTransfers(m))
           y == Solana!Numbered(spl, TokenTransfers(m))
<1>1. ASSUME NEW p, NEW a
      PROVE  /\ DOMAIN Solana!TransfersAmong(m, p, a) = 1..Len(Solana!TransfersAmong(m, p, a))
             /\ Len(Solana!TransfersAmong(m, p, a)) \in Nat
  BY TransfersCounted
<1>2. ASSUME NEW t, DOMAIN t = 1..Len(t), Len(t) \in Nat, NEW l
      PROVE  LabelledRows(Solana!Numbered(l, t), {l})
  <2> DEFINE f == Solana!Numbered(l, t)
             n == Len(t)
  <2>1. f = [j \in 1..n |-> f[j]] /\ \A j \in 1..n : f[j].label \in {l}
    BY <1>2 DEF Solana!Numbered
  <2>2. n \in Nat
    BY <1>2
  <2> HIDE DEF f, n
  <2>3. LabelledRows(f, {l})
    BY <2>1, <2>2, ManyRows
  <2> QED
    BY <2>3 DEF f
<1>3. LabelledRows(x, {"Transfer"}) /\ LabelledRows(y, {spl})
  BY <1>1, <1>2, Zenon DEF LamportTransfers, TokenTransfers
<1>4. Solana!decode_transfers_of(m, spl) = Solana!Rows(x \o y)
  BY SolanaRows, Zenon DEF Solana!decode_transfers_of, LamportTransfers, TokenTransfers
<1> HIDE DEF x, y
<1>5. Solana!decode_transfers_of(m, spl).rows = x \o y
  BY <1>4, SolanaRows
<1>6. LabelledRows(x, TransferLabels) /\ LabelledRows(y, TransferLabels)
  <2>1. {"Transfer"} \subseteq TransferLabels /\ {spl} \subseteq TransferLabels
    BY DEF TransferLabels
  <2> QED
    BY <1>3, <2>1, LabelledMore, Zenon
<1>7. LabelledRows(x \o y, TransferLabels)
  BY <1>6, MoreRows
<1>8. \A l : Picked(x \o y, l) = Picked(x, l) \o Picked(y, l)
  BY <1>6, PickedConcat
<1>9. /\ Picked(x, "Transfer") = x /\ Picked(y, spl) = y
      /\ Picked(y, "Transfer") = <<>>
      /\ \A l \in {"SPL_Transfer", "V0_SPL_Transfer"} : Picked(x, l) = <<>>
      /\ \A l \in {"SPL_Transfer", "V0_SPL_Transfer"} \ {spl} : Picked(y, l) = <<>>
  <2>1. Picked(x, "Transfer") = x /\ Picked(y, spl) = y
    BY <1>3, PickedAll
  <2>2. \A l : /\ l # "Transfer" => Picked(x, l) = <<>>
               /\ l # spl => Picked(y, l) = <<>>
    <3>1. \A l, q : l # q => l \notin {q}
      OBVIOUS
    <3> QED
      BY <1>3, <3>1, PickedNone, Zenon
  <2>3. "Transfer" # spl /\ \A l \in {"SPL_Transfer", "V0_SPL_Transfer"} : l # "Transfer"
    OBVIOUS
  <2> QED
    BY <2>1, <2>2, <2>3
<1>10. x \o <<>> = x /\ <<>> \o y = y /\ <<>> \o <<>> = <<>>
  <2>1. x \in Seq(Range(x)) /\ y \in Seq(Range(y))
    BY <1>3 DEF LabelledRows
  <2> QED
    BY <2>1, ConcatEmptySeq
<1>11. TransfersRead(m, x \o y)
  BY <1>8, <1>9, <1>10, Zenon DEF TransfersRead, x, y
<1> QED
  BY <1>5, <1>7, <1>11

(* So are those of a screen, unless a note stands in for them.             *)
LEMMA TransfersShown ==
  ASSUME NEW m, Solana!IsMessage(m), Solana!Consistent(m), decode_transfers, NEW o,
         o = Solana!convert_versioned_to_visual_sign_payload(m), o.is = "rows",
         Picked(o.rows, "Transfer_Decoding_Note") = <<>>
  PROVE  TransfersRead(m, o.rows)
<1> DEFINE d == <<SolanaAccounts(m)>>
           head == {"Solana", "Solana_(V0)", "Address_Lookup_Tables"}
           L == TransferLabels \cup SolanaMiddle \cup head \cup {"Accounts"}
<1>1. LabelledRows(d, {"Accounts"})
  <2>1. SolanaAccounts(m).label = "Accounts"
    BY DEF SolanaAccounts, Solana!create_accounts_advanced_preview_layout
  <2> QED
    BY <2>1, OneRow
<1>2. \A s : /\ LabelledRows(s, TransferLabels) => LabelledRows(s, L)
             /\ LabelledRows(s, SolanaMiddle) => LabelledRows(s, L)
             /\ LabelledRows(s, head) => LabelledRows(s, L)
             /\ LabelledRows(s, {"Accounts"}) => LabelledRows(s, L)
  <2>1. /\ TransferLabels \subseteq L /\ SolanaMiddle \subseteq L /\ head \subseteq L
        /\ {"Accounts"} \subseteq L
    OBVIOUS
  <2> HIDE DEF L, head
  <2> QED
    BY <2>1, LabelledMore, Zenon
<1>3. ASSUME NEW s, NEW l \in TransferLabels
      PROVE  /\ LabelledRows(s, SolanaMiddle) => Picked(s, l) = <<>>
             /\ LabelledRows(s, head) => Picked(s, l) = <<>>
             /\ LabelledRows(s, {"Accounts"}) => Picked(s, l) = <<>>
  <2>1. l \notin SolanaMiddle /\ l \notin head /\ l \notin {"Accounts"}
    BY DEF TransferLabels, SolanaMiddle
  <2> HIDE DEF head
  <2> QED
    BY <2>1, PickedNone, Zenon
<1> HIDE DEF L, d, head
<1>4. ASSUME NEW a, NEW b, NEW c, LabelledRows(a, head), NEW l \in TransferLabels
      PROVE  /\ LabelledRows(b, TransferLabels) /\ LabelledRows(c, SolanaMiddle)
                  => Picked(a \o b \o c \o d, l) = Picked(b, l)
             /\ LabelledRows(b, SolanaMiddle) /\ LabelledRows(c, TransferLabels)
                  => Picked(a \o b \o c \o d, l) = Picked(c, l)
  <2> SUFFICES ASSUME \/ LabelledRows(b, TransferLabels) /\ LabelledRows(c, SolanaMiddle)
                      \/ LabelledRows(b, SolanaMiddle) /\ LabelledRows(c, TransferLabels)
               PROVE  /\ LabelledRows(c, SolanaMiddle)
                           => Picked(a \o b \o c \o d, l) = Picked(b, l)
                      /\ LabelledRows(b, SolanaMiddle)
                           => Picked(a \o b \o c \o d, l) = Picked(c, l)
    OBVIOUS
  <2>1. LabelledRows(a, L) /\ LabelledRows(b, L) /\ LabelledRows(c, L) /\ LabelledRows(d, L)
    BY <1>1, <1>2, <1>4, Zenon
  <2>2. Picked(a \o b \o c \o d, l)
          = Picked(a, l) \o Picked(b, l) \o Picked(c, l) \o Picked(d, l)
    BY <2>1, PickedFour
  <2>3. Picked(a, l) = <<>> /\ Picked(d, l) = <<>>
    BY <1>1, <1>3, <1>4, Zenon
  <2>4. \A s \in {b, c} : /\ <<>> \o Picked(s, l) = Picked(s, l)
                          /\ Picked(s, l) \o <<>> = Picked(s, l)
    <3> SUFFICES ASSUME NEW s \in {b, c}
                 PROVE  <<>> \o Picked(s, l) = Picked(s, l) /\ Picked(s, l) \o <<>> = Picked(s, l)
      OBVIOUS
    <3>1. s \in Seq(Range(s))
      BY <2>1 DEF LabelledRows
    <3>2. Picked(s, l) \in Seq(Range(s))
      BY <3>1, FilterType DEF Picked
    <3> QED
      BY <3>2, ConcatEmptySeq
  <2>5. /\ LabelledRows(c, SolanaMiddle) => Picked(c, l) = <<>>
        /\ LabelledRows(b, SolanaMiddle) => Picked(b, l) = <<>>
    BY <1>3, Zenon
  <2> QED
    BY <2>2, <2>3, <2>4, <2>5, Zenon
<1>5. Solana!decode_accounts(m).is = "rows" => Solana!decode_accounts(m).rows = d
  BY SolanaRows, Zenon DEF Solana!decode_accounts, SolanaAccounts, d
<1>6. ASSUME NEW t, \A l \in TransferLabels : Picked(o.rows, l) = Picked(t, l), TransfersRead(m, t)
      PROVE  TransfersRead(m, o.rows)
  <2>1. "Transfer" \in TransferLabels /\ {"SPL_Transfer", "V0_SPL_Transfer"} \subseteq TransferLabels
    BY DEF TransferLabels
  <2> QED
    BY <1>6, <2>1, Zenon DEF TransfersRead
<1>7. CASE m.version = "legacy"
  <2> DEFINE a == Solana!Rows(<<[label |-> "Solana"]>>)
             b == Solana!decode_transfers_of(m, "SPL_Transfer")
             c == Solana!decode_instructions(m)
             e == Solana!decode_accounts(m)
  <2>1. o = Solana!Screen(<<a, b, c, e>>)
    BY <1>7 DEF Solana!convert_versioned_to_visual_sign_payload,
                Solana!convert_to_visual_sign_payload
  <2>2. LabelledRows(a.rows, head)
    BY OneRow, SolanaRows DEF head
  <2>3. b.is = "rows" => LabelledRows(b.rows, TransferLabels) /\ TransfersRead(m, b.rows)
    BY TransfersAreRead
  <2>4. c.is = "rows" => LabelledRows(c.rows, SolanaMiddle)
    BY <1>7, SolanaLegacyBetween, SolanaBetweenRows, Zenon
  <2> HIDE DEF a, b, c, e
  <2>5. /\ b.is = "rows" /\ c.is = "rows" /\ e.is = "rows"
        /\ o = Solana!Rows(a.rows \o b.rows \o c.rows \o e.rows)
    BY <2>1, SolanaScreenRows
  <2>6. o.rows = a.rows \o b.rows \o c.rows \o d
    BY <1>5, <2>5, SolanaRows, Zenon DEF e
  <2>7. \A l \in TransferLabels : Picked(o.rows, l) = Picked(b.rows, l)
    <3>1. /\ LabelledRows(a.rows, head) /\ LabelledRows(b.rows, TransferLabels)
          /\ LabelledRows(c.rows, SolanaMiddle)
      BY <2>2, <2>3, <2>4, <2>5
    <3>2. ASSUME NEW l \in TransferLabels
          PROVE  Picked(a.rows \o b.rows \o c.rows \o d, l) = Picked(b.rows, l)
      BY <1>4, <3>1
    <3> QED
      BY <2>6, <3>2
  <2> QED
    BY <1>6, <2>3, <2>5, <2>7, Zenon
<1>8. CASE m.version = "v0"
  <2> DEFINE a == Solana!Rows(<<[label |-> "Solana_(V0)"]>>
                                \o Solana!create_address_lookup_table_field(m))
             b == Solana!OrNote(Solana!decode_v0_instructions(m), "Instruction_Decoding_Note")
             t == Solana!decode_transfers_of(m, "V0_SPL_Transfer")
             c == Solana!OrNote(t, "Transfer_Decoding_Note")
             e == Solana!decode_accounts(m)
             note == <<[label |-> "Transfer_Decoding_Note"]>>
  <2>1. o = Solana!Screen(<<a, b, c, e>>)
    BY <1>8 DEF Solana!convert_versioned_to_visual_sign_payload,
                Solana!convert_v0_to_visual_sign_payload
  <2>2. LabelledRows(a.rows, head)
    <3> DEFINE f == Solana!create_address_lookup_table_field(m)
               h == <<[label |-> "Solana_(V0)"]>>
    <3>1. LabelledRows(f, head)
      <4>1. \A x : LabelledRows(<<[label |-> "Address_Lookup_Tables", tables |-> x]>>, head)
        BY OneRow DEF head
      <4> QED
        BY <4>1, NoRows, Zenon DEF Solana!create_address_lookup_table_field
    <3>2. LabelledRows(h, head)
      BY OneRow DEF head
    <3> HIDE DEF f, h
    <3>3. LabelledRows(h \o f, head)
      BY <3>1, <3>2, MoreRows
    <3> QED
      BY <3>3, SolanaRows DEF f, h
  <2>3. LabelledRows(note, {"Transfer_Decoding_Note"}) /\ LabelledRows(note, TransferLabels)
    BY OneRow DEF TransferLabels
  <2>4. t = Solana!Error \/ t.is = "rows"
    BY SolanaParts, Zenon DEF SolanaFine
  <2>5. /\ t = Solana!Error => c.rows = note
        /\ t # Solana!Error => c = t
    BY SolanaRows, Zenon DEF Solana!OrNote, Solana!Note
  <2>6. t.is = "rows" => LabelledRows(t.rows, TransferLabels) /\ TransfersRead(m, t.rows)
    BY TransfersAreRead
  <2>7. b.is = "rows" => LabelledRows(b.rows, SolanaMiddle)
    BY <1>8, SolanaV0Between, SolanaBetweenRows, Zenon
  <2>8. Picked(note, "Transfer_Decoding_Note") = note /\ note # <<>>
    BY <2>3, PickedAll
  <2> HIDE DEF a, b, t, c, e, note
  <2>9. /\ b.is = "rows" /\ c.is = "rows" /\ e.is = "rows"
        /\ o = Solana!Rows(a.rows \o b.rows \o c.rows \o e.rows)
    BY <2>1, SolanaScreenRows
  <2>10. o.rows = a.rows \o b.rows \o c.rows \o d
    BY <1>5, <2>9, SolanaRows, Zenon DEF e
  <2>11. LabelledRows(c.rows, TransferLabels)
    BY <2>3, <2>4, <2>5, <2>6, Zenon
  <2>12. \A l \in TransferLabels : Picked(o.rows, l) = Picked(c.rows, l)
    <3>1. /\ LabelledRows(a.rows, head) /\ LabelledRows(b.rows, SolanaMiddle)
          /\ LabelledRows(c.rows, TransferLabels)
      BY <2>2, <2>7, <2>9, <2>11
    <3>2. ASSUME NEW l \in TransferLabels
          PROVE  Picked(a.rows \o b.rows \o c.rows \o d, l) = Picked(c.rows, l)
      BY <1>4, <3>1
    <3> QED
      BY <2>10, <3>2
  <2>13. t # Solana!Error
    <3>1. "Transfer_Decoding_Note" \in TransferLabels
      BY DEF TransferLabels
    <3> QED
      BY <2>5, <2>8, <2>12, <3>1, Zenon
  <2> QED
    BY <1>6, <2>4, <2>5, <2>6, <2>12, <2>13, Zenon
<1> QED
  BY <1>7, <1>8 DEF Solana!IsMessage

(* The rows of two sequences of transfers are the same only if these are.  *)
IsTransfers(t) ==
  /\ t \in Seq(Range(t))
  /\ \A k \in DOMAIN t : t[k] = [from |-> t[k].from, to |-> t[k].to, amount |-> t[k].amount]

LEMMA TransfersMade ==
  ASSUME NEW m, Solana!IsMessage(m)
  PROVE  IsTransfers(LamportTransfers(m)) /\ IsTransfers(TokenTransfers(m))
<1>1. ASSUME NEW p, NEW a PROVE IsTransfers(Solana!TransfersAmong(m, p, a))
  <2> DEFINE t == Solana!TransfersAmong(m, p, a)
  <2>1. DOMAIN t = 1..Len(t) /\ Len(t) \in Nat
    BY TransfersCounted
  <2> DEFINE S == {ci \in Solana!StaticPrograms(m) :
                     /\ Solana!Key(m, ci.program) = p
                     /\ ci.data \in DOMAIN a
                     /\ Len(ci.accounts) >= 2}
             s == Solana!Filter(m.instructions, S)
             party(i) == IF Solana!InMessage(m, i) THEN Solana!Key(m, i) ELSE "in_a_lookup_table"
  <2>2. t = [k \in DOMAIN s |-> [from |-> party(s[k].accounts[1]),
                                 to |-> party(s[k].accounts[2]), amount |-> a[s[k].data]]]
    BY Zenon DEF Solana!TransfersAmong, Solana!Map
  <2> HIDE DEF t, s, party
  <2>3. \A k \in DOMAIN t : t[k] = [from |-> t[k].from, to |-> t[k].to, amount |-> t[k].amount]
    BY <2>2
  <2>4. t = [k \in 1..Len(t) |-> t[k]] /\ \A k \in 1..Len(t) : t[k] \in Range(t)
    BY <2>1, <2>2 DEF Range
  <2>5. t \in Seq(Range(t))
    BY <2>1, <2>4, FunctionIsSeq
  <2> QED
    BY <2>3, <2>5 DEF IsTransfers, t
<1> QED
  BY <1>1 DEF LamportTransfers, TokenTransfers

LEMMA SameNumbered ==
  ASSUME NEW l, NEW s, NEW t, IsTransfers(s), IsTransfers(t),
         Solana!Numbered(l, s) = Solana!Numbered(l, t)
  PROVE  s = t
<1>1. DOMAIN s = DOMAIN t
  BY Zenon DEF Solana!Numbered
<1>2. ASSUME NEW k \in DOMAIN s PROVE s[k] = t[k]
  <2>1. [label |-> l, number |-> k, from |-> s[k].from, to |-> s[k].to, amount |-> s[k].amount]
          = [label |-> l, number |-> k, from |-> t[k].from, to |-> t[k].to, amount |-> t[k].amount]
    BY <1>1, Zenon DEF Solana!Numbered
  <2>2. s[k].from = t[k].from /\ s[k].to = t[k].to /\ s[k].amount = t[k].amount
    BY <2>1
  <2> QED
    BY <1>1, <2>2, Zenon DEF IsTransfers
<1> QED
  BY <1>1, <1>2 DEF IsTransfers

LEMMA SameMoves ==
  ASSUME NEW m, NEW n, Solana!IsMessage(m), Solana!IsMessage(n), NEW s, NEW t,
         TransfersRead(m, s), TransfersRead(n, t),
         \A l \in TransferLabels : Picked(s, l) = Picked(t, l)
  PROVE  Solana!Moves(m) = Solana!Moves(n)
<1>0. "Transfer" \in TransferLabels /\ {"SPL_Transfer", "V0_SPL_Transfer"} \subseteq TransferLabels
  BY DEF TransferLabels
<1>1. IsTransfers(LamportTransfers(m)) /\ IsTransfers(LamportTransfers(n))
      /\ IsTransfers(TokenTransfers(m)) /\ IsTransfers(TokenTransfers(n))
  BY TransfersMade
<1>2. LamportTransfers(m) = LamportTransfers(n)
  <2>1. Solana!Numbered("Transfer", LamportTransfers(m))
          = Solana!Numbered("Transfer", LamportTransfers(n))
    BY <1>0, Zenon DEF TransfersRead
  <2> QED
    BY <1>1, <2>1, SameNumbered
<1>3. TokenTransfers(m) = TokenTransfers(n)
  <2> DEFINE x == TokenTransfers(m)
             y == TokenTransfers(n)
  <2>1. PICK l \in {"SPL_Transfer", "V0_SPL_Transfer"} :
          /\ Picked(s, l) = Solana!Numbered(l, x)
          /\ \A i \in {"SPL_Transfer", "V0_SPL_Transfer"} \ {l} : Picked(s, i) = <<>>
    BY Zenon DEF TransfersRead
  <2>2. PICK q \in {"SPL_Transfer", "V0_SPL_Transfer"} :
          /\ Picked(t, q) = Solana!Numbered(q, y)
          /\ \A i \in {"SPL_Transfer", "V0_SPL_Transfer"} \ {q} : Picked(t, i) = <<>>
    BY Zenon DEF TransfersRead
  <2> HIDE DEF x, y
  <2>3. CASE l = q
    <3>1. Solana!Numbered(l, x) = Solana!Numbered(l, y)
      BY <1>0, <2>1, <2>2, <2>3, Zenon
    <3> QED
      BY <1>1, <2>3, <3>1, SameNumbered DEF x, y
  <2>4. CASE l # q
    <3>1. Solana!Numbered(l, x) = <<>> /\ Solana!Numbered(q, y) = <<>>
      BY <1>0, <2>1, <2>2, <2>4, Zenon
    <3>2. ASSUME NEW i, NEW z, Solana!Numbered(i, z) = <<>>, IsTransfers(z) PROVE z = <<>>
      <4>1. DOMAIN z = DOMAIN <<>>
        BY <3>2, Zenon DEF Solana!Numbered
      <4> QED
        BY <3>2, <4>1 DEF IsTransfers
    <3> QED
      BY <1>1, <3>1, <3>2, Zenon DEF x, y
  <2> QED
    BY <2>3, <2>4, Zenon DEF x, y
<1> QED
  BY <1>2, <1>3, Zenon DEF Solana!Moves, LamportTransfers, TokenTransfers

(* All rows of a screen have labels of their own.                          *)
LEMMA SolanaScreenLabelled ==
  ASSUME NEW m, Solana!IsMessage(m), NEW a, NEW b, NEW c, NEW rows,
         SolanaLaidOut(m, a, b, c, rows)
  PROVE  LabelledRows(rows, SolanaOthers \cup SolanaMiddle \cup {"Accounts"})
<1> DEFINE d == <<SolanaAccounts(m)>>
           L == SolanaOthers \cup SolanaMiddle \cup {"Accounts"}
<1>1. SolanaAccounts(m).label = "Accounts"
  BY DEF SolanaAccounts, Solana!create_accounts_advanced_preview_layout
<1>2. LabelledRows(a, SolanaOthers) /\ LabelledRows(b, SolanaMiddle) /\ LabelledRows(c, SolanaOthers)
  BY SolanaBetweenRows, Zenon DEF SolanaLaidOut
<1>3. LabelledRows(d, {"Accounts"})
  BY <1>1, OneRow
<1>4. SolanaOthers \subseteq L /\ SolanaMiddle \subseteq L /\ {"Accounts"} \subseteq L
  OBVIOUS
<1> HIDE DEF d, L
<1>5. LabelledRows(a, L) /\ LabelledRows(b, L) /\ LabelledRows(c, L) /\ LabelledRows(d, L)
  BY <1>2, <1>3, <1>4, LabelledMore, Zenon
<1>6. LabelledRows(a \o b, L)
  BY <1>5, MoreRows
<1>7. LabelledRows(a \o b \o c, L)
  BY <1>5, <1>6, MoreRows
<1>8. LabelledRows(a \o b \o c \o d, L)
  BY <1>5, <1>7, MoreRows
<1>9. rows = a \o b \o c \o d
  BY Zenon DEF SolanaLaidOut, d
<1> QED
  BY <1>8, <1>9 DEF L

(* What two such screens have in common.                                   *)
LEMMA SameScreens ==
  ASSUME NEW m, NEW n, Solana!IsMessage(m), Solana!IsMessage(n),
         Solana!Consistent(m), Solana!Consistent(n), NEW o, NEW q,
         o = Solana!convert_versioned_to_visual_sign_payload(m), o.is = "rows",
         q = Solana!convert_versioned_to_visual_sign_payload(n), q.is = "rows",
         Solana!Displayed(o) = Solana!Displayed(q)
  PROVE  /\ m.account_keys = n.account_keys
         /\ Picked(q.rows, "Instruction_Decoding_Note") = <<>>
              => Solana!Doings(m) = Solana!Doings(n)
         /\ decode_transfers /\ Picked(q.rows, "Transfer_Decoding_Note") = <<>>
              => Solana!Moves(m) = Solana!Moves(n)
<1> DEFINE note == "Instruction_Decoding_Note"
<1>1. PICK a, b, c : SolanaLaidOut(m, a, b, c, o.rows)
  BY SolanaShown, Zenon
<1>2. PICK e, f, g : SolanaLaidOut(n, e, f, g, q.rows)
  BY SolanaShown, Zenon
<1>0. RowsAlike(o.rows, q.rows)
  <2> DEFINE L == SolanaOthers \cup SolanaMiddle \cup {"Accounts"}
  <2>1. LabelledRows(o.rows, L) /\ LabelledRows(q.rows, L)
    BY <1>1, <1>2, SolanaScreenLabelled
  <2> HIDE DEF L
  <2> QED
    BY <2>1, DisplayedAlike
<1>3. /\ \A l : l # "Instruction" => Picked(o.rows, l) = Picked(q.rows, l)
      /\ Len(Picked(o.rows, "Instruction")) = Len(Picked(q.rows, "Instruction"))
      /\ \A k \in 1..Len(Picked(o.rows, "Instruction")) :
           Picked(o.rows, "Instruction")[k].preview = Picked(q.rows, "Instruction")[k].preview
  BY <1>0, Zenon DEF RowsAlike
<1>4. /\ Picked(o.rows, "Accounts") = <<SolanaAccounts(m)>>
      /\ \A l \in SolanaMiddle : Picked(o.rows, l) = Picked(b, l)
  BY <1>1, SolanaPicked
<1>5. /\ Picked(q.rows, "Accounts") = <<SolanaAccounts(n)>>
      /\ \A l \in SolanaMiddle : Picked(q.rows, l) = Picked(f, l)
  BY <1>2, SolanaPicked
<1>6. "Instruction" \in SolanaMiddle /\ note \in SolanaMiddle
  BY DEF SolanaMiddle
<1>7. m.account_keys = n.account_keys
  <2>1. <<SolanaAccounts(m)>> = <<SolanaAccounts(n)>>
    BY <1>3, <1>4, <1>5
  <2>2. \A x, y : <<x>> = <<y>> => x = y
    OBVIOUS
  <2>3. SolanaAccounts(m) = SolanaAccounts(n)
    BY <2>1, <2>2, Zenon
  <2> QED
    BY <2>3, SameAccountKeys
<1>8. ASSUME Picked(q.rows, note) = <<>> PROVE Solana!Doings(m) = Solana!Doings(n)
  <2>1. Picked(f, note) = <<>> /\ Picked(b, note) = <<>>
    BY <1>3, <1>4, <1>5, <1>6, <1>8
  <2>2. SolanaBetween(m, b) /\ SolanaBetween(n, f)
    BY <1>1, <1>2, Zenon DEF SolanaLaidOut
  <2>3. PreviewsOf(m, Picked(b, "Instruction")) /\ PreviewsOf(n, Picked(f, "Instruction"))
    BY <2>1, <2>2, SolanaPreviewed
  <2>4. PreviewsOf(m, Picked(o.rows, "Instruction")) /\ PreviewsOf(n, Picked(q.rows, "Instruction"))
    BY <1>4, <1>5, <1>6, <2>3, Zenon
  <2> QED
    BY <1>3, <2>4, SameDoings
<1>9. ASSUME decode_transfers, Picked(q.rows, "Transfer_Decoding_Note") = <<>>
      PROVE  Solana!Moves(m) = Solana!Moves(n)
  <2>1. Picked(o.rows, "Transfer_Decoding_Note") = <<>>
    BY <1>3, <1>9
  <2>2. TransfersRead(m, o.rows) /\ TransfersRead(n, q.rows)
    BY <1>9, <2>1, TransfersShown
  <2>3. \A l \in TransferLabels : Picked(o.rows, l) = Picked(q.rows, l)
    BY <1>3 DEF TransferLabels
  <2> QED
    BY <2>2, <2>3, SameMoves
<1> QED
  BY <1>7, <1>8, <1>9

(* Two Solana messages the runtime would accept, displayed alike, have the *)
(* same keys and do the same, instruction by instruction, as far as the    *)
(* views tell: the presets' texts are enough to tell them apart, though    *)
(* none is the instruction itself.  Asked for, the transfers have the same *)
(* senders and receivers.                                                  *)
THEOREM SameScreenSameSolanaInstructions == Spec => []SameScreenSameInstructions
<1>1. SolanaInv => SameScreenSameInstructions
  <2> DEFINE o(m) == Solana!convert_versioned_to_visual_sign_payload(m)
  <2> SUFFICES ASSUME SolanaInv, chain = "Solana", outcome.is = "rows", message \in Compared,
                      Solana!Consistent(message), NEW other \in Compared,
                      Solana!Consistent(other), o(other).is = "rows",
                      Solana!Displayed(o(other)) = Solana!Displayed(outcome)
               PROVE  /\ other.account_keys = message.account_keys
                      /\ Solana!Labelled("Instruction_Decoding_Note") = <<>>
                           => Solana!Doings(other) = Solana!Doings(message)
                      /\ decode_transfers /\ Solana!Labelled("Transfer_Decoding_Note") = <<>>
                           => Solana!Moves(other) = Solana!Moves(message)
    BY Zenon DEF SameScreenSameInstructions, Solana!SameScreenSameInstructions
  <2>1. Solana!IsMessage(message) /\ Solana!IsMessage(other)
    BY MessagesAssumption, ComparedAssumption
  <2>2. outcome = o(message)
    BY SolanaRows DEF SolanaInv
  <2>3. \A l : Solana!Labelled(l) = Picked(outcome.rows, l)
    BY SolanaLabelled
  <2> HIDE DEF o
  <2>4. /\ other.account_keys = message.account_keys
        /\ Picked(outcome.rows, "Instruction_Decoding_Note") = <<>>
             => Solana!Doings(other) = Solana!Doings(message)
        /\ decode_transfers /\ Picked(outcome.rows, "Transfer_Decoding_Note") = <<>>
             => Solana!Moves(other) = Solana!Moves(message)
    BY <2>1, <2>2, SameScreens DEF o
  <2> QED
    BY <2>3, <2>4
<1> QED
  BY <1>1, SolanaOutcome, PTL

-----------------------------------------------------------------------------
(* Sui.                                                                    *)

LEMMA SuiFilter == \A s, S : Sui!Filter(s, S) = Filter(s, S)
BY DEF Sui!Filter, Filter

LEMMA SuiRange == \A s : Sui!Range(s) = Range(s)
BY DEF Sui!Range, Range

(* The visualizers that can handle a command, in the order of the build.   *)
Able(order, c) == Filter(order, {v \in Range(order) : Sui!can_handle(v, c)})

(* There is none, or the first is that of the package of the command.      *)
LEMMA SuiAble ==
  ASSUME NEW order, Sui!IsOrder(order), NEW c
  PROVE  \/ /\ Able(order, c) = <<>>
            /\ \A v \in Sui!Packages : ~Sui!can_handle(v, c)
         \/ /\ Able(order, c) # <<>>
            /\ Able(order, c)[1] = c.package
            /\ c.package \in Sui!Packages
            /\ Sui!can_handle(c.package, c)
<1> DEFINE S == {v \in Range(order) : Sui!can_handle(v, c)}
           a == Filter(order, S)
<1>1. order \in Seq(Sui!Packages) /\ Range(order) = Sui!Packages
  BY SuiRange DEF Sui!IsOrder
<1>2. a \in Seq(Sui!Packages) /\ Range(a) = Range(order) \cap S
  BY <1>1, FilterRange, FilterType
<1>3. Range(a) = {v \in Sui!Packages : Sui!can_handle(v, c)}
  BY <1>1, <1>2, Zenon
<1> HIDE DEF a
<1>4. a = <<>> => Range(a) = {}
  BY DEF Range
<1>5. a # <<>> => a[1] \in Range(a)
  BY <1>2 DEF Range
<1>6. \A v : Sui!can_handle(v, c) => v = c.package
  BY DEF Sui!can_handle
<1>7. Able(order, c) = a
  BY Zenon DEF Able, a
<1>8. CASE a = <<>>
  BY <1>3, <1>4, <1>7, <1>8, Zenon
<1>9. CASE a # <<>>
  <2>1. a[1] \in Sui!Packages /\ Sui!can_handle(a[1], c)
    BY <1>3, <1>5, <1>9
  <2>2. a[1] = c.package
    BY <1>6, <2>1, Zenon
  <2> QED
    BY <1>7, <1>9, <2>1, <2>2, Zenon
<1> QED
  BY <1>8, <1>9, Zenon

(* So each command has one visualizer, or none.                            *)
LEMMA SuiVisualizer ==
  ASSUME NEW order, Sui!IsOrder(order), NEW tx, NEW c
  PROVE  Sui!visualize_with_any(order, tx, c) =
           IF \E v \in Sui!Packages : Sui!can_handle(v, c)
           THEN Sui!visualize_tx_commands(c.package, tx, c) ELSE Sui!Rows(<<>>)
<1>1. Sui!visualize_with_any(order, tx, c) =
        IF Able(order, c) = <<>> THEN Sui!Rows(<<>>)
        ELSE Sui!visualize_tx_commands(Able(order, c)[1], tx, c)
  BY SuiFilter, SuiRange, Zenon DEF Sui!visualize_with_any, Able
<1>2. CASE Able(order, c) = <<>>
  <2>1. ~\E v \in Sui!Packages : Sui!can_handle(v, c)
    BY <1>2, SuiAble, Zenon
  <2> QED
    BY <1>1, <1>2, <2>1, Zenon
<1>3. CASE Able(order, c) # <<>>
  <2>1. Able(order, c)[1] = c.package /\ \E v \in Sui!Packages : Sui!can_handle(v, c)
    BY <1>3, SuiAble, Zenon
  <2> QED
    BY <1>1, <1>3, <2>1, Zenon
<1> QED
  BY <1>2, <1>3, Zenon

LEMMA SuiAnyOrder ==
  ASSUME NEW o \in Orders, NEW q \in Orders, NEW tx
  PROVE  Sui!convert_to_visual_sign_payload(o, tx) = Sui!convert_to_visual_sign_payload(q, tx)
<1>1. \A c : Sui!visualize_with_any(o, tx, c) = Sui!visualize_with_any(q, tx, c)
  BY OrdersAssumption, SuiVisualizer, Zenon
<1>2. [k \in DOMAIN tx.commands |-> Sui!visualize_with_any(o, tx, tx.commands[k])]
        = [k \in DOMAIN tx.commands |-> Sui!visualize_with_any(q, tx, tx.commands[k])]
  BY <1>1, Zenon
<1>3. Sui!decode_commands(o, tx) = Sui!decode_commands(q, tx)
  BY <1>2, Zenon DEF Sui!decode_commands
<1> QED
  BY <1>3, Zenon DEF Sui!convert_to_visual_sign_payload

(* Until it is converted a Sui transaction is pending, and then the        *)
(* outcome is what the conversion makes of it.                             *)
SuiInv ==
  chain = "Sui" =>
    /\ program \in Programs
    /\ visualizers \in Orders
    /\ outcome \in {Sui!Pending, Sui!convert_to_visual_sign_payload(visualizers, program)}

THEOREM SuiOutcome == Spec => []SuiInv
<1>1. Init => SuiInv
  BY DEF Init, SuiInv, Sui!Init
<1>2. SuiInv /\ [Next]_vars => SuiInv'
  <2> SUFFICES ASSUME SuiInv, [Next]_vars, chain' = "Sui" PROVE SuiInv'
    BY DEF SuiInv
  <2>0. ASSUME UNCHANGED <<program, visualizers, decode_transfers, checks>>
        PROVE  Sui!convert_to_visual_sign_payload(visualizers, program)'
                 = Sui!convert_to_visual_sign_payload(visualizers, program)
    <3>0. program' = program /\ visualizers' = visualizers /\ decode_transfers' = decode_transfers
          /\ checks' = checks
      BY <2>0
    <3>1. ASSUME NEW v, NEW tx, NEW call
          PROVE  Sui!visualize_tx_commands(v, tx, call)' = Sui!visualize_tx_commands(v, tx, call)
      BY <3>0, Zenon DEF Sui!visualize_tx_commands, Sui!SuiNativeStakingVisualizer,
                         Sui!handle_add_stake
    <3>2. ASSUME NEW o, NEW tx, NEW c
          PROVE  Sui!visualize_with_any(o, tx, c)' = Sui!visualize_with_any(o, tx, c)
      BY <3>1, Zenon DEF Sui!visualize_with_any
    <3>3. ASSUME NEW o, NEW tx
          PROVE  Sui!decode_commands(o, tx)' = Sui!decode_commands(o, tx)
      BY <3>2, Zenon DEF Sui!decode_commands
    <3>4. ASSUME NEW o, NEW tx
          PROVE  Sui!convert_to_visual_sign_payload(o, tx)' = Sui!convert_to_visual_sign_payload(o, tx)
      BY <3>0, <3>3, Zenon DEF Sui!convert_to_visual_sign_payload
    <3> QED
      BY <3>0, <3>4, Zenon
  <2>1. CASE ConvertSui
    <3>1. /\ outcome' = Sui!convert_to_visual_sign_payload(visualizers, program)
          /\ UNCHANGED <<program, visualizers, decode_transfers, checks>> /\ chain = "Sui"
      BY <2>1 DEF ConvertSui, Sui!Convert
    <3> QED
      BY <2>0, <3>1 DEF SuiInv
  <2>2. CASE ConvertSolanaLegacy \/ ConvertSolanaVersioned \/ ConvertTron
    BY <2>2 DEF ConvertSolanaLegacy, ConvertSolanaVersioned, ConvertTron
  <2>3. CASE UNCHANGED vars
    <3>1. UNCHANGED <<program, visualizers, decode_transfers, checks, outcome, chain>>
      BY <2>3 DEF vars
    <3> QED
      BY <2>0, <3>1 DEF SuiInv
  <2> QED
    BY <2>1, <2>2, <2>3 DEF Next
<1> QED
  BY <1>1, <1>2, PTL DEF Spec

(* The order in which the build finds the presets decides nothing: no call *)
(* can be handled by two of them (visualize_with_any, can_handle).         *)
THEOREM AnyOrderOfPresets == Spec => []OrderIndependent
<1>1. SuiInv => OrderIndependent
  <2> SUFFICES ASSUME SuiInv, chain = "Sui", outcome.is # "pending", NEW order \in Orders
               PROVE  Sui!convert_to_visual_sign_payload(order, program) = outcome
    BY DEF OrderIndependent, Sui!OrderIndependent
  <2>1. outcome # Sui!Pending
    BY DEF Sui!Pending
  <2>2. outcome = Sui!convert_to_visual_sign_payload(visualizers, program)
        /\ visualizers \in Orders
    BY <2>1, Zenon DEF SuiInv
  <2> QED
    BY <2>2, SuiAnyOrder, Zenon
<1> QED
  BY <1>1, SuiOutcome, PTL

-----------------------------------------------------------------------------
(* What panics of a Sui program.                                           *)

LEMMA SuiFine ==
  /\ Sui!Error # Sui!Panic
  /\ \A rows : Sui!Rows(rows) # Sui!Panic
  /\ \A label, fields : Sui!Row(label, fields) # Sui!Panic
<1>1. Sui!Error # Sui!Panic
  BY DEF Sui!Error, Sui!Panic
<1>2. ASSUME NEW rows PROVE Sui!Rows(rows) # Sui!Panic
  <2>1. Sui!Rows(rows).is = "rows" /\ Sui!Panic.is = "panic"
    BY DEF Sui!Rows, Sui!Panic
  <2> QED
    BY <2>1
<1> QED
  BY <1>1, <1>2, Zenon DEF Sui!Row

(* Of several outcomes one panics only if one of them does.                *)
LEMMA SuiCollected ==
  ASSUME NEW n \in Nat, NEW results, DOMAIN results = 1..n, Sui!Collect(results) = Sui!Panic
  PROVE  \E k \in 1..n : results[k] = Sui!Panic
<1> DEFINE failed == {k \in DOMAIN results : results[k].is # "rows"}
           first == CHOOSE k \in failed : \A j \in failed : k <= j
<1>1. failed # {}
  <2> SUFFICES ASSUME failed = {} PROVE FALSE
    OBVIOUS
  <2>1. \E rows : Sui!Collect(results) = Sui!Rows(rows)
    BY Zenon DEF Sui!Collect
  <2> QED
    BY <2>1, SuiFine, Zenon
<1>2. Sui!Collect(results) = results[first]
  BY <1>1, Zenon DEF Sui!Collect
<1>3. failed \in SUBSET Nat
  OBVIOUS
<1>4. \E k \in failed : \A j \in failed : k <= j
  BY <1>1, <1>3, LeastNatural, Zenon
<1> HIDE DEF failed
<1>5. first \in failed
  BY <1>4, Zenon
<1> HIDE DEF first
<1>6. first \in 1..n
  BY <1>5, Zenon DEF failed
<1> QED
  BY <1>2, <1>6, Zenon

(* No handler of Cetus panics, nor of Suilend.                             *)
LEMMA CetusFine ==
  ASSUME NEW tx, NEW c, c.module \in DOMAIN Sui!CETUS_CONFIG,
         c.function \in Sui!CETUS_CONFIG[c.module]
  PROVE  Sui!CetusVisualizer(tx, c) # Sui!Panic
<1>1. \A b : /\ Sui!handle_swap_pool_script(tx, c, b) # Sui!Panic
             /\ Sui!handle_swap_v2(tx, c, b) # Sui!Panic
             /\ Sui!handle_swap_pool_script_with_partner(tx, c, b) # Sui!Panic
             /\ Sui!handle_swap_v2_with_partner(tx, c, b) # Sui!Panic
  BY SuiFine, Zenon
     DEF Sui!handle_swap_pool_script, Sui!handle_swap_v2, Sui!handle_swap_pool_script_with_partner,
         Sui!handle_swap_v2_with_partner, Sui!render_swap_fields
<1>2. /\ Sui!render_close_position(tx, c) # Sui!Panic
      /\ Sui!render_remove_liquidity(tx, c) # Sui!Panic
      /\ Sui!handle_add_liquidity_by_fix_coin_v2(tx, c) # Sui!Panic
      /\ Sui!render_open_position_with_liquidity(tx, c) # Sui!Panic
      /\ Sui!handle_collect_fee(tx, c) # Sui!Panic
      /\ Sui!handle_collect_reward(tx, c) # Sui!Panic
      /\ Sui!handle_check_coin_threshold(tx, c) # Sui!Panic
      /\ Sui!handle_transfer_coin_to_sender(tx, c) # Sui!Panic
  BY SuiFine, Zenon
     DEF Sui!render_close_position, Sui!render_remove_liquidity,
         Sui!handle_add_liquidity_by_fix_coin_v2, Sui!render_open_position_with_liquidity,
         Sui!handle_collect_fee, Sui!handle_collect_reward, Sui!handle_check_coin_threshold,
         Sui!handle_transfer_coin_to_sender
<1>3. Sui!handle_router_swap(tx, c) # Sui!Panic
  BY SuiFine, Zenon DEF Sui!handle_router_swap
<1>4. c.function \in {"swap_a2b", "swap_b2a", "swap_a2b_with_partner", "swap_b2a_with_partner",
                      "close_position", "remove_liquidity", "add_liquidity_by_fix_coin",
                      "open_position_with_liquidity_with_all",
                      "open_position_with_liquidity_by_fix_coin", "collect_fee",
                      "collect_reward", "swap", "check_coin_threshold",
                      "transfer_coin_to_sender"}
  BY DEF Sui!CETUS_CONFIG
<1>5. CASE c.function \in {"swap_a2b", "swap_b2a"}
  <2>1. \E b : \/ Sui!CetusVisualizer(tx, c) = Sui!handle_swap_pool_script(tx, c, b)
               \/ Sui!CetusVisualizer(tx, c) = Sui!handle_swap_v2(tx, c, b)
    BY <1>5 DEF Sui!CetusVisualizer
  <2> QED
    BY <1>1, <2>1, Zenon
<1>6. CASE c.function \in {"swap_a2b_with_partner", "swap_b2a_with_partner"}
  <2>1. \E b : \/ Sui!CetusVisualizer(tx, c) = Sui!handle_swap_pool_script_with_partner(tx, c, b)
               \/ Sui!CetusVisualizer(tx, c) = Sui!handle_swap_v2_with_partner(tx, c, b)
    BY <1>6 DEF Sui!CetusVisualizer
  <2> QED
    BY <1>1, <2>1, Zenon
<1>7. CASE c.function \notin {"swap_a2b", "swap_b2a", "swap_a2b_with_partner",
                             "swap_b2a_with_partner"}
  BY <1>2, <1>3, <1>4, <1>7 DEF Sui!CetusVisualizer
<1> QED
  BY <1>5, <1>6, <1>7

LEMMA SuilendFine ==
  ASSUME NEW tx, NEW c, c.module \in DOMAIN Sui!SUILEND_CONFIG,
         c.function \in Sui!SUILEND_CONFIG[c.module]
  PROVE  Sui!SuilendVisualizer(tx, c) # Sui!Panic
<1>1. /\ Sui!handle_borrow_request(tx, c) # Sui!Panic
      /\ Sui!handle_withdraw_ctokens(tx, c) # Sui!Panic
      /\ Sui!handle_deposit_ctokens_into_obligation(tx, c) # Sui!Panic
      /\ Sui!handle_deposit_liquidity_and_mint_ctokens(tx, c) # Sui!Panic
      /\ Sui!handle_fulfill_liquidity_request(tx, c) # Sui!Panic
      /\ Sui!handle_redeem_ctokens_and_withdraw_liquidity_request(tx, c) # Sui!Panic
      /\ Sui!handle_rebalance_staker(tx, c) # Sui!Panic
      /\ Sui!handle_refresh_reserve_price(tx, c) # Sui!Panic
      /\ Sui!handle_unstake_sui_from_staker(tx, c) # Sui!Panic
      /\ Sui!handle_create_obligation(tx, c) # Sui!Panic
      /\ Sui!handle_claim_rewards(tx, c) # Sui!Panic
      /\ Sui!handle_claim_rewards_and_deposit(tx, c) # Sui!Panic
      /\ Sui!handle_repay(tx, c) # Sui!Panic
  BY SuiFine, Zenon
     DEF Sui!handle_borrow_request, Sui!handle_withdraw_ctokens,
         Sui!handle_deposit_ctokens_into_obligation, Sui!handle_deposit_liquidity_and_mint_ctokens,
         Sui!handle_fulfill_liquidity_request,
         Sui!handle_redeem_ctokens_and_withdraw_liquidity_request, Sui!handle_rebalance_staker,
         Sui!handle_refresh_reserve_price, Sui!handle_unstake_sui_from_staker,
         Sui!handle_create_obligation, Sui!handle_claim_rewards,
         Sui!handle_claim_rewards_and_deposit, Sui!handle_repay, Sui!ReserveRow,
         Sui!CoinReserveRow
<1>2. c.function \in {"borrow_request", "claim_rewards", "claim_rewards_and_deposit",
        "create_obligation", "deposit_ctokens_into_obligation",
        "deposit_liquidity_and_mint_ctokens", "fulfill_liquidity_request", "rebalance_staker",
        "redeem_ctokens_and_withdraw_liquidity_request", "refresh_reserve_price", "repay",
        "unstake_sui_from_staker", "withdraw_ctokens"}
  BY DEF Sui!SUILEND_CONFIG
<1> QED
  BY <1>1, <1>2 DEF Sui!SuilendVisualizer

(* Of Momentum's only those of flash loans do.                             *)
LEMMA MomentumFine ==
  ASSUME NEW tx, NEW c, c.module \in DOMAIN Sui!MOMENTUM_CONFIG,
         c.function \in Sui!MOMENTUM_CONFIG[c.module],
         c.function \notin {"flash_loan", "repay_flash_loan"}
  PROVE  Sui!MomentumVisualizer(tx, c) # Sui!Panic
<1>1. /\ Sui!MomentumRemoveLiquidity(tx, c) # Sui!Panic
      /\ Sui!MomentumClosePosition(tx, c) # Sui!Panic
      /\ Sui!MomentumAddLiquidity(tx, c) # Sui!Panic
      /\ Sui!MomentumOpenPosition(tx, c) # Sui!Panic
      /\ Sui!MomentumCollectFee(tx, c) # Sui!Panic
      /\ Sui!MomentumCollectReward(tx, c) # Sui!Panic
      /\ Sui!handle_trade_flash_swap(tx, c) # Sui!Panic
      /\ Sui!handle_trade_repay_flash_swap(tx, c) # Sui!Panic
      /\ Sui!handle_trade_swap_receipt_debts # Sui!Panic
  BY SuiFine, Zenon
     DEF Sui!MomentumRemoveLiquidity, Sui!MomentumClosePosition, Sui!MomentumAddLiquidity,
         Sui!MomentumOpenPosition, Sui!MomentumCollectFee, Sui!MomentumCollectReward,
         Sui!handle_trade_flash_swap, Sui!handle_trade_repay_flash_swap,
         Sui!handle_trade_swap_receipt_debts
<1> HIDE DEF Sui!Panic
<1>2. c.function \in {"remove_liquidity", "close_position", "add_liquidity", "open_position",
                      "fee", "reward", "flash_swap", "repay_flash_swap", "swap_receipt_debts"}
  BY DEF Sui!MOMENTUM_CONFIG
<1>3. Sui!MomentumVisualizer(tx, c) =
        CASE c.function = "remove_liquidity" -> Sui!MomentumRemoveLiquidity(tx, c)
          [] c.function = "close_position" -> Sui!MomentumClosePosition(tx, c)
          [] c.function = "add_liquidity" -> Sui!MomentumAddLiquidity(tx, c)
          [] c.function = "open_position" -> Sui!MomentumOpenPosition(tx, c)
          [] c.function = "fee" -> Sui!MomentumCollectFee(tx, c)
          [] c.function = "reward" -> Sui!MomentumCollectReward(tx, c)
          [] c.function = "flash_swap" -> Sui!handle_trade_flash_swap(tx, c)
          [] c.function = "repay_flash_swap" -> Sui!handle_trade_repay_flash_swap(tx, c)
          [] c.function = "swap_receipt_debts" -> Sui!handle_trade_swap_receipt_debts
          [] c.function \in {"flash_loan", "repay_flash_loan"} -> Sui!Panic
  BY Zenon DEF Sui!MomentumVisualizer
<1> QED
  BY <1>1, <1>2, <1>3

(* A call that panics is a flash loan, or a stake of nothing.              *)
PanickingCall(c) ==
  \/ c.function \in {"flash_loan", "repay_flash_loan"}
  \/ c.function = "request_add_stake" /\ c.arguments = <<>>

LEMMA SuiCallsFine ==
  ASSUME NEW tx, NEW c, c.package \in Sui!Packages, Sui!can_handle(c.package, c),
         Sui!visualize_tx_commands(c.package, tx, c) = Sui!Panic
  PROVE  PanickingCall(c)
<1> DEFINE v == c.package
<1>1. c.module \in DOMAIN Sui!ConfigOf(v) /\ c.function \in Sui!ConfigOf(v)[c.module]
  BY Zenon DEF Sui!can_handle
<1>2. CASE v = "cetus"
  <2>1. /\ Sui!ConfigOf(v) = Sui!CETUS_CONFIG
        /\ Sui!visualize_tx_commands(v, tx, c) = Sui!CetusVisualizer(tx, c)
    BY <1>2 DEF Sui!ConfigOf, Sui!visualize_tx_commands
  <2> QED
    BY <1>1, <2>1, CetusFine, Zenon
<1>3. CASE v = "suilend"
  <2>1. /\ Sui!ConfigOf(v) = Sui!SUILEND_CONFIG
        /\ Sui!visualize_tx_commands(v, tx, c) = Sui!SuilendVisualizer(tx, c)
    BY <1>3 DEF Sui!ConfigOf, Sui!visualize_tx_commands
  <2> QED
    BY <1>1, <2>1, SuilendFine, Zenon
<1>4. CASE v = "momentum"
  <2>1. /\ Sui!ConfigOf(v) = Sui!MOMENTUM_CONFIG
        /\ Sui!visualize_tx_commands(v, tx, c) = Sui!MomentumVisualizer(tx, c)
    BY <1>4 DEF Sui!ConfigOf, Sui!visualize_tx_commands
  <2> QED
    BY <1>1, <2>1, MomentumFine, Zenon DEF PanickingCall
<1>5. CASE v = "sui_native_staking"
  <2>1. Sui!visualize_tx_commands(v, tx, c) = Sui!SuiNativeStakingVisualizer(tx, c)
    BY <1>5 DEF Sui!visualize_tx_commands
  <2>2. Sui!handle_withdraw_stake # Sui!Panic
    BY SuiFine, Zenon DEF Sui!handle_withdraw_stake
  <2>3. c.arguments # <<>> => Sui!handle_add_stake(tx, c) # Sui!Panic
    BY SuiFine, Zenon DEF Sui!handle_add_stake
  <2> QED
    BY <2>1, <2>2, <2>3, Zenon DEF Sui!SuiNativeStakingVisualizer, PanickingCall
<1> QED
  BY <1>2, <1>3, <1>4, <1>5 DEF Sui!Packages

(* No command panics otherwise.                                            *)
LEMMA SuiCommandsFine ==
  ASSUME NEW tx, Sui!IsProgram(tx), NEW order \in Orders,
         Sui!decode_commands(order, tx) = Sui!Panic
  PROVE  \E k \in DOMAIN tx.commands :
           /\ tx.commands[k].package \in Sui!Packages
           /\ Sui!can_handle(tx.commands[k].package, tx.commands[k])
           /\ PanickingCall(tx.commands[k])
<1> DEFINE n == Len(tx.commands)
           shown == [k \in DOMAIN tx.commands |->
                       Sui!visualize_with_any(order, tx, tx.commands[k])]
<1>1. n \in Nat /\ DOMAIN tx.commands = 1..n
  BY DEF Sui!IsProgram, Sui!IsList
<1>2. PICK k \in 1..n : shown[k] = Sui!Panic
  <2>1. DOMAIN shown = 1..n /\ Sui!Collect(shown) = Sui!Panic
    BY <1>1, Zenon DEF Sui!decode_commands
  <2> HIDE DEF shown, n
  <2> QED
    BY <1>1, <2>1, SuiCollected, Zenon
<1> DEFINE c == tx.commands[k]
<1>3. Sui!visualize_with_any(order, tx, c) = Sui!Panic
  BY <1>1, <1>2, Zenon
<1>4. /\ \E v \in Sui!Packages : Sui!can_handle(v, c)
      /\ Sui!visualize_tx_commands(c.package, tx, c) = Sui!Panic
  BY <1>3, OrdersAssumption, SuiVisualizer, SuiFine, Zenon
<1>5. c.package \in Sui!Packages /\ Sui!can_handle(c.package, c)
  BY <1>4, Zenon DEF Sui!can_handle
<1> HIDE DEF n
<1> QED
  BY <1>1, <1>4, <1>5, SuiCallsFine, Zenon

-----------------------------------------------------------------------------
(* In a well-formed program, the way back from a coin comes to an end.     *)

(* Where the coin of an argument comes from, if a coin command made it.    *)
IsCoin(a) == Sui!IsResult(a) /\ Sui!IsCoinCommand(Sui!CommandOf(program, a))
Before(a) == IF IsCoin(a) THEN Sui!CommandOf(program, a)[1].coin ELSE a

(* f goes that way for n steps, as the recursive function in CoinOf does.  *)
Back(arg, n, f) == f = [m \in 0..n |-> IF m = 0 THEN arg ELSE Before(f[m - 1])]

LEMMA BackExists ==
  ASSUME NEW arg, NEW n \in Nat
  PROVE  \E f : Back(arg, n, f)
<1> DEFINE N == {m \in Nat : \E f : Back(arg, m, f)}
<1>1. 0 \in N
  <2>1. Back(arg, 0, [m \in 0..0 |-> arg])
    BY DEF Back
  <2> QED
    BY <2>1
<1>2. ASSUME NEW m \in Nat, m \in N PROVE m + 1 \in N
  <2>1. PICK f : Back(arg, m, f)
    BY <1>2
  <2> DEFINE g == [i \in 0..(m + 1) |-> IF i <= m THEN f[i] ELSE Before(f[m])]
  <2>2. \A i \in 0..m : f[i] = IF i = 0 THEN arg ELSE Before(f[i - 1])
    BY <2>1 DEF Back
  <2>3. \A i \in 0..(m + 1) : g[i] = IF i = 0 THEN arg ELSE Before(g[i - 1])
    <3> SUFFICES ASSUME NEW i \in 0..(m + 1)
                 PROVE  g[i] = IF i = 0 THEN arg ELSE Before(g[i - 1])
      OBVIOUS
    <3>1. CASE i = 0
      BY <2>2, <3>1
    <3>2. CASE i # 0
      <4>1. i - 1 \in 0..m /\ i - 1 \in 0..(m + 1) /\ g[i - 1] = f[i - 1]
        BY <3>2
      <4>2. g[i] = Before(f[i - 1])
        BY <2>2, <3>2
      <4> QED
        BY <3>2, <4>1, <4>2
    <3> QED
      BY <3>1, <3>2
  <2> HIDE DEF g
  <2>4. g = [i \in 0..(m + 1) |-> g[i]]
    BY DEF g
  <2>5. Back(arg, m + 1, g)
    BY <2>3, <2>4 DEF Back
  <2> QED
    BY <2>5
<1>3. Nat \subseteq N
  BY <1>1, <1>2, NaturalsBySteps
<1> QED
  BY <1>3

LEMMA CoinIsBack ==
  ASSUME NEW arg, Len(program.commands) \in Nat
  PROVE  \E f : /\ Back(arg, Len(program.commands), f)
                /\ Sui!CoinOf(program, arg) = f[Len(program.commands)]
<1> DEFINE n == Len(program.commands)
<1>1. Sui!CoinOf(program, arg) = (CHOOSE f : Back(arg, n, f))[n]
  BY DEF Sui!CoinOf, Back, Before, IsCoin
<1>2. \E f : Back(arg, n, f)
  BY BackExists
<1> QED
  BY <1>1, <1>2, Zenon

(* What the coin of a coin command comes of was made before it.            *)
LEMMA CoinBefore ==
  ASSUME Sui!IsProgram(program), Sui!WellFormed, NEW a, IsCoin(a), a.index \in Nat
  PROVE  /\ a.index < Len(program.commands)
         /\ Sui!IsResult(Before(a)) => /\ Before(a).index \in Nat
                                       /\ Before(a).index < a.index
<1> DEFINE n == Len(program.commands)
           k == a.index + 1
           c == program.commands[k]
           args == Sui!Arguments(c)
<1>1. n \in Nat /\ DOMAIN program.commands = 1..n
  BY DEF Sui!IsProgram, Sui!IsList
<1>2. a.index < n /\ Sui!CommandOf(program, a) = <<c>>
  BY DEF IsCoin, Sui!IsCoinCommand, Sui!CommandOf, Sui!ItemAt, Sui!Ok, Sui!Err
<1>3. c.command \in {"SplitCoins", "MergeCoins"} /\ Before(a) = c.coin
  BY <1>2 DEF IsCoin, Sui!IsCoinCommand, Before
<1>4. k \in DOMAIN program.commands
  BY <1>1, <1>2
<1>5. Sui!IsCommand(c)
  BY <1>4 DEF Sui!IsProgram
<1> HIDE DEF c
<1>6. 1 \in DOMAIN args /\ args[1] = c.coin
  <2>1. PICK s : s \in Seq(Sui!Range(s)) /\ args = <<c.coin>> \o s
    BY <1>3, <1>5 DEF Sui!IsCommand, Sui!IsList, Sui!Arguments
  <2> DEFINE E == Sui!Range(s) \cup {c.coin}
  <2>2. s \in Seq(E) /\ <<c.coin>> \in Seq(E)
    BY <2>1, SeqMonotonic
  <2> HIDE DEF E
  <2> QED
    BY <2>1, <2>2
<1>7. Sui!IsResult(args[1]) => args[1].index < k - 1
  BY <1>4, <1>6 DEF Sui!WellFormed, c
<1>8. Sui!IsResult(args[1]) => args[1].index \in Nat
  BY <1>5, <1>6 DEF Sui!IsCommand, Sui!IsResult
<1> QED
  BY <1>2, <1>3, <1>6, <1>7, <1>8

LEMMA ComesToAnEnd ==
  ASSUME Sui!IsProgram(program), Sui!WellFormed, NEW arg,
         Sui!IsResult(arg) => arg.index \in Nat /\ arg.index < Len(program.commands)
  PROVE  ~Sui!GoesAround(program, arg)
<1> DEFINE n == Len(program.commands)
<1>1. n \in Nat
  BY DEF Sui!IsProgram, Sui!IsList
<1>2. PICK f : Back(arg, n, f) /\ Sui!CoinOf(program, arg) = f[n]
  BY <1>1, CoinIsBack
<1>3. \A m \in 0..n : f[m] = IF m = 0 THEN arg ELSE Before(f[m - 1])
  BY <1>2 DEF Back
<1> DEFINE Near(m) == Sui!IsResult(f[m]) => f[m].index \in Nat /\ (IsCoin(f[m]) => f[m].index < n - m)
           N == {m \in Nat : m <= n => Near(m)}
<1>4. 0 \in N
  BY <1>1, <1>3
<1>5. ASSUME NEW m \in Nat, m \in N PROVE m + 1 \in N
  <2> SUFFICES ASSUME m + 1 <= n PROVE Near(m + 1)
    OBVIOUS
  <2>1. f[m + 1] = Before(f[m])
    BY <1>1, <1>3
  <2>2. Near(m)
    BY <1>1, <1>5
  <2>3. CASE IsCoin(f[m])
    <3>1. f[m].index \in Nat /\ f[m].index < n - m
      BY <2>2, <2>3 DEF IsCoin
    <3>2. Sui!IsResult(f[m + 1]) => f[m + 1].index \in Nat /\ f[m + 1].index < f[m].index
      BY <2>1, <2>3, <3>1, CoinBefore
    <3> QED
      BY <1>1, <3>1, <3>2
  <2>4. CASE ~IsCoin(f[m])
    BY <2>1, <2>2, <2>4 DEF Before
  <2> QED
    BY <2>3, <2>4
<1>6. Nat \subseteq N
  BY <1>4, <1>5, NaturalsBySteps
<1>7. Near(n)
  BY <1>1, <1>6
<1>8. ~IsCoin(f[n])
  BY <1>1, <1>7 DEF IsCoin
<1> QED
  BY <1>2, <1>8 DEF Sui!GoesAround, IsCoin

(* So no transfer of a well-formed program panics.                         *)
LEMMA SuiTransfersFine ==
  ASSUME Sui!IsProgram(program), Sui!WellFormed
  PROVE  Sui!decode_transfers_of(program) # Sui!Panic
<1> DEFINE n == Len(program.commands)
           Shown(c) == IF c.command = "TransferObjects"
                       THEN Sui!CoinTransferVisualizer(program, c) ELSE Sui!Rows(<<>>)
           shown == [k \in DOMAIN program.commands |-> Shown(program.commands[k])]
<1>1. n \in Nat /\ DOMAIN program.commands = 1..n
  BY DEF Sui!IsProgram, Sui!IsList
<1>2. SUFFICES ASSUME NEW k \in 1..n, program.commands[k].command = "TransferObjects",
                      Sui!CoinTransferVisualizer(program, program.commands[k]) = Sui!Panic
               PROVE  FALSE
  <2>1. Sui!decode_transfers_of(program) = Sui!Collect(shown)
    BY Zenon DEF Sui!decode_transfers_of
  <2>2. DOMAIN shown = 1..n
    BY <1>1
  <2>3. ASSUME NEW k \in 1..n, shown[k] = Sui!Panic
        PROVE  /\ program.commands[k].command = "TransferObjects"
               /\ Sui!CoinTransferVisualizer(program, program.commands[k]) = Sui!Panic
    <3>1. Shown(program.commands[k]) = Sui!Panic
      BY <1>1, <2>3, Zenon
    <3> QED
      BY <3>1, SuiFine, Zenon
  <2> HIDE DEF shown, n
  <2> QED
    BY <1>1, <1>2, <2>1, <2>2, <2>3, SuiCollected, Zenon
<1> DEFINE c == program.commands[k]
           objects == c.objects
           r == Len(objects)
           Resolving(a) == IF Sui!GoesAround(program, a) THEN Sui!Panic
                           ELSE IF Sui!resolve_object(program, a) = Sui!Err THEN Sui!Error
                           ELSE Sui!Rows(<<>>)
           receiver == Sui!resolve_receiver(program, c.receiver)
           resolving == [j \in DOMAIN objects |-> Resolving(objects[j])]
           sent == [j \in DOMAIN objects |->
                      Sui!visualize_transfer_command(program, receiver, objects[j])]
<1>3. Sui!IsCommand(c)
  BY <1>1 DEF Sui!IsProgram
<1>4. objects \in Seq(Sui!Range(objects)) /\ Sui!Arguments(c) = objects \o <<c.receiver>>
  BY <1>2, <1>3 DEF Sui!IsCommand, Sui!IsList, Sui!Arguments
<1>5. r \in Nat /\ DOMAIN objects = 1..r
  BY <1>4
<1>6. ASSUME NEW j \in 1..r PROVE ~Sui!GoesAround(program, objects[j])
  <2> DEFINE E == Sui!Range(objects) \cup {c.receiver}
             args == Sui!Arguments(c)
  <2>1. objects \in Seq(E) /\ <<c.receiver>> \in Seq(E)
    BY <1>4, SeqMonotonic
  <2> HIDE DEF E
  <2>2. j \in DOMAIN args /\ args[j] = objects[j]
    BY <1>4, <1>5, <2>1
  <2>3. Sui!IsResult(args[j]) => args[j].index < k - 1
    BY <1>1, <2>2 DEF Sui!WellFormed
  <2>4. Sui!IsResult(args[j]) => args[j].index \in Nat
    BY <1>3, <2>2 DEF Sui!IsCommand, Sui!IsResult
  <2>5. Sui!IsResult(objects[j]) => objects[j].index \in Nat /\ objects[j].index < n
    BY <1>1, <2>2, <2>3, <2>4
  <2> QED
    BY <2>5, ComesToAnEnd
<1> HIDE DEF r, objects
<1>7. Sui!Collect(resolving) # Sui!Panic
  <2>1. DOMAIN resolving = 1..r
    BY <1>5, Zenon
  <2>2. ASSUME NEW j \in 1..r PROVE resolving[j] # Sui!Panic
    <3>1. resolving[j] = Resolving(objects[j])
      BY <1>5, Zenon
    <3>2. Resolving(objects[j]) \in {Sui!Error, Sui!Rows(<<>>)}
      BY <1>6
    <3> HIDE DEF Resolving
    <3> QED
      BY <3>1, <3>2, SuiFine
  <2> HIDE DEF resolving
  <2> QED
    BY <1>5, <2>1, <2>2, SuiCollected, Zenon
<1>8. Sui!Collect(sent) # Sui!Panic
  <2>1. DOMAIN sent = 1..r
    BY <1>5, Zenon
  <2>2. ASSUME NEW j \in 1..r PROVE sent[j] # Sui!Panic
    <3>1. sent[j] = Sui!visualize_transfer_command(program, receiver, objects[j])
      BY <1>5, Zenon
    <3> QED
      BY <3>1, SuiFine, Zenon DEF Sui!visualize_transfer_command
  <2> HIDE DEF sent
  <2> QED
    BY <1>5, <2>1, <2>2, SuiCollected, Zenon
<1>9. \/ Sui!CoinTransferVisualizer(program, c) = Sui!Error
      \/ Sui!CoinTransferVisualizer(program, c) = Sui!Collect(resolving)
      \/ Sui!CoinTransferVisualizer(program, c) = Sui!Collect(sent)
  <2>1. Sui!CoinTransferVisualizer(program, c) =
          IF receiver = Sui!Err THEN Sui!Error
          ELSE IF Sui!Collect(resolving).is # "rows" THEN Sui!Collect(resolving)
          ELSE Sui!Collect(sent)
    BY Zenon DEF Sui!CoinTransferVisualizer, objects
  <2> HIDE DEF sent, resolving, receiver
  <2>2. CASE receiver = Sui!Err
    BY <2>1, <2>2
  <2>3. CASE receiver # Sui!Err /\ Sui!Collect(resolving).is # "rows"
    BY <2>1, <2>3
  <2>4. CASE receiver # Sui!Err /\ Sui!Collect(resolving).is = "rows"
    BY <2>1, <2>4
  <2> QED
    BY <2>2, <2>3, <2>4
<1> HIDE DEF sent, resolving
<1> QED
  BY <1>2, <1>7, <1>8, <1>9, SuiFine, Zenon

(* No well-formed program panics the converter or keeps it going around    *)
(* (resolve_object), unless it takes or repays a flash loan                *)
(* (MomentumVisualizer's todo!) or stakes without an argument              *)
(* (get_stake_receiver).                                                   *)
THEOREM WellFormedProgramsNeverPanic == Spec => []WellFormedNeverPanics
<1> DEFINE Cause == \E k \in DOMAIN Sui!DeclaredCalls :
                      \/ Sui!DeclaredCalls[k].function \in {"flash_loan", "repay_flash_loan"}
                      \/ /\ Sui!DeclaredCalls[k].function = "request_add_stake"
                         /\ Sui!DeclaredCalls[k].arguments = <<>>
<1>1. SuiInv => WellFormedNeverPanics
  <2> SUFFICES ASSUME SuiInv, chain = "Sui", outcome = Sui!Panic, Sui!WellFormed
               PROVE  Cause
    BY Zenon DEF WellFormedNeverPanics, Sui!WellFormedNeverPanics
  <2> HIDE DEF Cause
  <2>1. Sui!IsProgram(program) /\ visualizers \in Orders
    BY SuiProgramsAssumption DEF SuiInv
  <2>2. Sui!convert_to_visual_sign_payload(visualizers, program) = Sui!Panic
    <3>1. Sui!Panic # Sui!Pending
      BY DEF Sui!Panic, Sui!Pending
    <3> QED
      BY <3>1, Zenon DEF SuiInv
  <2> DEFINE transfers == IF decode_transfers THEN Sui!decode_transfers_of(program)
                          ELSE Sui!Nothing
             commands == Sui!decode_commands(visualizers, program)
             two == <<Sui!Network, Sui!Details>>
             four == <<Sui!Network, transfers, commands, Sui!Details>>
  <2>3. Sui!Network # Sui!Panic /\ Sui!Details # Sui!Panic /\ Sui!Nothing # Sui!Panic
    BY SuiFine, Zenon DEF Sui!Network, Sui!Details, Sui!Nothing
  <2>4. transfers # Sui!Panic
    BY <2>1, <2>3, SuiTransfersFine, Zenon
  <2> HIDE DEF transfers, commands
  <2>5. Sui!Collect(two) # Sui!Panic
    <3>1. DOMAIN two = 1..2 /\ 2 \in Nat /\ \A k \in 1..2 : two[k] # Sui!Panic
      BY <2>3
    <3> HIDE DEF two
    <3> QED
      BY <3>1, SuiCollected, Zenon
  <2>6. Sui!Collect(four) = Sui!Panic
    <3>1. Sui!convert_to_visual_sign_payload(visualizers, program) =
            IF program \in Unconvertible THEN Sui!Error
            ELSE IF program.kind # "ProgrammableTransaction" THEN Sui!Collect(two)
            ELSE Sui!Collect(four)
      BY Zenon DEF Sui!convert_to_visual_sign_payload, transfers, commands
    <3> HIDE DEF two, four
    <3> QED
      BY <2>2, <2>5, <3>1, SuiFine
  <2>7. commands = Sui!Panic
    <3>1. DOMAIN four = 1..4 /\ 4 \in Nat
          /\ four[1] = Sui!Network /\ four[2] = transfers /\ four[3] = commands
          /\ four[4] = Sui!Details
      OBVIOUS
    <3>2. PICK k \in 1..4 : four[k] = Sui!Panic
      <4> HIDE DEF four
      <4> QED
        BY <2>6, <3>1, SuiCollected, Zenon
    <3>3. k = 1 \/ k = 2 \/ k = 3 \/ k = 4
      OBVIOUS
    <3> HIDE DEF four
    <3> QED
      BY <2>3, <2>4, <3>1, <3>2, <3>3, Zenon
  <2>8. PICK k \in DOMAIN program.commands :
          /\ program.commands[k].package \in Sui!Packages
          /\ Sui!can_handle(program.commands[k].package, program.commands[k])
          /\ PanickingCall(program.commands[k])
    BY <2>1, <2>7, SuiCommandsFine, Zenon DEF commands
  <2> DEFINE c == program.commands[k]
             s == program.commands
             S == {d \in Range(s) : /\ d.command = "MoveCall"
                                    /\ d.package \in Sui!Packages
                                    /\ d.module \in DOMAIN Sui!ConfigOf(d.package)
                                    /\ d.function \in Sui!ConfigOf(d.package)[d.module]}
  <2>9. c \in S /\ s \in Seq(Range(s))
    <3>1. c \in Range(s)
      BY DEF Range
    <3>2. c \in S
      BY <2>8, <3>1, Zenon DEF Sui!can_handle
    <3>3. s \in Seq(Range(s))
      BY <2>1, SuiRange, Zenon DEF Sui!IsProgram, Sui!IsList
    <3> QED
      BY <3>2, <3>3, Zenon
  <2>10. Sui!DeclaredCalls = Filter(s, S)
    BY SuiFilter, SuiRange, Zenon DEF Sui!DeclaredCalls
  <2> HIDE DEF s
  <2>11. Range(Filter(s, S)) = Range(s) \cap S
    BY <2>9, FilterRange, Zenon
  <2>12. c \in Range(Sui!DeclaredCalls)
    BY <2>9, <2>10, <2>11
  <2>13. PICK j \in DOMAIN Sui!DeclaredCalls : Sui!DeclaredCalls[j] = c
    BY <2>12, Zenon DEF Range
  <2> HIDE DEF c
  <2>14. PanickingCall(c)
    BY <2>8, Zenon DEF c
  <2> QED
    BY <2>13, <2>14, Zenon DEF PanickingCall, Cause
<1> QED
  BY <1>1, SuiOutcome, PTL

-----------------------------------------------------------------------------
(* The rows of Sui's calls: each names what its call was given.            *)

(* The labels of fields that name a market, a position or a pool; but the  *)
(* pool of Suilend is named by the type of the market.                     *)
Naming(c) == {"Lending_Market", "Position"}
               \cup (IF c.package = "suilend" THEN {} ELSE {"Pool_Address"})

FieldFine(c, x) ==
  x.label \in Naming(c) => \E p \in {0, 1} : x.value = Sui!get_object_value(program, c, p)
FieldsFine(c, fields) == IsTuple(fields) /\ \A x \in Range(fields) : FieldFine(c, x)

(* The labels of the other fields.                                         *)
SuiWords == {"Pool_Coin_A", "Pool_Coin_B", "Amount_In", "Min_Out", "Amount_Out", "Max_In",
             "Input_Coin", "Output_Coin", "Sqrt_Price_Limit", "Use_All_Coin", "Coin", "Threshold",
             "Reward_Coin", "Min_Out_A", "Min_Out_B", "Liquidity", "Fix_Coin", "Amount_A",
             "Amount_B", "Tick_Lower_Index", "Tick_Upper_Index", "Reserve_Index", "Amount",
             "Reward_Reserve_Index", "Reward_Index", "Reward_Side", "Deposit_Reserve_Index",
             "Repay_Amount", "Min_Amount_X", "Min_Amount_Y", "Validator"}

LEMMA WordsFine ==
  ASSUME NEW c
  PROVE  \A l \in SuiWords : \A v, u : /\ FieldFine(c, Sui!Amount(l, v, u))
                                        /\ FieldFine(c, Sui!Text(l, v))
                                        /\ FieldFine(c, Sui!Coin(l, v))
<1>1. \A l \in SuiWords : \A v, u : FieldFine(c, Sui!Amount(l, v, u))
  BY DEF SuiWords, FieldFine, Naming, Sui!Amount
<1> QED
  BY <1>1, Zenon DEF Sui!Text, Sui!Coin

LEMMA TuplesFine ==
  ASSUME NEW c
  PROVE  /\ FieldsFine(c, <<>>)
         /\ \A w : FieldFine(c, w) => FieldsFine(c, <<w>>)
         /\ \A w, x : FieldFine(c, w) /\ FieldFine(c, x) => FieldsFine(c, <<w, x>>)
         /\ \A w, x, y : FieldFine(c, w) /\ FieldFine(c, x) /\ FieldFine(c, y)
                           => FieldsFine(c, <<w, x, y>>)
         /\ \A w, x, y, z : FieldFine(c, w) /\ FieldFine(c, x) /\ FieldFine(c, y) /\ FieldFine(c, z)
                              => FieldsFine(c, <<w, x, y, z>>)
         /\ \A s, t : FieldsFine(c, s) /\ FieldsFine(c, t) => FieldsFine(c, s \o t)
<1>1. \A s, t : FieldsFine(c, s) /\ FieldsFine(c, t) => FieldsFine(c, s \o t)
  <2> SUFFICES ASSUME NEW s, NEW t, FieldsFine(c, s), FieldsFine(c, t)
               PROVE  FieldsFine(c, s \o t)
    OBVIOUS
  <2>1. IsTuple(s \o t) /\ Range(s \o t) = Range(s) \cup Range(t)
    BY TupleConcat DEF FieldsFine
  <2> QED
    BY <2>1 DEF FieldsFine
<1> QED
  BY <1>1, TupleRanges DEF FieldsFine

(* The rows that say no more than that: none of these labels is looked for *)
(* in a screen.                                                            *)
SuiOthers == {"Network", "Transfer_Command", "Transaction_Details"}
SuiSpecial ==
  SuiOthers \cup {"CetusAMM_Swap_Command", "Stake_Command", "Suilend_Repay_Command"}

SuiLabels ==
  {"Cetus_Router_Check_Coin_Threshold", "CetusAMM_Collect_Reward_Command",
   "CetusAMM_Collect_Fee_Command", "CetusAMM_Close_Position_Command",
   "CetusAMM_Remove_Liquidity_Command", "CetusAMM_Add_Liquidity_(Fix_Coin)_Command",
   "CetusAMM_Open_Position_With_Liquidity_Command", "Cetus_Utils_Transfer_Coin_To_Sender",
   "Suilend_Borrow_Request", "Suilend_Withdraw_cTokens", "Suilend_Deposit_cTokens",
   "Suilend_Deposit_Liquidity", "Suilend_Fulfill_Liquidity", "Suilend_Redeem_cTokens",
   "Suilend_Rebalance_Staker", "Suilend_Refresh_Reserve_Price", "Suilend_Unstake_SUI",
   "Suilend_Create_Obligation", "Suilend_Claim_Rewards",
   "Suilend_Claim_Rewards_and_Deposit_Command", "Momentum_Remove_Liquidity_Command",
   "Momentum_Close_Position_Command", "Momentum_Add_Liquidity_Command",
   "Momentum_Open_Position_Command", "Momentum_Collect_Fee_Command",
   "Momentum_Collect_Reward_Command", "Momentum_Flash_Swap_Command",
   "Momentum_Repay_Flash_Swap_Command", "Momentum_Swap_Receipt_Debts_Command",
   "Withdraw_Command"}

Ordinary(c, r) == \E l, fields : /\ r = Sui!Row(l, fields)
                                 /\ l \notin SuiSpecial
                                 /\ FieldsFine(c, fields)

LEMMA OrdinaryRow ==
  ASSUME NEW c
  PROVE  \A l \in SuiLabels : \A fields : FieldsFine(c, fields) => Ordinary(c, Sui!Row(l, fields))
<1>1. \A l \in SuiLabels : l \notin SuiSpecial
  BY DEF SuiLabels, SuiSpecial, SuiOthers
<1> QED
  BY <1>1, Zenon DEF Ordinary

LEMMA CetusPieces ==
  ASSUME NEW c, c.package = "cetus"
  PROVE  /\ FieldsFine(c, <<Sui!CetusPool(program, c)>>)
         /\ FieldsFine(c, Sui!PoolCoins(c))
         /\ \A n : FieldsFine(c, Sui!MinOuts(program, c, n))
         /\ \A n : FieldsFine(c, Sui!FixedAmounts(program, c, n))
<1>1. FieldFine(c, Sui!CetusPool(program, c))
  BY DEF FieldFine, Sui!CetusPool, Sui!Text, Sui!Amount
<1>2. {"Pool_Coin_A", "Pool_Coin_B", "Min_Out_A", "Min_Out_B", "Fix_Coin", "Amount_A", "Amount_B"}
        \subseteq SuiWords
  BY DEF SuiWords
<1>3. FieldsFine(c, Sui!PoolCoins(c))
  BY <1>2, WordsFine, TuplesFine DEF Sui!PoolCoins
<1>4. \A n : FieldsFine(c, Sui!MinOuts(program, c, n))
  BY <1>2, WordsFine, TuplesFine DEF Sui!MinOuts
<1>5. \A n : FieldsFine(c, Sui!FixedAmounts(program, c, n))
  BY <1>2, WordsFine, TuplesFine DEF Sui!FixedAmounts
<1> QED
  BY <1>1, <1>3, <1>4, <1>5, TuplesFine, Zenon

LEMMA CetusOrdinary ==
  ASSUME NEW c, c.package = "cetus"
  PROVE  /\ Ordinary(c, Sui!render_close_position(program, c))
         /\ Ordinary(c, Sui!render_remove_liquidity(program, c))
         /\ Ordinary(c, Sui!handle_add_liquidity_by_fix_coin_v2(program, c))
         /\ Ordinary(c, Sui!render_open_position_with_liquidity(program, c))
         /\ Ordinary(c, Sui!handle_collect_fee(program, c))
         /\ Ordinary(c, Sui!handle_collect_reward(program, c))
         /\ Ordinary(c, Sui!handle_check_coin_threshold(program, c))
         /\ Ordinary(c, Sui!handle_transfer_coin_to_sender(program, c))
<1> DEFINE pool == <<Sui!CetusPool(program, c)>>
           coins == Sui!PoolCoins(c)
<1>0. /\ {"Reward_Coin", "Liquidity", "Tick_Lower_Index", "Tick_Upper_Index", "Coin", "Threshold"}
           \subseteq SuiWords
      /\ {"CetusAMM_Close_Position_Command", "CetusAMM_Remove_Liquidity_Command",
          "CetusAMM_Add_Liquidity_(Fix_Coin)_Command",
          "CetusAMM_Open_Position_With_Liquidity_Command", "CetusAMM_Collect_Fee_Command",
          "CetusAMM_Collect_Reward_Command", "Cetus_Router_Check_Coin_Threshold",
          "Cetus_Utils_Transfer_Coin_To_Sender"} \subseteq SuiLabels
  BY DEF SuiWords, SuiLabels
<1>1. \A s, t : FieldsFine(c, s) /\ FieldsFine(c, t) => FieldsFine(c, s \o t)
  BY TuplesFine
<1>2. FieldsFine(c, pool \o coins)
  BY <1>1, CetusPieces, Zenon
<1>3. FieldsFine(c, pool \o coins \o Sui!MinOuts(program, c, 3))
  BY <1>1, <1>2, CetusPieces, Zenon
<1>4. FieldsFine(c, pool \o coins
                    \o <<Sui!Amount("Liquidity", Sui!Getter(program, c, 3, "u128"), "RAW")>>
                    \o Sui!MinOuts(program, c, 4))
  <2>1. FieldsFine(c, <<Sui!Amount("Liquidity", Sui!Getter(program, c, 3, "u128"), "RAW")>>)
    BY <1>0, WordsFine, TuplesFine
  <2> QED
    BY <1>1, <1>2, <2>1, CetusPieces, Zenon
<1>5. FieldsFine(c, pool \o coins \o Sui!FixedAmounts(program, c, 5))
  BY <1>1, <1>2, CetusPieces, Zenon
<1>6. FieldsFine(c, pool \o coins \o Sui!FixedAmounts(program, c, 6)
                    \o <<Sui!Text("Tick_Lower_Index", Sui!Getter(program, c, 2, "u32")),
                         Sui!Text("Tick_Upper_Index", Sui!Getter(program, c, 3, "u32"))>>)
  <2>1. FieldsFine(c, <<Sui!Text("Tick_Lower_Index", Sui!Getter(program, c, 2, "u32")),
                        Sui!Text("Tick_Upper_Index", Sui!Getter(program, c, 3, "u32"))>>)
    BY <1>0, WordsFine, TuplesFine
  <2> QED
    BY <1>1, <1>2, <2>1, CetusPieces, Zenon
<1>7. FieldsFine(c, pool \o coins \o <<Sui!Coin("Reward_Coin", Sui!TypeArg(c, 2))>>)
  <2>1. FieldsFine(c, <<Sui!Coin("Reward_Coin", Sui!TypeArg(c, 2))>>)
    BY <1>0, WordsFine, TuplesFine
  <2> QED
    BY <1>1, <1>2, <2>1, Zenon
<1>8. FieldsFine(c, <<Sui!Coin("Coin", Sui!TypeArg(c, 0))>>)
  BY <1>0, WordsFine, TuplesFine
<1>9. FieldsFine(c, <<Sui!Coin("Coin", Sui!TypeArg(c, 0)),
                      Sui!Amount("Threshold", Sui!Getter(program, c, 1, "u64"),
                                 Sui!base_unit_symbol(Sui!TypeArg(c, 0)))>>)
  BY <1>0, WordsFine, TuplesFine
<1>10. \A l \in SuiLabels : \A fields : FieldsFine(c, fields) => Ordinary(c, Sui!Row(l, fields))
  BY OrdinaryRow
<1>11. Ordinary(c, Sui!render_close_position(program, c))
  BY <1>0, <1>3, <1>10 DEF Sui!render_close_position
<1>12. Ordinary(c, Sui!render_remove_liquidity(program, c))
  BY <1>0, <1>4, <1>10 DEF Sui!render_remove_liquidity
<1>13. Ordinary(c, Sui!handle_add_liquidity_by_fix_coin_v2(program, c))
  BY <1>0, <1>5, <1>10 DEF Sui!handle_add_liquidity_by_fix_coin_v2
<1>14. Ordinary(c, Sui!render_open_position_with_liquidity(program, c))
  BY <1>0, <1>6, <1>10 DEF Sui!render_open_position_with_liquidity
<1>15. Ordinary(c, Sui!handle_collect_fee(program, c))
  BY <1>0, <1>2, <1>10 DEF Sui!handle_collect_fee
<1>16. Ordinary(c, Sui!handle_collect_reward(program, c))
  BY <1>0, <1>7, <1>10 DEF Sui!handle_collect_reward
<1>17. Ordinary(c, Sui!handle_check_coin_threshold(program, c))
  BY <1>0, <1>9, <1>10 DEF Sui!handle_check_coin_threshold
<1>18. Ordinary(c, Sui!handle_transfer_coin_to_sender(program, c))
  BY <1>0, <1>8, <1>10 DEF Sui!handle_transfer_coin_to_sender
<1> QED
  BY <1>11, <1>12, <1>13, <1>14, <1>15, <1>16, <1>17, <1>18

(* A swap pays in one coin and receives the other, in its own units.       *)
SwapField(in, out, x) ==
  /\ x.label \in {"Amount_In", "Max_In"} => x.unit = Sui!base_unit_symbol(in)
  /\ x.label \in {"Amount_Out", "Min_Out"} => x.unit = Sui!base_unit_symbol(out)
  /\ x.label = "Input_Coin" => x.value = Sui!Ok(in)
  /\ x.label = "Output_Coin" => x.value = Sui!Ok(out)

Has(S, l) == \E x \in S : x.label = l

(* S are the fields of a swap.                                             *)
SwapFieldSet(in, out, S) ==
  /\ \A x \in S : SwapField(in, out, x)
  /\ Has(S, "Input_Coin") /\ Has(S, "Output_Coin")
  /\ (Has(S, "Amount_In") /\ Has(S, "Min_Out")) \/ (Has(S, "Amount_Out") /\ Has(S, "Max_In"))

SwapForm(c, S) ==
  \E in, out :
    /\ SwapFieldSet(in, out, S)
    /\ c.function \in {"swap_a2b", "swap_a2b_with_partner"} =>
         in = Sui!TypeArg(c, 0) /\ out = Sui!TypeArg(c, 1)

SwapLike(c, r) == \E fields : /\ r = Sui!Row("CetusAMM_Swap_Command", fields)
                              /\ FieldsFine(c, fields)
                              /\ SwapForm(c, Range(fields))

(* Fields of other labels do not matter.                                   *)
LEMMA SwapMore ==
  ASSUME NEW in, NEW out, NEW S, SwapFieldSet(in, out, S), NEW T,
         \A x \in T : x.label \in {"Pool_Address", "Sqrt_Price_Limit", "Use_All_Coin"}
  PROVE  SwapFieldSet(in, out, S \cup T)
<1>1. \A x \in T : SwapField(in, out, x)
  BY DEF SwapField
<1>2. \A l : Has(S, l) => Has(S \cup T, l)
  BY DEF Has
<1> QED
  BY <1>1, <1>2, Zenon DEF SwapFieldSet

LEMMA SwapFieldsForm ==
  ASSUME NEW c, NEW in, NEW out, NEW by, NEW amount, NEW limit
  PROVE  LET fields == Sui!SwapFields(<<in, out>>, by, amount, limit)
         IN  FieldsFine(c, fields) /\ SwapFieldSet(in, out, Range(fields))
<1> DEFINE fields == Sui!SwapFields(<<in, out>>, by, amount, limit)
           p == Sui!determine_primary_limit_labels(in, out, by = Sui!Ok(1))
           a == Sui!Amount(p[1], IF by = Sui!Err THEN Sui!Err ELSE amount, p[2])
           b == Sui!Coin("Input_Coin", in)
           d == Sui!Amount(p[3], limit, p[4])
           e == Sui!Coin("Output_Coin", out)
<1>1. <<in, out>>[1] = in /\ <<in, out>>[2] = out
  OBVIOUS
<1>2. fields = <<a, b, d, e>>
  BY <1>1, Zenon DEF Sui!SwapFields
<1>3. Range(fields) = {a, b, d, e}
  <2> HIDE DEF fields, a, b, d, e
  <2> QED
    BY <1>2, TupleRanges
<1>4. \/ /\ p[1] = "Amount_In" /\ p[2] = Sui!base_unit_symbol(in)
         /\ p[3] = "Min_Out" /\ p[4] = Sui!base_unit_symbol(out)
      \/ /\ p[1] = "Amount_Out" /\ p[2] = Sui!base_unit_symbol(out)
         /\ p[3] = "Max_In" /\ p[4] = Sui!base_unit_symbol(in)
  BY DEF Sui!determine_primary_limit_labels
<1>5. /\ b.label = "Input_Coin" /\ b.value = Sui!Ok(in)
      /\ e.label = "Output_Coin" /\ e.value = Sui!Ok(out)
      /\ a.label = p[1] /\ a.unit = p[2] /\ d.label = p[3] /\ d.unit = p[4]
  BY DEF Sui!Coin, Sui!Text, Sui!Amount
<1> HIDE DEF a, b, d, e, p
<1>6. SwapField(in, out, a) /\ SwapField(in, out, b) /\ SwapField(in, out, d) /\ SwapField(in, out, e)
  BY <1>4, <1>5 DEF SwapField
<1>7. SwapFieldSet(in, out, {a, b, d, e})
  BY <1>4, <1>5, <1>6 DEF SwapFieldSet, Has
<1>8. FieldFine(c, a) /\ FieldFine(c, b) /\ FieldFine(c, d) /\ FieldFine(c, e)
  BY <1>4, <1>5 DEF FieldFine, Naming
<1> HIDE DEF fields
<1>9. FieldsFine(c, fields)
  BY <1>2, <1>8, TuplesFine, Zenon
<1> QED
  BY <1>3, <1>7, <1>9, Zenon DEF fields

LEMMA SwapDirection ==
  ASSUME NEW a2b, NEW c
  PROVE  \E in, out : /\ Sui!determine_input_output_coins(a2b, c) = <<in, out>>
                      /\ a2b => in = Sui!TypeArg(c, 0) /\ out = Sui!TypeArg(c, 1)
BY DEF Sui!determine_input_output_coins

(* The four ways to swap in a pool.                                        *)
LEMMA PoolSwaps ==
  ASSUME NEW c, c.package = "cetus", NEW n, NEW a2b,
         c.function \in {"swap_a2b", "swap_a2b_with_partner"} => a2b
  PROVE  SwapLike(c, Sui!render_swap_fields(program, c, a2b, n))
<1> DEFINE by == Sui!Getter(program, c, n, "bool")
           amount == Sui!Getter(program, c, n + 1, "u64")
           limit == Sui!Getter(program, c, n + 2, "u64")
           pool == <<Sui!CetusPool(program, c)>>
           price == <<Sui!Text("Sqrt_Price_Limit", Sui!Getter(program, c, n + 3, "u128"))>>
<1>1. PICK in, out : /\ Sui!determine_input_output_coins(a2b, c) = <<in, out>>
                     /\ a2b => in = Sui!TypeArg(c, 0) /\ out = Sui!TypeArg(c, 1)
  BY SwapDirection
<1> DEFINE swap == Sui!SwapFields(<<in, out>>, by, amount, limit)
           fields == pool \o swap \o price
<1>2. Sui!render_swap_fields(program, c, a2b, n) = Sui!Row("CetusAMM_Swap_Command", fields)
  BY <1>1, Zenon DEF Sui!render_swap_fields
<1>3. FieldsFine(c, swap) /\ SwapFieldSet(in, out, Range(swap))
  BY SwapFieldsForm, Zenon
<1>4. FieldsFine(c, pool)
  BY CetusPieces, Zenon
<1>5. FieldsFine(c, price)
  BY WordsFine, TuplesFine DEF SuiWords
<1> DEFINE T == Range(pool) \cup Range(price)
<1>6. \A x \in T : x.label \in {"Pool_Address", "Sqrt_Price_Limit", "Use_All_Coin"}
  BY TupleRanges DEF Sui!CetusPool, Sui!Text, Sui!Amount
<1> HIDE DEF swap, pool, price
<1>7. FieldsFine(c, pool \o swap) /\ FieldsFine(c, fields)
  BY <1>3, <1>4, <1>5, TuplesFine, Zenon
<1>8. Range(fields) = Range(swap) \cup T
  BY <1>3, <1>4, <1>5, <1>7, TupleConcat DEF FieldsFine
<1> HIDE DEF fields, T
<1>9. SwapFieldSet(in, out, Range(fields))
  <2>1. SwapFieldSet(in, out, Range(swap) \cup T)
    BY <1>3, <1>6, SwapMore
  <2> QED
    BY <1>8, <2>1, Zenon
<1>10. SwapForm(c, Range(fields))
  BY <1>1, <1>9, Zenon DEF SwapForm
<1> QED
  BY <1>2, <1>7, <1>10, Zenon DEF SwapLike

(* And that of the router, which has its own name.                         *)
LEMMA RouterSwaps ==
  ASSUME NEW c, c.package = "cetus", c.function = "swap"
  PROVE  Sui!handle_router_swap(program, c) = Sui!Error
         \/ SwapLike(c, Sui!handle_router_swap(program, c))
<1> DEFINE a2b == Sui!Getter(program, c, 4, "bool")
           by == Sui!Getter(program, c, 5, "bool")
           amount == Sui!Getter(program, c, 6, "u64")
           more == <<Sui!Text("Sqrt_Price_Limit", Sui!Getter(program, c, 7, "u128")),
                     Sui!Text("Use_All_Coin", Sui!Getter(program, c, 8, "bool"))>>
<1>1. PICK in, out : Sui!determine_input_output_coins(a2b = Sui!Ok(1), c) = <<in, out>>
  BY DEF Sui!determine_input_output_coins
<1> DEFINE swap == Sui!SwapFields(<<in, out>>, by, amount, Sui!Ok(0))
           fields == swap \o more
<1>2. \/ Sui!handle_router_swap(program, c) = Sui!Error
      \/ Sui!handle_router_swap(program, c) = Sui!Row("CetusAMM_Swap_Command", fields)
  BY <1>1, Zenon DEF Sui!handle_router_swap
<1>3. FieldsFine(c, swap) /\ SwapFieldSet(in, out, Range(swap))
  BY SwapFieldsForm, Zenon
<1>4. FieldsFine(c, more)
  BY WordsFine, TuplesFine DEF SuiWords
<1>5. \A x \in Range(more) : x.label \in {"Pool_Address", "Sqrt_Price_Limit", "Use_All_Coin"}
  BY TupleRanges DEF Sui!Text, Sui!Amount
<1> HIDE DEF swap, more
<1>6. FieldsFine(c, fields)
  BY <1>3, <1>4, TuplesFine, Zenon
<1>7. Range(fields) = Range(swap) \cup Range(more)
  BY <1>3, <1>4, TupleConcat DEF FieldsFine
<1> HIDE DEF fields
<1>8. SwapFieldSet(in, out, Range(fields))
  <2>1. SwapFieldSet(in, out, Range(swap) \cup Range(more))
    BY <1>3, <1>5, SwapMore
  <2> QED
    BY <1>7, <2>1, Zenon
<1>9. SwapForm(c, Range(fields))
  <2>1. c.function \notin {"swap_a2b", "swap_a2b_with_partner"}
    OBVIOUS
  <2> QED
    BY <1>8, <2>1, Zenon DEF SwapForm
<1> QED
  BY <1>2, <1>6, <1>9, Zenon DEF SwapLike

LEMMA CetusKinds ==
  ASSUME NEW c, c.package = "cetus", c.module \in DOMAIN Sui!CETUS_CONFIG,
         c.function \in Sui!CETUS_CONFIG[c.module]
  PROVE  LET r == Sui!CetusVisualizer(program, c)
         IN  Ordinary(c, r) \/ SwapLike(c, r) \/ r = Sui!Error
<1> DEFINE a2b == c.function \in {"swap_a2b", "swap_a2b_with_partner"}
<1>1. /\ SwapLike(c, Sui!handle_swap_pool_script(program, c, a2b))
      /\ SwapLike(c, Sui!handle_swap_v2(program, c, a2b))
      /\ SwapLike(c, Sui!handle_swap_pool_script_with_partner(program, c, a2b))
      /\ SwapLike(c, Sui!handle_swap_v2_with_partner(program, c, a2b))
  BY PoolSwaps, Zenon
     DEF Sui!handle_swap_pool_script, Sui!handle_swap_v2, Sui!handle_swap_pool_script_with_partner,
         Sui!handle_swap_v2_with_partner
<1>2. c.function = "swap" => Sui!handle_router_swap(program, c) = Sui!Error
                             \/ SwapLike(c, Sui!handle_router_swap(program, c))
  BY RouterSwaps
<1>3. c.function \in {"swap_a2b", "swap_b2a", "swap_a2b_with_partner", "swap_b2a_with_partner",
                      "close_position", "remove_liquidity", "add_liquidity_by_fix_coin",
                      "open_position_with_liquidity_with_all",
                      "open_position_with_liquidity_by_fix_coin", "collect_fee",
                      "collect_reward", "swap", "check_coin_threshold",
                      "transfer_coin_to_sender"}
  BY DEF Sui!CETUS_CONFIG
<1>4. CASE c.function \in {"swap_a2b", "swap_b2a", "swap_a2b_with_partner",
                           "swap_b2a_with_partner"}
  <2>1. Sui!CetusVisualizer(program, c) \in
          {Sui!handle_swap_pool_script(program, c, a2b), Sui!handle_swap_v2(program, c, a2b),
           Sui!handle_swap_pool_script_with_partner(program, c, a2b),
           Sui!handle_swap_v2_with_partner(program, c, a2b)}
    BY <1>4 DEF Sui!CetusVisualizer
  <2> QED
    BY <1>1, <2>1, Zenon
<1>5. CASE c.function \notin {"swap_a2b", "swap_b2a", "swap_a2b_with_partner",
                              "swap_b2a_with_partner"}
  BY <1>2, <1>3, <1>5, CetusOrdinary DEF Sui!CetusVisualizer
<1> QED
  BY <1>4, <1>5

(* A repayment shows the amount get_repay_amount finds.                    *)
RepayField(c, x) ==
  LET amount == Sui!get_repay_amount(program, c)
  IN  x = IF amount = Sui!Err THEN Sui!Text("Repay_Amount", Sui!Ok("N/A"))
          ELSE Sui!Amount("Repay_Amount", amount, Sui!symbol(Sui!TypeArg(c, 1)))

RepayLike(c, r) == \E fields : /\ r = Sui!Row("Suilend_Repay_Command", fields)
                               /\ FieldsFine(c, fields)
                               /\ RepayField(c, fields[4])

LEMMA SuilendPieces ==
  ASSUME NEW c, c.package = "suilend"
  PROVE  /\ FieldsFine(c, Sui!Market(program, c))
         /\ FieldsFine(c, Sui!RewardCoin(c))
         /\ FieldsFine(c, Sui!RewardIndexes(program, c))
         /\ FieldsFine(c, Sui!RewardSide(program, c))
         /\ FieldFine(c, Sui!CoinAmount(program, c))
         /\ \A v : FieldFine(c, Sui!Coin("Coin", v)) /\ FieldFine(c, Sui!Text("Reserve_Index", v))
                   /\ FieldFine(c, Sui!Text("Deposit_Reserve_Index", v))
         /\ \A v, u : FieldFine(c, Sui!Amount("Repay_Amount", v, u))
         /\ \A v : FieldFine(c, Sui!Text("Repay_Amount", v))
<1>1. \A v : FieldFine(c, Sui!Coin("Pool_Address", v))
  BY DEF FieldFine, Naming, Sui!Coin, Sui!Text, Sui!Amount
<1>2. FieldFine(c, Sui!Text("Lending_Market", Sui!get_object_value(program, c, 0)))
  BY DEF FieldFine, Sui!Text, Sui!Amount
<1>3. FieldsFine(c, Sui!Market(program, c))
  BY <1>1, <1>2, TuplesFine DEF Sui!Market
<1>4. {"Reward_Coin", "Reward_Reserve_Index", "Reward_Index", "Reward_Side", "Coin",
       "Reserve_Index", "Deposit_Reserve_Index", "Amount", "Repay_Amount"} \subseteq SuiWords
  BY DEF SuiWords
<1>5. /\ FieldsFine(c, Sui!RewardCoin(c))
      /\ FieldsFine(c, Sui!RewardIndexes(program, c))
      /\ FieldsFine(c, Sui!RewardSide(program, c))
  BY <1>4, WordsFine, TuplesFine DEF Sui!RewardCoin, Sui!RewardIndexes, Sui!RewardSide
<1>6. FieldFine(c, Sui!CoinAmount(program, c))
  BY <1>4, WordsFine DEF Sui!CoinAmount
<1> QED
  BY <1>3, <1>4, <1>5, <1>6, WordsFine

LEMMA SuilendOrdinary ==
  ASSUME NEW c, c.package = "suilend"
  PROVE  /\ Ordinary(c, Sui!handle_borrow_request(program, c))
         /\ Ordinary(c, Sui!handle_withdraw_ctokens(program, c))
         /\ Ordinary(c, Sui!handle_deposit_ctokens_into_obligation(program, c))
         /\ Ordinary(c, Sui!handle_deposit_liquidity_and_mint_ctokens(program, c))
         /\ Ordinary(c, Sui!handle_fulfill_liquidity_request(program, c))
         /\ Ordinary(c, Sui!handle_redeem_ctokens_and_withdraw_liquidity_request(program, c))
         /\ Ordinary(c, Sui!handle_rebalance_staker(program, c))
         /\ Ordinary(c, Sui!handle_refresh_reserve_price(program, c))
         /\ Ordinary(c, Sui!handle_unstake_sui_from_staker(program, c))
         /\ Ordinary(c, Sui!handle_create_obligation(program, c))
         /\ Ordinary(c, Sui!handle_claim_rewards(program, c))
         /\ Ordinary(c, Sui!handle_claim_rewards_and_deposit(program, c))
<1>0. {"Suilend_Borrow_Request", "Suilend_Withdraw_cTokens", "Suilend_Deposit_cTokens",
       "Suilend_Deposit_Liquidity", "Suilend_Fulfill_Liquidity", "Suilend_Redeem_cTokens",
       "Suilend_Rebalance_Staker", "Suilend_Refresh_Reserve_Price", "Suilend_Unstake_SUI",
       "Suilend_Create_Obligation", "Suilend_Claim_Rewards",
       "Suilend_Claim_Rewards_and_Deposit_Command"} \subseteq SuiLabels
  BY DEF SuiLabels
<1>1. \A s, t : FieldsFine(c, s) /\ FieldsFine(c, t) => FieldsFine(c, s \o t)
  BY TuplesFine
<1>2. \A l \in SuiLabels : \A fields : FieldsFine(c, fields) => Ordinary(c, Sui!Row(l, fields))
  BY OrdinaryRow
<1>10. \A x, y, z : FieldFine(c, x) /\ FieldFine(c, y) /\ FieldFine(c, z) =>
         /\ FieldsFine(c, Sui!Market(program, c) \o <<x>>)
         /\ FieldsFine(c, Sui!Market(program, c) \o <<x, y>>)
         /\ FieldsFine(c, Sui!Market(program, c) \o <<x, y, z>>)
  BY <1>1, SuilendPieces, TuplesFine, Zenon
<1>3. \A l \in SuiLabels : /\ Ordinary(c, Sui!ReserveRow(program, c, l))
                           /\ Ordinary(c, Sui!CoinReserveRow(program, c, l))
  BY <1>2, <1>10, SuilendPieces, Zenon DEF Sui!ReserveRow, Sui!CoinReserveRow
<1> DEFINE market == Sui!Market(program, c)
           coin == Sui!RewardCoin(c)
           indexes == Sui!RewardIndexes(program, c)
           side == Sui!RewardSide(program, c)
<1>4. FieldsFine(c, market \o coin \o indexes \o side)
  <2>1. /\ FieldsFine(c, market) /\ FieldsFine(c, coin)
        /\ FieldsFine(c, indexes) /\ FieldsFine(c, side)
    BY SuilendPieces, Zenon
  <2> QED
    BY <1>1, <2>1, Zenon
<1>5. \A v : FieldsFine(c, market \o coin \o side \o indexes
                             \o <<Sui!Text("Deposit_Reserve_Index", v)>>)
  <2>1. /\ FieldsFine(c, market) /\ FieldsFine(c, coin)
        /\ FieldsFine(c, indexes) /\ FieldsFine(c, side)
    BY SuilendPieces, Zenon
  <2>2. \A v : FieldsFine(c, <<Sui!Text("Deposit_Reserve_Index", v)>>)
    BY SuilendPieces, TuplesFine, Zenon
  <2> HIDE DEF market, coin, indexes, side
  <2>3. FieldsFine(c, market \o coin \o side \o indexes)
    BY <1>1, <2>1, Zenon
  <2> QED
    BY <1>1, <2>2, <2>3, Zenon
<1>6. /\ Ordinary(c, Sui!handle_borrow_request(program, c))
      /\ Ordinary(c, Sui!handle_withdraw_ctokens(program, c))
  <2>1. \A l \in SuiLabels : \A x, y, z : FieldFine(c, x) /\ FieldFine(c, y) /\ FieldFine(c, z) =>
          Ordinary(c, Sui!Row(l, Sui!Market(program, c) \o <<x, y, z>>))
    BY <1>2, <1>10, Zenon
  <2>2. "Suilend_Borrow_Request" \in SuiLabels /\ "Suilend_Withdraw_cTokens" \in SuiLabels
    BY <1>0
  <2> QED
    BY <2>1, <2>2, SuilendPieces, Zenon DEF Sui!handle_borrow_request, Sui!handle_withdraw_ctokens
<1>7. /\ Ordinary(c, Sui!handle_deposit_ctokens_into_obligation(program, c))
      /\ Ordinary(c, Sui!handle_deposit_liquidity_and_mint_ctokens(program, c))
      /\ Ordinary(c, Sui!handle_fulfill_liquidity_request(program, c))
      /\ Ordinary(c, Sui!handle_redeem_ctokens_and_withdraw_liquidity_request(program, c))
  BY <1>0, <1>3
     DEF Sui!handle_deposit_ctokens_into_obligation, Sui!handle_deposit_liquidity_and_mint_ctokens,
         Sui!handle_fulfill_liquidity_request,
         Sui!handle_redeem_ctokens_and_withdraw_liquidity_request
<1>8. /\ Ordinary(c, Sui!handle_rebalance_staker(program, c))
      /\ Ordinary(c, Sui!handle_refresh_reserve_price(program, c))
      /\ Ordinary(c, Sui!handle_unstake_sui_from_staker(program, c))
  BY <1>0, <1>3
     DEF Sui!handle_rebalance_staker, Sui!handle_refresh_reserve_price,
         Sui!handle_unstake_sui_from_staker
<1>9. /\ Ordinary(c, Sui!handle_create_obligation(program, c))
      /\ Ordinary(c, Sui!handle_claim_rewards(program, c))
      /\ Ordinary(c, Sui!handle_claim_rewards_and_deposit(program, c))
  BY <1>0, <1>2, <1>4, <1>5, SuilendPieces
     DEF Sui!handle_create_obligation, Sui!handle_claim_rewards,
         Sui!handle_claim_rewards_and_deposit
<1> QED
  BY <1>6, <1>7, <1>8, <1>9

LEMMA SuilendRepays ==
  ASSUME NEW c, c.package = "suilend"
  PROVE  RepayLike(c, Sui!handle_repay(program, c))
<1> DEFINE market == Sui!Market(program, c)
           amount == Sui!get_repay_amount(program, c)
           x == IF amount = Sui!Err THEN Sui!Text("Repay_Amount", Sui!Ok("N/A"))
                ELSE Sui!Amount("Repay_Amount", amount, Sui!symbol(Sui!TypeArg(c, 1)))
           coin == Sui!Coin("Coin", Sui!TypeArg(c, 1))
           reserve == Sui!Text("Reserve_Index", Sui!Getter(program, c, 1, "u64"))
           fields == market \o <<coin, x, reserve>>
<1>1. Sui!handle_repay(program, c) = Sui!Row("Suilend_Repay_Command", fields)
  BY Zenon DEF Sui!handle_repay
<1>2. FieldFine(c, x) /\ FieldFine(c, coin) /\ FieldFine(c, reserve)
  BY SuilendPieces
<1>3. RepayField(c, x)
  BY Zenon DEF RepayField
<1>4. \E a, b : market = <<a, b>>
  BY DEF Sui!Market
<1> HIDE DEF x, coin, reserve, market
<1>5. FieldsFine(c, fields)
  BY <1>2, SuilendPieces, TuplesFine, Zenon DEF market
<1>6. fields[4] = x
  BY <1>4
<1> HIDE DEF fields
<1> QED
  BY <1>1, <1>3, <1>5, <1>6, Zenon DEF RepayLike

LEMMA SuilendKinds ==
  ASSUME NEW c, c.package = "suilend", c.module \in DOMAIN Sui!SUILEND_CONFIG,
         c.function \in Sui!SUILEND_CONFIG[c.module]
  PROVE  LET r == Sui!SuilendVisualizer(program, c) IN Ordinary(c, r) \/ RepayLike(c, r)
<1>1. c.function \in {"borrow_request", "claim_rewards", "claim_rewards_and_deposit",
        "create_obligation", "deposit_ctokens_into_obligation",
        "deposit_liquidity_and_mint_ctokens", "fulfill_liquidity_request", "rebalance_staker",
        "redeem_ctokens_and_withdraw_liquidity_request", "refresh_reserve_price", "repay",
        "unstake_sui_from_staker", "withdraw_ctokens"}
  BY DEF Sui!SUILEND_CONFIG
<1> QED
  BY <1>1, SuilendOrdinary, SuilendRepays DEF Sui!SuilendVisualizer

LEMMA MomentumKinds ==
  ASSUME NEW c, c.package = "momentum", c.module \in DOMAIN Sui!MOMENTUM_CONFIG,
         c.function \in Sui!MOMENTUM_CONFIG[c.module]
  PROVE  LET r == Sui!MomentumVisualizer(program, c) IN Ordinary(c, r) \/ r = Sui!Panic
<1> DEFINE pool == Sui!MomentumPool(program, c)
           position == Sui!Position(program, c)
           coins == Sui!PoolCoins(c)
<1>0. {"Momentum_Remove_Liquidity_Command", "Momentum_Close_Position_Command",
       "Momentum_Add_Liquidity_Command", "Momentum_Open_Position_Command",
       "Momentum_Collect_Fee_Command", "Momentum_Collect_Reward_Command",
       "Momentum_Flash_Swap_Command", "Momentum_Repay_Flash_Swap_Command",
       "Momentum_Swap_Receipt_Debts_Command"} \subseteq SuiLabels
  BY DEF SuiLabels
<1>1. /\ FieldFine(c, pool) /\ FieldFine(c, position)
      /\ FieldFine(c, Sui!Text("Position", Sui!get_object_value(program, c, 0)))
  BY DEF FieldFine, Sui!MomentumPool, Sui!Position, Sui!Text, Sui!Amount
<1>2. {"Pool_Coin_A", "Pool_Coin_B", "Min_Amount_X", "Min_Amount_Y", "Liquidity", "Reward_Coin",
       "Sqrt_Price_Limit"} \subseteq SuiWords
  BY DEF SuiWords
<1>3. FieldsFine(c, coins)
  BY <1>2, WordsFine, TuplesFine DEF Sui!PoolCoins
<1>4. \A n : FieldsFine(c, Sui!MinAmounts(program, c, n))
  BY <1>2, WordsFine, TuplesFine DEF Sui!MinAmounts
<1>5. \A v : /\ FieldsFine(c, <<Sui!Text("Liquidity", v)>>)
             /\ FieldsFine(c, <<Sui!Coin("Reward_Coin", v)>>)
             /\ FieldsFine(c, <<Sui!Text("Sqrt_Price_Limit", v)>>)
  BY <1>2, WordsFine, TuplesFine
<1> HIDE DEF pool, position, coins
<1>6. FieldsFine(c, <<pool>>) /\ FieldsFine(c, <<pool, position>>)
  BY <1>1, TuplesFine
<1>7. \A s, t : FieldsFine(c, s) /\ FieldsFine(c, t) => FieldsFine(c, s \o t)
  BY TuplesFine
<1>8. FieldsFine(c, <<pool>> \o coins) /\ FieldsFine(c, <<pool, position>> \o coins)
  BY <1>3, <1>6, <1>7, Zenon
<1>9. \A l \in SuiLabels : \A fields : FieldsFine(c, fields) => Ordinary(c, Sui!Row(l, fields))
  BY OrdinaryRow
<1>10. Ordinary(c, Sui!MomentumRemoveLiquidity(program, c))
  <2>1. \A v, n : FieldsFine(c, <<pool, position>> \o coins \o <<Sui!Text("Liquidity", v)>>
                                  \o Sui!MinAmounts(program, c, n))
    BY <1>4, <1>5, <1>7, <1>8, Zenon
  <2> QED
    BY <1>0, <1>9, <2>1 DEF Sui!MomentumRemoveLiquidity, pool, position, coins
<1>11. Ordinary(c, Sui!MomentumClosePosition(program, c))
  <2>1. FieldsFine(c, <<Sui!Text("Position", Sui!get_object_value(program, c, 0))>>)
    BY <1>1, TuplesFine
  <2> QED
    BY <1>0, <1>9, <2>1 DEF Sui!MomentumClosePosition
<1>12. Ordinary(c, Sui!MomentumAddLiquidity(program, c))
  <2>1. \A n : FieldsFine(c, <<pool>> \o coins \o Sui!MinAmounts(program, c, n))
    BY <1>4, <1>7, <1>8, Zenon
  <2> QED
    BY <1>0, <1>9, <2>1 DEF Sui!MomentumAddLiquidity, pool, coins
<1>13. /\ Ordinary(c, Sui!MomentumOpenPosition(program, c))
       /\ Ordinary(c, Sui!MomentumCollectFee(program, c))
       /\ Ordinary(c, Sui!handle_trade_repay_flash_swap(program, c))
  BY <1>0, <1>8, <1>9
     DEF Sui!MomentumOpenPosition, Sui!MomentumCollectFee, Sui!handle_trade_repay_flash_swap,
         pool, position, coins
<1>14. Ordinary(c, Sui!MomentumCollectReward(program, c))
  <2>1. \A v : FieldsFine(c, <<pool, position>> \o coins \o <<Sui!Coin("Reward_Coin", v)>>)
    BY <1>5, <1>7, <1>8, Zenon
  <2> QED
    BY <1>0, <1>9, <2>1 DEF Sui!MomentumCollectReward, pool, position, coins
<1>15. Ordinary(c, Sui!handle_trade_flash_swap(program, c))
  <2>1. \A v : FieldsFine(c, <<pool>> \o coins \o <<Sui!Text("Sqrt_Price_Limit", v)>>)
    BY <1>5, <1>7, <1>8, Zenon
  <2> QED
    BY <1>0, <1>9, <2>1 DEF Sui!handle_trade_flash_swap, pool, coins
<1>16. Ordinary(c, Sui!handle_trade_swap_receipt_debts)
  BY <1>0, <1>9, TuplesFine DEF Sui!handle_trade_swap_receipt_debts
<1>17. c.function \in {"remove_liquidity", "close_position", "add_liquidity", "open_position",
                       "fee", "reward", "flash_swap", "repay_flash_swap", "flash_loan",
                       "repay_flash_loan", "swap_receipt_debts"}
  BY DEF Sui!MOMENTUM_CONFIG
<1> QED
  BY <1>10, <1>11, <1>12, <1>13, <1>14, <1>15, <1>16, <1>17 DEF Sui!MomentumVisualizer

(* A stake shows the amount get_stake_amount finds, if any.                *)
StakeField(c, x) ==
  x = Sui!AmountField(Sui!OrElse(Sui!get_stake_amount(program, c.arguments), Sui!None), "MIST")

StakeLike(c, r) == \E fields : /\ r = Sui!Row("Stake_Command", fields)
                               /\ FieldsFine(c, fields)
                               /\ StakeField(c, fields[2])

LEMMA StakingKinds ==
  ASSUME NEW c
  PROVE  LET r == Sui!SuiNativeStakingVisualizer(program, c)
         IN  Ordinary(c, r) \/ StakeLike(c, r) \/ r = Sui!Panic
<1>1. Ordinary(c, Sui!handle_withdraw_stake)
  <2>1. "Withdraw_Command" \in SuiLabels
    BY DEF SuiLabels
  <2> QED
    BY <2>1, OrdinaryRow, TuplesFine DEF Sui!handle_withdraw_stake
<1>2. Sui!handle_add_stake(program, c) = Sui!Panic \/ StakeLike(c, Sui!handle_add_stake(program, c))
  <2> DEFINE a == Sui!Text("Validator",
                     Sui!OrElse(IF c.arguments = <<>> THEN Sui!Err
                                ELSE Sui!get_stake_receiver(program, c.arguments), Sui!Ok(0)))
             b == Sui!AmountField(Sui!OrElse(Sui!get_stake_amount(program, c.arguments), Sui!None),
                                  "MIST")
  <2>1. \/ Sui!handle_add_stake(program, c) = Sui!Panic
        \/ Sui!handle_add_stake(program, c) = Sui!Row("Stake_Command", <<a, b>>)
    BY Zenon DEF Sui!handle_add_stake
  <2>2. {"Validator", "Amount"} \subseteq SuiWords
    BY DEF SuiWords
  <2>3. FieldFine(c, a) /\ FieldFine(c, b)
    BY <2>2, WordsFine DEF Sui!AmountField
  <2>4. StakeField(c, b)
    BY Zenon DEF StakeField
  <2> HIDE DEF a, b
  <2>5. FieldsFine(c, <<a, b>>) /\ <<a, b>>[2] = b
    BY <2>3, TuplesFine
  <2> QED
    BY <2>1, <2>4, <2>5 DEF StakeLike
<1> QED
  BY <1>1, <1>2, Zenon DEF Sui!SuiNativeStakingVisualizer

-----------------------------------------------------------------------------
(* The screens of Sui's programs.                                          *)

LEMMA SuiFlatten == \A s : Sui!FlattenSeq(s) = FlattenSeq(s)
BY DEF Sui!FlattenSeq, FlattenSeq

LEMMA SuiRows == \A rows : Sui!Rows(rows).is = "rows" /\ Sui!Rows(rows).rows = rows
BY DEF Sui!Rows

(* A row that is made lacks no value and no unit.                          *)
LEMMA SuiRowMade ==
  ASSUME NEW l, NEW fields, Sui!Row(l, fields).is = "rows"
  PROVE  /\ Sui!Row(l, fields) = Sui!Rows(<<[label |-> l, fields |-> fields]>>)
         /\ \A k \in DOMAIN fields : fields[k].value # Sui!Err /\ fields[k].unit # ""
<1>1. Sui!Error.is # "rows"
  BY DEF Sui!Error
<1> QED
  BY <1>1 DEF Sui!Row

(* What the row of a call tells.                                           *)
Told(c, row) ==
  /\ row.label \notin SuiOthers
  /\ FieldsFine(c, row.fields)
  /\ \A k \in DOMAIN row.fields : row.fields[k].value # Sui!Err
  /\ row.label = "CetusAMM_Swap_Command" => SwapForm(c, Range(row.fields))
  /\ row.label = "Stake_Command" => StakeField(c, row.fields[2])
  /\ row.label = "Suilend_Repay_Command" => RepayField(c, row.fields[4])

LEMMA SuiTold ==
  ASSUME NEW c, c.package \in Sui!Packages, Sui!can_handle(c.package, c),
         Sui!visualize_tx_commands(c.package, program, c).is = "rows"
  PROVE  \E row : /\ Sui!visualize_tx_commands(c.package, program, c) = Sui!Rows(<<row>>)
                  /\ Told(c, row)
<1> DEFINE v == c.package
           r == Sui!visualize_tx_commands(v, program, c)
<1>1. c.module \in DOMAIN Sui!ConfigOf(v) /\ c.function \in Sui!ConfigOf(v)[c.module]
  BY Zenon DEF Sui!can_handle
<1>2. Ordinary(c, r) \/ SwapLike(c, r) \/ RepayLike(c, r) \/ StakeLike(c, r)
      \/ r = Sui!Error \/ r = Sui!Panic
  <2>1. CASE v = "cetus"
    <3>1. Sui!ConfigOf(v) = Sui!CETUS_CONFIG /\ r = Sui!CetusVisualizer(program, c)
      BY <2>1 DEF Sui!ConfigOf, Sui!visualize_tx_commands
    <3> QED
      BY <1>1, <2>1, <3>1, CetusKinds, Zenon
  <2>2. CASE v = "suilend"
    <3>1. Sui!ConfigOf(v) = Sui!SUILEND_CONFIG /\ r = Sui!SuilendVisualizer(program, c)
      BY <2>2 DEF Sui!ConfigOf, Sui!visualize_tx_commands
    <3> QED
      BY <1>1, <2>2, <3>1, SuilendKinds, Zenon
  <2>3. CASE v = "momentum"
    <3>1. Sui!ConfigOf(v) = Sui!MOMENTUM_CONFIG /\ r = Sui!MomentumVisualizer(program, c)
      BY <2>3 DEF Sui!ConfigOf, Sui!visualize_tx_commands
    <3> QED
      BY <1>1, <2>3, <3>1, MomentumKinds, Zenon
  <2>4. CASE v = "sui_native_staking"
    <3>1. r = Sui!SuiNativeStakingVisualizer(program, c)
      BY <2>4 DEF Sui!visualize_tx_commands
    <3> QED
      BY <3>1, StakingKinds, Zenon
  <2> QED
    BY <2>1, <2>2, <2>3, <2>4 DEF Sui!Packages
<1>3. r # Sui!Error /\ r # Sui!Panic
  BY DEF Sui!Error, Sui!Panic
<1> HIDE DEF r
<1>4. ASSUME NEW l, NEW fields, r = Sui!Row(l, fields), FieldsFine(c, fields), l \notin SuiOthers,
             l = "CetusAMM_Swap_Command" => SwapForm(c, Range(fields)),
             l = "Stake_Command" => StakeField(c, fields[2]),
             l = "Suilend_Repay_Command" => RepayField(c, fields[4])
      PROVE  \E row : r = Sui!Rows(<<row>>) /\ Told(c, row)
  <2> DEFINE row == [label |-> l, fields |-> fields]
  <2>1. r.is = "rows"
    BY DEF r
  <2>2. r = Sui!Rows(<<row>>) /\ \A k \in DOMAIN fields : fields[k].value # Sui!Err
    BY <1>4, <2>1, SuiRowMade, Zenon
  <2>3. row.label = l /\ row.fields = fields
    OBVIOUS
  <2> HIDE DEF row
  <2>4. Told(c, row)
    BY <1>4, <2>2, <2>3, Zenon DEF Told
  <2> QED
    BY <2>2, <2>4, Zenon
<1>5. CASE Ordinary(c, r)
  <2>1. PICK l, fields : r = Sui!Row(l, fields) /\ l \notin SuiSpecial /\ FieldsFine(c, fields)
    BY <1>5, Zenon DEF Ordinary
  <2>2. l \notin SuiOthers /\ l # "CetusAMM_Swap_Command" /\ l # "Stake_Command"
        /\ l # "Suilend_Repay_Command"
    BY <2>1 DEF SuiSpecial
  <2> QED
    BY <1>4, <2>1, <2>2, Zenon DEF r
<1>6. CASE SwapLike(c, r)
  <2>1. PICK fields : /\ r = Sui!Row("CetusAMM_Swap_Command", fields)
                      /\ FieldsFine(c, fields) /\ SwapForm(c, Range(fields))
    BY <1>6, Zenon DEF SwapLike
  <2>2. "CetusAMM_Swap_Command" \notin SuiOthers
        /\ "CetusAMM_Swap_Command" # "Stake_Command"
        /\ "CetusAMM_Swap_Command" # "Suilend_Repay_Command"
    BY DEF SuiOthers
  <2> QED
    BY <1>4, <2>1, <2>2, Zenon DEF r
<1>7. CASE RepayLike(c, r)
  <2>1. PICK fields : /\ r = Sui!Row("Suilend_Repay_Command", fields)
                      /\ FieldsFine(c, fields) /\ RepayField(c, fields[4])
    BY <1>7, Zenon DEF RepayLike
  <2>2. "Suilend_Repay_Command" \notin SuiOthers
        /\ "Suilend_Repay_Command" # "Stake_Command"
        /\ "Suilend_Repay_Command" # "CetusAMM_Swap_Command"
    BY DEF SuiOthers
  <2> QED
    BY <1>4, <2>1, <2>2, Zenon DEF r
<1>8. CASE StakeLike(c, r)
  <2>1. PICK fields : /\ r = Sui!Row("Stake_Command", fields)
                      /\ FieldsFine(c, fields) /\ StakeField(c, fields[2])
    BY <1>8, Zenon DEF StakeLike
  <2>2. "Stake_Command" \notin SuiOthers
        /\ "Stake_Command" # "Suilend_Repay_Command"
        /\ "Stake_Command" # "CetusAMM_Swap_Command"
    BY DEF SuiOthers
  <2> QED
    BY <1>4, <2>1, <2>2, Zenon DEF r
<1> QED
  BY <1>2, <1>3, <1>5, <1>6, <1>7, <1>8 DEF r

(* Several outcomes make a screen only if each of them has rows.           *)
LEMMA SuiCollectRows ==
  ASSUME NEW n \in Nat, NEW results, DOMAIN results = 1..n, Sui!Collect(results).is = "rows"
  PROVE  /\ \A k \in 1..n : results[k].is = "rows"
         /\ Sui!Collect(results) = Sui!Rows(FlattenSeq([k \in 1..n |-> results[k].rows]))
<1> DEFINE failed == {k \in DOMAIN results : results[k].is # "rows"}
           first == CHOOSE k \in failed : \A j \in failed : k <= j
<1>1. failed = {}
  <2> SUFFICES ASSUME failed # {} PROVE FALSE
    OBVIOUS
  <2>1. failed \in SUBSET Nat
    OBVIOUS
  <2>2. \E k \in failed : \A j \in failed : k <= j
    BY <2>1, LeastNatural, Zenon
  <2>3. Sui!Collect(results) = results[first]
    BY Zenon DEF Sui!Collect
  <2> HIDE DEF failed
  <2>4. first \in failed
    BY <2>2, Zenon
  <2> HIDE DEF first
  <2> QED
    BY <2>3, <2>4, Zenon DEF failed
<1>2. Sui!Collect(results) = Sui!Rows(Sui!FlattenSeq([k \in DOMAIN results |-> results[k].rows]))
  BY <1>1, Zenon DEF Sui!Collect
<1>3. [k \in DOMAIN results |-> results[k].rows] = [k \in 1..n |-> results[k].rows]
  BY Zenon
<1> QED
  BY <1>1, <1>2, <1>3, SuiFlatten, Zenon

(* A list of outcomes, one for each command, is a map over the commands.   *)
LEMMA SuiCollectMap ==
  ASSUME NEW C, NEW s \in Seq(C), NEW G, NEW F,
         F = [c \in C |-> G[c].rows],
         Sui!Collect([k \in DOMAIN s |-> G[s[k]]]).is = "rows"
  PROVE  /\ \A k \in DOMAIN s : G[s[k]].is = "rows"
         /\ Sui!Collect([k \in DOMAIN s |-> G[s[k]]]) = Sui!Rows(FlatMap(F, s))
<1> DEFINE results == [k \in DOMAIN s |-> G[s[k]]]
           n == Len(s)
<1>1. n \in Nat /\ DOMAIN s = 1..n /\ DOMAIN results = 1..n /\ \A k \in 1..n : s[k] \in C
  OBVIOUS
<1>2. \A k \in 1..n : results[k] = G[s[k]] /\ F[s[k]] = G[s[k]].rows
  BY <1>1
<1>3. [k \in 1..n |-> results[k].rows] = [k \in DOMAIN s |-> F[s[k]]]
  BY <1>1, <1>2
<1> HIDE DEF results, n
<1>4. /\ \A k \in 1..n : results[k].is = "rows"
      /\ Sui!Collect(results) = Sui!Rows(FlattenSeq([k \in 1..n |-> results[k].rows]))
  BY <1>1, SuiCollectRows DEF results
<1> QED
  BY <1>1, <1>2, <1>3, <1>4 DEF FlatMap, results

(* The calls of functions some preset declares.                            *)
Declared(c) == c.package \in Sui!Packages /\ Sui!can_handle(c.package, c)
DeclaredOf(s) == {c \in Range(s) : Declared(c)}

LEMMA SuiDeclared ==
  ASSUME Sui!IsProgram(program)
  PROVE  Sui!DeclaredCalls = Filter(program.commands, DeclaredOf(program.commands))
<1>1. \A c : Declared(c) <=> /\ c.command = "MoveCall"
                             /\ c.package \in Sui!Packages
                             /\ c.module \in DOMAIN Sui!ConfigOf(c.package)
                             /\ c.function \in Sui!ConfigOf(c.package)[c.module]
  BY Zenon DEF Declared, Sui!can_handle
<1> QED
  BY <1>1, SuiFilter, SuiRange, Zenon DEF Sui!DeclaredCalls, DeclaredOf

(* The rows of the calls tell of the declared calls, one after the other.  *)
RowsTell(rows, calls) ==
  Len(rows) = Len(calls) /\ \A k \in 1..Len(rows) : Told(calls[k], rows[k])

LEMMA SuiCommandRows ==
  ASSUME Sui!IsProgram(program), NEW order \in Orders,
         Sui!decode_commands(order, program).is = "rows"
  PROVE  LET rows == Sui!decode_commands(order, program).rows
         IN  IsTuple(rows) /\ RowsTell(rows, Sui!DeclaredCalls)
<1> DEFINE s == program.commands
           C == Range(s)
           G == [c \in C |-> Sui!visualize_with_any(order, program, c)]
           F == [c \in C |-> G[c].rows]
           E == {F[c][1] : c \in C}
           D == DeclaredOf(s)
           R == {p \in E \X C : Told(p[2], p[1])}
           rows == FlatMap(F, s)
<1>1. s \in Seq(C)
  BY SuiRange, Zenon DEF Sui!IsProgram, Sui!IsList
<1>2. \A k \in DOMAIN s : s[k] \in C
  BY DEF Range
<1>3. Sui!decode_commands(order, program) = Sui!Collect([k \in DOMAIN s |-> G[s[k]]])
  <2>1. [k \in DOMAIN s |-> G[s[k]]]
          = [k \in DOMAIN s |-> Sui!visualize_with_any(order, program, s[k])]
    BY <1>2, Zenon
  <2> QED
    BY <2>1, Zenon DEF Sui!decode_commands
<1>4. /\ \A k \in DOMAIN s : G[s[k]].is = "rows"
      /\ Sui!decode_commands(order, program) = Sui!Rows(rows)
  <2>1. Sui!Collect([k \in DOMAIN s |-> G[s[k]]]).is = "rows"
    BY <1>3, Zenon
  <2>2. F = [c \in C |-> G[c].rows]
    OBVIOUS
  <2> HIDE DEF F, G, C, s
  <2> QED
    BY <1>1, <1>3, <2>1, <2>2, SuiCollectMap
<1>5. ASSUME NEW c \in C
      PROVE  \/ /\ c \in D
                /\ \E row : F[c] = <<row>> /\ Told(c, row)
             \/ c \notin D /\ F[c] = <<>>
  <2>1. PICK k \in DOMAIN s : s[k] = c
    BY Zenon DEF Range
  <2>2. G[c].is = "rows" /\ G[c] = Sui!visualize_with_any(order, program, c)
    BY <1>4, <2>1, Zenon
  <2>3. G[c] = IF \E v \in Sui!Packages : Sui!can_handle(v, c)
               THEN Sui!visualize_tx_commands(c.package, program, c) ELSE Sui!Rows(<<>>)
    BY <2>2, OrdersAssumption, SuiVisualizer, Zenon
  <2>4. Declared(c) <=> \E v \in Sui!Packages : Sui!can_handle(v, c)
    BY Zenon DEF Declared, Sui!can_handle
  <2>5. F[c] = G[c].rows
    BY Zenon
  <2> HIDE DEF F, G
  <2>6. CASE Declared(c)
    <3>1. G[c] = Sui!visualize_tx_commands(c.package, program, c)
      BY <2>3, <2>4, <2>6, Zenon
    <3>2. PICK row : G[c] = Sui!Rows(<<row>>) /\ Told(c, row)
      BY <2>2, <2>6, <3>1, SuiTold, Zenon DEF Declared
    <3> QED
      BY <2>5, <2>6, <3>2, SuiRows, Zenon DEF DeclaredOf
  <2>7. CASE ~Declared(c)
    <3>1. G[c] = Sui!Rows(<<>>)
      BY <2>3, <2>4, <2>7, Zenon
    <3> QED
      BY <2>5, <2>7, <3>1, SuiRows, Zenon DEF DeclaredOf
  <2> QED
    BY <2>6, <2>7, Zenon
<1>6. ASSUME NEW c \in C
      PROVE  F[c] \in Seq(E) /\ Related(F[c], Chosen(C, D)[c], R)
  <2>0. Chosen(C, D)[c] = IF c \in D THEN <<c>> ELSE <<>>
    BY DEF Chosen
  <2>1. F[c][1] \in E
    BY Zenon
  <2> HIDE DEF F, E, D
  <2>2. CASE c \in D
    <3>1. PICK row : F[c] = <<row>> /\ Told(c, row)
      BY <1>5, <2>2, Zenon
    <3>2. row \in E
      BY <2>1, <3>1
    <3>3. <<row, c>> \in R
      BY <3>1, <3>2
    <3> HIDE DEF R
    <3>4. Related(<<row>>, <<c>>, R) /\ <<row>> \in Seq(E)
      BY <3>2, <3>3 DEF Related
    <3> QED
      BY <2>0, <2>2, <3>1, <3>4
  <2>3. CASE c \notin D
    <3>1. F[c] = <<>> /\ Chosen(C, D)[c] = <<>>
      BY <1>5, <2>0, <2>3, Zenon
    <3>2. Related(<<>>, <<>>, R) /\ <<>> \in Seq(E)
      BY EmptyIsSeq DEF Related
    <3> QED
      BY <3>1, <3>2
  <2> QED
    BY <2>2, <2>3
<1>7. F \in [C -> Seq(E)]
  <2>1. F = [c \in C |-> F[c]]
    BY Zenon
  <2> HIDE DEF F, E
  <2> QED
    BY <1>6, <2>1
<1> HIDE DEF F, E, D, C, s, R
<1>8. Chosen(C, D) \in [C -> Seq(C)] /\ FlatMap(Chosen(C, D), s) = Filter(s, D)
  BY <1>1, FilterIsFlatMap
<1>9. rows \in Seq(E)
  BY <1>1, <1>7, FlatMapType
<1>10. Related(rows, FlatMap(Chosen(C, D), s), R)
  BY <1>1, <1>6, <1>7, <1>8, FlatMapRelated
<1>11. FlatMap(Chosen(C, D), s) = Sui!DeclaredCalls
  BY <1>8, SuiDeclared, Zenon DEF D, s
<1> HIDE DEF rows
<1>12. \A p \in R : Told(p[2], p[1])
  BY Zenon DEF R
<1>13. \A a, b : <<a, b>>[1] = a /\ <<a, b>>[2] = b
  OBVIOUS
<1>14. \A a, b : <<a, b>> \in R => Told(b, a)
  BY <1>12, <1>13
<1>15. RowsTell(rows, Sui!DeclaredCalls)
  BY <1>10, <1>11, <1>14 DEF Related, RowsTell
<1>16. IsTuple(rows)
  BY <1>9, SeqOfRange DEF IsTuple
<1> QED
  BY <1>4, <1>15, <1>16, SuiRows, Zenon


-----------------------------------------------------------------------------
(* The rows of what Sui's programs transfer.                               *)

(* What a row says of an object that is sent.                              *)
UnitOf(o, other) == IF Sui!resolve_object(program, o) = Sui!Ok("Sui") THEN "MIST" ELSE other
TitleOf(amount, unit) ==
  IF amount = Sui!None THEN Sui!Text("Title", Sui!Ok("Transfer_Command"))
                       ELSE Sui!Amount("Title", amount, unit)
SummaryOf(amount) ==
  Sui!Amount("Summary", IF amount = Sui!None THEN Sui!Ok("N/A") ELSE amount, "MIST")

Sent(o, row) ==
  /\ row.label = "Transfer_Command"
  /\ row.fields[3] = Sui!AmountField(Sui!resolve_amount(program, o), UnitOf(o, "Unknown"))
  /\ row.fields[3].value # Sui!Err
  /\ row.fields[4] = TitleOf(Sui!resolve_amount(program, o), UnitOf(o, "id"))
  /\ row.fields[5] = SummaryOf(Sui!resolve_amount(program, o))
  /\ ~Sui!GoesAround(program, o)

LEMMA SuiOneTransfer ==
  ASSUME NEW c, Sui!IsList(c.objects), Sui!CoinTransferVisualizer(program, c).is = "rows"
  PROVE  LET rows == Sui!CoinTransferVisualizer(program, c).rows
         IN  /\ IsTuple(rows)
             /\ Len(rows) = Len(c.objects)
             /\ \A k \in 1..Len(rows) : Sent(c.objects[k], rows[k])
<1> DEFINE s == c.objects
           C == Range(s)
           receiver == Sui!resolve_receiver(program, c.receiver)
           around == [k \in DOMAIN s |->
                       IF Sui!GoesAround(program, s[k]) THEN Sui!Panic
                       ELSE IF Sui!resolve_object(program, s[k]) = Sui!Err THEN Sui!Error
                       ELSE Sui!Rows(<<>>)]
           G == [o \in C |-> Sui!visualize_transfer_command(program, receiver, o)]
           F == [o \in C |-> G[o].rows]
           shown == Sui!Collect([k \in DOMAIN s |-> G[s[k]]])
           rows == Sui!CoinTransferVisualizer(program, c).rows
<1>1. s \in Seq(C) /\ DOMAIN s = 1..Len(s) /\ Len(s) \in Nat
  <2>1. s \in Seq(C)
    BY SuiRange, Zenon DEF Sui!IsList
  <2> QED
    BY <2>1
<1>2. \A k \in DOMAIN s : s[k] \in C
  BY DEF Range
<1>3. Sui!Error.is # "rows"
  BY DEF Sui!Error
<1>4. /\ Sui!Collect(around).is = "rows"
      /\ Sui!CoinTransferVisualizer(program, c) = shown
  <2>1. [k \in DOMAIN s |-> G[s[k]]]
          = [k \in DOMAIN s |-> Sui!visualize_transfer_command(program, receiver, s[k])]
    BY <1>2, Zenon
  <2>2. Sui!CoinTransferVisualizer(program, c)
          = IF receiver = Sui!Err THEN Sui!Error
            ELSE IF Sui!Collect(around).is # "rows" THEN Sui!Collect(around)
            ELSE shown
    BY <2>1, Zenon DEF Sui!CoinTransferVisualizer
  <2> HIDE DEF receiver, around, shown
  <2> QED
    BY <1>3, <2>2
<1>5. \A k \in DOMAIN s : ~Sui!GoesAround(program, s[k])
  <2>1. DOMAIN around = 1..Len(s)
    BY <1>1, Zenon
  <2>2. \A k \in 1..Len(s) : around[k].is = "rows"
    <3> HIDE DEF around, s
    <3> QED
      BY <1>1, <1>4, <2>1, SuiCollectRows
  <2>3. Sui!Panic.is # "rows"
    BY DEF Sui!Panic
  <2> QED
    BY <1>1, <2>2, <2>3, Zenon
<1>6. /\ \A k \in DOMAIN s : G[s[k]].is = "rows"
      /\ shown = Sui!Rows(FlatMap(F, s))
  <2>1. shown.is = "rows"
    BY <1>4, Zenon
  <2>2. F = [o \in C |-> G[o].rows]
    OBVIOUS
  <2> HIDE DEF F, G, C, s
  <2> QED
    BY <1>1, <2>1, <2>2, SuiCollectMap
<1>7. rows = FlatMap(F, s)
  BY <1>4, <1>6, SuiRows, Zenon
<1>8. ASSUME NEW o \in C PROVE \E row : F[o] = <<row>> /\ Sent(o, row)
  <2>1. PICK k \in DOMAIN s : s[k] = o
    BY Zenon DEF Range
  <2> DEFINE fields == <<Sui!Text("Asset_Object_ID", Sui!resolve_object(program, o)),
                         Sui!Text("To", receiver),
                         Sui!AmountField(Sui!resolve_amount(program, o), UnitOf(o, "Unknown")),
                         TitleOf(Sui!resolve_amount(program, o), UnitOf(o, "id")),
                         SummaryOf(Sui!resolve_amount(program, o))>>
             row == [label |-> "Transfer_Command", fields |-> fields]
  <2>2. G[o].is = "rows" /\ G[o] = Sui!Row("Transfer_Command", fields)
    BY <1>6, <2>1, Zenon DEF Sui!visualize_transfer_command, UnitOf, TitleOf, SummaryOf
  <2>3. F[o] = G[o].rows
    BY Zenon
  <2>4. /\ fields[3] = Sui!AmountField(Sui!resolve_amount(program, o), UnitOf(o, "Unknown"))
        /\ fields[4] = TitleOf(Sui!resolve_amount(program, o), UnitOf(o, "id"))
        /\ fields[5] = SummaryOf(Sui!resolve_amount(program, o))
        /\ 3 \in DOMAIN fields
    OBVIOUS
  <2>5. row.label = "Transfer_Command" /\ row.fields = fields
    OBVIOUS
  <2> HIDE DEF F, G, fields
  <2>6. G[o] = Sui!Rows(<<row>>) /\ fields[3].value # Sui!Err
    BY <2>2, <2>4, SuiRowMade, Zenon
  <2>7. F[o] = <<row>>
    BY <2>3, <2>6, SuiRows, Zenon
  <2> HIDE DEF row
  <2>8. Sent(o, row)
    BY <1>5, <2>1, <2>4, <2>5, <2>6, Zenon DEF Sent
  <2> QED
    BY <2>7, <2>8, Zenon
<1>9. F = [o \in C |-> F[o]]
  BY Zenon
<1> HIDE DEF F, G, C, s, rows
<1>10. \A o \in C : IF o \in C THEN F[o] = <<F[o][1]>> ELSE F[o] = <<>>
  BY <1>8
<1>11. /\ rows \in Seq(Range(rows)) /\ Len(rows) = Len(Filter(s, C))
       /\ \A k \in 1..Len(rows) : Filter(s, C)[k] \in C \cap C /\ F[Filter(s, C)[k]] = <<rows[k]>>
  <2>1. s \in Seq(C)
    BY <1>1
  <2>2. /\ FlatMap(F, s) \in Seq(Range(FlatMap(F, s)))
        /\ Len(FlatMap(F, s)) = Len(Filter(s, C))
        /\ \A k \in 1..Len(FlatMap(F, s)) : /\ Filter(s, C)[k] \in C \cap C
                                            /\ F[Filter(s, C)[k]] = <<FlatMap(F, s)[k]>>
    BY <1>9, <1>10, <2>1, FlatMapPicks, SMTT(60)
  <2> QED
    BY <1>7, <2>2, Zenon
<1>12. Filter(s, C) = s
  BY <1>1, <1>2, FilterAll
<1>13. \A k \in 1..Len(rows) : Sent(s[k], rows[k])
  <2> SUFFICES ASSUME NEW k \in 1..Len(rows) PROVE Sent(s[k], rows[k])
    OBVIOUS
  <2>1. s[k] \in C /\ F[s[k]] = <<rows[k]>>
    BY <1>11, <1>12, Zenon
  <2>2. PICK row : F[s[k]] = <<row>> /\ Sent(s[k], row)
    BY <1>8, <2>1, Zenon
  <2>3. row = rows[k]
    BY <2>1, <2>2
  <2> QED
    BY <2>2, <2>3, Zenon
<1> QED
  BY <1>11, <1>12, <1>13, Zenon DEF IsTuple, s, rows


(* The objects a program sends, in order.                                  *)
ObjectsOf(c) == IF c.command = "TransferObjects" THEN c.objects ELSE <<>>
SentObjects == FlattenSeq([k \in DOMAIN program.commands |-> ObjectsOf(program.commands[k])])

(* A command sends the object.                                             *)
Transferred(o) ==
  \E j \in DOMAIN program.commands :
    /\ program.commands[j].command = "TransferObjects"
    /\ o \in Range(program.commands[j].objects)

LEMMA SuiTransferRows ==
  ASSUME Sui!IsProgram(program), Sui!decode_transfers_of(program).is = "rows"
  PROVE  LET rows == Sui!decode_transfers_of(program).rows
         IN  /\ IsTuple(rows)
             /\ Len(rows) = Len(SentObjects)
             /\ \A k \in 1..Len(rows) : Sent(SentObjects[k], rows[k]) /\ Transferred(SentObjects[k])
<1> DEFINE s == program.commands
           C == Range(s)
           G == [c \in C |-> IF c.command = "TransferObjects"
                             THEN Sui!CoinTransferVisualizer(program, c) ELSE Sui!Rows(<<>>)]
           F == [c \in C |-> G[c].rows]
           O == [c \in C |-> ObjectsOf(c)]
           E == UNION {Range(F[c]) : c \in C}
           D == UNION {Range(O[c]) : c \in C}
           R == {p \in E \X D : Sent(p[2], p[1]) /\ Transferred(p[2])}
           rows == FlatMap(F, s)
<1>1. s \in Seq(C)
  BY SuiRange, Zenon DEF Sui!IsProgram, Sui!IsList
<1>2. \A k \in DOMAIN s : s[k] \in C
  BY DEF Range
<1>3. Sui!decode_transfers_of(program) = Sui!Collect([k \in DOMAIN s |-> G[s[k]]])
  <2>1. [k \in DOMAIN s |-> G[s[k]]]
          = [k \in DOMAIN s |-> IF s[k].command = "TransferObjects"
               THEN Sui!CoinTransferVisualizer(program, s[k]) ELSE Sui!Rows(<<>>)]
    BY <1>2, Zenon
  <2> QED
    BY <2>1, Zenon DEF Sui!decode_transfers_of
<1>4. /\ \A k \in DOMAIN s : G[s[k]].is = "rows"
      /\ Sui!decode_transfers_of(program) = Sui!Rows(rows)
  <2>1. Sui!Collect([k \in DOMAIN s |-> G[s[k]]]).is = "rows"
    BY <1>3, Zenon
  <2>2. F = [c \in C |-> G[c].rows]
    OBVIOUS
  <2> HIDE DEF F, G, C, s
  <2> QED
    BY <1>1, <1>3, <2>1, <2>2, SuiCollectMap
<1>5. ASSUME NEW c \in C
      PROVE  /\ IsTuple(F[c]) /\ IsTuple(O[c])
             /\ Len(F[c]) = Len(O[c])
             /\ \A k \in 1..Len(F[c]) : Sent(O[c][k], F[c][k]) /\ Transferred(O[c][k])
  <2>1. PICK j \in DOMAIN s : s[j] = c
    BY Zenon DEF Range
  <2>2. /\ G[c].is = "rows" /\ F[c] = G[c].rows
        /\ G[c] = IF c.command = "TransferObjects"
                  THEN Sui!CoinTransferVisualizer(program, c) ELSE Sui!Rows(<<>>)
        /\ O[c] = IF c.command = "TransferObjects" THEN c.objects ELSE <<>>
    BY <1>4, <2>1, Zenon DEF ObjectsOf
  <2>3. Sui!IsCommand(c)
    BY <2>1, Zenon DEF Sui!IsProgram
  <2> HIDE DEF F, G, O, s
  <2>4. CASE c.command = "TransferObjects"
    <3>1. Sui!IsList(c.objects)
      BY <2>3, <2>4 DEF Sui!IsCommand
    <3>2. G[c] = Sui!CoinTransferVisualizer(program, c) /\ O[c] = c.objects
      BY <2>2, <2>4, Zenon
    <3>3. /\ IsTuple(F[c])
          /\ Len(F[c]) = Len(c.objects)
          /\ \A k \in 1..Len(F[c]) : Sent(c.objects[k], F[c][k])
      BY <2>2, <3>1, <3>2, SuiOneTransfer, Zenon
    <3>4. IsTuple(c.objects)
      BY <3>1, SuiRange, Zenon DEF IsTuple, Sui!IsList
    <3>5. ASSUME NEW k \in 1..Len(F[c]) PROVE Transferred(c.objects[k])
      <4>1. c.objects[k] \in Range(c.objects)
        BY <3>3, <3>4 DEF IsTuple, Range
      <4> QED
        BY <2>1, <2>4, <4>1, Zenon DEF Transferred, s
    <3> QED
      BY <3>2, <3>3, <3>4, <3>5, Zenon
  <2>5. CASE c.command # "TransferObjects"
    <3>1. F[c] = <<>> /\ O[c] = <<>>
      BY <2>2, <2>5, SuiRows, Zenon
    <3> QED
      BY <3>1, TupleRanges
  <2> QED
    BY <2>4, <2>5
<1>6. ASSUME NEW c \in C
      PROVE  F[c] \in Seq(E) /\ O[c] \in Seq(D) /\ Related(F[c], O[c], R)
  <2>1. Range(F[c]) \subseteq E /\ Range(O[c]) \subseteq D
    BY Zenon
  <2> HIDE DEF F, O, E, D
  <2>2. F[c] \in Seq(E) /\ O[c] \in Seq(D)
    BY <1>5, <2>1, SeqMonotonic DEF IsTuple
  <2>3. ASSUME NEW k \in 1..Len(F[c]) PROVE <<F[c][k], O[c][k]>> \in R
    <3>1. F[c][k] \in E /\ O[c][k] \in D
      BY <1>5, <2>2
    <3>2. Sent(O[c][k], F[c][k]) /\ Transferred(O[c][k])
      BY <1>5
    <3> QED
      BY <3>1, <3>2
  <2> HIDE DEF R
  <2> QED
    BY <1>5, <2>2, <2>3 DEF Related
<1>7. F \in [C -> Seq(E)] /\ O \in [C -> Seq(D)]
  <2>1. F = [c \in C |-> F[c]] /\ O = [c \in C |-> O[c]]
    BY Zenon
  <2> HIDE DEF F, E, O, D
  <2> QED
    BY <1>6, <2>1
<1>8. FlatMap(O, s) = SentObjects
  <2>1. [k \in DOMAIN s |-> O[s[k]]] = [k \in DOMAIN s |-> ObjectsOf(s[k])]
    BY <1>2, Zenon
  <2> QED
    BY <2>1, Zenon DEF FlatMap, SentObjects
<1>9. \A p \in R : Sent(p[2], p[1]) /\ Transferred(p[2])
  BY Zenon DEF R
<1>10. \A a, b : <<a, b>>[1] = a /\ <<a, b>>[2] = b
  OBVIOUS
<1> HIDE DEF F, O, E, D, C, s, R
<1>11. rows \in Seq(E)
  BY <1>1, <1>7, FlatMapType
<1>12. Related(rows, FlatMap(O, s), R)
  BY <1>1, <1>6, <1>7, FlatMapRelated
<1> HIDE DEF rows
<1>13. \A a, b : <<a, b>> \in R => Sent(b, a) /\ Transferred(b)
  BY <1>9, <1>10
<1>14. /\ Len(rows) = Len(SentObjects)
       /\ \A k \in 1..Len(rows) : Sent(SentObjects[k], rows[k]) /\ Transferred(SentObjects[k])
  BY <1>8, <1>12, <1>13 DEF Related
<1>15. IsTuple(rows)
  BY <1>11, SeqOfRange DEF IsTuple
<1> QED
  BY <1>4, <1>14, <1>15, SuiRows, Zenon

(* The rows of a screen: those of the transfers between the network and    *)
(* those of the calls, which come before the details.                      *)
LEMMA SuiScreen ==
  ASSUME SuiInv, chain = "Sui", Sui!HasRows
  PROVE  /\ Sui!IsProgram(program)
         /\ IF decode_transfers
            THEN /\ Sui!decode_transfers_of(program).is = "rows"
                 /\ Sui!TransferRows = Sui!decode_transfers_of(program).rows
            ELSE Sui!TransferRows = <<>>
         /\ Sui!decode_commands(visualizers, program).is = "rows"
         /\ Sui!CommandRows = Sui!decode_commands(visualizers, program).rows
<1> DEFINE transfers == IF decode_transfers THEN Sui!decode_transfers_of(program) ELSE Sui!Nothing
           commands == Sui!decode_commands(visualizers, program)
           results == <<Sui!Network, transfers, commands, Sui!Details>>
           n == [label |-> "Network", fields |-> <<>>]
           d == [label |-> "Transaction_Details", fields |-> <<>>]
           t == transfers.rows
           c == commands.rows
           rows == outcome.rows
<1>1. Sui!IsProgram(program) /\ visualizers \in Orders
      /\ outcome = Sui!convert_to_visual_sign_payload(visualizers, program)
  <2>1. outcome # Sui!Pending
    BY DEF Sui!HasRows, Sui!Pending
  <2> QED
    BY <2>1, SuiProgramsAssumption, Zenon DEF SuiInv
<1>2. outcome = Sui!Collect(results) /\ outcome.is = "rows"
  <2>1. outcome.is = "rows" /\ program.kind = "ProgrammableTransaction"
    BY Zenon DEF Sui!HasRows
  <2>2. Sui!Error.is # "rows"
    BY DEF Sui!Error
  <2>3. outcome = IF program \in Unconvertible THEN Sui!Error
                  ELSE IF program.kind # "ProgrammableTransaction"
                       THEN Sui!Collect(<<Sui!Network, Sui!Details>>)
                       ELSE Sui!Collect(results)
    BY <1>1, Zenon DEF Sui!convert_to_visual_sign_payload
  <2> HIDE DEF results
  <2> QED
    BY <2>1, <2>2, <2>3
<1>3. /\ results[1] = Sui!Network /\ results[2] = transfers /\ results[3] = commands
      /\ results[4] = Sui!Details /\ DOMAIN results = 1..4
  <2> HIDE DEF transfers, commands
  <2> QED
    OBVIOUS
<1> HIDE DEF results
<1>4. /\ \A k \in 1..4 : results[k].is = "rows"
      /\ outcome = Sui!Rows(FlattenSeq([k \in 1..4 |-> results[k].rows]))
  BY <1>2, <1>3, SuiCollectRows
<1>5. Sui!Network.rows = <<n>> /\ Sui!Details.rows = <<d>> /\ Sui!Nothing.rows = <<>>
      /\ Sui!Nothing.is = "rows"
  BY SuiRows, Zenon DEF Sui!Network, Sui!Details, Sui!Nothing
<1>6. transfers.is = "rows" /\ commands.is = "rows"
  <2> HIDE DEF transfers, commands
  <2> QED
    BY <1>3, <1>4
<1>7. rows = FlattenSeq(<<<<n>>, t, c, <<d>>>>)
  <2> HIDE DEF transfers, commands, n, d, rows
  <2>1. [k \in 1..4 |-> results[k].rows] = <<<<n>>, t, c, <<d>>>>
    BY <1>3, <1>5
  <2> QED
    BY <1>4, <2>1, SuiRows, Zenon DEF rows
<1>8. IsTuple(t) /\ \A k \in 1..Len(t) : t[k].label = "Transfer_Command"
  <2>1. CASE decode_transfers
    <3>1. transfers = Sui!decode_transfers_of(program)
      BY <2>1
    <3> QED
      BY <1>1, <1>6, <3>1, SuiTransferRows, Zenon DEF Sent
  <2>2. CASE ~decode_transfers
    <3>1. t = <<>>
      BY <1>5, <2>2, Zenon
    <3> HIDE DEF t
    <3> QED
      BY <3>1, TupleRanges
  <2> QED
    BY <2>1, <2>2
<1>9. IsTuple(c) /\ \A k \in 1..Len(c) : c[k].label \notin SuiOthers
  BY <1>1, <1>6, SuiCommandRows, Zenon DEF RowsTell, Told
<1> DEFINE E == {n, d} \cup Range(t) \cup Range(c)
<1> HIDE DEF t, c, rows
<1>10. /\ <<n>> \in Seq(E) /\ t \in Seq(E) /\ c \in Seq(E) /\ <<d>> \in Seq(E)
  <2>1. {n, d} \subseteq E /\ Range(t) \subseteq E /\ Range(c) \subseteq E
    BY Zenon
  <2> HIDE DEF E, n, d
  <2> QED
    BY <1>8, <1>9, <2>1, SeqMonotonic DEF IsTuple
<1>11. rows = <<n>> \o t \o c \o <<d>>
  <2> DEFINE a == <<n>>
             b == <<d>>
  <2>1. a \in Seq(E) /\ b \in Seq(E)
    BY <1>10
  <2>2. rows = FlattenSeq(<<a, t, c, b>>)
    BY <1>7
  <2> HIDE DEF E, a, b
  <2> DEFINE ss == <<a, t, c, b>>
  <2>3. /\ ss \in Seq(Seq(E)) /\ Len(ss) = 4
        /\ ss[1] = a /\ ss[2] = t /\ ss[3] = c /\ ss[4] = b
    BY <1>10, <2>1
  <2> HIDE DEF ss
  <2>4. FlattenSeq(ss) = ss[1] \o ss[2] \o ss[3] \o ss[4]
    BY <2>3, FlattenFour
  <2> QED
    BY <2>2, <2>3, <2>4, Zenon DEF a, b, ss
<1>12. n.label = "Network" /\ d.label = "Transaction_Details"
  OBVIOUS
<1> HIDE DEF E, n, d
<1>13. PICK nt \in Seq(E) : nt = <<n>> \o t
  <2>1. <<n>> \o t \in Seq(E)
    BY <1>10
  <2> QED
    BY <2>1, Zenon
<1>14. PICK cd \in Seq(E) : cd = c \o <<d>>
  <2>1. c \o <<d>> \in Seq(E)
    BY <1>10
  <2> QED
    BY <2>1, Zenon
<1>15. rows \in Seq(E) /\ rows = <<n>> \o t \o cd /\ rows = nt \o c \o <<d>>
  <2>1. <<n>> \o t \o c \o <<d>> = <<n>> \o t \o (c \o <<d>>)
        /\ <<n>> \o t \o c \o <<d>> \in Seq(E)
    BY <1>10
  <2> QED
    BY <1>11, <1>13, <1>14, <2>1, Zenon
<1>16. ASSUME NEW k \in 1..Len(cd)
       PROVE  cd[k].label # "Transfer_Command"
  <2>1. cd[k] = IF k <= Len(c) THEN c[k] ELSE d
    BY <1>10, <1>14
  <2>2. k <= Len(c) => k \in 1..Len(c)
    BY <1>10
  <2> QED
    BY <1>9, <1>12, <2>1, <2>2 DEF SuiOthers
<1>17. ASSUME NEW k \in 1..Len(nt)
       PROVE  nt[k].label \in SuiOthers
  <2>1. nt[k] = IF k = 1 THEN n ELSE t[k - 1]
    BY <1>10, <1>13
  <2>2. k # 1 => k - 1 \in 1..Len(t)
    BY <1>10, <1>13
  <2> QED
    BY <1>8, <1>12, <2>1, <2>2 DEF SuiOthers
<1> DEFINE T == {r \in Range(rows) : r.label = "Transfer_Command"}
           S == {r \in Range(rows) : r.label \notin SuiOthers}
<1>18. Sui!TransferRows = Filter(rows, T)
       /\ Sui!CommandRows = Filter(rows, S)
  BY SuiFilter, SuiRange, Zenon DEF Sui!TransferRows, Sui!CommandRows, rows, SuiOthers
<1>19. /\ \A k \in 1..Len(t) : t[k] \in Range(rows)
       /\ \A k \in 1..Len(c) : c[k] \in Range(rows)
  <2>1. ASSUME NEW k \in 1..Len(t) PROVE t[k] \in Range(rows)
    <3>1. rows[k + 1] = t[k] /\ k + 1 \in DOMAIN rows
      BY <1>10, <1>15
    <3> QED
      BY <3>1 DEF Range
  <2>2. ASSUME NEW k \in 1..Len(c) PROVE c[k] \in Range(rows)
    <3>0. nt \in Seq(E) /\ rows = nt \o c \o <<d>>
      BY <1>15, Zenon
    <3>1. rows[k + Len(nt)] = c[k] /\ k + Len(nt) \in DOMAIN rows
      BY <1>10, <3>0
    <3> QED
      BY <3>1 DEF Range
  <2> QED
    BY <2>1, <2>2
<1>20. Filter(rows, T) = t
  <2>1. <<n>>[1] \notin T /\ Len(<<n>>) = 1
    BY <1>12
  <2>2. \A k \in 1..Len(<<n>>) : <<n>>[k] \notin T
    BY <2>1
  <2>3. \A k \in 1..Len(t) : t[k] \in T
    BY <1>8, <1>19
  <2>4. \A k \in 1..Len(cd) : cd[k] \notin T
    BY <1>16
  <2> HIDE DEF T
  <2>5. Filter(<<n>> \o t \o cd, T) = t
    BY <1>10, <2>2, <2>3, <2>4, FilterMiddle
  <2> QED
    BY <1>15, <2>5, Zenon
<1>21. Filter(rows, S) = c
  <2>1. <<d>>[1] \notin S /\ Len(<<d>>) = 1
    BY <1>12 DEF SuiOthers
  <2>2. \A k \in 1..Len(<<d>>) : <<d>>[k] \notin S
    BY <2>1
  <2>3. \A k \in 1..Len(c) : c[k] \in S
    BY <1>9, <1>19
  <2>4. \A k \in 1..Len(nt) : nt[k] \notin S
    BY <1>17
  <2> HIDE DEF S
  <2>5. Filter(nt \o c \o <<d>>, S) = c
    BY <1>10, <2>2, <2>3, <2>4, FilterMiddle
  <2> QED
    BY <1>15, <2>5, Zenon
<1> HIDE DEF T, S
<1> QED
  BY <1>1, <1>5, <1>6, <1>18, <1>20, <1>21, Zenon DEF t, c


-----------------------------------------------------------------------------
(* The calls of Sui's screens.                                             *)

LEMMA CallIsCommand ==
  ASSUME Sui!IsProgram(program), NEW k \in DOMAIN Sui!DeclaredCalls
  PROVE  LET c == Sui!DeclaredCalls[k]
         IN  /\ c \in Range(program.commands)
             /\ Declared(c)
             /\ c.command = "MoveCall"
             /\ c.arguments \in Seq(Range(c.arguments))
             /\ \A j \in DOMAIN c.arguments :
                  c.arguments[j].arg \in {"Input", "Result", "NestedResult"} =>
                    c.arguments[j].index \in Nat
<1> DEFINE s == program.commands
           D == DeclaredOf(s)
           c == Sui!DeclaredCalls[k]
<1>1. s \in Seq(Range(s))
  BY SuiRange, Zenon DEF Sui!IsProgram, Sui!IsList
<1>2. Sui!DeclaredCalls = Filter(s, D)
  BY SuiDeclared, Zenon
<1>3. c \in Range(s) \cap D
  <2>1. Range(Filter(s, D)) = Range(s) \cap D
    <3> HIDE DEF s, D
    <3> QED
      BY <1>1, FilterRange
  <2>2. c \in Range(Filter(s, D))
    BY <1>2, Zenon DEF Range
  <2> QED
    BY <2>1, <2>2, Zenon
<1>4. Declared(c) /\ c \in Range(s)
  BY <1>3, Zenon DEF DeclaredOf
<1>5. c.command = "MoveCall"
  BY <1>4, Zenon DEF Declared, Sui!can_handle
<1>6. Sui!IsCommand(c)
  <2>1. PICK j \in DOMAIN s : s[j] = c
    BY <1>4, Zenon DEF Range
  <2> QED
    BY <2>1, Zenon DEF Sui!IsProgram
<1> HIDE DEF c
<1>7. Sui!Arguments(c) = c.arguments /\ Sui!IsList(c.arguments)
  BY <1>5, <1>6 DEF Sui!Arguments, Sui!IsCommand
<1>8. c.arguments \in Seq(Range(c.arguments))
  BY <1>7, SuiRange, Zenon DEF Sui!IsList
<1>9. \A j \in DOMAIN c.arguments :
        c.arguments[j].arg \in {"Input", "Result", "NestedResult"} => c.arguments[j].index \in Nat
  BY <1>6, <1>7, Zenon DEF Sui!IsCommand
<1> QED
  BY <1>4, <1>5, <1>8, <1>9, Zenon DEF c

LEMMA ScreenTells ==
  ASSUME SuiInv, chain = "Sui", Sui!HasRows
  PROVE  /\ Sui!IsProgram(program)
         /\ IsTuple(Sui!CommandRows)
         /\ DOMAIN Sui!CommandRows = 1..Len(Sui!CommandRows)
         /\ DOMAIN Sui!DeclaredCalls = 1..Len(Sui!DeclaredCalls)
         /\ RowsTell(Sui!CommandRows, Sui!DeclaredCalls)
<1>1. Sui!IsProgram(program) /\ visualizers \in Orders
      /\ Sui!decode_commands(visualizers, program).is = "rows"
      /\ Sui!CommandRows = Sui!decode_commands(visualizers, program).rows
  <2>1. outcome # Sui!Pending
    BY DEF Sui!HasRows, Sui!Pending
  <2> QED
    BY <2>1, SuiScreen, Zenon DEF SuiInv
<1>2. IsTuple(Sui!CommandRows) /\ RowsTell(Sui!CommandRows, Sui!DeclaredCalls)
  BY <1>1, SuiCommandRows, Zenon
<1>3. DOMAIN Sui!CommandRows = 1..Len(Sui!CommandRows)
  BY <1>2 DEF IsTuple
<1>4. DOMAIN Sui!DeclaredCalls = 1..Len(Sui!DeclaredCalls)
  <2> DEFINE s == program.commands
  <2>1. s \in Seq(Range(s))
    BY <1>1, SuiRange, Zenon DEF Sui!IsProgram, Sui!IsList
  <2>2. Sui!DeclaredCalls = Filter(s, DeclaredOf(s))
    BY <1>1, SuiDeclared, Zenon
  <2> HIDE DEF s
  <2>3. Filter(s, DeclaredOf(s)) \in Seq(Range(s))
    BY <2>1, FilterType, Zenon
  <2> QED
    BY <2>2, <2>3
<1> QED
  BY <1>1, <1>2, <1>3, <1>4, Zenon

(* An object value is the id of an input the call was given, if it was     *)
(* given inputs only.                                                      *)
LEMMA ObjectGiven ==
  ASSUME NEW c, NEW p \in {0, 1}, c.arguments \in Seq(Range(c.arguments)),
         Sui!Plain(c.arguments), Sui!get_object_value(program, c, p) # Sui!Err
  PROVE  \E a \in DOMAIN c.arguments :
           /\ c.arguments[a].index < Len(program.inputs)
           /\ program.inputs[c.arguments[a].index + 1].is = "object"
           /\ Sui!get_object_value(program, c, p)
                = Sui!Ok(program.inputs[c.arguments[a].index + 1].id)
<1> DEFINE args == c.arguments
           index == Sui!get_index(args, p)
           input == Sui!InputOf(program, index)
<1>1. \A v : Sui!Ok(v) # Sui!Err /\ Sui!Ok(v)[1] = v
  BY DEF Sui!Ok, Sui!Err
<1>2. /\ input # Sui!Err /\ input[1].is = "object"
      /\ Sui!get_object_value(program, c, p) = Sui!Ok(input[1].id)
  BY <1>1, Zenon DEF Sui!get_object_value
<1>3. index # Sui!Err /\ input = Sui!ItemAt(program.inputs, index[1])
  BY <1>2, Zenon DEF Sui!InputOf
<1>4. p < Len(args) /\ index = Sui!parse_numeric_argument(args[p + 1])
  BY <1>3, Zenon DEF Sui!get_index
<1>5. p + 1 \in DOMAIN args
  BY <1>4
<1>6. args[p + 1].arg = "Input"
  BY <1>5, Zenon DEF Sui!Plain
<1>7. index = Sui!Ok(args[p + 1].index)
  BY <1>4, <1>6 DEF Sui!parse_numeric_argument
<1> HIDE DEF index, input
<1>8. input = Sui!ItemAt(program.inputs, args[p + 1].index)
  BY <1>1, <1>3, <1>7, Zenon
<1>9. /\ args[p + 1].index < Len(program.inputs)
      /\ input = Sui!Ok(program.inputs[args[p + 1].index + 1])
  BY <1>2, <1>8, Zenon DEF Sui!ItemAt
<1>10. input[1] = program.inputs[args[p + 1].index + 1]
  BY <1>1, <1>9, Zenon
<1> QED
  BY <1>2, <1>5, <1>9, <1>10, Zenon

(* For any program, each call of a function some preset declares has a row *)
(* of its own, in the order of the calls, and the pool, market or position *)
(* it names is an object its call was given.                               *)
THEOREM RowsFollowCalls == Spec => []CallsShownInOrder
<1>1. SuiInv => CallsShownInOrder
  <2> SUFFICES ASSUME SuiInv, chain = "Sui", Sui!HasRows
               PROVE  Sui!CallsShownInOrder
    BY DEF CallsShownInOrder, Sui!CallsShownInOrder
  <2> DEFINE rows == Sui!CommandRows
             calls == Sui!DeclaredCalls
  <2>1. /\ Sui!IsProgram(program)
        /\ DOMAIN rows = 1..Len(rows) /\ DOMAIN calls = 1..Len(calls)
        /\ RowsTell(rows, calls)
    BY ScreenTells, Zenon
  <2>2. Len(rows) = Len(calls)
    BY <2>1, Zenon DEF RowsTell
  <2>3. ASSUME NEW k \in DOMAIN rows, Sui!Plain(calls[k].arguments),
               NEW f \in DOMAIN rows[k].fields, rows[k].fields[f].label \in Naming(calls[k])
        PROVE  \E a \in DOMAIN calls[k].arguments :
                 /\ calls[k].arguments[a].index < Len(program.inputs)
                 /\ program.inputs[calls[k].arguments[a].index + 1].is = "object"
                 /\ rows[k].fields[f].value
                      = Sui!Ok(program.inputs[calls[k].arguments[a].index + 1].id)
    <3> DEFINE c == calls[k]
               x == rows[k].fields[f]
    <3>1. k \in DOMAIN calls /\ Told(c, rows[k])
      BY <2>1, <2>2, Zenon DEF RowsTell
    <3>2. FieldFine(c, x) /\ x.value # Sui!Err
      <4>1. x \in Range(rows[k].fields)
        BY Zenon DEF Range
      <4> QED
        BY <3>1, <4>1, Zenon DEF Told, FieldsFine
    <3>3. PICK p \in {0, 1} : x.value = Sui!get_object_value(program, c, p)
      BY <2>3, <3>2, Zenon DEF FieldFine
    <3>4. c.arguments \in Seq(Range(c.arguments))
      BY <2>1, <3>1, CallIsCommand, Zenon
    <3>5. Sui!get_object_value(program, c, p) # Sui!Err
      BY <3>2, <3>3, Zenon
    <3> HIDE DEF c, x
    <3>6. \E a \in DOMAIN c.arguments :
            /\ c.arguments[a].index < Len(program.inputs)
            /\ program.inputs[c.arguments[a].index + 1].is = "object"
            /\ Sui!get_object_value(program, c, p)
                 = Sui!Ok(program.inputs[c.arguments[a].index + 1].id)
      BY <2>3, <3>4, <3>5, ObjectGiven, Zenon DEF c
    <3> QED
      BY <3>3, <3>6, Zenon DEF c, x
  <2> HIDE DEF rows, calls
  <2> QED
    BY <2>2, <2>3, Zenon DEF Sui!CallsShownInOrder, Naming, rows, calls
<1> QED
  BY <1>1, SuiOutcome, PTL

(* In the row of any swap, what is paid is counted in the coin that goes   *)
(* in and what is received in the one that comes out, and a swap from A to *)
(* B pays the pool's first coin.                                           *)
THEOREM SwapsInTheirCoins == Spec => []SwapUnits
<1>1. SuiInv => SwapUnits
  <2> SUFFICES ASSUME SuiInv, chain = "Sui", Sui!HasRows,
                      NEW k \in DOMAIN Sui!CommandRows,
                      Sui!CommandRows[k].label = "CetusAMM_Swap_Command"
               PROVE  LET fields == Sui!CommandRows[k].fields
                          call == Sui!DeclaredCalls[k]
                          coin(label) ==
                            fields[CHOOSE f \in DOMAIN fields : fields[f].label = label].value[1]
                      IN  /\ \A f \in DOMAIN fields :
                               /\ fields[f].label \in {"Amount_In", "Max_In"} =>
                                    fields[f].unit = Sui!base_unit_symbol(coin("Input_Coin"))
                               /\ fields[f].label \in {"Amount_Out", "Min_Out"} =>
                                    fields[f].unit = Sui!base_unit_symbol(coin("Output_Coin"))
                          /\ \E f, g \in DOMAIN fields :
                               \/ fields[f].label = "Amount_In" /\ fields[g].label = "Min_Out"
                               \/ fields[f].label = "Amount_Out" /\ fields[g].label = "Max_In"
                          /\ call.function \in {"swap_a2b", "swap_a2b_with_partner"} =>
                               /\ coin("Input_Coin") = Sui!TypeArg(call, 0)
                               /\ coin("Output_Coin") = Sui!TypeArg(call, 1)
    BY Zenon DEF SwapUnits, Sui!SwapUnits
  <2> DEFINE fields == Sui!CommandRows[k].fields
             c == Sui!DeclaredCalls[k]
             S == Range(fields)
             coin(l) == fields[CHOOSE f \in DOMAIN fields : fields[f].label = l].value[1]
  <2>1. Told(c, Sui!CommandRows[k])
    <3>1. k \in 1..Len(Sui!CommandRows) /\ RowsTell(Sui!CommandRows, Sui!DeclaredCalls)
      BY ScreenTells, Zenon
    <3> QED
      BY <3>1, Zenon DEF RowsTell
  <2>2. PICK in, out :
          /\ SwapFieldSet(in, out, S)
          /\ c.function \in {"swap_a2b", "swap_a2b_with_partner"} =>
               in = Sui!TypeArg(c, 0) /\ out = Sui!TypeArg(c, 1)
    BY <2>1, Zenon DEF Told, SwapForm
  <2>3. \A f \in DOMAIN fields : SwapField(in, out, fields[f])
    <3>1. \A f \in DOMAIN fields : fields[f] \in S
      BY Zenon DEF Range
    <3> QED
      BY <2>2, <3>1, Zenon DEF SwapFieldSet
  <2>4. \A l : Has(S, l) => \E f \in DOMAIN fields : fields[f].label = l
    BY Zenon DEF Has, Range
  <2>5. coin("Input_Coin") = in /\ coin("Output_Coin") = out
    <3>1. \A v : Sui!Ok(v)[1] = v
      BY DEF Sui!Ok
    <3> DEFINE i == CHOOSE f \in DOMAIN fields : fields[f].label = "Input_Coin"
               o == CHOOSE f \in DOMAIN fields : fields[f].label = "Output_Coin"
    <3>2. /\ \E f \in DOMAIN fields : fields[f].label = "Input_Coin"
          /\ \E f \in DOMAIN fields : fields[f].label = "Output_Coin"
      BY <2>2, <2>4, Zenon DEF SwapFieldSet
    <3>3. i \in DOMAIN fields /\ fields[i].label = "Input_Coin"
      BY <3>2, Zenon
    <3>4. o \in DOMAIN fields /\ fields[o].label = "Output_Coin"
      BY <3>2, Zenon
    <3>5. fields[i].value = Sui!Ok(in) /\ fields[o].value = Sui!Ok(out)
      BY <2>3, <3>3, <3>4, Zenon DEF SwapField
    <3> QED
      BY <3>1, <3>5, Zenon
  <2>6. \E f, g \in DOMAIN fields :
          \/ fields[f].label = "Amount_In" /\ fields[g].label = "Min_Out"
          \/ fields[f].label = "Amount_Out" /\ fields[g].label = "Max_In"
    BY <2>2, <2>4, Zenon DEF SwapFieldSet
  <2>7. \A f \in DOMAIN fields :
          /\ fields[f].label \in {"Amount_In", "Max_In"} =>
               fields[f].unit = Sui!base_unit_symbol(coin("Input_Coin"))
          /\ fields[f].label \in {"Amount_Out", "Min_Out"} =>
               fields[f].unit = Sui!base_unit_symbol(coin("Output_Coin"))
    <3> HIDE DEF coin
    <3> QED
      BY <2>3, <2>5, Zenon DEF SwapField
  <2>8. c.function \in {"swap_a2b", "swap_a2b_with_partner"} =>
          coin("Input_Coin") = Sui!TypeArg(c, 0) /\ coin("Output_Coin") = Sui!TypeArg(c, 1)
    <3> HIDE DEF coin
    <3> QED
      BY <2>2, <2>5, Zenon
  <2> QED
    BY <2>6, <2>7, <2>8, Zenon
<1> QED
  BY <1>1, SuiOutcome, PTL


-----------------------------------------------------------------------------
(* The amounts of Sui's screens.                                           *)

(* The first amount of a command that splits coins is the number its first *)
(* argument stands for.                                                    *)
LEMMA FirstIsEncoded ==
  ASSUME Sui!IsProgram(program), Sui!PlainAmounts, NEW k \in DOMAIN program.commands,
         program.commands[k].command = "SplitCoins",
         Sui!FirstAmount(program, program.commands[k]) # Sui!Err
  PROVE  /\ 0 < Len(program.commands[k].amounts)
         /\ program.inputs[program.commands[k].amounts[1].index + 1].value
              = Sui!FirstAmount(program, program.commands[k])[1]
<1> DEFINE amounts == program.commands[k].amounts
           index == Sui!get_index(amounts, 0)
           input == Sui!InputOf(program, index)
           i == amounts[1].index
<1>1. \A v : Sui!Ok(v) # Sui!Err /\ Sui!Ok(v)[1] = v
  BY DEF Sui!Ok, Sui!Err
<1>2. amounts \in Seq(Sui!Range(amounts))
  <2>1. Sui!IsCommand(program.commands[k])
    BY Zenon DEF Sui!IsProgram
  <2> QED
    BY <2>1 DEF Sui!IsCommand, Sui!IsList
<1>3. Sui!FirstAmount(program, program.commands[k]) = Sui!decode_number(input, "u64")
  BY Zenon DEF Sui!FirstAmount
<1> HIDE DEF input
<1>4. /\ input # Sui!Err
      /\ Sui!decode_number(input, "u64") = Sui!Ok(input[1].value)
  <2>1. Sui!decode_number(input, "u64") # Sui!Err
    BY <1>3
  <2> QED
    BY <2>1 DEF Sui!decode_number, Sui!PureNumber
<1>5. index # Sui!Err /\ input = Sui!ItemAt(program.inputs, index[1])
  BY <1>4, Zenon DEF Sui!InputOf, input
<1>6. 0 < Len(amounts) /\ index = Sui!parse_numeric_argument(amounts[0 + 1])
  BY <1>5, Zenon DEF Sui!get_index
<1>7. 1 \in DOMAIN amounts /\ 0 + 1 = 1
  BY <1>2, <1>6
<1>8. amounts[1].arg = "Input"
  BY <1>7, Zenon DEF Sui!PlainAmounts, Sui!Plain
<1> HIDE DEF amounts, index
<1>9. index = Sui!Ok(i)
  BY <1>6, <1>7, <1>8 DEF Sui!parse_numeric_argument
<1>10. input = Sui!ItemAt(program.inputs, i)
  BY <1>1, <1>5, <1>9, Zenon
<1>11. input = Sui!Ok(program.inputs[i + 1])
  BY <1>4, <1>10, Zenon DEF Sui!ItemAt
<1>12. Sui!FirstAmount(program, program.commands[k])[1] = program.inputs[i + 1].value
  BY <1>1, <1>3, <1>4, <1>11, Zenon
<1> QED
  BY <1>6, <1>12, Zenon DEF amounts

(* The amount of a command is that of its only split.                      *)
LEMMA OnlyIsWhole ==
  ASSUME Sui!IsProgram(program), Sui!PlainAmounts, NEW i \in Nat,
         Sui!OnlyAmount(program, Sui!ItemAt(program.commands, i)) \notin {Sui!Err, Sui!None}
  PROVE  /\ i + 1 \in DOMAIN program.commands
         /\ Sui!ItemAt(program.commands, i) = Sui!Ok(program.commands[i + 1])
         /\ Sui!IsWholeSplit(Sui!OnlyAmount(program, Sui!ItemAt(program.commands, i))[1], i + 1)
<1> DEFINE c == program.commands[i + 1]
           command == Sui!ItemAt(program.commands, i)
           amount == Sui!OnlyAmount(program, command)
<1>1. \A v : Sui!Ok(v)[1] = v
  BY DEF Sui!Ok
<1>2. /\ command # Sui!Err /\ command[1].command = "SplitCoins"
      /\ Len(command[1].amounts) = 1
      /\ amount = Sui!FirstAmount(program, command[1])
  <2>1. amount # Sui!Err /\ amount # Sui!None
    OBVIOUS
  <2>2. amount = IF command = Sui!Err THEN Sui!Err
                 ELSE IF command[1].command = "SplitCoins" /\ Len(command[1].amounts) = 1
                      THEN Sui!FirstAmount(program, command[1]) ELSE Sui!None
    BY Zenon DEF Sui!OnlyAmount
  <2> HIDE DEF command, amount
  <2> QED
    BY <2>1, <2>2
<1>3. i < Len(program.commands) /\ command = Sui!Ok(c)
  BY <1>2, Zenon DEF Sui!ItemAt
<1>4. command[1] = c
  BY <1>1, <1>3, Zenon
<1>5. i + 1 \in DOMAIN program.commands
  BY <1>3 DEF Sui!IsProgram, Sui!IsList
<1>6. amount # Sui!Err
  BY Zenon
<1>7. program.inputs[c.amounts[1].index + 1].value = amount[1]
  BY <1>2, <1>4, <1>5, <1>6, FirstIsEncoded, Zenon
<1> HIDE DEF amount
<1> QED
  BY <1>2, <1>3, <1>4, <1>5, <1>7, Zenon DEF Sui!IsWholeSplit, amount

(* A field with a unit is that of an amount.                               *)
LEMMA AmountShown ==
  ASSUME NEW amount, NEW unit, Sui!AmountField(amount, unit).unit # "text"
  PROVE  /\ amount # Sui!None
         /\ Sui!AmountField(amount, unit).value = amount
         /\ Sui!AmountField(amount, unit).unit = unit
BY DEF Sui!AmountField, Sui!Text, Sui!Amount

LEMMA StakeIsSplit ==
  ASSUME Sui!IsProgram(program), Sui!PlainAmounts, NEW k \in DOMAIN Sui!DeclaredCalls,
         NEW x, StakeField(Sui!DeclaredCalls[k], x), x.unit # "text"
  PROVE  Sui!IsOfCoin(x.value[1], Sui!StakedAs(Sui!DeclaredCalls[k].arguments[2]))
<1> DEFINE args == Sui!DeclaredCalls[k].arguments
           amount == Sui!get_stake_amount(program, args)
           index == Sui!get_index(args, 1)
           i == args[2].index
<1>1. \A v : Sui!Ok(v) # Sui!Err /\ Sui!Ok(v)[1] = v
  BY DEF Sui!Ok, Sui!Err
<1>2. /\ x = Sui!AmountField(Sui!OrElse(amount, Sui!None), "MIST")
      /\ Sui!OrElse(amount, Sui!None) # Sui!None
      /\ x.value = Sui!OrElse(amount, Sui!None)
  BY AmountShown, Zenon DEF StakeField
<1>3. amount # Sui!Err /\ amount # Sui!None /\ x.value = amount
  BY <1>2, Zenon DEF Sui!OrElse
<1>4. amount = Sui!OnlyAmount(program, IF index = Sui!Err THEN Sui!Err
                                       ELSE Sui!ItemAt(program.commands, index[1]))
  BY Zenon DEF Sui!get_stake_amount
<1>5. index # Sui!Err
  <2>1. Sui!OnlyAmount(program, Sui!Err) = Sui!Err
    BY DEF Sui!OnlyAmount
  <2> QED
    BY <1>3, <1>4, <2>1, Zenon
<1>6. /\ args \in Seq(Range(args))
      /\ \A j \in DOMAIN args : args[j].arg \in {"Input", "Result", "NestedResult"} =>
                                  args[j].index \in Nat
  BY CallIsCommand, Zenon
<1>7. 1 < Len(args) /\ index = Sui!parse_numeric_argument(args[1 + 1])
  BY <1>5, Zenon DEF Sui!get_index
<1> HIDE DEF args, amount, index
<1>8. 2 \in DOMAIN args /\ 1 + 1 = 2
  BY <1>6, <1>7
<1>9. /\ index = Sui!Ok(i) /\ i \in Nat
      /\ args[2].arg \in {"Input", "Result"}
  <2>1. index = Sui!parse_numeric_argument(args[2])
    BY <1>7, <1>8, Zenon
  <2> QED
    BY <1>5, <1>6, <1>8, <2>1 DEF Sui!parse_numeric_argument
<1>10. amount = Sui!OnlyAmount(program, Sui!ItemAt(program.commands, i))
  BY <1>1, <1>4, <1>9, Zenon
<1>11. amount \notin {Sui!Err, Sui!None}
  BY <1>3
<1>12. Sui!IsWholeSplit(amount[1], i + 1)
  BY <1>9, <1>10, <1>11, OnlyIsWhole, Zenon
<1>13. Sui!StakedAs(args[2]).arg = "Result" /\ Sui!StakedAs(args[2]).index = i
  BY <1>9 DEF Sui!StakedAs
<1>14. Sui!IsOfCoin(amount[1], Sui!StakedAs(args[2]))
  BY <1>12, <1>13 DEF Sui!IsOfCoin
<1> QED
  BY <1>3, <1>14, Zenon DEF args

LEMMA RepayIsFirst ==
  ASSUME Sui!IsProgram(program), Sui!PlainAmounts, NEW k \in DOMAIN Sui!DeclaredCalls,
         NEW x, RepayField(Sui!DeclaredCalls[k], x), x.unit # "text"
  PROVE  Sui!IsOfCoin(x.value[1], Sui!RepaidAs(Sui!DeclaredCalls[k].arguments[5]))
<1> DEFINE c == Sui!DeclaredCalls[k]
           args == c.arguments
           amount == Sui!get_repay_amount(program, c)
           index == Sui!get_nested_result_value(args, 4)
           command == IF index = Sui!Err THEN Sui!Err ELSE Sui!ItemAt(program.commands, index[1])
           arg == Sui!ItemAt(args, 4)
           i == args[5].index
<1>1. \A v : Sui!Ok(v) # Sui!Err /\ Sui!Ok(v)[1] = v
  BY DEF Sui!Ok, Sui!Err
<1>2. amount # Sui!Err /\ x.value = amount
  <2>1. x = IF amount = Sui!Err THEN Sui!Text("Repay_Amount", Sui!Ok("N/A"))
            ELSE Sui!Amount("Repay_Amount", amount, Sui!symbol(Sui!TypeArg(c, 1)))
    BY Zenon DEF RepayField
  <2>2. Sui!Text("Repay_Amount", Sui!Ok("N/A")).unit = "text"
    BY DEF Sui!Text, Sui!Amount
  <2> HIDE DEF amount, c
  <2>3. \A u : Sui!Amount("Repay_Amount", amount, u).value = amount
    BY DEF Sui!Amount
  <2> QED
    BY <2>1, <2>2, <2>3, Zenon
<1>3. /\ command # Sui!Err /\ command[1].command = "SplitCoins"
      /\ amount = Sui!FirstAmount(program, command[1])
  <2>1. amount = IF command = Sui!Err \/ command[1].command # "SplitCoins" THEN Sui!Err
                 ELSE Sui!FirstAmount(program, command[1])
    BY Zenon DEF Sui!get_repay_amount
  <2> QED
    BY <1>2, <2>1, Zenon
<1>4. index # Sui!Err /\ command = Sui!ItemAt(program.commands, index[1])
  BY <1>3, Zenon
<1>5. arg # Sui!Err /\ arg[1].arg = "NestedResult" /\ index = Sui!Ok(arg[1].index)
  BY <1>4, Zenon DEF Sui!get_nested_result_value
<1>6. 4 < Len(args) /\ arg = Sui!Ok(args[4 + 1])
  BY <1>5, Zenon DEF Sui!ItemAt
<1>7. /\ args \in Seq(Range(args))
      /\ \A j \in DOMAIN args : args[j].arg \in {"Input", "Result", "NestedResult"} =>
                                  args[j].index \in Nat
  BY CallIsCommand, Zenon
<1> HIDE DEF args, amount, index, command, arg
<1>8. 5 \in DOMAIN args /\ 4 + 1 = 5
  BY <1>6, <1>7
<1>9. arg[1] = args[5]
  BY <1>1, <1>6, <1>8, Zenon
<1>10. args[5].arg = "NestedResult" /\ index = Sui!Ok(i)
  BY <1>5, <1>9, Zenon
<1>11. i \in Nat
  BY <1>7, <1>8, <1>10
<1>12. command = Sui!ItemAt(program.commands, i)
  BY <1>1, <1>4, <1>10, Zenon
<1>13. i < Len(program.commands) /\ command = Sui!Ok(program.commands[i + 1])
  BY <1>3, <1>12, Zenon DEF Sui!ItemAt
<1>14. command[1] = program.commands[i + 1]
  BY <1>1, <1>13, Zenon
<1>15. i + 1 \in DOMAIN program.commands
  BY <1>11, <1>13 DEF Sui!IsProgram, Sui!IsList
<1>16. /\ program.commands[i + 1].command = "SplitCoins"
       /\ 0 < Len(program.commands[i + 1].amounts)
       /\ program.inputs[program.commands[i + 1].amounts[1].index + 1].value = amount[1]
  BY <1>2, <1>3, <1>14, <1>15, FirstIsEncoded, Zenon
<1>17. Sui!IsPart(amount[1], i + 1, 0)
  <2>1. 0 + 1 = 1
    OBVIOUS
  <2> QED
    BY <1>16, <2>1, Zenon DEF Sui!IsPart
<1>18. Sui!RepaidAs(args[5]) = [arg |-> "NestedResult", index |-> i, nested |-> 0]
  BY <1>10, Zenon DEF Sui!RepaidAs
<1>19. Sui!IsOfCoin(amount[1], Sui!RepaidAs(args[5]))
  BY <1>17, <1>18 DEF Sui!IsOfCoin
<1> QED
  BY <1>2, <1>19, Zenon DEF args

(* In a well-formed program, the amount shown for a stake                  *)
(* (get_stake_amount) is that of the coin it is taken to be of: the coin   *)
(* staked if that is a result; if it is the input i, what command i splits *)
(* off.  The amount shown for a repayment (get_repay_amount) is that of    *)
(* the first coin of the split it takes one of: the coin repaid with only  *)
(* if that is the first.                                                   *)
THEOREM AmountsAreSplit == Spec => []StakeAndRepayAmounts
<1>1. SuiInv => StakeAndRepayAmounts
  <2> SUFFICES ASSUME SuiInv, chain = "Sui", Sui!HasRows, Sui!WellFormed, Sui!PlainAmounts,
                      NEW k \in DOMAIN Sui!CommandRows
               PROVE  LET args == Sui!DeclaredCalls[k].arguments
                          fields == Sui!CommandRows[k].fields
                      IN  /\ /\ Sui!CommandRows[k].label = "Stake_Command"
                             /\ fields[2].unit # "text"
                             => Sui!IsOfCoin(fields[2].value[1], Sui!StakedAs(args[2]))
                          /\ /\ Sui!CommandRows[k].label = "Suilend_Repay_Command"
                             /\ fields[4].unit # "text"
                             => Sui!IsOfCoin(fields[4].value[1], Sui!RepaidAs(args[5]))
    BY Zenon DEF StakeAndRepayAmounts, Sui!StakeAndRepayAmounts
  <2>1. Sui!IsProgram(program) /\ k \in DOMAIN Sui!DeclaredCalls
        /\ Told(Sui!DeclaredCalls[k], Sui!CommandRows[k])
    BY ScreenTells, Zenon DEF RowsTell
  <2> DEFINE c == Sui!DeclaredCalls[k]
             row == Sui!CommandRows[k]
  <2>2. /\ row.label = "Stake_Command" => StakeField(c, row.fields[2])
        /\ row.label = "Suilend_Repay_Command" => RepayField(c, row.fields[4])
    BY <2>1, Zenon DEF Told
  <2>3. ASSUME row.label = "Stake_Command", row.fields[2].unit # "text"
        PROVE  Sui!IsOfCoin(row.fields[2].value[1], Sui!StakedAs(c.arguments[2]))
    BY <2>1, <2>2, <2>3, StakeIsSplit, Zenon
  <2>4. ASSUME row.label = "Suilend_Repay_Command", row.fields[4].unit # "text"
        PROVE  Sui!IsOfCoin(row.fields[4].value[1], Sui!RepaidAs(c.arguments[5]))
    BY <2>1, <2>2, <2>4, RepayIsFirst, Zenon
  <2> QED
    BY <2>3, <2>4, Zenon
<1> QED
  BY <1>1, SuiOutcome, PTL


-----------------------------------------------------------------------------
(* Where the objects Sui's programs send come from.                        *)

(* The arguments of a program's commands.                                  *)
IsArgument(a) ==
  \E j \in DOMAIN program.commands :
    \E l \in DOMAIN Sui!Arguments(program.commands[j]) : Sui!Arguments(program.commands[j])[l] = a

LEMMA ArgumentFine ==
  ASSUME Sui!IsProgram(program), NEW a, IsArgument(a)
  PROVE  /\ a.arg \in {"Input", "Result", "NestedResult"} => a.index \in Nat
         /\ Sui!WellFormed /\ Sui!IsResult(a) => a.index \in Nat /\ a.index < Len(program.commands)
<1>0. PICK j \in DOMAIN program.commands :
        \E l \in DOMAIN Sui!Arguments(program.commands[j]) :
          Sui!Arguments(program.commands[j])[l] = a
  BY DEF IsArgument
<1>1. PICK l \in DOMAIN Sui!Arguments(program.commands[j]) :
             Sui!Arguments(program.commands[j])[l] = a
  BY <1>0
<1>2. Len(program.commands) \in Nat /\ DOMAIN program.commands = 1..Len(program.commands)
  BY DEF Sui!IsProgram, Sui!IsList
<1>3. a.arg \in {"Input", "Result", "NestedResult"} => a.index \in Nat
  <2>1. Sui!IsCommand(program.commands[j])
    BY Zenon DEF Sui!IsProgram
  <2> QED
    BY <1>1, <2>1, Zenon DEF Sui!IsCommand
<1>4. ASSUME Sui!WellFormed, Sui!IsResult(a)
      PROVE  a.index \in Nat /\ a.index < Len(program.commands)
  <2>1. a.index < j - 1
    BY <1>1, <1>4, Zenon DEF Sui!WellFormed
  <2>2. a.arg \in {"Input", "Result", "NestedResult"}
    BY <1>4 DEF Sui!IsResult
  <2> QED
    BY <1>2, <1>3, <2>1, <2>2
<1> QED
  BY <1>3, <1>4

LEMMA CoinIsArgument ==
  ASSUME Sui!IsProgram(program), NEW a, IsArgument(a), IsCoin(a)
  PROVE  /\ a.index + 1 \in DOMAIN program.commands
         /\ program.commands[a.index + 1].command \in {"SplitCoins", "MergeCoins"}
         /\ Before(a) = program.commands[a.index + 1].coin
         /\ IsArgument(Before(a))
<1> DEFINE n == Len(program.commands)
           k == a.index + 1
           c == program.commands[k]
           args == Sui!Arguments(c)
<1>0. a.index \in Nat
  <2>1. a.arg \in {"Input", "Result", "NestedResult"}
    BY DEF IsCoin, Sui!IsResult
  <2> QED
    BY <2>1, ArgumentFine, Zenon
<1>1. n \in Nat /\ DOMAIN program.commands = 1..n
  BY DEF Sui!IsProgram, Sui!IsList
<1>2. a.index < n /\ Sui!CommandOf(program, a) = <<c>>
  BY DEF IsCoin, Sui!IsCoinCommand, Sui!CommandOf, Sui!ItemAt, Sui!Ok, Sui!Err
<1>3. c.command \in {"SplitCoins", "MergeCoins"} /\ Before(a) = c.coin
  BY <1>2 DEF IsCoin, Sui!IsCoinCommand, Before
<1>4. k \in DOMAIN program.commands
  BY <1>0, <1>1, <1>2
<1>5. Sui!IsCommand(c)
  BY <1>4 DEF Sui!IsProgram
<1>6. 1 \in DOMAIN args /\ args[1] = c.coin
  <2> HIDE DEF c
  <2>1. PICK s : s \in Seq(Sui!Range(s)) /\ args = <<c.coin>> \o s
    BY <1>3, <1>5 DEF Sui!IsCommand, Sui!IsList, Sui!Arguments
  <2> DEFINE E == Sui!Range(s) \cup {c.coin}
  <2>2. s \in Seq(E) /\ <<c.coin>> \in Seq(E)
    BY <2>1, SeqMonotonic
  <2> HIDE DEF E
  <2> QED
    BY <2>1, <2>2
<1>7. IsArgument(c.coin)
  BY <1>4, <1>6, Zenon DEF IsArgument
<1> QED
  BY <1>3, <1>4, <1>7, Zenon

(* The way back from an argument of a well-formed program.                 *)
LEMMA WayBack ==
  ASSUME Sui!IsProgram(program), Sui!WellFormed, NEW arg, IsArgument(arg)
  PROVE  LET n == Len(program.commands)
         IN  /\ n \in Nat
             /\ \E f : /\ f[0] = arg
                       /\ \A m \in Nat : m < n => f[m + 1] = Before(f[m])
                       /\ \A m \in Nat : m <= n => IsArgument(f[m])
                       /\ Sui!CoinOf(program, arg) = f[n]
                       /\ ~IsCoin(f[n])
<1> DEFINE n == Len(program.commands)
<1>1. n \in Nat
  BY DEF Sui!IsProgram, Sui!IsList
<1>2. PICK f : Back(arg, n, f) /\ Sui!CoinOf(program, arg) = f[n]
  BY <1>1, CoinIsBack
<1>3. \A m \in 0..n : f[m] = IF m = 0 THEN arg ELSE Before(f[m - 1])
  BY <1>2 DEF Back
<1>4. f[0] = arg /\ \A m \in Nat : m < n => f[m + 1] = Before(f[m])
  BY <1>1, <1>3
<1> DEFINE N == {m \in Nat : m <= n => IsArgument(f[m])}
<1>5. ASSUME NEW m \in Nat, m \in N PROVE m + 1 \in N
  <2> SUFFICES ASSUME m + 1 <= n PROVE IsArgument(f[m + 1])
    OBVIOUS
  <2>1. f[m + 1] = Before(f[m]) /\ IsArgument(f[m])
    BY <1>1, <1>4, <1>5
  <2>2. CASE IsCoin(f[m])
    BY <2>1, <2>2, CoinIsArgument, Zenon
  <2>3. CASE ~IsCoin(f[m])
    BY <2>1, <2>3, Zenon DEF Before
  <2> QED
    BY <2>2, <2>3
<1>6. 0 \in N
  BY <1>4
<1>7. Nat \subseteq N
  <2> HIDE DEF N
  <2> QED
    BY <1>5, <1>6, NaturalsBySteps
<1>8. ~IsCoin(f[n])
  <2>1. Sui!IsResult(arg) => arg.index \in Nat /\ arg.index < n
    BY ArgumentFine, Zenon
  <2> QED
    BY <1>2, <2>1, ComesToAnEnd, Zenon DEF Sui!GoesAround, IsCoin
<1>9. \A m \in Nat : m <= n => IsArgument(f[m])
  BY <1>7
<1> HIDE DEF n
<1> QED
  BY <1>1, <1>2, <1>4, <1>8, <1>9, Zenon DEF n

(* From where there is no way back it stays.                               *)
LEMMA StaysBack ==
  ASSUME NEW n \in Nat, NEW f, \A m \in Nat : m < n => f[m + 1] = Before(f[m]),
         NEW k \in Nat, k <= n, ~IsCoin(f[k])
  PROVE  f[n] = f[k]
<1> DEFINE N == {d \in Nat : k + d <= n => f[k + d] = f[k]}
<1>1. 0 \in N
  OBVIOUS
<1>2. ASSUME NEW d \in Nat, d \in N PROVE d + 1 \in N
  <2> SUFFICES ASSUME k + (d + 1) <= n PROVE f[k + (d + 1)] = f[k]
    OBVIOUS
  <2>1. k + d \in Nat /\ k + d < n /\ k + (d + 1) = (k + d) + 1
    OBVIOUS
  <2>2. f[k + (d + 1)] = Before(f[k + d]) /\ f[k + d] = f[k]
    BY <1>2, <2>1
  <2> QED
    BY <2>2, Zenon DEF Before
<1>3. Nat \subseteq N
  <2> HIDE DEF N
  <2> QED
    BY <1>1, <1>2, NaturalsBySteps
<1>4. n - k \in N /\ k + (n - k) = n
  BY <1>3
<1> QED
  BY <1>4

(* What a set has to hold for OfGas.                                       *)
Closed(S) ==
  \A j \in DOMAIN program.commands :
    /\ program.commands[j].command \in {"SplitCoins", "MergeCoins"}
    /\ LET coin == program.commands[j].coin
       IN  coin.arg = "GasCoin" \/ (Sui!IsResult(coin) /\ coin.index + 1 \in S)
    => j \in S

(* A coin comes of gas exactly if the way back from it ends there.         *)
LEMMA GasOnTheWayBack ==
  ASSUME Sui!IsProgram(program), Sui!WellFormed, NEW arg, IsArgument(arg), IsCoin(arg)
  PROVE  Sui!CoinOf(program, arg).arg = "GasCoin" <=> Sui!OfGas(arg.index + 1)
<1> DEFINE n == Len(program.commands)
<1>1. PICK f : /\ f[0] = arg
               /\ \A m \in Nat : m < n => f[m + 1] = Before(f[m])
               /\ \A m \in Nat : m <= n => IsArgument(f[m])
               /\ Sui!CoinOf(program, arg) = f[n]
               /\ ~IsCoin(f[n])
  BY WayBack
<1>2. n \in Nat /\ DOMAIN program.commands = 1..n
  BY DEF Sui!IsProgram, Sui!IsList
<1>3. \A a : a.arg = "GasCoin" => ~Sui!IsResult(a) /\ ~IsCoin(a)
  BY DEF Sui!IsResult, IsCoin
<1>4. Sui!OfGas(arg.index + 1)
        <=> \A S \in SUBSET DOMAIN program.commands : Closed(S) => arg.index + 1 \in S
  BY Zenon DEF Sui!OfGas, Closed
<1>5. ASSUME f[n].arg = "GasCoin", NEW S, Closed(S), arg.index + 1 \notin S
      PROVE  FALSE
  <2> DEFINE N == {m \in Nat : m <= n => /\ f[m].arg # "GasCoin"
                                         /\ IsCoin(f[m]) => f[m].index + 1 \notin S}
  <2>1. 0 \in N
    BY <1>1, <1>3, <1>5
  <2>2. ASSUME NEW m \in Nat, m \in N PROVE m + 1 \in N
    <3> SUFFICES ASSUME m + 1 <= n
                 PROVE  /\ f[m + 1].arg # "GasCoin"
                        /\ IsCoin(f[m + 1]) => f[m + 1].index + 1 \notin S
      OBVIOUS
    <3>1. m < n /\ m <= n
      BY <1>2
    <3>2. /\ f[m + 1] = Before(f[m]) /\ IsArgument(f[m])
          /\ f[m].arg # "GasCoin" /\ (IsCoin(f[m]) => f[m].index + 1 \notin S)
      BY <1>1, <2>2, <3>1
    <3>3. CASE IsCoin(f[m])
      <4> DEFINE j == f[m].index + 1
      <4>1. /\ j \in DOMAIN program.commands
            /\ program.commands[j].command \in {"SplitCoins", "MergeCoins"}
            /\ f[m + 1] = program.commands[j].coin
        BY <3>2, <3>3, CoinIsArgument, Zenon
      <4>2. ~(f[m + 1].arg = "GasCoin" \/ (Sui!IsResult(f[m + 1]) /\ f[m + 1].index + 1 \in S))
        BY <1>5, <3>2, <3>3, <4>1, Zenon DEF Closed
      <4> QED
        BY <4>2, Zenon DEF IsCoin
    <3>4. CASE ~IsCoin(f[m])
      BY <3>2, <3>4, Zenon DEF Before
    <3> QED
      BY <3>3, <3>4
  <2>3. Nat \subseteq N
    <3> HIDE DEF N
    <3> QED
      BY <2>1, <2>2, NaturalsBySteps
  <2>4. n \in N
    BY <1>2, <2>3
  <2> QED
    BY <1>2, <1>5, <2>4
<1>6. ASSUME f[n].arg # "GasCoin"
      PROVE  \E S \in SUBSET DOMAIN program.commands : Closed(S) /\ arg.index + 1 \notin S
  <2> DEFINE T == {i \in DOMAIN program.commands :
                     \E m \in Nat : m <= n /\ Sui!IsResult(f[m]) /\ i = f[m].index + 1}
             S == DOMAIN program.commands \ T
  <2>1. arg.index + 1 \notin S
    <3>1. Sui!IsResult(f[0]) /\ 0 <= n /\ 0 \in Nat
      BY <1>1, <1>2 DEF IsCoin
    <3> QED
      BY <1>1, <3>1
  <2>2. ASSUME NEW j \in DOMAIN program.commands, j \notin S,
               program.commands[j].command \in {"SplitCoins", "MergeCoins"}
        PROVE  LET coin == program.commands[j].coin
               IN  coin.arg # "GasCoin" /\ (Sui!IsResult(coin) => coin.index + 1 \notin S)
    <3>1. PICK m \in Nat : m <= n /\ Sui!IsResult(f[m]) /\ j = f[m].index + 1
      BY <2>2
    <3>2. IsArgument(f[m])
      BY <1>1, <3>1, Zenon
    <3>3. f[m].index \in Nat /\ f[m].index < n
      BY <3>1, <3>2, ArgumentFine, Zenon
    <3>4. Sui!CommandOf(program, f[m]) = Sui!Ok(program.commands[j])
      BY <3>1, <3>3, Zenon DEF Sui!CommandOf, Sui!ItemAt
    <3>5. IsCoin(f[m])
      <4>1. Sui!Ok(program.commands[j]) # Sui!Err
            /\ Sui!Ok(program.commands[j])[1] = program.commands[j]
        BY DEF Sui!Ok, Sui!Err
      <4> QED
        BY <2>2, <3>1, <3>4, <4>1, Zenon DEF IsCoin, Sui!IsCoinCommand
    <3>6. m < n /\ m + 1 \in Nat /\ m + 1 <= n
      <4>1. m # n
        BY <1>1, <3>5
      <4> QED
        BY <1>2, <3>1, <4>1
    <3>7. f[m + 1] = program.commands[j].coin
      <4>1. f[m + 1] = Before(f[m])
        BY <1>1, <3>6
      <4> QED
        BY <3>1, <3>2, <3>5, <4>1, CoinIsArgument, Zenon
    <3>8. f[m + 1].arg # "GasCoin"
      <4> SUFFICES ASSUME f[m + 1].arg = "GasCoin" PROVE FALSE
        OBVIOUS
      <4>1. ~IsCoin(f[m + 1])
        BY <1>3, Zenon
      <4>2. \A i \in Nat : i < n => f[i + 1] = Before(f[i])
        BY <1>1, Zenon
      <4>3. f[n] = f[m + 1]
        BY <1>2, <3>6, <4>1, <4>2, StaysBack, Zenon
      <4> QED
        BY <1>6, <4>3
    <3>9. Sui!IsResult(f[m + 1]) => f[m + 1].index + 1 \notin S
      BY <3>6, Zenon
    <3> HIDE DEF S
    <3> QED
      BY <3>7, <3>8, <3>9
  <2>3. Closed(S)
    <3> HIDE DEF S
    <3> QED
      BY <2>2, Zenon DEF Closed
  <2>4. S \in SUBSET DOMAIN program.commands
    OBVIOUS
  <2> HIDE DEF S
  <2> QED
    BY <2>1, <2>3, <2>4, Zenon
<1> HIDE DEF n
<1> QED
  BY <1>1, <1>4, <1>5, <1>6, Zenon


(* What is sent is an argument of its command.                             *)
LEMMA SentIsArgument ==
  ASSUME Sui!IsProgram(program), NEW o, Transferred(o)
  PROVE  IsArgument(o)
<1>1. PICK j \in DOMAIN program.commands :
        program.commands[j].command = "TransferObjects" /\ o \in Range(program.commands[j].objects)
  BY DEF Transferred
<1> DEFINE c == program.commands[j]
           args == Sui!Arguments(c)
<1>2. Sui!IsCommand(c)
  BY Zenon DEF Sui!IsProgram
<1> HIDE DEF c
<1>3. /\ c.objects \in Seq(Range(c.objects))
      /\ args = c.objects \o <<c.receiver>>
  <2>1. c.command = "TransferObjects"
    BY <1>1 DEF c
  <2>2. Sui!IsList(c.objects) /\ args = c.objects \o <<c.receiver>>
    BY <1>2, <2>1 DEF Sui!IsCommand, Sui!Arguments
  <2> QED
    BY <2>2, SuiRange, Zenon DEF Sui!IsList
<1>4. PICK k \in DOMAIN c.objects : c.objects[k] = o
  BY <1>1, Zenon DEF Range, c
<1>5. k \in DOMAIN args /\ args[k] = o
  <2> DEFINE E == Range(c.objects) \cup {c.receiver}
  <2>1. c.objects \in Seq(E) /\ <<c.receiver>> \in Seq(E)
    BY <1>3, SeqMonotonic
  <2> HIDE DEF E
  <2> QED
    BY <1>3, <1>4, <2>1
<1> QED
  BY <1>5, Zenon DEF IsArgument, c

(* An object is shown as "Sui" exactly if it comes of the gas coin.        *)
LEMMA NamedSui ==
  ASSUME Sui!IsProgram(program), NEW o, IsArgument(Sui!CoinOf(program, o))
  PROVE  Sui!resolve_object(program, o) = Sui!Ok("Sui") <=> Sui!CoinOf(program, o).arg = "GasCoin"
<1> DEFINE coin == Sui!CoinOf(program, o)
           input == Sui!InputOf(program, Sui!Ok(coin.index))
           command == Sui!CommandOf(program, coin)
           object == Sui!resolve_object(program, o)
<1>1. \A v : Sui!Ok(v) # Sui!Err /\ Sui!Ok(v)[1] = v
  BY DEF Sui!Ok, Sui!Err
<1>2. object = CASE coin.arg = "GasCoin" -> Sui!Ok("Sui")
                 [] coin.arg = "Input" ->
                      IF input = Sui!Err \/ input[1].is # "object" THEN Sui!Err
                      ELSE Sui!Ok(input[1].id)
                 [] OTHER -> IF command # Sui!Err /\ command[1].command = "MoveCall"
                             THEN Sui!Ok("Unknown") ELSE Sui!Err
  BY Zenon DEF Sui!resolve_object
<1>3. ASSUME coin.arg = "Input", ~(input = Sui!Err \/ input[1].is # "object")
      PROVE  input[1].id # "Sui"
  <2>1. coin.index \in Nat
    BY <1>3, ArgumentFine
  <2>2. input = Sui!ItemAt(program.inputs, coin.index)
    BY <1>1, Zenon DEF Sui!InputOf
  <2>3. coin.index < Len(program.inputs) /\ input = Sui!Ok(program.inputs[coin.index + 1])
    BY <1>3, <2>2, Zenon DEF Sui!ItemAt
  <2>4. input[1] = program.inputs[coin.index + 1]
    BY <1>1, <2>3, Zenon
  <2> HIDE DEF coin, input
  <2>5. coin.index + 1 \in DOMAIN program.inputs
    BY <2>1, <2>3 DEF Sui!IsProgram, Sui!IsList
  <2> QED
    BY <1>3, <2>4, <2>5 DEF Sui!IsProgram
<1> HIDE DEF coin, input, command, object
<1>4. CASE coin.arg = "GasCoin"
  <2>1. object = Sui!Ok("Sui")
    BY <1>2, <1>4
  <2> QED
    BY <1>4, <2>1, Zenon DEF coin, object
<1>5. CASE coin.arg # "GasCoin"
  <2>1. object = Sui!Err \/ \E id : id # "Sui" /\ object = Sui!Ok(id)
    <3>1. "Unknown" # "Sui"
      OBVIOUS
    <3>2. CASE coin.arg = "Input"
      BY <1>2, <1>3, <1>5, <3>2
    <3>3. CASE coin.arg # "Input"
      <4>1. object = IF command # Sui!Err /\ command[1].command = "MoveCall"
                     THEN Sui!Ok("Unknown") ELSE Sui!Err
        BY <1>2, <1>5, <3>3
      <4> QED
        BY <3>1, <4>1, Zenon
    <3> QED
      BY <3>2, <3>3
  <2>2. object # Sui!Ok("Sui")
    BY <2>1 DEF Sui!Ok, Sui!Err
  <2> QED
    BY <1>5, <2>2, Zenon DEF coin, object
<1> QED
  BY <1>4, <1>5

(* What is shown of an object that is sent.                                *)
LEMMA SentAsSplit ==
  ASSUME Sui!IsProgram(program), Sui!WellFormed, Sui!PlainAmounts,
         NEW o, Transferred(o), NEW row, Sent(o, row), row.fields[3].unit # "text"
  PROVE  /\ o.arg = "Result"
         /\ Sui!IsOfCoin(row.fields[3].value[1], o)
         /\ row.fields[4].value = row.fields[3].value
         /\ row.fields[5].value = row.fields[3].value
         /\ Sui!OfGas(o.index + 1) <=> row.fields[3].unit = "MIST"
         /\ Sui!OfGas(o.index + 1) <=> row.fields[4].unit = "MIST"
         /\ Sui!OfGas(o.index + 1) <=> row.fields[5].unit = row.fields[3].unit
<1> DEFINE x == row.fields[3]
           amount == Sui!resolve_amount(program, o)
           unit == UnitOf(o, "Unknown")
           named == UnitOf(o, "id")
<1>1. /\ x = Sui!AmountField(amount, unit) /\ x.value # Sui!Err
      /\ row.fields[4] = TitleOf(amount, named)
      /\ row.fields[5] = SummaryOf(amount)
  BY Zenon DEF Sent
<1> HIDE DEF x, unit, named
<1>2. amount # Sui!None /\ x.value = amount /\ x.unit = unit /\ amount # Sui!Err
  <2>1. Sui!AmountField(amount, unit).unit # "text"
    BY <1>1, Zenon DEF x
  <2> QED
    BY <1>1, <2>1, AmountShown, Zenon
<1>3. /\ o.arg = "Result"
      /\ amount = Sui!OnlyAmount(program, Sui!ItemAt(program.commands, o.index))
  BY <1>2, Zenon DEF Sui!resolve_amount, Sui!CommandOf
<1>4. IsArgument(o)
  BY SentIsArgument, Zenon
<1>5. o.index \in Nat
  <2>1. o.arg \in {"Input", "Result", "NestedResult"}
    BY <1>3
  <2> QED
    BY <1>4, <2>1, ArgumentFine, Zenon
<1> HIDE DEF amount
<1>6. Sui!OnlyAmount(program, Sui!ItemAt(program.commands, o.index)) \notin {Sui!Err, Sui!None}
  BY <1>2, <1>3
<1>7. /\ Sui!ItemAt(program.commands, o.index) = Sui!Ok(program.commands[o.index + 1])
      /\ Sui!IsWholeSplit(amount[1], o.index + 1)
  BY <1>3, <1>5, <1>6, OnlyIsWhole, Zenon
<1>8. IsCoin(o)
  <2>1. Sui!IsResult(o)
    BY <1>3 DEF Sui!IsResult
  <2>2. program.commands[o.index + 1].command = "SplitCoins"
    BY <1>7, Zenon DEF Sui!IsWholeSplit
  <2>3. Sui!IsCoinCommand(Sui!Ok(program.commands[o.index + 1]))
    BY <2>2 DEF Sui!IsCoinCommand, Sui!Ok, Sui!Err
  <2> QED
    BY <1>7, <2>1, <2>3, Zenon DEF IsCoin, Sui!CommandOf
<1>9. IsArgument(Sui!CoinOf(program, o))
  <2> DEFINE n == Len(program.commands)
  <2>1. PICK f : /\ \A m \in Nat : m <= n => IsArgument(f[m])
                 /\ Sui!CoinOf(program, o) = f[n]
    BY <1>4, WayBack, Zenon
  <2>2. n \in Nat /\ n <= n
    BY DEF Sui!IsProgram, Sui!IsList
  <2> QED
    BY <2>1, <2>2, Zenon
<1>10. Sui!resolve_object(program, o) = Sui!Ok("Sui") <=> Sui!OfGas(o.index + 1)
  BY <1>4, <1>8, <1>9, NamedSui, GasOnTheWayBack, Zenon
<1>11. /\ unit = "MIST" <=> Sui!resolve_object(program, o) = Sui!Ok("Sui")
       /\ named = "MIST" <=> Sui!resolve_object(program, o) = Sui!Ok("Sui")
  BY DEF unit, named, UnitOf
<1>12. /\ row.fields[4].value = amount /\ row.fields[4].unit = named
       /\ row.fields[5].value = amount /\ row.fields[5].unit = "MIST"
  <2>1. /\ TitleOf(amount, named) = Sui!Amount("Title", amount, named)
        /\ SummaryOf(amount) = Sui!Amount("Summary", amount, "MIST")
    BY <1>2, Zenon DEF TitleOf, SummaryOf
  <2>2. /\ Sui!Amount("Title", amount, named).value = amount
        /\ Sui!Amount("Title", amount, named).unit = named
        /\ Sui!Amount("Summary", amount, "MIST").value = amount
        /\ Sui!Amount("Summary", amount, "MIST").unit = "MIST"
    BY DEF Sui!Amount
  <2>3. /\ row.fields[4] = Sui!Amount("Title", amount, named)
        /\ row.fields[5] = Sui!Amount("Summary", amount, "MIST")
    BY <1>1, <2>1, Zenon
  <2>4. row.fields[4].value = amount /\ row.fields[4].unit = named
    BY <2>2, <2>3, Zenon
  <2>5. row.fields[5].value = amount /\ row.fields[5].unit = "MIST"
    BY <2>2, <2>3, Zenon
  <2> QED
    BY <2>4, <2>5, Zenon
<1>13. Sui!IsOfCoin(amount[1], o)
  BY <1>3, <1>7 DEF Sui!IsOfCoin
<1> QED
  BY <1>2, <1>3, <1>10, <1>11, <1>12, <1>13, Zenon DEF x

(* If transfers are asked for, each object sent has a row, in order; in a  *)
(* well-formed program the amount in its field, title and summary          *)
(* (resolve_amount) is that of the coin sent.  Field and title are in MIST *)
(* exactly if the way back from it (resolve_object) ends at the gas coin.  *)
(* The summary is in MIST always: its unit is the field's for these coins  *)
(* and contradicts it for every other.                                     *)
THEOREM TransfersAsSplit == Spec => []TransferAmounts
<1>1. SuiInv => TransferAmounts
  <2> SUFFICES ASSUME SuiInv, chain = "Sui", Sui!HasRows PROVE Sui!TransferAmounts
    BY DEF TransferAmounts, Sui!TransferAmounts
  <2> DEFINE rows == Sui!TransferRows
             sent == SentObjects
  <2>1. Sui!IsProgram(program)
    BY SuiScreen, Zenon
  <2>2. IF decode_transfers
        THEN /\ DOMAIN rows = 1..Len(rows)
             /\ Len(rows) = Len(sent)
             /\ \A k \in 1..Len(rows) : Sent(sent[k], rows[k]) /\ Transferred(sent[k])
        ELSE rows = <<>>
    <3>1. CASE decode_transfers
      <4>1. /\ Sui!decode_transfers_of(program).is = "rows"
            /\ rows = Sui!decode_transfers_of(program).rows
        BY <3>1, SuiScreen, Zenon
      <4>2. /\ IsTuple(rows)
            /\ Len(rows) = Len(sent)
            /\ \A k \in 1..Len(rows) : Sent(sent[k], rows[k]) /\ Transferred(sent[k])
        BY <2>1, <4>1, SuiTransferRows, Zenon
      <4> HIDE DEF rows
      <4>3. DOMAIN rows = 1..Len(rows)
        BY <4>2 DEF IsTuple
      <4> QED
        BY <3>1, <4>2, <4>3, Zenon
    <3>2. CASE ~decode_transfers
      BY <3>2, SuiScreen, Zenon
    <3> QED
      BY <3>1, <3>2, Zenon
  <2> HIDE DEF rows, sent
  <2>3. Len(rows) = IF decode_transfers THEN Len(sent) ELSE 0
    BY <2>2
  <2>4. ASSUME Sui!WellFormed, Sui!PlainAmounts, NEW k \in DOMAIN rows,
               rows[k].fields[3].unit # "text"
        PROVE  /\ sent[k].arg = "Result"
               /\ Sui!IsOfCoin(rows[k].fields[3].value[1], sent[k])
               /\ rows[k].fields[4].value = rows[k].fields[3].value
               /\ rows[k].fields[5].value = rows[k].fields[3].value
               /\ Sui!OfGas(sent[k].index + 1) <=> rows[k].fields[3].unit = "MIST"
               /\ Sui!OfGas(sent[k].index + 1) <=> rows[k].fields[4].unit = "MIST"
               /\ Sui!OfGas(sent[k].index + 1) <=> rows[k].fields[5].unit = rows[k].fields[3].unit
    <3>1. Sent(sent[k], rows[k]) /\ Transferred(sent[k])
      BY <2>2
    <3> QED
      BY <2>1, <2>4, <3>1, SentAsSplit, Zenon
  <2>5. sent = Sui!FlattenSeq([k \in DOMAIN program.commands |->
                 IF program.commands[k].command = "TransferObjects"
                 THEN program.commands[k].objects ELSE <<>>])
    BY SuiFlatten, Zenon DEF sent, SentObjects, ObjectsOf
  <2> QED
    BY <2>3, <2>4, <2>5, Zenon DEF Sui!TransferAmounts, rows
<1> QED
  BY <1>1, SuiOutcome, PTL
=============================================================================
