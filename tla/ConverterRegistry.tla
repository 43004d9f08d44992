------------------------- MODULE ConverterRegistry --------------------------
(***************************************************************************)
(* The registry of converters (visualsign, registry) and what each does    *)
(* with the text of a transaction before it shows it: tell hex from base64 *)
(* (encodings), decode the bytes by one or two formats and check the       *)
(* payload's characters (vsptrait).  A registry is filled with register,   *)
(* asked for one chain with convert_transaction, or for any chain with     *)
(* auto_detect_and_convert, which goes through a HashMap in an order that  *)
(* differs from run to run.                                                *)
(***************************************************************************)
CONSTANTS
  Texts,      \* transaction texts: how each was meant and how it reads
  Byteses,    \* the byte strings they may read as
  EmptyText,  \* the empty one
  Txs,        \* transactions, as the chains' formats decode them
  Decodes,    \* Decodes[f][b]: what format f makes of the bytes b
  Shows,      \* Shows[<<converter, tx>>]: the payload a converter makes
  Payloads,   \* the payloads it may make
  Unprintable,\* those validate_charset turns down, Unspecified ones too
  Chains,     \* the chains considered, of the variant Custom too
  Bad,        \* no result: decoding or converting failed
  Nothing     \* no text is being converted

Converters == {"Ethereum", "Solana", "Sui", "Tron", "Unspecified"}

Formats == {"TypedTransaction", "VersionedTransaction", "Transaction",
            "SenderSignedData", "TransactionData", "transaction::Raw"}

(* A text is meant as hex, as hex behind "0x" or as base64, and reads as   *)
(* hex and as base64, or as one of them.  Only hex digits make it digits,  *)
(* "0x" in front makes it zeroX, and "x" is no hex digit.                  *)
Text == [meant: {"hex", "0x", "base64"}, digits: BOOLEAN, zeroX: BOOLEAN,
         hex: Byteses \cup {Bad}, base64: Byteses \cup {Bad}]

ASSUME RegistryAssumption ==
  /\ Texts \subseteq Text
  /\ \A t \in Texts :
       /\ ~(t.digits /\ t.zeroX)
       /\ t.meant = "hex" => t.digits /\ t.hex # Bad
       /\ t.meant = "0x" => t.zeroX /\ t.hex # Bad
       /\ t.meant = "base64" => t.base64 # Bad
  /\ EmptyText \in Texts
  /\ Decodes \in [Formats -> [Byteses -> Txs \cup {Bad}]]
  /\ Shows \in [(Converters \ {"Unspecified"}) \X Txs -> Payloads \cup {Bad}]
  /\ Bad \notin Txs /\ Bad \notin Payloads /\ Bad \notin Byteses
  /\ Nothing \notin Texts

VARIABLES
  converters, \* the HashMap: a function from some chains to converters
  asked,      \* the text auto_detect_and_convert is about, or Nothing
  untried,    \* the chains its loop has yet to come to
  outcome     \* what the last call returned

vars == <<converters, asked, untried, outcome>>

None == [of |-> "none"]
Error(kind) == [is |-> "error", kind |-> kind]
Payload(p) == [is |-> "payload", payload |-> p]
Detected(c, p) == [is |-> "detected", chain |-> c, payload |-> p]

-----------------------------------------------------------------------------
(* A mutant of detect: one hex digit would do.                             *)
detectAny(t) == IF t.digits \/ t.zeroX THEN "Hex" ELSE "Base64"

(* SupportedEncodings::detect                                              *)
detect(t) == IF t.digits THEN "Hex" ELSE "Base64"

(* Ethereum and Tron look for "0x" first, Solana and Sui do not.           *)
StripsZeroX(converter) == converter \in {"Ethereum", "Tron"}

bytes(converter, t) ==
  IF StripsZeroX(converter) /\ t.zeroX THEN t.hex
  ELSE IF detect(t) = "Hex" THEN t.hex ELSE t.base64

(* Solana and Sui have two formats: the second is tried if the first fails.*)
FirstOf(f, g, b) == IF Decodes[f][b] # Bad THEN Decodes[f][b] ELSE Decodes[g][b]

DecodeBytes(converter, b) ==
  CASE converter = "Ethereum" -> Decodes["TypedTransaction"][b]
    [] converter = "Solana" -> FirstOf("VersionedTransaction", "Transaction", b)
    [] converter = "Sui" -> FirstOf("SenderSignedData", "TransactionData", b)
    [] converter = "Tron" -> Decodes["transaction::Raw"][b]

(* T::from_string; the Unspecified wrapper keeps the text as it is.        *)
from_string(converter, t) ==
  CASE converter = "Unspecified" -> t
    [] converter = "Sui" /\ t = EmptyText -> Bad
    [] OTHER -> IF bytes(converter, t) = Bad THEN Bad
                ELSE DecodeBytes(converter, bytes(converter, t))

(* The Unspecified payload is the text behind the name of the network.     *)
Unspecified(t) == <<"Unspecified", t>>

to_visual_sign_payload(converter, tx) ==
  IF converter = "Unspecified" THEN Unspecified(tx) ELSE Shows[<<converter, tx>>]

to_validated_visual_sign_payload(converter, tx) ==
  LET p == to_visual_sign_payload(converter, tx)
  IN  IF p = Bad THEN Error("ConversionError")
      ELSE IF p \in Unprintable THEN Error("ValidationError")
      ELSE Payload(p)

to_visual_sign_payload_from_string(converter, t) ==
  LET tx == from_string(converter, t)
  IN  IF tx = Bad THEN Error("ParseError")
      ELSE to_validated_visual_sign_payload(converter, tx)

supports_format(converter, t) == from_string(converter, t) # Bad

(* What convert_transaction returns.                                       *)
Converted(chain, t) ==
  IF chain \in DOMAIN converters
  THEN to_visual_sign_payload_from_string(converters[chain], t)
  ELSE Error("ConversionError")

-----------------------------------------------------------------------------
Init ==
  /\ converters = <<>>
  /\ asked = Nothing
  /\ untried = {}
  /\ outcome = None

(* register takes the registry mutably: no call is under way.  It replaces *)
(* the converter the chain had.                                            *)
register(chain, converter) ==
  /\ asked = Nothing
  /\ converters' = [c \in DOMAIN converters \cup {chain} |->
                      IF c = chain THEN converter ELSE converters[c]]
  /\ outcome' = None
  /\ UNCHANGED <<asked, untried>>

convert_transaction(chain, t) ==
  /\ asked = Nothing
  /\ outcome' = [of |-> "convert", chain |-> chain, text |-> t,
                 result |-> Converted(chain, t)]
  /\ UNCHANGED <<converters, asked, untried>>

auto_detect_and_convert(t) ==
  /\ asked = Nothing
  /\ asked' = t
  /\ untried' = DOMAIN converters
  /\ outcome' = None
  /\ UNCHANGED converters

(* A mutant of Try: a converter that parses the text but does not convert  *)
(* it ends the loop.                                                       *)
TryParsed(chain) ==
  LET r == Converted(chain, asked)
  IN  /\ asked # Nothing
      /\ chain \in untried
      /\ IF supports_format(converters[chain], asked)
         THEN /\ outcome' = [of |-> "detect", text |-> asked,
                             result |-> IF r.is = "payload" THEN Detected(chain, r.payload)
                                        ELSE Error("ConversionError")]
              /\ asked' = Nothing
              /\ untried' = {}
         ELSE /\ untried' = untried \ {chain}
              /\ UNCHANGED <<asked, outcome>>
      /\ UNCHANGED converters

(* One turn of its loop: the HashMap's order is any.                       *)
Try(chain) ==
  LET r == Converted(chain, asked)
  IN  /\ asked # Nothing
      /\ chain \in untried
      /\ IF supports_format(converters[chain], asked) /\ r.is = "payload"
         THEN /\ outcome' = [of |-> "detect", text |-> asked,
                             result |-> Detected(chain, r.payload)]
              /\ asked' = Nothing
              /\ untried' = {}
         ELSE /\ untried' = untried \ {chain}
              /\ UNCHANGED <<asked, outcome>>
      /\ UNCHANGED converters

(* The loop ends without a payload.                                        *)
GiveUp ==
  /\ asked # Nothing
  /\ untried = {}
  /\ outcome' = [of |-> "detect", text |-> asked, result |-> Error("ConversionError")]
  /\ asked' = Nothing
  /\ UNCHANGED <<converters, untried>>

Next ==
  \/ \E chain \in Chains, converter \in Converters : register(chain, converter)
  \/ \E chain \in Chains, t \in Texts : convert_transaction(chain, t)
  \/ \E t \in Texts : auto_detect_and_convert(t)
  \/ \E chain \in Chains : Try(chain)
  \/ GiveUp

Spec == Init /\ [][Next]_vars

-----------------------------------------------------------------------------
(* Every variable keeps to the values the code gives it; the loop only     *)
(* comes to chains that are registered.                                    *)
TypeOK ==
  /\ DOMAIN converters \subseteq Chains
  /\ \A c \in DOMAIN converters : converters[c] \in Converters
  /\ asked \in Texts \cup {Nothing}
  /\ untried \subseteq DOMAIN converters
  /\ outcome.of \in {"none", "convert", "detect"}
  /\ outcome.of # "none" => outcome.text \in Texts

(* The chains whose converter makes a payload of t.                        *)
Accepting(t) == {c \in DOMAIN converters : Converted(c, t).is = "payload"}

(* auto_detect_and_convert fails only if no registered converter would     *)
(* have converted the text, and otherwise names a chain with the payload   *)
(* convert_transaction gives for it, whatever the order of the HashMap.    *)
(* Where several accept, as the Unspecified converter does with everything,*)
(* the order decides; where one accepts, it decides nothing.               *)
DetectsWhatConverts ==
  outcome.of = "detect" =>
    LET r == outcome.result
        accepting == Accepting(outcome.text)
    IN  /\ r.is = IF accepting = {} THEN "error" ELSE "detected"
        /\ r.is = "detected" =>
             /\ r.chain \in accepting
             /\ Payload(r.payload) = Converted(r.chain, outcome.text)

(* The bytes the author of a text meant.                                   *)
Meaning(t) == IF t.meant = "base64" THEN t.base64 ELSE t.hex

(* The texts a converter takes for something else: base64 that has hex     *)
(* digits only, base64 that begins with "0x" where that is stripped, and   *)
(* "0x" where it is not.                                                   *)
Mistaken(converter, t) ==
  \/ t.meant = "base64" /\ t.digits
  \/ t.meant = "base64" /\ t.zeroX /\ StripsZeroX(converter)
  \/ t.meant = "0x" /\ ~StripsZeroX(converter)

(* Those are the only ones: any other text that is converted is read as    *)
(* the bytes it stands for, so that a transaction looks the same whichever *)
(* encoding its sender chose (the from_string of each chain).              *)
ReadAsMeant ==
  outcome.of = "convert" /\ outcome.result.is = "payload" =>
    LET converter == converters[outcome.chain]
        t == outcome.text
    IN  \/ converter = "Unspecified"
        \/ Mistaken(converter, t)
        \/ LET tx == DecodeBytes(converter, Meaning(t))
           IN  tx # Bad /\ outcome.result.payload = Shows[<<converter, tx>>]

(* No payload with a character validate_charset turns down leaves the      *)
(* registry, by either way (to_validated_visual_sign_payload).             *)
OnlyPrintable ==
  outcome.of # "none" /\ outcome.result.is \in {"payload", "detected"} =>
    outcome.result.payload \notin Unprintable
=============================================================================
