--------------------------- MODULE ParserMessages ---------------------------
(***************************************************************************)
(* The requests and replies of the host's gRPC services, what a request    *)
(* means to the parser app, and the constants both depend on.              *)
(***************************************************************************)
CONSTANTS
  Calls,          \* the gRPC calls of a behaviour, each made at most once
  Requests,       \* the requests a call may carry
  Chains,         \* the values the `chain` field of a ParseRequest may have
  ProtoChains,    \* those that are a member of the proto enum Chain
  Registered,     \* those create_registry has a converter for
  Txs,            \* values of `unsigned_payload`
  EmptyTx,        \* the empty one
  Renderings,     \* JSON texts of signable payloads
  Convert,        \* conversion of a transaction by the chain's converter:
                  \* a rendering, or one of the next three
  BadTx,          \* the converter returns an error
  Unserializable, \* the payload's Serialize implementation returns an error
  Panics,         \* the converter panics
  Keys,           \* ephemeral keys
  NoKey,          \* there is no readable ephemeral key file
  Phases,         \* the protocol phases of the enclave that are considered
  NoRequest,      \* a call that has not been made
  NoReply         \* a call that has not been answered

Provisioned == "QuorumKeyProvisioned"

ParseRequest == [kind: {"parse"}, chain: Chains, tx: Txs]
Probe == [kind: {"health", "readiness", "liveness", "otherService", "enclave"}]

ASSUME ConstantAssumption ==
  /\ Requests \subseteq ParseRequest \cup Probe
  /\ Registered \subseteq ProtoChains
  /\ ProtoChains \subseteq Chains
  /\ EmptyTx \in Txs
  /\ Convert \in [Registered \X Txs ->
                    Renderings \cup {BadTx, Unserializable, Panics}]
  /\ {BadTx, Unserializable, Panics} \cap Renderings = {}
  /\ BadTx # Unserializable /\ BadTx # Panics /\ Unserializable # Panics
  /\ NoKey \notin Keys
  /\ NoRequest \notin Requests

-----------------------------------------------------------------------------
(* Replies.                                                                *)

Signed(rendering, key) ==
  [tag |-> "parse", payload |-> rendering, key |-> key,
   sig |-> [key |-> key, msg |-> rendering]]

Ok(body) == [code |-> "OK", body |-> body]
Err(code) == [code |-> code, body |-> [tag |-> "none"]]

Healthy == [tag |-> "health", health |-> 200]
Serving == [tag |-> "serving"]
NotServing == [tag |-> "notServing"]
ServiceUnknown == [tag |-> "serviceUnknown"]
InPhase(p) == [tag |-> "phase", phase |-> p]

(* What is left of a call whose client went away before it was answered.   *)
Cancelled == Err("Cancelled")

(* The request is the caller's mistake.                                    *)
Unparsable(r) ==
  \/ r.tx = EmptyTx
  \/ r.chain \notin Registered
  \/ Convert[<<r.chain, r.tx>>] = BadTx

(* The request has a rendering, and it can be signed.                      *)
Parsable(r) ==
  /\ r.tx # EmptyTx
  /\ r.chain \in Registered
  /\ Convert[<<r.chain, r.tx>>] \in Renderings

SignedRenderings == {Signed(x, k) : x \in Renderings, k \in Keys}

Body ==
  SignedRenderings
    \cup {Healthy, Serving, NotServing, ServiceUnknown, [tag |-> "none"]}
    \cup {InPhase(p) : p \in Phases}

Reply ==
  [code: {"OK", "InvalidArgument", "Internal", "Unavailable", "Cancelled"}, body: Body]

ASSUME ReplyAssumption == NoReply \notin Reply
=============================================================================
