--------------------------- MODULE SigningService ---------------------------
(***************************************************************************)
(* What the parser deployment promises the clients of its gRPC host,       *)
(* whatever happens between the host, the enclave and the app: an accepted *)
(* call gets at most one reply, and that reply is one of those its own     *)
(* request allows.  Nothing is said here of sockets, queues or processes;  *)
(* ParserPipeline is the detailed specification that implements this one.  *)
(***************************************************************************)
EXTENDS ParserMessages

VARIABLES
  req,          \* req[c]: the request of call c
  reply,        \* reply[c]: the reply its client got
  keyFile,      \* the ephemeral key the app would read now
  phase,        \* the protocol phase of the enclave now
  keysDuring,   \* keysDuring[c]: the values keyFile had since c was asked,
                \* forgotten when it is answered
  phasesDuring  \* phasesDuring[c]: the same of phase

vars == <<req, reply, keyFile, phase, keysDuring, phasesDuring>>

-----------------------------------------------------------------------------
(***************************************************************************)
(* The replies that request r allows, when the keys ks and the phases ps   *)
(* were seen while it was pending.                                         *)
(***************************************************************************)
ParsePromise(r, ks) ==
  {Err("Internal")}
    \cup (IF Unparsable(r) THEN {Err("InvalidArgument")} ELSE {})
    \cup (IF Parsable(r)
          THEN {Ok(Signed(Convert[<<r.chain, r.tx>>], k)) : k \in ks \ {NoKey}}
          ELSE {})

HealthPromise(ks) ==
  {Err("Internal")} \cup {Ok(Healthy) : k \in ks \ {NoKey}}

ReadinessPromise(ks) ==
  {Ok(NotServing)} \cup {Ok(Serving) : k \in ks \ {NoKey}}

EnclavePromise(ps) ==
  {Err("Internal")}
    \cup {IF p = Provisioned THEN Ok(InPhase(p)) ELSE Err("Unavailable") : p \in ps}

Promised(r, ks, ps) ==
  CASE r.kind = "parse" -> ParsePromise(r, ks)
    [] r.kind = "health" -> HealthPromise(ks)
    [] r.kind = "readiness" -> ReadinessPromise(ks)
    [] r.kind = "enclave" -> EnclavePromise(ps)
    [] r.kind = "liveness" -> {Ok(Serving)}
    [] r.kind = "otherService" -> {Ok(ServiceUnknown)}

-----------------------------------------------------------------------------
Init ==
  /\ req = [c \in Calls |-> NoRequest]
  /\ reply = [c \in Calls |-> NoReply]
  /\ keyFile \in Keys \cup {NoKey}
  /\ phase \in Phases
  /\ keysDuring = [c \in Calls |-> {}]
  /\ phasesDuring = [c \in Calls |-> {}]

Pending(c) == req[c] # NoRequest /\ reply[c] = NoReply

Ask(c) ==
  /\ req[c] = NoRequest
  /\ \E r \in Requests : req' = [req EXCEPT ![c] = r]
  /\ keysDuring' = [keysDuring EXCEPT ![c] = {keyFile}]
  /\ phasesDuring' = [phasesDuring EXCEPT ![c] = {phase}]
  /\ UNCHANGED <<reply, keyFile, phase>>

Answer(c) ==
  /\ Pending(c)
  /\ \E a \in Promised(req[c], keysDuring[c], phasesDuring[c]) :
       reply' = [reply EXCEPT ![c] = a]
  /\ keysDuring' = [keysDuring EXCEPT ![c] = {}]
  /\ phasesDuring' = [phasesDuring EXCEPT ![c] = {}]
  /\ UNCHANGED <<req, keyFile, phase>>

(* The client of a call that is not answered yet goes away.                *)
Leave(c) ==
  /\ Pending(c)
  /\ reply' = [reply EXCEPT ![c] = Cancelled]
  /\ keysDuring' = [keysDuring EXCEPT ![c] = {}]
  /\ phasesDuring' = [phasesDuring EXCEPT ![c] = {}]
  /\ UNCHANGED <<req, keyFile, phase>>

(* The ephemeral key file appears, is replaced or disappears.              *)
KeyChange ==
  /\ keyFile' \in (Keys \cup {NoKey}) \ {keyFile}
  /\ keysDuring' = [c \in Calls |->
       IF Pending(c) THEN keysDuring[c] \cup {keyFile'} ELSE keysDuring[c]]
  /\ UNCHANGED <<req, reply, phase, phasesDuring>>

(* The enclave boots, is provisioned, fails, or boots again.               *)
PhaseChange ==
  /\ phase' \in Phases \ {phase}
  /\ phasesDuring' = [c \in Calls |->
       IF Pending(c) THEN phasesDuring[c] \cup {phase'} ELSE phasesDuring[c]]
  /\ UNCHANGED <<req, reply, keyFile, keysDuring>>

Next ==
  \/ \E c \in Calls : Ask(c) \/ Answer(c) \/ Leave(c)
  \/ KeyChange
  \/ PhaseChange

Spec == Init /\ [][Next]_vars
=============================================================================
