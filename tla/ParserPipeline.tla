--------------------------- MODULE ParserPipeline ---------------------------
(***************************************************************************)
(* A gRPC call's way through the deployment: the host's handler tasks      *)
(* (parser/host, health_check, host_primitives) share one SocketClient to  *)
(* the enclave, the enclave relays a request to the app and the app        *)
(* (parser/app) reads the ephemeral key, converts, signs and answers.  The *)
(* wire carries no request identifiers: a handler takes whatever arrives   *)
(* on the stream it holds for the answer to its own request.  Calls time   *)
(* out, clients go away, the enclave gives up on the app, requests and     *)
(* answers get lost, the app panics and restarts, and the key file and the *)
(* enclave's phase change at any moment.                                   *)
(***************************************************************************)
EXTENDS ParserMessages, Naturals, Sequences, FiniteSets

CONSTANT
  Nobody         \* not a call: the stream is free, or a process is idle

ASSUME NobodyAssumption == Nobody \notin Calls

VARIABLES
  req,           \* req[c]: the request the handler of call c was given
  reply,         \* reply[c]: what the handler returned
  keyFile,       \* the key the ephemeral key file holds now
  phase,         \* the enclave's protocol phase
  keysDuring,    \* history: the values of keyFile since c arrived, as long
                 \* as c is pending
  phasesDuring,  \* history: the same of phase
  hist,          \* REQUEST_HISTOGRAM: observations per method and result
  stream,        \* the call that holds the SocketClient's only stream
  wire,          \* the answer that arrived on that stream, not read yet
  inbox,         \* the calls whose request the enclave has yet to read
  proxied,       \* the call whose request the enclave relays to the app
  relayed,       \* the app has read that request
  working,       \* the call whose request the app processes
  appKey,        \* the key Processor::process read for it
  appUp          \* the app accepts requests

promised == <<req, reply, keyFile, phase, keysDuring, phasesDuring>>
link == <<stream, wire, inbox>>
enclave == <<proxied, relayed>>
app == <<working, appKey, appUp>>
vars == <<promised, hist, link, enclave, app>>

(* The service is about what its clients see of the host, and about the    *)
(* key file and the phase; sockets, queues and processes are the           *)
(* pipeline's own.                                                         *)
Service == INSTANCE SigningService WITH
  req <- req, reply <- reply, keyFile <- keyFile, phase <- phase,
  keysDuring <- keysDuring, phasesDuring <- phasesDuring

Pending(c) == req[c] # NoRequest /\ reply[c] = NoReply

NeedsEnclave(r) == r.kind \in {"parse", "health", "readiness", "enclave"}

-----------------------------------------------------------------------------
(* Messages: the `output` of a QosParserResponse is a signed rendering,    *)
(* Healthy or a status; the enclave wraps it in a ProtocolMsg.             *)

Status(code) == [tag |-> "status", code |-> code]
Output == SignedRenderings \cup {Healthy}
            \cup {Status(x) : x \in {"InvalidArgument", "Internal"}}

ProxyResponse(out) == [msg |-> "proxyResponse", out |-> out]
StatusResponse(p) == [msg |-> "statusResponse", phase |-> p]
AppClientRecvTimeout == [msg |-> "appClientRecvTimeout"]
ProtocolError == [msg |-> "protocolError"]
ClientError == [msg |-> "clientError"]
Empty == [msg |-> "empty"]

ProtocolMsg == {ProxyResponse(o) : o \in Output}
                 \cup {StatusResponse(p) : p \in Phases}
                 \cup {AppClientRecvTimeout, ProtocolError}

-----------------------------------------------------------------------------
(* The app.                                                                *)

(* routes::parse: the early returns in the order of the code, then the     *)
(* signature over the digest of the rendering, with the key it was given.  *)
ParseRoute(r, key) ==
  CASE r.tx = EmptyTx -> Status("InvalidArgument")
    [] r.tx # EmptyTx /\ r.chain \notin ProtoChains -> Status("InvalidArgument")
    [] r.tx # EmptyTx /\ r.chain \in ProtoChains \ Registered ->
         Status("InvalidArgument")
    [] r.tx # EmptyTx /\ r.chain \in Registered ->
         LET x == Convert[<<r.chain, r.tx>>]
         IN  IF x = BadTx THEN Status("InvalidArgument")
             ELSE IF x = Unserializable THEN Status("Internal")
             ELSE Signed(x, key)

(* A mutant of Process: health is answered before the key is looked at.    *)
ProcessHealthFirst(r, key) ==
  IF r.kind # "parse" THEN Healthy
  ELSE IF key = NoKey THEN Status("Internal")
  ELSE ParseRoute(r, key)

(* Processor::process on a well-formed request: the host's handlers build  *)
(* no other kind.  The key is looked at before the request is.             *)
Process(r, key) ==
  IF key = NoKey THEN Status("Internal")
  ELSE IF r.kind = "parse" THEN ParseRoute(r, key)
  ELSE Healthy

PanicsOn(r, key) ==
  /\ key # NoKey
  /\ r.kind = "parse"
  /\ r.tx # EmptyTx
  /\ r.chain \in Registered
  /\ Convert[<<r.chain, r.tx>>] = Panics

-----------------------------------------------------------------------------
(* The host's handlers: what each returns for what SocketClient::call gave.*)

(* send_proxy_request: anything but a ProxyResponse is an error.           *)
IsOutput(m) == m.msg = "proxyResponse"

(* A mutant of ParseReply: the output's variant is not looked at.          *)
ParseReplyAnyOutput(m) == IF IsOutput(m) THEN Ok(m.out) ELSE Err("Internal")

ParseReply(m) ==
  CASE ~IsOutput(m) -> Err("Internal")
    [] IsOutput(m) /\ m.out.tag = "parse" -> Ok(m.out)
    [] IsOutput(m) /\ m.out.tag = "status" -> Err(m.out.code)
    [] IsOutput(m) /\ m.out.tag = "health" -> Err("Internal")

AppHealthReply(m) ==
  CASE ~IsOutput(m) -> Err("Internal")
    [] IsOutput(m) /\ m.out.tag = "health" -> Ok(m.out)
    [] IsOutput(m) /\ m.out.tag = "status" -> Err(m.out.code)
    [] IsOutput(m) /\ m.out.tag = "parse" -> Err("Internal")

(* A mutant of AppStatus: any answer of the app will do.                   *)
AppStatusReachable(m) == IF IsOutput(m) THEN Serving ELSE NotServing

AppStatus(m) ==
  LET a == AppHealthReply(m)
  IN  IF a.code = "OK" /\ a.body.health = 200 THEN Serving ELSE NotServing

EnclaveHealthReply(m) ==
  CASE m.msg # "statusResponse" -> Err("Internal")
    [] m.msg = "statusResponse" /\ m.phase = Provisioned -> Ok(InPhase(m.phase))
    [] m.msg = "statusResponse" /\ m.phase # Provisioned -> Err("Unavailable")

HandlerReply(r, m) ==
  CASE r.kind = "parse" -> ParseReply(m)
    [] r.kind = "health" -> AppHealthReply(m)
    [] r.kind = "readiness" -> Ok(AppStatus(m))
    [] r.kind = "enclave" -> EnclaveHealthReply(m)

Method(r) == IF r.kind = "parse" THEN "parse" ELSE "health"

(* A mutant of Succeeded: an answer of the app counts as a success.        *)
SucceededIfAnswered(r, m) == IsOutput(m)

Succeeded(r, m) ==
  IF r.kind = "parse" THEN ParseReply(m).code = "OK"
                      ELSE AppHealthReply(m).code = "OK"

(* Only an answer with an output reaches track_enclave_request: the `?`    *)
(* before it returns early on any other.                                   *)
Track(r, m) ==
  hist' = IF r.kind # "enclave" /\ IsOutput(m)
          THEN [hist EXCEPT ![Method(r)][IF Succeeded(r, m) THEN "success"
                                                           ELSE "failure"] = @ + 1]
          ELSE hist

-----------------------------------------------------------------------------
Init ==
  /\ req = [c \in Calls |-> NoRequest]
  /\ reply = [c \in Calls |-> NoReply]
  /\ keyFile \in Keys \cup {NoKey}
  /\ phase \in Phases
  /\ keysDuring = [c \in Calls |-> {}]
  /\ phasesDuring = [c \in Calls |-> {}]
  /\ hist = [m \in {"parse", "health"} |->
               [r \in {"success", "failure"} |-> 0]]
  /\ stream = Nobody
  /\ wire = Empty
  /\ inbox = <<>>
  /\ proxied = Nobody
  /\ relayed = FALSE
  /\ working = Nobody
  /\ appKey = NoKey
  /\ appUp = TRUE

(* A client makes a call: tonic starts a task for its handler.             *)
Arrive(c) ==
  /\ req[c] = NoRequest
  /\ \E r \in Requests : req' = [req EXCEPT ![c] = r]
  /\ keysDuring' = [keysDuring EXCEPT ![c] = {keyFile}]
  /\ phasesDuring' = [phasesDuring EXCEPT ![c] = {phase}]
  /\ UNCHANGED <<reply, keyFile, phase, hist, link, enclave, app>>

Return(c, a) ==
  /\ reply' = [reply EXCEPT ![c] = a]
  /\ keysDuring' = [keysDuring EXCEPT ![c] = {}]
  /\ phasesDuring' = [phasesDuring EXCEPT ![c] = {}]
  /\ UNCHANGED <<req, keyFile, phase>>

(* k8_request answers these without asking anybody.                        *)
AnswerLocally(c) ==
  /\ Pending(c)
  /\ ~NeedsEnclave(req[c])
  /\ Return(c, Ok(IF req[c].kind = "liveness" THEN Serving ELSE ServiceUnknown))
  /\ UNCHANGED <<hist, link, enclave, app>>

(* SocketClient::call gets hold of the stream and writes the request.      *)
Send(c) ==
  /\ Pending(c)
  /\ NeedsEnclave(req[c])
  /\ stream = Nobody
  /\ stream' = c
  /\ inbox' = Append(inbox, c)
  /\ UNCHANGED <<promised, hist, wire, enclave, app>>

(* The call returned m: the rest of the handler.                           *)
Conclude(c, m) ==
  /\ Return(c, HandlerReply(req[c], m))
  /\ Track(req[c], m)

Receive(c) ==
  /\ stream = c
  /\ wire # Empty
  /\ Conclude(c, wire)
  /\ stream' = Nobody
  /\ wire' = Empty
  /\ UNCHANGED <<inbox, enclave, app>>

(* The call fails or times out, before it has the stream or while it waits *)
(* for the answer.  A stream given up that way is reset: what is still to  *)
(* arrive on it is lost.                                                   *)
FailWaiting(c) ==
  /\ Pending(c)
  /\ NeedsEnclave(req[c])
  /\ stream # c
  /\ Conclude(c, ClientError)
  /\ UNCHANGED <<link, enclave, app>>

(* Two mutants of TimeOut: what is on the stream stays there; the stream   *)
(* is never given back.                                                    *)
TimeOutKeepsAnswer(c) ==
  /\ stream = c
  /\ Conclude(c, ClientError)
  /\ stream' = Nobody
  /\ UNCHANGED <<wire, inbox, enclave, app>>

TimeOutKeepsStream(c) ==
  /\ stream = c
  /\ Pending(c)
  /\ Conclude(c, ClientError)
  /\ wire' = Empty
  /\ UNCHANGED <<stream, inbox, enclave, app>>

TimeOut(c) ==
  /\ stream = c
  /\ Conclude(c, ClientError)
  /\ stream' = Nobody
  /\ wire' = Empty
  /\ UNCHANGED <<inbox, enclave, app>>

(* A mutant of Cancel: dropping the call's future gives the stream to the  *)
(* next call as it is.                                                     *)
CancelKeepsAnswer(c) ==
  /\ Pending(c)
  /\ Return(c, Cancelled)
  /\ stream' = IF stream = c THEN Nobody ELSE stream
  /\ UNCHANGED <<hist, wire, inbox, enclave, app>>

(* The client goes away and tonic drops the handler where it awaits: it    *)
(* returns nothing and tracks nothing.  A stream it held is reset, as one  *)
(* given up by a time-out is; what the enclave and the app do for the call *)
(* goes on.                                                                *)
Cancel(c) ==
  /\ Pending(c)
  /\ Return(c, Cancelled)
  /\ IF stream = c THEN stream' = Nobody /\ wire' = Empty
                   ELSE UNCHANGED <<stream, wire>>
  /\ UNCHANGED <<hist, inbox, enclave, app>>

-----------------------------------------------------------------------------
(* The enclave: an answer reaches the handler only if its call still holds *)
(* the stream.                                                             *)

EnclaveAnswer(c, m) ==
  /\ wire' = IF stream = c THEN m ELSE wire
  /\ UNCHANGED stream

EnclaveRead ==
  /\ proxied = Nobody
  /\ inbox # <<>>
  /\ inbox' = Tail(inbox)
  /\ LET c == Head(inbox)
     IN  \/ /\ req[c].kind = "enclave"
            /\ EnclaveAnswer(c, StatusResponse(phase))
            /\ UNCHANGED enclave
         \/ /\ req[c].kind # "enclave"
            /\ phase # Provisioned
            /\ EnclaveAnswer(c, ProtocolError)
            /\ UNCHANGED enclave
         \/ /\ req[c].kind # "enclave"
            /\ phase = Provisioned
            /\ proxied' = c
            /\ relayed' = FALSE
            /\ UNCHANGED <<stream, wire>>
  /\ UNCHANGED <<promised, hist, app>>

(* The app did not answer in time.                                         *)
EnclaveGivesUp ==
  /\ proxied # Nobody
  /\ EnclaveAnswer(proxied, AppClientRecvTimeout)
  /\ proxied' = Nobody
  /\ UNCHANGED <<promised, hist, inbox, relayed, app>>

(* A request is lost in the enclave: it failed over it, or the connection  *)
(* it came on was gone.                                                    *)
EnclaveLoses ==
  /\ \/ /\ inbox # <<>>
        /\ inbox' = Tail(inbox)
        /\ UNCHANGED proxied
     \/ /\ proxied # Nobody
        /\ proxied' = Nobody
        /\ UNCHANGED inbox
  /\ UNCHANGED <<promised, hist, stream, wire, relayed, app>>

-----------------------------------------------------------------------------
(* The app reads a request and, before anything else, the key.             *)
AppBegin ==
  /\ appUp
  /\ working = Nobody
  /\ proxied # Nobody
  /\ ~relayed
  /\ relayed' = TRUE
  /\ working' = proxied
  /\ appKey' = keyFile
  /\ UNCHANGED <<promised, hist, link, proxied, appUp>>

(* process returns; nobody listens if the enclave has given up.            *)
AppFinish ==
  /\ working # Nobody
  /\ ~PanicsOn(req[working], appKey)
  /\ IF proxied = working
     THEN /\ EnclaveAnswer(working, ProxyResponse(Process(req[working], appKey)))
          /\ proxied' = Nobody
     ELSE UNCHANGED <<stream, wire, proxied>>
  /\ working' = Nobody
  /\ appKey' = NoKey
  /\ UNCHANGED <<promised, hist, inbox, relayed, appUp>>

(* A converter panics: no answer, and the socket server may be gone with   *)
(* the task.                                                               *)
AppPanic ==
  /\ working # Nobody
  /\ PanicsOn(req[working], appKey)
  /\ working' = Nobody
  /\ appKey' = NoKey
  /\ appUp' \in BOOLEAN
  /\ UNCHANGED <<promised, hist, link, enclave>>

AppCrash ==
  /\ appUp
  /\ working' = Nobody
  /\ appKey' = NoKey
  /\ appUp' = FALSE
  /\ UNCHANGED <<promised, hist, link, enclave>>

AppRestart ==
  /\ ~appUp
  /\ appUp' = TRUE
  /\ UNCHANGED <<promised, hist, link, enclave, working, appKey>>

-----------------------------------------------------------------------------
(* The surroundings: the ephemeral key file and the phase of the enclave.  *)

KeyChange ==
  /\ keyFile' \in (Keys \cup {NoKey}) \ {keyFile}
  /\ keysDuring' = [c \in Calls |->
       IF Pending(c) THEN keysDuring[c] \cup {keyFile'} ELSE keysDuring[c]]
  /\ UNCHANGED <<req, reply, phase, phasesDuring, hist, link, enclave, app>>

PhaseChange ==
  /\ phase' \in Phases \ {phase}
  /\ phasesDuring' = [c \in Calls |->
       IF Pending(c) THEN phasesDuring[c] \cup {phase'} ELSE phasesDuring[c]]
  /\ UNCHANGED <<req, reply, keyFile, keysDuring, hist, link, enclave, app>>

Host(c) ==
  \/ Arrive(c)
  \/ AnswerLocally(c)
  \/ Send(c)
  \/ Receive(c)
  \/ FailWaiting(c)
  \/ TimeOut(c)
  \/ Cancel(c)

Enclave == EnclaveRead \/ EnclaveGivesUp \/ EnclaveLoses

App == AppBegin \/ AppFinish \/ AppPanic \/ AppCrash \/ AppRestart

Next ==
  \/ \E c \in Calls : Host(c)
  \/ Enclave
  \/ App
  \/ KeyChange
  \/ PhaseChange

Spec == Init /\ [][Next]_vars

(***************************************************************************)
(* The tokio runtime keeps running every handler task, the stream is       *)
(* handed to those that wait for it in turn, and enclave_client_timeout    *)
(* bounds the wait of the one that has it.  Nothing is assumed of the      *)
(* enclave or the app.                                                     *)
(***************************************************************************)
Fairness ==
  \A c \in Calls :
    /\ WF_vars(AnswerLocally(c))
    /\ SF_vars(Send(c))
    /\ WF_vars(TimeOut(c) \/ Receive(c))

FairSpec == Spec /\ Fairness

-----------------------------------------------------------------------------
(* Every variable keeps to the values the code gives it.                   *)
TypeOK ==
  /\ req \in [Calls -> Requests \cup {NoRequest}]
  /\ reply \in [Calls -> Reply \cup {NoReply}]
  /\ keyFile \in Keys \cup {NoKey}
  /\ phase \in Phases
  /\ keysDuring \in [Calls -> SUBSET (Keys \cup {NoKey})]
  /\ phasesDuring \in [Calls -> SUBSET Phases]
  /\ hist \in [{"parse", "health"} -> [{"success", "failure"} -> Nat]]
  /\ stream \in Calls \cup {Nobody}
  /\ wire \in ProtocolMsg \cup {Empty}
  /\ inbox \in Seq(Calls)
  /\ proxied \in Calls \cup {Nobody}
  /\ relayed \in BOOLEAN
  /\ working \in Calls \cup {Nobody}
  /\ appKey \in Keys \cup {NoKey}
  /\ appUp \in BOOLEAN

(* A successful Parse carries the rendering of the caller's own            *)
(* transaction, and a signature over that rendering that verifies under    *)
(* the key shipped with it.                                                *)
(* The stream has no request ids (host_primitives send_proxy_request), so  *)
(* this rests on who holds the stream when, also when a time-out or a      *)
(* client that disconnects makes a call give it up.                        *)
AnswersAreOwn ==
  \A c \in Calls :
    reply[c] # NoReply /\ req[c].kind = "parse" /\ reply[c].code = "OK" =>
      LET answer == reply[c].body
      IN  /\ Parsable(req[c])
          /\ answer.payload = Convert[<<req[c].chain, req[c].tx>>]
          /\ answer.sig = [key |-> answer.key, msg |-> answer.payload]

(* InvalidArgument blames the caller for a request that is its own and is  *)
(* wrong; trouble of the enclave, the app or another call is never         *)
(* reported that way (routes::parse against the host's Internal errors).   *)
BlameIsOwn ==
  \A c \in Calls :
    reply[c] # NoReply /\ reply[c].code = "InvalidArgument" =>
      req[c].kind = "parse" /\ Unparsable(req[c])

(* A reply goes by what was so while its own call was pending: a signature *)
(* is by a key the file held then, readiness is Serving and app_health 200 *)
(* only if there was a readable key then, enclave_health is OK only if the *)
(* enclave was provisioned then.  No probe is answered from a past state.  *)
RepliesAreFresh ==
  [][\A c \in Calls : reply'[c] # reply[c] =>
       LET a == reply'[c]
       IN  /\ a.code = "OK" /\ req[c].kind = "parse" =>
                a.body.key \in keysDuring[c] \ {NoKey}
           /\ \/ a = Ok(Healthy)
              \/ a = Ok(Serving) /\ req[c].kind = "readiness"
              => keysDuring[c] \cap Keys # {}
           /\ a = Ok(InPhase(Provisioned)) => Provisioned \in phasesDuring[c]]_vars

CallsWith(kinds, codes) ==
  {c \in Calls : /\ reply[c] # NoReply
                 /\ req[c].kind \in kinds
                 /\ reply[c].code \in codes}

(* The histogram of Host::parse counts each success once, each refusal by  *)
(* the app once and never more failures than calls that failed: calls the  *)
(* socket failed are in no bucket (the `?` returns before tracking).       *)
HistogramsCountAnswers ==
  /\ hist["parse"]["success"] = Cardinality(CallsWith({"parse"}, {"OK"}))
  /\ hist["parse"]["failure"] >=
       Cardinality(CallsWith({"parse"}, {"InvalidArgument"}))
  /\ hist["parse"]["failure"] <=
       Cardinality(CallsWith({"parse"}, {"InvalidArgument", "Internal"}))
  /\ hist["health"]["success"] =
       Cardinality({c \in Calls : reply[c] = Ok(Healthy)})
         + Cardinality({c \in CallsWith({"readiness"}, {"OK"}) :
                          reply[c] = Ok(Serving)})

(* "SERVICE_UNKNOWN = 3; // Used only by the Watch method" (the proto of   *)
(* grpc.health.v1): a Check, the only call modelled here, does not answer  *)
(* with that status.  K8Health::check shares k8_request with watch.        *)
ServiceUnknownIsForWatch == \A c \in Calls : reply[c] # Ok(ServiceUnknown)

(* The pipeline implements the service clients are promised.               *)
ServesAsPromised == Service!Spec

(* Every accepted call is answered unless its client goes away, whatever   *)
(* the enclave, the app and the clients of other calls do:                 *)
(* enclave_client_timeout ends the wait of the call that has the stream.   *)
EveryCallAnswered == \A c \in Calls : Pending(c) ~> reply[c] # NoReply
=============================================================================
