------------------------ MODULE ParserPipelineProofs ------------------------
(***************************************************************************)
(* Proofs about ParserPipeline, for any number of calls, any transactions, *)
(* keys and phases: its type invariant, that replies are the caller's own, *)
(* and that the pipeline implements SigningService.                        *)
(***************************************************************************)
EXTENDS ParserPipeline, FiniteSetTheorems, TLAPS

Owed(c) == Service!Promised(req[c], keysDuring[c], phasesDuring[c])

(* Requests that may be under way in the enclave, and in the app.          *)
InEnclave(c) == req[c] \in Requests /\ NeedsEnclave(req[c])
InApp(c) == InEnclave(c) /\ req[c].kind # "enclave"

(* The stream is held by a pending call only.                              *)
StreamInv == stream # Nobody => Pending(stream) /\ NeedsEnclave(req[stream])

(* What lies on the wire is an answer the holder of the stream is owed.    *)
WireInv ==
  wire # Empty => stream # Nobody /\ HandlerReply(req[stream], wire) \in Owed(stream)

(* Only requests of these kinds travel.                                    *)
TravelInv ==
  /\ \A i \in 1..Len(inbox) : InEnclave(inbox[i])
  /\ proxied # Nobody => InApp(proxied)
  /\ working # Nobody => InApp(working)

(* A pending call has seen the present key and the present phase.          *)
SeenInv ==
  \A c \in Calls : Pending(c) => keyFile \in keysDuring[c] /\ phase \in phasesDuring[c]

(* The key the app works with was in the file while the call it works for  *)
(* was waiting, unless that call has been answered meanwhile.              *)
WorkInv ==
  working # Nobody /\ Pending(working) => appKey \in keysDuring[working]

(* Replies already given were owed, for some keys and phases; only a call  *)
(* whose client went away has none.                                        *)
RepliedInv ==
  \A c \in Calls : reply[c] # NoReply =>
    /\ req[c] \in Requests
    /\ \/ reply[c] = Cancelled
       \/ \E ks \in SUBSET (Keys \cup {NoKey}), ps \in SUBSET Phases :
            reply[c] \in Service!Promised(req[c], ks, ps)

IInv ==
  TypeOK /\ StreamInv /\ WireInv /\ TravelInv /\ SeenInv /\ WorkInv /\ RepliedInv

-----------------------------------------------------------------------------
(* The cases the kind of a request leaves.                                 *)
LEMMA RequestKinds ==
  ASSUME NEW r \in Requests
  PROVE  \/ r.kind = "parse" /\ r.chain \in Chains /\ r.tx \in Txs
         \/ r.kind \in {"health", "readiness", "liveness", "otherService", "enclave"}
BY ConstantAssumption DEF ParseRequest, Probe

(* A conversion of a registered chain has one of four outcomes.            *)
LEMMA Conversions ==
  ASSUME NEW r \in Requests, r.kind = "parse", r.chain \in Registered
  PROVE  Convert[<<r.chain, r.tx>>] \in
           Renderings \cup {BadTx, Unserializable, Panics}
BY ConstantAssumption, RequestKinds

(* The service and the pipeline mean the same by the operators they share. *)
LEMMA SameMessages ==
  /\ \A x : Service!Ok(x) = Ok(x) /\ Service!Err(x) = Err(x)
  /\ \A x, k : Service!Signed(x, k) = Signed(x, k)
  /\ \A x : Service!InPhase(x) = InPhase(x)
  /\ \A r : Service!Unparsable(r) = Unparsable(r) /\ Service!Parsable(r) = Parsable(r)
  /\ Service!Healthy = Healthy
  /\ Service!Serving = Serving
  /\ Service!NotServing = NotServing
  /\ Service!ServiceUnknown = ServiceUnknown
  /\ Service!Provisioned = Provisioned
  /\ Service!Cancelled = Cancelled
BY DEF Service!Ok, Ok, Service!Err, Err, Service!Signed, Signed, Service!InPhase,
   InPhase, Service!Unparsable, Unparsable, Service!Parsable, Parsable,
   Service!Healthy, Healthy, Service!Serving, Serving, Service!NotServing,
   NotServing, Service!ServiceUnknown, ServiceUnknown, Service!Provisioned,
   Provisioned, Service!Cancelled, Cancelled

(* More keys and phases seen never take a reply away from those promised.  *)
LEMMA PromiseGrows ==
  ASSUME NEW r \in Requests, NEW ks, NEW ps, NEW ks2, NEW ps2,
         ks \subseteq ks2, ps \subseteq ps2
  PROVE  Service!Promised(r, ks, ps) \subseteq Service!Promised(r, ks2, ps2)
BY RequestKinds, SameMessages DEF Service!Promised, Service!ParsePromise, Service!HealthPromise,
   Service!ReadinessPromise, Service!EnclavePromise

(* Whatever goes wrong on the way, the handler's error is promised.        *)
LEMMA FailureIsPromised ==
  ASSUME NEW r \in Requests, NeedsEnclave(r), NEW ks, NEW ps,
         NEW m \in {ClientError, AppClientRecvTimeout, ProtocolError}
  PROVE  HandlerReply(r, m) \in Service!Promised(r, ks, ps)
<1>1. m.msg # "proxyResponse" /\ m.msg # "statusResponse"
  BY DEF ClientError, AppClientRecvTimeout, ProtocolError
<1>2. CASE r.kind = "parse"
  BY <1>1, <1>2, SameMessages DEF HandlerReply, ParseReply, IsOutput, Service!Promised,
     Service!ParsePromise
<1>3. CASE r.kind = "health"
  BY <1>1, <1>3, SameMessages DEF HandlerReply, AppHealthReply, IsOutput, Service!Promised,
     Service!HealthPromise
<1>4. CASE r.kind = "readiness"
  <2>1. AppStatus(m) = NotServing
    BY <1>1 DEF AppStatus, AppHealthReply, IsOutput, Err
  <2> QED
    BY <1>4, <2>1, SameMessages DEF HandlerReply, Service!Promised, Service!ReadinessPromise
<1>5. CASE r.kind = "enclave"
  BY <1>1, <1>5, SameMessages DEF HandlerReply, EnclaveHealthReply, Service!Promised,
     Service!EnclavePromise
<1> QED
  BY <1>2, <1>3, <1>4, <1>5 DEF NeedsEnclave

(* enclave_health reports a phase that was seen.                           *)
LEMMA PhaseIsPromised ==
  ASSUME NEW r \in Requests, r.kind = "enclave", NEW ks, NEW ps, NEW p \in ps
  PROVE  HandlerReply(r, StatusResponse(p)) \in Service!Promised(r, ks, ps)
BY SameMessages DEF HandlerReply, EnclaveHealthReply, StatusResponse, Service!Promised,
   Service!EnclavePromise

(* What Processor::process returns with a key that was seen is promised.   *)
LEMMA ProcessIsPromised ==
  ASSUME NEW r \in Requests, r.kind \in {"parse", "health", "readiness"},
         NEW ks, NEW ps, NEW k \in ks, k \in Keys \cup {NoKey}, ~PanicsOn(r, k)
  PROVE  HandlerReply(r, ProxyResponse(Process(r, k))) \in Service!Promised(r, ks, ps)
<1> DEFINE m == ProxyResponse(Process(r, k))
<1>0. IsOutput(m) /\ m.out = Process(r, k)
  BY DEF IsOutput, ProxyResponse
<1>1. CASE k = NoKey
  <2>1. m.out.tag = "status" /\ m.out.code = "Internal"
    BY <1>0, <1>1 DEF Process, Status
  <2>2. AppStatus(m) = NotServing
    BY <1>0, <2>1 DEF AppStatus, AppHealthReply, Err
  <2> QED
    BY <1>0, <2>1, <2>2, SameMessages DEF HandlerReply, ParseReply, AppHealthReply, Service!Promised,
       Service!ParsePromise, Service!HealthPromise, Service!ReadinessPromise
<1>2. CASE k # NoKey /\ r.kind # "parse"
  <2>1. m.out = Healthy
    BY <1>0, <1>2 DEF Process
  <2>2. AppHealthReply(m) = Ok(Healthy)
    BY <1>0, <2>1 DEF AppHealthReply, Healthy
  <2>3. AppStatus(m) = Serving
    BY <2>2 DEF AppStatus, Ok, Healthy
  <2> QED
    BY <1>2, <2>2, <2>3, SameMessages DEF HandlerReply, Service!Promised, Service!HealthPromise,
       Service!ReadinessPromise
<1>3. CASE k # NoKey /\ r.kind = "parse"
  <2>0. m.out = ParseRoute(r, k)
    BY <1>0, <1>3 DEF Process
  <2>3. ASSUME m.out = Status("InvalidArgument"), Unparsable(r)
        PROVE  HandlerReply(r, m) \in Service!Promised(r, ks, ps)
    <3>1. ParseReply(m) = Err("InvalidArgument")
      BY <1>0, <2>3 DEF ParseReply, Status
    <3> QED
      BY <1>3, <2>3, <3>1, SameMessages DEF HandlerReply, Service!Promised,
         Service!ParsePromise
  <2>1. CASE r.tx = EmptyTx \/ r.chain \notin Registered
    <3>1. m.out = Status("InvalidArgument")
      BY <2>0, <2>1, ConstantAssumption, RequestKinds, <1>3 DEF ParseRoute
    <3>2. Unparsable(r)
      BY <2>1 DEF Unparsable
    <3> QED
      BY <3>1, <3>2, <2>3
  <2>2. CASE r.tx # EmptyTx /\ r.chain \in Registered
    <3> DEFINE x == Convert[<<r.chain, r.tx>>]
    <3>1. x \in Renderings \cup {BadTx, Unserializable} /\ r.chain \in ProtoChains
      BY <1>3, <2>2, Conversions, ConstantAssumption DEF PanicsOn
    <3>2. m.out = IF x = BadTx THEN Status("InvalidArgument")
                  ELSE IF x = Unserializable THEN Status("Internal")
                  ELSE Signed(x, k)
      BY <2>0, <2>2, <3>1 DEF ParseRoute
    <3>3. CASE x = BadTx
      BY <3>2, <3>3, <2>3 DEF Unparsable
    <3>4. CASE x # BadTx /\ x = Unserializable
      BY <1>0, <1>3, <3>2, <3>4, SameMessages DEF HandlerReply, ParseReply, Status,
         Service!Promised, Service!ParsePromise
    <3>5. CASE x \in Renderings
      <4>1. m.out = Signed(x, k)
        BY <3>2, <3>5, ConstantAssumption
      <4>2. HandlerReply(r, m) = Ok(Signed(x, k))
        BY <1>0, <1>3, <4>1 DEF HandlerReply, ParseReply, Signed
      <4>3. Parsable(r)
        BY <2>2, <3>5 DEF Parsable
      <4> QED
        BY <1>3, <4>2, <4>3, SameMessages DEF Service!Promised, Service!ParsePromise
    <3> QED
      BY <3>1, <3>3, <3>4, <3>5
  <2> QED
    BY <2>1, <2>2
<1> QED
  BY <1>1, <1>2, <1>3

(* A handler returns a reply, whatever the call gave it.                   *)
LEMMA HandlerReplyType ==
  ASSUME NEW r \in Requests, NeedsEnclave(r), NEW m \in ProtocolMsg \cup {ClientError}
  PROVE  HandlerReply(r, m) \in Reply
<1>1. CASE m.msg = "proxyResponse"
  <2>1. PICK o \in Output : m = ProxyResponse(o)
    BY <1>1 DEF ProtocolMsg, ClientError, StatusResponse, AppClientRecvTimeout,
       ProtocolError, ProxyResponse
  <2>2. IsOutput(m) /\ m.out = o
    BY <2>1 DEF IsOutput, ProxyResponse
  <2>3. \/ o \in SignedRenderings /\ o.tag = "parse"
        \/ o = Healthy /\ o.tag = "health"
        \/ o.tag = "status" /\ o.code \in {"InvalidArgument", "Internal"}
    BY DEF Output, SignedRenderings, Signed, Healthy, Status
  <2>4. ParseReply(m) \in Reply
    BY <2>2, <2>3 DEF ParseReply, Reply, Body, Ok, Err
  <2>5. AppHealthReply(m) \in Reply
    BY <2>2, <2>3 DEF AppHealthReply, Reply, Body, Ok, Err
  <2>6. Ok(AppStatus(m)) \in Reply
    BY DEF AppStatus, Reply, Body, Ok
  <2>7. m.msg # "statusResponse"
    BY <1>1
  <2>8. Err("Internal") \in Reply
    BY DEF Reply, Body, Err
  <2> QED
    BY <2>4, <2>5, <2>6, <2>7, <2>8 DEF HandlerReply, EnclaveHealthReply, NeedsEnclave
<1>2. CASE m.msg # "proxyResponse"
  <2>1. Err("Internal") \in Reply /\ Err("Unavailable") \in Reply
    BY DEF Reply, Body, Err
  <2>2. ParseReply(m) \in Reply /\ AppHealthReply(m) \in Reply
    BY <1>2, <2>1 DEF ParseReply, AppHealthReply, IsOutput
  <2>3. Ok(AppStatus(m)) \in Reply
    BY DEF AppStatus, Reply, Body, Ok
  <2>4. m.msg = "statusResponse" => Ok(InPhase(m.phase)) \in Reply
    <3>1. SUFFICES ASSUME m.msg = "statusResponse" PROVE m.phase \in Phases
      BY DEF Reply, Body, Ok
    <3> QED
      BY <1>2, <3>1 DEF ProtocolMsg, ClientError, StatusResponse, AppClientRecvTimeout,
         ProtocolError, ProxyResponse
  <2> QED
    BY <2>1, <2>2, <2>3, <2>4 DEF HandlerReply, EnclaveHealthReply, NeedsEnclave
<1> QED
  BY <1>1, <1>2

(* What the app writes, when it does not panic, is an output.              *)
LEMMA ProcessType ==
  ASSUME NEW r \in Requests, NEW k \in Keys \cup {NoKey}, ~PanicsOn(r, k)
  PROVE  Process(r, k) \in Output
<1>1. Healthy \in Output /\ Status("Internal") \in Output
        /\ Status("InvalidArgument") \in Output
  BY DEF Output
<1>2. CASE k # NoKey /\ r.kind = "parse"
  <2>1. CASE r.tx = EmptyTx \/ r.chain \notin Registered
    BY <1>1, <1>2, <2>1, ConstantAssumption, RequestKinds DEF Process, ParseRoute
  <2>2. CASE r.tx # EmptyTx /\ r.chain \in Registered
    <3> DEFINE x == Convert[<<r.chain, r.tx>>]
    <3>1. x \in Renderings \cup {BadTx, Unserializable} /\ r.chain \in ProtoChains
      BY <1>2, <2>2, Conversions, ConstantAssumption DEF PanicsOn
    <3>2. x \in Renderings => Signed(x, k) \in Output
      BY <1>2 DEF Output, SignedRenderings
    <3>3. Process(r, k) = IF x = BadTx THEN Status("InvalidArgument")
                          ELSE IF x = Unserializable THEN Status("Internal")
                          ELSE Signed(x, k)
      BY <1>2, <2>2, <3>1 DEF Process, ParseRoute
    <3> QED
      BY <1>1, <3>1, <3>2, <3>3
  <2> QED
    BY <2>1, <2>2
<1> QED
  BY <1>1, <1>2 DEF Process

-----------------------------------------------------------------------------
(* The variables of the promise keep their types.                          *)
PromisedType ==
  /\ req \in [Calls -> Requests \cup {NoRequest}]
  /\ reply \in [Calls -> Reply \cup {NoReply}]
  /\ keyFile \in Keys \cup {NoKey}
  /\ phase \in Phases
  /\ keysDuring \in [Calls -> SUBSET (Keys \cup {NoKey})]
  /\ phasesDuring \in [Calls -> SUBSET Phases]

(* A pending call has a request, one of those that may be made.            *)
LEMMA PendingRequest ==
  ASSUME TypeOK, NEW c \in Calls, Pending(c)
  PROVE  req[c] \in Requests
BY DEF TypeOK, Pending

(* The handler of c returns a reply that c is owed or is dropped, and no   *)
(* other call is touched.                                                  *)
LEMMA ReturnOwed ==
  ASSUME IInv, NEW c \in Calls, Pending(c), NEW a \in Reply,
         a \in Owed(c) \/ a = Cancelled, Return(c, a)
  PROVE  /\ PromisedType' /\ SeenInv' /\ RepliedInv'
         /\ req' = req
         /\ ~Pending(c)'
         /\ \A d \in Calls \ {c} :
              /\ Pending(d)' = Pending(d)
              /\ keysDuring'[d] = keysDuring[d]
              /\ Owed(d)' = Owed(d)
<1> USE DEF IInv, TypeOK, Return
<1>1. PromisedType'
  BY DEF PromisedType
<1>2. reply'[c] = a /\ a # NoReply /\ req' = req
  BY ReplyAssumption
<1>3. \A d \in Calls \ {c} : /\ reply'[d] = reply[d]
                            /\ keysDuring'[d] = keysDuring[d]
                            /\ phasesDuring'[d] = phasesDuring[d]
  OBVIOUS
<1>4. ~Pending(c)' /\ \A d \in Calls \ {c} : Pending(d)' = Pending(d)
  BY <1>2, <1>3 DEF Pending
<1>5. \A d \in Calls \ {c} : Owed(d)' = Owed(d)
  BY <1>2, <1>3 DEF Owed
<1>6. SeenInv'
  BY <1>3, <1>4 DEF SeenInv
<1>7. RepliedInv'
  <2> SUFFICES ASSUME NEW d \in Calls, reply'[d] # NoReply
               PROVE  /\ req[d] \in Requests
                      /\ \/ reply'[d] = Cancelled
                         \/ \E ks \in SUBSET (Keys \cup {NoKey}), ps \in SUBSET Phases :
                              reply'[d] \in Service!Promised(req[d], ks, ps)
    BY <1>2 DEF RepliedInv
  <2>1. CASE d = c
    BY <1>2, <2>1, PendingRequest DEF Owed
  <2>2. CASE d # c
    BY <1>3, <2>2 DEF RepliedInv
  <2> QED
    BY <2>1, <2>2
<1> QED
  BY <1>1, <1>2, <1>3, <1>4, <1>5, <1>6, <1>7
HistType == hist \in [{"parse", "health"} -> [{"success", "failure"} -> Nat]]

(* The rest of a handler, given a message it makes an owed reply of, keeps *)
(* the replies, the history and the histograms in order.                   *)
LEMMA ConcludeOwed ==
  ASSUME IInv, NEW c \in Calls, Pending(c), NeedsEnclave(req[c]),
         NEW m \in ProtocolMsg \cup {ClientError},
         HandlerReply(req[c], m) \in Owed(c), Conclude(c, m)
  PROVE  /\ PromisedType' /\ SeenInv' /\ RepliedInv' /\ HistType'
         /\ req' = req
         /\ ~Pending(c)'
         /\ \A d \in Calls \ {c} :
              /\ Pending(d)' = Pending(d)
              /\ keysDuring'[d] = keysDuring[d]
              /\ Owed(d)' = Owed(d)
<1>1. HandlerReply(req[c], m) \in Reply
  BY HandlerReplyType, PendingRequest DEF IInv
<1>2. HistType'
  <2> DEFINE k == Method(req[c])
             o == IF Succeeded(req[c], m) THEN "success" ELSE "failure"
  <2>1. k \in {"parse", "health"} /\ o \in {"success", "failure"}
    BY DEF Method
  <2>2. HistType
    BY DEF IInv, TypeOK, HistType
  <2>3. hist' = hist \/ hist' = [hist EXCEPT ![k][o] = @ + 1]
    BY DEF Conclude, Track
  <2> HIDE DEF k, o
  <2> QED
    BY <2>1, <2>2, <2>3 DEF HistType
<1> DEFINE a == HandlerReply(req[c], m)
<1>3. a \in Reply /\ a \in Owed(c) /\ Return(c, a)
  BY <1>1 DEF Conclude
<1> HIDE DEF a
<1> QED
  BY <1>2, <1>3, ReturnOwed

(* The initial states satisfy the invariant: no call has been made.        *)
LEMMA InitIInv == Init => IInv
<1> SUFFICES ASSUME Init PROVE IInv
  OBVIOUS
<1>1. TypeOK
  <2>1. HistType
    <3>1. [r \in {"success", "failure"} |-> 0] \in [{"success", "failure"} -> Nat]
      OBVIOUS
    <3> QED
      BY <3>1 DEF Init, HistType
  <2>2. PromisedType
    BY DEF Init, PromisedType
  <2>3. relayed \in BOOLEAN /\ appUp \in BOOLEAN
    BY DEF Init
  <2>4. inbox \in Seq(Calls)
    BY DEF Init
  <2>5. /\ stream \in Calls \cup {Nobody} /\ wire \in ProtocolMsg \cup {Empty}
        /\ proxied \in Calls \cup {Nobody} /\ working \in Calls \cup {Nobody}
        /\ appKey \in Keys \cup {NoKey}
    BY DEF Init
  <2> QED
    BY <2>1, <2>2, <2>3, <2>4, <2>5 DEF TypeOK, HistType, PromisedType
<1>2. StreamInv /\ WireInv /\ TravelInv /\ WorkInv
  BY DEF Init, StreamInv, WireInv, TravelInv, WorkInv
<1>3. SeenInv /\ RepliedInv
  BY DEF Init, SeenInv, RepliedInv, Pending
<1> QED
  BY <1>1, <1>2, <1>3 DEF IInv

(* The handlers of the host keep the invariant.                            *)
LEMMA ArriveIInv ==
  ASSUME IInv, NEW c \in Calls, Arrive(c)
  PROVE  IInv'
<1> USE DEF IInv, Arrive
<1>1. TypeOK'
  BY DEF TypeOK, link, enclave, app
<1>2. /\ reply[c] = NoReply /\ reply' = reply
      /\ req'[c] \in Requests
      /\ \A d \in Calls \ {c} : /\ req'[d] = req[d]
                              /\ keysDuring'[d] = keysDuring[d]
                              /\ phasesDuring'[d] = phasesDuring[d]
  BY ConstantAssumption DEF TypeOK, RepliedInv
<1>3. /\ ~Pending(c)
      /\ \A d \in Calls \ {c} : Pending(d)' = Pending(d) /\ Owed(d)' = Owed(d)
  BY <1>2 DEF Pending, Owed
<1>4. stream # c /\ stream' = stream /\ wire' = wire
  BY <1>3, NobodyAssumption DEF StreamInv, link
<1>5. StreamInv'
  BY <1>2, <1>3, <1>4 DEF StreamInv, TypeOK
<1>6. WireInv'
  BY <1>2, <1>3, <1>4 DEF WireInv, TypeOK
<1>7. \A d \in Calls : InEnclave(d) => InEnclave(d)' /\ req'[d] = req[d]
  BY <1>2, ConstantAssumption DEF InEnclave
<1>8. TravelInv'
  BY <1>7 DEF TravelInv, InApp, TypeOK, link, enclave, app
<1>9. SeenInv'
  BY <1>2, <1>3 DEF SeenInv, TypeOK
<1>10. WorkInv'
  <2>1. working' = working /\ appKey' = appKey
    BY DEF app
  <2>2. working # Nobody => working # c
    BY <1>2, ConstantAssumption DEF TravelInv, InApp, InEnclave
  <2> QED
    BY <1>2, <1>3, <2>1, <2>2 DEF WorkInv, TypeOK
<1>11. RepliedInv'
  BY <1>2 DEF RepliedInv
<1> QED
  BY <1>1, <1>5, <1>6, <1>8, <1>9, <1>10, <1>11

(* k8_request answering of itself keeps the invariant.                     *)
LEMMA AnswerLocallyIInv ==
  ASSUME IInv, NEW c \in Calls, AnswerLocally(c)
  PROVE  IInv'
<1> USE DEF IInv, AnswerLocally
<1> DEFINE a == Ok(IF req[c].kind = "liveness" THEN Serving ELSE ServiceUnknown)
<1>1. a \in Reply
  BY DEF Reply, Body, Ok
<1>2. a \in Owed(c)
  <2>1. req[c].kind \in {"liveness", "otherService"}
    BY PendingRequest, RequestKinds DEF NeedsEnclave
  <2> QED
    BY <2>1, SameMessages DEF Owed, Service!Promised
<1>3. Return(c, a)
  OBVIOUS
<1> HIDE DEF a
<1>4. /\ PromisedType' /\ SeenInv' /\ RepliedInv' /\ req' = req
      /\ \A d \in Calls \ {c} : /\ Pending(d)' = Pending(d)
                              /\ keysDuring'[d] = keysDuring[d]
                              /\ Owed(d)' = Owed(d)
      /\ ~Pending(c)'
  BY <1>1, <1>2, <1>3, ReturnOwed
<1>5. TypeOK'
  BY <1>4 DEF TypeOK, PromisedType, link, enclave, app
<1>6. stream # c /\ stream' = stream /\ wire' = wire
  BY NobodyAssumption DEF StreamInv, link
<1>7. StreamInv' /\ WireInv'
  BY <1>4, <1>6 DEF StreamInv, WireInv, TypeOK
<1>8. TravelInv'
  BY <1>4 DEF TravelInv, InApp, InEnclave, link, enclave, app
<1>9. WorkInv'
  BY <1>4 DEF WorkInv, TypeOK, app
<1> QED
  BY <1>4, <1>5, <1>7, <1>8, <1>9

(* SocketClient::call taking the stream keeps the invariant.               *)
LEMMA SendIInv ==
  ASSUME IInv, NEW c \in Calls, Send(c)
  PROVE  IInv'
<1> USE DEF IInv, Send
<1>1. TypeOK'
  BY DEF TypeOK, promised, enclave, app
<1>2. /\ \A d \in Calls : Pending(d)' = Pending(d) /\ Owed(d)' = Owed(d)
      /\ req' = req
  BY DEF promised, Pending, Owed
<1>3. wire' = Empty
  BY DEF WireInv
<1>4. StreamInv' /\ WireInv'
  BY <1>2, <1>3 DEF StreamInv, WireInv
<1>5. TravelInv'
  <2>1. InEnclave(c)
    BY PendingRequest DEF InEnclave
  <2>2. \A i \in 1..Len(inbox') : InEnclave(inbox'[i])
    BY <2>1 DEF TravelInv, TypeOK
  <2> QED
    BY <1>2, <2>2 DEF TravelInv, InApp, InEnclave, enclave, app
<1>6. SeenInv' /\ WorkInv' /\ RepliedInv'
  BY DEF promised, app, SeenInv, WorkInv, RepliedInv, Pending
<1> QED
  BY <1>1, <1>4, <1>5, <1>6

(* What a handler that holds the stream, or waits for it, concludes.       *)
LEMMA ConcludeIInv ==
  ASSUME IInv, NEW c \in Calls, Pending(c), NeedsEnclave(req[c]),
         NEW m \in ProtocolMsg \cup {ClientError},
         HandlerReply(req[c], m) \in Owed(c), Conclude(c, m),
         \/ stream = c /\ stream' = Nobody /\ wire' = Empty
         \/ stream # c /\ stream' = stream /\ wire' = wire,
         UNCHANGED <<inbox, enclave, app>>
  PROVE  IInv'
<1> USE DEF IInv
<1>1. /\ PromisedType' /\ SeenInv' /\ RepliedInv' /\ HistType'
      /\ req' = req
      /\ ~Pending(c)'
      /\ \A d \in Calls \ {c} : /\ Pending(d)' = Pending(d)
                              /\ keysDuring'[d] = keysDuring[d]
                              /\ Owed(d)' = Owed(d)
  BY ConcludeOwed
<1>2. TypeOK'
  BY <1>1 DEF TypeOK, PromisedType, HistType, enclave, app
<1>3. StreamInv' /\ WireInv'
  BY <1>1 DEF StreamInv, WireInv, TypeOK
<1>4. TravelInv'
  BY <1>1 DEF TravelInv, InApp, InEnclave, enclave, app
<1>5. WorkInv'
  BY <1>1 DEF WorkInv, TypeOK, app
<1> QED
  BY <1>1, <1>2, <1>3, <1>4, <1>5

(* A handler that gets its answer, or gives up, keeps the invariant.       *)
LEMMA HandlerIInv ==
  ASSUME IInv, NEW c \in Calls, Receive(c) \/ FailWaiting(c) \/ TimeOut(c)
  PROVE  IInv'
<1> USE DEF IInv
<1>1. CASE Receive(c)
  <2>1. Pending(c) /\ NeedsEnclave(req[c]) /\ HandlerReply(req[c], wire) \in Owed(c)
    BY <1>1, NobodyAssumption DEF Receive, StreamInv, WireInv
  <2>2. wire \in ProtocolMsg
    BY <1>1 DEF Receive, TypeOK
  <2> QED
    BY <1>1, <2>1, <2>2, ConcludeIInv DEF Receive
<1>2. CASE FailWaiting(c)
  <2>1. HandlerReply(req[c], ClientError) \in Owed(c)
    BY <1>2, PendingRequest, FailureIsPromised DEF FailWaiting, Owed
  <2> QED
    BY <1>2, <2>1, ConcludeIInv DEF FailWaiting, link
<1>3. CASE TimeOut(c)
  <2>1. Pending(c) /\ NeedsEnclave(req[c])
    BY <1>3, NobodyAssumption DEF TimeOut, StreamInv
  <2>2. HandlerReply(req[c], ClientError) \in Owed(c)
    BY <2>1, PendingRequest, FailureIsPromised DEF Owed
  <2> QED
    BY <1>3, <2>1, <2>2, ConcludeIInv DEF TimeOut
<1> QED
  BY <1>1, <1>2, <1>3

(* A handler dropped where it awaits keeps the invariant: the stream it    *)
(* may have held is reset.                                                 *)
LEMMA CancelIInv ==
  ASSUME IInv, NEW c \in Calls, Cancel(c)
  PROVE  IInv'
<1> USE DEF IInv
<1>1. Pending(c) /\ Return(c, Cancelled) /\ UNCHANGED <<hist, inbox, enclave, app>>
  BY DEF Cancel
<1>2. Cancelled \in Reply
  BY DEF Cancelled, Err, Reply, Body
<1>3. /\ PromisedType' /\ SeenInv' /\ RepliedInv'
      /\ req' = req
      /\ ~Pending(c)'
      /\ \A d \in Calls \ {c} : /\ Pending(d)' = Pending(d)
                              /\ keysDuring'[d] = keysDuring[d]
                              /\ Owed(d)' = Owed(d)
  BY <1>1, <1>2, ReturnOwed
<1>4. \/ stream = c /\ stream' = Nobody /\ wire' = Empty
      \/ stream # c /\ stream' = stream /\ wire' = wire
  BY DEF Cancel
<1>5. TypeOK'
  BY <1>1, <1>3, <1>4 DEF TypeOK, PromisedType, enclave, app
<1>6. StreamInv' /\ WireInv'
  BY <1>3, <1>4 DEF StreamInv, WireInv, TypeOK
<1>7. TravelInv'
  BY <1>1, <1>3 DEF TravelInv, InApp, InEnclave, enclave, app
<1>8. WorkInv'
  BY <1>1, <1>3 DEF WorkInv, TypeOK, app
<1> QED
  BY <1>3, <1>5, <1>6, <1>7, <1>8

-----------------------------------------------------------------------------
(* The enclave and the app leave the promise alone; what they put on the   *)
(* wire is owed to the holder of the stream.                               *)
LEMMA AnswerIInv ==
  ASSUME IInv, UNCHANGED promised, UNCHANGED hist, NEW c \in Calls,
         NEW m \in ProtocolMsg,
         stream = c => HandlerReply(req[c], m) \in Owed(c),
         EnclaveAnswer(c, m)
  PROVE  StreamInv' /\ WireInv' /\ SeenInv' /\ RepliedInv'
           /\ stream' = stream /\ wire' \in ProtocolMsg \cup {Empty}
<1> USE DEF IInv, promised
<1>1. stream' = stream /\ wire' \in ProtocolMsg \cup {Empty}
  BY DEF EnclaveAnswer, TypeOK
<1>2. SeenInv' /\ RepliedInv' /\ StreamInv'
  BY <1>1 DEF SeenInv, RepliedInv, StreamInv, Pending
<1>3. WireInv'
  BY <1>1, NobodyAssumption DEF EnclaveAnswer, WireInv, Owed
<1> QED
  BY <1>1, <1>2, <1>3

(* The enclave reading a request keeps the invariant: what it says of its  *)
(* phase is true while the call is pending.                                *)
LEMMA EnclaveReadIInv ==
  ASSUME IInv, EnclaveRead
  PROVE  IInv'
<1> USE DEF IInv
<1> DEFINE c == Head(inbox)
<1>1. /\ c \in Calls /\ InEnclave(c)
      /\ inbox' \in Seq(Calls)
      /\ \A i \in 1..Len(inbox') : InEnclave(inbox'[i])
  <2>1. inbox \in Seq(Calls) /\ inbox # <<>> /\ inbox' = Tail(inbox)
    BY DEF EnclaveRead, TypeOK
  <2>2. c = inbox[1] /\ 1 \in 1..Len(inbox)
    BY <2>1
  <2>3. \A i \in 1..Len(inbox') : i + 1 \in 1..Len(inbox) /\ inbox'[i] = inbox[i + 1]
    BY <2>1
  <2> QED
    BY <2>1, <2>2, <2>3 DEF TravelInv
<1>2. UNCHANGED promised /\ UNCHANGED hist /\ UNCHANGED app
  BY DEF EnclaveRead
<1>3. ASSUME NEW m \in ProtocolMsg, EnclaveAnswer(c, m), UNCHANGED enclave,
             stream = c => HandlerReply(req[c], m) \in Owed(c)
      PROVE  IInv'
  <2>1. StreamInv' /\ WireInv' /\ SeenInv' /\ RepliedInv'
          /\ stream' = stream /\ wire' \in ProtocolMsg \cup {Empty}
    BY <1>1, <1>2, <1>3, AnswerIInv
  <2>2. TypeOK'
    BY <1>1, <1>2, <1>3, <2>1 DEF TypeOK, promised, enclave, app
  <2>3. TravelInv' /\ WorkInv'
    BY <1>1, <1>2, <1>3 DEF TravelInv, WorkInv, InApp, InEnclave, Pending, promised,
       enclave, app
  <2> QED
    BY <2>1, <2>2, <2>3
<1>4. stream = c => Pending(c)
  BY <1>1, NobodyAssumption DEF StreamInv
<1>5. CASE req[c].kind = "enclave" /\ EnclaveAnswer(c, StatusResponse(phase))
           /\ UNCHANGED enclave
  <2>1. StatusResponse(phase) \in ProtocolMsg
    BY DEF ProtocolMsg, TypeOK
  <2>2. stream = c => HandlerReply(req[c], StatusResponse(phase)) \in Owed(c)
    BY <1>1, <1>4, <1>5, PhaseIsPromised DEF Owed, SeenInv, InEnclave
  <2> QED
    BY <1>3, <1>5, <2>1, <2>2
<1>6. CASE req[c].kind # "enclave" /\ EnclaveAnswer(c, ProtocolError)
           /\ UNCHANGED enclave
  <2>1. ProtocolError \in ProtocolMsg
    BY DEF ProtocolMsg
  <2>2. HandlerReply(req[c], ProtocolError) \in Owed(c)
    BY <1>1, FailureIsPromised DEF Owed, InEnclave
  <2> QED
    BY <1>3, <1>6, <2>1, <2>2
<1>7. CASE req[c].kind # "enclave" /\ proxied' = c /\ relayed' = FALSE
           /\ UNCHANGED <<stream, wire>>
  <2>1. TypeOK'
    BY <1>1, <1>2, <1>7 DEF TypeOK, promised, app
  <2>2. StreamInv' /\ WireInv' /\ SeenInv' /\ WorkInv' /\ RepliedInv'
    BY <1>2, <1>7 DEF StreamInv, WireInv, SeenInv, WorkInv, RepliedInv, Pending, Owed,
       promised, app
  <2>3. TravelInv'
    BY <1>1, <1>2, <1>7 DEF TravelInv, InApp, InEnclave, promised, app
  <2> QED
    BY <2>1, <2>2, <2>3
<1> QED
  BY <1>5, <1>6, <1>7 DEF EnclaveRead

(* So does whatever else the enclave does.                                 *)
LEMMA EnclaveIInv ==
  ASSUME IInv, Enclave
  PROVE  IInv'
<1> USE DEF IInv
<1>1. CASE EnclaveRead
  BY <1>1, EnclaveReadIInv
<1>2. CASE EnclaveGivesUp
  <2>1. proxied \in Calls /\ InApp(proxied)
    BY <1>2 DEF EnclaveGivesUp, TypeOK, TravelInv
  <2>2. AppClientRecvTimeout \in ProtocolMsg
    BY DEF ProtocolMsg
  <2>3. HandlerReply(req[proxied], AppClientRecvTimeout) \in Owed(proxied)
    BY <2>1, FailureIsPromised DEF Owed, InApp, InEnclave
  <2>4. StreamInv' /\ WireInv' /\ SeenInv' /\ RepliedInv'
          /\ stream' = stream /\ wire' \in ProtocolMsg \cup {Empty}
    BY <1>2, <2>1, <2>2, <2>3, AnswerIInv DEF EnclaveGivesUp
  <2>5. TypeOK'
    BY <1>2, <2>4 DEF EnclaveGivesUp, TypeOK, promised, app
  <2>6. TravelInv' /\ WorkInv'
    BY <1>2 DEF EnclaveGivesUp, TravelInv, WorkInv, InApp, InEnclave, Pending,
       promised, app
  <2> QED
    BY <2>4, <2>5, <2>6
<1>3. CASE EnclaveLoses
  <2>1. /\ inbox' \in Seq(Calls)
        /\ \A i \in 1..Len(inbox') : InEnclave(inbox'[i])
    <3>1. CASE inbox # <<>> /\ inbox' = Tail(inbox)
      <4>1. \A i \in 1..Len(inbox') : /\ i + 1 \in 1..Len(inbox)
                                     /\ inbox'[i] = inbox[i + 1]
        BY <3>1 DEF TypeOK
      <4> QED
        BY <3>1, <4>1 DEF TravelInv, TypeOK
    <3>2. CASE inbox' = inbox
      BY <3>2 DEF TravelInv, TypeOK
    <3> QED
      BY <1>3, <3>1, <3>2 DEF EnclaveLoses
  <2>2. TypeOK'
    BY <1>3, <2>1 DEF EnclaveLoses, TypeOK, promised, app
  <2>3. StreamInv' /\ WireInv' /\ SeenInv' /\ WorkInv' /\ RepliedInv'
    BY <1>3 DEF EnclaveLoses, StreamInv, WireInv, SeenInv, WorkInv, RepliedInv,
       Pending, Owed, promised, app
  <2>4. TravelInv'
    BY <1>3, <2>1 DEF EnclaveLoses, TravelInv, InApp, InEnclave, promised, app
  <2> QED
    BY <2>2, <2>3, <2>4
<1> QED
  BY <1>1, <1>2, <1>3 DEF Enclave

(* The app reading a request and its key, answering, panicking, crashing   *)
(* and restarting keeps the invariant.                                     *)
LEMMA AppIInv ==
  ASSUME IInv, App
  PROVE  IInv'
<1> USE DEF IInv
<1>1. CASE AppBegin
  <2>1. TypeOK'
    BY <1>1 DEF AppBegin, TypeOK, promised, link
  <2>2. StreamInv' /\ WireInv' /\ SeenInv' /\ RepliedInv'
    BY <1>1 DEF AppBegin, StreamInv, WireInv, SeenInv, RepliedInv, Pending, Owed,
       promised, link
  <2>3. TravelInv'
    BY <1>1 DEF AppBegin, TravelInv, InApp, InEnclave, promised, link
  <2>4. WorkInv'
    BY <1>1 DEF AppBegin, WorkInv, SeenInv, TypeOK, Pending, promised
  <2> QED
    BY <2>1, <2>2, <2>3, <2>4
<1>2. CASE AppFinish
  <2> DEFINE c == working
             m == ProxyResponse(Process(req[c], appKey))
  <2>1. c \in Calls /\ InApp(c) /\ ~PanicsOn(req[c], appKey)
    BY <1>2 DEF AppFinish, TypeOK, TravelInv
  <2>2. m \in ProtocolMsg
    BY <2>1, ProcessType DEF ProtocolMsg, InApp, InEnclave, TypeOK
  <2>3. stream = c => HandlerReply(req[c], m) \in Owed(c)
    <3> SUFFICES ASSUME stream = c PROVE HandlerReply(req[c], m) \in Owed(c)
      OBVIOUS
    <3>1. appKey \in keysDuring[c]
      BY <2>1, NobodyAssumption DEF StreamInv, WorkInv
    <3> QED
      BY <2>1, <3>1, ProcessIsPromised
         DEF Owed, InApp, InEnclave, NeedsEnclave, TypeOK
  <2> HIDE DEF m
  <2>4. StreamInv' /\ WireInv' /\ SeenInv' /\ RepliedInv'
          /\ stream' = stream /\ wire' \in ProtocolMsg \cup {Empty}
    <3>1. CASE EnclaveAnswer(c, m)
      BY <1>2, <2>1, <2>2, <2>3, <3>1, AnswerIInv DEF AppFinish
    <3>2. CASE UNCHANGED <<stream, wire>>
      BY <1>2, <3>2 DEF AppFinish, StreamInv, WireInv, SeenInv, RepliedInv, Pending,
         Owed, TypeOK, promised
    <3> QED
      BY <1>2, <3>1, <3>2 DEF AppFinish, m
  <2>5. TypeOK'
    BY <1>2, <2>4 DEF AppFinish, TypeOK, promised
  <2>6. TravelInv' /\ WorkInv'
    BY <1>2 DEF AppFinish, TravelInv, WorkInv, InApp, InEnclave, promised
  <2> QED
    BY <2>4, <2>5, <2>6
<1>3. CASE AppPanic \/ AppCrash \/ AppRestart
  <2>1. UNCHANGED <<promised, hist, link, enclave>>
    BY <1>3 DEF AppPanic, AppCrash, AppRestart
  <2>2. \/ working' = Nobody /\ appKey' = NoKey
        \/ working' = working /\ appKey' = appKey
    BY <1>3 DEF AppPanic, AppCrash, AppRestart
  <2>3. appUp' \in BOOLEAN
    BY <1>3 DEF AppPanic, AppCrash, AppRestart
  <2>4. TypeOK'
    BY <2>1, <2>2, <2>3 DEF TypeOK, promised, link, enclave
  <2>5. StreamInv' /\ WireInv' /\ SeenInv' /\ RepliedInv'
    BY <2>1 DEF StreamInv, WireInv, SeenInv, RepliedInv, Pending, Owed, promised, link
  <2>6. TravelInv' /\ WorkInv'
    BY <2>1, <2>2 DEF TravelInv, WorkInv, InApp, InEnclave, Pending, promised, link,
       enclave
  <2> QED
    BY <2>4, <2>5, <2>6
<1> QED
  BY <1>1, <1>2, <1>3 DEF App

-----------------------------------------------------------------------------
(* The key file and the phase change: pending calls see more.              *)
LEMMA SurroundingsIInv ==
  ASSUME IInv, KeyChange \/ PhaseChange
  PROVE  IInv'
<1> USE DEF IInv
<1>1. /\ req' = req /\ reply' = reply
      /\ UNCHANGED <<hist, link, enclave, app>>
      /\ \A c \in Calls : Pending(c)' = Pending(c)
  BY DEF KeyChange, PhaseChange, Pending
<1>2. TypeOK'
  BY <1>1 DEF KeyChange, PhaseChange, TypeOK, link, enclave, app
<1>3. \A c \in Calls : /\ keysDuring[c] \subseteq keysDuring'[c]
                       /\ phasesDuring[c] \subseteq phasesDuring'[c]
  BY DEF KeyChange, PhaseChange, TypeOK
<1>4. \A c \in Calls : Pending(c) => Owed(c) \subseteq Owed(c)'
  BY <1>1, <1>3, PromiseGrows, PendingRequest DEF Owed
<1>5. StreamInv'
  BY <1>1 DEF StreamInv, TypeOK, link
<1>6. WireInv'
  <2>1. wire # Empty => stream \in Calls /\ Pending(stream)
    BY DEF WireInv, StreamInv, TypeOK
  <2> QED
    BY <1>1, <1>4, <2>1 DEF WireInv, link
<1>7. TravelInv'
  BY <1>1 DEF TravelInv, InApp, InEnclave, link, enclave, app
<1>8. SeenInv'
  BY <1>1 DEF KeyChange, PhaseChange, SeenInv, TypeOK
<1>9. WorkInv'
  BY <1>1, <1>3 DEF WorkInv, TypeOK, app
<1>10. RepliedInv'
  BY <1>1 DEF RepliedInv
<1> QED
  BY <1>2, <1>5, <1>6, <1>7, <1>8, <1>9, <1>10

(* Every step keeps the invariant.                                         *)
LEMMA NextIInv == IInv /\ [Next]_vars => IInv'
<1> SUFFICES ASSUME IInv, [Next]_vars PROVE IInv'
  OBVIOUS
<1>1. ASSUME NEW c \in Calls, Host(c) PROVE IInv'
  BY <1>1, ArriveIInv, AnswerLocallyIInv, SendIInv, HandlerIInv, CancelIInv DEF Host
<1>2. CASE Enclave
  BY <1>2, EnclaveIInv
<1>3. CASE App
  BY <1>3, AppIInv
<1>4. CASE KeyChange \/ PhaseChange
  BY <1>4, SurroundingsIInv
<1>5. CASE UNCHANGED vars
  BY <1>5 DEF vars, promised, link, enclave, app, IInv, TypeOK, StreamInv, WireInv,
     TravelInv, InApp, InEnclave, SeenInv, WorkInv, RepliedInv, Pending, Owed
<1> QED
  BY <1>1, <1>2, <1>3, <1>4, <1>5 DEF Next

(* The inductive invariant holds in every state of the pipeline.           *)
THEOREM Invariant == Spec => []IInv
<1>1. Init => IInv
  BY InitIInv
<1>2. IInv /\ [Next]_vars => IInv'
  BY NextIInv
<1> QED
  BY <1>1, <1>2, PTL DEF Spec

(* Type correctness of the pipeline (host, enclave and app together).      *)
THEOREM TypeCorrect == Spec => []TypeOK
<1>1. IInv => TypeOK
  BY DEF IInv
<1> QED
  BY <1>1, Invariant, PTL

(* A successful Parse reply is the rendering of the caller's transaction   *)
(* with a signature that verifies (Host::parse, send_proxy_request).       *)
THEOREM OwnAnswers == Spec => []AnswersAreOwn
<1>1. IInv => AnswersAreOwn
  <2> SUFFICES ASSUME IInv, NEW c \in Calls, reply[c] # NoReply,
                      req[c].kind = "parse", reply[c].code = "OK"
               PROVE  /\ Parsable(req[c])
                      /\ reply[c].body.payload = Convert[<<req[c].chain, req[c].tx>>]
                      /\ reply[c].body.sig = [key |-> reply[c].body.key,
                                              msg |-> reply[c].body.payload]
    BY DEF AnswersAreOwn
  <2>1. PICK ks, ps : reply[c] \in Service!Promised(req[c], ks, ps)
    BY DEF IInv, RepliedInv, Cancelled, Err
  <2>2. reply[c] \in Service!ParsePromise(req[c], ks)
    BY <2>1 DEF Service!Promised
  <2>3. Parsable(req[c]) /\ \E k \in ks :
          reply[c] = Ok(Signed(Convert[<<req[c].chain, req[c].tx>>], k))
    BY <2>2, SameMessages DEF Service!ParsePromise, Err
  <2> QED
    BY <2>3 DEF Ok, Signed
<1> QED
  BY <1>1, Invariant, PTL

(* InvalidArgument is only ever said of a Parse request that is itself     *)
(* wrong (routes::parse against the Internal errors of the host).          *)
THEOREM OwnBlame == Spec => []BlameIsOwn
<1>1. IInv => BlameIsOwn
  <2> SUFFICES ASSUME IInv, NEW c \in Calls, reply[c] # NoReply,
                      reply[c].code = "InvalidArgument"
               PROVE  req[c].kind = "parse" /\ Unparsable(req[c])
    BY DEF BlameIsOwn
  <2>1. PICK ks, ps : reply[c] \in Service!Promised(req[c], ks, ps)
    BY DEF IInv, RepliedInv, Cancelled, Err
  <2>2. req[c] \in Requests
    BY DEF IInv, RepliedInv
  <2>3. CASE req[c].kind = "parse"
    <3>1. reply[c] \in Service!ParsePromise(req[c], ks)
      BY <2>1, <2>3 DEF Service!Promised
    <3> QED
      BY <2>3, <3>1, SameMessages DEF Service!ParsePromise, Err, Ok
  <2>4. CASE req[c].kind # "parse"
    BY <2>1, <2>2, <2>4, RequestKinds, SameMessages
       DEF Service!Promised, Service!HealthPromise, Service!ReadinessPromise,
           Service!EnclavePromise, Err, Ok
  <2> QED
    BY <2>3, <2>4
<1> QED
  BY <1>1, Invariant, PTL

-----------------------------------------------------------------------------
(* The initial states are initial states of the service.                   *)
LEMMA InitRefines == Init => Service!Init
BY DEF Init, Service!Init

(* A reply a call is owed is an answer of the service.                     *)
LEMMA ReturnRefines ==
  ASSUME NEW c \in Calls, Pending(c), NEW a \in Owed(c), Return(c, a)
  PROVE  Service!Answer(c)
BY DEF Return, Owed, Service!Answer, Service!Pending, Pending

(* Every step of the pipeline is a step of the service or changes none of  *)
(* its variables.                                                          *)
LEMMA StepRefines ==
  ASSUME IInv, [Next]_vars
  PROVE  [Service!Next]_(Service!vars)
<1> SUFFICES Service!Next \/ UNCHANGED promised
  BY DEF promised, Service!vars
<1>1. ASSUME NEW c \in Calls, Host(c)
      PROVE  Service!Next \/ UNCHANGED promised
  <2>1. CASE Arrive(c)
    BY <2>1 DEF Arrive, Service!Next, Service!Ask
  <2>2. CASE Send(c)
    BY <2>2 DEF Send
  <2>3. CASE AnswerLocally(c)
    <3>1. req[c] \in Requests /\ req[c].kind \in {"liveness", "otherService"}
      BY <2>3, PendingRequest, RequestKinds DEF AnswerLocally, NeedsEnclave, IInv
    <3>2. Ok(IF req[c].kind = "liveness" THEN Serving ELSE ServiceUnknown) \in Owed(c)
      BY <3>1, SameMessages DEF Owed, Service!Promised
    <3> QED
      BY <2>3, <3>2, ReturnRefines DEF AnswerLocally, Service!Next
  <2>4. CASE Receive(c)
    <3>1. Pending(c) /\ HandlerReply(req[c], wire) \in Owed(c)
      BY <2>4, NobodyAssumption DEF Receive, IInv, StreamInv, WireInv
    <3> QED
      BY <2>4, <3>1, ReturnRefines DEF Receive, Conclude, Service!Next
  <2>5. CASE FailWaiting(c) \/ TimeOut(c)
    <3>1. Pending(c) /\ NeedsEnclave(req[c])
      BY <2>5, NobodyAssumption DEF FailWaiting, TimeOut, IInv, StreamInv
    <3>2. HandlerReply(req[c], ClientError) \in Owed(c)
      BY <3>1, PendingRequest, FailureIsPromised DEF Owed, IInv
    <3>3. Return(c, HandlerReply(req[c], ClientError))
      BY <2>5 DEF FailWaiting, TimeOut, Conclude
    <3> QED
      BY <3>1, <3>2, <3>3, ReturnRefines DEF Service!Next
  <2>6. CASE Cancel(c)
    BY <2>6, SameMessages DEF Cancel, Return, Pending, Service!Next, Service!Leave,
       Service!Pending
  <2> QED
    BY <1>1, <2>1, <2>2, <2>3, <2>4, <2>5, <2>6 DEF Host
<1>2. CASE Enclave
  BY <1>2 DEF Enclave, EnclaveRead, EnclaveGivesUp, EnclaveLoses
<1>3. CASE App
  BY <1>3 DEF App, AppBegin, AppFinish, AppPanic, AppCrash, AppRestart
<1>4. CASE KeyChange
  BY <1>4 DEF KeyChange, Service!Next, Service!KeyChange, Service!Pending, Pending
<1>5. CASE PhaseChange
  BY <1>5 DEF PhaseChange, Service!Next, Service!PhaseChange, Service!Pending, Pending
<1>6. CASE UNCHANGED vars
  BY <1>6 DEF vars
<1> QED
  BY <1>1, <1>2, <1>3, <1>4, <1>5, <1>6 DEF Next

(* The pipeline implements the service: whatever sockets, enclave and app  *)
(* do, a client gets one reply at most, one that its request is owed.      *)
THEOREM Implements == Spec => ServesAsPromised
<1>1. Init => Service!Init
  BY InitRefines
<1>2. IInv /\ [Next]_vars => [Service!Next]_(Service!vars)
  BY StepRefines
<1> QED
  BY <1>1, <1>2, Invariant, PTL DEF Spec, ServesAsPromised, Service!Spec

(* A promised reply goes by the keys and the phases of its own time.       *)
LEMMA PromiseIsFresh ==
  ASSUME NEW r \in Requests, NEW ks, NEW ps, ks \subseteq Keys \cup {NoKey},
         NEW a \in Service!Promised(r, ks, ps)
  PROVE  /\ a.code = "OK" /\ r.kind = "parse" => a.body.key \in ks \ {NoKey}
         /\ \/ a = Ok(Healthy)
            \/ a = Ok(Serving) /\ r.kind = "readiness"
            => ks \cap Keys # {}
         /\ a = Ok(InPhase(Provisioned)) => Provisioned \in ps
<1>1. CASE r.kind = "parse"
  BY <1>1, SameMessages DEF Service!Promised, Service!ParsePromise, Err, Ok, Signed,
     Healthy, InPhase
<1>2. CASE r.kind \in {"health", "readiness", "liveness", "otherService"}
  BY <1>2, SameMessages DEF Service!Promised, Service!HealthPromise,
     Service!ReadinessPromise, Err, Ok, Healthy, Serving, NotServing, ServiceUnknown,
     InPhase
<1>3. CASE r.kind = "enclave"
  <2>1. \/ a = Err("Internal") \/ a = Err("Unavailable")
        \/ a = Ok(InPhase(Provisioned)) /\ Provisioned \in ps
    BY <1>3, SameMessages DEF Service!Promised, Service!EnclavePromise
  <2> QED
    BY <1>3, <2>1 DEF Err, Ok, Healthy, InPhase
<1> QED
  BY <1>1, <1>2, <1>3, RequestKinds

(* No reply is given from a key or a phase of before the call.             *)
THEOREM FreshReplies == Spec => RepliesAreFresh
<1> DEFINE Fresh(c) ==
      LET a == reply'[c]
      IN  /\ a.code = "OK" /\ req[c].kind = "parse" =>
               a.body.key \in keysDuring[c] \ {NoKey}
          /\ \/ a = Ok(Healthy)
             \/ a = Ok(Serving) /\ req[c].kind = "readiness"
             => keysDuring[c] \cap Keys # {}
          /\ a = Ok(InPhase(Provisioned)) => Provisioned \in phasesDuring[c]
<1>1. ASSUME IInv, [Next]_vars, NEW c \in Calls, reply'[c] # reply[c]
      PROVE  Fresh(c)
  <2>1. [Service!Next]_(Service!vars)
    BY <1>1, StepRefines
  <2>2. Service!Answer(c) \/ Service!Leave(c)
    BY <1>1, <2>1 DEF Service!Next, Service!Ask, Service!Answer, Service!Leave,
       Service!KeyChange, Service!PhaseChange, Service!vars, IInv, TypeOK
  <2>3. /\ req[c] \in Requests
        /\ reply'[c] \in Owed(c) \/ reply'[c] = Cancelled
    BY <2>2, PendingRequest, <1>1, SameMessages
       DEF Service!Answer, Service!Leave, Service!Pending, Pending, Owed, IInv, TypeOK
  <2>5. Cancelled.code # "OK" /\ \A x : Ok(x).code = "OK"
    BY DEF Cancelled, Err, Ok
  <2>4. keysDuring[c] \subseteq Keys \cup {NoKey}
    BY <1>1 DEF IInv, TypeOK
  <2> QED
    BY <2>3, <2>4, <2>5, PromiseIsFresh DEF Owed
<1>2. IInv /\ [Next]_vars => [\A c \in Calls : reply'[c] # reply[c] => Fresh(c)]_vars
  BY <1>1
<1> QED
  BY <1>2, Invariant, PTL DEF Spec, RepliesAreFresh


-----------------------------------------------------------------------------
(* What the histograms are to agree with: the calls in each bucket.        *)
Refused == CallsWith({"parse"}, {"InvalidArgument"})
Failed == CallsWith({"parse"}, {"InvalidArgument", "Internal"})
Rendered == CallsWith({"parse"}, {"OK"})
HealthyCalls == {c \in Calls : reply[c] = Ok(Healthy)}
ReadyCalls == {c \in CallsWith({"readiness"}, {"OK"}) : reply[c] = Ok(Serving)}

(* However many calls there may be, finitely many have been answered, so   *)
(* that the buckets can be counted.                                        *)
Answered == {c \in Calls : reply[c] # NoReply}

CountInv == IsFiniteSet(Answered) /\ HistogramsCountAnswers

(* Adding the call just answered to a bucket, or not.                      *)
LEMMA Counting ==
  ASSUME NEW A, IsFiniteSet(A), NEW S \in SUBSET A, NEW c, c \notin A
  PROVE  /\ Cardinality(S) \in Nat
         /\ Cardinality(S \cup {c}) = Cardinality(S) + 1
<1>1. IsFiniteSet(S)
  BY FS_Subset
<1>2. Cardinality(S) \in Nat
  BY <1>1, FS_CardinalityType
<1>3. c \notin S
  OBVIOUS
<1> QED
  BY <1>1, <1>2, <1>3, FS_AddElement

(* A return changes no bucket but by the call that returns.                *)
LEMMA ReturnBuckets ==
  ASSUME IInv, NEW c \in Calls, Pending(c), NEW a \in Reply, Return(c, a)
  PROVE  /\ Answered' = Answered \cup {c}
         /\ c \notin Answered
         /\ Rendered' = IF req[c].kind = "parse" /\ a.code = "OK"
                        THEN Rendered \cup {c} ELSE Rendered
         /\ Refused' = IF req[c].kind = "parse" /\ a.code = "InvalidArgument"
                       THEN Refused \cup {c} ELSE Refused
         /\ Failed' = IF req[c].kind = "parse" /\ a.code \in {"InvalidArgument", "Internal"}
                      THEN Failed \cup {c} ELSE Failed
         /\ HealthyCalls' = IF a = Ok(Healthy) THEN HealthyCalls \cup {c} ELSE HealthyCalls
         /\ ReadyCalls' = IF req[c].kind = "readiness" /\ a = Ok(Serving)
                          THEN ReadyCalls \cup {c} ELSE ReadyCalls
<1>1. /\ reply \in [Calls -> Reply \cup {NoReply}] /\ req' = req
      /\ reply' = [reply EXCEPT ![c] = a]
  BY DEF IInv, TypeOK, Return
<1>2. reply[c] = NoReply /\ reply'[c] = a /\ a # NoReply
  BY <1>1, ReplyAssumption DEF Pending
<1>3. \A d \in Calls \ {c} : reply'[d] = reply[d]
  BY <1>1
<1>4. Ok(Healthy) # NoReply /\ Ok(Healthy) \in Reply
  BY ReplyAssumption DEF Reply, Body, Ok
<1>5. Ok(Serving).code = "OK"
  BY DEF Ok
<1>6. Answered' = Answered \cup {c} /\ c \notin Answered
  BY <1>2, <1>3 DEF Answered
<1>7. \A K, C : CallsWith(K, C)' = IF req[c].kind \in K /\ a.code \in C
                                   THEN CallsWith(K, C) \cup {c} ELSE CallsWith(K, C)
  BY <1>1, <1>2, <1>3 DEF CallsWith
<1>8. HealthyCalls' = IF a = Ok(Healthy) THEN HealthyCalls \cup {c} ELSE HealthyCalls
  BY <1>2, <1>3, <1>4 DEF HealthyCalls
<1>9. ReadyCalls' = IF req[c].kind = "readiness" /\ a = Ok(Serving)
                    THEN ReadyCalls \cup {c} ELSE ReadyCalls
  BY <1>1, <1>2, <1>3, <1>5 DEF ReadyCalls, CallsWith
<1>10. Rendered' = IF req[c].kind = "parse" /\ a.code = "OK"
                   THEN Rendered \cup {c} ELSE Rendered
  BY <1>7 DEF Rendered
<1>11. Refused' = IF req[c].kind = "parse" /\ a.code = "InvalidArgument"
                  THEN Refused \cup {c} ELSE Refused
  BY <1>7 DEF Refused
<1>12. Failed' = IF req[c].kind = "parse" /\ a.code \in {"InvalidArgument", "Internal"}
                 THEN Failed \cup {c} ELSE Failed
  BY <1>7 DEF Failed
<1> QED
  BY <1>6, <1>8, <1>9, <1>10, <1>11, <1>12

(* The buckets hold answered calls, and are what the invariant counts.     *)
LEMMA Buckets ==
  /\ Rendered \subseteq Answered /\ Refused \subseteq Answered
  /\ Failed \subseteq Answered /\ ReadyCalls \subseteq Answered
  /\ HealthyCalls \subseteq Answered
  /\ HistogramsCountAnswers <=>
       /\ hist["parse"]["success"] = Cardinality(Rendered)
       /\ hist["parse"]["failure"] >= Cardinality(Refused)
       /\ hist["parse"]["failure"] <= Cardinality(Failed)
       /\ hist["health"]["success"] = Cardinality(HealthyCalls) + Cardinality(ReadyCalls)
<1>1. Ok(Healthy) # NoReply
  BY ReplyAssumption DEF Reply, Body, Ok
<1> QED
  BY <1>1 DEF Rendered, Refused, Failed, ReadyCalls, HealthyCalls, Answered, CallsWith,
     HistogramsCountAnswers


(* What a handler tracks agrees with what it returns.                      *)
LEMMA TrackedAsReturned ==
  ASSUME NEW r \in Requests, NeedsEnclave(r), NEW m \in ProtocolMsg \cup {ClientError}
  PROVE  LET a == HandlerReply(r, m)
         IN  /\ r.kind = "parse" =>
                  /\ a.code \in {"OK", "InvalidArgument", "Internal"}
                  /\ IsOutput(m) => (Succeeded(r, m) <=> a.code = "OK")
                  /\ ~IsOutput(m) => a.code = "Internal"
             /\ r.kind = "health" => (a = Ok(Healthy) <=> IsOutput(m) /\ Succeeded(r, m))
             /\ r.kind = "readiness" => (a = Ok(Serving) <=> IsOutput(m) /\ Succeeded(r, m))
             /\ r.kind # "health" => a # Ok(Healthy)
<1> DEFINE a == HandlerReply(r, m)
<1>1. CASE IsOutput(m)
  <2>1. PICK o \in Output : m = ProxyResponse(o)
    BY <1>1 DEF ProtocolMsg, ClientError, StatusResponse, AppClientRecvTimeout,
       ProtocolError, ProxyResponse, IsOutput
  <2>2. m.out = o
    BY <2>1 DEF ProxyResponse
  <2>3. \/ o \in SignedRenderings /\ o.tag = "parse"
        \/ o = Healthy /\ o.tag = "health"
        \/ o.tag = "status" /\ o.code \in {"InvalidArgument", "Internal"}
    BY DEF Output, SignedRenderings, Signed, Healthy, Status
  <2>4. /\ ParseReply(m).code \in {"OK", "InvalidArgument", "Internal"}
        /\ ParseReply(m) # Ok(Healthy)
    BY <1>1, <2>2, <2>3 DEF ParseReply, Ok, Err, Healthy
  <2>5. /\ AppHealthReply(m) = Ok(Healthy) \/ AppHealthReply(m).code \in {"InvalidArgument", "Internal"}
        /\ Ok(Healthy).code = "OK" /\ Ok(Healthy).body.health = 200
    BY <1>1, <2>2, <2>3 DEF AppHealthReply, Ok, Err, Healthy
  <2>6. /\ AppStatus(m) = Serving <=> AppHealthReply(m).code = "OK"
        /\ Ok(AppStatus(m)) = Ok(Serving) <=> AppStatus(m) = Serving
        /\ Ok(AppStatus(m)) # Ok(Healthy)
    BY <2>5 DEF AppStatus, Ok, Serving, NotServing, Healthy
  <2>7. m.msg # "statusResponse"
    BY <1>1 DEF IsOutput
  <2>8. EnclaveHealthReply(m) # Ok(Healthy)
    BY <2>7 DEF EnclaveHealthReply, Err, Ok
  <2>9. \/ r.kind = "parse" /\ a = ParseReply(m)
        \/ r.kind = "health" /\ a = AppHealthReply(m)
        \/ r.kind = "readiness" /\ a = Ok(AppStatus(m))
        \/ r.kind = "enclave" /\ a = EnclaveHealthReply(m)
    BY DEF HandlerReply, NeedsEnclave
  <2> QED
    BY <1>1, <2>4, <2>5, <2>6, <2>8, <2>9 DEF Succeeded
<1>2. CASE ~IsOutput(m)
  <2>1. ParseReply(m) = Err("Internal") /\ AppHealthReply(m) = Err("Internal")
    BY <1>2 DEF ParseReply, AppHealthReply
  <2>2. Err("Internal").code = "Internal" /\ Err("Internal") # Ok(Healthy)
    BY DEF Err, Ok
  <2>3. AppStatus(m) = NotServing
    BY <2>1, <2>2 DEF AppStatus
  <2>4. Ok(NotServing) # Ok(Serving) /\ Ok(NotServing) # Ok(Healthy)
    BY DEF Ok, NotServing, Serving, Healthy
  <2>5. EnclaveHealthReply(m) # Ok(Healthy)
    BY DEF EnclaveHealthReply, Err, Ok, InPhase, Healthy
  <2>9. \/ r.kind = "parse" /\ a = ParseReply(m)
        \/ r.kind = "health" /\ a = AppHealthReply(m)
        \/ r.kind = "readiness" /\ a = Ok(AppStatus(m))
        \/ r.kind = "enclave" /\ a = EnclaveHealthReply(m)
    BY DEF HandlerReply, NeedsEnclave
  <2> QED
    BY <1>2, <2>1, <2>2, <2>3, <2>4, <2>5, <2>9
<1> QED
  BY <1>1, <1>2

(* The end of a handler that asked the enclave keeps the count.            *)
LEMMA ConcludeCounts ==
  ASSUME IInv, CountInv, NEW c \in Calls, Pending(c), NeedsEnclave(req[c]),
         NEW m \in ProtocolMsg \cup {ClientError}, Conclude(c, m)
  PROVE  CountInv'
<1> DEFINE a == HandlerReply(req[c], m)
<1>1. req[c] \in Requests
  BY PendingRequest DEF IInv
<1>2. a \in Reply /\ Return(c, a)
  BY <1>1, HandlerReplyType DEF Conclude
<1>3. /\ req[c].kind = "parse" =>
           /\ a.code \in {"OK", "InvalidArgument", "Internal"}
           /\ IsOutput(m) => (Succeeded(req[c], m) <=> a.code = "OK")
           /\ ~IsOutput(m) => a.code = "Internal"
      /\ req[c].kind = "health" => (a = Ok(Healthy) <=> IsOutput(m) /\ Succeeded(req[c], m))
      /\ req[c].kind = "readiness" => (a = Ok(Serving) <=> IsOutput(m) /\ Succeeded(req[c], m))
      /\ req[c].kind # "health" => a # Ok(Healthy)
  BY <1>1, TrackedAsReturned
<1> HIDE DEF a
<1>4. /\ Answered' = Answered \cup {c}
      /\ c \notin Answered
      /\ Rendered' = IF req[c].kind = "parse" /\ a.code = "OK"
                     THEN Rendered \cup {c} ELSE Rendered
      /\ Refused' = IF req[c].kind = "parse" /\ a.code = "InvalidArgument"
                    THEN Refused \cup {c} ELSE Refused
      /\ Failed' = IF req[c].kind = "parse" /\ a.code \in {"InvalidArgument", "Internal"}
                   THEN Failed \cup {c} ELSE Failed
      /\ HealthyCalls' = IF a = Ok(Healthy) THEN HealthyCalls \cup {c} ELSE HealthyCalls
      /\ ReadyCalls' = IF req[c].kind = "readiness" /\ a = Ok(Serving)
                       THEN ReadyCalls \cup {c} ELSE ReadyCalls
  BY <1>2, ReturnBuckets
<1>5. IsFiniteSet(Answered) /\ IsFiniteSet(Answered')
  BY <1>4, FS_AddElement DEF CountInv
<1> DEFINE n(S) == Cardinality(S)
<1>6. \A S \in {Rendered, Refused, Failed, HealthyCalls, ReadyCalls} :
        n(S) \in Nat /\ n(S \cup {c}) = n(S) + 1
  BY <1>4, <1>5, Buckets, Counting
<1> HIDE DEF n
<1>7. /\ hist["parse"]["success"] = n(Rendered)
      /\ hist["parse"]["failure"] >= n(Refused)
      /\ hist["parse"]["failure"] <= n(Failed)
      /\ hist["health"]["success"] = n(HealthyCalls) + n(ReadyCalls)
  BY Buckets DEF CountInv, n
<1>8. HistType
  BY DEF IInv, TypeOK, HistType
<1>9. hist' = IF req[c].kind # "enclave" /\ IsOutput(m)
              THEN [hist EXCEPT ![Method(req[c])][IF Succeeded(req[c], m) THEN "success"
                                                  ELSE "failure"] = @ + 1]
              ELSE hist
  BY DEF Conclude, Track
<1> DEFINE bumped(k, o) == req[c].kind # "enclave" /\ IsOutput(m) /\ Method(req[c]) = k
                             /\ (Succeeded(req[c], m) <=> o = "success")
<1>10. \A k \in {"parse", "health"}, o \in {"success", "failure"} :
         hist'[k][o] = IF bumped(k, o) THEN hist[k][o] + 1 ELSE hist[k][o]
  BY <1>8, <1>9 DEF HistType, Method
<1>11. req[c].kind \in {"parse", "health", "readiness", "enclave"}
  BY DEF NeedsEnclave
<1>12. \A k \in {"parse", "health"}, o \in {"success", "failure"} : hist[k][o] \in Nat
  BY <1>8 DEF HistType
<1>13. hist'["parse"]["success"] = n(Rendered')
  BY <1>3, <1>4, <1>6, <1>7, <1>10, <1>11 DEF Method
<1>14. hist'["parse"]["failure"] >= n(Refused')
  BY <1>3, <1>4, <1>6, <1>7, <1>10, <1>11, <1>12 DEF Method
<1>15. hist'["parse"]["failure"] <= n(Failed')
  BY <1>3, <1>4, <1>6, <1>7, <1>10, <1>11, <1>12 DEF Method
<1>16. hist'["health"]["success"] = n(HealthyCalls') + n(ReadyCalls')
  <2>1. CASE bumped("health", "success")
    <3>1. hist'["health"]["success"] = hist["health"]["success"] + 1
      BY <2>1, <1>10
    <3>2. CASE req[c].kind = "health"
      BY <2>1, <3>1, <3>2, <1>3, <1>4, <1>6, <1>7
    <3>3. CASE req[c].kind = "readiness"
      BY <2>1, <3>1, <3>3, <1>3, <1>4, <1>6, <1>7
    <3> QED
      BY <2>1, <3>2, <3>3, <1>11 DEF Method
  <2>2. CASE ~bumped("health", "success")
    BY <2>2, <1>3, <1>4, <1>6, <1>7, <1>10, <1>11 DEF Method
  <2> QED
    BY <2>1, <2>2
<1>17. HistogramsCountAnswers'
  BY <1>13, <1>14, <1>15, <1>16 DEF n, HistogramsCountAnswers, Rendered,
     Refused, Failed, HealthyCalls, ReadyCalls
<1> QED
  BY <1>5, <1>17 DEF CountInv

(* A return that tracks nothing and is in no bucket keeps the count.       *)
LEMMA UntrackedCounts ==
  ASSUME IInv, CountInv, NEW c \in Calls, Pending(c), NEW a \in Reply, Return(c, a),
         a # Ok(Healthy), a.code # "OK" \/ ~NeedsEnclave(req[c]),
         a.code \notin {"InvalidArgument", "Internal"},
         hist' = hist
  PROVE  CountInv'
<1>1. req[c].kind = "parse" \/ req[c].kind = "readiness" => a.code # "OK"
  BY DEF NeedsEnclave
<1>2. Ok(Serving).code = "OK"
  BY DEF Ok
<1>3. /\ Answered' = Answered \cup {c} /\ Rendered' = Rendered /\ Refused' = Refused
      /\ Failed' = Failed /\ HealthyCalls' = HealthyCalls /\ ReadyCalls' = ReadyCalls
  BY <1>1, <1>2, ReturnBuckets
<1>4. IsFiniteSet(Answered')
  BY <1>3, FS_AddElement DEF CountInv
<1>5. HistogramsCountAnswers'
  BY <1>3 DEF CountInv, HistogramsCountAnswers, Rendered,
     Refused, Failed, HealthyCalls, ReadyCalls
<1> QED
  BY <1>4, <1>5 DEF CountInv

(* Steps that neither make nor answer a call nor track keep the count.     *)
LEMMA UnansweredCounts ==
  ASSUME IInv, CountInv, reply' = reply, hist' = hist,
         \A c \in Calls : reply[c] # NoReply => req'[c] = req[c]
  PROVE  CountInv'
<1>1. \A K, C : CallsWith(K, C)' = CallsWith(K, C)
  BY DEF CallsWith
<1>2. /\ Answered' = Answered /\ Rendered' = Rendered /\ Refused' = Refused
      /\ Failed' = Failed /\ HealthyCalls' = HealthyCalls /\ ReadyCalls' = ReadyCalls
  BY <1>1 DEF Answered, Rendered, Refused, Failed, HealthyCalls, ReadyCalls
<1>3. HistogramsCountAnswers'
  BY <1>2 DEF CountInv, HistogramsCountAnswers, Rendered,
     Refused, Failed, HealthyCalls, ReadyCalls
<1> QED
  BY <1>2, <1>3 DEF CountInv

(* The histograms of Host::parse and of the health checks agree with the   *)
(* replies: a success is counted once, a refusal of the app once, and no   *)
(* failure that no call had; a call that failed before its answer came, or *)
(* whose client left, is in no bucket (track_enclave_request).             *)
THEOREM HistogramsAgree == Spec => []HistogramsCountAnswers
<1>1. Init => CountInv
  <2> SUFFICES ASSUME Init PROVE CountInv
    OBVIOUS
  <2>1. Answered = {}
    BY DEF Init, Answered
  <2>2. Rendered = {} /\ Refused = {} /\ Failed = {} /\ HealthyCalls = {} /\ ReadyCalls = {}
    BY <2>1, Buckets
  <2>3. \A k \in {"parse", "health"}, o \in {"success", "failure"} : hist[k][o] = 0
    BY DEF Init
  <2> QED
    BY <2>1, <2>2, <2>3, Buckets, FS_EmptySet DEF CountInv
<1>2. ASSUME IInv, CountInv, [Next]_vars PROVE CountInv'
  <2>1. ASSUME NEW c \in Calls, Arrive(c) PROVE CountInv'
    <3>1. \A d \in Calls : reply[d] # NoReply => req'[d] = req[d]
      BY <1>2, <2>1, ConstantAssumption DEF Arrive, IInv, TypeOK, RepliedInv
    <3> QED
      BY <1>2, <2>1, <3>1, UnansweredCounts DEF Arrive
  <2>2. ASSUME NEW c \in Calls, AnswerLocally(c) PROVE CountInv'
    <3> DEFINE a == Ok(IF req[c].kind = "liveness" THEN Serving ELSE ServiceUnknown)
    <3>1. a \in Reply /\ a # Ok(Healthy) /\ a.code = "OK"
      BY DEF Reply, Body, Ok, Serving, ServiceUnknown, Healthy
    <3>2. Pending(c) /\ ~NeedsEnclave(req[c]) /\ Return(c, a) /\ hist' = hist
      BY <2>2 DEF AnswerLocally
    <3> HIDE DEF a
    <3> QED
      BY <1>2, <3>1, <3>2, UntrackedCounts
  <2>3. ASSUME NEW c \in Calls, Receive(c) PROVE CountInv'
    <3>1. Pending(c) /\ NeedsEnclave(req[c]) /\ wire \in ProtocolMsg
      BY <1>2, <2>3, NobodyAssumption DEF Receive, IInv, StreamInv, TypeOK
    <3> QED
      BY <1>2, <2>3, <3>1, ConcludeCounts DEF Receive
  <2>4. ASSUME NEW c \in Calls, FailWaiting(c) \/ TimeOut(c) PROVE CountInv'
    <3>1. Pending(c) /\ NeedsEnclave(req[c]) /\ Conclude(c, ClientError)
      BY <1>2, <2>4, NobodyAssumption DEF FailWaiting, TimeOut, IInv, StreamInv
    <3> QED
      BY <1>2, <3>1, ConcludeCounts
  <2>5. ASSUME NEW c \in Calls, Cancel(c) PROVE CountInv'
    <3>1. Cancelled \in Reply /\ Cancelled # Ok(Healthy) /\ Cancelled.code = "Cancelled"
      BY DEF Cancelled, Err, Ok, Healthy, Reply, Body
    <3>2. Pending(c) /\ Return(c, Cancelled) /\ hist' = hist
      BY <2>5 DEF Cancel
    <3> QED
      BY <1>2, <3>1, <3>2, UntrackedCounts
  <2>6. ASSUME reply' = reply, hist' = hist, req' = req PROVE CountInv'
    BY <1>2, <2>6, UnansweredCounts
  <2>7. ASSUME NEW c \in Calls, Send(c) PROVE CountInv'
    BY <2>6, <2>7 DEF Send, promised
  <2>8. CASE Enclave
    BY <2>6, <2>8 DEF Enclave, EnclaveRead, EnclaveGivesUp, EnclaveLoses, promised
  <2>9. CASE App
    BY <2>6, <2>9 DEF App, AppBegin, AppFinish, AppPanic, AppCrash, AppRestart, promised
  <2>10. CASE KeyChange \/ PhaseChange
    BY <2>6, <2>10 DEF KeyChange, PhaseChange
  <2>11. CASE UNCHANGED vars
    BY <2>6, <2>11 DEF vars, promised
  <2> QED
    BY <1>2, <2>1, <2>2, <2>3, <2>4, <2>5, <2>7, <2>8, <2>9, <2>10, <2>11 DEF Next, Host
<1>3. CountInv => HistogramsCountAnswers
  BY DEF CountInv
<1> QED
  BY <1>1, <1>2, <1>3, Invariant, PTL DEF Spec
=============================================================================
