----------------------------- MODULE HealthWatch -----------------------------
(***************************************************************************)
(* One Watch stream of the Kubernetes health service (health_check,        *)
(* K8Health::watch): a task asks for the status, puts it into a bounded    *)
(* channel and sleeps, over and over, until it finds the channel closed;   *)
(* tonic takes what is in the channel to the client.  The task learns that *)
(* the client is gone only when it next tries to send.                     *)
(***************************************************************************)
EXTENDS Naturals, Sequences

CONSTANT Buffer   \* STREAM_MSG_BUFFER_MAX

ASSUME BufferAssumption == Buffer \in Nat \ {0}

VARIABLES
  service,   \* the service the client watches
  able,      \* the app has a key and could say so
  wasAble,   \* it was so at some moment of the check under way
  pc,        \* where the task is in its loop
  status,    \* what it is about to send
  queue,     \* the channel
  open,      \* the client is there: tonic holds the channel's receiver
  shown,     \* what the client was last told
  since,     \* history: checks begun since the app was last able, up to
             \* SinceMax
  late       \* history: checks begun since the client left, up to LateMax

vars == <<service, able, wasAble, pc, status, queue, open, shown, since, late>>

Services == {"liveness", "readiness", "other"}
Statuses == {"Serving", "NotServing", "ServiceUnknown"}
SinceMax == Buffer + 2
LateMax == 2

UpTo(max, n) == IF n < max THEN n ELSE max

-----------------------------------------------------------------------------
Init ==
  /\ service \in Services
  /\ able \in BOOLEAN
  /\ wasAble = FALSE
  /\ pc = "top"
  /\ status = "ServiceUnknown"
  /\ queue = <<>>
  /\ open = TRUE
  /\ shown = "nothing"
  /\ since = 0
  /\ late = 0

(* The top of the loop: k8_request is called.                              *)
CheckBegin ==
  /\ pc = "top"
  /\ pc' = "checking"
  /\ wasAble' = able
  /\ since' = IF able THEN 0 ELSE UpTo(SinceMax, since + 1)
  /\ late' = IF open THEN late ELSE UpTo(LateMax, late + 1)
  /\ UNCHANGED <<service, able, status, queue, open, shown>>

(* A mutant of Answers: the last status will do again.                     *)
AnswersCached ==
  CASE service = "liveness" -> {"Serving"}
    [] service = "readiness" ->
         {"NotServing"} \cup {s \in {"Serving"} : wasAble \/ status = "Serving"}
    [] service = "other" -> {"ServiceUnknown"}

(* What k8_request may say: of readiness, Serving only if the app was able *)
(* to answer at some moment of the check, and NotServing for any reason    *)
(* (SigningService!ReadinessPromise).                                      *)
Answers ==
  CASE service = "liveness" -> {"Serving"}
    [] service = "readiness" -> {"NotServing"} \cup {s \in {"Serving"} : wasAble}
    [] service = "other" -> {"ServiceUnknown"}

CheckEnd ==
  /\ pc = "checking"
  /\ status' \in Answers
  /\ pc' = "sending"
  /\ UNCHANGED <<service, able, wasAble, queue, open, shown, since, late>>

(* A mutant of Enqueue: the channel is unbounded.                          *)
EnqueueUnbounded ==
  /\ pc = "sending"
  /\ open
  /\ queue' = Append(queue, status)
  /\ pc' = "sleeping"
  /\ UNCHANGED <<service, able, wasAble, status, open, shown, since, late>>

(* tx.send waits while the channel is full.                                *)
Enqueue ==
  /\ pc = "sending"
  /\ open
  /\ Len(queue) < Buffer
  /\ queue' = Append(queue, status)
  /\ pc' = "sleeping"
  /\ UNCHANGED <<service, able, wasAble, status, open, shown, since, late>>

(* A mutant of GiveUp: the error is ignored and the loop goes on.          *)
GiveUpNever ==
  /\ pc = "sending"
  /\ ~open
  /\ pc' = "sleeping"
  /\ UNCHANGED <<service, able, wasAble, status, queue, open, shown, since, late>>

(* tx.send fails once the receiver is gone: the loop ends.                 *)
GiveUp ==
  /\ pc = "sending"
  /\ ~open
  /\ pc' = "done"
  /\ UNCHANGED <<service, able, wasAble, status, queue, open, shown, since, late>>

(* WATCH_STREAM_TIMEOUT_SEC have passed.                                   *)
Wake ==
  /\ pc = "sleeping"
  /\ pc' = "top"
  /\ UNCHANGED <<service, able, wasAble, status, queue, open, shown, since, late>>

(* tonic writes the oldest status to the client.                           *)
Deliver ==
  /\ open
  /\ queue # <<>>
  /\ shown' = Head(queue)
  /\ queue' = Tail(queue)
  /\ UNCHANGED <<service, able, wasAble, pc, status, open, since, late>>

(* The client leaves: tonic drops the response stream and what is in it.   *)
HangUp ==
  /\ open
  /\ open' = FALSE
  /\ queue' = <<>>
  /\ UNCHANGED <<service, able, wasAble, pc, status, shown, since, late>>

(* The app comes up, gets its key, fails, or loses it.                     *)
AbleChange ==
  /\ able' = ~able
  /\ wasAble' = (wasAble \/ (pc = "checking" /\ able'))
  /\ since' = IF able' THEN 0 ELSE since
  /\ UNCHANGED <<service, pc, status, queue, open, shown, late>>

Task == CheckBegin \/ CheckEnd \/ Enqueue \/ GiveUp \/ Wake

Next == Task \/ Deliver \/ HangUp \/ AbleChange

Spec == Init /\ [][Next]_vars

(***************************************************************************)
(* The runtime runs the task; a check ends because every call of the host  *)
(* is answered (ParserPipeline!EveryCallAnswered), a sleep because time    *)
(* passes.  Clients need not read, and need not leave.                     *)
(***************************************************************************)
FairSpec == Spec /\ WF_vars(Task)

-----------------------------------------------------------------------------
(* Every variable keeps to the values the code gives it; the channel never *)
(* holds more than STREAM_MSG_BUFFER_MAX statuses.                         *)
TypeOK ==
  /\ service \in Services
  /\ able \in BOOLEAN
  /\ wasAble \in BOOLEAN
  /\ pc \in {"top", "checking", "sending", "sleeping", "done"}
  /\ status \in Statuses
  /\ queue \in Seq(Statuses) /\ Len(queue) <= Buffer
  /\ open \in BOOLEAN
  /\ shown \in Statuses \cup {"nothing"}
  /\ since \in 0..SinceMax
  /\ late \in 0..LateMax

(* A client that watches readiness is told Serving only if the app was     *)
(* able to serve within the last Buffer + 1 checks: a slow reader makes    *)
(* the task wait (tx.send on the bounded channel), not the news grow old   *)
(* behind an ever longer queue.                                            *)
ServingIsRecent ==
  [][Deliver /\ service = "readiness" /\ shown' = "Serving" => since <= Buffer]_vars

(* A client that left costs the enclave one more check at most.            *)
OneLateCheck == late <= 1

(* The task of a client that left comes to an end, though it is told only  *)
(* by its next send.                                                       *)
WatcherEnds == ~open ~> pc = "done"

(* A client that keeps reading learns of an app that fails for good.       *)
FailureIsShown ==
  WF_vars(Deliver) =>
    (<>[](open /\ ~able /\ service = "readiness") => <>[](shown = "NotServing"))
=============================================================================
