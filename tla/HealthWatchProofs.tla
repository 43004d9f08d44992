-------------------------- MODULE HealthWatchProofs --------------------------
(***************************************************************************)
(* Proofs about HealthWatch, for every size of the channel: its type       *)
(* invariant, the one late check and the age of what a client is told.     *)
(***************************************************************************)
EXTENDS HealthWatch, TLAPS

(* A client that left is asked about by the check under way, if any.       *)
LateInv ==
  /\ open => late = 0
  /\ pc \in {"top", "sleeping"} => late = 0
  /\ late <= 1
  /\ ~open => queue = <<>>

(* Checks begun after the one whose status is at place i of the channel:   *)
(* those of the statuses behind it and the one in the task's hands.        *)
InHand == IF pc \in {"checking", "sending"} THEN 1 ELSE 0
Behind(i) == (Len(queue) - i) + InHand

(* The app was able to serve at the latest when the check of a Serving     *)
(* status was made.                                                        *)
AgeInv ==
  service = "readiness" =>
    /\ \A i \in 1..Len(queue) : queue[i] = "Serving" => since <= Behind(i)
    /\ pc = "checking" /\ wasAble => since = 0
    /\ pc = "sending" /\ status = "Serving" => since = 0

IInv == TypeOK /\ LateInv /\ AgeInv

-----------------------------------------------------------------------------
(* What is behind the head of a channel.                                   *)
LEMMA TailIndices ==
  ASSUME NEW S, NEW q \in Seq(S), q # <<>>
  PROVE  /\ Len(Tail(q)) = Len(q) - 1
         /\ Tail(q) \in Seq(S)
         /\ Head(q) = q[1] /\ Head(q) \in S
         /\ \A i \in 1..Len(Tail(q)) : i + 1 \in 1..Len(q) /\ Tail(q)[i] = q[i + 1]
OBVIOUS

(* The initial states satisfy the invariant: the channel is empty.         *)
LEMMA InitIInv == Init => IInv
<1> SUFFICES ASSUME Init PROVE IInv
  OBVIOUS
<1>1. wasAble \in BOOLEAN /\ open \in BOOLEAN
  BY DEF Init
<1>2. queue \in Seq(Statuses) /\ Len(queue) = 0 /\ status \in Statuses
  BY DEF Init, Statuses
<1>3. since \in 0..SinceMax /\ late \in 0..LateMax
  BY BufferAssumption DEF Init, SinceMax, LateMax
<1>4. TypeOK
  BY <1>1, <1>2, <1>3, BufferAssumption DEF Init, TypeOK
<1> QED
  BY <1>2, <1>4 DEF Init, IInv, LateInv, AgeInv

(* Every step keeps the types; Enqueue the bound of the channel.           *)
LEMMA TypeStep ==
  ASSUME TypeOK, [Next]_vars
  PROVE  TypeOK'
<1> USE BufferAssumption DEF TypeOK, SinceMax, LateMax
<1>1. CASE CheckBegin
  BY <1>1 DEF CheckBegin, UpTo
<1>2. CASE CheckEnd
  <2>1. status' \in Statuses
    <3>1. Answers \subseteq Statuses
      BY DEF Answers, Statuses, Services
    <3> QED
      BY <1>2, <3>1 DEF CheckEnd
  <2> QED
    BY <1>2, <2>1 DEF CheckEnd
<1>3. CASE Enqueue
  BY <1>3 DEF Enqueue
<1>4. CASE GiveUp
  BY <1>4 DEF GiveUp
<1>5. CASE Wake
  BY <1>5 DEF Wake
<1>6. CASE Deliver
  BY <1>6, TailIndices DEF Deliver
<1>7. CASE HangUp
  <2>1. open' \in BOOLEAN /\ queue' \in Seq(Statuses) /\ Len(queue') <= Buffer
    <3>1. queue' = <<>> /\ open' = FALSE
      BY <1>7 DEF HangUp
    <3>2. <<>> \in Seq(Statuses) /\ Len(<<>>) = 0
      OBVIOUS
    <3>3. open' \in BOOLEAN
      BY <3>1
    <3> QED
      BY <3>1, <3>2, <3>3
  <2> QED
    BY <1>7, <2>1 DEF HangUp
<1>8. CASE AbleChange
  <2>1. wasAble' \in BOOLEAN /\ able' \in BOOLEAN
    BY <1>8 DEF AbleChange
  <2>2. since' \in 0..SinceMax
    BY <1>8 DEF AbleChange
  <2> QED
    BY <1>8, <2>1, <2>2 DEF AbleChange
<1>9. CASE UNCHANGED vars
  BY <1>9 DEF vars
<1> QED
  BY <1>1, <1>2, <1>3, <1>4, <1>5, <1>6, <1>7, <1>8, <1>9 DEF Next, Task

(* Every step keeps the bound on late checks: GiveUp ends the loop.        *)
LEMMA LateStep ==
  ASSUME TypeOK, LateInv, [Next]_vars
  PROVE  LateInv'
<1> USE DEF TypeOK, LateInv, LateMax
<1>1. CASE CheckBegin
  BY <1>1 DEF CheckBegin, UpTo
<1>2. CASE CheckEnd \/ Enqueue \/ GiveUp \/ Wake \/ Deliver \/ HangUp \/ AbleChange
  BY <1>2 DEF CheckEnd, Enqueue, GiveUp, Wake, Deliver, HangUp, AbleChange
<1>3. CASE UNCHANGED vars
  BY <1>3 DEF vars
<1> QED
  BY <1>1, <1>2, <1>3 DEF Next, Task

(* Every step keeps the bound on the age of what is in the channel.        *)
LEMMA AgeStep ==
  ASSUME TypeOK, LateInv, AgeInv, [Next]_vars
  PROVE  AgeInv'
<1> SUFFICES ASSUME service = "readiness"
             PROVE  /\ \A i \in 1..Len(queue') : queue'[i] = "Serving" =>
                                                   since' <= Behind(i)'
                    /\ pc' = "checking" /\ wasAble' => since' = 0
                    /\ pc' = "sending" /\ status' = "Serving" => since' = 0
  BY DEF AgeInv, Next, Task, CheckBegin, CheckEnd, Enqueue, GiveUp, Wake, Deliver,
     HangUp, AbleChange, vars
<1> USE DEF TypeOK, AgeInv, Behind, InHand, SinceMax
<1>0. Len(queue) \in Nat /\ since \in Nat /\ SinceMax \in Nat
  BY BufferAssumption
<1>1. CASE CheckBegin
  <2>1. since' \in Nat /\ since' <= since + 1 /\ (wasAble' => since' = 0)
    <3>1. UpTo(SinceMax, since + 1) \in Nat /\ UpTo(SinceMax, since + 1) <= since + 1
      BY <1>0 DEF UpTo
    <3> QED
      BY <1>0, <1>1, <3>1 DEF CheckBegin
  <2>2. queue' = queue /\ pc = "top" /\ pc' = "checking"
    BY <1>1 DEF CheckBegin
  <2> QED
    BY <1>0, <2>1, <2>2
<1>2. CASE CheckEnd
  BY <1>0, <1>2 DEF CheckEnd, Answers
<1>3. CASE Enqueue
  <2>1. /\ Len(queue') = Len(queue) + 1
        /\ \A i \in 1..Len(queue) : queue'[i] = queue[i]
        /\ queue'[Len(queue) + 1] = status
    BY <1>3 DEF Enqueue
  <2>2. pc = "sending" /\ pc' = "sleeping" /\ since' = since
    BY <1>3 DEF Enqueue
  <2>3. ASSUME NEW i \in 1..Len(queue'), queue'[i] = "Serving"
        PROVE  since' <= Behind(i)'
    <3>1. CASE i \in 1..Len(queue)
      BY <1>0, <2>1, <2>2, <2>3, <3>1
    <3>2. CASE i = Len(queue) + 1
      BY <1>0, <2>1, <2>2, <2>3, <3>2
    <3> QED
      BY <1>0, <2>1, <3>1, <3>2
  <2> QED
    BY <2>2, <2>3
<1>4. CASE GiveUp
  BY <1>0, <1>4 DEF GiveUp, LateInv
<1>5. CASE Wake
  BY <1>0, <1>5 DEF Wake
<1>6. CASE Deliver
  <2>1. /\ Len(queue') = Len(queue) - 1
        /\ \A i \in 1..Len(queue') : i + 1 \in 1..Len(queue) /\ queue'[i] = queue[i + 1]
    BY <1>6, TailIndices DEF Deliver
  <2>2. pc' = pc /\ since' = since /\ wasAble' = wasAble /\ status' = status
    BY <1>6 DEF Deliver
  <2> QED
    BY <1>0, <2>1, <2>2
<1>7. CASE HangUp
  BY <1>0, <1>7 DEF HangUp
<1>8. CASE AbleChange
  <2>1. queue' = queue /\ pc' = pc /\ status' = status
    BY <1>8 DEF AbleChange
  <2>2. since' \in Nat /\ since' <= since
    BY <1>0, <1>8 DEF AbleChange
  <2>3. pc = "checking" /\ wasAble' => since' = 0
    BY <1>8 DEF AbleChange
  <2> QED
    BY <1>0, <2>1, <2>2, <2>3
<1>9. CASE UNCHANGED vars
  BY <1>9 DEF vars
<1> QED
  BY <1>1, <1>2, <1>3, <1>4, <1>5, <1>6, <1>7, <1>8, <1>9 DEF Next, Task

(* Type correctness of the task and its channel: no more than              *)
(* STREAM_MSG_BUFFER_MAX statuses wait, whatever that number is.           *)
THEOREM TypeCorrect == Spec => []TypeOK
<1>1. Init => TypeOK
  BY InitIInv DEF IInv
<1> QED
  BY <1>1, TypeStep, PTL DEF Spec

(* The inductive invariant of the watch task.                              *)
THEOREM Invariant == Spec => []IInv
<1>1. Init => IInv
  BY InitIInv
<1>2. IInv /\ [Next]_vars => IInv'
  BY TypeStep, LateStep, AgeStep DEF IInv
<1> QED
  BY <1>1, <1>2, PTL DEF Spec

(* A client that left costs one more check at most (the break in watch).   *)
THEOREM FewLateChecks == Spec => []OneLateCheck
<1>1. IInv => OneLateCheck
  BY DEF IInv, LateInv, OneLateCheck
<1> QED
  BY <1>1, Invariant, PTL

(* A Serving that reaches the client is no older than the channel is long. *)
THEOREM ServingAge == Spec => ServingIsRecent
<1>1. ASSUME IInv, Deliver, service = "readiness", shown' = "Serving"
      PROVE  since <= Buffer
  <2>1. queue[1] = "Serving" /\ 1 \in 1..Len(queue)
    BY <1>1, TailIndices DEF Deliver, IInv, TypeOK
  <2>2. since <= Behind(1)
    BY <1>1, <2>1 DEF IInv, AgeInv
  <2> QED
    BY <1>1, <2>2, BufferAssumption DEF Behind, InHand, IInv, TypeOK, SinceMax
<1> QED
  BY <1>1, Invariant, PTL DEF Spec, ServingIsRecent
=============================================================================
