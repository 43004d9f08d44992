------------------------- MODULE HostLifecycleProofs -------------------------
(***************************************************************************)
(* What the end of a host process says, for any set of calls: proved from  *)
(* one inductive invariant.                                                *)
(***************************************************************************)
EXTENDS HostLifecycle, TLAPS

(* Calls are only open while the server can answer them; a server returns  *)
(* with none open, and shuts down only when told to or when the signal     *)
(* task is gone; and a process ends of itself when its tasks have.         *)
OpenNeedsServer == Open # {} => host \in {"serving", "draining"}

ShutDownHasCause == host \in {"draining", "returned"} => handler \in {"fired", "panicked"}

EndHasCause ==
  /\ process \in {"exited", "panicked"} => host \in {"returned", "panicked"}
  /\ process = "exited" => host = "returned" /\ metrics = "off"

IInv == TypeOK /\ OpenNeedsServer /\ ShutDownHasCause /\ EndHasCause

(* The initial states satisfy the invariant: no call is open and nothing   *)
(* has ended when CLI::execute spawns the tasks.                           *)
LEMMA InitIInv == Init => IInv
  BY DEF Init, IInv, TypeOK, OpenNeedsServer, ShutDownHasCause, EndHasCause, Open

(* Every step of every task keeps the invariant.                           *)
LEMMA NextIInv == IInv /\ [Next]_vars => IInv'
<1> SUFFICES ASSUME IInv, [Next]_vars PROVE IInv'
    OBVIOUS
<1> USE DEF IInv, TypeOK, OpenNeedsServer, ShutDownHasCause, EndHasCause, Open, Running
<1>1. CASE ListenBegin
  BY <1>1 DEF ListenBegin
<1>2. CASE Bind
  BY <1>2 DEF Bind
<1>3. CASE InstallHandler
  BY <1>3 DEF InstallHandler
<1>4. CASE ShutDown
  BY <1>4 DEF ShutDown
<1>5. CASE Drained
  BY <1>5 DEF Drained
<1>6. CASE ServeMetrics
  BY <1>6 DEF ServeMetrics
<1>7. CASE Exit
  BY <1>7 DEF Exit
<1>8. CASE Sigterm
  BY <1>8 DEF Sigterm
<1>9. ASSUME NEW c \in Calls, Accept(c) PROVE IInv'
  BY <1>9 DEF Accept
<1>10. ASSUME NEW c \in Calls, Finish(c) PROVE IInv'
  <2>1. TypeOK'
    BY <1>10 DEF Finish
  <2>2. Open' \subseteq Open
    BY <1>10 DEF Finish
  <2> QED
    BY <1>10, <2>1, <2>2 DEF Finish
<1>11. CASE UNCHANGED vars
  BY <1>11 DEF vars
<1> QED
  BY <1>1, <1>2, <1>3, <1>4, <1>5, <1>6, <1>7, <1>8, <1>9, <1>10, <1>11 DEF Next, Tasks

(* The invariant holds throughout a life of the process, fair or not.      *)
THEOREM Invariant == Spec => []IInv
<1>1. Init => IInv
  BY InitIInv
<1>2. IInv /\ [Next]_vars => IInv'
  BY NextIInv
<1> QED
  BY <1>1, <1>2, PTL DEF Spec

(* The tasks, the calls and the process keep to their states.              *)
THEOREM TypeCorrect == Spec => []TypeOK
<1>1. IInv => TypeOK
  BY DEF IInv
<1> QED
  BY <1>1, Invariant, PTL

(* A process that ends of itself has answered every call it accepted: the  *)
(* drain of serve_with_shutdown, whatever the metrics server does.         *)
THEOREM CallsFinish == Spec => []AcceptedCallsFinish
<1>1. IInv => AcceptedCallsFinish
  BY DEF IInv, OpenNeedsServer, EndHasCause, AcceptedCallsFinish
<1> QED
  BY <1>1, Invariant, PTL

(* A process that exits normally lost no server: CLI::execute panics on    *)
(* the error of any task.                                                  *)
THEOREM FailureIsTold == Spec => []ExitTellsFailure
<1>1. IInv => ExitTellsFailure
  BY DEF IInv, ShutDownHasCause, EndHasCause, ExitTellsFailure
<1> QED
  BY <1>1, Invariant, PTL
=============================================================================
