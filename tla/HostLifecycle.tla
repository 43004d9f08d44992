---------------------------- MODULE HostLifecycle ----------------------------
(***************************************************************************)
(* The life of a host process (parser/host, CLI::execute and Host::listen; *)
(* metrics, Server::serve): the task that serves gRPC, the task it spawns  *)
(* to wait for SIGTERM, the task that serves the metrics if they are       *)
(* enabled, and main, which joins the first and the third before it looks  *)
(* at how either ended.                                                    *)
(***************************************************************************)
CONSTANTS
  Calls,     \* gRPC calls clients make, each at most once
  Watches    \* those that last until the client leaves

ASSUME WatchesAssumption == Watches \subseteq Calls

VARIABLES
  metricsOn, \* --metrics
  host,      \* the task that runs Host::listen
  handler,   \* the task that runs wait_for_sigterm
  metrics,   \* the task that runs Server::serve
  call,      \* call[c]
  process    \* the process, or how it ended

vars == <<metricsOn, host, handler, metrics, call, process>>

Running == process = "running"
Open == {c \in Calls : call[c] = "open"}

-----------------------------------------------------------------------------
(* CLI::execute spawns the tasks.                                          *)
Init ==
  /\ metricsOn \in BOOLEAN
  /\ host = "spawned"
  /\ handler = "none"
  /\ metrics = IF metricsOn THEN "spawned" ELSE "off"
  /\ call = [c \in Calls |-> "none"]
  /\ process = "running"

(* Host::listen builds the client and the services, any of which may       *)
(* panic, and spawns the signal task.                                      *)
ListenBegin ==
  /\ Running
  /\ host = "spawned"
  /\ \/ host' = "binding" /\ handler' = "spawned"
     \/ host' = "panicked" /\ UNCHANGED handler
  /\ UNCHANGED <<metricsOn, metrics, call, process>>

(* tonic binds the address, or `expect` turns its error into a panic of    *)
(* the task.                                                               *)
Bind ==
  /\ Running
  /\ host = "binding"
  /\ host' \in {"serving", "panicked"}
  /\ UNCHANGED <<metricsOn, handler, metrics, call, process>>

(* The signal handler is installed; if that fails the task panics, and     *)
(* with it goes the sender that tells the host to shut down.               *)
InstallHandler ==
  /\ Running
  /\ handler = "spawned"
  /\ handler' \in {"waiting", "panicked"}
  /\ UNCHANGED <<metricsOn, host, metrics, call, process>>

(* SIGTERM: the default disposition until the handler is installed; from   *)
(* then on the process never gets it again.                                *)
Sigterm ==
  /\ Running
  /\ \/ handler \in {"none", "spawned", "panicked"}
        /\ process' = "killed"
        /\ UNCHANGED handler
     \/ handler = "waiting"
        /\ handler' = "fired"
        /\ UNCHANGED process
  /\ UNCHANGED <<metricsOn, host, metrics, call>>

(* A mutant of ShutDown: the signal task keeps the sender to itself.       *)
ShutDownIfLost ==
  /\ Running
  /\ host = "serving"
  /\ handler = "panicked"
  /\ host' = "draining"
  /\ UNCHANGED <<metricsOn, handler, metrics, call, process>>

(* Another: the server is dropped where it is.                             *)
ShutDownAtOnce ==
  /\ Running
  /\ host = "serving"
  /\ handler \in {"fired", "panicked"}
  /\ host' = "returned"
  /\ UNCHANGED <<metricsOn, handler, metrics, call, process>>

(* serve_with_shutdown: the receiver has got the message, or has lost its  *)
(* sender.                                                                 *)
ShutDown ==
  /\ Running
  /\ host = "serving"
  /\ handler \in {"fired", "panicked"}
  /\ host' = "draining"
  /\ UNCHANGED <<metricsOn, handler, metrics, call, process>>

(* No new connections are taken; those with open calls are waited for.     *)
Drained ==
  /\ Running
  /\ host = "draining"
  /\ Open = {}
  /\ host' = "returned"
  /\ UNCHANGED <<metricsOn, handler, metrics, call, process>>

Accept(c) ==
  /\ Running
  /\ host = "serving"
  /\ call[c] = "none"
  /\ call' = [call EXCEPT ![c] = "open"]
  /\ UNCHANGED <<metricsOn, host, handler, metrics, process>>

(* The handler of a call returns, or the client of a Watch leaves.         *)
Finish(c) ==
  /\ Running
  /\ call[c] = "open"
  /\ call' = [call EXCEPT ![c] = "closed"]
  /\ UNCHANGED <<metricsOn, host, handler, metrics, process>>

(* The metrics server binds its address, or panics; it never returns.      *)
ServeMetrics ==
  /\ Running
  /\ metrics = "spawned"
  /\ metrics' \in {"serving", "panicked"}
  /\ UNCHANGED <<metricsOn, host, handler, call, process>>

(* A mutant of Exit: a task that was never spawned is waited for.          *)
ExitWithMetrics ==
  /\ Running
  /\ host \in {"returned", "panicked"}
  /\ metrics = "panicked"
  /\ process' = IF "panicked" \in {host, metrics} THEN "panicked" ELSE "exited"
  /\ UNCHANGED <<metricsOn, host, handler, metrics, call>>

(* A mutant of Exit: the results of join_all are dropped.                  *)
ExitSilently ==
  /\ Running
  /\ host \in {"returned", "panicked"}
  /\ metrics \in {"off", "panicked"}
  /\ process' = "exited"
  /\ UNCHANGED <<metricsOn, host, handler, metrics, call>>

(* join_all returns when every task has ended; only then are the results   *)
(* looked at, and `expect` panics on one that is an error.                 *)
Exit ==
  /\ Running
  /\ host \in {"returned", "panicked"}
  /\ metrics \in {"off", "panicked"}
  /\ process' = IF "panicked" \in {host, metrics} THEN "panicked" ELSE "exited"
  /\ UNCHANGED <<metricsOn, host, handler, metrics, call>>

Tasks ==
  \/ ListenBegin
  \/ Bind
  \/ InstallHandler
  \/ ShutDown
  \/ Drained
  \/ ServeMetrics
  \/ Exit

Next ==
  \/ Tasks
  \/ Sigterm
  \/ \E c \in Calls : Accept(c) \/ Finish(c)

Spec == Init /\ [][Next]_vars

(***************************************************************************)
(* The runtime runs every task; a call that is no Watch is answered        *)
(* (ParserPipeline!EveryCallAnswered).  Nobody is obliged to send SIGTERM. *)
(***************************************************************************)
Fairness ==
  /\ WF_vars(ListenBegin)
  /\ WF_vars(Bind)
  /\ WF_vars(InstallHandler)
  /\ WF_vars(ShutDown)
  /\ WF_vars(Drained)
  /\ WF_vars(ServeMetrics)
  /\ WF_vars(Exit)
  /\ \A c \in Calls \ Watches : WF_vars(Finish(c))

FairSpec == Spec /\ Fairness

-----------------------------------------------------------------------------
(* Every variable keeps to the values the code gives it.                   *)
TypeOK ==
  /\ metricsOn \in BOOLEAN
  /\ host \in {"spawned", "binding", "serving", "draining", "returned", "panicked"}
  /\ handler \in {"none", "spawned", "waiting", "fired", "panicked"}
  /\ metrics \in {"off", "spawned", "serving", "panicked"}
  /\ call \in [Calls -> {"none", "open", "closed"}]
  /\ process \in {"running", "exited", "panicked", "killed"}

(* Only a SIGTERM before its handler is there, or a panic of the serving   *)
(* task before it serves, ends the process under a client: a process that  *)
(* ends of itself has answered every call it accepted.                     *)
AcceptedCallsFinish == process \in {"exited", "panicked"} => Open = {}

(* The exit status tells of a failure: a process that exits normally was   *)
(* told to by SIGTERM, or could not install the handler for it, and none   *)
(* of its servers failed.                                                  *)
ExitTellsFailure ==
  process = "exited" =>
    /\ handler \in {"fired", "panicked"}
    /\ host = "returned" /\ metrics = "off"

(* Without the metrics server, SIGTERM ends the process once the clients   *)
(* of Watch streams leave: the bounded calls are waited for, no more.      *)
SigtermEndsHost ==
  (\A c \in Watches : WF_vars(Finish(c))) =>
    (handler = "fired" /\ ~metricsOn ~> ~Running)

(* Without the metrics server, a serving task that failed ends the         *)
(* process.                                                                *)
LoneFailureEndsHost == host = "panicked" /\ ~metricsOn ~> ~Running

(* "Concurrently process the results and panic on error": a host task that *)
(* failed ends the process (the comment in CLI::execute).                  *)
PanicOnError == host = "panicked" ~> ~Running
=============================================================================
