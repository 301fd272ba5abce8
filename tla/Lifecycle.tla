-------------------------------- MODULE Lifecycle ------------------------------
(* The life of a process of kyverno-http-authorizer, from its command to its   *)
(* exit: the tasks of its wait group, the context that stops them, the servers *)
(* that drain what they are answering, and the loop that keeps a sidecar       *)
(* connected to the control plane.                                             *)
EXTENDS Integers, FiniteSets

CONSTANTS
    Commands,    \* the commands the process may be started with
    MaxRequests  \* bound: requests, or streams, that a server has at once

ASSUME CommandsAreKnown ==
    Commands \subseteq {"control-plane", "sidecar", "standalone", "webhook", "injector"}
ASSUME MaxRequestsIsNat == MaxRequests \in Nat

VARIABLES
    command,    \* what the process was started as
    managed,    \* and whether it runs a controller manager
    main,       \* where the command stands
    cancelled,  \* its context is cancelled
    signals,    \* the signals received; the second one kills
    pc,         \* where each task stands
    erred,      \* the server of the task returned an error
    inflight,   \* the requests, or streams, a server is handling
    abandoned,  \* history: tasks whose server gave up on requests
    cause       \* history: why the context was cancelled, or the process died

(* What a process runs beside its command's own goroutine.                     *)
HttpTasks == {"probes", "auth", "mutate"}
Servers == HttpTasks \cup {"grpc"}
Tasks == Servers \cup {"manager", "monitor", "stream"}

(* The webhook has a manager, and the control plane and the standalone server  *)
(* have one unless they are told not to (kube-policy-source=false).            *)
Managed ==
    (IF command \in {"webhook", "control-plane", "standalone"} THEN {TRUE} ELSE {})
    \cup (IF command # "webhook" THEN {FALSE} ELSE {})

(* The tasks of the command's wait group.  The sidecar injector has none: its  *)
(* server is run by the command itself.                                        *)
Group ==
    IF command = "injector" THEN {"mutate"} ELSE
    {"probes"}
    \cup (IF command \in {"sidecar", "standalone"} THEN {"auth"} ELSE {})
    \cup (IF command = "control-plane" THEN {"grpc", "monitor"} ELSE {})
    \cup (IF command = "sidecar" THEN {"stream"} ELSE {})
    \cup (IF managed THEN {"manager"} ELSE {})

(* The sidecar and the standalone server run a server again when it returns.   *)
Looped == command \in {"sidecar", "standalone"}

vars == <<command, managed, main, cancelled, signals, pc, erred, inflight, abandoned, cause>>
serving == <<inflight, abandoned>>

Init ==
    /\ command \in Commands
    /\ managed \in Managed
    /\ main = "init"
    /\ cancelled = FALSE
    /\ signals = 0
    /\ pc = [t \in Tasks |-> "none"]
    /\ erred = [t \in Tasks |-> FALSE]
    /\ inflight = [t \in Servers |-> 0]
    /\ abandoned = {}
    /\ cause = "none"

At(t, from, to) ==
    /\ pc[t] = from
    /\ pc' = [pc EXCEPT ![t] = to]

Blame(why) == cause' = IF cause = "none" THEN why ELSE cause

(* The task returns, and its deferred cancel runs.                             *)
ReturnsCancelling(t, from, why) ==
    /\ At(t, from, "done")
    /\ cancelled' = TRUE
    /\ Blame(why)

--------------------------------------------------------------------------------
(* The command.                                                                *)

(* The sidecar reads a kubeconfig at a path of its source, which the host may  *)
(* have or not, and goes on without looking at the error: a nil config makes   *)
(* dynamic.NewForConfig panic.                                                 *)
Panic ==
    /\ main = "init"
    /\ command = "sidecar"
    /\ main' = "exited"
    /\ Blame("panic")
    /\ UNCHANGED <<command, managed, cancelled, signals, pc, erred, serving>>

(* A config, a client, a provider or the manager cannot be made: the command   *)
(* returns an error before it has started any task.                            *)
SetupFails ==
    /\ main = "init"
    /\ command # "injector"
    /\ main' = "wait"
    /\ Blame("setup")
    /\ UNCHANGED <<command, managed, cancelled, signals, pc, erred, serving>>

Started(tasks) == [t \in Tasks |-> IF t \in tasks THEN "select" ELSE pc[t]]

(* The manager, where there is one, is started first.                          *)
StartManager ==
    /\ main = "init"
    /\ managed
    /\ main' = "sync"
    /\ pc' = Started(Group \cap {"manager"})
    /\ UNCHANGED <<command, managed, cancelled, signals, erred, serving, cause>>

StartServers ==
    /\ main = IF managed THEN "sync" ELSE "init"
    /\ main' = "wait"
    /\ pc' = Started(Group \ {"manager"})
    /\ UNCHANGED <<command, managed, cancelled, signals, erred, serving, cause>>

(* WaitForCacheSync gives up when the context is cancelled: the command        *)
(* returns an error, after it has waited for the manager.                      *)
SyncFails ==
    /\ main = "sync"
    /\ cancelled
    /\ main' = "wait"
    /\ UNCHANGED <<command, managed, cancelled, signals, pc, erred, serving, cause>>

(* group.Wait, and the context is cancelled on the way out.                    *)
Exit ==
    /\ main = "wait"
    /\ \A t \in Tasks : pc[t] \in {"none", "done"}
    /\ main' = "exited"
    /\ cancelled' = TRUE
    /\ UNCHANGED <<command, managed, signals, pc, erred, serving, cause>>

(* SIGINT or SIGTERM cancels the context and restores the default behaviour.   *)
Signal ==
    /\ signals = 0
    /\ main # "exited"
    /\ signals' = 1
    /\ cancelled' = TRUE
    /\ Blame("signal")
    /\ UNCHANGED <<command, managed, main, pc, erred, serving>>

SecondSignal ==
    /\ signals = 1
    /\ main # "exited"
    /\ signals' = 2
    /\ main' = "exited"
    /\ UNCHANGED <<command, managed, cancelled, pc, erred, serving, cause>>

--------------------------------------------------------------------------------
(* The servers: RunHttp, and RunGrpc.                                          *)

(* Mutant: the loop does not look at the context.                              *)
ServeAnyway(t) ==
    /\ At(t, "select", "serving")
    /\ UNCHANGED <<command, managed, main, cancelled, signals, erred, serving, cause>>

(* The select of the loop; a task without a loop just runs its server.         *)
Serve(t) ==
    /\ ~(Looped /\ cancelled)
    /\ At(t, "select", "serving")
    /\ UNCHANGED <<command, managed, main, cancelled, signals, erred, serving, cause>>

LoopEnds(t) ==
    /\ Looped /\ cancelled
    /\ ReturnsCancelling(t, "select", "none")
    /\ UNCHANGED <<command, managed, main, signals, erred, serving>>

Accept(t) ==
    /\ pc[t] = "serving"
    /\ inflight[t] < MaxRequests
    /\ inflight' = [inflight EXCEPT ![t] = @ + 1]
    /\ UNCHANGED <<command, managed, main, cancelled, signals, pc, erred, abandoned, cause>>

(* Mutant: a request that was given up is counted down again.                  *)
CompleteTwice(t) ==
    /\ inflight' = [inflight EXCEPT ![t] = @ - 1]
    /\ UNCHANGED <<command, managed, main, cancelled, signals, pc, erred, abandoned, cause>>

(* The answer is written, or the sidecar closes its stream: the handler of a   *)
(* stream sits in Recv and does not see that the context is cancelled.         *)
Complete(t) ==
    /\ inflight[t] > 0
    /\ inflight' = [inflight EXCEPT ![t] = @ - 1]
    /\ UNCHANGED <<command, managed, main, cancelled, signals, pc, erred, abandoned, cause>>

(* The address is taken, or accepting fails: the server's own context is       *)
(* cancelled, and what it is handling is drained first.                        *)
ServeFails(t) ==
    /\ At(t, "serving", "draining")
    /\ erred' = [erred EXCEPT ![t] = TRUE]
    /\ UNCHANGED <<command, managed, main, cancelled, signals, serving, cause>>

(* Shutdown or GracefulStop: nothing more is accepted.                         *)
Shutdown(t) ==
    /\ cancelled
    /\ At(t, "serving", "draining")
    /\ UNCHANGED <<command, managed, main, cancelled, signals, erred, serving, cause>>

(* Mutant: Run returns as soon as ListenAndServe does.                         *)
DrainedNotAwaited(t) ==
    /\ pc[t] = "draining"
    /\ IF Looped /\ ~erred[t]
       THEN At(t, "draining", "select") /\ UNCHANGED <<cancelled, cause>>
       ELSE ReturnsCancelling(t, "draining", "server")
    /\ UNCHANGED <<command, managed, main, signals, erred, serving>>

(* Nothing is left to answer: the server's Run returns.  After an error, or    *)
(* without a loop, the task ends.                                              *)
Drained(t) ==
    /\ inflight[t] = 0
    /\ IF Looped /\ ~erred[t]
       THEN At(t, "draining", "select") /\ UNCHANGED <<cancelled, cause>>
       ELSE ReturnsCancelling(t, "draining", "server")
    /\ UNCHANGED <<command, managed, main, signals, erred, serving>>

(* The HTTP servers wait ten seconds, and Run returns an error then.           *)
DrainTimesOut(t) ==
    /\ t \in HttpTasks
    /\ inflight[t] > 0
    /\ ReturnsCancelling(t, "draining", "server")
    /\ abandoned' = abandoned \cup {t}
    /\ UNCHANGED <<command, managed, main, signals, erred, inflight>>

--------------------------------------------------------------------------------
(* The controller manager, and the monitor of the clients.                     *)
ManagerEnds ==
    /\ ReturnsCancelling("manager", "select", "manager")
    /\ UNCHANGED <<command, managed, main, signals, erred, serving>>

MonitorEnds ==
    /\ cancelled
    /\ At("monitor", "select", "done")
    /\ UNCHANGED <<command, managed, main, cancelled, signals, erred, serving, cause>>

--------------------------------------------------------------------------------
(* The sidecar's connection: provider.Start, again and again.                  *)
StreamStep == UNCHANGED <<command, managed, main, cancelled, signals, erred, serving, cause>>

Dial == ~cancelled /\ At("stream", "select", "dialling") /\ StreamStep
Connected == At("stream", "dialling", "connected") /\ StreamStep

(* Mutant: the first connection that fails ends the loop.                      *)
StartFailsForGood == At("stream", "dialling", "done") /\ StreamStep

(* Start returns an error, and the loop sleeps for ten seconds.                *)
StartFails == At("stream", "dialling", "sleeping") /\ StreamStep
Wakes == At("stream", "sleeping", "select") /\ StreamStep

(* Mutant: the loop is left with the deferred cancel of its neighbours.        *)
StreamBreaksCancelling ==
    /\ ReturnsCancelling("stream", "connected", "none")
    /\ UNCHANGED <<command, managed, main, signals, erred, serving>>

(* Recv fails, when the control plane goes or the context is cancelled: Start  *)
(* returns nil, and is called again at once.                                   *)
StreamBreaks == At("stream", "connected", "select") /\ StreamStep

StreamEnds == cancelled /\ At("stream", "select", "done") /\ StreamStep

--------------------------------------------------------------------------------
CommandStep == Panic \/ SetupFails \/ StartManager \/ StartServers \/ SyncFails \/ Exit

ServerEnds(t) ==
    \/ Serve(t) \/ LoopEnds(t) \/ Shutdown(t) \/ Drained(t)
    \/ DrainTimesOut(t)

StreamTask ==
    \/ Dial \/ Connected \/ StartFails \/ Wakes \/ StreamEnds

Next ==
    /\ main # "exited"
    /\ \/ CommandStep \/ Signal \/ SecondSignal
       \/ \E t \in Servers : ServerEnds(t) \/ Accept(t) \/ Complete(t) \/ ServeFails(t)
       \/ ManagerEnds \/ MonitorEnds
       \/ StreamTask \/ StreamBreaks

Spec == Init /\ [][Next]_vars

Alive(A) == main # "exited" /\ A
Stopping(A) == main # "exited" /\ cancelled /\ A

(* Every task that can go on does.  A server need not fail, a request need not *)
(* be answered and a stream need not break, except that cancelling the context *)
(* ends the sidecar's Recv and the manager's Start.                            *)
FairSpec ==
    /\ Spec
    /\ WF_vars(Alive(CommandStep))
    /\ \A t \in Servers : WF_vars(Alive(ServerEnds(t)))
    /\ WF_vars(Alive(StreamTask)) /\ WF_vars(Stopping(StreamBreaks))
    /\ WF_vars(Stopping(ManagerEnds)) /\ WF_vars(Stopping(MonitorEnds))

--------------------------------------------------------------------------------
(* Types; what has ended has ended for a reason.                               *)
TypeOK ==
    /\ command \in Commands /\ managed \in Managed
    /\ main \in {"init", "sync", "wait", "exited"}
    /\ cancelled \in BOOLEAN
    /\ signals \in 0 .. 2
    /\ \A t \in Tasks \ Group : pc[t] = "none"
    /\ pc \in [Tasks -> {"none", "select", "serving", "draining", "dialling", "connected",
                         "sleeping", "done"}]
    /\ erred \in [Tasks -> BOOLEAN]
    /\ inflight \in [Servers -> 0 .. MaxRequests]
    /\ abandoned \subseteq HttpTasks
    /\ cause \in {"none", "panic", "setup", "signal", "server", "manager"}

(* A process stops because it was told to, could not be set up, or lost a      *)
(* server or its manager: a sidecar outlives every outage of its control       *)
(* plane, however often its connection fails or breaks.  (That a goroutine of  *)
(* the control plane's sender may panic is left to FanOut.)                    *)
StopsForACause == cancelled => cause # "none"

(* A process that is not killed answers every request it has accepted before   *)
(* it exits, or has waited for the request as long as it may: RunHttp does not *)
(* return when ListenAndServe does, but when Shutdown does.                    *)
AnsweredBeforeExit ==
    main = "exited" /\ signals < 2 =>
        \A t \in HttpTasks : inflight[t] = 0 \/ t \in abandoned

(* One task that ends takes the others with it, and a signal all of them: the  *)
(* context that is cancelled stops every task, and the process exits.  Only    *)
(* the control plane may stay, in a GracefulStop that waits for streams that   *)
(* their sidecars do not close.                                                *)
ExitsOnceCancelled == cancelled ~> main = "exited" \/ inflight["grpc"] > 0

(* While it is not being stopped, a sidecar is connected to the control plane  *)
(* or comes to dial it again.                                                  *)
KeepsDialling ==
    main = "wait" /\ pc["stream"] # "none" ~>
        cancelled \/ main = "exited" \/ pc["stream"] \in {"dialling", "connected"}
================================================================================
