---------------------------- MODULE LifecycleProofs ----------------------------
(* Proofs about Lifecycle: the five commands, any number of requests at once.  *)
EXTENDS Lifecycle, TLAPS

States == {"none", "select", "serving", "draining", "dialling", "connected", "sleeping", "done"}

(* Nothing runs before the command starts it.                                  *)
NotYetStarted ==
    /\ main = "init" => \A t \in Tasks : pc[t] = "none"
    /\ main = "sync" => \A t \in Tasks \ {"manager"} : pc[t] = "none"

(* The command waits for a task, or is on its way out for a cause; and no task *)
(* has ended without one.                                                      *)
WaitsForSomething ==
    /\ main = "wait" => cause # "none" \/ \E t \in Tasks : pc[t] # "none"
    /\ \A t \in Tasks : pc[t] = "done" => cause # "none"

(* A server that is not running has answered, or given up on, what it had.     *)
IdleIsAnswered ==
    \A t \in Servers :
        /\ pc[t] \in {"none", "select"} => inflight[t] = 0
        /\ pc[t] = "done" => inflight[t] = 0 \/ t \in abandoned

LifeInv ==
    /\ TypeOK /\ NotYetStarted /\ WaitsForSomething /\ IdleIsAnswered
    /\ StopsForACause /\ AnsweredBeforeExit

LEMMA GroupFacts ==
  /\ Group \subseteq Tasks
  /\ Group \ {"manager"} # {}
  BY DEF Group, Tasks, Servers, HttpTasks

LEMMA LifeInit == Init => LifeInv
<1> SUFFICES ASSUME Init PROVE LifeInv
  OBVIOUS
<1>1. TypeOK
  <2>1. \A t \in Tasks \ Group : pc[t] = "none"
    BY DEF Init
  <2>2. inflight \in [Servers -> 0 .. MaxRequests]
    BY MaxRequestsIsNat DEF Init
  <2>3. cancelled \in BOOLEAN /\ erred \in [Tasks -> BOOLEAN]
    BY DEF Init
  <2>4. pc \in [Tasks -> States]
    BY DEF Init, States
  <2>5. QED
    BY <2>1, <2>2, <2>3, <2>4 DEF Init, TypeOK, States
<1>2. NotYetStarted /\ WaitsForSomething /\ StopsForACause /\ AnsweredBeforeExit
  BY DEF Init, NotYetStarted, WaitsForSomething, StopsForACause, AnsweredBeforeExit
<1>3. IdleIsAnswered
  BY DEF Init, IdleIsAnswered, Tasks
<1>4. QED
  BY <1>1, <1>2, <1>3 DEF LifeInv

--------------------------------------------------------------------------------
(* The command's own steps.                                                    *)

LEMMA EarlyExitsKeep ==
  ASSUME LifeInv, Panic \/ SetupFails \/ SyncFails
  PROVE  LifeInv'
<1>1. /\ UNCHANGED <<command, managed, cancelled, signals, pc, erred, inflight, abandoned>>
      /\ main \in {"init", "sync"} /\ main' \in {"wait", "exited"}
  BY DEF Panic, SetupFails, SyncFails, serving
<1>2. cause' \in {"none", "panic", "setup", "signal", "server", "manager"} /\ cause' # "none"
  BY DEF Panic, SetupFails, SyncFails, Blame, LifeInv, TypeOK, StopsForACause
<1>3. TypeOK'
  BY <1>1, <1>2 DEF LifeInv, TypeOK, Group, Managed
<1>4. NotYetStarted' /\ WaitsForSomething' /\ IdleIsAnswered' /\ StopsForACause'
  BY <1>1, <1>2 DEF LifeInv, NotYetStarted, WaitsForSomething, IdleIsAnswered, StopsForACause
<1>5. \A t \in HttpTasks : inflight[t] = 0
  BY <1>1 DEF LifeInv, NotYetStarted, IdleIsAnswered, Servers, HttpTasks, Tasks
<1>6. AnsweredBeforeExit'
  BY <1>1, <1>5 DEF AnsweredBeforeExit
<1>7. QED
  BY <1>3, <1>4, <1>6 DEF LifeInv

LEMMA StartsKeep ==
  ASSUME LifeInv, StartManager \/ StartServers
  PROVE  LifeInv'
<1>1. /\ UNCHANGED <<command, managed, cancelled, signals, erred, inflight, abandoned, cause>>
      /\ main \in {"init", "sync"} /\ main' \in {"sync", "wait"}
      /\ main' = "sync" => main = "init"
  BY DEF StartManager, StartServers, serving
<1>2. PICK T \in SUBSET Group :
         /\ pc' = [t \in Tasks |-> IF t \in T THEN "select" ELSE pc[t]]
         /\ main' = "sync" => T \subseteq {"manager"}
         /\ main' = "wait" => T # {}
  BY GroupFacts DEF StartManager, StartServers, Started
<1>3. TypeOK'
  BY <1>1, <1>2, GroupFacts DEF LifeInv, TypeOK, Group, Managed
<1>4. NotYetStarted'
  BY <1>1, <1>2 DEF LifeInv, NotYetStarted
<1>5. WaitsForSomething'
  BY <1>1, <1>2, GroupFacts DEF LifeInv, WaitsForSomething
<1>6. IdleIsAnswered'
  BY <1>1, <1>2 DEF LifeInv, NotYetStarted, IdleIsAnswered, Tasks, Servers, HttpTasks
<1>7. StopsForACause' /\ AnsweredBeforeExit'
  BY <1>1 DEF LifeInv, StopsForACause, AnsweredBeforeExit
<1>8. QED
  BY <1>3, <1>4, <1>5, <1>6, <1>7 DEF LifeInv

LEMMA ExitKeeps ==
  ASSUME LifeInv, Exit
  PROVE  LifeInv'
<1>1. /\ UNCHANGED <<command, managed, signals, pc, erred, inflight, abandoned, cause>>
      /\ main = "wait" /\ main' = "exited" /\ cancelled' = TRUE
      /\ \A t \in Tasks : pc[t] \in {"none", "done"}
  BY DEF Exit, serving
<1>2. cause # "none"
  BY <1>1 DEF LifeInv, WaitsForSomething
<1>3. \A t \in HttpTasks : inflight[t] = 0 \/ t \in abandoned
  BY <1>1 DEF LifeInv, IdleIsAnswered, Tasks, Servers
<1>4. TypeOK'
  BY <1>1 DEF LifeInv, TypeOK, Group, Managed
<1>5. QED
  BY <1>1, <1>2, <1>3, <1>4
     DEF LifeInv, NotYetStarted, WaitsForSomething, IdleIsAnswered, StopsForACause,
         AnsweredBeforeExit

LEMMA SignalsKeep ==
  ASSUME LifeInv, Signal \/ SecondSignal
  PROVE  LifeInv'
<1>1. /\ UNCHANGED <<command, managed, pc, erred, inflight, abandoned>>
      /\ signals' \in {1, 2} /\ (main' = main \/ (main' = "exited" /\ signals' = 2))
      /\ main # "exited"
  BY DEF Signal, SecondSignal, serving
<1>2. /\ cause' \in {"none", "panic", "setup", "signal", "server", "manager"}
      /\ cause # "none" => cause' # "none"
      /\ cancelled' \in BOOLEAN
      /\ cancelled' => cause' # "none"
  <2>1. CASE Signal
    BY <2>1 DEF Signal, Blame, LifeInv, TypeOK
  <2>2. CASE SecondSignal
    BY <2>2 DEF SecondSignal, LifeInv, TypeOK, StopsForACause
  <2>3. QED
    BY <2>1, <2>2
<1>3. TypeOK'
  <2>1. main' \in {"init", "sync", "wait", "exited"} /\ signals' \in 0 .. 2
    BY <1>1 DEF LifeInv, TypeOK
  <2>2. Group' = Group /\ Managed' = Managed
    BY <1>1 DEF Group, Managed
  <2>3. QED
    BY <1>1, <1>2, <2>1, <2>2 DEF LifeInv, TypeOK
<1>4. NotYetStarted' /\ WaitsForSomething' /\ IdleIsAnswered'
  BY <1>1, <1>2 DEF LifeInv, NotYetStarted, WaitsForSomething, IdleIsAnswered
<1>5. StopsForACause'
  BY <1>2 DEF StopsForACause
<1>6. AnsweredBeforeExit'
  BY <1>1 DEF AnsweredBeforeExit
<1>7. QED
  BY <1>3, <1>4, <1>5, <1>6 DEF LifeInv

--------------------------------------------------------------------------------
(* The servers.                                                                *)

(* A step of a task changes its place, and no other's.                         *)
LEMMA Moved ==
  ASSUME TypeOK, NEW t \in Group, NEW from, NEW to \in States, At(t, from, to)
  PROVE  /\ pc[t] = from /\ pc'[t] = to
         /\ \A u \in Tasks : u # t => pc'[u] = pc[u]
         /\ pc' \in [Tasks -> States]
  BY GroupFacts DEF TypeOK, At, States

LEMMA RunningIsInGroup ==
  ASSUME TypeOK, NEW t \in Tasks, pc[t] # "none"
  PROVE  t \in Group
  BY DEF TypeOK

(* What is left to show of a step of a task that says nothing of the command:  *)
(* that it leaves its server answered, and the context a cause.                *)
LEMMA TaskKeeps ==
  ASSUME LifeInv, main # "exited", NEW t \in Group, NEW from \in States \ {"none"},
         NEW to \in States \ {"none"}, At(t, from, to),
         UNCHANGED <<command, managed, main, signals>>,
         erred' \in [Tasks -> BOOLEAN], abandoned \subseteq abandoned',
         abandoned' \subseteq HttpTasks,
         inflight' = inflight,
         cause' \in {"none", "panic", "setup", "signal", "server", "manager"},
         cause # "none" => cause' # "none",
         cancelled' \in BOOLEAN, cancelled' \/ to = "done" => cause' # "none",
         t \in Servers /\ to \in {"select", "done"} =>
            inflight[t] = 0 \/ (to = "done" /\ t \in abandoned')
  PROVE  LifeInv'
<1>1. /\ pc[t] = from /\ pc'[t] = to
      /\ \A u \in Tasks : u # t => pc'[u] = pc[u]
      /\ pc' \in [Tasks -> States]
  BY Moved DEF LifeInv
<1>2. Group' = Group /\ Managed' = Managed
  BY DEF Group, Managed
<1>3. TypeOK'
  BY <1>1, <1>2, GroupFacts DEF LifeInv, TypeOK, States
<1>4. NotYetStarted' /\ WaitsForSomething'
  BY <1>1, GroupFacts DEF LifeInv, NotYetStarted, WaitsForSomething
<1>5. IdleIsAnswered'
  BY <1>1 DEF LifeInv, IdleIsAnswered, Tasks
<1>6. StopsForACause' /\ AnsweredBeforeExit'
  BY DEF StopsForACause, AnsweredBeforeExit
<1>7. QED
  BY <1>3, <1>4, <1>5, <1>6 DEF LifeInv

(* The steps of the loops: nothing ends, or the context is cancelled already.  *)
LEMMA QuietStepsKeep ==
  ASSUME LifeInv, main # "exited", NEW t \in Tasks, NEW from \in States \ {"none"},
         NEW to \in States \ {"none"}, At(t, from, to),
         UNCHANGED <<command, managed, main, cancelled, signals, inflight, abandoned, cause>>,
         erred' \in [Tasks -> BOOLEAN],
         to = "done" => cancelled,
         t \in Servers /\ to \in {"select", "done"} => inflight[t] = 0
  PROVE  LifeInv'
<1>1. t \in Group
  BY RunningIsInGroup DEF LifeInv, At
<1>2. cancelled \/ to = "done" => cause # "none"
  BY DEF LifeInv, StopsForACause
<1>3. /\ abandoned \subseteq HttpTasks
      /\ cause \in {"none", "panic", "setup", "signal", "server", "manager"}
      /\ cancelled \in BOOLEAN
  BY DEF LifeInv, TypeOK
<1>4. QED
  BY <1>1, <1>2, <1>3, TaskKeeps

(* A task that returns and cancels the context.                                *)
LEMMA ReturnsKeep ==
  ASSUME LifeInv, main # "exited", NEW t \in Tasks, NEW from \in States \ {"none"},
         NEW why \in {"none", "server", "manager"}, ReturnsCancelling(t, from, why),
         UNCHANGED <<command, managed, main, signals, erred, inflight>>,
         abandoned \subseteq abandoned', abandoned' \subseteq HttpTasks,
         why = "none" => cancelled,
         t \in Servers => inflight[t] = 0 \/ t \in abandoned'
  PROVE  LifeInv'
<1>1. At(t, from, "done") /\ cancelled' = TRUE /\ Blame(why)
  BY DEF ReturnsCancelling
<1>2. t \in Group
  BY <1>1, RunningIsInGroup DEF LifeInv, At
<1>3. cause' \in {"none", "panic", "setup", "signal", "server", "manager"}
  BY <1>1 DEF Blame, LifeInv, TypeOK
<1>4. cause' # "none"
  BY <1>1 DEF Blame, LifeInv, StopsForACause
<1>5. erred' \in [Tasks -> BOOLEAN] /\ "done" \in States \ {"none"}
  BY DEF LifeInv, TypeOK, States
<1>6. QED
  BY <1>1, <1>2, <1>3, <1>4, <1>5, TaskKeeps

LEMMA ServersKeep ==
  ASSUME LifeInv, main # "exited", NEW t \in Servers,
         ServerEnds(t) \/ ServeFails(t)
  PROVE  LifeInv'
<1> USE DEF States
<1>1. /\ t \in Tasks /\ erred \in [Tasks -> BOOLEAN] /\ abandoned \subseteq HttpTasks
      /\ inflight[t] \in 0 .. MaxRequests
      /\ pc[t] = "select" => inflight[t] = 0
  BY DEF LifeInv, TypeOK, IdleIsAnswered, Tasks
<1>2. CASE Serve(t)
  BY <1>1, <1>2, QuietStepsKeep DEF Serve, serving
<1>3. CASE LoopEnds(t)
  <2>1. pc[t] = "select" /\ cancelled
    BY <1>3 DEF LoopEnds, ReturnsCancelling, At
  <2>2. QED
    BY <1>1, <1>3, <2>1, ReturnsKeep DEF LoopEnds, serving
<1>4. CASE Shutdown(t)
  BY <1>1, <1>4, QuietStepsKeep DEF Shutdown, serving
<1>5. CASE Drained(t)
  <2>1. CASE Looped /\ ~erred[t]
    BY <1>1, <1>5, <2>1, QuietStepsKeep DEF Drained, serving
  <2>2. CASE ~(Looped /\ ~erred[t])
    BY <1>1, <1>5, <2>2, ReturnsKeep DEF Drained, serving
  <2>3. QED
    BY <2>1, <2>2
<1>6. CASE DrainTimesOut(t)
  BY <1>1, <1>6, ReturnsKeep DEF DrainTimesOut
<1>7. CASE ServeFails(t)
  BY <1>1, <1>7, QuietStepsKeep DEF ServeFails, serving
<1>8. QED
  BY <1>2, <1>3, <1>4, <1>5, <1>6, <1>7 DEF ServerEnds

LEMMA RequestsKeep ==
  ASSUME LifeInv, main # "exited", NEW t \in Servers, Accept(t) \/ Complete(t)
  PROVE  LifeInv'
<1>1. UNCHANGED <<command, managed, main, cancelled, signals, pc, erred, abandoned, cause>>
  BY DEF Accept, Complete
<1>2. PICK n \in 0 .. MaxRequests :
        /\ inflight' = [inflight EXCEPT ![t] = n]
        /\ pc[t] # "serving" => inflight[t] # 0
  BY MaxRequestsIsNat DEF Accept, Complete, LifeInv, TypeOK
<1>3. TypeOK'
  BY <1>1, <1>2 DEF LifeInv, TypeOK, Group, Managed
<1>4. IdleIsAnswered'
  BY <1>1, <1>2 DEF LifeInv, TypeOK, IdleIsAnswered
<1>5. NotYetStarted' /\ WaitsForSomething'
  BY <1>1 DEF LifeInv, NotYetStarted, WaitsForSomething
<1>6. StopsForACause' /\ AnsweredBeforeExit'
  BY <1>1 DEF LifeInv, StopsForACause, AnsweredBeforeExit
<1>7. QED
  BY <1>3, <1>4, <1>5, <1>6 DEF LifeInv

--------------------------------------------------------------------------------
(* The manager, the monitor, and the sidecar's connection.                     *)

LEMMA OthersKeep ==
  ASSUME LifeInv, main # "exited", ManagerEnds \/ MonitorEnds \/ StreamTask \/ StreamBreaks
  PROVE  LifeInv'
<1> USE DEF States
<1>1. /\ {"manager", "monitor", "stream"} \subseteq Tasks
      /\ "manager" \notin Servers /\ "monitor" \notin Servers /\ "stream" \notin Servers
      /\ erred \in [Tasks -> BOOLEAN] /\ abandoned \subseteq HttpTasks
  BY DEF LifeInv, TypeOK, Tasks, Servers, HttpTasks
<1>2. CASE ManagerEnds
  BY <1>1, <1>2, ReturnsKeep DEF ManagerEnds, serving
<1>3. CASE MonitorEnds
  BY <1>1, <1>3, QuietStepsKeep DEF MonitorEnds, serving
<1>4. CASE Dial \/ Connected \/ StartFails
  BY <1>1, <1>4, QuietStepsKeep DEF Dial, Connected, StartFails, StreamStep, serving
<1>5. CASE Wakes \/ StreamEnds \/ StreamBreaks
  BY <1>1, <1>5, QuietStepsKeep DEF Wakes, StreamEnds, StreamBreaks, StreamStep, serving
<1>6. QED
  BY <1>2, <1>3, <1>4, <1>5 DEF StreamTask

LEMMA LifeInductive == LifeInv /\ [Next]_vars => LifeInv'
<1> SUFFICES ASSUME LifeInv, [Next]_vars PROVE LifeInv'
  OBVIOUS
<1>1. CASE UNCHANGED vars
  <2>1. Group' = Group /\ Managed' = Managed
    BY <1>1 DEF vars, Group, Managed
  <2>2. TypeOK'
    BY <1>1, <2>1 DEF vars, LifeInv, TypeOK
  <2>3. QED
    BY <1>1, <2>2
       DEF vars, LifeInv, NotYetStarted, WaitsForSomething, IdleIsAnswered, StopsForACause,
           AnsweredBeforeExit
<1>2. CASE Next
  BY <1>2, EarlyExitsKeep, StartsKeep, ExitKeeps, SignalsKeep, ServersKeep, RequestsKeep,
     OthersKeep
     DEF Next, CommandStep
<1>3. QED
  BY <1>1, <1>2

LEMMA LifeCorrect == Spec => []LifeInv
  BY LifeInit, LifeInductive, PTL DEF Spec

--------------------------------------------------------------------------------
(* Every process keeps to the tasks of its command, and its servers to their   *)
(* states.                                                                     *)
THEOREM LifecycleTypeCorrect == Spec => []TypeOK
<1>1. LifeInv => TypeOK
  BY DEF LifeInv
<1>2. QED
  BY <1>1, LifeCorrect, PTL

(* No process stops by itself: the context is cancelled only for a signal, a   *)
(* failed setup, a server or the manager that ended.                           *)
THEOREM ProcessesStopForACause == Spec => []StopsForACause
<1>1. LifeInv => StopsForACause
  BY DEF LifeInv
<1>2. QED
  BY <1>1, LifeCorrect, PTL

(* However many requests its servers have when the process is told to stop, it *)
(* answers each of them, or waits ten seconds for it, before it exits.         *)
THEOREM RequestsAreAnsweredBeforeExit == Spec => []AnsweredBeforeExit
<1>1. LifeInv => AnsweredBeforeExit
  BY DEF LifeInv
<1>2. QED
  BY <1>1, LifeCorrect, PTL
================================================================================
