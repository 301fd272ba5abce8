------------------------------ MODULE PolicyStream -----------------------------
(* How a ValidatingPolicy travels in mesh mode: from the cluster, through the  *)
(* controller's work queue and its single worker (meshReconciler), into the    *)
(* control plane's PolicySender, over one gRPC stream for each sidecar, to the *)
(* PolicyListener of every sidecar.  The locks and the listing cache of the    *)
(* sender and of the listener are in SortedStore: here an update is atomic.    *)
EXTENDS PolicyMaps, Bags, BagsExt

CONSTANTS
    Clients,    \* the sidecars, each with a client address of its own
    Ignored,    \* the versions whose evaluation mode is not HTTP
    MaxEdits,   \* bound: the edits of the cluster
    MaxFaults   \* bound: failed reads, lost connections, restarts

ASSUME IgnoredAreVersions == Ignored \subseteq Versions

VARIABLES
    cluster,          \* the policies that exist, as the controller's cache has them
    queue,            \* the names waiting in the work queue
    worker,           \* the reconcile under way
    up,               \* the control plane is running
    senderPolicies,   \* PolicySender.policies
    cxnsMap,          \* PolicySender.cxnsMap: a client's registered stream, or 0
    outgoing,         \* SendPolicy goroutines that have not read cxnsMap yet
    handlers,         \* ValidatingPoliciesStream calls on their way to cxnsMap
    stream,           \* the number of each client's last stream
    linked,           \* that stream is open
    transit,          \* messages on that stream and goroutines sending on it
    received,         \* processPolicy goroutines that have not taken the lock yet
    listenerPolicies, \* PolicyListener.policies
    missed,           \* history: the names whose deletion a sidecar was not told of,
                      \* having no registered stream at the time, or losing it
    overlapped,       \* history: an edit was made, or a sidecar dialled, while an
                      \* earlier edit or another registration was under way
    edits, faults     \* for the bounds

vars == <<cluster, queue, worker, up, senderPolicies, cxnsMap, outgoing, handlers,
          stream, linked, transit, received, listenerPolicies, missed, overlapped,
          edits, faults>>
controller == <<cluster, queue, worker, edits>>
sender == <<up, senderPolicies, cxnsMap, outgoing>>
wire == <<handlers, stream, linked, transit>>
history == <<missed, overlapped>>
sidecars == <<received, listenerPolicies, history>>

Idle == [at |-> "idle"]
Existing == {n \in Names : cluster[n] # Absent}
Message(n, v) == [name |-> n, version |-> v]
Add(bag, m) == bag (+) SetToBag({m})
Drop(bag, m) == bag (-) SetToBag({m})

Init ==
    /\ cluster = Empty
    /\ queue = {}
    /\ worker = Idle
    /\ up = TRUE
    /\ senderPolicies = Empty
    /\ cxnsMap = [c \in Clients |-> 0]
    /\ outgoing = EmptyBag
    /\ handlers = {}
    /\ stream = [c \in Clients |-> 0]
    /\ linked = [c \in Clients |-> FALSE]
    /\ transit = [c \in Clients |-> EmptyBag]
    /\ received = [c \in Clients |-> EmptyBag]
    /\ listenerPolicies = [c \in Clients |-> Empty]
    /\ missed = [c \in Clients |-> {}]
    /\ overlapped = FALSE
    /\ edits = 0
    /\ faults = 0

--------------------------------------------------------------------------------
(* What is going on.                                                           *)

Reconciled == queue = {} /\ worker = Idle /\ outgoing = EmptyBag
NothingInFlight ==
    Reconciled /\ \A c \in Clients : transit[c] = EmptyBag /\ received[c] = EmptyBag
Registered(c) == linked[c] /\ cxnsMap[c] = stream[c]
Stale(c) == {n \in Names : cluster[n] = Absent /\ listenerPolicies[c][n] # Absent}

--------------------------------------------------------------------------------
(* The cluster and the controller.                                             *)

(* A policy is created, changed or deleted, and its name is queued.            *)
Edit(n, v) ==
    /\ edits < MaxEdits
    /\ v # cluster[n]
    /\ cluster' = [cluster EXCEPT ![n] = v]
    /\ queue' = IF up THEN queue \cup {n} ELSE queue
    /\ edits' = edits + 1
    /\ missed' = [c \in Clients |-> IF v = Absent /\ ~Registered(c)
                                    THEN missed[c] \cup {n} ELSE missed[c]]
    /\ overlapped' = (overlapped \/ handlers # {} \/ ~NothingInFlight)
    /\ UNCHANGED <<worker, sender, wire, received, listenerPolicies, faults>>

(* The informer's resync, hours apart, queues every policy that exists.        *)
Resync ==
    /\ up
    /\ NothingInFlight
    /\ queue' = Existing
    /\ UNCHANGED <<cluster, worker, sender, wire, sidecars, edits, faults>>

Dequeue(n) ==
    /\ worker = Idle
    /\ n \in queue
    /\ queue' = queue \ {n}
    /\ worker' = [at |-> "get", name |-> n]
    /\ UNCHANGED <<cluster, sender, wire, sidecars, edits, faults>>

(* client.Get fails otherwise than with NotFound: the name is queued again.    *)
GetFails ==
    /\ worker.at = "get"
    /\ faults < MaxFaults
    /\ queue' = queue \cup {worker.name}
    /\ worker' = Idle
    /\ faults' = faults + 1
    /\ UNCHANGED <<cluster, sender, wire, sidecars, edits>>

(* Mutant: a policy that was not found is treated like one of another mode.    *)
GetKeepsDeleted ==
    /\ worker.at = "get"
    /\ worker' = IF cluster[worker.name] \in Ignored \cup {Absent} THEN Idle
                 ELSE [at |-> "store", msg |-> Message(worker.name, cluster[worker.name])]
    /\ UNCHANGED <<cluster, queue, sender, wire, sidecars, edits, faults>>

(* A policy of another evaluation mode is left alone, and so is what the       *)
(* sender has under its name.                                                  *)
Get ==
    /\ worker.at = "get"
    /\ worker' = IF cluster[worker.name] \in Ignored THEN Idle
                 ELSE [at |-> "store", msg |-> Message(worker.name, cluster[worker.name])]
    /\ UNCHANGED <<cluster, queue, sender, wire, sidecars, edits, faults>>

(* StorePolicy, or DeletePolicy for a policy that was not found.               *)
Store ==
    /\ worker.at = "store"
    /\ senderPolicies' = With(senderPolicies, worker.msg)
    /\ worker' = [worker EXCEPT !.at = "send"]
    /\ UNCHANGED <<cluster, queue, up, cxnsMap, outgoing, wire, sidecars, edits, faults>>

(* go SendPolicy: the reconcile returns.                                       *)
Send ==
    /\ worker.at = "send"
    /\ outgoing' = Add(outgoing, worker.msg)
    /\ worker' = Idle
    /\ UNCHANGED <<cluster, queue, up, senderPolicies, cxnsMap, wire, sidecars, edits, faults>>

--------------------------------------------------------------------------------
(* The sender.                                                                 *)

(* Mutant: a message sent on a closed stream is kept for the next one.         *)
FanOutToClosed(m) ==
    /\ BagIn(m, outgoing)
    /\ outgoing' = Drop(outgoing, m)
    /\ transit' = [c \in Clients |-> IF cxnsMap[c] # 0 THEN Add(transit[c], m) ELSE transit[c]]
    /\ UNCHANGED <<controller, up, senderPolicies, cxnsMap, handlers, stream, linked,
                   sidecars, faults>>

(* SendPolicy starts a goroutine for every stream in cxnsMap.  What is sent on *)
(* a stream that is closed never arrives.                                      *)
FanOut(m) ==
    /\ BagIn(m, outgoing)
    /\ outgoing' = Drop(outgoing, m)
    /\ transit' = [c \in Clients |-> IF Registered(c) THEN Add(transit[c], m) ELSE transit[c]]
    /\ UNCHANGED <<controller, up, senderPolicies, cxnsMap, handlers, stream, linked,
                   sidecars, faults>>

(* Mutant: a client that registers is sent nothing but later updates.          *)
ReplayNothing(h) ==
    /\ h.at = "recv"
    /\ handlers' = (handlers \ {h}) \cup {[h EXCEPT !.at = "replayed"]}
    /\ UNCHANGED <<controller, sender, stream, linked, transit, sidecars, faults>>

(* ValidatingPoliciesStream has received the client's request: every policy    *)
(* the sender has now is sent to it, each in a goroutine.                      *)
Replay(h) ==
    /\ h.at = "recv"
    /\ handlers' = (handlers \ {h}) \cup {[h EXCEPT !.at = "replayed"]}
    /\ transit' =
         IF linked[h.client] /\ stream[h.client] = h.stream
         THEN [transit EXCEPT ![h.client] = @ (+)
                 SetToBag({Message(n, senderPolicies[n]) :
                             n \in {k \in Names : senderPolicies[k] # Absent}})]
         ELSE transit
    /\ UNCHANGED <<controller, sender, stream, linked, sidecars, faults>>

(* Then the handler stores its stream in cxnsMap and waits in Recv for good:   *)
(* nothing it does when it ends touches the sender's state.                    *)
Register(h) ==
    /\ h.at = "replayed"
    /\ cxnsMap' = [cxnsMap EXCEPT ![h.client] = h.stream]
    /\ handlers' = handlers \ {h}
    /\ UNCHANGED <<controller, up, senderPolicies, outgoing, stream, linked, transit,
                   sidecars, faults>>

(* The stream broke before Recv returned a request.                            *)
RecvFails(h) ==
    /\ h.at = "recv"
    /\ ~(linked[h.client] /\ stream[h.client] = h.stream)
    /\ handlers' = handlers \ {h}
    /\ UNCHANGED <<controller, sender, stream, linked, transit, sidecars, faults>>

(* deleteInactive drops a client that it takes for dead, which may have its    *)
(* stream all the same (when its checks were lost, or its clock is behind);    *)
(* ClientRegistry says when.                                                   *)
Flush(c) ==
    /\ up
    /\ cxnsMap[c] # 0
    /\ cxnsMap' = [cxnsMap EXCEPT ![c] = 0]
    /\ missed' = [missed EXCEPT ![c] = @ \cup Stale(c)]
    /\ UNCHANGED <<controller, up, senderPolicies, outgoing, wire, received, listenerPolicies,
                   overlapped, faults>>

--------------------------------------------------------------------------------
(* The sidecars.                                                               *)

(* dial and listen: a new stream, the request sent on it at once.  The         *)
(* policies of the listener stay as they are.                                  *)
Connect(c) ==
    /\ up
    /\ ~linked[c]
    /\ linked' = [linked EXCEPT ![c] = TRUE]
    /\ stream' = [stream EXCEPT ![c] = @ + 1]
    /\ handlers' = handlers \cup {[client |-> c, stream |-> stream[c] + 1, at |-> "recv"]}
    /\ overlapped' = (overlapped \/ handlers # {} \/ ~Reconciled)
    /\ UNCHANGED <<controller, sender, transit, received, listenerPolicies, missed, faults>>

(* Recv returns a message, and go processPolicy is called with it.             *)
Recv(c, m) ==
    /\ BagIn(m, transit[c])
    /\ transit' = [transit EXCEPT ![c] = Drop(@, m)]
    /\ received' = [received EXCEPT ![c] = Add(@, m)]
    /\ UNCHANGED <<controller, sender, handlers, stream, linked, listenerPolicies, history, faults>>

Told(c, m) == IF m.version = Absent THEN [missed EXCEPT ![c] = @ \ {m.name}] ELSE missed

(* Mutant: a policy the listener has already is not replaced.                  *)
ProcessPolicyOnce(c, m) ==
    /\ BagIn(m, received[c])
    /\ received' = [received EXCEPT ![c] = Drop(@, m)]
    /\ listenerPolicies' =
         IF m.version # Absent /\ listenerPolicies[c][m.name] # Absent THEN listenerPolicies
         ELSE [listenerPolicies EXCEPT ![c] = With(@, m)]
    /\ missed' = Told(c, m)
    /\ UNCHANGED <<controller, sender, wire, overlapped, faults>>

(* processPolicy: delete, or compile and store.  What does not compile leaves  *)
(* the version there was.                                                      *)
ProcessPolicy(c, m) ==
    /\ BagIn(m, received[c])
    /\ received' = [received EXCEPT ![c] = Drop(@, m)]
    /\ listenerPolicies' =
         IF m.version \in Refused THEN listenerPolicies
         ELSE [listenerPolicies EXCEPT ![c] = With(@, m)]
    /\ missed' = Told(c, m)
    /\ UNCHANGED <<controller, sender, wire, overlapped, faults>>

--------------------------------------------------------------------------------
(* Faults.                                                                     *)

Disconnect(c) ==
    /\ linked[c]
    /\ faults < MaxFaults
    /\ linked' = [linked EXCEPT ![c] = FALSE]
    /\ transit' = [transit EXCEPT ![c] = EmptyBag]
    /\ faults' = faults + 1
    /\ missed' = [missed EXCEPT ![c] = @ \cup Stale(c)]
    /\ UNCHANGED <<controller, sender, handlers, stream, received, listenerPolicies, overlapped>>

SidecarRestart(c) ==
    /\ faults < MaxFaults
    /\ linked' = [linked EXCEPT ![c] = FALSE]
    /\ transit' = [transit EXCEPT ![c] = EmptyBag]
    /\ received' = [received EXCEPT ![c] = EmptyBag]
    /\ listenerPolicies' = [listenerPolicies EXCEPT ![c] = Empty]
    /\ missed' = [missed EXCEPT ![c] = {}]
    /\ faults' = faults + 1
    /\ UNCHANGED <<controller, sender, handlers, stream, overlapped>>

ControlPlaneCrash ==
    /\ up
    /\ faults < MaxFaults
    /\ up' = FALSE
    /\ queue' = {}
    /\ worker' = Idle
    /\ senderPolicies' = Empty
    /\ cxnsMap' = [c \in Clients |-> 0]
    /\ outgoing' = EmptyBag
    /\ handlers' = {}
    /\ linked' = [c \in Clients |-> FALSE]
    /\ transit' = [c \in Clients |-> EmptyBag]
    /\ faults' = faults + 1
    /\ missed' = [c \in Clients |-> missed[c] \cup Stale(c)]
    /\ UNCHANGED <<cluster, edits, stream, received, listenerPolicies, overlapped>>

(* The informer's first list queues every policy that exists.                  *)
ControlPlaneStart ==
    /\ ~up
    /\ up' = TRUE
    /\ queue' = Existing
    /\ UNCHANGED <<cluster, worker, edits, senderPolicies, cxnsMap, outgoing, wire,
                   sidecars, faults>>

--------------------------------------------------------------------------------
Handler(h) == Replay(h) \/ Register(h) \/ RecvFails(h)

Controller == Get \/ Store \/ Send \/ \E n \in Names : Dequeue(n)

System ==
    \/ Controller
    \/ ControlPlaneStart
    \/ \E m \in Requests : FanOut(m)
    \/ \E h \in handlers : Handler(h)
    \/ \E c \in Clients : Connect(c) \/ Flush(c)
    \/ \E c \in Clients, m \in Requests : Recv(c, m) \/ ProcessPolicy(c, m)

Environment ==
    \/ Resync
    \/ \E n \in Names, v \in Versions \cup {Absent} : Edit(n, v)
    \/ GetFails
    \/ \E c \in Clients : Disconnect(c) \/ SidecarRestart(c)
    \/ ControlPlaneCrash

Next == System \/ Environment

Spec == Init /\ [][Next]_vars

(* Goroutines that can run do run, the resync comes again and again, a sidecar *)
(* keeps dialling and the control plane is restarted; edits and faults may     *)
(* stop, and their bounds stop them.                                           *)
FairSpec ==
    /\ Spec
    /\ WF_vars(Controller)
    /\ WF_vars(ControlPlaneStart)
    /\ WF_vars(Resync)
    /\ \A m \in Requests : WF_vars(FanOut(m))
    /\ WF_vars(\E h \in handlers : Handler(h))
    /\ \A c \in Clients :
         /\ WF_vars(Connect(c))
         /\ \A m \in Requests : WF_vars(Recv(c, m)) /\ WF_vars(ProcessPolicy(c, m))

--------------------------------------------------------------------------------
(* Types; a bag holds messages, and a client's streams are numbered from 1.    *)
TypeOK ==
    /\ cluster \in Maps /\ senderPolicies \in Maps
    /\ queue \subseteq Names
    /\ \/ worker = Idle
       \/ worker \in [at : {"get"}, name : Names]
       \/ worker \in [at : {"store", "send"}, msg : Requests]
    /\ up \in BOOLEAN
    /\ BagToSet(outgoing) \subseteq Requests
    /\ stream \in [Clients -> Nat]
    /\ linked \in [Clients -> BOOLEAN]
    /\ \A c \in Clients :
         /\ cxnsMap[c] \in 0 .. stream[c]
         /\ BagToSet(transit[c]) \subseteq Requests
         /\ BagToSet(received[c]) \subseteq Requests
         /\ linked[c] => up
         /\ ~linked[c] => transit[c] = EmptyBag
    /\ \A h \in handlers : h.client \in Clients /\ h.stream \in 1 .. stream[h.client]
    /\ listenerPolicies \in [Clients -> Maps]
    /\ missed \in [Clients -> SUBSET Names] /\ overlapped \in BOOLEAN

(* The control plane's map agrees with the cluster on every policy that no     *)
(* queued or running reconcile is about to look at, whatever crashes and       *)
(* failed reads there were: a sidecar that registers is sent the cluster's     *)
(* policies and no others.                                                     *)
Settled(n) ==
    up /\ n \notin queue /\ ~(worker.at = "get" /\ worker.name = n)
       /\ ~(worker.at = "store" /\ worker.msg.name = n)
SenderInStep ==
    \A n \in Names : Settled(n) /\ cluster[n] \notin Ignored => senderPolicies[n] = cluster[n]

Agrees(c, n) == cluster[n] \in Ignored \cup Refused \/ listenerPolicies[c][n] = cluster[n]

(* As long as edits and registrations have not overlapped: when nothing is     *)
(* being reconciled, sent, received or registered, a registered sidecar has    *)
(* the cluster's version of every policy, and one that does not exist only if  *)
(* it was deleted while the sidecar was away and has not been deleted again    *)
(* since.  Whatever else was edited while it was away, lost with its stream,   *)
(* or lost with the control plane's memory, the replay makes up for.           *)
Quiet == up /\ NothingInFlight /\ handlers = {}
QuietConverged ==
    Quiet /\ ~overlapped => \A c \in Clients : Registered(c) =>
        \A n \in Names : Agrees(c, n) \/ (n \notin Existing /\ n \in missed[c])

(* "Manages ValidatingPolicy resources and distributes them to sidecars"       *)
(* (website/docs/quick-start/index.md:32): then, a registered sidecar decides  *)
(* requests with the policies of the cluster.                                  *)
Distributes ==
    Quiet => \A c \in Clients : Registered(c) => \A n \in Names : Agrees(c, n)

(* With the resync, a sidecar that stays registered ends up, and stays, with   *)
(* the cluster's version of every policy that exists, although edits may fall  *)
(* into any gap and messages are applied in any order.                         *)
ResyncConverges ==
    \A c \in Clients :
        <>[]Registered(c) => <>[](\A n \in Existing : Agrees(c, n))
================================================================================
