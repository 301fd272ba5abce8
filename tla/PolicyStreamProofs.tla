--------------------------- MODULE PolicyStreamProofs --------------------------
(* Proofs about PolicyStream, for any names, versions and sidecars, any number *)
(* of edits and faults, and edits that fall into any gap.                      *)
EXTENDS PolicyStream, TLAPS

(* What the control plane's side consists of.                                  *)
ControlType ==
    /\ cluster \in Maps
    /\ senderPolicies \in Maps
    /\ queue \subseteq Names
    /\ up \in BOOLEAN
    /\ \/ worker = Idle
       \/ worker \in [at : {"get"}, name : Names]
       \/ worker \in [at : {"store", "send"}, msg : Requests]

(* A worker that is about to store has the cluster's version in hand, unless   *)
(* an edit came after its read: then the edit has queued the name again.       *)
WorkerIsCurrent ==
    worker.at = "store" /\ worker.msg.name \notin queue =>
        worker.msg.version = cluster[worker.msg.name]

(* A control plane that is down has nothing in memory.                         *)
DownIsBlank == ~up => queue = {} /\ worker = Idle /\ senderPolicies = Empty

ControlInv == ControlType /\ WorkerIsCurrent /\ DownIsBlank /\ SenderInStep

LEMMA WithMaps ==
  ASSUME NEW m \in Maps, NEW q \in Requests
  PROVE  /\ With(m, q) \in Maps
         /\ With(m, q)[q.name] = q.version
         /\ \A n \in Names : n # q.name => With(m, q)[n] = m[n]
  BY DEF Maps, Requests, With

(* The control plane's side does not move.                                     *)
LEMMA ControlStutters ==
  ASSUME ControlInv, UNCHANGED <<cluster, queue, worker, up, senderPolicies>>
  PROVE  ControlInv'
  BY DEF ControlInv, ControlType, WorkerIsCurrent, DownIsBlank, SenderInStep, Settled

LEMMA EditKeeps ==
  ASSUME ControlInv, NEW n \in Names, NEW v \in Versions \cup {Absent}, Edit(n, v)
  PROVE  ControlInv'
<1>1. /\ cluster' = [cluster EXCEPT ![n] = v]
      /\ queue' = IF up THEN queue \cup {n} ELSE queue
      /\ UNCHANGED <<worker, up, senderPolicies>>
  BY DEF Edit, sender
<1>2. cluster \in [Names -> Versions \cup {Absent}] /\ queue \subseteq Names
  BY DEF ControlInv, ControlType, Maps
<1>3. ControlType'
  BY <1>1, <1>2 DEF ControlInv, ControlType, Maps
<1>4. DownIsBlank'
  BY <1>1 DEF ControlInv, DownIsBlank
<1>5. CASE up
  <2>1. queue' = queue \cup {n} /\ \A k \in Names : k # n => cluster'[k] = cluster[k]
    BY <1>1, <1>2, <1>5
  <2>2. WorkerIsCurrent'
    BY <1>1, <1>2, <2>1 DEF ControlInv, ControlType, WorkerIsCurrent, Requests, Idle
  <2>3. SenderInStep'
    BY <1>1, <2>1 DEF ControlInv, SenderInStep, Settled
  <2>4. QED
    BY <1>3, <1>4, <2>2, <2>3 DEF ControlInv
<1>6. CASE ~up
  <2>1. worker' = Idle /\ ~up'
    BY <1>1, <1>6 DEF ControlInv, DownIsBlank
  <2>2. WorkerIsCurrent' /\ SenderInStep'
    BY <2>1 DEF WorkerIsCurrent, SenderInStep, Settled, Idle
  <2>3. QED
    BY <1>3, <1>4, <2>2 DEF ControlInv
<1>7. QED
  BY <1>5, <1>6

LEMMA ResyncKeeps ==
  ASSUME ControlInv, Resync
  PROVE  ControlInv'
<1>1. /\ up /\ queue = {} /\ worker = Idle
      /\ queue' = Existing /\ UNCHANGED <<cluster, worker, up, senderPolicies>>
  BY DEF Resync, NothingInFlight, Reconciled, sender
<1>2. QED
  BY <1>1 DEF ControlInv, ControlType, WorkerIsCurrent, DownIsBlank, SenderInStep, Settled,
              Existing, Idle

LEMMA DequeueKeeps ==
  ASSUME ControlInv, NEW n \in Names, Dequeue(n)
  PROVE  ControlInv'
<1>1. /\ worker = Idle /\ queue' = queue \ {n} /\ worker' = [at |-> "get", name |-> n]
      /\ UNCHANGED <<cluster, up, senderPolicies>> /\ n \in queue
  BY DEF Dequeue, sender
<1>2. worker'.at = "get" /\ worker'.name = n /\ worker.at = "idle" /\ up
  BY <1>1 DEF Idle, ControlInv, DownIsBlank
<1>3. QED
  BY <1>1, <1>2 DEF ControlInv, ControlType, WorkerIsCurrent, DownIsBlank, SenderInStep, Settled

LEMMA GetFailsKeeps ==
  ASSUME ControlInv, GetFails
  PROVE  ControlInv'
<1>1. /\ worker.at = "get" /\ queue' = queue \cup {worker.name} /\ worker' = Idle
      /\ UNCHANGED <<cluster, up, senderPolicies>>
  BY DEF GetFails, sender
<1>2. worker.name \in Names /\ up
  BY <1>1 DEF ControlInv, ControlType, DownIsBlank, Idle
<1>3. QED
  BY <1>1, <1>2 DEF ControlInv, ControlType, WorkerIsCurrent, DownIsBlank, SenderInStep,
                    Settled, Idle

LEMMA GetKeeps ==
  ASSUME ControlInv, Get
  PROVE  ControlInv'
<1>1. worker.at = "get" /\ UNCHANGED <<cluster, queue, up, senderPolicies>>
  BY DEF Get, sender
<1>2. worker.name \in Names /\ up
  BY <1>1 DEF ControlInv, ControlType, DownIsBlank, Idle
<1>3. CASE cluster[worker.name] \in Ignored /\ worker' = Idle
  BY <1>1, <1>2, <1>3 DEF ControlInv, ControlType, WorkerIsCurrent, DownIsBlank, SenderInStep,
                          Settled, Idle
<1>4. CASE worker' = [at |-> "store", msg |-> Message(worker.name, cluster[worker.name])]
  <2>1. /\ worker'.at = "store" /\ worker'.msg.name = worker.name
        /\ worker'.msg.version = cluster[worker.name]
    BY <1>4 DEF Message
  <2>2. worker' \in [at : {"store", "send"}, msg : Requests]
    BY <1>2, <1>4 DEF Message, Requests, ControlInv, ControlType, Maps
  <2>3. ControlType' /\ WorkerIsCurrent' /\ DownIsBlank'
    BY <1>1, <1>2, <2>1, <2>2 DEF ControlInv, ControlType, WorkerIsCurrent, DownIsBlank
  <2>4. SenderInStep'
    BY <1>1, <2>1 DEF ControlInv, SenderInStep, Settled
  <2>5. QED
    BY <2>3, <2>4 DEF ControlInv
<1>5. QED
  BY <1>3, <1>4 DEF Get

LEMMA StoreKeeps ==
  ASSUME ControlInv, Store
  PROVE  ControlInv'
<1>1. /\ worker.at = "store" /\ senderPolicies' = With(senderPolicies, worker.msg)
      /\ worker' = [worker EXCEPT !.at = "send"] /\ UNCHANGED <<cluster, queue, up>>
  BY DEF Store
<1>2. worker \in [at : {"store", "send"}, msg : Requests] /\ up /\ senderPolicies \in Maps
  BY <1>1 DEF ControlInv, ControlType, DownIsBlank, Idle
<1>3. worker' \in [at : {"store", "send"}, msg : Requests]
      /\ worker'.at = "send" /\ worker'.msg = worker.msg
  BY <1>1, <1>2
<1>4. ControlType' /\ WorkerIsCurrent' /\ DownIsBlank'
  BY <1>1, <1>2, <1>3, WithMaps DEF ControlInv, ControlType, WorkerIsCurrent, DownIsBlank
<1>5. SenderInStep'
  <2> SUFFICES ASSUME NEW n \in Names, Settled(n)', cluster'[n] \notin Ignored
               PROVE  senderPolicies'[n] = cluster'[n]
    BY DEF SenderInStep
  <2>1. n \notin queue
    BY <1>1 DEF Settled
  <2>2. CASE n = worker.msg.name
    BY <1>1, <1>2, <2>1, <2>2, WithMaps DEF ControlInv, WorkerIsCurrent
  <2>3. CASE n # worker.msg.name
    BY <1>1, <1>2, <2>1, <2>3, WithMaps DEF ControlInv, SenderInStep, Settled
  <2>4. QED
    BY <2>2, <2>3
<1>6. QED
  BY <1>4, <1>5 DEF ControlInv

LEMMA SendKeeps ==
  ASSUME ControlInv, Send
  PROVE  ControlInv'
<1>1. /\ worker.at = "send" /\ worker' = Idle
      /\ UNCHANGED <<cluster, queue, up, senderPolicies>>
  BY DEF Send
<1>2. QED
  BY <1>1 DEF ControlInv, ControlType, WorkerIsCurrent, DownIsBlank, SenderInStep, Settled, Idle

LEMMA EmptyMaps == Empty \in Maps
  BY DEF Empty, Maps

LEMMA CrashKeeps ==
  ASSUME ControlInv, ControlPlaneCrash
  PROVE  ControlInv'
<1>1. /\ ~up' /\ up' \in BOOLEAN /\ queue' = {} /\ worker' = Idle /\ senderPolicies' = Empty
      /\ cluster' = cluster
  BY DEF ControlPlaneCrash
<1>2. QED
  BY <1>1, EmptyMaps DEF ControlInv, ControlType, WorkerIsCurrent, DownIsBlank, SenderInStep,
                         Settled, Idle

(* The first list queues what exists; what does not, the empty map has right.  *)
LEMMA StartKeeps ==
  ASSUME ControlInv, ControlPlaneStart
  PROVE  ControlInv'
<1>1. /\ ~up /\ up' = TRUE /\ queue' = Existing /\ UNCHANGED <<cluster, worker, senderPolicies>>
  BY DEF ControlPlaneStart
<1>2. worker = Idle /\ senderPolicies = Empty
  BY <1>1 DEF ControlInv, DownIsBlank
<1>3. \A n \in Names : n \notin Existing => senderPolicies[n] = cluster[n]
  BY <1>2 DEF Existing, Empty
<1>4. QED
  BY <1>1, <1>2, <1>3 DEF ControlInv, ControlType, WorkerIsCurrent, DownIsBlank, SenderInStep,
                          Settled, Existing, Idle

LEMMA ControlInductive == ControlInv /\ [Next]_vars => ControlInv'
<1> SUFFICES ASSUME ControlInv, [Next]_vars PROVE ControlInv'
  OBVIOUS
<1>1. CASE Controller
  BY <1>1, GetKeeps, StoreKeeps, SendKeeps, DequeueKeeps DEF Controller
<1>2. CASE Resync \/ GetFails \/ ControlPlaneCrash \/ ControlPlaneStart
  BY <1>2, ResyncKeeps, GetFailsKeeps, CrashKeeps, StartKeeps
<1>3. CASE \E n \in Names, v \in Versions \cup {Absent} : Edit(n, v)
  BY <1>3, EditKeeps
<1>4. CASE \E m \in Requests : FanOut(m)
  BY <1>4, ControlStutters DEF FanOut, controller
<1>5. CASE \E h \in handlers : Handler(h)
  BY <1>5, ControlStutters DEF Handler, Replay, Register, RecvFails, controller, sender
<1>6. CASE \E c \in Clients : Connect(c) \/ Flush(c) \/ Disconnect(c) \/ SidecarRestart(c)
  BY <1>6, ControlStutters DEF Connect, Flush, Disconnect, SidecarRestart, controller, sender
<1>7. CASE \E c \in Clients, m \in Requests : Recv(c, m) \/ ProcessPolicy(c, m)
  BY <1>7, ControlStutters DEF Recv, ProcessPolicy, controller, sender
<1>8. CASE UNCHANGED vars
  BY <1>8, ControlStutters DEF vars
<1>9. QED
  BY <1>1, <1>2, <1>3, <1>4, <1>5, <1>6, <1>7, <1>8 DEF Next, System, Environment

(* Whatever is edited, fails, crashes or is restarted, and whenever: on every  *)
(* policy that no reconcile is about to look at, what the control plane sends  *)
(* to a sidecar that registers is what the cluster has.                        *)
THEOREM SenderFollowsCluster == Spec => []SenderInStep
<1>1. Init => ControlInv
  <2> SUFFICES ASSUME Init PROVE ControlInv
    OBVIOUS
  <2>1. /\ cluster = Empty /\ senderPolicies = Empty /\ queue = {} /\ worker = Idle /\ up = TRUE
    BY DEF Init
  <2>2. QED
    BY <2>1, EmptyMaps DEF ControlInv, ControlType, WorkerIsCurrent, DownIsBlank, SenderInStep,
                           Idle
<1>2. ControlInv /\ [Next]_vars => ControlInv'
  BY ControlInductive
<1>3. ControlInv => SenderInStep
  BY DEF ControlInv
<1>4. QED
  BY <1>1, <1>2, <1>3, PTL DEF Spec

--------------------------------------------------------------------------------
(* Bags of messages.                                                           *)
IsMessages(B) == IsABag(B) /\ BagToSet(B) \subseteq Requests

LEMMA NoMessages == IsMessages(EmptyBag) /\ BagToSet(EmptyBag) = {}
  BY DEF IsMessages, IsABag, BagToSet, SetToBag, EmptyBag

LEMMA MoreMessages ==
  ASSUME NEW B, IsMessages(B), NEW S \in SUBSET Requests
  PROVE  /\ IsMessages(B (+) SetToBag(S))
         /\ BagToSet(B (+) SetToBag(S)) = BagToSet(B) \cup S
<1>1. BagToSet(B (+) SetToBag(S)) = BagToSet(B) \cup S
  BY DEF BagToSet, SetToBag, (+)
<1>2. IsABag(B (+) SetToBag(S))
  BY DEF IsMessages, IsABag, SetToBag, (+)
<1>3. QED
  BY <1>1, <1>2 DEF IsMessages

LEMMA OneMessageMore ==
  ASSUME NEW B, IsMessages(B), NEW m \in Requests
  PROVE  /\ IsMessages(Add(B, m))
         /\ BagToSet(Add(B, m)) = BagToSet(B) \cup {m}
  BY MoreMessages DEF Add

LEMMA OneMessageLess ==
  ASSUME NEW B, IsMessages(B), NEW m
  PROVE  /\ IsMessages(Drop(B, m))
         /\ BagToSet(Drop(B, m)) \subseteq BagToSet(B)
         /\ \A x \in BagToSet(B) : x # m => x \in BagToSet(Drop(B, m))
<1>1. /\ BagToSet(Drop(B, m)) \subseteq BagToSet(B)
      /\ \A x \in BagToSet(B) : x # m => x \in BagToSet(Drop(B, m))
  BY DEF Drop, IsMessages, IsABag, BagToSet, SetToBag, (-)
<1>2. IsABag(Drop(B, m))
  BY DEF Drop, IsMessages, IsABag, SetToBag, (-)
<1>3. QED
  BY <1>1, <1>2 DEF IsMessages

--------------------------------------------------------------------------------
(* Types of the wire and of the sidecars.                                      *)
Linked(c) ==
    /\ cxnsMap[c] <= stream[c]
    /\ linked[c] => up
    /\ ~linked[c] => transit[c] = EmptyBag
    /\ IsMessages(transit[c]) /\ IsMessages(received[c])

WireTypes ==
    /\ IsMessages(outgoing)
    /\ stream \in [Clients -> Nat]
    /\ linked \in [Clients -> BOOLEAN]
    /\ cxnsMap \in [Clients -> Nat]
    /\ transit = [c \in Clients |-> transit[c]]
    /\ received = [c \in Clients |-> received[c]]
    /\ listenerPolicies \in [Clients -> Maps]
    /\ missed \in [Clients -> SUBSET Names]
    /\ overlapped \in BOOLEAN
    /\ \A c \in Clients : Linked(c)
    /\ handlers \subseteq [client : Clients, stream : Nat, at : {"recv", "replayed"}]
    /\ \A h \in handlers : h.stream \in 1 .. stream[h.client]

LEMMA TypesFollow == ControlInv /\ WireTypes => TypeOK
  BY DEF ControlInv, ControlType, WireTypes, Linked, IsMessages, TypeOK

LEMMA WireInit == Init => WireTypes
<1> SUFFICES ASSUME Init PROVE WireTypes
  OBVIOUS
<1>1. \A c \in Clients : Linked(c)
  BY NoMessages DEF Init, Linked
<1>2. QED
  BY <1>1, NoMessages, EmptyMaps DEF Init, WireTypes

LEMMA WireStep == ControlInv /\ WireTypes /\ [Next]_vars => WireTypes'
<1> SUFFICES ASSUME ControlInv, WireTypes, [Next]_vars PROVE WireTypes'
  OBVIOUS
<1> USE DEF WireTypes
<1>1. ASSUME NEW n \in Names, NEW v \in Versions \cup {Absent}, Edit(n, v)
      PROVE  WireTypes'
  <2>1. \A d \in Clients : Linked(d)'
    BY <1>1 DEF Edit, controller, sender, wire, sidecars, history, Linked
  <2>2. QED
    BY <1>1, <2>1 DEF Edit, controller, sender, wire, sidecars, history
<1>2. CASE Resync
  <2>1. \A d \in Clients : Linked(d)'
    BY <1>2 DEF Resync, controller, sender, wire, sidecars, history, Linked
  <2>2. QED
    BY <1>2, <2>1 DEF Resync, controller, sender, wire, sidecars, history
<1>3. ASSUME NEW n \in Names, Dequeue(n)
      PROVE  WireTypes'
  <2>1. \A d \in Clients : Linked(d)'
    BY <1>3 DEF Dequeue, controller, sender, wire, sidecars, history, Linked
  <2>2. QED
    BY <1>3, <2>1 DEF Dequeue, controller, sender, wire, sidecars, history
<1>4. CASE GetFails
  <2>1. \A d \in Clients : Linked(d)'
    BY <1>4 DEF GetFails, controller, sender, wire, sidecars, history, Linked
  <2>2. QED
    BY <1>4, <2>1 DEF GetFails, controller, sender, wire, sidecars, history
<1>5. CASE Get
  <2>1. \A d \in Clients : Linked(d)'
    BY <1>5 DEF Get, controller, sender, wire, sidecars, history, Linked
  <2>2. QED
    BY <1>5, <2>1 DEF Get, controller, sender, wire, sidecars, history
<1>6. CASE Store
  <2>1. \A d \in Clients : Linked(d)'
    BY <1>6 DEF Store, controller, sender, wire, sidecars, history, Linked
  <2>2. QED
    BY <1>6, <2>1 DEF Store, controller, sender, wire, sidecars, history
<1>7. CASE Send
  <2>1. worker.msg \in Requests
    BY <1>7 DEF Send, ControlInv, ControlType, Idle
  <2>2. \A d \in Clients : Linked(d)'
    BY <1>7 DEF Send, wire, sidecars, Linked
  <2>3. QED
    BY <1>7, <2>1, <2>2, OneMessageMore DEF Send, wire, sidecars, history
<1>8. ASSUME NEW m \in Requests, FanOut(m)
      PROVE  WireTypes'
  <2>1. ASSUME NEW d \in Clients PROVE Linked(d)'
    <3>1. transit'[d] = IF Registered(d) THEN Add(transit[d], m) ELSE transit[d]
      BY <1>8 DEF FanOut
    <3>2. IsMessages(transit'[d])
      BY <3>1, OneMessageMore DEF Linked
    <3>3. ~linked[d] => transit'[d] = EmptyBag
      BY <3>1 DEF Linked, Registered
    <3>4. QED
      BY <1>8, <3>2, <3>3 DEF FanOut, sidecars, Linked
  <2>2. QED
    BY <1>8, <2>1, OneMessageLess DEF FanOut, controller, sidecars, history
<1>9. ASSUME NEW h \in handlers, Replay(h)
      PROVE  WireTypes'
  <2> DEFINE replay == {Message(n, senderPolicies[n]) :
                          n \in {k \in Names : senderPolicies[k] # Absent}}
  <2>1. replay \in SUBSET Requests
    BY DEF ControlInv, ControlType, Maps, Message, Requests
  <2>2. ASSUME NEW d \in Clients PROVE Linked(d)'
    <3>1. \/ transit'[d] = transit[d]
          \/ linked[d] /\ transit'[d] = transit[d] (+) SetToBag(replay)
      BY <1>9 DEF Replay
    <3>2. IsMessages(transit'[d]) /\ (~linked[d] => transit'[d] = EmptyBag)
      BY <2>1, <3>1, MoreMessages DEF Linked
    <3>3. QED
      BY <1>9, <3>2 DEF Replay, sender, sidecars, Linked
  <2>3. transit' = [c \in Clients |-> transit'[c]]
    BY <1>9 DEF Replay
  <2>4. QED
    BY <1>9, <2>2, <2>3 DEF Replay, sender, sidecars, history
<1>10. ASSUME NEW h \in handlers, Register(h)
      PROVE  WireTypes'
  <2>1. \A d \in Clients : Linked(d)'
    BY <1>10 DEF Register, controller, sender, wire, sidecars, history, Linked
  <2>2. QED
    BY <1>10, <2>1 DEF Register, controller, sender, wire, sidecars, history
<1>11. ASSUME NEW h \in handlers, RecvFails(h)
      PROVE  WireTypes'
  <2>1. \A d \in Clients : Linked(d)'
    BY <1>11 DEF RecvFails, controller, sender, wire, sidecars, history, Linked
  <2>2. QED
    BY <1>11, <2>1 DEF RecvFails, controller, sender, wire, sidecars, history
<1>12. ASSUME NEW c \in Clients, Flush(c)
      PROVE  WireTypes'
  <2>1. \A d \in Clients : Linked(d)'
    BY <1>12 DEF Flush, controller, wire, Linked
  <2>2. QED
    BY <1>12, <2>1 DEF Flush, controller, wire, Stale
<1>13. ASSUME NEW c \in Clients, Connect(c)
      PROVE  WireTypes'
  <2>1. \A d \in Clients : Linked(d)'
    BY <1>13 DEF Connect, controller, sender, wire, sidecars, history, Linked
  <2>2. QED
    BY <1>13, <2>1 DEF Connect, controller, sender, wire, sidecars, history
<1>14. ASSUME NEW c \in Clients, NEW m \in Requests, Recv(c, m)
       PROVE  WireTypes'
  <2>1. ASSUME NEW d \in Clients PROVE Linked(d)'
    <3>1. IsMessages(transit'[d]) /\ IsMessages(received'[d])
      BY <1>14, OneMessageMore, OneMessageLess DEF Recv, Linked
    <3>2. ~linked[d] => transit'[d] = EmptyBag
      BY <1>14, NoMessages DEF Recv, Linked, BagIn
    <3>3. QED
      BY <1>14, <3>1, <3>2 DEF Recv, sender, Linked
  <2>2. QED
    BY <1>14, <2>1 DEF Recv, controller, sender, history
<1>15. ASSUME NEW c \in Clients, NEW m \in Requests, ProcessPolicy(c, m)
      PROVE  WireTypes'
  <2>1. \A d \in Clients : Linked(d)'
    BY <1>15, OneMessageLess
       DEF ProcessPolicy, Told, controller, sender, wire, sidecars, history, Linked
  <2>2. QED
    BY <1>15, <2>1, WithMaps DEF ProcessPolicy, Told, controller, sender, wire, sidecars, history
<1>16. ASSUME NEW c \in Clients, Disconnect(c)
      PROVE  WireTypes'
  <2>1. \A d \in Clients : Linked(d)'
    BY <1>16, NoMessages DEF Disconnect, Stale, controller, sender, wire, sidecars, history, Linked
  <2>2. QED
    BY <1>16, <2>1 DEF Disconnect, Stale, controller, sender, wire, sidecars, history
<1>17. ASSUME NEW c \in Clients, SidecarRestart(c)
      PROVE  WireTypes'
  <2>1. \A d \in Clients : Linked(d)'
    BY <1>17, NoMessages DEF SidecarRestart, controller, sender, wire, sidecars, history, Linked
  <2>2. QED
    BY <1>17, <2>1, EmptyMaps DEF SidecarRestart, controller, sender, wire, sidecars, history
<1>18. CASE ControlPlaneCrash
  <2>1. \A d \in Clients : Linked(d)'
    BY <1>18, NoMessages
       DEF ControlPlaneCrash, Stale, controller, sender, wire, sidecars, history, Linked
  <2>2. QED
    BY <1>18, <2>1, NoMessages
       DEF ControlPlaneCrash, Stale, controller, sender, wire, sidecars, history
<1>19. CASE ControlPlaneStart
  <2>1. \A d \in Clients : Linked(d)'
    BY <1>19 DEF ControlPlaneStart, controller, sender, wire, sidecars, history, Linked
  <2>2. QED
    BY <1>19, <2>1 DEF ControlPlaneStart, controller, sender, wire, sidecars, history
<1>20. CASE UNCHANGED vars
  <2>1. \A d \in Clients : Linked(d)'
    BY <1>20 DEF vars, Linked
  <2>2. QED
    BY <1>20, <2>1 DEF vars
<1>21. QED
  BY <1>1, <1>2, <1>3, <1>4, <1>5, <1>6, <1>7, <1>8, <1>9, <1>10, <1>11,
     <1>12, <1>13, <1>14, <1>15, <1>16, <1>17, <1>18, <1>19, <1>20
     DEF Next, System, Environment, Controller, Handler

--------------------------------------------------------------------------------
(* Why a registered sidecar ends up with the policies of the cluster.  Nothing *)
(* of this outlives an edit or a registration that overlaps another.           *)

(* An update of the policy is on its way to every registered sidecar.          *)
OnItsWay(n) ==
    \/ n \in queue
    \/ worker.at = "get" /\ worker.name = n
    \/ worker.at \in {"store", "send"} /\ worker.msg.name = n
    \/ \E m \in BagToSet(outgoing) : m.name = n

(* The sidecar has the cluster's version, or missed that the policy was        *)
(* deleted, or a message about it is on its way to the sidecar.                *)
TakenOver(c, n) ==
    listenerPolicies[c][n] = cluster[n] \/ (cluster[n] = Absent /\ n \in missed[c])
Messages(c) == BagToSet(transit[c]) \cup BagToSet(received[c])
Knows(c, n) == TakenOver(c, n) \/ \E m \in Messages(c) : m.name = n

Distributed(n) == cluster[n] \notin Ignored \cup Refused

(* Whatever is on its way says what the cluster says.                          *)
IsCurrent(m) == cluster[m.name] \in Ignored \/ m.version = cluster[m.name]
AllIsCurrent ==
    /\ worker.at \in {"store", "send"} => IsCurrent(worker.msg)
    /\ \A m \in BagToSet(outgoing) : IsCurrent(m)
    /\ \A c \in Clients : \A m \in Messages(c) : IsCurrent(m)

(* There is one stream handler at a time, of its client's last stream, and the *)
(* sender has nothing to catch up with meanwhile.                              *)
InStep == \A n \in Names : cluster[n] \notin Ignored => senderPolicies[n] = cluster[n]
OneHandler ==
    /\ \A h, g \in handlers : h = g
    /\ \A h \in handlers : h.stream = stream[h.client] /\ cxnsMap[h.client] # h.stream
    /\ handlers # {} => up /\ InStep

(* A sidecar without a registered stream knows of the deletions, but for those *)
(* it missed; the replay cannot tell it.                                       *)
DeletionsKnown ==
    \A c \in Clients : ~Registered(c) =>
        \A n \in Names : cluster[n] = Absent => Knows(c, n)

(* After the replay it knows of everything, before it is registered.           *)
ReplayKnown ==
    \A h \in handlers : h.at = "replayed" /\ linked[h.client] =>
        \A n \in Names : Distributed(n) => Knows(h.client, n)

(* And then it knows, or is about to be told.                                  *)
UpdatesKnown ==
    \A c \in Clients : Registered(c) =>
        \A n \in Names : Distributed(n) => Knows(c, n) \/ OnItsWay(n)

Converging == AllIsCurrent /\ OneHandler /\ DeletionsKnown /\ ReplayKnown /\ UpdatesKnown

StreamInv == ControlInv /\ WireTypes /\ (~overlapped => Converging)

(* What a sidecar knows, it knows until it is told or forgets.                 *)
LEMMA KnowledgeStays ==
  ASSUME NEW c \in Clients, NEW n \in Names, UNCHANGED cluster,
         listenerPolicies'[c] = listenerPolicies[c], missed[c] \subseteq missed'[c],
         Messages(c) \subseteq Messages(c)', Knows(c, n)
  PROVE  Knows(c, n)'
  BY DEF Knows, TakenOver

(* The controller's steps touch neither the streams nor the sidecars, and a    *)
(* policy that they are about to distribute stays so until FanOut.             *)
LEMMA ControllerConverges ==
  ASSUME ControlInv, WireTypes, Converging,
         Resync \/ Controller \/ GetFails \/ ControlPlaneStart
  PROVE  Converging'
<1>1. UNCHANGED <<cluster, cxnsMap, handlers, stream, linked, transit, received,
                  listenerPolicies, missed>>
  BY DEF Resync, Controller, Get, Store, Send, Dequeue, GetFails, ControlPlaneStart,
         controller, sender, wire, sidecars, history
<1>2. \A n \in Names : OnItsWay(n) /\ Distributed(n) => OnItsWay(n)'
  <2>1. CASE Resync \/ ControlPlaneStart
    <3>1. queue = {} \/ queue \subseteq queue'
      BY <2>1 DEF Resync, ControlPlaneStart, NothingInFlight, Reconciled, ControlInv, DownIsBlank
    <3>2. UNCHANGED <<worker, outgoing>>
      BY <2>1 DEF Resync, ControlPlaneStart, sender
    <3>3. QED
      BY <3>1, <3>2 DEF OnItsWay
  <2>2. ASSUME NEW k \in Names, Dequeue(k) PROVE \A n \in Names : OnItsWay(n) => OnItsWay(n)'
    BY <2>2 DEF Dequeue, Idle, sender, OnItsWay
  <2>3. CASE GetFails
    BY <2>3 DEF GetFails, Idle, sender, OnItsWay
  <2>4. CASE Get
    BY <2>4 DEF Get, Idle, Message, sender, OnItsWay, Distributed
  <2>5. CASE Store
    BY <2>5 DEF Store, OnItsWay, ControlInv, ControlType, Idle
  <2>6. CASE Send
    <3>1. worker.msg \in Requests
      BY <2>6 DEF Send, ControlInv, ControlType, Idle
    <3>2. BagToSet(outgoing') = BagToSet(outgoing) \cup {worker.msg}
      BY <2>6, <3>1, OneMessageMore DEF Send, WireTypes
    <3>3. QED
      BY <2>6, <3>2 DEF Send, OnItsWay
  <2>7. QED
    BY <2>1, <2>2, <2>3, <2>4, <2>5, <2>6 DEF Controller
<1>3. AllIsCurrent'
  <2>1. \A m \in Requests : IsCurrent(m) => IsCurrent(m)'
    BY <1>1 DEF IsCurrent
  <2>2. \A c \in Clients : \A m \in Messages(c)' : IsCurrent(m)'
    BY <1>1 DEF Converging, AllIsCurrent, Messages, IsCurrent
  <2>3. CASE Send
    <3>1. worker.msg \in Requests
      BY <2>3 DEF Send, ControlInv, ControlType, Idle
    <3>2. BagToSet(outgoing') = BagToSet(outgoing) \cup {worker.msg} /\ worker' = Idle
      BY <2>3, <3>1, OneMessageMore DEF Send, WireTypes
    <3>3. QED
      BY <1>1, <2>2, <2>3, <3>2 DEF Send, Converging, AllIsCurrent, IsCurrent, Idle
  <2>4. CASE Get
    <3>1. outgoing' = outgoing
      BY <2>4 DEF Get, sender
    <3>2. worker'.at = "store" => worker'.msg.version = cluster[worker'.msg.name]
      BY <2>4 DEF Get, Idle, Message
    <3>3. worker'.at # "send"
      BY <2>4 DEF Get, Idle
    <3>4. QED
      BY <1>1, <2>2, <3>1, <3>2, <3>3 DEF Converging, AllIsCurrent, IsCurrent
  <2>5. CASE Store
    <3>1. outgoing' = outgoing /\ worker.at = "store" /\ worker'.msg = worker.msg
      BY <2>5 DEF Store, ControlInv, ControlType, Idle
    <3>2. QED
      BY <1>1, <2>2, <3>1 DEF Converging, AllIsCurrent, IsCurrent
  <2>6. CASE Resync \/ ControlPlaneStart \/ GetFails \/ \E n \in Names : Dequeue(n)
    <3>1. outgoing' = outgoing /\ (worker' = worker \/ worker'.at \notin {"store", "send"})
      BY <2>6 DEF Resync, ControlPlaneStart, GetFails, Dequeue, Idle, sender
    <3>2. QED
      BY <1>1, <2>2, <3>1 DEF Converging, AllIsCurrent, IsCurrent
  <2>7. QED
    BY <2>3, <2>4, <2>5, <2>6 DEF Controller
<1>4. OneHandler'
  <2>1. CASE Store
    <3>1. senderPolicies' = With(senderPolicies, worker.msg) /\ up' = up /\ worker.at = "store"
      BY <2>1 DEF Store
    <3>2. worker.msg \in Requests /\ senderPolicies \in Maps
      BY <3>1 DEF ControlInv, ControlType, Idle
    <3>3. IsCurrent(worker.msg)
      BY <3>1 DEF Converging, AllIsCurrent
    <3>4. InStep => InStep'
      BY <1>1, <3>1, <3>2, <3>3, WithMaps DEF InStep, IsCurrent
    <3>5. QED
      BY <1>1, <3>1, <3>4 DEF Converging, OneHandler
  <2>2. CASE ControlPlaneStart
    BY <1>1, <2>2 DEF ControlPlaneStart, Converging, OneHandler
  <2>3. CASE Resync \/ Get \/ Send \/ GetFails \/ \E n \in Names : Dequeue(n)
    BY <1>1, <2>3 DEF Resync, Get, Send, GetFails, Dequeue, sender, Converging, OneHandler, InStep
  <2>4. QED
    BY <2>1, <2>2, <2>3 DEF Controller
<1>5. \A c \in Clients : \A n \in Names : Knows(c, n) => Knows(c, n)'
  BY <1>1, KnowledgeStays DEF Messages
<1>6. \A c \in Clients : Registered(c)' = Registered(c)
  BY <1>1 DEF Registered
<1>7. DeletionsKnown' /\ ReplayKnown'
  BY <1>1, <1>5, <1>6 DEF Converging, DeletionsKnown, ReplayKnown, Distributed, WireTypes
<1>8. UpdatesKnown'
  BY <1>1, <1>2, <1>5, <1>6 DEF Converging, UpdatesKnown, Distributed
<1>9. QED
  BY <1>3, <1>4, <1>7, <1>8 DEF Converging

(* An edit that overlaps nothing finds no message under way.                   *)
LEMMA EditConverges ==
  ASSUME ControlInv, WireTypes, Converging, handlers = {}, NothingInFlight,
         NEW k \in Names, NEW v \in Versions \cup {Absent}, Edit(k, v)
  PROVE  Converging'
<1>1. /\ cluster' = [cluster EXCEPT ![k] = v]
      /\ queue' = IF up THEN queue \cup {k} ELSE queue
      /\ missed' = [c \in Clients |-> IF v = Absent /\ ~Registered(c)
                                      THEN missed[c] \cup {k} ELSE missed[c]]
      /\ UNCHANGED <<worker, up, senderPolicies, cxnsMap, outgoing, handlers, stream, linked,
                     transit, received, listenerPolicies>>
  BY DEF Edit, sender, wire
<1>2. /\ cluster'[k] = v /\ \A n \in Names : n # k => cluster'[n] = cluster[n]
  BY <1>1 DEF ControlInv, ControlType, Maps
<1>3. /\ queue = {} /\ worker = Idle /\ BagToSet(outgoing) = {}
      /\ \A c \in Clients : Messages(c) = {}
  BY NoMessages DEF NothingInFlight, Reconciled, Messages
<1>4. /\ worker' = Idle /\ BagToSet(outgoing') = {}
      /\ \A c \in Clients : Messages(c)' = {}
  BY <1>1, <1>3 DEF Messages
<1>5. AllIsCurrent' /\ OneHandler' /\ ReplayKnown'
  BY <1>1, <1>4 DEF AllIsCurrent, OneHandler, ReplayKnown, Idle
<1>6. \A c \in Clients : Registered(c)' = Registered(c)
  BY <1>1 DEF Registered
<1>7. \A c \in Clients, n \in Names : n # k /\ Knows(c, n) => Knows(c, n)'
  BY <1>1, <1>2, <1>3 DEF Knows, TakenOver
<1>8. DeletionsKnown'
  <2> SUFFICES ASSUME NEW c \in Clients, ~Registered(c), NEW n \in Names, cluster'[n] = Absent
               PROVE  Knows(c, n)'
    BY <1>6 DEF DeletionsKnown
  <2>1. CASE n = k
    BY <1>1, <1>2, <2>1 DEF Knows, TakenOver
  <2>2. CASE n # k
    BY <1>2, <1>7, <2>2 DEF Converging, DeletionsKnown
  <2>3. QED
    BY <2>1, <2>2
<1>9. UpdatesKnown'
  <2> SUFFICES ASSUME NEW c \in Clients, Registered(c), NEW n \in Names, Distributed(n)'
               PROVE  Knows(c, n)' \/ OnItsWay(n)'
    BY <1>6 DEF UpdatesKnown
  <2>1. CASE n = k
    BY <1>1, <2>1 DEF OnItsWay, Registered, WireTypes, Linked
  <2>2. CASE n # k
    <3>1. Distributed(n) /\ ~OnItsWay(n)
      BY <1>2, <1>3, <2>2 DEF Distributed, OnItsWay, Idle
    <3>2. QED
      BY <1>7, <2>2, <3>1 DEF Converging, UpdatesKnown
  <2>3. QED
    BY <2>1, <2>2
<1>10. QED
  BY <1>5, <1>8, <1>9 DEF Converging

(* A goroutine of SendPolicy reaches the registered streams.                   *)
LEMMA FanOutConverges ==
  ASSUME ControlInv, WireTypes, Converging, NEW m \in Requests, FanOut(m)
  PROVE  Converging'
<1>1. /\ m \in BagToSet(outgoing) /\ outgoing' = Drop(outgoing, m)
      /\ transit' = [c \in Clients |-> IF Registered(c) THEN Add(transit[c], m) ELSE transit[c]]
      /\ UNCHANGED <<cluster, queue, worker, up, senderPolicies, cxnsMap, handlers, stream,
                     linked, received, listenerPolicies, missed>>
  BY DEF FanOut, BagIn, controller, sidecars, history
<1>2. /\ BagToSet(outgoing') \subseteq BagToSet(outgoing)
      /\ \A x \in BagToSet(outgoing) : x # m => x \in BagToSet(outgoing')
  BY <1>1, OneMessageLess DEF WireTypes
<1>3. \A c \in Clients : Messages(c)' = IF Registered(c) THEN Messages(c) \cup {m} ELSE Messages(c)
  <2> TAKE c \in Clients
  <2>1. BagToSet(Add(transit[c], m)) = BagToSet(transit[c]) \cup {m}
    BY OneMessageMore DEF WireTypes, Linked
  <2>2. QED
    BY <1>1, <2>1 DEF Messages
<1>4. AllIsCurrent' /\ OneHandler'
  BY <1>1, <1>2, <1>3 DEF Converging, AllIsCurrent, IsCurrent, OneHandler, InStep
<1>5. \A c \in Clients : Registered(c)' = Registered(c)
  BY <1>1 DEF Registered
<1>6. \A c \in Clients, n \in Names : Knows(c, n) => Knows(c, n)'
  BY <1>1, <1>3, KnowledgeStays
<1>7. DeletionsKnown' /\ ReplayKnown'
  BY <1>1, <1>5, <1>6 DEF Converging, DeletionsKnown, ReplayKnown, Distributed, WireTypes
<1>8. UpdatesKnown'
  <2> SUFFICES ASSUME NEW c \in Clients, Registered(c), NEW n \in Names, Distributed(n), OnItsWay(n)
               PROVE  Knows(c, n)' \/ OnItsWay(n)'
    BY <1>1, <1>5, <1>6 DEF Converging, UpdatesKnown, Distributed
  <2>1. CASE m.name = n
    BY <1>3, <2>1 DEF Knows
  <2>2. CASE m.name # n
    BY <1>1, <1>2, <2>2 DEF OnItsWay
  <2>3. QED
    BY <2>1, <2>2
<1>9. QED
  BY <1>4, <1>7, <1>8 DEF Converging

(* The replay tells what there is.                                             *)
LEMMA ReplayConverges ==
  ASSUME ControlInv, WireTypes, Converging, NEW h \in handlers, Replay(h)
  PROVE  Converging'
<1> DEFINE c == h.client
           replay == {Message(n, senderPolicies[n]) :
                         n \in {k \in Names : senderPolicies[k] # Absent}}
           g == [h EXCEPT !.at = "replayed"]
<1>1. /\ h.at = "recv" /\ handlers' = (handlers \ {h}) \cup {g}
      /\ transit' = IF linked[c] /\ stream[c] = h.stream
                    THEN [transit EXCEPT ![c] = @ (+) SetToBag(replay)] ELSE transit
      /\ UNCHANGED <<cluster, queue, worker, up, senderPolicies, cxnsMap, outgoing, stream,
                     linked, received, listenerPolicies, missed>>
  BY DEF Replay, controller, sender, sidecars, history
<1>2. /\ c \in Clients /\ h.stream = stream[c] /\ cxnsMap[c] # h.stream
      /\ g.client = c /\ g.stream = h.stream /\ handlers' = {g} /\ up /\ InStep
  BY <1>1 DEF WireTypes, Converging, OneHandler
<1>3. replay \in SUBSET Requests
  BY DEF ControlInv, ControlType, Maps, Message, Requests
<1>4. /\ \A d \in Clients : d # c \/ ~linked[c] => Messages(d)' = Messages(d)
      /\ linked[c] => Messages(c)' = Messages(c) \cup replay
  <2>1. BagToSet(transit[c] (+) SetToBag(replay)) = BagToSet(transit[c]) \cup replay
    BY <1>2, <1>3, MoreMessages DEF WireTypes, Linked
  <2>2. transit = [d \in Clients |-> transit[d]]
    BY DEF WireTypes
  <2>3. /\ \A d \in Clients : d # c \/ ~linked[c] => transit'[d] = transit[d]
        /\ linked[c] => transit'[c] = transit[c] (+) SetToBag(replay)
    BY <1>1, <1>2, <2>2
  <2>4. QED
    BY <1>1, <1>2, <2>1, <2>3 DEF Messages
<1>5. \A d \in Clients : Messages(d) \subseteq Messages(d)'
  BY <1>2, <1>4
<1>6. AllIsCurrent'
  <2>1. \A m \in replay : IsCurrent(m)
    BY <1>2 DEF InStep, IsCurrent, Message
  <2>2. \A d \in Clients : \A m \in Messages(d)' : IsCurrent(m)
    BY <1>2, <1>4, <2>1 DEF Converging, AllIsCurrent
  <2>3. QED
    BY <1>1, <2>2 DEF Converging, AllIsCurrent, IsCurrent
<1>7. OneHandler'
  BY <1>1, <1>2 DEF OneHandler, InStep
<1>8. \A d \in Clients : Registered(d)' = Registered(d)
  BY <1>1 DEF Registered
<1>9. \A d \in Clients, n \in Names : Knows(d, n) => Knows(d, n)'
  BY <1>1, <1>5, KnowledgeStays
<1>10. DeletionsKnown' /\ UpdatesKnown'
  BY <1>1, <1>8, <1>9 DEF Converging, DeletionsKnown, UpdatesKnown, Distributed, OnItsWay
<1>11. ReplayKnown'
  <2> SUFFICES ASSUME linked[c], NEW n \in Names, Distributed(n)
               PROVE  Knows(c, n)'
    BY <1>1, <1>2 DEF ReplayKnown, Distributed
  <2>1. senderPolicies[n] = cluster[n]
    BY <1>2 DEF InStep, Distributed
  <2>2. CASE cluster[n] = Absent
    <3>1. ~Registered(c)
      BY <1>2 DEF Registered
    <3>2. QED
      BY <1>2, <1>9, <2>2, <3>1 DEF Converging, DeletionsKnown
  <2>3. CASE cluster[n] # Absent
    <3>1. Message(n, senderPolicies[n]) \in Messages(c)' /\ Message(n, senderPolicies[n]).name = n
      BY <1>2, <1>4, <2>1, <2>3 DEF Message
    <3>2. QED
      BY <3>1 DEF Knows
  <2>4. QED
    BY <2>2, <2>3
<1>12. QED
  BY <1>6, <1>7, <1>10, <1>11 DEF Converging

(* Then the stream is registered, and reached by what comes.                   *)
LEMMA RegisterConverges ==
  ASSUME ControlInv, WireTypes, Converging, NEW h \in handlers, Register(h)
  PROVE  Converging'
<1> DEFINE c == h.client
<1>1. /\ h.at = "replayed" /\ handlers' = handlers \ {h}
      /\ cxnsMap' = [cxnsMap EXCEPT ![c] = h.stream]
      /\ UNCHANGED <<cluster, queue, worker, up, senderPolicies, outgoing, stream, linked,
                     transit, received, listenerPolicies, missed>>
  BY DEF Register, controller, sidecars, history
<1>2. c \in Clients /\ h.stream = stream[c] /\ cxnsMap[c] # h.stream /\ handlers' = {}
  BY <1>1 DEF WireTypes, Converging, OneHandler
<1>3. \A d \in Clients : Messages(d)' = Messages(d)
  BY <1>1 DEF Messages
<1>4. AllIsCurrent' /\ OneHandler' /\ ReplayKnown'
  BY <1>1, <1>2, <1>3 DEF Converging, AllIsCurrent, IsCurrent, OneHandler, ReplayKnown
<1>5. /\ \A d \in Clients : d # c => Registered(d)' = Registered(d)
      /\ Registered(c)' => linked[c]
      /\ ~Registered(c)
  BY <1>1, <1>2 DEF Registered, WireTypes
<1>6. \A d \in Clients, n \in Names : Knows(d, n) => Knows(d, n)'
  BY <1>1, <1>3, KnowledgeStays
<1>7. DeletionsKnown'
  BY <1>1, <1>2, <1>5, <1>6 DEF Converging, DeletionsKnown
<1>8. UpdatesKnown'
  <2> SUFFICES ASSUME NEW d \in Clients, Registered(d)', NEW n \in Names, Distributed(n)
               PROVE  Knows(d, n)' \/ OnItsWay(n)'
    BY <1>1 DEF UpdatesKnown, Distributed
  <2>1. CASE d = c
    BY <1>1, <1>5, <1>6, <2>1 DEF Converging, ReplayKnown
  <2>2. CASE d # c
    BY <1>1, <1>5, <1>6, <2>2 DEF Converging, UpdatesKnown, OnItsWay
  <2>3. QED
    BY <2>1, <2>2
<1>9. QED
  BY <1>4, <1>7, <1>8 DEF Converging

(* A handler whose stream broke early ends.                                    *)
LEMMA RecvFailsConverges ==
  ASSUME Converging, NEW h \in handlers, RecvFails(h)
  PROVE  Converging'
<1>1. /\ handlers' \subseteq handlers
      /\ UNCHANGED <<cluster, queue, worker, up, senderPolicies, cxnsMap, outgoing, stream,
                     linked, transit, received, listenerPolicies, missed>>
  BY DEF RecvFails, controller, sender, sidecars, history
<1>2. QED
  BY <1>1
     DEF Converging, AllIsCurrent, OneHandler, DeletionsKnown, ReplayKnown, UpdatesKnown,
         IsCurrent, InStep, Knows, TakenOver, OnItsWay, Messages, Registered, Distributed

(* A client that is dropped is no longer told of deletions: those that have    *)
(* not been applied yet count as missed.                                       *)
LEMMA FlushConverges ==
  ASSUME WireTypes, Converging, NEW c \in Clients, Flush(c)
  PROVE  Converging'
<1>1. /\ missed' = [missed EXCEPT ![c] = @ \cup Stale(c)]
      /\ UNCHANGED <<cluster, queue, worker, up, senderPolicies, outgoing, handlers, stream,
                     linked, transit, received, listenerPolicies>>
  BY DEF Flush, controller, wire
<1>2. \A d \in Clients : /\ cxnsMap'[d] \in {cxnsMap[d], 0}
                         /\ d # c => cxnsMap'[d] = cxnsMap[d]
                         /\ missed[d] \subseteq missed'[d]
  BY <1>1 DEF Flush, WireTypes
<1>3. /\ \A d \in Clients : d # c => Registered(d)' = Registered(d)
      /\ ~Registered(c)'
  BY <1>1, <1>2 DEF Flush, Registered, WireTypes, Linked
<1>4. \A d \in Clients, n \in Names : Knows(d, n) => Knows(d, n)'
  BY <1>1, <1>2, KnowledgeStays DEF Messages
<1>5. AllIsCurrent'
  BY <1>1 DEF Converging, AllIsCurrent, IsCurrent, Messages
<1>6. OneHandler'
  <2>1. \A h \in handlers : h.client \in Clients /\ h.stream # 0
    BY DEF WireTypes
  <2>2. QED
    BY <1>1, <1>2, <2>1 DEF Converging, OneHandler, InStep
<1>7. \A n \in Names : cluster[n] = Absent => TakenOver(c, n)'
  BY <1>1 DEF TakenOver, Stale, WireTypes
<1>8. DeletionsKnown'
  BY <1>1, <1>3, <1>4, <1>7 DEF Converging, DeletionsKnown, Knows
<1>9. ReplayKnown' /\ UpdatesKnown'
  BY <1>1, <1>3, <1>4
     DEF Converging, ReplayKnown, UpdatesKnown, Distributed, OnItsWay, WireTypes
<1>10. QED
  BY <1>5, <1>6, <1>8, <1>9 DEF Converging

(* A sidecar dials while nothing is reconciled and nobody else registers.      *)
LEMMA ConnectConverges ==
  ASSUME ControlInv, WireTypes, Converging, handlers = {}, Reconciled, NEW c \in Clients, Connect(c)
  PROVE  Converging'
<1> DEFINE h == [client |-> c, stream |-> stream[c] + 1, at |-> "recv"]
<1>1. /\ up /\ ~linked[c] /\ handlers' = {h}
      /\ linked' = [linked EXCEPT ![c] = TRUE]
      /\ stream' = [stream EXCEPT ![c] = @ + 1]
      /\ UNCHANGED <<cluster, queue, worker, up, senderPolicies, cxnsMap, outgoing, transit,
                     received, listenerPolicies, missed>>
  BY DEF Connect, controller, sender
<1>2. /\ stream[c] \in Nat /\ stream'[c] = stream[c] + 1
      /\ cxnsMap[c] \in Nat /\ cxnsMap[c] <= stream[c]
  BY <1>1 DEF WireTypes, Linked
<1>3. \A d \in Clients : Messages(d)' = Messages(d)
  BY <1>1 DEF Messages
<1>4. /\ \A d \in Clients : d # c => Registered(d)' = Registered(d)
      /\ ~Registered(c) /\ ~Registered(c)'
  BY <1>1, <1>2 DEF Registered, WireTypes
<1>5. InStep
  BY <1>1 DEF InStep, ControlInv, SenderInStep, Settled, Reconciled, Idle
<1>6. OneHandler'
  <2>1. h.stream = stream'[c] /\ cxnsMap'[c] # h.stream /\ h.client = c
    BY <1>1, <1>2
  <2>2. InStep'
    BY <1>1, <1>5 DEF InStep
  <2>3. QED
    BY <1>1, <2>1, <2>2 DEF OneHandler
<1>7. AllIsCurrent'
  BY <1>1, <1>3 DEF Converging, AllIsCurrent, IsCurrent
<1>8. \A d \in Clients, n \in Names : Knows(d, n) => Knows(d, n)'
  BY <1>1, <1>3, KnowledgeStays
<1>9. DeletionsKnown' /\ UpdatesKnown'
  BY <1>1, <1>4, <1>8 DEF Converging, DeletionsKnown, UpdatesKnown, Distributed, OnItsWay
<1>10. ReplayKnown'
  BY <1>1 DEF ReplayKnown
<1>11. QED
  BY <1>6, <1>7, <1>9, <1>10 DEF Converging

(* The listener receives.                                                      *)
LEMMA RecvConverges ==
  ASSUME ControlInv, WireTypes, Converging, NEW c \in Clients, NEW m \in Requests, Recv(c, m)
  PROVE  Converging'
<1>1. /\ m \in BagToSet(transit[c])
      /\ transit' = [transit EXCEPT ![c] = Drop(@, m)]
      /\ received' = [received EXCEPT ![c] = Add(@, m)]
      /\ UNCHANGED <<cluster, queue, worker, up, senderPolicies, cxnsMap, outgoing, handlers,
                     stream, linked, listenerPolicies, missed>>
  BY DEF Recv, BagIn, controller, sender, history
<1>2. \A d \in Clients : Messages(d)' = Messages(d)
  <2>1. \A d \in Clients : d # c => Messages(d)' = Messages(d)
    BY <1>1 DEF Messages, WireTypes
  <2>2. IsMessages(transit[c]) /\ IsMessages(received[c])
    BY DEF WireTypes, Linked
  <2>3. transit'[c] = Drop(transit[c], m) /\ received'[c] = Add(received[c], m)
    BY <1>1 DEF WireTypes
  <2>4. Messages(c)' = Messages(c)
    BY <1>1, <2>2, <2>3, OneMessageMore, OneMessageLess DEF Messages
  <2>5. QED
    BY <2>1, <2>4
<1>3. AllIsCurrent' /\ OneHandler'
  BY <1>1, <1>2 DEF Converging, AllIsCurrent, IsCurrent, OneHandler, InStep
<1>4. \A d \in Clients : Registered(d)' = Registered(d)
  BY <1>1 DEF Registered
<1>5. \A d \in Clients, n \in Names : Knows(d, n) => Knows(d, n)'
  BY <1>1, <1>2, KnowledgeStays
<1>6. DeletionsKnown' /\ UpdatesKnown' /\ ReplayKnown'
  BY <1>1, <1>4, <1>5
     DEF Converging, DeletionsKnown, UpdatesKnown, ReplayKnown, Distributed, OnItsWay, WireTypes
<1>7. QED
  BY <1>3, <1>6 DEF Converging

(* What it processes is what the cluster says, so that it knows it then.       *)
LEMMA ProcessConverges ==
  ASSUME ControlInv, WireTypes, Converging,
         NEW c \in Clients, NEW m \in Requests, ProcessPolicy(c, m)
  PROVE  Converging'
<1>1. /\ m \in BagToSet(received[c])
      /\ received' = [received EXCEPT ![c] = Drop(@, m)]
      /\ listenerPolicies' = IF m.version \in Refused THEN listenerPolicies
                             ELSE [listenerPolicies EXCEPT ![c] = With(@, m)]
      /\ missed' = IF m.version = Absent THEN [missed EXCEPT ![c] = @ \ {m.name}] ELSE missed
      /\ UNCHANGED <<cluster, queue, worker, up, senderPolicies, cxnsMap, outgoing, handlers,
                     stream, linked, transit>>
  BY DEF ProcessPolicy, BagIn, Told, controller, sender, wire
<1>2. /\ \A d \in Clients : d # c => Messages(d)' = Messages(d)
      /\ Messages(c)' \subseteq Messages(c)
      /\ \A x \in Messages(c) : x # m => x \in Messages(c)'
  <2>1. \A d \in Clients : d # c => Messages(d)' = Messages(d)
    BY <1>1 DEF Messages, WireTypes
  <2>2. IsMessages(received[c])
    BY DEF WireTypes, Linked
  <2>3. received'[c] = Drop(received[c], m)
    BY <1>1 DEF WireTypes
  <2>4. QED
    BY <1>1, <2>1, <2>2, <2>3, OneMessageLess DEF Messages
<1>3. IsCurrent(m)
  BY <1>1 DEF Converging, AllIsCurrent, Messages
<1>4. AllIsCurrent' /\ OneHandler'
  BY <1>1, <1>2 DEF Converging, AllIsCurrent, IsCurrent, OneHandler, InStep
<1>5. \A d \in Clients : Registered(d)' = Registered(d)
  BY <1>1 DEF Registered
<1>6. /\ listenerPolicies[c] \in Maps /\ missed[c] \subseteq Names
      /\ \A d \in Clients : d # c => /\ listenerPolicies'[d] = listenerPolicies[d]
                                     /\ missed'[d] = missed[d]
  BY <1>1 DEF WireTypes
<1>7. ASSUME NEW d \in Clients, NEW n \in Names, Distributed(n), Knows(d, n)
      PROVE  Knows(d, n)'
  <2>1. CASE d # c
    BY <1>1, <1>2, <1>6, <1>7, <2>1, KnowledgeStays
  <2>2. CASE d = c /\ m.name = n
    <3>1. m.version = cluster[n] /\ m.version \notin Refused
      BY <1>3, <1>7, <2>2 DEF IsCurrent, Distributed
    <3>2. listenerPolicies'[c] = With(listenerPolicies[c], m)
      BY <1>1, <3>1 DEF WireTypes
    <3>3. listenerPolicies'[c][n] = cluster[n]
      BY <1>6, <2>2, <3>1, <3>2, WithMaps
    <3>4. QED
      BY <1>1, <2>2, <3>3 DEF Knows, TakenOver
  <2>3. CASE d = c /\ m.name # n
    <3>1. listenerPolicies'[c] \in {listenerPolicies[c], With(listenerPolicies[c], m)}
      BY <1>1 DEF WireTypes
    <3>2. listenerPolicies'[c][n] = listenerPolicies[c][n]
      BY <1>6, <2>3, <3>1, WithMaps
    <3>3. n \in missed[c] => n \in missed'[c]
      BY <1>1, <2>3 DEF WireTypes
    <3>4. QED
      BY <1>1, <1>2, <1>7, <2>3, <3>2, <3>3 DEF Knows, TakenOver
  <2>4. QED
    BY <2>1, <2>2, <2>3
<1>8. \A n \in Names : cluster[n] = Absent => Distributed(n)
  BY AbsentIsNoVersion, IgnoredAreVersions, RefusedAreVersions DEF Distributed
<1>9. DeletionsKnown' /\ UpdatesKnown'
  BY <1>1, <1>5, <1>7, <1>8
     DEF Converging, DeletionsKnown, UpdatesKnown, Distributed, OnItsWay
<1>10. ReplayKnown'
  BY <1>1, <1>7 DEF Converging, ReplayKnown, Distributed, WireTypes
<1>11. QED
  BY <1>4, <1>9, <1>10 DEF Converging

--------------------------------------------------------------------------------
(* A step in which a sidecar loses its stream: what it was not told is missed. *)
Loses(d) ==
  /\ ~Registered(d)' /\ ~linked'[d]
  /\ \/ listenerPolicies'[d] = Empty
     \/ /\ listenerPolicies'[d] = listenerPolicies[d]
        /\ missed'[d] = missed[d] \cup Stale(d)
  /\ Messages(d)' \subseteq Messages(d)

(* A step that does not concern it.                                            *)
Spared(d) ==
  /\ Registered(d)' = Registered(d) /\ linked'[d] = linked[d]
  /\ listenerPolicies'[d] = listenerPolicies[d] /\ missed'[d] = missed[d]
  /\ Messages(d)' = Messages(d)

LEMMA LossConverges ==
  ASSUME ControlInv, WireTypes, Converging, NEW L \in SUBSET Clients,
         \A d \in L : Loses(d), \A d \in Clients \ L : Spared(d),
         UNCHANGED <<cluster, stream>>,
         \/ UNCHANGED <<queue, worker, up, senderPolicies, cxnsMap, outgoing, handlers>>
         \/ L = Clients /\ handlers' = {} /\ worker' = Idle /\ outgoing' = EmptyBag
  PROVE  Converging'
<1>1. \A d \in Clients : Messages(d)' \subseteq Messages(d)
  BY DEF Loses, Spared
<1>2. AllIsCurrent'
  BY <1>1, NoMessages DEF Converging, AllIsCurrent, IsCurrent, Idle
<1>3. OneHandler'
  BY DEF Converging, OneHandler, InStep, Loses, Spared
<1>4. \A d \in Clients \ L, n \in Names : Knows(d, n) => Knows(d, n)'
  BY DEF Knows, TakenOver, Spared
<1>5. \A d \in L, n \in Names : cluster[n] = Absent => Knows(d, n)'
  BY DEF Knows, TakenOver, Stale, Empty, Loses
<1>6. DeletionsKnown'
  BY <1>4, <1>5 DEF Converging, DeletionsKnown, Loses, Spared
<1>7. UpdatesKnown'
  BY <1>4 DEF Converging, UpdatesKnown, Distributed, OnItsWay, Loses, Spared
<1>8. ReplayKnown'
  BY <1>4 DEF Converging, ReplayKnown, Distributed, WireTypes, Loses, Spared
<1>9. QED
  BY <1>2, <1>3, <1>6, <1>7, <1>8 DEF Converging

LEMMA FaultsConverge ==
  ASSUME ControlInv, WireTypes, Converging,
         \/ \E c \in Clients : Disconnect(c) \/ SidecarRestart(c)
         \/ ControlPlaneCrash
  PROVE  Converging'
<1>1. ASSUME NEW c \in Clients, Disconnect(c)
      PROVE  Converging'
  <2>1. /\ UNCHANGED <<cluster, stream, queue, worker, up, senderPolicies, cxnsMap, outgoing,
                       handlers, received, listenerPolicies>>
        /\ ~linked'[c] /\ transit'[c] = EmptyBag /\ missed'[c] = missed[c] \cup Stale(c)
        /\ \A d \in Clients \ {c} : /\ linked'[d] = linked[d] /\ transit'[d] = transit[d]
                                    /\ missed'[d] = missed[d]
    BY <1>1 DEF Disconnect, controller, sender, WireTypes
  <2>2. Messages(c)' \subseteq Messages(c) /\ ~Registered(c)'
    BY <2>1, NoMessages DEF Messages, Registered
  <2>3. \A d \in Clients \ {c} : Messages(d)' = Messages(d) /\ Registered(d)' = Registered(d)
    BY <2>1 DEF Messages, Registered
  <2>4. Loses(c) /\ \A d \in Clients \ {c} : Spared(d)
    BY <2>1, <2>2, <2>3 DEF Loses, Spared
  <2>5. {c} \in SUBSET Clients /\ \A d \in {c} : Loses(d)
    BY <2>4
  <2>6. QED
    BY <2>1, <2>4, <2>5, LossConverges
<1>2. ASSUME NEW c \in Clients, SidecarRestart(c)
      PROVE  Converging'
  <2>1. /\ UNCHANGED <<cluster, stream, queue, worker, up, senderPolicies, cxnsMap, outgoing,
                       handlers>>
        /\ ~linked'[c] /\ transit'[c] = EmptyBag /\ received'[c] = EmptyBag
        /\ listenerPolicies'[c] = Empty
        /\ \A d \in Clients \ {c} : /\ linked'[d] = linked[d] /\ transit'[d] = transit[d]
                                    /\ received'[d] = received[d] /\ missed'[d] = missed[d]
                                    /\ listenerPolicies'[d] = listenerPolicies[d]
    BY <1>2 DEF SidecarRestart, controller, sender, WireTypes
  <2>2. Messages(c)' \subseteq Messages(c) /\ ~Registered(c)'
    BY <2>1, NoMessages DEF Messages, Registered
  <2>3. \A d \in Clients \ {c} : Messages(d)' = Messages(d) /\ Registered(d)' = Registered(d)
    BY <2>1 DEF Messages, Registered
  <2>4. Loses(c) /\ \A d \in Clients \ {c} : Spared(d)
    BY <2>1, <2>2, <2>3 DEF Loses, Spared
  <2>5. {c} \in SUBSET Clients /\ \A d \in {c} : Loses(d)
    BY <2>4
  <2>6. QED
    BY <2>1, <2>4, <2>5, LossConverges
<1>3. CASE ControlPlaneCrash
  <2>1. /\ UNCHANGED <<cluster, stream, received, listenerPolicies>>
        /\ handlers' = {} /\ worker' = Idle /\ outgoing' = EmptyBag
        /\ \A d \in Clients : /\ ~linked'[d] /\ transit'[d] = EmptyBag
                              /\ missed'[d] = missed[d] \cup Stale(d)
    BY <1>3 DEF ControlPlaneCrash
  <2>2. \A d \in Clients : Messages(d)' \subseteq Messages(d) /\ ~Registered(d)'
    BY <2>1, NoMessages DEF Messages, Registered
  <2>3. \A d \in Clients : Loses(d)
    BY <2>1, <2>2 DEF Loses
  <2>4. Clients \in SUBSET Clients /\ \A d \in Clients \ Clients : Spared(d)
    OBVIOUS
  <2>5. QED
    BY <2>1, <2>3, <2>4, LossConverges
<1>4. QED
  BY <1>1, <1>2, <1>3

--------------------------------------------------------------------------------
LEMMA StreamInit == Init => StreamInv
<1> SUFFICES ASSUME Init PROVE StreamInv
  OBVIOUS
<1>1. ControlInv
  <2>1. /\ cluster = Empty /\ senderPolicies = Empty /\ queue = {} /\ worker = Idle /\ up = TRUE
    BY DEF Init
  <2>2. QED
    BY <2>1, EmptyMaps DEF ControlInv, ControlType, WorkerIsCurrent, DownIsBlank, SenderInStep,
                           Idle
<1>2. Converging
  <2>1. AllIsCurrent /\ OneHandler /\ ReplayKnown
    BY NoMessages DEF Init, AllIsCurrent, OneHandler, ReplayKnown, Idle, Messages
  <2>2. \A c \in Clients, n \in Names : Knows(c, n)
    BY DEF Init, Knows, TakenOver, Empty
  <2>3. QED
    BY <2>1, <2>2 DEF Converging, DeletionsKnown, UpdatesKnown
<1>3. QED
  BY <1>1, <1>2, WireInit DEF StreamInv

(* An overlap is not forgotten, and an edit or a call that overlaps is one.    *)
LEMMA NoOverlap ==
  ASSUME WireTypes, [Next]_vars, ~overlapped'
  PROVE  /\ ~overlapped
         /\ (\E n \in Names, v \in Versions \cup {Absent} : Edit(n, v)) =>
              handlers = {} /\ NothingInFlight
         /\ (\E c \in Clients : Connect(c)) => handlers = {} /\ Reconciled
<1>1. (\E n \in Names, v \in Versions \cup {Absent} : Edit(n, v)) =>
        ~overlapped /\ handlers = {} /\ NothingInFlight
  BY DEF Edit
<1>2. (\E c \in Clients : Connect(c)) => ~overlapped /\ handlers = {} /\ Reconciled
  BY DEF Connect
<1>3. \/ \E n \in Names, v \in Versions \cup {Absent} : Edit(n, v)
      \/ \E c \in Clients : Connect(c)
      \/ overlapped' = overlapped
  BY DEF Next, System, Environment, Controller, Handler, vars, Get, Store, Send, Dequeue,
         ControlPlaneStart, FanOut, Replay, Register, RecvFails, Flush, Recv, ProcessPolicy,
         Resync, GetFails, Disconnect, SidecarRestart, ControlPlaneCrash, sidecars, history
<1>4. QED
  BY <1>1, <1>2, <1>3

LEMMA StreamStep == StreamInv /\ [Next]_vars => StreamInv'
<1> SUFFICES ASSUME ControlInv, WireTypes, ~overlapped => Converging, [Next]_vars
             PROVE  ControlInv' /\ WireTypes' /\ (~overlapped' => Converging')
  BY DEF StreamInv
<1>1. ControlInv' /\ WireTypes'
  BY ControlInductive, WireStep
<1>2. SUFFICES ASSUME ~overlapped' PROVE Converging'
  BY <1>1
<1>3. /\ Converging
      /\ (\E n \in Names, v \in Versions \cup {Absent} : Edit(n, v)) =>
           handlers = {} /\ NothingInFlight
      /\ (\E c \in Clients : Connect(c)) => handlers = {} /\ Reconciled
  BY <1>2, NoOverlap
<1>4. ASSUME NEW c \in Clients, NEW m \in Requests, Recv(c, m) \/ ProcessPolicy(c, m)
      PROVE  Converging'
  BY <1>3, <1>4, RecvConverges, ProcessConverges
<1>5. ASSUME NEW h \in handlers, Handler(h)
      PROVE  Converging'
  BY <1>3, <1>5, ReplayConverges, RegisterConverges, RecvFailsConverges DEF Handler
<1>6. ASSUME NEW c \in Clients, Connect(c) \/ Flush(c) \/ Disconnect(c) \/ SidecarRestart(c)
      PROVE  Converging'
  BY <1>3, <1>6, ConnectConverges, FlushConverges, FaultsConverge
<1>7. CASE Controller \/ ControlPlaneStart \/ Resync \/ GetFails
  BY <1>3, <1>7, ControllerConverges
<1>8. CASE ControlPlaneCrash
  BY <1>3, <1>8, FaultsConverge
<1>9. ASSUME NEW m \in Requests, FanOut(m) PROVE Converging'
  BY <1>3, <1>9, FanOutConverges
<1>10. ASSUME NEW n \in Names, NEW v \in Versions \cup {Absent}, Edit(n, v) PROVE Converging'
  BY <1>3, <1>10, EditConverges
<1>11. CASE UNCHANGED vars
  BY <1>3, <1>11
     DEF vars, Converging, AllIsCurrent, OneHandler, DeletionsKnown, ReplayKnown, UpdatesKnown,
         IsCurrent, InStep, Knows, TakenOver, OnItsWay, Messages, Registered, Distributed
<1>12. QED
  BY <1>4, <1>5, <1>6, <1>7, <1>8, <1>9, <1>10, <1>11 DEF Next, System, Environment

LEMMA StreamCorrect == Spec => []StreamInv
  BY StreamInit, StreamStep, PTL DEF Spec

(* Every bag holds messages, streams are numbered, and only a running control  *)
(* plane has open ones.                                                        *)
THEOREM StreamTypeCorrect == Spec => []TypeOK
<1>1. StreamInv => TypeOK
  BY TypesFollow DEF StreamInv
<1>2. QED
  BY <1>1, StreamCorrect, PTL

(* However many sidecars, policies, edits, crashes and lost connections: when  *)
(* nothing is under way, a registered sidecar has the cluster's policies, but  *)
(* for those whose deletion it missed, unless an edit or a registration has    *)
(* overlapped another.                                                         *)
THEOREM QuietSidecarsAgree == Spec => []QuietConverged
<1>1. StreamInv => QuietConverged
  <2> SUFFICES ASSUME StreamInv, Quiet, ~overlapped, NEW c \in Clients, Registered(c),
                      NEW n \in Names, ~Agrees(c, n)
               PROVE  n \notin Existing /\ n \in missed[c]
    BY DEF QuietConverged
  <2>1. Distributed(n) /\ listenerPolicies[c][n] # cluster[n]
    BY DEF Agrees, Distributed
  <2>2. Messages(c) = {} /\ ~OnItsWay(n)
    BY NoMessages DEF Quiet, NothingInFlight, Reconciled, Messages, OnItsWay, Idle
  <2>3. TakenOver(c, n)
    BY <2>1, <2>2 DEF StreamInv, Converging, UpdatesKnown, Knows
  <2>4. QED
    BY <2>1, <2>3 DEF TakenOver, Existing
<1>2. QED
  BY <1>1, StreamCorrect, PTL
================================================================================
