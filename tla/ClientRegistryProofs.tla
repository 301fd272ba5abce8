-------------------------- MODULE ClientRegistryProofs -------------------------
(* Proofs about ClientRegistry: any number of sidecars and addresses, any      *)
(* durations.  What the properties ask of the durations is a hypothesis of the *)
(* theorem.                                                                    *)
EXTENDS ClientRegistry, TLAPS

(* The rest of the types.                                                      *)
Shapes ==
    /\ timers \in [Clients -> SUBSET Nat]
    /\ checks \subseteq [client : Clients, time : Int, sent : Nat, awaited : BOOLEAN]
    /\ requests \subseteq [client : Clients, stream : Nat]

(* A sidecar that is off has no timers, no health check that it sent since it  *)
(* went off, and none that it awaits; one that never died awaits all it sent.  *)
(* One that has a stream has been started, and one that went off afterwards    *)
(* has died.                                                                   *)
Lives ==
    /\ \A c \in Clients :
         /\ status[c] # "off" => stream[c] > 0
         /\ status[c] = "off" => timers[c] = {}
         /\ status[c] = "off" /\ stream[c] > 0 => died[c] # None
    /\ \A m \in checks :
         /\ stream[m.client] > 0
         /\ status[m.client] = "off" => m.sent <= died[m.client] /\ ~m.awaited
         /\ died[m.client] = None => m.awaited

(* Nothing is ever recorded for sidecars without an address.                   *)
UnaddressedIsUnknown ==
    Unaddressed \in Addresses =>
        /\ healthCheckMap[Unaddressed] = None
        /\ inactive # None => Unaddressed \notin inactive

RegistryInv == TypeOK /\ Shapes /\ Lives /\ UnaddressedIsUnknown

--------------------------------------------------------------------------------
(* When the durations fit, a sidecar whose health checks arrive is never taken *)
(* for dead.                                                                   *)
ChecksAreFrequent ==
    \A c \in Clients : \A s \in Skews[c] : Interval + 2 * MaxDelay <= MaxInactive + s

Untroubled(c) == died[c] = None /\ c \notin lost

(* The last health check recorded for the sidecar, and the next one: its timer *)
(* is running, or it is on its way.                                            *)
NextCheckInTime(c) ==
    \/ \E t \in timers[c] :
         t <= healthCheckMap[address[c]] - skew[c] + MaxDelay + Interval
    \/ \E m \in checks :
         /\ m.client = c
         /\ m.sent <= healthCheckMap[address[c]] - skew[c] + MaxDelay + Interval

HeardInTime ==
    \A c \in Clients : HasOwnAddress(c) /\ Untroubled(c) =>
        /\ healthCheckMap[address[c]] # None => NextCheckInTime(c)
        /\ inactive # None => address[c] \notin inactive

KeptOnceRegistered ==
    \A c \in Clients :
        (HasOwnAddress(c) \/ address[c] = Unaddressed) /\ Untroubled(c) /\ stream[c] > 0 =>
            cxnsMap[address[c]] # None \/ Requested(c)

LinkedInv == RegistryInv /\ HeardInTime /\ KeptOnceRegistered

--------------------------------------------------------------------------------
(* When health checks arrive within the time of inactivity, a sidecar that is  *)
(* gone is dropped in time.                                                    *)
ChecksArriveInTime ==
    \A c \in Clients : \A s \in Skews[c] : MaxDelay <= MaxInactive + s

(* What is recorded for a sidecar was sent before now, and before it went off. *)
RecordedWhileOn ==
    \A c \in Clients : HasOwnAddress(c) /\ healthCheckMap[address[c]] # None =>
        /\ healthCheckMap[address[c]] - skew[c] <= now
        /\ status[c] = "off" => healthCheckMap[address[c]] - skew[c] <= died[c]

(* A sidecar that was heard of is known to the monitor while it is in the map. *)
HeardIsRecorded ==
    \A c \in Clients : HasOwnAddress(c) /\ heard[c] =>
        /\ stream[c] > 0
        /\ ~Requested(c)
        /\ cxnsMap[address[c]] # None => healthCheckMap[address[c]] # None

(* The monitor wakes up once more, at most, before a sidecar that is gone is   *)
(* due, and the round after that takes it.                                     *)
Due(c) == died[c] + MaxInactive + skew[c]
DroppedWhenDue ==
    /\ nextFlush <= now + FlushInterval
    /\ \A c \in Clients :
         HasOwnAddress(c) /\ status[c] = "off" /\ heard[c] /\ cxnsMap[address[c]] # None =>
             /\ nextFlush <= Due(c) + FlushInterval
             /\ inactive # None /\ now > Due(c) => address[c] \in inactive

GoneInv == RegistryInv /\ RecordedWhileOn /\ HeardIsRecorded /\ DroppedWhenDue

--------------------------------------------------------------------------------
(* The durations are numbers, and so are the clocks.                           *)
LEMMA Durations ==
  /\ Interval \in Nat \ {0} /\ FlushInterval \in Nat \ {0}
  /\ MaxInactive \in Nat /\ MaxDelay \in Nat /\ Horizon \in Nat /\ MaxStreams \in Nat
  BY IntervalsArePositive, DurationsAreNat

LEMMA Clocks ==
  ASSUME NEW c \in Clients
  PROVE  Skews[c] \subseteq Int /\ None \notin Int
  BY SkewsAreTimes

LEMMA RegistryInit == Init => RegistryInv
<1> SUFFICES ASSUME Init PROVE RegistryInv
  OBVIOUS
<1>1. TypeOK
  <2>1. DOMAIN skew = Clients /\ \A c \in Clients : skew[c] \in Skews[c]
    BY DEF Init
  <2>2. QED
    BY <2>1, Durations DEF Init, TypeOK
<1>2. Shapes /\ Lives /\ UnaddressedIsUnknown
  BY DEF Init, Shapes, Lives, UnaddressedIsUnknown
<1>3. QED
  BY <1>1, <1>2 DEF RegistryInv

LEMMA RegistryStep == RegistryInv /\ [Next]_vars => RegistryInv'
<1> SUFFICES ASSUME TypeOK, Shapes, Lives, UnaddressedIsUnknown, [Next]_vars
             PROVE  TypeOK' /\ Shapes' /\ Lives' /\ UnaddressedIsUnknown'
  BY DEF RegistryInv
<1> USE Durations
<1>1. ASSUME NEW c \in Clients, Connect(c)
     PROVE  TypeOK' /\ Shapes' /\ Lives' /\ UnaddressedIsUnknown'
  <2>1. TypeOK'
    BY <1>1, Clocks DEF Connect, Stream, sidecar, monitor, TypeOK, Shapes
  <2>2. Shapes'
    BY <1>1, Clocks DEF Connect, Stream, sidecar, monitor, TypeOK, Shapes
  <2>3. Lives'
    BY <1>1, Clocks DEF Connect, Stream, sidecar, monitor, TypeOK, Shapes, Lives
  <2>4. UnaddressedIsUnknown'
    BY <1>1 DEF Connect, Stream, sidecar, monitor, TypeOK, Shapes, UnaddressedIsUnknown
  <2>5. QED
    BY <2>1, <2>2, <2>3, <2>4
<1>2. ASSUME NEW c \in Clients, SendCheck(c)
     PROVE  TypeOK' /\ Shapes' /\ Lives' /\ UnaddressedIsUnknown'
  <2>1. TypeOK'
    BY <1>2, Clocks DEF SendCheck, sidecar, monitor, TypeOK, Shapes
  <2>2. Shapes'
    <3>1. now \in Nat /\ now + skew[c] \in Int
      BY Clocks DEF TypeOK
    <3>2. [client |-> c, time |-> now + skew[c], sent |-> now, awaited |-> TRUE]
             \in [client : Clients, time : Int, sent : Nat, awaited : BOOLEAN]
      BY <3>1
    <3>3. QED
      BY <1>2, <3>2 DEF SendCheck, Shapes
  <2>3. Lives'
    <3>1. status[c] # "off" /\ stream[c] > 0
      BY <1>2 DEF SendCheck, Lives
    <3>2. /\ UNCHANGED <<status, stream, died>>
          /\ \A d \in Clients : timers'[d] \subseteq timers[d]
      BY <1>2 DEF SendCheck, sidecar, Shapes
    <3>3. \A m \in checks' : m \in checks \/ (m.client = c /\ m.awaited)
      <4> DEFINE new == [client |-> c, time |-> now + skew[c], sent |-> now, awaited |-> TRUE]
      <4>1. new.client = c /\ new.awaited
        OBVIOUS
      <4>2. checks' = checks \cup {new}
        BY <1>2 DEF SendCheck
      <4>3. QED
        BY <4>1, <4>2
    <3>4. QED
      BY <3>1, <3>2, <3>3 DEF Lives, Shapes
  <2>4. UnaddressedIsUnknown'
    BY <1>2 DEF SendCheck, sidecar, monitor, TypeOK, Shapes, UnaddressedIsUnknown
  <2>5. QED
    BY <2>1, <2>2, <2>3, <2>4
<1>3. ASSUME NEW c \in Clients, Break(c)
     PROVE  TypeOK' /\ Shapes' /\ Lives' /\ UnaddressedIsUnknown'
  <2>1. TypeOK'
    BY <1>3, Clocks DEF Break, sidecar, monitor, TypeOK, Shapes
  <2>2. Shapes'
    BY <1>3, Clocks DEF Break, sidecar, monitor, TypeOK, Shapes
  <2>3. Lives'
    BY <1>3, Clocks DEF Break, sidecar, monitor, TypeOK, Shapes, Lives
  <2>4. UnaddressedIsUnknown'
    BY <1>3 DEF Break, sidecar, monitor, TypeOK, Shapes, UnaddressedIsUnknown
  <2>5. QED
    BY <2>1, <2>2, <2>3, <2>4
<1>4. ASSUME NEW c \in Clients, Die(c)
     PROVE  TypeOK' /\ Shapes' /\ Lives' /\ UnaddressedIsUnknown'
  <2>1. TypeOK'
    BY <1>4, Clocks DEF Die, sidecar, monitor, TypeOK, Shapes
  <2>2. Shapes'
    <3>1. \A m \in checks : [m EXCEPT !.awaited = FALSE]
             \in [client : Clients, time : Int, sent : Nat, awaited : BOOLEAN]
      BY DEF Shapes
    <3>2. QED
      BY <1>4, <3>1 DEF Die, Shapes
  <2>3. Lives'
    <3>1. /\ UNCHANGED stream /\ stream[c] > 0
          /\ status'[c] = "off" /\ timers'[c] = {} /\ died'[c] = now
          /\ \A d \in Clients \ {c} : /\ status'[d] = status[d] /\ timers'[d] = timers[d]
                                      /\ died'[d] = died[d]
      BY <1>4 DEF Die, TypeOK, Shapes, Lives
    <3>2. now # None
      BY SkewsAreTimes DEF TypeOK
    <3>3. ASSUME NEW m \in checks'
          PROVE  \/ m.client = c /\ m.sent <= now /\ ~m.awaited
                 \/ m \in checks /\ m.client # c
      BY <1>4, <3>3 DEF Die, TypeOK, Shapes
    <3>4. QED
      BY <3>1, <3>2, <3>3 DEF Lives, Shapes
  <2>4. UnaddressedIsUnknown'
    BY <1>4 DEF Die, sidecar, monitor, TypeOK, Shapes, UnaddressedIsUnknown
  <2>5. QED
    BY <2>1, <2>2, <2>3, <2>4
<1>5. ASSUME NEW m \in checks, Lose(m)
     PROVE  TypeOK' /\ Shapes' /\ Lives' /\ UnaddressedIsUnknown'
  <2>1. TypeOK'
    BY <1>5, Clocks DEF Lose, Rearmed, sidecar, monitor, TypeOK, Shapes
  <2>2. Shapes'
    BY <1>5, Clocks DEF Lose, Rearmed, sidecar, monitor, TypeOK, Shapes
  <2>3. Lives'
    BY <1>5, Clocks DEF Lose, Rearmed, sidecar, monitor, TypeOK, Shapes, Lives
  <2>4. UnaddressedIsUnknown'
    BY <1>5 DEF Lose, Rearmed, sidecar, monitor, TypeOK, Shapes, UnaddressedIsUnknown
  <2>5. QED
    BY <2>1, <2>2, <2>3, <2>4
<1>6. ASSUME NEW m \in checks, HealthCheck(m)
     PROVE  TypeOK' /\ Shapes' /\ Lives' /\ UnaddressedIsUnknown'
  <2>1. TypeOK'
    BY <1>6, Clocks DEF HealthCheck, Rearmed, Later, sidecar, monitor, TypeOK, Shapes
  <2>2. Shapes'
    BY <1>6, Clocks DEF HealthCheck, Rearmed, Later, sidecar, monitor, TypeOK, Shapes
  <2>3. Lives'
    BY <1>6, Clocks DEF HealthCheck, Rearmed, Later, sidecar, monitor, TypeOK, Shapes, Lives
  <2>4. UnaddressedIsUnknown'
    BY <1>6 DEF HealthCheck, Rearmed, Later, sidecar, monitor, TypeOK, Shapes, UnaddressedIsUnknown
  <2>5. QED
    BY <2>1, <2>2, <2>3, <2>4
<1>7. ASSUME NEW h \in requests, Register(h)
     PROVE  TypeOK' /\ Shapes' /\ Lives' /\ UnaddressedIsUnknown'
  <2>1. TypeOK'
    BY <1>7, Clocks DEF Register, sidecar, monitor, TypeOK, Shapes
  <2>2. Shapes'
    BY <1>7, Clocks DEF Register, sidecar, monitor, TypeOK, Shapes
  <2>3. Lives'
    BY <1>7, Clocks DEF Register, sidecar, monitor, TypeOK, Shapes, Lives
  <2>4. UnaddressedIsUnknown'
    BY <1>7 DEF Register, sidecar, monitor, TypeOK, Shapes, UnaddressedIsUnknown
  <2>5. QED
    BY <2>1, <2>2, <2>3, <2>4
<1>8. CASE GetInactiveClients
  <2>1. TypeOK'
    BY <1>8, Clocks DEF GetInactiveClients, sidecar, monitor, TypeOK, Shapes
  <2>2. Shapes'
    BY <1>8, Clocks DEF GetInactiveClients, sidecar, monitor, TypeOK, Shapes
  <2>3. Lives'
    BY <1>8, Clocks DEF GetInactiveClients, sidecar, monitor, TypeOK, Shapes, Lives
  <2>4. UnaddressedIsUnknown'
    BY <1>8 DEF GetInactiveClients, sidecar, monitor, TypeOK, Shapes, UnaddressedIsUnknown
  <2>5. QED
    BY <2>1, <2>2, <2>3, <2>4
<1>9. CASE DeleteInactive
  <2>1. TypeOK'
    BY <1>9, Clocks DEF DeleteInactive, sidecar, monitor, TypeOK, Shapes
  <2>2. Shapes'
    BY <1>9, Clocks DEF DeleteInactive, sidecar, monitor, TypeOK, Shapes
  <2>3. Lives'
    BY <1>9, Clocks DEF DeleteInactive, sidecar, monitor, TypeOK, Shapes, Lives
  <2>4. UnaddressedIsUnknown'
    BY <1>9 DEF DeleteInactive, sidecar, monitor, TypeOK, Shapes, UnaddressedIsUnknown
  <2>5. QED
    BY <2>1, <2>2, <2>3, <2>4
<1>10. CASE Tick
  <2>1. TypeOK'
    <3>1. /\ now' = now + 1 /\ now \in Nat /\ now' \in 0 .. Horizon
          /\ UNCHANGED <<address, skew, status, stream, died, lost, timers, checks, requests,
                         cxnsMap, healthCheckMap, nextFlush, inactive, heard>>
      BY <1>10 DEF Tick, sidecar, monitor, TypeOK
    <3>2. now' <= nextFlush /\ inactive = None
      BY <1>10, <3>1 DEF Tick, TypeOK
    <3>3. \A c \in Clients : \A t \in timers[c] : t \in now' .. now' + Interval
      <4> SUFFICES ASSUME NEW c \in Clients, NEW t \in timers[c]
                   PROVE  t \in now' .. now' + Interval
        OBVIOUS
      <4>1. t # now /\ t \in now .. now + Interval
        BY <1>10 DEF Tick, TypeOK
      <4>2. QED
        BY <3>1, <4>1
    <3>4. \A m \in checks : m.sent <= now' /\ now' - m.sent <= MaxDelay
      BY <1>10, <3>1 DEF Tick, TypeOK, Shapes
    <3>5. QED
      BY <3>1, <3>2, <3>3, <3>4 DEF TypeOK
  <2>2. Shapes'
    BY <1>10, Clocks DEF Tick, sidecar, monitor, TypeOK, Shapes
  <2>3. Lives'
    BY <1>10, Clocks DEF Tick, sidecar, monitor, TypeOK, Shapes, Lives
  <2>4. UnaddressedIsUnknown'
    BY <1>10 DEF Tick, sidecar, monitor, TypeOK, Shapes, UnaddressedIsUnknown
  <2>5. QED
    BY <2>1, <2>2, <2>3, <2>4
<1>11. CASE UNCHANGED vars
  BY <1>11 DEF vars, TypeOK, Shapes, Lives, UnaddressedIsUnknown
<1>12. QED
  BY <1>1, <1>2, <1>3, <1>4, <1>5, <1>6, <1>7, <1>8, <1>9, <1>10, <1>11 DEF Next

LEMMA RegistryCorrect == Spec => []RegistryInv
  BY RegistryInit, RegistryStep, PTL DEF Spec

(* Who has which address and which clock never changes, and nobody's troubles  *)
(* are forgotten.                                                              *)
LEMMA Lasting ==
  ASSUME RegistryInv, [Next]_vars
  PROVE  /\ UNCHANGED <<address, skew>>
         /\ \A d \in Clients : /\ HasOwnAddress(d)' = HasOwnAddress(d)
                               /\ Untroubled(d)' => Untroubled(d)
<1>1. UNCHANGED <<address, skew>>
  BY DEF Next, vars, Connect, SendCheck, Break, Die, Lose, HealthCheck, Register,
         GetInactiveClients, DeleteInactive, Tick, sidecar
<1>2. \A d \in Clients : died'[d] = None => died[d] = None
  <2>1. CASE \E c \in Clients : Die(c)
    <3>1. now # None
      BY SkewsAreTimes DEF RegistryInv, TypeOK
    <3>2. QED
      BY <2>1, <3>1 DEF Die, RegistryInv, TypeOK
  <2>2. CASE ~\E c \in Clients : Die(c)
    BY <2>2 DEF Next, vars, Connect, SendCheck, Break, Lose, HealthCheck, Register,
                GetInactiveClients, DeleteInactive, Tick, sidecar
  <2>3. QED
    BY <2>1, <2>2
<1>3. lost \subseteq lost'
  BY DEF Next, vars, Connect, SendCheck, Break, Die, Lose, HealthCheck, Register,
         GetInactiveClients, DeleteInactive, Tick, sidecar
<1>4. QED
  BY <1>1, <1>2, <1>3 DEF HasOwnAddress, Untroubled

(* As long as the next health check is in time, the last one is not old.       *)
LEMMA LastCheckIsRecent ==
  ASSUME ChecksAreFrequent, RegistryInv, NEW d \in Clients,
         healthCheckMap[address[d]] # None, NextCheckInTime(d)
  PROVE  now - healthCheckMap[address[d]] <= MaxInactive
<1> DEFINE last == healthCheckMap[address[d]]
<1>1. /\ last \in Int /\ skew[d] \in Int /\ now \in Nat
      /\ Interval + 2 * MaxDelay <= MaxInactive + skew[d]
  BY Clocks DEF RegistryInv, TypeOK, ChecksAreFrequent
<1>2. CASE \E t \in timers[d] : t <= last - skew[d] + MaxDelay + Interval
  <2>1. PICK t \in timers[d] : t <= last - skew[d] + MaxDelay + Interval
    BY <1>2
  <2>2. t \in Nat /\ now <= t
    BY Durations DEF RegistryInv, TypeOK, Shapes
  <2>3. QED
    BY <1>1, <2>1, <2>2, Durations
<1>3. CASE \E m \in checks : m.client = d /\ m.sent <= last - skew[d] + MaxDelay + Interval
  <2>1. PICK m \in checks : m.client = d /\ m.sent <= last - skew[d] + MaxDelay + Interval
    BY <1>3
  <2>2. m.sent \in Nat /\ now - m.sent <= MaxDelay
    BY DEF RegistryInv, TypeOK
  <2>3. QED
    BY <1>1, <2>1, <2>2, Durations
<1>4. QED
  BY <1>2, <1>3 DEF NextCheckInTime

LEMMA HeardInTimeStep ==
  ASSUME ChecksAreFrequent, RegistryInv, HeardInTime, [Next]_vars
  PROVE  HeardInTime'
<1> SUFFICES ASSUME NEW d \in Clients, HasOwnAddress(d)', Untroubled(d)'
             PROVE  /\ healthCheckMap'[address'[d]] # None => NextCheckInTime(d)'
                    /\ inactive' # None => address'[d] \notin inactive'
  BY DEF HeardInTime
<1> DEFINE last == healthCheckMap[address[d]]
<1>1. UNCHANGED <<address, skew>> /\ HasOwnAddress(d) /\ Untroubled(d)
  BY Lasting
<1>2. /\ last # None => NextCheckInTime(d)
      /\ inactive # None => address[d] \notin inactive
  BY <1>1 DEF HeardInTime
<1>3. address[d] \in Addresses /\ skew[d] \in Int /\ now \in Nat
  BY Clocks DEF RegistryInv, TypeOK
<1>4. CASE \E c \in Clients : Connect(c) \/ Break(c)
  <2>1. /\ timers[d] \subseteq timers'[d]
        /\ \A m \in checks : m.client = d => m \in checks'
        /\ UNCHANGED <<healthCheckMap, inactive>>
    BY <1>4 DEF Connect, Break, sidecar, monitor, RegistryInv, Shapes
  <2>2. QED
    BY <1>1, <1>2, <2>1 DEF NextCheckInTime
<1>5. ASSUME NEW c \in Clients, SendCheck(c)
      PROVE  /\ healthCheckMap'[address'[d]] # None => NextCheckInTime(d)'
             /\ inactive' # None => address'[d] \notin inactive'
  <2>1. /\ UNCHANGED <<healthCheckMap, inactive>> /\ checks \subseteq checks'
        /\ \A t \in timers[d] : t \in timers'[d] \/ (t = now /\ c = d)
        /\ [client |-> c, time |-> now + skew[c], sent |-> now, awaited |-> TRUE] \in checks'
    BY <1>5 DEF SendCheck, monitor, RegistryInv, Shapes
  <2>2. QED
    BY <1>1, <1>2, <2>1 DEF NextCheckInTime
<1>6. ASSUME NEW c \in Clients, Die(c)
      PROVE  /\ healthCheckMap'[address'[d]] # None => NextCheckInTime(d)'
             /\ inactive' # None => address'[d] \notin inactive'
  <2>1. c # d
    BY <1>6, <1>3, SkewsAreTimes DEF Die, Untroubled, RegistryInv, TypeOK
  <2>2. /\ timers'[d] = timers[d] /\ UNCHANGED <<healthCheckMap, inactive>>
        /\ \A m \in checks : m.client = d => m \in checks'
    BY <1>6, <2>1 DEF Die, monitor, RegistryInv, Shapes
  <2>3. QED
    BY <1>1, <1>2, <2>2 DEF NextCheckInTime
<1>7. ASSUME NEW m \in checks, Lose(m)
      PROVE  /\ healthCheckMap'[address'[d]] # None => NextCheckInTime(d)'
             /\ inactive' # None => address'[d] \notin inactive'
  <2>1. m.client # d
    BY <1>7 DEF Lose, Untroubled
  <2>2. /\ timers[d] \subseteq timers'[d]
        /\ \A n \in checks : n.client = d => n \in checks'
        /\ UNCHANGED <<healthCheckMap, inactive>>
    BY <1>7, <2>1 DEF Lose, Rearmed, monitor, RegistryInv, Shapes
  <2>3. QED
    BY <1>1, <1>2, <2>2 DEF NextCheckInTime
<1>8. ASSUME NEW m \in checks, HealthCheck(m)
      PROVE  /\ healthCheckMap'[address'[d]] # None => NextCheckInTime(d)'
             /\ inactive' # None => address'[d] \notin inactive'
  <2>1. /\ m.client \in Clients /\ m.sent \in Nat
        /\ now - m.sent <= MaxDelay /\ m.time = m.sent + skew[m.client]
    BY DEF RegistryInv, TypeOK
  <2>2. inactive' = inactive /\ checks' = checks \ {m}
    BY <1>8 DEF HealthCheck, monitor
  <2>3. CASE m.client = d
    <3>1. m.awaited
      BY <1>1, <2>3 DEF RegistryInv, Lives, Untroubled
    <3>2. now + Interval \in timers'[d]
      BY <1>8, <2>3, <3>1 DEF HealthCheck, Rearmed, RegistryInv, Shapes
    <3>3. healthCheckMap'[address[d]] \in Int /\ m.time <= healthCheckMap'[address[d]]
      <4>1. last \in Int \cup {None} /\ m.time \in Int
        BY <1>3, <2>1, <2>3 DEF RegistryInv, TypeOK
      <4>2. CASE Later(m.time, last)
        BY <1>1, <1>3, <1>8, <2>3, <4>1, <4>2 DEF HealthCheck, HasOwnAddress, RegistryInv, TypeOK
      <4>3. CASE ~Later(m.time, last)
        BY <1>1, <1>3, <1>8, <2>3, <4>1, <4>3 DEF HealthCheck, HasOwnAddress, Later
      <4>4. QED
        BY <4>2, <4>3
    <3>4. now + Interval <= healthCheckMap'[address[d]] - skew[d] + MaxDelay + Interval
      BY <1>3, <2>1, <2>3, <3>3, Durations
    <3>5. NextCheckInTime(d)'
      BY <1>1, <3>2, <3>4 DEF NextCheckInTime
    <3>6. QED
      BY <1>1, <1>2, <2>2, <3>5
  <2>4. CASE m.client # d
    <3>1. address[m.client] # address[d]
      BY <1>1, <2>1, <2>4 DEF HasOwnAddress
    <3>2. healthCheckMap'[address[d]] = last
      BY <1>3, <1>8, <3>1 DEF HealthCheck, RegistryInv, TypeOK
    <3>3. timers'[d] = timers[d]
      BY <1>8, <2>4 DEF HealthCheck, Rearmed, RegistryInv, Shapes
    <3>4. \A n \in checks : n.client = d => n \in checks'
      BY <2>2, <2>4
    <3>5. QED
      BY <1>1, <1>2, <2>2, <3>2, <3>3, <3>4 DEF NextCheckInTime
  <2>5. QED
    BY <2>3, <2>4
<1>9. CASE \E h \in requests : Register(h)
  <2>1. /\ timers[d] \subseteq timers'[d]
        /\ \A m \in checks : m.client = d => m \in checks'
        /\ UNCHANGED <<healthCheckMap, inactive>>
    BY <1>9 DEF Register, monitor
  <2>2. QED
    BY <1>1, <1>2, <2>1 DEF NextCheckInTime
<1>10. CASE GetInactiveClients
  <2>1. /\ UNCHANGED <<timers, checks, healthCheckMap>>
        /\ address[d] \in inactive' => last # None /\ now - last > MaxInactive
    BY <1>10 DEF GetInactiveClients
  <2>2. address[d] \notin inactive'
    <3>1. SUFFICES ASSUME address[d] \in inactive' PROVE FALSE
      OBVIOUS
    <3>2. last # None /\ now - last > MaxInactive
      BY <2>1, <3>1
    <3>3. now - last <= MaxInactive
      BY <1>2, <3>2, LastCheckIsRecent
    <3>4. last \in Int
      BY <1>3, <3>2 DEF RegistryInv, TypeOK
    <3>5. QED
      BY <1>3, <3>2, <3>3, <3>4, Durations
  <2>3. QED
    BY <1>1, <1>2, <2>1, <2>2 DEF NextCheckInTime
<1>11. CASE DeleteInactive
  <2>1. /\ UNCHANGED <<timers, checks>> /\ inactive' = None
        /\ healthCheckMap'[address[d]] = last
    BY <1>2, <1>3, <1>11 DEF DeleteInactive
  <2>2. QED
    BY <1>1, <1>2, <2>1 DEF NextCheckInTime
<1>12. CASE Tick \/ UNCHANGED vars
  <2>1. /\ timers[d] \subseteq timers'[d]
        /\ \A m \in checks : m.client = d => m \in checks'
        /\ UNCHANGED <<healthCheckMap, inactive>>
    BY <1>12 DEF Tick, vars, monitor
  <2>2. QED
    BY <1>1, <1>2, <2>1 DEF NextCheckInTime
<1>13. QED
  BY <1>4, <1>5, <1>6, <1>7, <1>8, <1>9, <1>10, <1>11, <1>12 DEF Next

LEMMA KeptStep ==
  ASSUME RegistryInv, HeardInTime, KeptOnceRegistered, [Next]_vars
  PROVE  KeptOnceRegistered'
<1> SUFFICES ASSUME NEW d \in Clients, (HasOwnAddress(d) \/ address[d] = Unaddressed)',
                    Untroubled(d)', stream'[d] > 0
             PROVE  cxnsMap'[address'[d]] # None \/ Requested(d)'
  BY DEF KeptOnceRegistered
<1>1. UNCHANGED <<address, skew>> /\ (HasOwnAddress(d) \/ address[d] = Unaddressed) /\ Untroubled(d)
  BY Lasting
<1>2. stream[d] > 0 => cxnsMap[address[d]] # None \/ Requested(d)
  BY <1>1 DEF KeptOnceRegistered
<1>3. address[d] \in Addresses
  BY DEF RegistryInv, TypeOK
<1>4. ASSUME NEW c \in Clients, Connect(c)
      PROVE  cxnsMap'[address'[d]] # None \/ Requested(d)'
  <2>1. CASE c = d
    <3>1. Stream(d)' \in requests' /\ Stream(d)'.client = d
      BY <1>4, <2>1 DEF Connect, Stream
    <3>2. QED
      BY <3>1 DEF Requested
  <2>2. CASE c # d
    BY <1>1, <1>2, <1>4, <2>2 DEF Connect, Requested, RegistryInv, TypeOK
  <2>3. QED
    BY <2>1, <2>2
<1>5. CASE /\ UNCHANGED <<stream, cxnsMap, requests>>
  BY <1>1, <1>2, <1>5 DEF Requested
<1>6. ASSUME NEW h \in requests, Register(h)
      PROVE  cxnsMap'[address'[d]] # None \/ Requested(d)'
  <2>1. h # None
    BY NoneIsNoStream DEF RegistryInv, Shapes
  <2>2. UNCHANGED stream /\ requests' = requests \ {h}
    BY <1>6 DEF Register, sidecar
  <2>3. CASE address[h.client] = address[d]
    BY <1>1, <1>3, <1>6, <2>1, <2>3 DEF Register, RegistryInv, TypeOK
  <2>4. CASE address[h.client] # address[d]
    <3>1. cxnsMap'[address[d]] = cxnsMap[address[d]]
      BY <1>6, <2>4 DEF Register, RegistryInv, TypeOK
    <3>2. QED
      BY <1>1, <1>2, <2>2, <2>4, <3>1 DEF Requested
  <2>5. QED
    BY <2>3, <2>4
<1>7. CASE DeleteInactive
  <2>1. address[d] \notin inactive
    BY <1>1, <1>3, <1>7 DEF DeleteInactive, HeardInTime, RegistryInv, UnaddressedIsUnknown
  <2>2. UNCHANGED <<stream, requests>> /\ cxnsMap'[address[d]] = cxnsMap[address[d]]
    BY <1>3, <1>7, <2>1 DEF DeleteInactive, sidecar
  <2>3. QED
    BY <1>1, <1>2, <2>2 DEF Requested
<1>8. QED
  BY <1>4, <1>5, <1>6, <1>7
     DEF Next, vars, sidecar, SendCheck, Break, Die, Lose, HealthCheck, GetInactiveClients, Tick

(* The timing, for sidecars that go.                                           *)
LEMMA OwnChecksOnly ==
  ASSUME RegistryInv, NEW d \in Clients, HasOwnAddress(d), NEW m \in checks, HealthCheck(m)
  PROVE  /\ m.client # d => healthCheckMap'[address[d]] = healthCheckMap[address[d]]
         /\ m.client = d =>
              /\ healthCheckMap'[address[d]] \in {m.time, healthCheckMap[address[d]]}
              /\ healthCheckMap'[address[d]] \in Int
<1>1. /\ m.client \in Clients /\ address[d] \in Addresses /\ m.time \in Int
      /\ healthCheckMap \in [Addresses -> Int \cup {None}]
  BY DEF RegistryInv, TypeOK, Shapes
<1>2. m.client # d => address[m.client] # address[d]
  BY <1>1 DEF HasOwnAddress
<1>3. QED
  BY <1>1, <1>2 DEF HealthCheck, HasOwnAddress, Later

LEMMA RecordedStep ==
  ASSUME RegistryInv, RecordedWhileOn, [Next]_vars
  PROVE  RecordedWhileOn'
<1> SUFFICES ASSUME NEW d \in Clients, HasOwnAddress(d)', healthCheckMap'[address'[d]] # None
             PROVE  /\ healthCheckMap'[address'[d]] - skew'[d] <= now'
                    /\ status'[d] = "off" => healthCheckMap'[address'[d]] - skew'[d] <= died'[d]
  BY DEF RecordedWhileOn
<1> DEFINE last == healthCheckMap[address[d]]
<1>1. UNCHANGED <<address, skew>> /\ HasOwnAddress(d)
  BY Lasting
<1>2. last # None => /\ last - skew[d] <= now
                     /\ status[d] = "off" => last - skew[d] <= died[d]
  BY <1>1 DEF RecordedWhileOn
<1>3. /\ address[d] \in Addresses /\ skew[d] \in Int /\ now \in Nat
      /\ last \in Int \cup {None}
  BY Clocks DEF RegistryInv, TypeOK
<1>4. CASE /\ UNCHANGED <<now, died>>
           /\ status'[d] = "off" => status[d] = "off"
           /\ healthCheckMap'[address[d]] \in {last, None}
  <2>1. healthCheckMap'[address'[d]] = last /\ last # None
    BY <1>1, <1>4
  <2>2. QED
    BY <1>1, <1>2, <1>4, <2>1
<1>5. ASSUME NEW c \in Clients, Connect(c) \/ SendCheck(c) \/ Break(c)
      PROVE  /\ UNCHANGED <<now, died>>
             /\ status'[d] = "off" => status[d] = "off"
             /\ healthCheckMap'[address[d]] \in {last, None}
  BY <1>5 DEF Connect, SendCheck, Break, sidecar, RegistryInv, TypeOK
<1>6. CASE \/ \E m \in checks : Lose(m)
           \/ \E h \in requests : Register(h)
           \/ GetInactiveClients \/ DeleteInactive \/ UNCHANGED vars
  <2>1. /\ UNCHANGED <<now, died, status>>
        /\ healthCheckMap'[address[d]] \in {last, None}
    BY <1>3, <1>6 DEF Lose, Register, GetInactiveClients, DeleteInactive, vars, sidecar
  <2>2. QED
    BY <1>4, <2>1
<1>7. ASSUME NEW c \in Clients, Die(c)
      PROVE  /\ healthCheckMap'[address'[d]] - skew'[d] <= now'
             /\ status'[d] = "off" => healthCheckMap'[address'[d]] - skew'[d] <= died'[d]
  <2>1. UNCHANGED <<now, healthCheckMap>>
    BY <1>7 DEF Die
  <2>2. CASE c = d
    BY <1>1, <1>2, <1>7, <2>1, <2>2 DEF Die, RegistryInv, TypeOK
  <2>3. CASE c # d
    BY <1>1, <1>2, <1>7, <2>1, <2>3 DEF Die, RegistryInv, TypeOK
  <2>4. QED
    BY <2>2, <2>3
<1>8. ASSUME NEW m \in checks, HealthCheck(m)
      PROVE  /\ healthCheckMap'[address'[d]] - skew'[d] <= now'
             /\ status'[d] = "off" => healthCheckMap'[address'[d]] - skew'[d] <= died'[d]
  <2>1. UNCHANGED <<now, status, died>>
    BY <1>8 DEF HealthCheck, sidecar
  <2>2. CASE healthCheckMap'[address[d]] = last
    BY <1>1, <1>2, <2>1, <2>2
  <2>3. CASE m.client = d /\ healthCheckMap'[address[d]] = m.time
    <3>1. m.sent \in Nat /\ m.sent <= now /\ m.time = m.sent + skew[d]
      BY <2>3 DEF RegistryInv, TypeOK
    <3>2. status[d] = "off" => m.sent <= died[d]
      BY <2>3 DEF RegistryInv, Lives
    <3>3. healthCheckMap'[address[d]] - skew[d] = m.sent
      BY <1>3, <2>3, <3>1
    <3>4. QED
      BY <1>1, <2>1, <3>1, <3>2, <3>3
  <2>4. QED
    BY <1>1, <1>8, <2>2, <2>3, OwnChecksOnly
<1>9. CASE Tick
  <2>1. /\ now' = now + 1 /\ UNCHANGED <<status, died, healthCheckMap>>
    BY <1>9 DEF Tick, sidecar
  <2>2. QED
    BY <1>1, <1>2, <1>3, <2>1
<1>10. QED
  BY <1>4, <1>5, <1>6, <1>7, <1>8, <1>9 DEF Next

LEMMA HeardStep ==
  ASSUME RegistryInv, HeardIsRecorded, [Next]_vars
  PROVE  HeardIsRecorded'
<1> SUFFICES ASSUME NEW d \in Clients, HasOwnAddress(d)', heard'[d]
             PROVE  /\ stream'[d] > 0 /\ ~Requested(d)'
                    /\ cxnsMap'[address'[d]] # None => healthCheckMap'[address'[d]] # None
  BY DEF HeardIsRecorded
<1>1. UNCHANGED <<address, skew>> /\ HasOwnAddress(d)
  BY Lasting
<1>2. heard[d] => /\ stream[d] > 0 /\ ~Requested(d)
                  /\ cxnsMap[address[d]] # None => healthCheckMap[address[d]] # None
  BY <1>1 DEF HeardIsRecorded
<1>3. address[d] \in Addresses
  BY DEF RegistryInv, TypeOK
<1>4. CASE UNCHANGED <<stream, requests, cxnsMap, healthCheckMap, heard>>
  BY <1>1, <1>2, <1>4 DEF Requested
<1>5. ASSUME NEW c \in Clients, Connect(c)
      PROVE  /\ stream'[d] > 0 /\ ~Requested(d)'
             /\ cxnsMap'[address'[d]] # None => healthCheckMap'[address'[d]] # None
  <2>1. c # d
    BY <1>5 DEF Connect, RegistryInv, TypeOK
  <2>2. heard'[d] = heard[d] /\ stream'[d] = stream[d] /\ UNCHANGED <<cxnsMap, healthCheckMap>>
    BY <1>5, <2>1 DEF Connect, RegistryInv, TypeOK
  <2>3. \A h \in requests' : h.client = d => h \in requests
    BY <1>5, <2>1 DEF Connect, Stream
  <2>4. QED
    BY <1>1, <1>2, <2>2, <2>3 DEF Requested
<1>6. ASSUME NEW h \in requests, Register(h)
      PROVE  /\ stream'[d] > 0 /\ ~Requested(d)'
             /\ cxnsMap'[address'[d]] # None => healthCheckMap'[address'[d]] # None
  <2>1. UNCHANGED <<stream, healthCheckMap, heard>> /\ requests' = requests \ {h}
    BY <1>6 DEF Register, sidecar
  <2>2. h.client \in Clients /\ h.client # d
    BY <1>2, <2>1 DEF Requested, RegistryInv, TypeOK
  <2>3. cxnsMap'[address[d]] = cxnsMap[address[d]]
    BY <1>1, <1>3, <1>6, <2>2 DEF Register, HasOwnAddress, RegistryInv, TypeOK
  <2>4. QED
    BY <1>1, <1>2, <2>1, <2>3 DEF Requested
<1>7. ASSUME NEW m \in checks, HealthCheck(m)
      PROVE  /\ stream'[d] > 0 /\ ~Requested(d)'
             /\ cxnsMap'[address'[d]] # None => healthCheckMap'[address'[d]] # None
  <2>1. UNCHANGED <<stream, requests, cxnsMap>>
    BY <1>7 DEF HealthCheck, sidecar
  <2>2. CASE m.client = d
    <3>1. stream[d] > 0
      BY <2>2 DEF RegistryInv, Lives
    <3>2. heard[d] \/ Settled(d)
      BY <1>7, <2>2 DEF HealthCheck, RegistryInv, TypeOK
    <3>3. ~Requested(d)
      BY <1>2, <3>2 DEF Settled, Requested
    <3>4. healthCheckMap'[address[d]] # None
      BY <1>1, <1>7, <2>2, OwnChecksOnly, SkewsAreTimes
    <3>5. QED
      BY <1>1, <2>1, <3>1, <3>3, <3>4 DEF Requested
  <2>3. CASE m.client # d
    <3>1. heard'[d] = heard[d] /\ healthCheckMap'[address[d]] = healthCheckMap[address[d]]
      BY <1>1, <1>7, <2>3, OwnChecksOnly DEF HealthCheck, RegistryInv, TypeOK
    <3>2. QED
      BY <1>1, <1>2, <2>1, <3>1 DEF Requested
  <2>4. QED
    BY <2>2, <2>3
<1>8. CASE DeleteInactive
  <2>1. /\ UNCHANGED <<stream, requests, heard>>
        /\ \/ cxnsMap'[address[d]] = None
           \/ /\ cxnsMap'[address[d]] = cxnsMap[address[d]]
              /\ healthCheckMap'[address[d]] = healthCheckMap[address[d]]
    BY <1>3, <1>8 DEF DeleteInactive, sidecar
  <2>2. QED
    BY <1>1, <1>2, <2>1 DEF Requested
<1>9. QED
  BY <1>4, <1>5, <1>6, <1>7, <1>8
     DEF Next, vars, sidecar, SendCheck, Break, Die, Lose, GetInactiveClients, Tick

LEMMA DroppedStep ==
  ASSUME ChecksArriveInTime, GoneInv, [Next]_vars
  PROVE  DroppedWhenDue'
<1>1. RegistryInv /\ RecordedWhileOn /\ HeardIsRecorded /\ DroppedWhenDue
  BY DEF GoneInv
<1>2. /\ now \in Nat /\ nextFlush \in Nat /\ now <= nextFlush
      /\ inactive # None => now = nextFlush
  BY <1>1 DEF RegistryInv, TypeOK
<1>3. nextFlush' <= now' + FlushInterval
  <2>1. \/ UNCHANGED <<now, nextFlush>>
        \/ now' = now + 1 /\ nextFlush' = nextFlush
        \/ now' = now /\ nextFlush' = now + FlushInterval
    BY DEF Next, vars, monitor, Connect, SendCheck, Break, Die, Lose, HealthCheck, Register,
           GetInactiveClients, DeleteInactive, Tick
  <2>2. nextFlush <= now + FlushInterval
    BY <1>1 DEF DroppedWhenDue
  <2>3. QED
    BY <1>2, <2>1, <2>2, Durations
<1> SUFFICES ASSUME NEW d \in Clients, HasOwnAddress(d)', status'[d] = "off", heard'[d],
                    cxnsMap'[address'[d]] # None
             PROVE  /\ nextFlush' <= Due(d)' + FlushInterval
                    /\ inactive' # None /\ now' > Due(d)' => address'[d] \in inactive'
  BY <1>3 DEF DroppedWhenDue
<1> DEFINE Dropped == /\ nextFlush' <= Due(d)' + FlushInterval
                      /\ inactive' # None /\ now' > Due(d)' => address'[d] \in inactive'
<1>4. UNCHANGED <<address, skew>> /\ HasOwnAddress(d)
  BY <1>1, Lasting
<1>5. /\ address[d] \in Addresses /\ skew[d] \in Int
      /\ MaxDelay <= MaxInactive + skew[d]
      /\ died[d] \in Nat \cup {None} /\ stream[d] \in Nat
  BY <1>1, Clocks DEF RegistryInv, TypeOK, ChecksArriveInTime
<1>6. ASSUME status[d] = "off", heard[d]
      PROVE  died[d] \in Nat /\ Due(d) \in Int
  <2>1. stream[d] > 0
    BY <1>1, <1>4, <1>6 DEF HeardIsRecorded
  <2>2. died[d] \in Nat
    BY <1>1, <1>5, <1>6, <2>1 DEF RegistryInv, Lives
  <2>3. QED
    BY <1>5, <2>2, Durations DEF Due
(* Most steps change nothing that this is about.                               *)
<1>7. ASSUME status[d] = "off", heard[d], cxnsMap[address[d]] # None
      PROVE  /\ nextFlush <= Due(d) + FlushInterval
             /\ inactive # None /\ now > Due(d) => address[d] \in inactive
  BY <1>1, <1>4, <1>7 DEF DroppedWhenDue
<1>8. CASE /\ UNCHANGED <<now, nextFlush, inactive>>
           /\ status[d] = "off" /\ heard[d] /\ cxnsMap[address[d]] # None /\ died'[d] = died[d]
  <2>1. Due(d)' = Due(d)
    BY <1>4, <1>8 DEF Due
  <2>2. QED
    BY <1>4, <1>7, <1>8, <2>1
<1>9. ASSUME NEW c \in Clients, Connect(c) \/ SendCheck(c) \/ Break(c)
      PROVE  Dropped
  <2>1. /\ UNCHANGED <<now, nextFlush, inactive, died, cxnsMap>>
        /\ status[d] = "off" /\ heard[d]
    BY <1>1, <1>9 DEF Connect, SendCheck, Break, sidecar, monitor, RegistryInv, TypeOK
  <2>2. QED
    BY <1>4, <1>8, <2>1
<1>10. ASSUME NEW c \in Clients, Die(c)
       PROVE  Dropped
  <2>1. UNCHANGED <<now, nextFlush, inactive, heard, cxnsMap>>
    BY <1>10 DEF Die, monitor
  <2>2. CASE c # d
    <3>1. status'[d] = status[d] /\ died'[d] = died[d]
      BY <1>1, <1>10, <2>2 DEF Die, RegistryInv, TypeOK
    <3>2. QED
      BY <1>4, <1>8, <2>1, <3>1
  <2>3. CASE c = d
    <3>1. died'[d] = now
      BY <1>1, <1>10, <2>3 DEF Die, RegistryInv, TypeOK
    <3>2. Due(d)' = now + MaxInactive + skew[d]
      BY <1>4, <3>1 DEF Due
    <3>3. now <= Due(d)' /\ Due(d)' \in Int
      BY <1>2, <1>5, <3>2, Durations
    <3>4. nextFlush <= now + FlushInterval
      BY <1>1 DEF DroppedWhenDue
    <3>5. QED
      BY <1>2, <2>1, <3>3, <3>4, Durations
  <2>4. QED
    BY <2>2, <2>3
<1>11. ASSUME NEW m \in checks, HealthCheck(m)
       PROVE  Dropped
  <2>1. UNCHANGED <<now, nextFlush, inactive, cxnsMap, status, died>>
    BY <1>11 DEF HealthCheck, sidecar, monitor
  <2>2. CASE heard[d]
    BY <1>4, <1>8, <2>1, <2>2
  <2>3. CASE ~heard[d]
    <3>1. m.client = d
      BY <1>1, <1>11, <2>3 DEF HealthCheck, RegistryInv, TypeOK
    <3>2. m.sent \in Nat /\ now - m.sent <= MaxDelay
      BY <1>1 DEF RegistryInv, TypeOK
    <3>3. stream[d] > 0 /\ m.sent <= died[d]
      BY <1>1, <2>1, <3>1 DEF RegistryInv, Lives
    <3>4. died[d] \in Nat
      BY <1>1, <1>5, <2>1, <3>3 DEF RegistryInv, Lives
    <3>5. Due(d)' = died[d] + MaxInactive + skew[d]
      BY <1>4, <2>1 DEF Due
    <3>6. now <= Due(d)' /\ Due(d)' \in Int
      BY <1>2, <1>5, <3>2, <3>3, <3>4, <3>5, Durations
    <3>7. nextFlush <= now + FlushInterval
      BY <1>1 DEF DroppedWhenDue
    <3>8. QED
      BY <1>2, <2>1, <3>6, <3>7, Durations
  <2>4. QED
    BY <2>2, <2>3
<1>12. ASSUME NEW m \in checks, Lose(m)
       PROVE  Dropped
  <2>1. UNCHANGED <<now, nextFlush, inactive, died, cxnsMap, status, heard>>
    BY <1>12 DEF Lose, monitor
  <2>2. QED
    BY <1>4, <1>8, <2>1
<1>13. ASSUME NEW h \in requests, Register(h)
       PROVE  Dropped
  <2>1. UNCHANGED <<now, nextFlush, inactive, died, status, heard>>
    BY <1>13 DEF Register, sidecar, monitor
  <2>2. h.client \in Clients /\ h.client # d
    BY <1>1, <1>4, <2>1 DEF HeardIsRecorded, Requested, RegistryInv, TypeOK
  <2>3. cxnsMap'[address[d]] = cxnsMap[address[d]]
    BY <1>1, <1>4, <1>5, <1>13, <2>2 DEF Register, HasOwnAddress, RegistryInv, TypeOK
  <2>4. QED
    BY <1>4, <1>8, <2>1, <2>3
<1>14. CASE GetInactiveClients
  <2>1. UNCHANGED <<now, nextFlush, died, status, heard, cxnsMap, healthCheckMap>>
    BY <1>14 DEF GetInactiveClients, sidecar
  <2>2. Due(d)' = Due(d) /\ Due(d) \in Int
    BY <1>4, <1>6, <2>1 DEF Due
  <2>3. nextFlush' <= Due(d)' + FlushInterval
    BY <1>4, <1>7, <2>1, <2>2
  <2>4. ASSUME now > Due(d) PROVE address[d] \in inactive'
    <3>1. healthCheckMap[address[d]] # None
      BY <1>1, <1>4, <2>1 DEF HeardIsRecorded
    <3>2. healthCheckMap[address[d]] - skew[d] <= died[d]
      BY <1>1, <1>4, <2>1, <3>1 DEF RecordedWhileOn
    <3>3. healthCheckMap[address[d]] \in Int
      BY <1>1, <1>5, <3>1 DEF RegistryInv, TypeOK
    <3>4. now - healthCheckMap[address[d]] > MaxInactive
      BY <1>2, <1>5, <1>6, <2>1, <2>4, <3>2, <3>3, Durations DEF Due
    <3>5. QED
      BY <1>5, <1>14, <3>1, <3>4 DEF GetInactiveClients
  <2>5. QED
    BY <1>4, <2>1, <2>2, <2>3, <2>4
<1>15. CASE DeleteInactive
  <2>1. /\ UNCHANGED <<now, died, status, heard>>
        /\ inactive # None /\ inactive' = None /\ nextFlush' = now + FlushInterval
    BY <1>15 DEF DeleteInactive, sidecar
  <2>2. address[d] \notin inactive /\ cxnsMap[address[d]] # None
    BY <1>4, <1>5, <1>15 DEF DeleteInactive
  <2>3. Due(d)' = Due(d) /\ Due(d) \in Int
    BY <1>4, <1>6, <2>1 DEF Due
  <2>4. now <= Due(d)
    BY <1>2, <1>7, <2>1, <2>2, <2>3
  <2>5. QED
    BY <1>2, <2>1, <2>3, <2>4, Durations
<1>16. CASE Tick
  <2>1. /\ UNCHANGED <<nextFlush, inactive, died, status, heard, cxnsMap>>
        /\ now < nextFlush
    BY <1>16 DEF Tick, sidecar, monitor
  <2>2. inactive' = None
    BY <1>2, <2>1
  <2>3. Due(d)' = Due(d)
    BY <1>4, <2>1 DEF Due
  <2>4. QED
    BY <1>4, <1>7, <2>1, <2>2, <2>3
<1>17. CASE UNCHANGED vars
  BY <1>4, <1>8, <1>17 DEF vars
<1>18. QED
  BY <1>9, <1>10, <1>11, <1>12, <1>13, <1>14, <1>15, <1>16, <1>17 DEF Next

--------------------------------------------------------------------------------
(* The entries of both maps are of the sidecars that have their address, and   *)
(* nothing that was due has been missed, whatever the durations.               *)
THEOREM RegistryTypeCorrect == Spec => []TypeOK
<1>1. RegistryInv => TypeOK
  BY DEF RegistryInv
<1>2. QED
  BY <1>1, RegistryCorrect, PTL

(* A sidecar that is alive, and none of whose health checks was lost, is never *)
(* taken for dead, when an interval and two delays fit into the time after     *)
(* which it would be, by its own clock: a delay for the check that is on its   *)
(* way and one for the check before it, whose answer the sidecar waited for.   *)
THEOREM LinkedStayRegistered ==
  ASSUME ChecksAreFrequent
  PROVE  Spec => []LinkedIsRegistered
<1>1. Init => HeardInTime /\ KeptOnceRegistered
  BY DEF Init, HeardInTime, KeptOnceRegistered, HasOwnAddress
<1>2. RegistryInv /\ HeardInTime /\ KeptOnceRegistered /\ [Next]_vars =>
        HeardInTime' /\ KeptOnceRegistered'
  BY HeardInTimeStep, KeptStep
<1>3. RegistryInv /\ KeptOnceRegistered => LinkedIsRegistered
  BY DEF RegistryInv, TypeOK, Lives, KeptOnceRegistered, LinkedIsRegistered, Untroubled
<1>4. QED
  BY <1>1, <1>2, <1>3, RegistryCorrect, PTL DEF Spec

(* A sidecar that is gone is dropped after the time of inactivity and one      *)
(* round of the monitor, and what its clock is ahead, when no health check     *)
(* takes longer to arrive than that time, by the sidecar's clock.              *)
THEOREM GoneAreFlushed ==
  ASSUME ChecksArriveInTime
  PROVE  Spec => []GoneIsFlushed
<1>1. Init => RecordedWhileOn /\ HeardIsRecorded /\ DroppedWhenDue
  BY Durations DEF Init, RecordedWhileOn, HeardIsRecorded, DroppedWhenDue, HasOwnAddress
<1>2. RegistryInv /\ RecordedWhileOn /\ HeardIsRecorded /\ DroppedWhenDue /\ [Next]_vars =>
        RecordedWhileOn' /\ HeardIsRecorded' /\ DroppedWhenDue'
  BY RecordedStep, HeardStep, DroppedStep DEF GoneInv
<1>3. RegistryInv /\ HeardIsRecorded /\ DroppedWhenDue => GoneIsFlushed
  <2> SUFFICES ASSUME RegistryInv, HeardIsRecorded, DroppedWhenDue,
                      NEW d \in Clients, HasOwnAddress(d), status[d] = "off", heard[d],
                      now - died[d] > MaxInactive + FlushInterval + skew[d],
                      cxnsMap[address[d]] # None
               PROVE  FALSE
    BY DEF GoneIsFlushed
  <2>1. died[d] \in Nat
    BY DEF RegistryInv, TypeOK, Lives, HeardIsRecorded
  <2>2. nextFlush <= Due(d) + FlushInterval
    BY DEF DroppedWhenDue
  <2>3. now \in Nat /\ nextFlush \in Nat /\ now <= nextFlush /\ skew[d] \in Int
    BY Clocks DEF RegistryInv, TypeOK
  <2>4. QED
    BY <2>1, <2>2, <2>3, Durations DEF Due
<1>4. QED
  BY <1>1, <1>2, <1>3, RegistryCorrect, PTL DEF Spec
================================================================================
