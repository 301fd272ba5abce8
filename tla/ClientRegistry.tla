----------------------------- MODULE ClientRegistry ----------------------------
(* Which sidecars the PolicySender takes to be alive: cxnsMap, filled by the   *)
(* stream handlers, healthCheckMap, filled by the sidecars' health checks, and *)
(* the monitor that drops from both the clients it has not heard of for long.  *)
(* Time is a counter; a health check carries the sidecar's own clock.          *)
EXTENDS Integers

CONSTANTS
    Clients,        \* the sidecars
    Addresses,      \* the values of their --client-address
    Unaddressed,    \* its default, the empty string, which sidecars may share
    None,           \* no entry, no time
    Interval,       \* the sidecars' healthCheckInterval
    FlushInterval,  \* the sender's clientFlushInterval
    MaxInactive,    \* the sender's maxClientInactiveDuration
    MaxDelay,       \* the time a health check may take to arrive, or its answer
    Skews,          \* how far each sidecar's clock may be off
    Trouble,        \* what may happen to each sidecar: see Die, Connect, Break, Lose
    Horizon,        \* bound: the time at which the model ends
    MaxStreams      \* bound: the streams a sidecar opens

ASSUME IntervalsArePositive == {Interval, FlushInterval} \subseteq Nat \ {0}
ASSUME DurationsAreNat == {MaxInactive, MaxDelay, Horizon, MaxStreams} \subseteq Nat
ASSUME SkewsAreTimes == Skews \in [Clients -> SUBSET Int] /\ None \notin Int
ASSUME TroubleIsKnown == Trouble \in [Clients -> SUBSET {"death", "return", "break", "loss"}]
ASSUME NoneIsNoStream == None \notin [client : Clients, stream : Nat]

VARIABLES
    now,            \* the time
    address,        \* each sidecar's client address
    skew,           \* each sidecar's clock, less the sender's
    status,         \* a sidecar is off, without a stream, or linked
    stream,         \* the number of its last stream
    timers,         \* when each of its health check loops will send next
    checks,         \* health checks on their way, and whether a loop awaits the answer
    requests,       \* stream handlers that have not stored their stream yet
    cxnsMap,        \* PolicySender.cxnsMap: the stream registered under an address
    healthCheckMap, \* PolicySender.healthCheckMap, by address as well
    nextFlush,      \* when the monitor wakes up
    inactive,       \* the addresses it is about to delete, or None
    died,           \* history: when the sidecar went off
    heard,          \* history: a health check came in since its last stream, and no
                    \* earlier one after it, was registered
    lost            \* history: the sidecars one of whose health checks was lost

vars == <<now, address, skew, status, stream, timers, checks, requests, cxnsMap, healthCheckMap,
          nextFlush, inactive, died, heard, lost>>
sidecar == <<address, skew, status, stream, died, lost>>
monitor == <<nextFlush, inactive>>

Init ==
    /\ now = 0
    /\ address \in [Clients -> Addresses]
    /\ skew \in {f \in [Clients -> UNION {Skews[c] : c \in Clients}] : \A c \in Clients : f[c] \in Skews[c]}
    /\ status = [c \in Clients |-> "off"]
    /\ stream = [c \in Clients |-> 0]
    /\ timers = [c \in Clients |-> {}]
    /\ checks = {}
    /\ requests = {}
    /\ cxnsMap = [a \in Addresses |-> None]
    /\ healthCheckMap = [a \in Addresses |-> None]
    /\ nextFlush = FlushInterval
    /\ inactive = None
    /\ died = [c \in Clients |-> None]
    /\ heard = [c \in Clients |-> FALSE]
    /\ lost = {}

Stream(c) == [client |-> c, stream |-> stream[c]]
Settled(c) == cxnsMap[address[c]] = Stream(c) /\ \A h \in requests : h.client # c

--------------------------------------------------------------------------------
(* The sidecars.                                                               *)

(* PolicyListener.Start: dial, one more loop of health checks, listen.  The    *)
(* loops of earlier calls go on: the context they watch is the process's.      *)
Connect(c) ==
    /\ \/ status[c] = "off" /\ stream[c] = 0
       \/ status[c] = "off" /\ "return" \in Trouble[c]
       \/ status[c] = "dialling"
    /\ stream[c] < MaxStreams
    /\ status' = [status EXCEPT ![c] = "linked"]
    /\ stream' = [stream EXCEPT ![c] = @ + 1]
    /\ timers' = [timers EXCEPT ![c] = @ \cup {now + Interval}]
    /\ requests' = requests \cup {Stream(c)'}
    /\ heard' = [heard EXCEPT ![c] = FALSE]
    /\ UNCHANGED <<now, address, skew, checks, cxnsMap, healthCheckMap, monitor, died, lost>>

(* sendHealthChecks: the wait is over, and the call is made.                   *)
SendCheck(c) ==
    /\ now \in timers[c]
    /\ timers' = [timers EXCEPT ![c] = @ \ {now}]
    /\ checks' = checks \cup {[client |-> c, time |-> now + skew[c], sent |-> now,
                               awaited |-> TRUE]}
    /\ UNCHANGED <<now, sidecar, requests, cxnsMap, healthCheckMap, monitor, heard>>

(* The call returned, and the loop waits again, unless it died meanwhile.      *)
Rearmed(m) == IF m.awaited THEN [timers EXCEPT ![m.client] = @ \cup {now + Interval}] ELSE timers

(* The call fails; its error is ignored.                                       *)
Lose(m) ==
    /\ m \in checks
    /\ "loss" \in Trouble[m.client]
    /\ checks' = checks \ {m}
    /\ timers' = Rearmed(m)
    /\ lost' = lost \cup {m.client}
    /\ UNCHANGED <<now, address, skew, status, stream, died, requests, cxnsMap, healthCheckMap,
                   monitor, heard>>

(* The stream breaks; the sidecar's server goes on and starts again.           *)
Break(c) ==
    /\ "break" \in Trouble[c]
    /\ status[c] = "linked"
    /\ status' = [status EXCEPT ![c] = "dialling"]
    /\ UNCHANGED <<now, address, skew, stream, timers, checks, requests, cxnsMap, healthCheckMap,
                   monitor, died, heard, lost>>

(* The process goes, and its loops with it; a check on its way may arrive.     *)
Die(c) ==
    /\ "death" \in Trouble[c]
    /\ status[c] # "off"
    /\ status' = [status EXCEPT ![c] = "off"]
    /\ timers' = [timers EXCEPT ![c] = {}]
    /\ checks' = {IF m.client = c THEN [m EXCEPT !.awaited = FALSE] ELSE m : m \in checks}
    /\ died' = [died EXCEPT ![c] = now]
    /\ UNCHANGED <<now, address, skew, stream, requests, cxnsMap, healthCheckMap, monitor, heard,
                   lost>>

--------------------------------------------------------------------------------
(* The sender.                                                                 *)

(* ValidatingPoliciesStream stores the stream under the client's address.      *)
Register(h) ==
    /\ h \in requests
    /\ cxnsMap' = [cxnsMap EXCEPT ![address[h.client]] = h]
    /\ requests' = requests \ {h}
    /\ UNCHANGED <<now, sidecar, timers, checks, healthCheckMap, monitor, heard>>

Later(t, entry) == entry = None \/ t > entry

(* A health check is recorded unless it has no address, or a later one was.    *)
(* cxnsMap is not touched.                                                     *)
HealthCheck(m) ==
    /\ m \in checks
    /\ checks' = checks \ {m}
    /\ LET a == address[m.client]
       IN  healthCheckMap' = IF a # Unaddressed /\ Later(m.time, healthCheckMap[a])
                             THEN [healthCheckMap EXCEPT ![a] = m.time] ELSE healthCheckMap
    /\ heard' = [heard EXCEPT ![m.client] = @ \/ Settled(m.client)]
    /\ timers' = Rearmed(m)
    /\ UNCHANGED <<now, sidecar, requests, cxnsMap, monitor>>

(* Mutant: a client is inactive as soon as the duration is reached.            *)
GetInactiveEarly ==
    /\ inactive = None
    /\ now = nextFlush
    /\ inactive' = {a \in Addresses : healthCheckMap[a] # None
                                      /\ now - healthCheckMap[a] >= MaxInactive}
    /\ UNCHANGED <<now, sidecar, timers, checks, requests, cxnsMap, healthCheckMap,
                   nextFlush, heard>>

(* getInactiveClients, before the lock is taken.                               *)
GetInactiveClients ==
    /\ inactive = None
    /\ now = nextFlush
    /\ inactive' = {a \in Addresses : healthCheckMap[a] # None
                                      /\ now - healthCheckMap[a] > MaxInactive}
    /\ UNCHANGED <<now, sidecar, timers, checks, requests, cxnsMap, healthCheckMap,
                   nextFlush, heard>>

(* Mutant: the stream of an inactive client is left in cxnsMap.                *)
DeleteChecksOnly ==
    /\ inactive # None
    /\ healthCheckMap' = [a \in Addresses |-> IF a \in inactive THEN None ELSE healthCheckMap[a]]
    /\ inactive' = None
    /\ nextFlush' = now + FlushInterval
    /\ UNCHANGED <<now, sidecar, timers, checks, requests, cxnsMap, heard>>

(* Mutant: the clients that were listed are deleted in the next round as well. *)
DeleteKeepsList ==
    /\ inactive # None
    /\ cxnsMap' = [a \in Addresses |-> IF a \in inactive THEN None ELSE cxnsMap[a]]
    /\ healthCheckMap' = [a \in Addresses |-> IF a \in inactive THEN None ELSE healthCheckMap[a]]
    /\ nextFlush' = now + FlushInterval
    /\ UNCHANGED <<now, sidecar, timers, checks, requests, inactive, heard>>

(* The rest of deleteInactive: what was listed goes, whatever has come since.  *)
DeleteInactive ==
    /\ inactive # None
    /\ cxnsMap' = [a \in Addresses |-> IF a \in inactive THEN None ELSE cxnsMap[a]]
    /\ healthCheckMap' = [a \in Addresses |-> IF a \in inactive THEN None ELSE healthCheckMap[a]]
    /\ inactive' = None
    /\ nextFlush' = now + FlushInterval
    /\ UNCHANGED <<now, sidecar, timers, checks, requests, heard>>

--------------------------------------------------------------------------------
(* Time passes when nothing is due: timers fire on time, a handler and the     *)
(* monitor need no time that counts, a message takes at most MaxDelay.         *)
Tick ==
    /\ now < Horizon
    /\ \A c \in Clients : now \notin timers[c]
    /\ \A m \in checks : now - m.sent < MaxDelay
    /\ requests = {}
    /\ now < nextFlush
    /\ now' = now + 1
    /\ UNCHANGED <<sidecar, timers, checks, requests, cxnsMap, healthCheckMap, monitor, heard>>

Next ==
    \/ \E c \in Clients : Connect(c) \/ SendCheck(c) \/ Break(c) \/ Die(c)
    \/ \E m \in checks : Lose(m) \/ HealthCheck(m)
    \/ \E h \in requests : Register(h)
    \/ GetInactiveClients \/ DeleteInactive
    \/ Tick

Spec == Init /\ [][Next]_vars

--------------------------------------------------------------------------------
(* Types; nothing that was due has been missed.                                *)
TypeOK ==
    /\ now \in 0 .. Horizon
    /\ address \in [Clients -> Addresses]
    /\ DOMAIN skew = Clients /\ \A c \in Clients : skew[c] \in Skews[c]
    /\ status \in [Clients -> {"off", "dialling", "linked"}]
    /\ stream \in [Clients -> Nat]
    /\ cxnsMap \in [Addresses -> [client : Clients, stream : Nat] \cup {None}]
    /\ healthCheckMap \in [Addresses -> Int \cup {None}]
    /\ \A c \in Clients : cxnsMap[address[c]] # None => address[cxnsMap[address[c]].client] = address[c]
    /\ died \in [Clients -> Nat \cup {None}]
    /\ heard \in [Clients -> BOOLEAN]
    /\ lost \subseteq Clients
    /\ nextFlush \in Nat /\ now <= nextFlush
    /\ inactive # None => inactive \subseteq Addresses /\ now = nextFlush
    /\ \A c \in Clients : \A t \in timers[c] : t \in now .. now + Interval
    /\ \A m \in checks :
         /\ m.client \in Clients /\ m.sent \in Nat /\ m.sent <= now /\ now - m.sent <= MaxDelay
         /\ m.time = m.sent + skew[m.client]
    /\ \A h \in requests : h.client \in Clients /\ h.stream \in 1 .. stream[h.client]

Requested(c) == \E h \in requests : h.client = c
HasOwnAddress(c) == address[c] # Unaddressed /\ \A d \in Clients \ {c} : address[d] # address[c]

(* A sidecar whose stream is open, and who shares its address with no one or   *)
(* has none, has a stream in the map, from its first registration on, however  *)
(* often its connection broke and however many loops send health checks for    *)
(* it: as long as it has not been restarted and none of its checks was lost,   *)
(* the monitor never takes it for dead.  The checks are frequent enough for    *)
(* that when Interval + 2 * MaxDelay, and how far its clock is behind, do not  *)
(* exceed MaxInactive.  A sidecar with the address of one that went before it  *)
(* may be dropped for the old health checks: registering does not replace them.*)
LinkedIsRegistered ==
    \A c \in Clients :
        (HasOwnAddress(c) \/ address[c] = Unaddressed)
                /\ status[c] = "linked" /\ died[c] = None /\ c \notin lost =>
            cxnsMap[address[c]] # None \/ Requested(c)

(* A sidecar that has been heard of since it registered and then goes off is   *)
(* out of the map after the time of inactivity and one round of the monitor,   *)
(* and what its clock is ahead: whatever the monitor had listed, whichever     *)
(* checks were lost and whichever of its lives they came from.                 *)
GoneIsFlushed ==
    \A c \in Clients :
        HasOwnAddress(c) /\ status[c] = "off" /\ heard[c]
                /\ now - died[c] > MaxInactive + FlushInterval + skew[c] =>
            cxnsMap[address[c]] = None

(* The registry's promise without these conditions: a client that is dead is   *)
(* removed, "how often we remove unhealthy clients from the map" being the     *)
(* interval of the monitor (sender.go:34), "for how often to remove dead       *)
(* client connections" (control-plane/command.go:151).                         *)
DeadAreFlushed ==
    \A c \in Clients :
        status[c] = "off" /\ died[c] # None
                /\ now - died[c] > MaxInactive + FlushInterval + skew[c] =>
            cxnsMap[address[c]] # Stream(c)
================================================================================
