--------------------------------- MODULE FanOut --------------------------------
(* SendPolicy, the fan-out of one policy to the streams in cxnsMap, as the     *)
(* goroutines run it: the calls of several reconciles at once, streams that    *)
(* register, are flushed or break meanwhile, the retries of sendWithBackoff,   *)
(* the wait group and the unbuffered errCh.  PolicyStream takes a call as one  *)
(* step; here is what such a step is made of.                                  *)
EXTENDS Integers, FiniteSets

CONSTANTS
    Streams,    \* the streams, each of a client of its own
    Calls,      \* the calls of SendPolicy
    MaxTries    \* the attempts that fit in the backoff's MaxElapsedTime

ASSUME MaxTriesIsPositive == MaxTries \in Nat \ {0}
ASSUME StreamsAreFinite == IsFiniteSet(Streams)

VARIABLES
    cxnsMap,    \* the streams that are registered
    requested,  \* the streams whose handler has the request and will register
    open,       \* the streams that still carry messages
    pc,         \* where each call stands
    wg,         \* its wait group's counter
    due,        \* the streams its range loop found when it began
    visited,    \* the streams the loop has started a goroutine for
    g,          \* where the goroutine of a call and a stream stands
    tries,      \* the attempts it has made
    sent,       \* the copies of the call's policy that a stream has carried
    process     \* "up", or what the control plane died of

vars == <<cxnsMap, requested, open, pc, wg, due, visited, g, tries, sent, process>>
streams == <<cxnsMap, requested, open>>
calls == <<pc, wg, due, visited>>
goroutines == <<g, tries, sent>>

Init ==
    /\ cxnsMap \in SUBSET Streams
    /\ requested = Streams \ cxnsMap
    /\ open = Streams
    /\ pc = [k \in Calls |-> "reconcile"]
    /\ wg = [k \in Calls |-> 0]
    /\ due = [k \in Calls |-> {}]
    /\ visited = [k \in Calls |-> {}]
    /\ g = [k \in Calls |-> [s \in Streams |-> "none"]]
    /\ tries = [k \in Calls |-> [s \in Streams |-> 0]]
    /\ sent = [k \in Calls |-> [s \in Streams |-> 0]]
    /\ process = "up"

--------------------------------------------------------------------------------
(* wg.Add(len(s.cxnsMap)), without a lock.                                     *)
AddClients(k) ==
    /\ pc[k] = "reconcile"
    /\ pc' = [pc EXCEPT ![k] = "added"]
    /\ wg' = [wg EXCEPT ![k] = Cardinality(cxnsMap)]
    /\ UNCHANGED <<streams, due, visited, goroutines, process>>

RangeBegins(k) ==
    /\ pc[k] = "added"
    /\ pc' = [pc EXCEPT ![k] = "range"]
    /\ due' = [due EXCEPT ![k] = cxnsMap]
    /\ UNCHANGED <<streams, wg, visited, goroutines, process>>

(* Mutant: the loop starts a goroutine and comes to the stream again.          *)
VisitAgain(k, s) ==
    /\ pc[k] = "range"
    /\ s \in cxnsMap \ visited[k]
    /\ g' = [g EXCEPT ![k][s] = "sending"]
    /\ UNCHANGED <<streams, calls, tries, sent, process>>

(* The loop comes to a stream and starts its goroutine.  Of the streams that   *)
(* register while it runs it meets some and misses some.                       *)
Visit(k, s) ==
    /\ pc[k] = "range"
    /\ s \in cxnsMap \ visited[k]
    /\ visited' = [visited EXCEPT ![k] = @ \cup {s}]
    /\ g' = [g EXCEPT ![k][s] = "sending"]
    /\ UNCHANGED <<streams, pc, wg, due, tries, sent, process>>

RangeEnds(k) ==
    /\ pc[k] = "range"
    /\ due[k] \cap cxnsMap \subseteq visited[k]
    /\ pc' = [pc EXCEPT ![k] = "wait"]
    /\ UNCHANGED <<streams, wg, due, visited, goroutines, process>>

(* Mutant: nothing waits for the goroutines.                                   *)
CloseAtOnce(k) ==
    /\ pc[k] = "wait"
    /\ pc' = [pc EXCEPT ![k] = "closed"]
    /\ UNCHANGED <<streams, wg, due, visited, goroutines, process>>

(* wg.Wait lets the call pass, errCh is closed, and only now is it read.       *)
WaitEnds(k) ==
    /\ pc[k] = "wait"
    /\ wg[k] = 0
    /\ pc' = [pc EXCEPT ![k] = "closed"]
    /\ UNCHANGED <<streams, wg, due, visited, goroutines, process>>

--------------------------------------------------------------------------------
(* A goroutine of a call: sendWithBackoff, and then its result into errCh.     *)

(* Mutant: an attempt that was made counts as failed.                          *)
SendAgain(k, s) ==
    /\ g[k][s] = "sending" /\ tries[k][s] < MaxTries
    /\ s \in open
    /\ sent' = [sent EXCEPT ![k][s] = @ + 1]
    /\ tries' = [tries EXCEPT ![k][s] = @ + 1]
    /\ g' = [g EXCEPT ![k][s] = IF tries'[k][s] < MaxTries THEN "sending" ELSE "reporting"]
    /\ UNCHANGED <<streams, calls, process>>

SendSucceeds(k, s) ==
    /\ g[k][s] = "sending" /\ tries[k][s] < MaxTries
    /\ s \in open
    /\ sent' = [sent EXCEPT ![k][s] = @ + 1]
    /\ tries' = [tries EXCEPT ![k][s] = @ + 1]
    /\ g' = [g EXCEPT ![k][s] = "reporting"]
    /\ UNCHANGED <<streams, calls, process>>

(* Mutant: a failed attempt is made again without end.                         *)
SendFailsForever(k, s) ==
    /\ g[k][s] = "sending"
    /\ s \notin open
    /\ UNCHANGED vars

(* Send fails on a stream that is broken, and is tried again until the time    *)
(* for it has passed.                                                          *)
SendFails(k, s) ==
    /\ g[k][s] = "sending"
    /\ s \notin open
    /\ tries' = [tries EXCEPT ![k][s] = @ + 1]
    /\ g' = [g EXCEPT ![k][s] = IF tries'[k][s] < MaxTries THEN "sending" ELSE "reporting"]
    /\ UNCHANGED <<streams, calls, sent, process>>

(* errCh is unbuffered and nobody receives before it is closed: a send on it   *)
(* blocks, so that wg.Done is never reached, or panics.                        *)
Report(k, s) ==
    /\ g[k][s] = "reporting"
    /\ pc[k] = "closed"
    /\ process' = "send on closed channel"
    /\ UNCHANGED <<streams, calls, goroutines>>

--------------------------------------------------------------------------------
Ranging == \E k \in Calls : pc[k] = "range"

(* The handlers and the monitor write cxnsMap under cxnMu, which the range     *)
(* loop does not take: the runtime may stop the process, or not notice.        *)
Written ==
    /\ process' \in IF Ranging THEN {"up", "concurrent map iteration and map write"} ELSE {"up"}
    /\ UNCHANGED <<open, calls, goroutines>>

(* A stream of the handlers takes its client's place in the map; the client's  *)
(* older stream, if it is still there, is overwritten, which is a Flush of it  *)
(* and then this step.                                                         *)
Register(s) ==
    /\ s \in requested
    /\ requested' = requested \ {s}
    /\ cxnsMap' = cxnsMap \cup {s}
    /\ Written

Flush(s) ==
    /\ s \in cxnsMap
    /\ cxnsMap' = cxnsMap \ {s}
    /\ Written
    /\ UNCHANGED requested

Break(s) ==
    /\ s \in open
    /\ open' = open \ {s}
    /\ UNCHANGED <<cxnsMap, requested, calls, goroutines, process>>

Caller(k) ==
    \/ AddClients(k) \/ RangeBegins(k) \/ RangeEnds(k) \/ WaitEnds(k)
    \/ \E s \in Streams : Visit(k, s)
Goroutine(k, s) == SendSucceeds(k, s) \/ SendFails(k, s) \/ Report(k, s)

Next ==
    /\ process = "up"
    /\ \/ \E k \in Calls : Caller(k)
       \/ \E k \in Calls, s \in Streams : Goroutine(k, s)
       \/ \E s \in Streams : Register(s) \/ Flush(s) \/ Break(s)

Spec == Init /\ [][Next]_vars

Running(A) == process = "up" /\ A

(* The Go scheduler runs every goroutine that can run.                         *)
FairSpec ==
    /\ Spec
    /\ \A k \in Calls : WF_vars(Running(Caller(k)))
    /\ \A k \in Calls, s \in Streams : WF_vars(Running(Goroutine(k, s)))

--------------------------------------------------------------------------------
(* Types; a goroutine exists exactly for the streams the loop has visited.     *)
TypeOK ==
    /\ cxnsMap \subseteq Streams /\ open \subseteq Streams
    /\ requested \subseteq Streams \ cxnsMap
    /\ pc \in [Calls -> {"reconcile", "added", "range", "wait", "closed"}]
    /\ wg \in [Calls -> 0 .. Cardinality(Streams)]
    /\ \A k \in Calls, s \in Streams :
         /\ g[k][s] \in {"none", "sending", "reporting"}
         /\ g[k][s] = "none" <=> s \notin visited[k]
         /\ tries[k][s] \in 0 .. MaxTries
    /\ process \in {"up", "send on closed channel", "concurrent map iteration and map write"}

(* A call carries its policy at most once over a stream, its retries included, *)
(* and gives up only on a stream that is broken: a client misses an update     *)
(* that was addressed to it only together with the stream.                     *)
DeliveredOnce ==
    \A k \in Calls, s \in Streams :
        /\ sent[k][s] <= 1
        /\ g[k][s] = "reporting" => sent[k][s] = 1 \/ s \notin open

(* The process dies of errCh only when a call counted no stream at all and the *)
(* first client registered before the range loop looked.                       *)
PanicNeedsFirstClient ==
    process = "send on closed channel" =>
        \E k \in Calls : pc[k] = "closed" /\ wg[k] = 0 /\ visited[k] # {}

(* Every stream a call has come to is dealt with, however many others of it    *)
(* are broken or slow.                                                         *)
EveryStreamIsTried ==
    \A k \in Calls, s \in Streams :
        g[k][s] = "sending" ~> g[k][s] = "reporting" \/ process # "up"

(* "send to clients, but don't wait on any of them"                            *)
(* (pkg/stream/sender/sender.go:79): a call of SendPolicy comes to its end.    *)
CallsEnd == \A k \in Calls : pc[k] = "wait" ~> pc[k] = "closed" \/ process # "up"
================================================================================
