----------------------------- MODULE FanOutProofs ------------------------------
(* Proofs about FanOut, for any number of streams, calls and attempts.         *)
EXTENDS FanOut, FiniteSetTheorems, TLAPS

(* The types of what the calls and their goroutines keep, for every call.      *)
TableOK ==
    /\ due \in [Calls -> SUBSET Streams]
    /\ visited \in [Calls -> SUBSET Streams]
    /\ g \in [Calls -> [Streams -> {"none", "sending", "reporting"}]]
    /\ tries \in [Calls -> [Streams -> 0 .. MaxTries]]
    /\ sent \in [Calls -> [Streams -> 0 .. 1]]

(* A goroutine that is still trying has had no success and has a try left.     *)
StillTrying ==
    \A k \in Calls, s \in Streams :
        /\ g[k][s] \in {"none", "sending"} => sent[k][s] = 0
        /\ g[k][s] = "none" => tries[k][s] = 0
        /\ g[k][s] = "sending" => tries[k][s] < MaxTries

(* errCh is closed only after a wait that found the counter at zero.           *)
ClosedAtZero == \A k \in Calls : pc[k] = "closed" => wg[k] = 0

FanOutInv ==
    TypeOK /\ TableOK /\ StillTrying /\ ClosedAtZero /\ DeliveredOnce /\ PanicNeedsFirstClient

LEMMA CountsAreNat ==
  ASSUME NEW S \in SUBSET Streams
  PROVE  Cardinality(S) \in 0 .. Cardinality(Streams)
  BY StreamsAreFinite, FS_Subset, FS_CardinalityType

LEMMA FanOutInit == Init => FanOutInv
<1> SUFFICES ASSUME Init PROVE FanOutInv
  OBVIOUS
<1>1. Cardinality(Streams) \in Nat /\ MaxTries \in Nat \ {0}
  BY StreamsAreFinite, FS_CardinalityType, MaxTriesIsPositive
<1>2. TypeOK
  BY <1>1 DEF Init, TypeOK
<1>3. TableOK
  BY <1>1 DEF Init, TableOK
<1>4. StillTrying /\ ClosedAtZero /\ DeliveredOnce /\ PanicNeedsFirstClient
  BY <1>1 DEF Init, StillTrying, ClosedAtZero, DeliveredOnce, PanicNeedsFirstClient
<1>5. QED
  BY <1>2, <1>3, <1>4 DEF FanOutInv

--------------------------------------------------------------------------------
(* The steps of a call.                                                        *)

LEMMA CallersKeep ==
  ASSUME FanOutInv, process = "up", NEW k \in Calls,
         AddClients(k) \/ RangeBegins(k) \/ RangeEnds(k) \/ WaitEnds(k)
  PROVE  FanOutInv'
<1>1. UNCHANGED <<cxnsMap, requested, open, visited, g, tries, sent, process>>
  BY DEF AddClients, RangeBegins, RangeEnds, WaitEnds, streams, goroutines
<1>2. Cardinality(cxnsMap) \in 0 .. Cardinality(Streams)
  BY CountsAreNat DEF FanOutInv, TypeOK
<1>3. /\ pc' \in [Calls -> {"reconcile", "added", "range", "wait", "closed"}]
      /\ wg' \in [Calls -> 0 .. Cardinality(Streams)]
      /\ due' \in [Calls -> SUBSET Streams]
  <2>1. CASE AddClients(k)
    BY <1>2, <2>1 DEF FanOutInv, TypeOK, TableOK, AddClients
  <2>2. CASE RangeBegins(k)
    BY <2>2 DEF FanOutInv, TypeOK, TableOK, RangeBegins
  <2>3. CASE RangeEnds(k) \/ WaitEnds(k)
    BY <2>3 DEF FanOutInv, TypeOK, TableOK, RangeEnds, WaitEnds
  <2>4. QED
    BY <2>1, <2>2, <2>3
<1>4. ClosedAtZero'
  <2>1. CASE AddClients(k)
    BY <2>1 DEF FanOutInv, TypeOK, ClosedAtZero, AddClients
  <2>2. CASE RangeBegins(k) \/ RangeEnds(k) \/ WaitEnds(k)
    BY <2>2 DEF FanOutInv, TypeOK, ClosedAtZero, RangeBegins, RangeEnds, WaitEnds
  <2>3. QED
    BY <2>1, <2>2
<1>5. QED
  BY <1>1, <1>3, <1>4
     DEF FanOutInv, TypeOK, TableOK, StillTrying, DeliveredOnce, PanicNeedsFirstClient

LEMMA VisitKeeps ==
  ASSUME FanOutInv, process = "up", NEW k \in Calls, NEW s \in Streams, Visit(k, s)
  PROVE  FanOutInv'
<1>1. /\ visited' = [visited EXCEPT ![k] = @ \cup {s}]
      /\ g' = [g EXCEPT ![k][s] = "sending"] /\ s \notin visited[k]
      /\ UNCHANGED <<cxnsMap, requested, open, pc, wg, due, tries, sent, process>>
  BY DEF Visit, streams
<1>2. g[k][s] = "none" /\ tries[k][s] = 0 /\ MaxTries \in Nat \ {0}
  BY <1>1, MaxTriesIsPositive DEF FanOutInv, TypeOK, StillTrying
<1>3. \A l \in Calls, q \in Streams :
        /\ g'[l][q] = IF l = k /\ q = s THEN "sending" ELSE g[l][q]
        /\ q \in visited'[l] <=> q \in visited[l] \/ (l = k /\ q = s)
  BY <1>1 DEF FanOutInv, TableOK
<1>4. TypeOK'
  BY <1>1, <1>3 DEF FanOutInv, TypeOK
<1>5. TableOK'
  BY <1>1 DEF FanOutInv, TableOK
<1>6. StillTrying' /\ DeliveredOnce'
  BY <1>1, <1>2, <1>3 DEF FanOutInv, StillTrying, DeliveredOnce
<1>7. ClosedAtZero' /\ PanicNeedsFirstClient'
  BY <1>1 DEF FanOutInv, ClosedAtZero, PanicNeedsFirstClient
<1>8. QED
  BY <1>4, <1>5, <1>6, <1>7 DEF FanOutInv

--------------------------------------------------------------------------------
(* The steps of a goroutine.                                                   *)

LEMMA SendKeeps ==
  ASSUME FanOutInv, process = "up", NEW k \in Calls, NEW s \in Streams,
         SendSucceeds(k, s) \/ SendFails(k, s)
  PROVE  FanOutInv'
<1>1. /\ g[k][s] = "sending" /\ sent[k][s] = 0
      /\ tries[k][s] \in 0 .. MaxTries /\ tries[k][s] < MaxTries /\ MaxTries \in Nat \ {0}
      /\ UNCHANGED <<cxnsMap, requested, open, pc, wg, due, visited, process>>
  BY MaxTriesIsPositive
     DEF FanOutInv, StillTrying, TypeOK, SendSucceeds, SendFails, streams, calls
<1>2. tries' = [tries EXCEPT ![k][s] = @ + 1]
  BY DEF SendSucceeds, SendFails
<1>3. \A l \in Calls, q \in Streams :
        tries'[l][q] = IF l = k /\ q = s THEN tries[k][s] + 1 ELSE tries[l][q]
  BY <1>2 DEF FanOutInv, TableOK
<1> DEFINE to == g'[k][s]
           n == sent'[k][s]
<1>4. /\ g' \in [Calls -> [Streams -> {"none", "sending", "reporting"}]]
      /\ sent' \in [Calls -> [Streams -> 0 .. 1]]
      /\ \A l \in Calls, q \in Streams : l # k \/ q # s =>
            g'[l][q] = g[l][q] /\ sent'[l][q] = sent[l][q]
  <2>1. CASE SendSucceeds(k, s)
    <3>1. g' = [g EXCEPT ![k][s] = "reporting"] /\ sent' = [sent EXCEPT ![k][s] = 1]
      BY <1>1, <2>1 DEF SendSucceeds
    <3>2. QED
      BY <3>1 DEF FanOutInv, TableOK
  <2>2. CASE SendFails(k, s)
    BY <2>2 DEF SendFails, FanOutInv, TableOK
  <2>3. QED
    BY <2>1, <2>2
<1>5. /\ to \in {"sending", "reporting"}
      /\ to = "sending" => n = 0 /\ tries'[k][s] < MaxTries
      /\ to = "reporting" => n = 1 \/ s \notin open
  <2>1. CASE SendSucceeds(k, s)
    BY <1>1, <2>1 DEF SendSucceeds, FanOutInv, TableOK
  <2>2. CASE SendFails(k, s)
    BY <1>1, <2>2 DEF SendFails, FanOutInv, TableOK
  <2>3. QED
    BY <2>1, <2>2
<1>6. TypeOK'
  BY <1>1, <1>3, <1>4, <1>5 DEF FanOutInv, TypeOK
<1>7. TableOK'
  <2>1. tries' \in [Calls -> [Streams -> 0 .. MaxTries]]
    BY <1>1, <1>2 DEF FanOutInv, TableOK
  <2>2. QED
    BY <1>1, <1>4, <2>1 DEF FanOutInv, TableOK
<1>8. ASSUME NEW l \in Calls, NEW q \in Streams
      PROVE  /\ g'[l][q] \in {"none", "sending"} => sent'[l][q] = 0
             /\ g'[l][q] = "none" => tries'[l][q] = 0
             /\ g'[l][q] = "sending" => tries'[l][q] < MaxTries
             /\ sent'[l][q] <= 1
             /\ g'[l][q] = "reporting" => sent'[l][q] = 1 \/ q \notin open
  <2>1. CASE l = k /\ q = s
    BY <1>4, <1>5, <2>1
  <2>2. CASE l # k \/ q # s
    BY <1>3, <1>4, <2>2 DEF FanOutInv, StillTrying, DeliveredOnce
  <2>3. QED
    BY <2>1, <2>2
<1>9. ClosedAtZero' /\ PanicNeedsFirstClient'
  BY <1>1 DEF FanOutInv, ClosedAtZero, PanicNeedsFirstClient
<1>10. QED
  BY <1>1, <1>6, <1>7, <1>8, <1>9 DEF FanOutInv, StillTrying, DeliveredOnce

LEMMA ReportKeeps ==
  ASSUME FanOutInv, NEW k \in Calls, NEW s \in Streams, Report(k, s)
  PROVE  FanOutInv'
<1>1. /\ g[k][s] = "reporting" /\ pc[k] = "closed" /\ process' = "send on closed channel"
      /\ UNCHANGED <<cxnsMap, requested, open, pc, wg, due, visited, g, tries, sent>>
  BY DEF Report, streams, calls, goroutines
<1>2. wg[k] = 0 /\ visited[k] # {}
  BY <1>1 DEF FanOutInv, ClosedAtZero, TypeOK
<1>3. PanicNeedsFirstClient'
  BY <1>1, <1>2 DEF PanicNeedsFirstClient
<1>4. QED
  BY <1>1, <1>3 DEF FanOutInv, TypeOK, TableOK, StillTrying, ClosedAtZero, DeliveredOnce

--------------------------------------------------------------------------------
(* What happens to the streams.                                                *)

LEMMA StreamsKeep ==
  ASSUME FanOutInv, process = "up", NEW s \in Streams, Register(s) \/ Flush(s) \/ Break(s)
  PROVE  FanOutInv'
<1>1. UNCHANGED <<pc, wg, due, visited, g, tries, sent>>
  BY DEF Register, Flush, Break, Written, calls, goroutines
<1>2. open' \subseteq open
  BY DEF Register, Flush, Break, Written
<1>3. process' \in {"up", "concurrent map iteration and map write"}
  BY DEF Register, Flush, Break, Written
<1>4. cxnsMap' \subseteq Streams /\ requested' \subseteq Streams \ cxnsMap'
  BY DEF FanOutInv, TypeOK, Register, Flush, Break
<1>5. TypeOK'
  BY <1>1, <1>2, <1>3, <1>4 DEF FanOutInv, TypeOK
<1>6. TableOK' /\ StillTrying' /\ ClosedAtZero'
  BY <1>1 DEF FanOutInv, TableOK, StillTrying, ClosedAtZero
<1>7. DeliveredOnce'
  BY <1>1, <1>2 DEF FanOutInv, DeliveredOnce
<1>8. PanicNeedsFirstClient'
  BY <1>3 DEF PanicNeedsFirstClient
<1>9. QED
  BY <1>5, <1>6, <1>7, <1>8 DEF FanOutInv

LEMMA FanOutInductive == FanOutInv /\ [Next]_vars => FanOutInv'
<1> SUFFICES ASSUME FanOutInv, [Next]_vars PROVE FanOutInv'
  OBVIOUS
<1>1. CASE UNCHANGED vars
  BY <1>1 DEF vars, FanOutInv, TypeOK, TableOK, StillTrying, ClosedAtZero, DeliveredOnce,
              PanicNeedsFirstClient
<1>2. CASE Next
  BY <1>2, CallersKeep, VisitKeeps, SendKeeps, ReportKeeps, StreamsKeep
     DEF Next, Caller, Goroutine
<1>3. QED
  BY <1>1, <1>2

LEMMA FanOutCorrect == Spec => []FanOutInv
  BY FanOutInit, FanOutInductive, PTL DEF Spec

--------------------------------------------------------------------------------
(* The counters and the goroutines stay within their bounds: one goroutine for *)
(* each stream that the loop has visited (sender.go:87-101).                   *)
THEOREM FanOutTypeCorrect == Spec => []TypeOK
<1>1. FanOutInv => TypeOK
  BY DEF FanOutInv
<1>2. QED
  BY <1>1, FanOutCorrect, PTL

(* No call carries its policy twice over a stream, however many streams come,  *)
(* go and break, and it gives up only on streams that are broken               *)
(* (sendWithBackoff).                                                          *)
THEOREM UpdatesAreDeliveredOnce == Spec => []DeliveredOnce
<1>1. FanOutInv => DeliveredOnce
  BY DEF FanOutInv
<1>2. QED
  BY <1>1, FanOutCorrect, PTL

(* A call that counted a stream never sends on its closed errCh: it does not   *)
(* close it, as its wait group never comes to zero.                            *)
THEOREM PanicsNeedAFirstClient == Spec => []PanicNeedsFirstClient
<1>1. FanOutInv => PanicNeedsFirstClient
  BY DEF FanOutInv
<1>2. QED
  BY <1>1, FanOutCorrect, PTL
================================================================================
