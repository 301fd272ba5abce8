--------------------------- MODULE SortedStoreProofs ---------------------------
(* Proofs about SortedStore, for every set of names, versions, readers and     *)
(* writers, every bound on the updates, and all three variants of the store.   *)
EXTENDS SortedStore, SequenceTheorems, FiniteSetTheorems, TLAPS

(* The empty map, the first and the fresh closure, and a map after an update,  *)
(* are of their types.                                                         *)
LEMMA EmptyType == Empty \in Maps /\ Fresh \in Closures /\ First \in Closures
  BY DEF Empty, Maps, Fresh, First, Closures

LEMMA WithType ==
  ASSUME NEW m \in Maps, NEW q \in Requests
  PROVE  With(m, q) \in Maps
  BY DEF With, Maps, Requests

(* Replacing one closure, or adding one, leaves a sequence of closures.        *)
LEMMA Replaced ==
  ASSUME NEW s \in Seq(Closures), NEW c \in 1 .. Len(s), NEW k \in Closures
  PROVE  /\ [s EXCEPT ![c] = k] \in Seq(Closures)
         /\ Len([s EXCEPT ![c] = k]) = Len(s)
         /\ \A i \in 1 .. Len(s) : [s EXCEPT ![c] = k][i] = IF i = c THEN k ELSE s[i]
  BY ExceptSeq

LEMMA Added ==
  ASSUME NEW s \in Seq(Closures)
  PROVE  /\ Append(s, Fresh) \in Seq(Closures)
         /\ Len(Append(s, Fresh)) = Len(s) + 1
         /\ \A i \in 1 .. Len(s) + 1 :
              Append(s, Fresh)[i] = IF i = Len(s) + 1 THEN Fresh ELSE s[i]
  BY EmptyType, AppendProperties

(* A reader past Load has a closure to call.                                   *)
LEMMA InUse ==
  ASSUME TypeOK, NEW r \in Readers, rpc[r] \notin {"idle", "called", "peeked"}
  PROVE  rc[r] \in 1 .. Current
<1>1. rc[r] \in 0 .. Current /\ rc[r] > 0 /\ Current \in Nat
  BY DEF TypeOK, Current
<1>2. QED
  BY <1>1

(* What the four actions that touch closures do to them, field by field.       *)
LEMMA EnterEffect ==
  ASSUME TypeOK, NEW r \in Readers, Enter(r)
  PROVE  /\ rc[r] \in 1 .. Current
         /\ closures' \in Seq(Closures) /\ Current' = Current
         /\ \A i \in 1 .. Current :
              /\ closures'[i].from = closures[i].from
              /\ closures'[i].asof = closures[i].asof
              /\ closures'[i].state = IF i = rc[r] THEN "running" ELSE closures[i].state
<1>1. rc[r] \in 1 .. Current
  BY InUse DEF Enter
<1>2. closures \in Seq(Closures)
  BY DEF TypeOK
<1>3. \A i \in 1 .. Current : closures[i] \in Closures
  BY <1>2 DEF Current
<1> DEFINE k == [closures[rc[r]] EXCEPT !.state = "running"]
<1>4. /\ k \in Closures
      /\ k.from = closures[rc[r]].from /\ k.asof = closures[rc[r]].asof /\ k.state = "running"
  BY <1>1, <1>3 DEF Closures
<1>5. closures' = [closures EXCEPT ![rc[r]] = k]
  BY DEF Enter
<1> HIDE DEF k
<1>6. QED
  BY <1>1, <1>2, <1>4, <1>5, Replaced DEF Current

LEMMA FinishEffect ==
  ASSUME TypeOK, NEW r \in Readers, Finish(r)
  PROVE  /\ rc[r] \in 1 .. Current
         /\ closures' \in Seq(Closures) /\ Current' = Current
         /\ \A i \in 1 .. Current :
              /\ closures'[i].from = closures[i].from
              /\ closures'[i].asof = closures[i].asof
              /\ closures'[i].state = IF i = rc[r] THEN "done" ELSE closures[i].state
<1>1. rc[r] \in 1 .. Current
  BY InUse DEF Finish
<1>2. closures \in Seq(Closures)
  BY DEF TypeOK
<1>3. \A i \in 1 .. Current : closures[i] \in Closures
  BY <1>2 DEF Current
<1> DEFINE k == [closures[rc[r]] EXCEPT !.state = "done"]
<1>4. /\ k \in Closures
      /\ k.from = closures[rc[r]].from /\ k.asof = closures[rc[r]].asof /\ k.state = "done"
  BY <1>1, <1>3 DEF Closures
<1>5. closures' = [closures EXCEPT ![rc[r]] = k]
  BY DEF Finish
<1> HIDE DEF k
<1>6. QED
  BY <1>1, <1>2, <1>4, <1>5, Replaced DEF Current

LEMMA ComputeEffect ==
  ASSUME TypeOK, NEW r \in Readers, Compute(r)
  PROVE  /\ rc[r] \in 1 .. Current
         /\ closures' \in Seq(Closures) /\ Current' = Current
         /\ \A i \in 1 .. Current :
              closures'[i] = IF i = rc[r]
                             THEN [state |-> "computed", from |-> policies, asof |-> gen]
                             ELSE closures[i]
<1>1. rc[r] \in 1 .. Current
  BY InUse DEF Compute
<1>2. closures \in Seq(Closures)
  BY DEF TypeOK
<1>3. [state |-> "computed", from |-> policies, asof |-> gen] \in Closures
  BY DEF TypeOK, Closures
<1>4. QED
  BY <1>1, <1>2, <1>3, Replaced DEF Compute, Current

LEMMA ResetEffect ==
  ASSUME TypeOK, NEW w \in Writers, Reset(w)
  PROVE  /\ closures' \in Seq(Closures) /\ Current' = Current + 1
         /\ \A i \in 1 .. Current : closures'[i] = closures[i]
         /\ closures'[Current'] = Fresh
         /\ published' \in Nat /\ published <= published' /\ published' <= gen
<1>1. closures \in Seq(Closures)
  BY DEF TypeOK
<1>2. wgen[w] \in 0 .. gen /\ published \in 0 .. gen /\ gen \in Nat
  BY DEF TypeOK
<1>3. published' = Larger(published, wgen[w])
  BY DEF Reset
<1>4. QED
  BY <1>1, <1>2, <1>3, Added DEF Reset, Current, Larger

(* The type invariant: no reader calls a closure that does not exist, and the  *)
(* history counters never run ahead of one another.                            *)
THEOREM TypeCorrect == Spec => []TypeOK
<1>1. Init => TypeOK
  BY EmptyType DEF Init, TypeOK, Current
<1>2. TypeOK /\ [Next]_vars => TypeOK'
  <2> SUFFICES ASSUME TypeOK, [Next]_vars PROVE TypeOK'
    OBVIOUS
  <2> USE DEF TypeOK, Current, writerVars, readerVars
  <2>1. ASSUME NEW w \in Writers, Receive(w) PROVE TypeOK'
    BY <2>1 DEF Receive
  <2>2. ASSUME NEW w \in Writers, Refuse(w) PROVE TypeOK'
    BY <2>2 DEF Refuse
  <2>3. ASSUME NEW w \in Writers, WriterLocks(w) PROVE TypeOK'
    BY <2>3 DEF WriterLocks
  <2>4. ASSUME NEW w \in Writers, Mutate(w) PROVE TypeOK'
    BY <2>4, WithType DEF Mutate
  <2>5. ASSUME NEW w \in Writers, Reset(w) PROVE TypeOK'
    <3>1. /\ closures' \in Seq(Closures)
          /\ Current' = Current + 1
      BY <2>5, ResetEffect
    <3>2. /\ published' \in 0 .. gen' /\ published <= published'
          /\ UNCHANGED <<variant, mu, policies, wreq, rpc, rc, floor, gen, wgen, begun>>
      BY <2>5, ResetEffect DEF Reset
    <3>3. /\ wpc' \in [Writers -> {"idle", "received", "locked", "mutated", "reset",
                                   "unlocked", "returning"}]
          /\ \A v \in Writers : wpc'[v] # "idle" => wpc[v] # "idle"
      BY <2>5 DEF Reset
    <3>4. QED
      BY <3>1, <3>2, <3>3
  <2>6. ASSUME NEW w \in Writers, WriterUnlocks(w) PROVE TypeOK'
    BY <2>6 DEF WriterUnlocks
  <2>7. ASSUME NEW w \in Writers, WriterReturns(w) PROVE TypeOK'
    BY <2>7 DEF WriterReturns
  <2>8. ASSUME NEW r \in Readers, Invoke(r) PROVE TypeOK'
    BY <2>8 DEF Invoke
  <2>9. ASSUME NEW r \in Readers, Peek(r) PROVE TypeOK'
    BY <2>9 DEF Peek
  <2>10. ASSUME NEW r \in Readers, Load(r) PROVE TypeOK'
    BY <2>10 DEF Load
  <2>11. ASSUME NEW r \in Readers, Panic(r) PROVE TypeOK'
    BY <2>11, EmptyType DEF Panic
  <2>12. ASSUME NEW r \in Readers, Enter(r) PROVE TypeOK'
    <3>1. /\ rc[r] \in 1 .. Current
          /\ closures' \in Seq(Closures) /\ Current' = Current
      BY <2>12, EnterEffect
    <3>2. /\ rpc' = [rpc EXCEPT ![r] = "running"]
          /\ UNCHANGED <<variant, mu, policies, wpc, wreq, rc, floor, gen, wgen, published,
                       begun>>
      BY <2>12 DEF Enter
    <3>3. QED
      BY <3>1, <3>2
  <2>13. ASSUME NEW r \in Readers, ReaderLocks(r) PROVE TypeOK'
    BY <2>13 DEF ReaderLocks
  <2>14. ASSUME NEW r \in Readers, Compute(r) PROVE TypeOK'
    <3>1. /\ rc[r] \in 1 .. Current
          /\ closures' \in Seq(Closures) /\ Current' = Current
      BY <2>14, ComputeEffect
    <3>2. /\ rpc' = [rpc EXCEPT ![r] = "computed"]
          /\ UNCHANGED <<variant, mu, policies, wpc, wreq, rc, floor, gen, wgen, published,
                       begun>>
      BY <2>14 DEF Compute
    <3>3. QED
      BY <3>1, <3>2
  <2>15. ASSUME NEW r \in Readers, ReaderUnlocks(r) PROVE TypeOK'
    BY <2>15 DEF ReaderUnlocks
  <2>16. ASSUME NEW r \in Readers, Finish(r) PROVE TypeOK'
    <3>1. /\ rc[r] \in 1 .. Current
          /\ closures' \in Seq(Closures) /\ Current' = Current
      BY <2>16, FinishEffect
    <3>2. /\ rpc' = [rpc EXCEPT ![r] = "loaded"]
          /\ UNCHANGED <<variant, mu, policies, wpc, wreq, rc, floor, gen, wgen, published,
                       begun>>
      BY <2>16 DEF Finish
    <3>3. QED
      BY <3>1, <3>2
  <2>17. ASSUME NEW r \in Readers, Return(r) PROVE TypeOK'
    BY <2>17 DEF Return
  <2>18. CASE UNCHANGED vars
    BY <2>18 DEF vars
  <2>19. QED
    BY <2>1, <2>2, <2>3, <2>4, <2>5, <2>6, <2>7, <2>8, <2>9, <2>10, <2>11, <2>12,
       <2>13, <2>14, <2>15, <2>16, <2>17, <2>18 DEF Next, WriterStep, ReaderStep
<1>3. QED
  BY <1>1, <1>2, PTL DEF Spec

--------------------------------------------------------------------------------
(* mu names the process that is between its Lock and its Unlock.               *)
MuIsHeld ==
    /\ \A w \in Writers : WriterHolds(w) <=> mu = w
    /\ \A r \in Readers : ReaderHolds(r) <=> mu = r

LEMMA MuCorrect == Spec => []MuIsHeld
<1>1. Init => MuIsHeld
  BY ProcessesDiffer DEF Init, MuIsHeld, WriterHolds, ReaderHolds
<1>2. TypeOK /\ MuIsHeld /\ [Next]_vars => MuIsHeld'
  <2> SUFFICES ASSUME TypeOK, MuIsHeld, [Next]_vars PROVE MuIsHeld'
    OBVIOUS
  <2> USE ProcessesDiffer DEF TypeOK, MuIsHeld, WriterHolds, ReaderHolds, writerVars, readerVars
  <2>1. ASSUME NEW w \in Writers, Receive(w) \/ Refuse(w) \/ WriterReturns(w)
        PROVE  MuIsHeld'
    BY <2>1 DEF Receive, Refuse, WriterReturns
  <2>2. ASSUME NEW w \in Writers, WriterLocks(w) PROVE MuIsHeld'
    BY <2>2 DEF WriterLocks
  <2>3. ASSUME NEW w \in Writers, Mutate(w) \/ Reset(w) PROVE MuIsHeld'
    BY <2>3 DEF Mutate, Reset
  <2>4. ASSUME NEW w \in Writers, WriterUnlocks(w) PROVE MuIsHeld'
    BY <2>4 DEF WriterUnlocks
  <2>5. ASSUME NEW r \in Readers, Invoke(r) \/ Peek(r) \/ Load(r) \/ Enter(r)
                                  \/ Compute(r) \/ Finish(r) \/ Return(r)
        PROVE  MuIsHeld'
    <3>1. UNCHANGED <<mu, wpc>>
      BY <2>5 DEF Invoke, Peek, Load, Enter, Compute, Finish, Return
    <3>2. \A q \in Readers : ReaderHolds(q)' <=> ReaderHolds(q)
      BY <2>5 DEF Invoke, Peek, Load, AtCall, Enter, Compute, Finish, Return
    <3>3. QED
      BY <3>1, <3>2
  <2>6. ASSUME NEW r \in Readers, Panic(r) PROVE MuIsHeld'
    BY <2>6 DEF Panic
  <2>7. ASSUME NEW r \in Readers, ReaderLocks(r) PROVE MuIsHeld'
    BY <2>7 DEF ReaderLocks
  <2>8. ASSUME NEW r \in Readers, ReaderUnlocks(r) PROVE MuIsHeld'
    BY <2>8 DEF ReaderUnlocks
  <2>9. CASE UNCHANGED vars
    BY <2>9 DEF vars
  <2>10. QED
    BY <2>1, <2>2, <2>3, <2>4, <2>5, <2>6, <2>7, <2>8, <2>9
       DEF Next, WriterStep, ReaderStep
<1>3. QED
  BY <1>1, <1>2, TypeCorrect, PTL DEF Spec

(* The mutex keeps the map's writers and the computations of the listing       *)
(* apart, in all three variants: Go's fatal concurrent map access cannot       *)
(* happen in the store.                                                        *)
THEOREM MapIsNeverRaced == Spec => []NoMapRace
<1>1. MuIsHeld => NoMapRace
  BY ProcessesDiffer DEF MuIsHeld, NoMapRace
<1>2. QED
  BY <1>1, MuCorrect, PTL

--------------------------------------------------------------------------------
(* A closure that is being computed has exactly one runner, the reader that    *)
(* entered it, and the runner's place tells how far the computation is.        *)
OneRunner ==
    /\ \A r \in Readers : rpc[r] \in {"running", "locked"} => closures[rc[r]].state = "running"
    /\ \A r \in Readers : rpc[r] \in {"computed", "unlocked"} => closures[rc[r]].state = "computed"
    /\ \A r, q \in Readers : Runs(r) /\ Runs(q) /\ rc[r] = rc[q] => r = q

LEMMA RunnerCorrect == Spec => []OneRunner
<1>1. Init => OneRunner
  BY DEF Init, OneRunner, Runs
<1>2. TypeOK /\ OneRunner /\ [Next]_vars => OneRunner'
  <2> SUFFICES ASSUME TypeOK, OneRunner, [Next]_vars PROVE OneRunner'
    OBVIOUS
  <2> USE DEF OneRunner, Runs, readerVars
  <2>0. /\ rpc \in [Readers -> {"idle", "called", "peeked", "loaded", "running", "locked",
                                "computed", "unlocked"}]
        /\ rc \in [Readers -> 0 .. Current]
        /\ \A r \in Readers : Runs(r) => rc[r] \in 1 .. Current
    BY InUse DEF TypeOK
  <2>1. ASSUME NEW w \in Writers,
               \/ Receive(w) \/ Refuse(w) \/ WriterLocks(w) \/ Mutate(w)
               \/ WriterUnlocks(w) \/ WriterReturns(w)
        PROVE  OneRunner'
    BY <2>1 DEF Receive, Refuse, WriterLocks, Mutate, WriterUnlocks, WriterReturns
  <2>2. ASSUME NEW w \in Writers, Reset(w) PROVE OneRunner'
    <3>1. UNCHANGED <<rpc, rc>>
      BY <2>2 DEF Reset
    <3>2. QED
      BY <2>0, <2>2, <3>1, ResetEffect
  <2>3. ASSUME NEW r \in Readers,
               Invoke(r) \/ Peek(r) \/ Load(r) \/ ReaderLocks(r) \/ ReaderUnlocks(r) \/ Return(r)
        PROVE  OneRunner'
    BY <2>0, <2>3 DEF Invoke, Peek, Load, AtCall, ReaderLocks, ReaderUnlocks, Return
  <2>4. ASSUME NEW r \in Readers, Panic(r) PROVE OneRunner'
    BY <2>4 DEF Panic
  <2>5. ASSUME NEW r \in Readers, Enter(r) PROVE OneRunner'
    <3>1. /\ rpc' = [rpc EXCEPT ![r] = "running"] /\ rc' = rc
          /\ rpc[r] = "loaded" /\ closures[rc[r]].state = "new"
      BY <2>5 DEF Enter
    <3>2. \A q \in Readers : Runs(q) => rc[q] # rc[r]
      BY <3>1
    <3>3. QED
      BY <2>0, <2>5, <3>1, <3>2, EnterEffect
  <2>6. ASSUME NEW r \in Readers, Compute(r) PROVE OneRunner'
    <3>1. rpc' = [rpc EXCEPT ![r] = "computed"] /\ rc' = rc /\ rpc[r] = "locked"
      BY <2>6 DEF Compute
    <3>2. \A i \in 1 .. Current :
             closures'[i].state = IF i = rc[r] THEN "computed" ELSE closures[i].state
      BY <2>6, ComputeEffect
    <3>3. \A q \in Readers : Runs(q)' => Runs(q) /\ (q # r => rpc'[q] = rpc[q] /\ rc[q] # rc[r])
      BY <2>0, <3>1
    <3>4. QED
      BY <2>0, <3>1, <3>2, <3>3
  <2>7. ASSUME NEW r \in Readers, Finish(r) PROVE OneRunner'
    <3>1. rpc' = [rpc EXCEPT ![r] = "loaded"] /\ rc' = rc /\ rpc[r] = "unlocked"
      BY <2>7 DEF Finish
    <3>2. \A i \in 1 .. Current :
             closures'[i].state = IF i = rc[r] THEN "done" ELSE closures[i].state
      BY <2>7, FinishEffect
    <3>3. \A q \in Readers : Runs(q)' => Runs(q) /\ (q # r => rpc'[q] = rpc[q] /\ rc[q] # rc[r])
      BY <2>0, <3>1
    <3>4. QED
      BY <2>0, <3>1, <3>2, <3>3
  <2>8. CASE UNCHANGED vars
    BY <2>8 DEF vars
  <2>9. QED
    BY <2>1, <2>2, <2>3, <2>4, <2>5, <2>6, <2>7, <2>8 DEF Next, WriterStep, ReaderStep
<1>3. QED
  BY <1>1, <1>2, TypeCorrect, PTL DEF Spec

--------------------------------------------------------------------------------
(* A closure whose computation has begun and is not over has its runner, and   *)
(* nobody has loaded a nil one.                                                *)
RunnerExists ==
    /\ \A c \in 1 .. Current : closures[c].state \in {"running", "computed"} =>
          \E r \in Readers : Runs(r) /\ rc[r] = c
    /\ \A r \in Readers : rc[r] # 0 => closures[rc[r]].state # "nil"

LEMMA RunnerExistsAlways == Spec => []RunnerExists
<1>1. Init => RunnerExists
  BY DEF Init, RunnerExists, Current, First
<1>2. TypeOK /\ OneRunner /\ RunnerExists /\ [Next]_vars => RunnerExists'
  <2> SUFFICES ASSUME TypeOK, OneRunner, RunnerExists, [Next]_vars PROVE RunnerExists'
    OBVIOUS
  <2>0. /\ Current \in Nat /\ Current > 0
        /\ rpc \in [Readers -> {"idle", "called", "peeked", "loaded", "running", "locked",
                                "computed", "unlocked"}]
        /\ rc \in [Readers -> 0 .. Current]
        /\ \A r \in Readers : rc[r] = 0 \/ rc[r] \in 1 .. Current
    BY DEF TypeOK, Current
  <2>1. CASE UNCHANGED <<closures, rpc, rc>>
    BY <2>1 DEF RunnerExists, Runs, Current
  <2>2. ASSUME NEW w \in Writers, Reset(w) PROVE RunnerExists'
    <3>1. UNCHANGED <<rpc, rc>>
      BY <2>2 DEF Reset, readerVars
    <3>2. /\ Current' = Current + 1 /\ closures'[Current + 1].state = "new"
          /\ \A i \in 1 .. Current : closures'[i] = closures[i]
      BY <2>2, ResetEffect DEF Fresh
    <3>3. \A c \in 1 .. Current + 1 : c \in 1 .. Current \/ c = Current + 1
      BY <2>0
    <3>4. QED
      BY <2>0, <3>1, <3>2, <3>3 DEF RunnerExists, Runs
  <2>3. ASSUME NEW r \in Readers, Invoke(r) \/ Peek(r) \/ Load(r) \/ Return(r)
        PROVE  RunnerExists'
    <3>1. closures' = closures /\ ~Runs(r)
      BY <2>3 DEF Invoke, Peek, Load, AtCall, Return, Runs
    <3>2. /\ \A q \in Readers : q # r => rpc'[q] = rpc[q] /\ rc'[q] = rc[q]
          /\ rc'[r] # 0 => rc'[r] = rc[r] \/ closures[rc'[r]].state # "nil"
      BY <2>0, <2>3 DEF Invoke, Peek, Load, Return
    <3>3. \A q \in Readers : Runs(q) => Runs(q)' /\ rc'[q] = rc[q]
      BY <3>1, <3>2 DEF Runs
    <3>4. \A q \in Readers : rc'[q] # 0 => closures[rc'[q]].state # "nil"
      BY <3>2 DEF RunnerExists
    <3>5. QED
      BY <3>1, <3>3, <3>4 DEF RunnerExists, Current
  <2>4. ASSUME NEW r \in Readers, ReaderLocks(r) \/ ReaderUnlocks(r) PROVE RunnerExists'
    <3>1. UNCHANGED <<closures, rc>> /\ \A q \in Readers : Runs(q) => Runs(q)'
      BY <2>0, <2>4 DEF ReaderLocks, ReaderUnlocks, Runs
    <3>2. QED
      BY <3>1 DEF RunnerExists, Current
  <2>5. ASSUME NEW r \in Readers, Panic(r) PROVE RunnerExists'
    <3>1. closures' = <<First>> /\ \A q \in Readers : rc'[q] = 0
      BY <2>5 DEF Panic
    <3>2. Current' = 1 /\ closures'[1].state \notin {"running", "computed"}
      BY <3>1 DEF Current, First
    <3>3. \A c \in 1 .. 1 : c = 1
      OBVIOUS
    <3>4. QED
      BY <3>1, <3>2, <3>3 DEF RunnerExists
  <2>6. ASSUME NEW r \in Readers, Enter(r) \/ Compute(r) PROVE RunnerExists'
    <3>1. /\ rc' = rc /\ rc[r] # 0 /\ Runs(r)'
          /\ \A q \in Readers : Runs(q) => Runs(q)'
      <4>1. CASE Enter(r)
        BY <2>0, <4>1, InUse DEF Enter, Runs
      <4>2. CASE Compute(r)
        BY <2>0, <4>2, InUse DEF Compute, Runs
      <4>3. QED
        BY <2>6, <4>1, <4>2
    <3>2. /\ Current' = Current
          /\ \A i \in 1 .. Current :
               IF i = rc[r] THEN closures'[i].state # "nil"
                            ELSE closures'[i].state = closures[i].state
      <4>1. CASE Enter(r)
        BY <4>1, EnterEffect
      <4>2. CASE Compute(r)
        BY <4>2, ComputeEffect
      <4>3. QED
        BY <2>6, <4>1, <4>2
    <3>3. QED
      BY <2>0, <3>1, <3>2 DEF RunnerExists
  <2>7. ASSUME NEW r \in Readers, Finish(r) PROVE RunnerExists'
    <3>1. rpc' = [rpc EXCEPT ![r] = "loaded"] /\ rc' = rc
      BY <2>7 DEF Finish
    <3>2. /\ Current' = Current
          /\ \A i \in 1 .. Current :
               closures'[i].state = IF i = rc[r] THEN "done" ELSE closures[i].state
      BY <2>7, FinishEffect
    <3>3. \A q \in Readers : Runs(q) /\ rc[q] # rc[r] => Runs(q)'
      BY <2>0, <3>1 DEF Runs
    <3>4. QED
      BY <2>0, <3>1, <3>2, <3>3 DEF RunnerExists
  <2>8. QED
    BY <2>1, <2>2, <2>3, <2>4, <2>5, <2>6, <2>7
       DEF Next, WriterStep, ReaderStep, vars, readerVars, Receive, Refuse, WriterLocks, Mutate,
           WriterUnlocks, WriterReturns
<1>3. QED
  BY <1>1, <1>2, TypeCorrect, RunnerCorrect, PTL DEF Spec

(* No deadlock between the once and the mutex, in all three variants: every    *)
(* chain of calls that wait for each other is at most two long, and ends with  *)
(* one that goes on.                                                           *)
THEOREM WaitsEnd == Spec => []NoCircularWait
<1>1. TypeOK /\ MuIsHeld /\ RunnerExists => NoCircularWait
  <2> DEFINE Processes == Writers \cup Readers
             Held(x) == \E y \in Processes : WaitsFor(x, y) /\ GoesOn(y)
  <2>1. SUFFICES ASSUME TypeOK, MuIsHeld, RunnerExists, NEW x \in Processes, Blocked(x)
                 PROVE  \E y \in Processes :
                          /\ WaitsFor(x, y)
                          /\ GoesOn(y) \/ \E z \in Processes : WaitsFor(y, z) /\ GoesOn(z)
    BY DEF NoCircularWait
  <2>2. ASSUME NEW y \in Processes, WantsMutex(y), mu # None PROVE Held(y)
    <3>1. mu \in Processes
      BY <2>1, <2>2 DEF TypeOK
    <3>2. \/ mu \in Writers /\ mu \notin Readers /\ wpc[mu] \in {"locked", "mutated", "reset"}
          \/ mu \in Readers /\ mu \notin Writers /\ rpc[mu] \in {"locked", "computed"}
      BY <2>1, <3>1, ProcessesDiffer DEF MuIsHeld, WriterHolds, ReaderHolds
    <3>3. GoesOn(mu)
      BY <3>2 DEF GoesOn, Blocked, WantsMutex, WantsClosure
    <3>4. QED
      BY <2>2, <3>1, <3>3 DEF WaitsFor
  <2>3. CASE WantsMutex(x) /\ mu # None
    BY <2>2, <2>3
  <2>4. CASE WantsClosure(x)
    <3>1. x \in Readers /\ rc[x] # 0 /\ rc[x] \in 1 .. Current
      BY <2>1, <2>4, InUse DEF WantsClosure
    <3>2. closures[rc[x]].state \in {"running", "computed"}
      <4>1. closures[rc[x]] \in Closures
        BY <2>1, <3>1 DEF TypeOK, Current
      <4>2. closures[rc[x]].state \notin {"new", "done", "nil"}
        BY <2>1, <2>4, <3>1 DEF RunnerExists, WantsClosure
      <4>3. QED
        BY <4>1, <4>2 DEF Closures
    <3>3. PICK y \in Readers : Runs(y) /\ rc[y] = rc[x]
      BY <2>1, <3>1, <3>2 DEF RunnerExists
    <3>4. WaitsFor(x, y)
      BY <2>4, <3>3 DEF WaitsFor
    <3>5. y \notin Writers /\ ~WantsClosure(y) /\ rpc[y] # "idle"
      BY <3>3, ProcessesDiffer DEF Runs, WantsClosure
    <3>6. GoesOn(y) \/ (WantsMutex(y) /\ mu # None)
      BY <3>3, <3>5 DEF GoesOn, Blocked
    <3>7. QED
      BY <2>2, <3>4, <3>6
  <2>5. QED
    BY <2>1, <2>3, <2>4 DEF Blocked
<1>2. QED
  BY <1>1, TypeCorrect, MuCorrect, RunnerExistsAlways, PTL

--------------------------------------------------------------------------------
(* A stale cached listing implies an update on its way to replacing it.        *)
THEOREM CacheIsCoherent == Spec => []Coherent
<1>1. Init => Coherent
  BY DEF Init, Coherent, Settled, Current, First
<1>2. TypeOK /\ OneRunner /\ Coherent /\ [Next]_vars => Coherent'
  <2> SUFFICES ASSUME TypeOK, OneRunner, Coherent, [Next]_vars PROVE Coherent'
    OBVIOUS
  <2> USE DEF Coherent, Settled
  <2>0. Current \in Nat /\ Current > 0
    BY DEF TypeOK, Current
  <2>1. ASSUME NEW w \in Writers,
               Receive(w) \/ Refuse(w) \/ WriterLocks(w) \/ WriterReturns(w)
        PROVE  Coherent'
    <3>1. UNCHANGED <<policies, closures>>
      BY <2>1 DEF Receive, Refuse, WriterLocks, WriterReturns
    <3>2. \A v \in Writers : wpc[v] \in {"mutated", "unlocked"} => wpc'[v] = wpc[v]
      BY <2>1 DEF TypeOK, Receive, Refuse, WriterLocks, WriterReturns
    <3>3. QED
      BY <3>1, <3>2 DEF Current
  <2>2. ASSUME NEW w \in Writers, Mutate(w) PROVE Coherent'
    BY <2>2 DEF TypeOK, Mutate
  <2>3. ASSUME NEW w \in Writers, Reset(w) PROVE Coherent'
    BY <2>3, ResetEffect DEF Fresh
  <2>4. ASSUME NEW w \in Writers, WriterUnlocks(w) PROVE Coherent'
    BY <2>4 DEF TypeOK, WriterUnlocks, Current
  <2>5. ASSUME NEW r \in Readers,
               Invoke(r) \/ Peek(r) \/ Load(r) \/ ReaderLocks(r) \/ ReaderUnlocks(r) \/ Return(r)
        PROVE  Coherent'
    BY <2>5 DEF Invoke, Peek, Load, ReaderLocks, ReaderUnlocks, Return, writerVars, Current
  <2>6. ASSUME NEW r \in Readers, Panic(r) PROVE Coherent'
    BY <2>6 DEF Panic, First, Current
  <2>7. ASSUME NEW r \in Readers, Enter(r) PROVE Coherent'
    <3>1. UNCHANGED <<policies, wpc>>
      BY <2>7 DEF Enter, writerVars
    <3>2. QED
      BY <2>0, <2>7, <3>1, EnterEffect
  <2>8. ASSUME NEW r \in Readers, Compute(r) PROVE Coherent'
    <3>1. UNCHANGED <<policies, wpc>>
      BY <2>8 DEF Compute, writerVars
    <3>2. QED
      BY <2>0, <2>8, <3>1, ComputeEffect
  <2>9. ASSUME NEW r \in Readers, Finish(r) PROVE Coherent'
    <3>1. UNCHANGED <<policies, wpc>> /\ closures[rc[r]].state = "computed"
      BY <2>9 DEF Finish, writerVars, OneRunner
    <3>2. QED
      BY <2>0, <2>9, <3>1, FinishEffect
  <2>10. CASE UNCHANGED vars
    BY <2>10 DEF vars, Current
  <2>11. QED
    BY <2>1, <2>2, <2>3, <2>4, <2>5, <2>6, <2>7, <2>8, <2>9, <2>10
       DEF Next, WriterStep, ReaderStep
<1>3. QED
  BY <1>1, <1>2, TypeCorrect, RunnerCorrect, PTL DEF Spec

--------------------------------------------------------------------------------
(* The current listing, once computed, holds every published update, and so    *)
(* does the listing of every call that started after them.                     *)
ListingsAreNew ==
    /\ Settled(Current) => closures[Current].asof >= published
    /\ ReadSeesPublished

(* A request is decided by a listing at least as new as every update that was  *)
(* published before it began, in all three stores, although sortPolicies is    *)
(* read without the mutex.                                                     *)
THEOREM ReadsAreRegular == Spec => []ReadSeesPublished
<1>1. Init => ListingsAreNew
  BY DEF Init, ListingsAreNew, ReadSeesPublished, Settled, Current, First
<1>2. TypeOK /\ OneRunner /\ ListingsAreNew /\ [Next]_vars => ListingsAreNew'
  <2> SUFFICES ASSUME TypeOK, OneRunner, ListingsAreNew, [Next]_vars PROVE ListingsAreNew'
    OBVIOUS
  <2> USE DEF ListingsAreNew, ReadSeesPublished, Settled
  <2>0. /\ Current \in Nat /\ Current > 0 /\ gen \in Nat /\ published \in 0 .. gen
        /\ rc \in [Readers -> 0 .. Current] /\ floor \in [Readers -> 0 .. published]
        /\ rpc \in [Readers -> {"idle", "called", "peeked", "loaded", "running", "locked",
                                "computed", "unlocked"}]
        /\ \A r \in Readers : rc[r] = 0 <=> rpc[r] \in {"idle", "called", "peeked"}
    BY DEF TypeOK, Current
  <2>00. \A i \in 1 .. Current : closures[i].asof \in Nat
    <3>1. \A i \in 1 .. Current : closures[i] \in Closures
      BY DEF TypeOK, Current
    <3>2. QED
      BY <3>1 DEF Closures
  <2>1. ASSUME NEW w \in Writers,
               \/ Receive(w) \/ Refuse(w) \/ WriterLocks(w) \/ Mutate(w)
               \/ WriterUnlocks(w) \/ WriterReturns(w)
        PROVE  ListingsAreNew'
    <3>1. UNCHANGED <<closures, published, rc, floor>>
      BY <2>1 DEF Receive, Refuse, WriterLocks, Mutate, WriterUnlocks, WriterReturns, readerVars
    <3>2. QED
      BY <3>1 DEF Current
  <2>2. ASSUME NEW w \in Writers, Reset(w) PROVE ListingsAreNew'
    <3>1. UNCHANGED <<rc, floor>>
      BY <2>2 DEF Reset, readerVars
    <3>2. /\ Current' = Current + 1 /\ closures'[Current'].state = "new"
          /\ \A i \in 1 .. Current : closures'[i] = closures[i]
      BY <2>2, ResetEffect DEF Fresh
    <3>3. QED
      BY <2>0, <3>1, <3>2
  <2>3. ASSUME NEW r \in Readers, Invoke(r) \/ Return(r) PROVE ListingsAreNew'
    <3>1. UNCHANGED <<closures, published, Current>>
      BY <2>3 DEF Invoke, Return, Current
    <3>2. \A q \in Readers : rc'[q] # 0 => rc'[q] = rc[q] /\ floor'[q] = floor[q]
      <4>1. CASE Invoke(r)
        BY <2>0, <4>1 DEF Invoke
      <4>2. CASE Return(r)
        BY <2>0, <4>2 DEF Return
      <4>3. QED
        BY <2>3, <4>1, <4>2
    <3>3. QED
      BY <3>1, <3>2
  <2>4. ASSUME NEW r \in Readers, Load(r) PROVE ListingsAreNew'
    <3>1. /\ rc' = [rc EXCEPT ![r] = Current]
          /\ UNCHANGED <<closures, published, floor, Current>>
      BY <2>4 DEF Load, Current
    <3>2. rc'[r] = Current /\ \A q \in Readers : q # r => rc'[q] = rc[q]
      BY <2>0, <3>1
    <3>3. QED
      BY <2>0, <2>00, <3>1, <3>2
  <2>5. ASSUME NEW r \in Readers, Panic(r) PROVE ListingsAreNew'
    BY <2>5 DEF Panic, First, Current
  <2>6. ASSUME NEW r \in Readers, Enter(r) PROVE ListingsAreNew'
    <3>1. UNCHANGED <<published, rc, floor>>
      BY <2>6 DEF Enter, OneRunner
    <3>2. /\ Current' = Current
          /\ \A i \in 1 .. Current :
               Settled(i)' => Settled(i) /\ closures'[i].asof = closures[i].asof
      BY <2>6, <3>1, EnterEffect
    <3>3. QED
      BY <2>0, <3>1, <3>2
  <2>7. ASSUME NEW r \in Readers, Compute(r) PROVE ListingsAreNew'
    <3>1. UNCHANGED <<published, rc, floor>>
      BY <2>7 DEF Compute
    <3>2. /\ Current' = Current
          /\ \A i \in 1 .. Current : \/ closures'[i] = closures[i]
                                    \/ closures'[i].asof = gen
      BY <2>7, ComputeEffect
    <3>3. \A q \in Readers : floor[q] <= gen /\ published <= gen
      BY <2>0
    <3>4. QED
      BY <2>0, <2>00, <3>1, <3>2, <3>3
  <2>8. ASSUME NEW r \in Readers, Finish(r) PROVE ListingsAreNew'
    <3>1. UNCHANGED <<published, rc, floor>> /\ Settled(rc[r])
      BY <2>8 DEF Finish, OneRunner
    <3>2. /\ Current' = Current
          /\ \A i \in 1 .. Current :
               Settled(i)' => Settled(i) /\ closures'[i].asof = closures[i].asof
      BY <2>8, <3>1, FinishEffect
    <3>3. QED
      BY <2>0, <3>1, <3>2
  <2>9. CASE UNCHANGED vars
    BY <2>9 DEF vars, Current
  <2>10. ASSUME NEW r \in Readers, Peek(r) \/ ReaderLocks(r) \/ ReaderUnlocks(r)
         PROVE  ListingsAreNew'
    <3>1. UNCHANGED <<closures, published, rc, floor>>
      BY <2>10 DEF Peek, ReaderLocks, ReaderUnlocks
    <3>2. QED
      BY <3>1 DEF Current
  <2>11. QED
    BY <2>10, <2>1, <2>2, <2>3, <2>4, <2>5, <2>6, <2>7, <2>8, <2>9 DEF Next, WriterStep, ReaderStep
<1>3. ListingsAreNew => ReadSeesPublished
  BY DEF ListingsAreNew
<1>4. QED
  BY <1>1, <1>2, <1>3, TypeCorrect, RunnerCorrect, PTL DEF Spec

--------------------------------------------------------------------------------
(* sortPolicies is nil only before the first reset, when it is the only value  *)
(* there has been; the map has changed by then only if that reset is next.     *)
NilClosure ==
    closures[Current].state = "nil" =>
        /\ variant = "sender" /\ Current = 1
        /\ policies # Empty \/ (\E r \in Readers : rpc[r] = "peeked") =>
              \E w \in Writers : wpc[w] = "mutated"

LEMMA NilCorrect == Spec => []NilClosure
<1>1. Init => NilClosure
  BY DEF Init, NilClosure, First, Current
<1>2. TypeOK /\ OneRunner /\ NilClosure /\ [Next]_vars => NilClosure'
  <2> SUFFICES ASSUME TypeOK, OneRunner, NilClosure, [Next]_vars PROVE NilClosure'
    OBVIOUS
  <2> USE DEF NilClosure
  <2>0. /\ Current \in Nat /\ Current > 0
        /\ wpc \in [Writers -> {"idle", "received", "locked", "mutated", "reset",
                               "unlocked", "returning"}]
        /\ rpc \in [Readers -> {"idle", "called", "peeked", "loaded", "running", "locked",
                                "computed", "unlocked"}]
    BY DEF TypeOK, Current
  <2>1. ASSUME NEW w \in Writers,
               Receive(w) \/ Refuse(w) \/ WriterLocks(w) \/ WriterUnlocks(w) \/ WriterReturns(w)
        PROVE  NilClosure'
    <3>1. UNCHANGED <<variant, closures, policies, rpc>>
      BY <2>1 DEF Receive, Refuse, WriterLocks, WriterUnlocks, WriterReturns, readerVars
    <3>2. variant = "sender" =>
            \A v \in Writers : wpc[v] = "mutated" => wpc'[v] = "mutated"
      <4>1. CASE Receive(w)
        BY <2>0, <4>1 DEF Receive
      <4>2. CASE Refuse(w) \/ WriterLocks(w)
        BY <2>0, <4>2 DEF Refuse, WriterLocks
      <4>3. CASE WriterUnlocks(w) \/ WriterReturns(w)
        BY <2>0, <4>3 DEF WriterUnlocks, WriterReturns, UnlocksFirst
      <4>4. QED
        BY <2>1, <4>1, <4>2, <4>3
    <3>3. QED
      BY <3>1, <3>2 DEF Current
  <2>2. ASSUME NEW w \in Writers, Mutate(w) PROVE NilClosure'
    <3>1. UNCHANGED <<variant, closures>> /\ wpc'[w] = "mutated"
      BY <2>0, <2>2 DEF Mutate
    <3>2. QED
      BY <3>1 DEF Current
  <2>3. ASSUME NEW w \in Writers, Reset(w) PROVE NilClosure'
    BY <2>3, ResetEffect DEF Fresh
  <2>4. ASSUME NEW r \in Readers, Peek(r) PROVE NilClosure'
    <3>1. UNCHANGED <<variant, closures, policies, wpc>>
      BY <2>4 DEF Peek, writerVars
    <3>2. (\E q \in Readers : rpc'[q] = "peeked") =>
             policies # Empty \/ \E q \in Readers : rpc[q] = "peeked"
      BY <2>0, <2>4 DEF Peek
    <3>3. QED
      BY <3>1, <3>2 DEF Current
  <2>5. ASSUME NEW r \in Readers,
               Invoke(r) \/ Load(r) \/ ReaderLocks(r) \/ ReaderUnlocks(r) \/ Return(r)
        PROVE  NilClosure'
    <3>1. UNCHANGED <<variant, closures, policies, wpc>>
      BY <2>5 DEF Invoke, Load, ReaderLocks, ReaderUnlocks, Return, writerVars
    <3>2. \A q \in Readers : rpc'[q] = "peeked" => rpc[q] = "peeked"
      BY <2>0, <2>5 DEF Invoke, Load, ReaderLocks, ReaderUnlocks, Return
    <3>3. QED
      BY <3>1, <3>2 DEF Current
  <2>6. ASSUME NEW r \in Readers, Panic(r) PROVE NilClosure'
    BY <2>6 DEF Panic, First, Current
  <2>7. ASSUME NEW r \in Readers, Enter(r) \/ Compute(r) \/ Finish(r) PROVE NilClosure'
    <3>1. UNCHANGED <<variant, policies, wpc>>
      BY <2>7 DEF Enter, Compute, Finish, writerVars
    <3>2. /\ Current' = Current
          /\ closures'[Current].state = "nil" => closures[Current].state = "nil"
      <4>1. CASE Enter(r)
        BY <2>0, <4>1, EnterEffect
      <4>2. CASE Compute(r)
        BY <2>0, <4>2, ComputeEffect
      <4>3. CASE Finish(r)
        BY <2>0, <4>3, FinishEffect
      <4>4. QED
        BY <2>7, <4>1, <4>2, <4>3
    <3>3. \A q \in Readers : rpc'[q] = "peeked" => rpc[q] = "peeked"
      BY <2>0, <2>7 DEF Enter, Compute, Finish
    <3>4. QED
      BY <3>1, <3>2, <3>3
  <2>8. CASE UNCHANGED vars
    BY <2>8 DEF vars, Current
  <2>9. QED
    BY <2>1, <2>2, <2>3, <2>4, <2>5, <2>6, <2>7, <2>8 DEF Next, WriterStep, ReaderStep
<1>3. QED
  BY <1>1, <1>2, TypeCorrect, RunnerCorrect, PTL DEF Spec

(* The nil function can be called in one window only, inside the first         *)
(* StorePolicy of the process.                                                 *)
THEOREM NilCallNeedsTheFirstStore == Spec => []NilWindow
<1>1. NilClosure => NilWindow
  BY DEF NilClosure, NilWindow
<1>2. QED
  BY <1>1, NilCorrect, PTL

--------------------------------------------------------------------------------
(* A settled listing is what every later caller of the same closure returns.   *)
THEOREM ListingsAreComputedOnce == Spec => SettledOnce
<1> DEFINE Kept(c) == /\ c <= Current'
                      /\ closures'[c].from = closures[c].from
                      /\ closures'[c].asof = closures[c].asof
<1>1. TypeOK /\ OneRunner /\ NilClosure /\ [Next]_vars =>
        [\A c \in 1 .. Current : Settled(c) => Kept(c)]_vars
  <2> SUFFICES ASSUME TypeOK, OneRunner, NilClosure, Next, NEW c \in 1 .. Current, Settled(c)
               PROVE  Kept(c)
    OBVIOUS
  <2>0. Current \in Nat
    BY DEF TypeOK, Current
  <2>1. CASE UNCHANGED closures
    BY <2>0, <2>1 DEF Current
  <2>2. ASSUME NEW w \in Writers, Reset(w) PROVE Kept(c)
    BY <2>0, <2>2, ResetEffect
  <2>3. ASSUME NEW r \in Readers, Panic(r) PROVE Kept(c)
    BY <2>3 DEF Panic, NilClosure, Settled
  <2>4. ASSUME NEW r \in Readers, Enter(r) PROVE Kept(c)
    BY <2>0, <2>4, EnterEffect
  <2>5. ASSUME NEW r \in Readers, Compute(r) PROVE Kept(c)
    <3>1. c # rc[r]
      BY <2>5 DEF Compute, OneRunner, Settled
    <3>2. QED
      BY <2>0, <2>5, <3>1, ComputeEffect
  <2>6. ASSUME NEW r \in Readers, Finish(r) PROVE Kept(c)
    BY <2>0, <2>6, FinishEffect
  <2>7. QED
    <3>1. ASSUME NEW w \in Writers,
                 \/ Receive(w) \/ Refuse(w) \/ WriterLocks(w) \/ Mutate(w)
                 \/ WriterUnlocks(w) \/ WriterReturns(w)
          PROVE  UNCHANGED closures
      BY <3>1 DEF Receive, Refuse, WriterLocks, Mutate, WriterUnlocks, WriterReturns
    <3>2. ASSUME NEW r \in Readers,
                 \/ Invoke(r) \/ Peek(r) \/ Load(r) \/ ReaderLocks(r)
                 \/ ReaderUnlocks(r) \/ Return(r)
          PROVE  UNCHANGED closures
      BY <3>2 DEF Invoke, Peek, Load, ReaderLocks, ReaderUnlocks, Return
    <3>3. QED
      BY <2>1, <2>2, <2>3, <2>4, <2>5, <2>6, <3>1, <3>2 DEF Next, WriterStep, ReaderStep
<1>2. QED
  BY <1>1, TypeCorrect, RunnerCorrect, NilCorrect, PTL DEF Spec, SettledOnce
--------------------------------------------------------------------------------
(* A reconciler has one update at a time, which holds the mutex until          *)
(* sortPolicies is replaced; until then a listing that was computed lacks that *)
(* update and nothing else.                                                    *)
OneUpdate ==
    variant = "reconciler" =>
        /\ \A w, v \in Writers : wpc[w] # "idle" /\ wpc[v] # "idle" => w = v
        /\ \A w \in Writers :
             /\ wpc[w] # "unlocked"
             /\ wpc[w] \notin {"idle", "received"} => wreq[w].version \notin Refused
             /\ wpc[w] = "mutated" /\ Settled(Current) =>
                  policies = With(closures[Current].from, wreq[w])

(* Everything the refinement needs of a state.                                 *)
StoreInv ==
    TypeOK /\ MuIsHeld /\ OneRunner /\ Coherent /\ NilClosure /\ OneUpdate

LEMMA OneUpdateStep ==
  StoreInv /\ [Next]_vars => OneUpdate'
<1> SUFFICES ASSUME StoreInv, [Next]_vars, variant = "reconciler"
             PROVE  OneUpdate'
  <2>1. [Next]_vars => variant' = variant
    BY DEF Next, WriterStep, ReaderStep, vars, Receive, Refuse, WriterLocks, Mutate, Reset,
           WriterUnlocks, WriterReturns, Invoke, Peek, Load, Panic, Enter, ReaderLocks, Compute,
           ReaderUnlocks, Finish, Return
  <2>2. QED
    BY <2>1 DEF OneUpdate
<1> USE DEF OneUpdate
<1>0. /\ wpc \in [Writers -> {"idle", "received", "locked", "mutated", "reset",
                             "unlocked", "returning"}]
      /\ wreq \in [Writers -> Requests \cup {None}]
      /\ Current \in Nat /\ Current > 0
      /\ OneUpdate
  BY DEF StoreInv, TypeOK, Current
<1>1. ASSUME NEW w \in Writers, Receive(w)
      PROVE  OneUpdate'
  BY <1>0, <1>1 DEF Receive, Settled, Current
<1>2. ASSUME NEW w \in Writers, Refuse(w) \/ WriterReturns(w) \/ WriterUnlocks(w) \/ WriterLocks(w)
      PROVE  OneUpdate'
  <2>1. /\ UNCHANGED <<closures, policies>>
        /\ \A v \in Writers : v # w => wpc'[v] = wpc[v] /\ wreq'[v] = wreq[v]
    BY <1>0, <1>2 DEF Refuse, WriterReturns, WriterUnlocks, WriterLocks
  <2>2. /\ wpc[w] # "idle"
        /\ wpc'[w] \in {"idle", "locked", "returning"}
        /\ wpc'[w] # "idle" => wreq'[w] = wreq[w] /\ wreq[w].version \notin Refused
    BY <1>0, <1>2 DEF Refuse, WriterReturns, WriterUnlocks, WriterLocks, UnlocksFirst
  <2>3. QED
    BY <1>0, <2>1, <2>2 DEF Settled, Current
<1>3. ASSUME NEW w \in Writers, Mutate(w)
      PROVE  OneUpdate'
  <2>1. Settled(Current) => closures[Current].from = policies
    BY <1>0, <1>3 DEF Mutate, StoreInv, Coherent
  <2>2. /\ UNCHANGED <<closures, wreq>> /\ policies' = With(policies, wreq[w])
        /\ wpc[w] = "locked" /\ wpc' = [wpc EXCEPT ![w] = "mutated"]
    BY <1>3 DEF Mutate
  <2>3. QED
    BY <1>0, <2>1, <2>2 DEF Settled, Current
<1>4. ASSUME NEW w \in Writers, Reset(w)
      PROVE  OneUpdate'
  <2>1. ~Settled(Current)'
    BY <1>4, ResetEffect DEF Settled, Fresh, StoreInv
  <2>2. wpc[w] = "mutated" /\ wpc' = [wpc EXCEPT ![w] = "reset"] /\ UNCHANGED wreq
    BY <1>0, <1>4 DEF Reset
  <2>3. QED
    BY <1>0, <2>1, <2>2
<1>5. ASSUME NEW r \in Readers,
             Invoke(r) \/ Peek(r) \/ Load(r) \/ ReaderLocks(r) \/ ReaderUnlocks(r) \/ Return(r)
      PROVE  OneUpdate'
  <2>1. UNCHANGED <<closures, policies, wpc, wreq>>
    BY <1>5 DEF Invoke, Peek, Load, ReaderLocks, ReaderUnlocks, Return, writerVars
  <2>2. QED
    BY <1>0, <2>1 DEF Settled, Current
<1>6. ASSUME NEW r \in Readers, Panic(r)
      PROVE  OneUpdate'
  BY <1>6 DEF Panic
<1>7. ASSUME NEW r \in Readers, Enter(r) \/ Finish(r)
      PROVE  OneUpdate'
  <2>1. UNCHANGED <<policies, wpc, wreq>>
    BY <1>7 DEF Enter, Finish, writerVars
  <2>2. /\ Current' = Current /\ closures'[Current].from = closures[Current].from
        /\ Settled(Current)' => Settled(Current)
    BY <1>0, <1>7, EnterEffect, FinishEffect DEF StoreInv, OneRunner, Settled, Finish
  <2>3. QED
    BY <1>0, <2>1, <2>2
<1>8. ASSUME NEW r \in Readers, Compute(r)
      PROVE  OneUpdate'
  <2>1. UNCHANGED <<policies, wpc, wreq>>
    BY <1>8 DEF Compute, writerVars
  <2>2. \A w \in Writers : wpc[w] # "mutated"
    BY <1>8, ProcessesDiffer DEF Compute, StoreInv, MuIsHeld, ReaderHolds, WriterHolds
  <2>3. QED
    BY <1>0, <2>1, <2>2
<1>9. CASE UNCHANGED vars
  BY <1>0, <1>9 DEF vars, Settled, Current
<1>10. QED
  BY <1>1, <1>2, <1>3, <1>4, <1>5, <1>6, <1>7, <1>8, <1>9 DEF Next, WriterStep, ReaderStep

LEMMA StoreCorrect == Spec => []StoreInv
<1>1. Init => OneUpdate
  BY DEF Init, OneUpdate
<1>2. Spec => [](TypeOK /\ MuIsHeld /\ OneRunner /\ Coherent /\ NilClosure)
  BY TypeCorrect, MuCorrect, RunnerCorrect, CacheIsCoherent, NilCorrect, PTL
<1>3. TypeOK /\ MuIsHeld /\ OneRunner /\ Coherent /\ NilClosure /\ OneUpdate <=> StoreInv
  BY DEF StoreInv
<1>4. QED
  BY <1>1, <1>2, <1>3, OneUpdateStep, PTL DEF Spec

--------------------------------------------------------------------------------
(* What the refinement mapping shows of a reader's call.                       *)
Answer(r) == IF Answered(r) THEN MapToSortedSlice(closures[rc[r]].from) ELSE None

(* The listing of a map is the same in both specifications.                    *)
LEMMA SameListing == \A m : Store!MapToSortedSlice(m) = MapToSortedSlice(m)
<1> TAKE m
<1> QED
  BY Zenon DEF Store!MapToSortedSlice, MapToSortedSlice, Store!Cardinality, Cardinality

(* The steps of the abstract store, stated of each writer and reader.          *)
LEMMA Stutters ==
  ASSUME Visible' = Visible, UNCHANGED wreq,
         \A w \in Writers : WriteState(w)' = WriteState(w),
         \A r \in Readers : ReadState(r)' = ReadState(r) /\ Answer(r)' = Answer(r)
  PROVE  UNCHANGED Store!vars
  BY DEF Store!vars, Answer

LEMMA Begins ==
  ASSUME NEW w \in Writers, WriteState(w) = "idle", WriteState(w)' = "pending",
         \E q \in Requests : wreq' = [wreq EXCEPT ![w] = q],
         Visible' = Visible,
         \A v \in Writers \ {w} : WriteState(v)' = WriteState(v),
         \A r \in Readers : ReadState(r)' = ReadState(r) /\ Answer(r)' = Answer(r)
  PROVE  Store!Next
<1>1. Store!Begin(w)
  BY DEF Store!Begin, Store!Requests, Requests, Answer
<1>2. QED
  BY <1>1 DEF Store!Next

LEMMA Applies ==
  ASSUME NEW w \in Writers, WriteState(w) = "pending", WriteState(w)' = "applied",
         wreq[w].version \notin Refused, UNCHANGED wreq,
         Visible' = With(Visible, wreq[w]),
         \A v \in Writers \ {w} : WriteState(v)' = WriteState(v),
         \A r \in Readers : ReadState(r)' = ReadState(r) /\ Answer(r)' = Answer(r)
  PROVE  Store!Next
<1>1. Store!Apply(w)
  BY DEF Store!Apply, Store!With, With, Answer
<1>2. QED
  BY <1>1 DEF Store!Next

LEMMA Ends ==
  ASSUME NEW w \in Writers, WriteState(w)' = "idle",
         \/ WriteState(w) = "applied"
         \/ WriteState(w) = "pending" /\ wreq[w].version \in Refused,
         wreq' = [wreq EXCEPT ![w] = None], Visible' = Visible,
         \A v \in Writers \ {w} : WriteState(v)' = WriteState(v),
         \A r \in Readers : ReadState(r)' = ReadState(r) /\ Answer(r)' = Answer(r)
  PROVE  Store!Next
<1>1. Store!End(w)
  BY DEF Store!End, Answer
<1>2. QED
  BY <1>1 DEF Store!Next

LEMMA Calls ==
  ASSUME NEW r \in Readers, ReadState(r) = "idle", ReadState(r)' = "invoked",
         Answer(r)' = Answer(r), Visible' = Visible, UNCHANGED wreq,
         \A w \in Writers : WriteState(w)' = WriteState(w),
         \A q \in Readers \ {r} : ReadState(q)' = ReadState(q) /\ Answer(q)' = Answer(q)
  PROVE  Store!Next
<1>1. Store!Invoke(r)
  BY DEF Store!Invoke, Answer
<1>2. QED
  BY <1>1 DEF Store!Next

LEMMA Takes ==
  ASSUME NEW R \in SUBSET Readers, R # {},
         \A r \in R : /\ ReadState(r) = "invoked" /\ ReadState(r)' = "taken"
                      /\ Answer(r)' = MapToSortedSlice(Visible),
         Visible' = Visible, UNCHANGED wreq,
         \A w \in Writers : WriteState(w)' = WriteState(w),
         \A q \in Readers \ R : ReadState(q)' = ReadState(q) /\ Answer(q)' = Answer(q)
  PROVE  Store!Next
<1>1. Store!Take(R)
  BY SameListing DEF Store!Take, Answer
<1>2. QED
  BY <1>1 DEF Store!Next

LEMMA Returns ==
  ASSUME NEW r \in Readers, ReadState(r) = "taken", ReadState(r)' = "idle",
         Answer(r)' = None, Visible' = Visible, UNCHANGED wreq,
         \A w \in Writers : WriteState(w)' = WriteState(w),
         \A q \in Readers \ {r} : ReadState(q)' = ReadState(q) /\ Answer(q)' = Answer(q)
  PROVE  Store!Next
<1>1. Store!Return(r)
  BY DEF Store!Return, Answer
<1>2. QED
  BY <1>1 DEF Store!Next

(* A step that touches neither map nor listing nor reader, and a step that     *)
(* touches no writer, leave that side of the abstract state as it is.          *)
LEMMA ReadersStay ==
  ASSUME UNCHANGED <<closures, rpc, rc>>
  PROVE  \A r \in Readers : ReadState(r)' = ReadState(r) /\ Answer(r)' = Answer(r)
  BY DEF ReadState, Answer, Answered, Settled

LEMMA WritersStay ==
  ASSUME UNCHANGED wpc, Settled(Current)' = Settled(Current)
  PROVE  \A w \in Writers : WriteState(w)' = WriteState(w)
  BY DEF WriteState

(* Closures that are settled, or not, as before, with what they hold.          *)
LEMMA ClosuresStay ==
  ASSUME StoreInv, Current' \in Nat, Current <= Current',
         \A i \in 1 .. Current : /\ Settled(i)' = Settled(i)
                                 /\ Settled(i) => closures'[i].from = closures[i].from
  PROVE  /\ Current' = Current /\ UNCHANGED policies =>
              Visible' = Visible /\ Settled(Current)' = Settled(Current)
         /\ \A r \in Readers :
              UNCHANGED <<rpc[r], rc[r]>> => ReadState(r)' = ReadState(r) /\ Answer(r)' = Answer(r)
<1>1. Current \in 1 .. Current /\ rc \in [Readers -> 0 .. Current]
  BY DEF StoreInv, TypeOK, Current
<1>2. Current' = Current /\ UNCHANGED policies =>
        Visible' = Visible /\ Settled(Current)' = Settled(Current)
  <2>1. SUFFICES ASSUME Current' = Current, UNCHANGED policies
                 PROVE  Visible' = Visible /\ Settled(Current)' = Settled(Current)
    OBVIOUS
  <2>2. (Settled(Current))' = Settled(Current) /\ closures'[Current'] = closures'[Current]
    BY <1>1, <2>1 DEF Settled
  <2>3. QED
    BY <1>1, <2>1, <2>2 DEF Visible
<1>3. ASSUME NEW r \in Readers, UNCHANGED <<rpc[r], rc[r]>>
      PROVE  ReadState(r)' = ReadState(r) /\ Answer(r)' = Answer(r)
  <2>1. Answered(r)' = Answered(r)
    BY <1>1, <1>3 DEF Answered, Settled
  <2>2. Answered(r) => closures'[rc'[r]].from = closures[rc[r]].from
    BY <1>1, <1>3 DEF Answered
  <2>3. QED
    BY <1>3, <2>1, <2>2 DEF ReadState, Answer
<1>4. QED
  BY <1>2, <1>3

(* The reconciler's updates.                                                   *)
LEMMA WriterRefines ==
  ASSUME StoreInv, variant = "reconciler", NEW w \in Writers, Receive(w) \/ WriterStep(w)
  PROVE  Store!Next \/ UNCHANGED Store!vars
<1>0. /\ wpc \in [Writers -> {"idle", "received", "locked", "mutated", "reset",
                             "unlocked", "returning"}]
      /\ wreq \in [Writers -> Requests \cup {None}]
      /\ Current \in Nat /\ Current > 0
      /\ \A v \in Writers : wpc[v] # "unlocked"
      /\ \A v \in Writers : wpc[w] # "idle" /\ wpc[v] # "idle" => v = w
  BY DEF StoreInv, TypeOK, Current, OneUpdate
<1>1. ASSUME \/ Receive(w) \/ Refuse(w) \/ WriterReturns(w) \/ WriterUnlocks(w)
             \/ WriterLocks(w)
      PROVE  /\ Visible' = Visible /\ Settled(Current)' = Settled(Current)
             /\ \A r \in Readers : ReadState(r)' = ReadState(r) /\ Answer(r)' = Answer(r)
             /\ \A v \in Writers \ {w} : WriteState(v)' = WriteState(v)
  <2>1. UNCHANGED <<closures, policies, rpc, rc>>
    BY <1>1 DEF Receive, Refuse, WriterReturns, WriterUnlocks, WriterLocks, readerVars
  <2>2. \A v \in Writers \ {w} : wpc'[v] = wpc[v]
    BY <1>0, <1>1 DEF Receive, Refuse, WriterReturns, WriterUnlocks, WriterLocks
  <2>3. QED
    BY <2>1, <2>2, ReadersStay DEF Visible, Settled, Current, WriteState
<1>2. CASE Receive(w)
  <2>1. WriteState(w) = "idle" /\ WriteState(w)' = "pending"
    BY <1>0, <1>2 DEF Receive, WriteState
  <2>2. QED
    BY <1>1, <1>2, <2>1, Begins DEF Receive
<1>3. CASE Refuse(w)
  <2>1. WriteState(w) = "pending" /\ WriteState(w)' = "idle"
    BY <1>0, <1>3 DEF Refuse, WriteState
  <2>2. QED
    BY <1>1, <1>3, <2>1, Ends DEF Refuse
<1>4. CASE WriterReturns(w)
  <2>1. WriteState(w) = "applied" /\ WriteState(w)' = "idle"
    BY <1>0, <1>4 DEF WriterReturns, WriteState
  <2>2. QED
    BY <1>1, <1>4, <2>1, Ends DEF WriterReturns
<1>5. CASE WriterUnlocks(w) \/ WriterLocks(w)
  <2>1. WriteState(w)' = WriteState(w) /\ UNCHANGED wreq
    BY <1>0, <1>5 DEF WriterUnlocks, WriterLocks, WriteState, UnlocksFirst
  <2>2. QED
    BY <1>1, <1>5, <2>1, Stutters
<1>6. CASE Mutate(w)
  <2>1. /\ UNCHANGED <<closures, rpc, rc, wreq>> /\ policies' = With(policies, wreq[w])
        /\ wpc[w] = "locked" /\ wpc' = [wpc EXCEPT ![w] = "mutated"]
    BY <1>6 DEF Mutate, readerVars
  <2>2. \A r \in Readers : ReadState(r)' = ReadState(r) /\ Answer(r)' = Answer(r)
    BY <2>1, ReadersStay
  <2>3. /\ Settled(Current)' = Settled(Current)
        /\ \A v \in Writers \ {w} : WriteState(v)' = WriteState(v)
    BY <1>0, <2>1 DEF Settled, Current, WriteState
  <2>4. CASE Settled(Current)
    <3>1. Visible' = Visible /\ WriteState(w)' = WriteState(w)
      BY <1>0, <2>1, <2>3, <2>4 DEF Visible, WriteState, Current
    <3>2. QED
      BY <2>1, <2>2, <2>3, <3>1, Stutters
  <2>5. CASE ~Settled(Current)
    <3>1. /\ Visible' = With(Visible, wreq[w])
          /\ WriteState(w) = "pending" /\ WriteState(w)' = "applied"
      BY <1>0, <2>1, <2>3, <2>5 DEF Visible, WriteState
    <3>2. wreq[w].version \notin Refused
      BY <2>1 DEF StoreInv, OneUpdate
    <3>3. QED
      BY <2>1, <2>2, <2>3, <3>1, <3>2, Applies
  <2>6. QED
    BY <2>4, <2>5
<1>7. CASE Reset(w)
  <2>1. /\ UNCHANGED <<rpc, rc, wreq, policies>>
        /\ wpc[w] = "mutated" /\ wpc' = [wpc EXCEPT ![w] = "reset"]
    BY <1>0, <1>7 DEF Reset, readerVars
  <2>2. /\ Current' = Current + 1 /\ closures'[Current'] = Fresh
        /\ \A i \in 1 .. Current : closures'[i] = closures[i]
    BY <1>7, ResetEffect DEF StoreInv
  <2>3. ~Settled(Current)' /\ Visible' = policies
    BY <2>1, <2>2 DEF Settled, Visible, Fresh
  <2>4. \A r \in Readers : ReadState(r)' = ReadState(r) /\ Answer(r)' = Answer(r)
    BY <1>0, <2>1, <2>2, ClosuresStay DEF Settled
  <2>5. \A v \in Writers \ {w} : WriteState(v)' = WriteState(v)
    BY <1>0, <2>1 DEF WriteState
  <2>6. WriteState(w)' = "applied"
    BY <1>0, <2>1 DEF WriteState
  <2>7. CASE Settled(Current)
    <3>1. Visible' = With(Visible, wreq[w]) /\ wreq[w].version \notin Refused
      BY <2>1, <2>3, <2>7 DEF Visible, StoreInv, OneUpdate
    <3>2. WriteState(w) = "pending"
      BY <2>1, <2>7 DEF WriteState
    <3>3. QED
      BY <2>1, <2>4, <2>5, <2>6, <3>1, <3>2, Applies
  <2>8. CASE ~Settled(Current)
    <3>1. Visible' = Visible /\ WriteState(w) = "applied"
      BY <2>1, <2>3, <2>8 DEF Visible, WriteState
    <3>2. QED
      BY <2>1, <2>4, <2>5, <2>6, <3>1, Stutters
  <2>9. QED
    BY <2>7, <2>8
<1>8. QED
  BY <1>2, <1>3, <1>4, <1>5, <1>6, <1>7 DEF WriterStep

(* The requests.  A listing that one reader computes answers, at the instant   *)
(* it is computed, every reader that waits for the same closure.               *)
LEMMA ReaderRefines ==
  ASSUME StoreInv, variant = "reconciler", NEW r \in Readers, Invoke(r) \/ ReaderStep(r)
  PROVE  Store!Next \/ UNCHANGED Store!vars
<1>0. /\ rpc \in [Readers -> {"idle", "called", "peeked", "loaded", "running", "locked",
                             "computed", "unlocked"}]
      /\ rc \in [Readers -> 0 .. Current]
      /\ Current \in 1 .. Current
      /\ \A q \in Readers : rc[q] = 0 <=> rpc[q] \in {"idle", "called", "peeked"}
  BY DEF StoreInv, TypeOK, Current
<1>1. ASSUME UNCHANGED <<policies, closures, wpc, wreq>>,
             \A q \in Readers \ {r} : rpc'[q] = rpc[q] /\ rc'[q] = rc[q]
      PROVE  /\ Visible' = Visible /\ UNCHANGED wreq
             /\ \A w \in Writers : WriteState(w)' = WriteState(w)
             /\ \A q \in Readers \ {r} : ReadState(q)' = ReadState(q) /\ Answer(q)' = Answer(q)
  BY <1>1 DEF Visible, Settled, Current, WriteState, ReadState, Answer, Answered
<1>2. CASE Invoke(r)
  <2>1. /\ UNCHANGED <<policies, closures, wpc, wreq, rc>> /\ rpc[r] = "idle"
        /\ rpc' = [rpc EXCEPT ![r] = "called"]
    BY <1>2 DEF Invoke, writerVars
  <2>2. ReadState(r) = "idle" /\ ReadState(r)' = "invoked" /\ Answer(r)' = Answer(r)
    BY <1>0, <2>1 DEF ReadState, Answer, Answered
  <2>3. QED
    BY <1>0, <1>1, <2>1, <2>2, Calls
<1>3. CASE Peek(r)
  BY <1>3 DEF Peek
<1>4. CASE Load(r)
  <2>1. /\ UNCHANGED <<policies, closures, wpc, wreq>>
        /\ rpc[r] = "called" /\ rpc' = [rpc EXCEPT ![r] = "loaded"]
        /\ rc[r] = 0 /\ rc' = [rc EXCEPT ![r] = Current]
    BY <1>0, <1>4 DEF Load, AtCall, writerVars
  <2>2. /\ \A q \in Readers \ {r} : rpc'[q] = rpc[q] /\ rc'[q] = rc[q]
        /\ rc'[r] = Current /\ rpc'[r] = "loaded"
    BY <1>0, <2>1
  <2>3. ReadState(r) = "invoked" /\ Answer(r) = None
    BY <2>1 DEF ReadState, Answer, Answered
  <2>4. CASE Settled(Current)
    <3>1. Answered(r)'
      BY <1>0, <2>1, <2>2, <2>4 DEF Answered, Settled
    <3>2. ReadState(r)' = "taken" /\ Answer(r)' = MapToSortedSlice(Visible)
      BY <2>1, <2>2, <2>4, <3>1 DEF ReadState, Answer, Visible
    <3>3. {r} \in SUBSET Readers /\ {r} # {}
          /\ \A q \in {r} : /\ ReadState(q) = "invoked" /\ ReadState(q)' = "taken"
                            /\ Answer(q)' = MapToSortedSlice(Visible)
      BY <2>3, <3>2
    <3>4. QED
      BY <1>1, <2>1, <2>2, <3>3, Takes
  <2>5. CASE ~Settled(Current)
    <3>1. ~Answered(r)'
      BY <1>0, <2>1, <2>2, <2>5 DEF Answered, Settled
    <3>2. ReadState(r)' = "invoked" /\ Answer(r)' = None
      BY <2>2, <3>1 DEF ReadState, Answer
    <3>3. QED
      BY <1>1, <2>1, <2>2, <2>3, <3>2, Stutters
  <2>6. QED
    BY <2>4, <2>5
<1>5. CASE Panic(r)
  BY <1>5 DEF Panic, StoreInv, NilClosure
<1>6. CASE ReaderLocks(r) \/ ReaderUnlocks(r)
  <2>1. /\ UNCHANGED <<policies, closures, wpc, wreq, rc>>
        /\ \A q \in Readers \ {r} : rpc'[q] = rpc[q]
        /\ rpc[r] # "idle" /\ rpc'[r] # "idle"
    BY <1>0, <1>6 DEF ReaderLocks, ReaderUnlocks, writerVars
  <2>2. ReadState(r)' = ReadState(r) /\ Answer(r)' = Answer(r)
    BY <2>1 DEF ReadState, Answer, Answered, Settled
  <2>3. QED
    BY <1>1, <2>1, <2>2, Stutters
<1>7. CASE Enter(r) \/ Finish(r)
  <2>1. /\ UNCHANGED <<policies, wpc, wreq, rc>>
        /\ \A q \in Readers \ {r} : rpc'[q] = rpc[q]
        /\ rpc[r] # "idle" /\ rpc'[r] # "idle"
    BY <1>0, <1>7 DEF Enter, Finish, writerVars
  <2>2. /\ Current' = Current
        /\ \A i \in 1 .. Current : /\ Settled(i)' = Settled(i)
                                   /\ closures'[i].from = closures[i].from
    <3>1. CASE Enter(r)
      <4>1. closures[rc[r]].state = "new"
        BY <3>1 DEF Enter
      <4>2. QED
        BY <3>1, <4>1, EnterEffect DEF StoreInv, Settled
    <3>2. CASE Finish(r)
      <4>1. closures[rc[r]].state = "computed"
        BY <3>2 DEF Finish, StoreInv, OneRunner
      <4>2. QED
        BY <3>2, <4>1, FinishEffect DEF StoreInv, Settled
    <3>3. QED
      BY <1>7, <3>1, <3>2
  <2>3. /\ Visible' = Visible /\ Settled(Current)' = Settled(Current)
        /\ \A q \in Readers \ {r} : ReadState(q)' = ReadState(q) /\ Answer(q)' = Answer(q)
    BY <1>0, <2>1, <2>2, ClosuresStay
  <2>4. Answered(r)' = Answered(r) /\ (Answered(r) => closures'[rc'[r]].from = closures[rc[r]].from)
    BY <1>0, <2>1, <2>2 DEF Answered, Settled
  <2>5. ReadState(r)' = ReadState(r) /\ Answer(r)' = Answer(r)
    BY <2>1, <2>4 DEF ReadState, Answer
  <2>6. QED
    BY <2>1, <2>3, <2>5, Stutters, WritersStay
<1>8. CASE Compute(r)
  <2> DEFINE R == {q \in Readers : rc[q] = rc[r]}
  <2>1. /\ UNCHANGED <<policies, wpc, wreq, rc>>
        /\ rpc[r] = "locked" /\ rpc' = [rpc EXCEPT ![r] = "computed"]
        /\ rc[r] \in 1 .. Current /\ Current' = Current
        /\ closures[rc[r]].state = "running"
        /\ \A i \in 1 .. Current :
             closures'[i] = IF i = rc[r]
                            THEN [state |-> "computed", from |-> policies, asof |-> gen]
                            ELSE closures[i]
    BY <1>8, ComputeEffect DEF Compute, writerVars, StoreInv, OneRunner
  <2>2. \A w \in Writers : wpc[w] \notin {"mutated", "unlocked"}
    BY <1>8, ProcessesDiffer DEF Compute, StoreInv, MuIsHeld, ReaderHolds, WriterHolds, OneUpdate
  <2>3. Visible = policies
    BY <2>2 DEF Visible, StoreInv, Coherent
  <2>4. Visible' = policies
    <3>1. CASE rc[r] = Current
      BY <2>1, <3>1 DEF Visible
    <3>2. CASE rc[r] # Current
      <4>1. closures'[Current'] = closures[Current] /\ Settled(Current)' = Settled(Current)
        BY <1>0, <2>1, <3>2 DEF Settled
      <4>2. QED
        BY <2>1, <2>3, <4>1 DEF Visible
    <3>3. QED
      BY <3>1, <3>2
  <2>5. \A w \in Writers : WriteState(w)' = WriteState(w)
    BY <2>1, <2>2 DEF WriteState
  <2>6. ASSUME NEW q \in R
        PROVE  /\ ReadState(q) = "invoked" /\ ReadState(q)' = "taken"
               /\ Answer(q)' = MapToSortedSlice(Visible)
    <3>1. rpc[q] # "idle" /\ rpc'[q] # "idle" /\ rc[q] = rc[r] /\ rc[q] # 0
      BY <1>0, <2>1
    <3>2. ~Answered(q) /\ Answered(q)' /\ closures'[rc'[q]].from = policies
      BY <1>0, <2>1, <3>1 DEF Answered, Settled
    <3>3. QED
      BY <2>3, <3>1, <3>2 DEF ReadState, Answer
  <2>7. ASSUME NEW q \in Readers \ R
        PROVE  ReadState(q)' = ReadState(q) /\ Answer(q)' = Answer(q)
    <3>1. rpc'[q] = rpc[q] /\ rc'[q] = rc[q] /\ rc[q] # rc[r]
      BY <1>0, <2>1
    <3>2. Answered(q)' = Answered(q) /\ (Answered(q) => closures'[rc'[q]] = closures[rc[q]])
      BY <1>0, <2>1, <3>1 DEF Answered, Settled
    <3>3. QED
      BY <3>1, <3>2 DEF ReadState, Answer
  <2>8. R \in SUBSET Readers /\ R # {}
    OBVIOUS
  <2> HIDE DEF R
  <2>9. QED
    BY <2>1, <2>3, <2>4, <2>5, <2>6, <2>7, <2>8, Takes
<1>9. CASE Return(r)
  <2>1. /\ UNCHANGED <<policies, closures, wpc, wreq>>
        /\ rpc[r] = "loaded" /\ rpc' = [rpc EXCEPT ![r] = "idle"]
        /\ rc[r] # 0 /\ rc' = [rc EXCEPT ![r] = 0]
        /\ closures[rc[r]].state = "done"
    BY <1>0, <1>9 DEF Return, writerVars
  <2>2. ReadState(r) = "taken" /\ ReadState(r)' = "idle" /\ Answer(r)' = None
    BY <1>0, <2>1 DEF ReadState, Answer, Answered, Settled
  <2>3. QED
    BY <1>0, <1>1, <2>1, <2>2, Returns
<1>10. QED
  BY <1>2, <1>3, <1>4, <1>5, <1>6, <1>7, <1>8, <1>9 DEF ReaderStep

(* The standalone reconciler's map, mutex and OnceValue are together one       *)
(* atomic store: for every number of requests and policies, each update and    *)
(* each request takes effect at one instant between its call and its return.   *)
THEOREM ReconcilerStoreIsAtomic == Spec => AtomicStore
<1>1. Init /\ variant = "reconciler" => Store!Init
  <2>1. SUFFICES ASSUME Init, variant = "reconciler" PROVE Store!Init
    OBVIOUS
  <2>2. Visible = Empty
    BY <2>1 DEF Init, Visible, Settled, Current, First
  <2>3. /\ \A w \in Writers : WriteState(w) = "idle"
        /\ \A r \in Readers : ReadState(r) = "idle" /\ Answer(r) = None
    BY <2>1 DEF Init, WriteState, ReadState, Answer, Answered
  <2>4. QED
    BY <2>1, <2>2, <2>3 DEF Store!Init, Store!Empty, Empty, Answer, Init
<1>2. StoreInv /\ [Next]_vars => [variant = "reconciler" => Store!Next]_(Store!vars)
  <2> SUFFICES ASSUME StoreInv, [Next]_vars, variant = "reconciler"
               PROVE  Store!Next \/ UNCHANGED Store!vars
    OBVIOUS
  <2>1. CASE UNCHANGED vars
    <3>1. Visible' = Visible
      BY <2>1 DEF vars, Visible, Settled, Current
    <3>2. \A w \in Writers : WriteState(w)' = WriteState(w)
      BY <2>1 DEF vars, WriteState, Settled, Current
    <3>3. QED
      BY <2>1, <3>1, <3>2, ReadersStay, Stutters DEF vars
  <2>2. QED
    BY <2>1, WriterRefines, ReaderRefines DEF Next
<1>3. QED
  BY <1>1, <1>2, StoreCorrect, PTL DEF Spec, AtomicStore

--------------------------------------------------------------------------------
(* The listing.  MapToSortedSlice chooses the i-th policy by the number of     *)
(* those before it: the lemmas say that there is one, for every finite map.    *)

(* The policies that are in a map, and how many of them come before a name.    *)
Present(m) == {n \in Names : m[n] # Absent}
Rank(m, n) == Cardinality({k \in Present(m) : k < n})

(* A later policy has more before it.                                          *)
LEMMA RankAscends ==
  ASSUME NEW m, IsFiniteSet(Present(m)), NEW a \in Present(m), NEW b \in Present(m), a < b
  PROVE  Rank(m, a) \in Nat /\ Rank(m, b) \in Nat /\ Rank(m, a) < Rank(m, b)
<1> DEFINE A == {k \in Present(m) : k < a}
           B == {k \in Present(m) : k < b}
<1>1. Present(m) \subseteq Int
  BY NamesAreOrdered DEF Present
<1>2. IsFiniteSet(A) /\ IsFiniteSet(B)
  BY FS_Subset
<1>3. A \cup {a} \subseteq B /\ a \notin A
  BY <1>1
<1> HIDE DEF A, B
<1>4. IsFiniteSet(A \cup {a}) /\ Cardinality(A \cup {a}) = Cardinality(A) + 1
  BY <1>2, <1>3, FS_AddElement
<1>5. Cardinality(A \cup {a}) <= Cardinality(B)
  BY <1>2, <1>3, FS_Subset
<1>6. Cardinality(A) \in Nat /\ Cardinality(B) \in Nat
  BY <1>2, FS_CardinalityType
<1>7. QED
  BY <1>4, <1>5, <1>6 DEF Rank, A, B

(* Two policies have different places.                                         *)
LEMMA RankDiffers ==
  ASSUME NEW m, IsFiniteSet(Present(m)), NEW a \in Present(m), NEW b \in Present(m),
         Rank(m, a) = Rank(m, b)
  PROVE  a = b
<1>1. a \in Int /\ b \in Int
  BY NamesAreOrdered DEF Present
<1>2. ~(a < b) /\ ~(b < a)
  BY RankAscends
<1>3. QED
  BY <1>1, <1>2

(* Every place of the listing belongs to one policy.                           *)
LEMMA RankCovers ==
  ASSUME NEW m, IsFiniteSet(Present(m))
  PROVE  /\ Cardinality(Present(m)) \in Nat
         /\ \A n \in Present(m) : Rank(m, n) + 1 \in 1 .. Cardinality(Present(m))
         /\ \A i \in 1 .. Cardinality(Present(m)) : \E n \in Present(m) : Rank(m, n) = i - 1
<1> DEFINE P == Present(m)
           N == Cardinality(P)
           f == [n \in P |-> Rank(m, n) + 1]
<1>1. N \in Nat
  BY FS_CardinalityType
<1>2. ASSUME NEW n \in P
      PROVE  Rank(m, n) \in Nat /\ Rank(m, n) + 1 \in 1 .. N
  <2> DEFINE B == {k \in P : k < n}
  <2>1. IsFiniteSet(B) /\ n \notin B /\ B \cup {n} \subseteq P
    <3>1. n \in Int
      BY NamesAreOrdered DEF Present
    <3>2. QED
      BY <3>1, FS_Subset
  <2> HIDE DEF B
  <2>2. Cardinality(B \cup {n}) = Cardinality(B) + 1 /\ Cardinality(B) \in Nat
    BY <2>1, FS_AddElement, FS_CardinalityType
  <2>3. Cardinality(B \cup {n}) <= N
    BY <2>1, FS_Subset
  <2>4. QED
    BY <1>1, <2>2, <2>3 DEF Rank, B
<1>3. f \in [P -> 1 .. N]
  BY <1>2
<1>4. \A a, b \in P : f[a] = f[b] => a = b
  BY <1>2, RankDiffers
<1>5. IsFiniteSet(1 .. N) /\ Cardinality(1 .. N) = N
  BY <1>1, FS_Interval
<1>6. f \in Surjection(P, 1 .. N)
  <2> HIDE DEF f
  <2>1. f \in Injection(P, 1 .. N)
    BY <1>3, <1>4 DEF Injection, IsInjective
  <2> HIDE DEF P, N
  <2>2. Cardinality(P) = Cardinality(1 .. N)
    BY <1>5 DEF N
  <2>3. QED
    BY ONLY <1>5, <2>1, <2>2, FS_Injection
<1>7. \A i \in 1 .. N : \E n \in P : f[n] = i
  BY <1>6 DEF Surjection
<1>8. \A i \in 1 .. N : \E n \in P : Rank(m, n) = i - 1
  BY <1>2, <1>7
<1>9. QED
  BY <1>1, <1>2, <1>8

(* s lists m: in ascending order of the names, each policy that is in m once.  *)
Lists(s, m) ==
    /\ \A k \in DOMAIN s : s[k].name \in Present(m) /\ s[k].policy = m[s[k].name]
    /\ \A k, l \in DOMAIN s : k < l => s[k].name < s[l].name
    /\ \A n \in Present(m) : \E k \in DOMAIN s : s[k].name = n

(* What sort.Keys and the loop after it make of a map.                         *)
LEMMA SliceLists ==
  ASSUME NEW m, IsFiniteSet(Present(m))
  PROVE  Lists(MapToSortedSlice(m), m)
<1> DEFINE P == Present(m)
           N == Cardinality(P)
           Nth(i) == CHOOSE n \in P : Rank(m, n) = i - 1
           s == [i \in 1 .. N |-> [name |-> Nth(i), policy |-> m[Nth(i)]]]
<1>1. MapToSortedSlice(m) = s
  BY DEF MapToSortedSlice, Present, Rank
<1>2. N \in Nat /\ \A i \in 1 .. N : Nth(i) \in P /\ Rank(m, Nth(i)) = i - 1
  BY RankCovers
<1>3. \A i \in 1 .. N : s[i].name = Nth(i) /\ s[i].policy = m[Nth(i)]
  OBVIOUS
<1>4. DOMAIN s = 1 .. N
  OBVIOUS
<1> HIDE DEF Nth, s
<1>5. \A i, k \in 1 .. N : i < k => Nth(i) < Nth(k)
  <2>1. SUFFICES ASSUME NEW i \in 1 .. N, NEW k \in 1 .. N, i < k PROVE Nth(i) < Nth(k)
    OBVIOUS
  <2>2. Nth(i) \in Int /\ Nth(k) \in Int
    BY <1>2, NamesAreOrdered DEF Present
  <2>3. Rank(m, Nth(i)) < Rank(m, Nth(k))
    BY <1>2, <2>1
  <2>4. Nth(i) # Nth(k)
    BY <1>2, <2>1
  <2>5. ~(Nth(k) < Nth(i))
    <3>1. ASSUME Nth(k) < Nth(i) PROVE FALSE
      <4>1. Rank(m, Nth(k)) < Rank(m, Nth(i)) /\ Rank(m, Nth(k)) \in Nat /\ Rank(m, Nth(i)) \in Nat
        BY <1>2, <3>1, RankAscends
      <4>2. QED
        BY <2>3, <4>1
    <3>2. QED
      BY <3>1
  <2>6. QED
    BY <2>2, <2>4, <2>5
<1>6. \A n \in P : \E i \in 1 .. N : Nth(i) = n
  <2>1. SUFFICES ASSUME NEW n \in P PROVE \E i \in 1 .. N : Nth(i) = n
    OBVIOUS
  <2>2. PICK i \in 1 .. N : i = Rank(m, n) + 1
    BY RankCovers
  <2>3. Rank(m, Nth(i)) = Rank(m, n) /\ Nth(i) \in P
    <3>1. Rank(m, n) \in Nat \/ Rank(m, n) \in Int
      BY FS_Subset, FS_CardinalityType DEF Rank
    <3>2. QED
      BY <1>2, <2>2, <3>1
  <2>4. QED
    BY <2>3, RankDiffers
<1>7. \A k \in DOMAIN s : s[k].name \in Present(m) /\ s[k].policy = m[s[k].name]
  BY <1>2, <1>3, <1>4
<1>8. \A k, l \in DOMAIN s : k < l => s[k].name < s[l].name
  BY <1>3, <1>4, <1>5
<1>9. \A n \in Present(m) : \E k \in DOMAIN s : s[k].name = n
  BY <1>3, <1>4, <1>6
<1>10. Lists(s, m)
  BY <1>7, <1>8, <1>9 DEF Lists
<1>11. QED
  BY <1>1, <1>10

(* Every map there has been holds finitely many policies.                      *)
FiniteMaps ==
    /\ IsFiniteSet(Present(policies))
    /\ \A c \in 1 .. Current : IsFiniteSet(Present(closures[c].from))

LEMMA EmptyIsFinite == IsFiniteSet(Present(Empty))
<1>1. Present(Empty) = {}
  BY DEF Present, Empty
<1>2. QED
  BY <1>1, FS_EmptySet

(* An update adds one policy to the map at most.                               *)
LEMMA WithIsFinite ==
  ASSUME NEW m \in Maps, NEW q \in Requests, IsFiniteSet(Present(m))
  PROVE  IsFiniteSet(Present(With(m, q)))
<1>1. Present(With(m, q)) \subseteq Present(m) \cup {q.name}
  BY DEF Present, With, Maps, Requests
<1>2. IsFiniteSet(Present(m) \cup {q.name})
  BY FS_AddElement
<1>3. QED
  BY <1>1, <1>2, FS_Subset

LEMMA MapsAreFinite == Spec => []FiniteMaps
<1>1. Init => FiniteMaps
  BY EmptyIsFinite DEF Init, FiniteMaps, Current, First
<1>2. TypeOK /\ FiniteMaps /\ [Next]_vars => FiniteMaps'
  <2> SUFFICES ASSUME TypeOK, FiniteMaps, [Next]_vars PROVE FiniteMaps'
    OBVIOUS
  <2>0. Current \in Nat
    BY DEF TypeOK, Current
  <2>1. CASE UNCHANGED <<policies, closures>>
    BY <2>1 DEF FiniteMaps, Current, Present
  <2>2. ASSUME NEW w \in Writers, Mutate(w) PROVE FiniteMaps'
    <3>1. wreq[w] \in Requests /\ policies \in Maps
      BY <2>2 DEF Mutate, TypeOK
    <3>2. policies' = With(policies, wreq[w]) /\ closures' = closures
      BY <2>2 DEF Mutate
    <3>3. IsFiniteSet(Present(policies'))
      BY <3>1, <3>2, WithIsFinite DEF FiniteMaps
    <3>4. QED
      BY <3>2, <3>3 DEF FiniteMaps, Current, Present
  <2>3. ASSUME NEW w \in Writers, Reset(w) PROVE FiniteMaps'
    <3>1. /\ Current' = Current + 1 /\ closures'[Current'] = Fresh
          /\ \A i \in 1 .. Current : closures'[i] = closures[i]
          /\ policies' = policies
      BY <2>3, ResetEffect DEF Reset
    <3>2. IsFiniteSet(Present(Fresh.from))
      BY EmptyIsFinite DEF Fresh
    <3>3. ASSUME NEW c \in 1 .. Current' PROVE IsFiniteSet(Present(closures'[c].from))
      <4>1. CASE c \in 1 .. Current
        BY <3>1, <4>1 DEF FiniteMaps
      <4>2. CASE c = Current'
        BY <3>1, <3>2, <4>2
      <4>3. QED
        BY <2>0, <3>1, <4>1, <4>2
    <3>4. QED
      BY <3>1, <3>3 DEF FiniteMaps, Present
  <2>4. ASSUME NEW r \in Readers, Panic(r) PROVE FiniteMaps'
    <3>1. policies' = Empty /\ closures' = <<First>>
      BY <2>4 DEF Panic
    <3>2. Current' = 1 /\ closures'[1].from = Empty
      BY <3>1 DEF Current, First
    <3>3. \A c \in 1 .. Current' : c = 1
      BY <3>2
    <3>4. IsFiniteSet(Present(policies)')
      BY <3>1, EmptyIsFinite DEF Present
    <3>5. IsFiniteSet(Present(closures[1].from)')
      BY <3>2, EmptyIsFinite DEF Present
    <3>6. QED
      BY <3>3, <3>4, <3>5 DEF FiniteMaps
  <2>5. ASSUME NEW r \in Readers, Enter(r) \/ Finish(r) PROVE FiniteMaps'
    <3>1. policies' = policies
      BY <2>5 DEF Enter, Finish
    <3>2. Current' = Current /\ \A i \in 1 .. Current : closures'[i].from = closures[i].from
      BY <2>5, EnterEffect, FinishEffect
    <3>3. QED
      BY <3>1, <3>2 DEF FiniteMaps, Present
  <2>6. ASSUME NEW r \in Readers, Compute(r) PROVE FiniteMaps'
    <3>1. policies' = policies
      BY <2>6 DEF Compute
    <3>2. /\ Current' = Current
          /\ \A i \in 1 .. Current :
               closures'[i] = IF i = rc[r]
                              THEN [state |-> "computed", from |-> policies, asof |-> gen]
                              ELSE closures[i]
      BY <2>6, ComputeEffect
    <3>3. \A i \in 1 .. Current :
            closures'[i].from = policies \/ closures'[i].from = closures[i].from
      BY <3>2
    <3>4. QED
      BY <3>1, <3>2, <3>3 DEF FiniteMaps, Present
  <2>7. QED
    BY <2>1, <2>2, <2>3, <2>4, <2>5, <2>6
       DEF Next, WriterStep, ReaderStep, vars, Receive, Refuse, WriterLocks, WriterUnlocks,
           WriterReturns, Invoke, Peek, Load, ReaderLocks, ReaderUnlocks, Return
<1>3. QED
  BY <1>1, <1>2, TypeCorrect, PTL DEF Spec

(* A request is answered with the policies of one map, each once, and in the   *)
(* order of their names: the order in which the handler asks them, so that     *)
(* which of two policies decides does not depend on Go's order of the map.     *)
THEOREM AnswersAreSorted ==
  Spec => [](\A r \in Readers : Answered(r) => Lists(Answer(r), closures[rc[r]].from))
<1> DEFINE Sorted == \A r \in Readers : Answered(r) => Lists(Answer(r), closures[rc[r]].from)
<1>1. TypeOK /\ FiniteMaps => Sorted
  <2>1. SUFFICES ASSUME TypeOK, FiniteMaps, NEW r \in Readers, Answered(r)
                 PROVE  Lists(Answer(r), closures[rc[r]].from)
    OBVIOUS
  <2>2. rc[r] \in 1 .. Current
    BY <2>1 DEF TypeOK, Answered, Current
  <2>3. IsFiniteSet(Present(closures[rc[r]].from))
    BY <2>1, <2>2 DEF FiniteMaps
  <2>4. QED
    BY <2>1, <2>3, SliceLists DEF Answer
<1>2. QED
  BY <1>1, TypeCorrect, MapsAreFinite, PTL
================================================================================
