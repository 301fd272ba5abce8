------------------------------ MODULE SortedStore ------------------------------
(* The policy store that kyverno-http-authorizer writes three times: a map     *)
(* under a mutex, and sortPolicies, a function variable that every update      *)
(* replaces by a fresh sync.OnceValue, so that the sorted listing is computed  *)
(* by the first reader after an update, under the same mutex, and then kept.   *)
(*                                                                             *)
(*   "reconciler"  standaloneReconciler   pkg/engine/vpol/provider/standalone.go*)
(*   "sender"      PolicySender           pkg/stream/sender/sender.go          *)
(*   "listener"    PolicyListener         pkg/stream/listener/listener.go      *)
(*                                                                             *)
(* The three differ in three places.  Only the listener has several updates at *)
(* once, and its delete releases the mutex before it replaces sortPolicies.    *)
(* The sender leaves sortPolicies nil until its first update, and its reader   *)
(* looks at len(policies) before it calls.                                     *)
(* sortPolicies itself is read and written without the mutex, one word at a    *)
(* time: a read sees some complete function value.                             *)
EXTENDS PolicyMaps, Sequences

CONSTANTS
    Writers, Readers, None,
    Variants,   \* which of the three stores are looked at
    MaxUpdates  \* bound: the updates that are ever begun

ASSUME ProcessesDiffer == Writers \cap Readers = {} /\ None \notin Writers \cup Readers
ASSUME VariantsAreKnown == Variants \subseteq {"reconciler", "sender", "listener"}

VARIABLES
    variant,    \* which of the three stores this is
    mu,         \* the process that holds the mutex, or None
    policies,   \* the map
    closures,   \* every value sortPolicies has had; the last is the current one
    wpc, wreq,  \* each writer's place in its update, and the update
    rpc, rc,    \* each reader's place in its call, and the closure it called
    floor,      \* history: the newest update published when the call was made
    gen,        \* history: the number of updates the map has taken
    wgen,       \* history: the number of the update each writer made
    published,  \* history: the newest update whose sortPolicies was replaced
    begun       \* the updates begun, for the bound

vars == <<variant, mu, policies, closures, wpc, wreq, rpc, rc, floor, gen, wgen, published, begun>>
writerVars == <<wpc, wreq, wgen>>
readerVars == <<rpc, rc, floor>>

(* A closure remembers the map it was computed from: the slice it returns is   *)
(* MapToSortedSlice of that map.                                               *)
Closures == [state : {"nil", "new", "running", "computed", "done"}, from : Maps, asof : Nat]
Fresh == [state |-> "new", from |-> Empty, asof |-> 0]
First == [state |-> IF variant = "sender" THEN "nil" ELSE "done", from |-> Empty, asof |-> 0]

Current == Len(closures)
Settled(c) == closures[c].state \in {"computed", "done"}

Larger(a, b) == IF a > b THEN a ELSE b

Init ==
    /\ variant \in Variants
    /\ mu = None
    /\ policies = Empty
    /\ closures = <<First>>
    /\ wpc = [w \in Writers |-> "idle"]
    /\ wreq = [w \in Writers |-> None]
    /\ rpc = [r \in Readers |-> "idle"]
    /\ rc = [r \in Readers |-> 0]
    /\ floor = [r \in Readers |-> 0]
    /\ gen = 0
    /\ wgen = [w \in Writers |-> 0]
    /\ published = 0
    /\ begun = 0

--------------------------------------------------------------------------------
(* The writers.                                                                *)

(* The listener's delete runs mu.Unlock before resetSortPolicies.              *)
UnlocksFirst(w) == variant = "listener" /\ wreq[w].version = Absent

(* A reconcile request or a message arrives: a policy to store, or Absent.  A  *)
(* reconciler has one worker; messages are processed side by side.             *)
Receive(w) ==
    /\ wpc[w] = "idle"
    /\ variant = "listener" \/ \A v \in Writers : wpc[v] = "idle"
    /\ begun < MaxUpdates
    /\ begun' = begun + 1
    /\ \E q \in Requests : wreq' = [wreq EXCEPT ![w] = q]
    /\ wpc' = [wpc EXCEPT ![w] = "received"]
    /\ UNCHANGED <<mu, policies, closures, readerVars, gen, wgen, published, variant>>

(* A policy that does not compile leaves the store as it was.  The sender      *)
(* stores what it is given and compiles nothing.                               *)
Refuse(w) ==
    /\ variant # "sender"
    /\ wpc[w] = "received"
    /\ wreq[w].version \in Refused
    /\ wpc' = [wpc EXCEPT ![w] = "idle"]
    /\ wreq' = [wreq EXCEPT ![w] = None]
    /\ UNCHANGED <<mu, policies, closures, readerVars, gen, wgen, published, begun, variant>>

WriterLocks(w) ==
    /\ wpc[w] = "received"
    /\ variant = "sender" \/ wreq[w].version \notin Refused
    /\ mu = None
    /\ mu' = w
    /\ wpc' = [wpc EXCEPT ![w] = "locked"]
    /\ UNCHANGED <<policies, closures, wreq, readerVars, gen, wgen, published, begun, variant>>

(* Mutant: the message itself is put in the map, not the policy it carries.    *)
MutateStoresMessage(w) ==
    /\ wpc[w] = "locked"
    /\ policies' = [policies EXCEPT ![wreq[w].name] = wreq[w]]
    /\ gen' = gen + 1
    /\ wgen' = [wgen EXCEPT ![w] = gen + 1]
    /\ wpc' = [wpc EXCEPT ![w] = "mutated"]
    /\ UNCHANGED <<mu, closures, wreq, readerVars, published, begun, variant>>

Mutate(w) ==
    /\ wpc[w] = "locked"
    /\ policies' = With(policies, wreq[w])
    /\ gen' = gen + 1
    /\ wgen' = [wgen EXCEPT ![w] = gen + 1]
    /\ wpc' = [wpc EXCEPT ![w] = "mutated"]
    /\ UNCHANGED <<mu, closures, wreq, readerVars, published, begun, variant>>

(* Mutant: the delete branch does not call resetSortPolicies.                  *)
ResetOnlyOnStore(w) ==
    /\ \/ wpc[w] = "mutated" /\ ~UnlocksFirst(w) /\ wpc' = [wpc EXCEPT ![w] = "reset"]
       \/ wpc[w] = "unlocked" /\ wpc' = [wpc EXCEPT ![w] = "returning"]
    /\ closures' = IF wreq[w].version = Absent THEN closures ELSE Append(closures, Fresh)
    /\ published' = Larger(published, wgen[w])
    /\ UNCHANGED <<mu, policies, wreq, readerVars, gen, wgen, begun, variant>>

(* Mutant: the once is re-armed in place instead of being replaced.            *)
ResetRearms(w) ==
    /\ \/ wpc[w] = "mutated" /\ ~UnlocksFirst(w) /\ wpc' = [wpc EXCEPT ![w] = "reset"]
       \/ wpc[w] = "unlocked" /\ wpc' = [wpc EXCEPT ![w] = "returning"]
    /\ closures' = [closures EXCEPT ![Current] = Fresh]
    /\ published' = Larger(published, wgen[w])
    /\ UNCHANGED <<mu, policies, wreq, readerVars, gen, wgen, begun, variant>>

(* resetSortPolicies: a fresh OnceValue becomes the current one.               *)
Reset(w) ==
    /\ \/ wpc[w] = "mutated" /\ ~UnlocksFirst(w) /\ wpc' = [wpc EXCEPT ![w] = "reset"]
       \/ wpc[w] = "unlocked" /\ wpc' = [wpc EXCEPT ![w] = "returning"]
    /\ closures' = Append(closures, Fresh)
    /\ published' = Larger(published, wgen[w])
    /\ UNCHANGED <<mu, policies, wreq, readerVars, gen, wgen, begun, variant>>

WriterUnlocks(w) ==
    /\ \/ wpc[w] = "reset" /\ wpc' = [wpc EXCEPT ![w] = "returning"]
       \/ wpc[w] = "mutated" /\ UnlocksFirst(w) /\ wpc' = [wpc EXCEPT ![w] = "unlocked"]
    /\ mu' = None
    /\ UNCHANGED <<policies, closures, wreq, readerVars, gen, wgen, published, begun, variant>>

WriterReturns(w) ==
    /\ wpc[w] = "returning"
    /\ wpc' = [wpc EXCEPT ![w] = "idle"]
    /\ wreq' = [wreq EXCEPT ![w] = None]
    /\ UNCHANGED <<mu, policies, closures, readerVars, gen, wgen, published, begun, variant>>

--------------------------------------------------------------------------------
(* The readers.                                                                *)

(* CompiledPolicies is called, or a stream request reaches the sender.         *)
Invoke(r) ==
    /\ rpc[r] = "idle"
    /\ rpc' = [rpc EXCEPT ![r] = "called"]
    /\ floor' = [floor EXCEPT ![r] = published]
    /\ UNCHANGED <<mu, policies, closures, writerVars, rc, gen, published, begun, variant>>

(* Mutant: the replay calls sortPolicies without looking at len(policies).     *)
PeekMissing(r) ==
    /\ variant = "sender"
    /\ rpc[r] = "called"
    /\ rpc' = [rpc EXCEPT ![r] = "peeked"]
    /\ UNCHANGED <<mu, policies, closures, writerVars, rc, floor, gen, published, begun, variant>>

(* The sender's len(s.policies) > 0, read without the mutex.                   *)
Peek(r) ==
    /\ variant = "sender"
    /\ rpc[r] = "called"
    /\ rpc' = [rpc EXCEPT ![r] = IF policies = Empty THEN "idle" ELSE "peeked"]
    /\ UNCHANGED <<mu, policies, closures, writerVars, rc, floor, gen, published, begun, variant>>

AtCall(r) == rpc[r] = IF variant = "sender" THEN "peeked" ELSE "called"

(* Mutant: the mutex is taken around the call of sortPolicies.                 *)
LoadLocks(r) ==
    /\ AtCall(r)
    /\ closures[Current].state # "nil"
    /\ mu = None
    /\ mu' = r
    /\ rc' = [rc EXCEPT ![r] = Current]
    /\ rpc' = [rpc EXCEPT ![r] = "loaded"]
    /\ UNCHANGED <<policies, closures, writerVars, floor, gen, published, begun, variant>>

Load(r) ==
    /\ AtCall(r)
    /\ closures[Current].state # "nil"
    /\ rc' = [rc EXCEPT ![r] = Current]
    /\ rpc' = [rpc EXCEPT ![r] = "loaded"]
    /\ UNCHANGED <<mu, policies, closures, writerVars, floor, gen, published, begun, variant>>

(* The sender calls a nil function: the process dies and starts again empty.   *)
Panic(r) ==
    /\ AtCall(r)
    /\ closures[Current].state = "nil"
    /\ mu' = None
    /\ policies' = Empty
    /\ closures' = <<First>>
    /\ wpc' = [w \in Writers |-> "idle"]
    /\ wreq' = [w \in Writers |-> None]
    /\ rpc' = [q \in Readers |-> "idle"]
    /\ rc' = [q \in Readers |-> 0]
    /\ floor' = [q \in Readers |-> 0]
    /\ gen' = 0
    /\ wgen' = [w \in Writers |-> 0]
    /\ published' = 0
    /\ UNCHANGED <<begun, variant>>

(* once.Do: the first caller runs the function, the others wait for it.        *)
Enter(r) ==
    /\ rpc[r] = "loaded"
    /\ closures[rc[r]].state = "new"
    /\ closures' = [closures EXCEPT ![rc[r]].state = "running"]
    /\ rpc' = [rpc EXCEPT ![r] = "running"]
    /\ UNCHANGED <<mu, policies, writerVars, rc, floor, gen, published, begun, variant>>

(* Mutant: the function ranges over the map without taking the mutex.          *)
ReaderLocksNothing(r) ==
    /\ rpc[r] = "running"
    /\ rpc' = [rpc EXCEPT ![r] = "locked"]
    /\ UNCHANGED <<mu, policies, closures, writerVars, rc, floor, gen, published, begun, variant>>

ReaderLocks(r) ==
    /\ rpc[r] = "running"
    /\ mu = None
    /\ mu' = r
    /\ rpc' = [rpc EXCEPT ![r] = "locked"]
    /\ UNCHANGED <<policies, closures, writerVars, rc, floor, gen, published, begun, variant>>

Compute(r) ==
    /\ rpc[r] = "locked"
    /\ closures' = [closures EXCEPT ![rc[r]] =
                       [state |-> "computed", from |-> policies, asof |-> gen]]
    /\ rpc' = [rpc EXCEPT ![r] = "computed"]
    /\ UNCHANGED <<mu, policies, writerVars, rc, floor, gen, published, begun, variant>>

ReaderUnlocks(r) ==
    /\ rpc[r] = "computed"
    /\ mu' = None
    /\ rpc' = [rpc EXCEPT ![r] = "unlocked"]
    /\ UNCHANGED <<policies, closures, writerVars, rc, floor, gen, published, begun, variant>>

(* Mutant: the once is not marked done, and its function runs again and again. *)
FinishRunsAgain(r) ==
    /\ rpc[r] = "unlocked"
    /\ closures' = [closures EXCEPT ![rc[r]].state = "new"]
    /\ rpc' = [rpc EXCEPT ![r] = "loaded"]
    /\ UNCHANGED <<mu, policies, writerVars, rc, floor, gen, published, begun, variant>>

Finish(r) ==
    /\ rpc[r] = "unlocked"
    /\ closures' = [closures EXCEPT ![rc[r]].state = "done"]
    /\ rpc' = [rpc EXCEPT ![r] = "loaded"]
    /\ UNCHANGED <<mu, policies, writerVars, rc, floor, gen, published, begun, variant>>

Return(r) ==
    /\ rpc[r] = "loaded"
    /\ closures[rc[r]].state = "done"
    /\ rpc' = [rpc EXCEPT ![r] = "idle"]
    /\ rc' = [rc EXCEPT ![r] = 0]
    /\ UNCHANGED <<mu, policies, closures, writerVars, floor, gen, published, begun, variant>>

--------------------------------------------------------------------------------
WriterStep(w) ==
    \/ Refuse(w) \/ WriterLocks(w) \/ Mutate(w) \/ Reset(w)
    \/ WriterUnlocks(w) \/ WriterReturns(w)

ReaderStep(r) ==
    \/ Peek(r) \/ Load(r) \/ Panic(r) \/ Enter(r) \/ ReaderLocks(r)
    \/ Compute(r) \/ ReaderUnlocks(r) \/ Finish(r) \/ Return(r)

Next ==
    \/ \E w \in Writers : Receive(w) \/ WriterStep(w)
    \/ \E r \in Readers : Invoke(r) \/ ReaderStep(r)

Spec == Init /\ [][Next]_vars

(* A goroutine that can go on does go on; nobody has to call or to update.     *)
FairSpec ==
    /\ Spec
    /\ \A w \in Writers : WF_vars(WriterStep(w))
    /\ \A r \in Readers : WF_vars(ReaderStep(r))

--------------------------------------------------------------------------------
(* Types and ranges, and the history counters in step with one another.        *)
TypeOK ==
    /\ variant \in Variants
    /\ mu \in Writers \cup Readers \cup {None}
    /\ policies \in Maps
    /\ closures \in Seq(Closures) /\ Current > 0
    /\ wpc \in [Writers -> {"idle", "received", "locked", "mutated", "reset",
                            "unlocked", "returning"}]
    /\ wreq \in [Writers -> Requests \cup {None}]
    /\ \A w \in Writers : wpc[w] # "idle" => wreq[w] \in Requests
    /\ rpc \in [Readers -> {"idle", "called", "peeked", "loaded", "running", "locked",
                            "computed", "unlocked"}]
    /\ rc \in [Readers -> 0 .. Current]
    /\ \A r \in Readers : rc[r] = 0 <=> rpc[r] \in {"idle", "called", "peeked"}
    /\ gen \in Nat /\ published \in 0 .. gen
    /\ floor \in [Readers -> 0 .. published]
    /\ wgen \in [Writers -> 0 .. gen]
    /\ begun \in Nat

WriterHolds(w) == wpc[w] \in {"locked", "mutated", "reset"}
ReaderHolds(r) == rpc[r] \in {"locked", "computed"}

(* Go aborts the process when a map is written while another goroutine writes  *)
(* it or ranges over it: every Mutate and every Compute happens with no other  *)
(* process inside the section that the mutex protects.                         *)
NoMapRace ==
    /\ \A w, v \in Writers : WriterHolds(w) /\ WriterHolds(v) => w = v
    /\ \A r, q \in Readers : ReaderHolds(r) /\ ReaderHolds(q) => r = q
    /\ \A w \in Writers, r \in Readers : ~(WriterHolds(w) /\ ReaderHolds(r))

(* A cached listing differs from the map only while the goroutine that changed *)
(* the map has yet to replace sortPolicies: once no update is under way, the   *)
(* next request is decided by exactly the policies in the map.                 *)
Coherent ==
    Settled(Current) /\ closures[Current].from # policies =>
        \E w \in Writers : wpc[w] \in {"mutated", "unlocked"}

(* A request that starts after an update was published (its resetSortPolicies  *)
(* has run) is decided by a listing that holds that update, although the       *)
(* function variable is read without the mutex and another request may be      *)
(* computing an older closure meanwhile.                                       *)
ReadSeesPublished ==
    \A r \in Readers : rc[r] # 0 /\ Settled(rc[r]) => closures[rc[r]].asof >= floor[r]

(* The sender can call its nil sortPolicies only in one window: after its very *)
(* first StorePolicy changed the map and before the same call replaced         *)
(* sortPolicies two lines below.                                               *)
NilWindow ==
    (\E r \in Readers : rpc[r] = "peeked") /\ closures[Current].state = "nil" =>
        \E w \in Writers : wpc[w] = "mutated"

(* The callers that share one OnceValue all return the same listing: what it   *)
(* computed is never computed again, whatever is stored or deleted meanwhile.  *)
SettledOnce ==
    [][\A c \in 1 .. Current : Settled(c) =>
          /\ c <= Current'
          /\ closures'[c].from = closures[c].from
          /\ closures'[c].asof = closures[c].asof]_vars

(* Who waits for whom: for the mutex, for the closure another reader is        *)
(* running, or, which should not happen, for a nil closure to be called.       *)
Runs(r) == rpc[r] \in {"running", "locked", "computed", "unlocked"}
WantsMutex(x) ==
    \/ x \in Readers /\ rpc[x] = "running"
    \/ /\ x \in Writers /\ wpc[x] = "received"
       /\ variant = "sender" \/ wreq[x].version \notin Refused
WantsClosure(x) ==
    x \in Readers /\ rpc[x] = "loaded" /\ closures[rc[x]].state \notin {"new", "done"}

Blocked(x) == (WantsMutex(x) /\ mu # None) \/ WantsClosure(x)
WaitsFor(x, y) ==
    \/ WantsMutex(x) /\ mu = y
    \/ WantsClosure(x) /\ y \in Readers /\ Runs(y) /\ rc[y] = rc[x]
GoesOn(x) ==
    /\ \/ x \in Writers /\ wpc[x] # "idle"
       \/ x \in Readers /\ rpc[x] # "idle"
    /\ ~Blocked(x)

(* The once and the mutex never deadlock ("so there is no double locking",     *)
(* listener.go:145): a call that has to wait waits for one that goes on, or    *)
(* for the reader of its closure, which waits for the mutex only and so for    *)
(* one that goes on.                                                           *)
NoCircularWait ==
    \A x \in Writers \cup Readers : Blocked(x) =>
        \E y \in Writers \cup Readers :
            /\ WaitsFor(x, y)
            /\ GoesOn(y) \/ \E z \in Writers \cup Readers : WaitsFor(y, z) /\ GoesOn(z)

(* Every update and every request finishes: resetSortPolicies, called with the *)
(* mutex held, does not itself take it, and a reader waiting for another one's *)
(* computation, which waits for the mutex, is released.                        *)
EveryCallReturns ==
    /\ \A w \in Writers : wpc[w] # "idle" ~> wpc[w] = "idle"
    /\ \A r \in Readers : rpc[r] # "idle" ~> rpc[r] = "idle"

--------------------------------------------------------------------------------
(* The abstract store.  What readers can see is the listing kept by the        *)
(* current closure, or the map itself while nobody has computed it; an update  *)
(* is applied when this changes, and a read is answered when its closure is.   *)
Visible == IF Settled(Current) THEN closures[Current].from ELSE policies

WriteState(w) ==
    CASE wpc[w] = "idle" -> "idle"
      [] wpc[w] \in {"received", "locked"} -> "pending"
      [] wpc[w] = "mutated" -> IF Settled(Current) THEN "pending" ELSE "applied"
      [] OTHER -> "applied"

Answered(r) == rc[r] # 0 /\ Settled(rc[r])
ReadState(r) ==
    IF rpc[r] = "idle" THEN "idle" ELSE IF Answered(r) THEN "taken" ELSE "invoked"

Store == INSTANCE PolicyStore WITH
    store <- Visible,
    wst   <- [w \in Writers |-> WriteState(w)],
    wreq  <- wreq,
    rst   <- [r \in Readers |-> ReadState(r)],
    rval  <- [r \in Readers |->
                IF Answered(r) THEN MapToSortedSlice(closures[rc[r]].from) ELSE None]

(* The reconciler's store, whose every update replaces sortPolicies before it  *)
(* releases the mutex, and which has one update at a time, is atomic: each     *)
(* update takes effect for all requests at one instant between its call and    *)
(* its return, and so does each request.                                       *)
AtomicStore ==
    /\ variant = "reconciler" => Store!Init
    /\ [][variant = "reconciler" => Store!Next]_(Store!vars)
================================================================================
