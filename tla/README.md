# kyverno-http-authorizer in TLA+

Specifications of [kyverno-http-authorizer](../src), the authorization server that
decides HTTP requests with Kyverno `ValidatingPolicy` resources: TLA+ modules
translated from the Go source, TLC configurations that check them on small
instances, and proofs that the TLAPS proof system checks for every value of the
constants. Paths are relative to `src/`.

## 1. The system

### Deployments

* **Mesh.** One *control plane* (`serve control-plane`) watches the policies of
  the cluster and sends them over a gRPC stream to every *sidecar* (`serve
  sidecar-authz-server`), which decides the requests of its pod.
* **Standalone.** One *authz server* (`serve authz-server`) watches the policies
  itself and decides requests.
* Beside them: a *validation webhook*, which refuses policies that do not
  compile, and a *sidecar injector*, which adds the sidecar to pods.

### Components

| component | source | state | operations | what makes it correct |
|---|---|---|---|---|
| policy stores | `pkg/engine/vpol/provider/standalone.go`, `pkg/stream/sender/sender.go`, `pkg/stream/listener/listener.go`, `pkg/stream/common.go` | a map under a mutex; `sortPolicies`, a `sync.OnceValue` replaced by every update | store, delete, list | no map race; a listing never older than the last published update; all callers of one once agree; no deadlock between the once and the mutex |
| policy distribution | `pkg/engine/vpol/provider/mesh.go`, sender, listener | work queue, `policies`, `cxnsMap`, streams, `connEstablished`, the listener's map | reconcile, `StorePolicy`, `DeletePolicy`, `SendPolicy`, `ValidatingPoliciesStream`, `Start`, `processPolicy` | sidecars end up with the policies of the cluster |
| fan-out | `SendPolicy`, `sendWithBackoff` | wait group, `errCh`, retries | one goroutine per stream | each stream gets the update once; one bad stream does not hold up others |
| client registry | `HealthCheck`, `StartHealthCheckMonitor`, `deleteInactive`; `sendHealthChecks` | `cxnsMap`, `healthCheckMap`, timers | health check, flush | live sidecars are kept, dead ones dropped |
| authorization handler | `pkg/httpauth/handlers.go`, `pkg/engine/vpol/compiler/policy.go` | per request: listing, loop indices, collected errors | read, fetch, convert, evaluate, write | the first policy with a verdict decides; failure policies are obeyed |
| processes | `pkg/commands/serve/*`, `pkg/server`, `pkg/signals` | contexts, wait groups, servers, reconnect loop | start, serve, shut down, redial | drains before it exits, exits when told, stays otherwise |
| policy translation | `apis/v1alpha1/validating_policy.go` | none | `ToProto`, `FromProto` | a policy means the same on both sides |
| policy compiler | `pkg/engine/vpol/compiler/compiler.go`, `pkg/cel/variables.go` | per compilation: the declared variables | `Compile`, `RegisterField` | refuses what cannot be evaluated, and the same everywhere |
| external sources | `pkg/engine/providers`, the composite of `standalone-authz/command.go` | per request: what was listed, loaded and compiled so far; the files are read anew at every call | `CompiledPolicies`, `loadAll` | a request sees whole files, in order, none twice; a bad policy costs itself and no other |
| CEL libraries | `pkg/cel` | none | functions of the language | agree with their documentation |
| injector and admission handler | `pkg/sidecar`, `pkg/webhook/mutation`, `pkg/server/handlers` | none | mutate, answer | one answer per review; the container that it adds runs |
| probe handlers | `pkg/probes` | none | answer | answer 200 |
| generated and embedded | `proto/`, `pkg/data` | none | | not a subject |

### Interactions

The controller-runtime work queue gives the reconciler one name at a time. The
mesh reconciler updates the sender's map and starts `SendPolicy` in a goroutine,
which starts one more for each stream in `cxnsMap`. A sidecar dials, sends one
request on its stream, and then only receives; the handler of the stream
replays the sender's listing, stores the stream in `cxnsMap` and waits in `Recv`.
The listener applies each message in a goroutine of its own. Health checks come
as separate calls. The handler of an HTTP request asks the provider (the
listener, or the reconciler) for its listing. The tasks of a process share a
cancellable context and a wait group.

### What is hard

* *Interleaving*: `cxnsMap` and `healthCheckMap` are read without their lock;
  `sortPolicies` is read without one; the replay and the registration of a stream are
  two steps; the inactive clients are listed before the lock is taken.
* *Ordering*: one goroutine for every message sent and one for every message
  received, so nothing keeps two updates of a policy in order. The files of a source
  change while a request is reading them, one after the other.
* *Failure*: streams that break, health checks that are lost, restarts of either side
  with state kept in memory only, servers that fail, a failure policy for
  evaluations that fail.
* *Waiting*: an unbuffered channel read after its writers were waited for, a
  graceful stop that waits for streams, a once computed under a mutex.

`PROJECT.json` lists every hazard at its line.

## 2. Modules

| module | models |
|---|---|
| `PolicyMaps` | maps from names to versions, updates, `MapToSortedSlice` |
| `PolicyStore` | abstract: a store whose updates and listings take effect at one instant |
| `SortedStore` | the code's store in its three variants; implements `PolicyStore` |
| `SortedStoreProofs` | theorems about it |
| `PolicyStream` | a policy from the cluster to the sidecars |
| `PolicyStreamProofs` | theorems about the control plane's map and about what the sidecars end up with |
| `FanOut` | `SendPolicy`, goroutine by goroutine |
| `FanOutProofs` | theorems about it |
| `ClientRegistry` | who is alive, in discrete time |
| `ClientRegistryProofs` | theorems about it |
| `Authorizer` | one request and the evaluation of its policies |
| `AuthorizerProofs` | theorems about it |
| `Standalone` | one request at the authz server, from its files and the cluster to the answer: `Authorizer` with its provider in place of `Fetch` |
| `StandaloneProofs` | theorems about it |
| `Lifecycle` | the life of a process |
| `LifecycleProofs` | theorems about it |
| `Injection` | a pod on its way through the injector, and its containers' start |
| `Translation` | one policy on its way to a program: webhook, reconcilers, translation, compiler |
| `TranslationProofs` | theorems about it |
| `MCClientRegistry` | which sidecar meets which trouble and has which clock, for TLC |
| `MCStandalone` | a few policies and files for TLC |

`PolicyStream` takes as one step what `SortedStore` (an update under its mutex) and
`FanOut` (the loop over the streams) take apart, and leaves to `ClientRegistry`
when a client is flushed: here any registered client may be, at any time, also one whose stream is open (its checks may have been lost). In
`FanOut` a client's older stream that is overwritten in the map is a `Flush` of it and a `Register` of the new one. `Standalone` extends `Authorizer`: it takes `Fetch` apart, and every other
step of the handler is `Authorizer`'s. Its `Reconcile` is one step because `SortedStore` implements `PolicyStore`. Operators marked *Mutant* in a comment are plausible
mistakes in the definition below them; no specification uses them. `PROJECT.json`
pairs each with the property that notices it.

### How state and actions correspond to the code

**SortedStore.** `policies` is the map, `mu` the mutex's holder. `closures` is the
history of the function variable `sortPolicies`: its last element is the
current value, and a reader keeps the index of the one it loaded, as a goroutine keeps
the function value it is calling. A closure goes from `new` to `running` when the
first caller enters the once, to `computed` under the mutex, and to `done` when the
once is over; other callers wait. A writer goes through `Receive`, `Refuse`
(does not compile), `WriterLocks`, `Mutate`, `Reset`, `WriterUnlocks`,
`WriterReturns`. `variant` says which of the three stores it is; nothing changes it, and one run takes
all three. Three things depend on it: only the listener has several updates at once, the listener's delete unlocks
before it resets (`listener.go:158-159`), and the sender starts with a nil
`sortPolicies` and peeks at `len(policies)` (`sender.go:166`). `Load` reads
the current value of the function variable. The code reads it without the lock (`standalone.go:87`, `listener.go:62`), which is a data race in
Go; the variable is one word, and so the read is taken to see what was last written. `gen`, `wgen`, `published`, `floor` and
`asof` are history variables.

**PolicyStream.** `cluster`, `queue` and `worker` are the informer's cache, the work
queue and its one worker (external). `GetFails`, `Get`, `Store`, `Send` are
`meshReconciler.Reconcile`; `FanOut` is `SendPolicy`, which runs later, in any order with others;
`Replay`, `Register`, `RecvFails` are the handler; `Connect`, `Recv`, `ProcessPolicy` the
listener. `transit` and `received` are bags: neither the goroutines that send nor those
that apply keep an order. `cxnsMap` holds the number of a stream, so a stale one can be
told from the open one. `Disconnect`, `SidecarRestart`, `ControlPlaneCrash` lose what
the code loses. `overlapped` and `missed` are history. The first is set when an edit is
made, or a sidecar dials, while an earlier edit or another registration is under way, and never reset: either breaks convergence (see
`StreamDistributes`), and `QuietConverged` says what holds otherwise. `missed` has the policies whose deletion a sidecar has not been told of, because it was
away at the time, or its stream broke or was flushed.

**FanOut.** `wg`, `due`, `visited` are the wait group and the range loop. Go lets a range
loop meet or miss keys inserted while it runs: `Visit` may take any stream that is registered and
not visited, and `RangeEnds` requires only those that were there from the start
and still are. `Written` lets the runtime notice the unlocked range, or not.

**ClientRegistry.** `now` is the time. `timers` has one deadline for every health check loop a
sidecar's process has started, since loops of earlier connections go on. `Tick`
passes time only when nothing is due. `skew` is the difference of the clocks,
as the time in a health check is the sidecar's. Both maps have the client's
`address` as their key, as in the code. Any two sidecars may have the same one, as pods do that come after each other,
or have given none (the default of `--client-address`): then they share the key `Unaddressed`,
of which `HealthCheck` keeps no record. A check that is answered after its sidecar died rearms no timer (`awaited`): its loop died with the process. `Trouble` and `Skews` say of each sidecar what may befall it.
`died`, `heard` and `lost` are history.

**Authorizer.** The loops over policies (`p`), match conditions (`i`) and
validations (`j`). A CEL evaluation is abstracted to its outcome: a boolean or an error
for conditions; null, an error, or a response for validations, and the response may have
no status, for which `WriteHeader` panics. Variables are evaluated lazily inside
validations, and their errors are those of the validation. `Fetch` is the provider, which answers
with any listing: `Standalone` says which.

**Standalone.** `disk` is the directory of each external source, with what each file holds: documents, which are policies,
`Foreign` ones (another kind, or no resource at all: skipped) or `Odd` ones (a `ValidatingPolicy` that does not convert, for which the
whole load fails). A file that cannot be read or split fails the load too, and so counts as one that holds something `Odd`; so does one that
has vanished since the directory was listed. `source`, `raw` and `out` are the locals of the loops of the composite
and of `loadAll`, `todo` what is left of `fs.ReadDir`'s entries. `ListDir` and `ReadFile` are the two system calls between which the
files may change, `CompileAll` the loop of `CompiledPolicies`, `SourceFails` the error returns, `ListKube` the last provider of the
composite. `Edit` (external) stands for whoever writes the files, and replaces a file in one step, as a
rename does: a file half written holds something that does not load, or something odd, and
`Contents` may say so. `seen` is history.

**Injection.** `Call` is the API server's request, in the shapes that `AdmissionReview` tells apart (a body that cannot be read, another
content type, what is no review, a review without a request, for which the handler panics and the server drops the connection);
`HttpError`, `Deny` and `Patch` its ways out; `Unreachable` a webhook that does not answer; `Admit` what the API server
does next, by the failure policy of the webhook; `Start` the start of a container, at which cobra
refuses flags that the command does not define. A container is abstracted to its name, its command and the
flags it is given.

**Lifecycle.** `command` says which of the five commands the process runs; one run takes them all. `managed` says whether it runs a controller
manager: the webhook always does, the control plane and the authz server unless `--kube-policy-source=false`, the other two never. `pc` holds the
tasks of the command's wait group (`Group`): a server at its select, serving, or
draining; the manager; the monitor; the connection loop. `main` is the command
itself. A task that ends cancels the context for the others, except the
monitor and the connection loop, as in the code. The injector runs its one server in the command itself: a group of
one, with nothing to set up and nobody to cancel.

**Translation.** `site` is where the policy is (`webhook`, `standalone`, `control plane`, `sidecar`), `spec` what it
looks like there, and `policy` what was written. `ValidateVpol`, `ReconcileStandalone`, `ReconcilePanics`,
`ReconcileIgnores` and `ReconcileMesh` are the beginnings of the handlers, the last with `ToProto`, the stream and
`FromProto` in one step. The loops of `Compile` are steps, with the index `k` and the variables
provider's `fields`. An expression is abstracted to the variables it refers to and its type, which is all that
the compiler asks; `uses` of a name that no variable has stands for every other compile error. The standalone
reconciler does not look at the evaluation mode (`standalone.go:73`), and so the model lets it serve every policy that compiles.

## 3. What is checked

Runs that pass:

| run | instance | shows |
|---|---|---|
| `Stores` | the reconciler's store, the sender's and the listener's; 1 name, 2 writers, 2 readers, 2 updates | the reconciler's store implements `PolicyStore` (`AtomicStore`); `NoMapRace`, `Coherent`, `ReadSeesPublished`, also with concurrent updates and the early unlock; `NilWindow`; what a once computed stays (`SettledOnce`); a call that waits waits for one that goes on (`NoCircularWait`); every call returns (`EveryCallReturns`, liveness) |
| `StreamMesh` | 1 name, 2 versions, one that does not compile and one of another mode, 1 sidecar, 2 edits, 2 faults | `SenderInStep`; `QuietConverged`: a sidecar that was away catches up on its return, deletions it was not told of excepted; `ResyncConverges` (liveness) |
| `FanOutSafe` | 3 streams, 1 call, 2 tries | `DeliveredOnce`, `PanicNeedsFirstClient`; `EveryStreamIsTried` (liveness) |
| `Registry` | 2 sidecars, with and without an address; one of them with its clock off by -1..1, deaths, returns, broken streams, lost checks | `LinkedIsRegistered`, `GoneIsFlushed` |
| `Standalone` | 2 external sources of 2 files, 1 policy of the cluster, 2 changes while the request is looking | `AnswerIsFirstVerdict`, of the whole server; `ListingIsRegular`, `RefusedForACause`; `RequestIsBounded`: no change gives a request more to do; `RequestEnds` (liveness) |
| `Lifecycle` | the five commands, 2 requests for each server | `StopsForACause`, `AnsweredBeforeExit`; `ExitsOnceCancelled`, `KeepsDialling` (liveness) |
| `Translation` | 2 variables, 1 match condition, 1 validation, every mode and failure policy | `RefusedIffIllScoped`: scoping as documented, wherever the compiler runs; `AdmittedIsServed`: what the webhook admitted for HTTP neither panics nor is refused later, and is served as compiled, but for an unset failure policy |

One run of every module checks its `TypeOK`.

Runs that find a documented statement violated:

| run | the statement | what the code does |
|---|---|---|
| `StreamDistributes` | the control plane distributes policies to sidecars (`website/docs/quick-start/index.md:32`) | an update between replay and registration is missed by the sidecar that registers |
| `FanOutWaits` | "don't wait on any of them" (`sender.go:79`) | waits for ever with one client or more |
| `AuthorizerDefault` | "the request is denied by default" (`authorization-rules.md:18`) | status 200 |
| `Injection` | the injector "automatically injects authorization sidecars into pods" (`website/docs/quick-start/index.md:33`) | the container runs `authz-server` with flags that only `sidecar-authz-server` has (`sidecar.go:24`), and exits at once |
| `RegistryDead` (2 sidecars that give no address, the bounds of `Registry`) | the monitor's interval is "how often we remove unhealthy clients from the map" (`sender.go:34`), "for how often to remove dead client connections" (`control-plane/command.go:151`) | `HealthCheck` records nothing of a client without an address (`sender.go:130`), and the monitor looks at recorded clients only: it stays for ever. So does one with an address that dies before its first health check |

Two more disagreements with the documentation are within properties that hold, which state exactly what the code does instead:

| property | the statement | what the code does |
|---|---|---|
| `AdmittedIsServed` (`Translation`) | "If not set, the failure policy defaults to `Fail`" (`failure-policy.md:12`) | `ToProto` makes it `Ignore` (`apis/v1alpha1/validating_policy.go:44`) for the sidecars. Without the clause `IgnoredBySidecars` TLC finds the property violated |
| `ListingIsRegular`, `RefusedForACause` (`Standalone`) | parse errors, type-check errors and "invalid or mis-configured policy definitions" are failures, for which `Fail`, the default, denies the request (`failure-policy.md:5` and `20`) | a policy that does not load or compile is left out, whatever its failure policy (`fs.go:62-65`, with a TODO; `standalone.go:70-78`, `listener.go:162-167`): it refuses no request, and the other policies decide |

TLC shows the shortest way to violate `Distributes`. There are three more, which come up in other
behaviours of the same model: a policy deleted while a sidecar is away stays in force there (what `QuietConverged` excepts); two quick edits may
be applied in the wrong order; and the handler of a broken stream may overwrite its successor in `cxnsMap`, after which the
connected sidecar is not registered and gets no updates.

Other behaviour that the properties have to allow for:

* a client that died before the first health check since it registered stays in `cxnsMap`, since the monitor looks for
  inactive clients in `healthCheckMap` alone (`heard` in `GoneIsFlushed`; `RegistryDead` is about the same line of code);
* a sidecar that returns from a restart just when the monitor has listed it is deleted, although its new
  health check is on record (`died` in `LinkedIsRegistered`);
* the control plane does not stop on a signal while a sidecar is connected: `GracefulStop` waits for streams whose
  handlers wait in `Recv` (`inflight["grpc"]` in `ExitsOnceCancelled`);
* a policy without an evaluation configuration, which the webhook lets pass unread, makes the mesh reconciler
  panic on a nil pointer (`mesh.go:41`); controller-runtime recovers and tries it again (`ReconcilePanics` in `Translation`);
* the sidecar panics at its start where the kubeconfig that `sidecar-server/command.go:62` names does not exist
  (`Panic` in `Lifecycle`);
* a sidecar that starts with the address of a dead one may be flushed for the dead one's silence, before its own first health
  check is on record (`HasOwnAddress` in `LinkedIsRegistered`);
* sidecars that give no address share one key of `cxnsMap`, so that the last one to register replaces the others and is
  the only one that gets updates; none of them is ever flushed (`RegistryDead`). The injected container
  gives none (`sidecar.go:23-30`);
* one file that cannot be read or split, or holds a policy that cannot be converted, makes the authz server refuse every
  request (500), while a policy that does not compile is only left out (`SourceFails`, `CompileAll` in `Standalone`; see the table above);
* when several policies have a verdict the first one by source and name decides (`AnswerIsFirstVerdict`); the documentation promises no more
  than one of them, "a random policy from the matches" (`authorization-rules.md:22`);
* of two requests at a sidecar, one after the other, the later may be decided by an older listing: the delete of the listener
  changes the map first, and a request that computes an earlier closure in the gap before `resetSortPolicies` (`listener.go:158-159`)
  already lacks the policy, when the current closure, computed earlier, still has it. `ReadSeesPublished` does not exclude this, as the deletion is not published yet;
  `AtomicStore` would, and so it is stated of the reconciler only;
* the control plane loads its external policies and then discards them (`sender.go:45`): sidecars never get them.

### Bounds, and why they are enough

* `MaxUpdates`, `MaxEdits`: 2. An update that is overtaken by another. `Stores` has one name, which both updates contend for; that updates of different policies
  do not disturb each other is in the theorems, for any number of names (a listing is `MapToSortedSlice` of one map, and sorted: `AnswersAreSorted`).
* Two readers share a once or hold two different ones; two writers are what concurrent
  `processPolicy` calls need. The reconciler and the sender serve one update at a time, as
  the controller runs one worker (`Receive`).
* One sidecar in the runs of `PolicyStream`: the sender treats every stream alike, sidecars share
  nothing but the sender's map, and several streams at once are the subject of `FanOut`. `QuietSidecarsAgree` is for any number of both.
* `MaxFaults` 2: a fault, and one during the recovery.
* Three streams in `FanOut`: one counted, one that comes late and one that goes. Calls share nothing but
  `cxnsMap` and the streams, which `Register`, `Flush` and `Break` change at any time. `MaxTries`
  stands for the backoff's fifteen minutes.
* `Horizon`: the time at which `ClientRegistry` stops, longer than
  `MaxInactive + FlushInterval` and the skew after the events of interest. The durations
  meet the hypothesis of `LinkedStayRegistered` with equality: with `MaxInactive` one less,
  TLC finds `LinkedIsRegistered` violated, so that the hypothesis is not stronger than it has to be. `MaxStreams`
  bounds reconnects. One sidecar meets every trouble; the other starts, so that the keys are shared or
  disputed, and stays. Two that fail would show the same trouble twice.
* `Standalone`: two sources and two files are what an order needs, two changes let a file change before and after its turn, and
  two files' contents have every kind of document between them. The five policies that compile let a policy be silent in each of its ways
  (a false condition, an ignored error, only nulls) or decide (a response, an error that fails). What `Authorizer` computes
  from arbitrary listings is the theorem `AnswersAreVerdicts`. `KubePolicySource` is on: without it the listing ends earlier. `MaxPolicies` is more than two sources can hold.
* Two conditions and two validations let an error stand before and after
  every other outcome. The theorem is for any number.
* Two variables refer to an earlier one, a later one or themselves; conditions and validations
  do not see each other, so one of each is enough.
* `MaxRequests` 2: a server drains more than one.
* Deadlock is not checked where the system stops by itself: a finished request,
  a dead or exited process, a wait group that waits for ever (the
  subject of `FanOutWaits`), the end of time.

### Fairness

Weak fairness of each goroutine's steps, which the Go scheduler gives; no
fairness of edits, faults, signals, requests or their answers. `PolicyStream` also
assumes that the resync comes again (controller-runtime repeats it), that sidecars go on dialling (their loop
does, see `KeepsDialling`) and that the control plane is restarted (its deployment
does). `Lifecycle` assumes of an open stream only that cancelling its context ends
`Recv`; requests need not be answered, and the ten seconds of `Shutdown` do
pass. `Standalone` has weak fairness of the goroutine that serves the request, and none of those who change files and policies. `ResyncConverges` says nothing of policies that are deleted: the resync does not
mention them.

## 4. What is proved

For every value of the constants, from the named assumptions the modules state (constants of the right
kind, disjoint processes, a `None` that is no program and no stream). Every safety property of the
runs that pass has its theorem. Each proof goes the same way: an inductive invariant, TLC's
opinion of it, then `Init => Inv`, one step for each action, `Inv => property`. Most properties are not inductive themselves; what
the invariants add is the explanation of why the property holds.

* **`SortedStoreProofs`** (all three variants, any number of writers, readers, policies and updates).
  `TypeCorrect`; `MapIsNeverRaced`, from `MuIsHeld` (the process in the section is the
  one `mu` names: without it the mutex could be free with someone inside);
  `CacheIsCoherent`, from `OneRunner` (one reader runs a closure, and the closure's state is its);
  `ReadsAreRegular`, from `ListingsAreNew`, which adds that the current closure is as new as what is published:
  `ReadSeesPublished` alone does not survive `Load`; `NilCallNeedsTheFirstStore`, from
  `NilClosure`; `ListingsAreComputedOnce`, an action property. `WaitsEnd` says that the once and the mutex never
  deadlock, which is as much of `EveryCallReturns` as is a matter of safety: from `MuIsHeld` (who has the mutex is inside the section,
  where nothing is waited for) and `RunnerExists` (a closure that is not settled has a reader running it, who waits for the mutex at most).
  TLC confirmed that a call for which `GoesOn` holds has a step enabled.
  `AnswersAreSorted` is about `MapToSortedSlice`, which chooses the i-th policy by the number of those before it: `RankCovers` says that there is one for
  every place of the listing, as an injection between finite sets of one size is onto, and
  `FiniteMaps` that every map there has been is finite, since an update adds one name at most.
  `ReconcilerStoreIsAtomic` is the refinement of `PolicyStore`, initial states and steps. It needs `OneUpdate`: the reconciler has one
  update at a time, and a listing that was computed before the update and is still current lacks that update and nothing else. Then `Reset` is the instant at
  which the update is applied, or `Mutate` if nobody had computed the current listing; and `Compute` is the
  instant at which every reader that waits for the closure is answered, also those of a closure that has been replaced since, because the
  mutex keeps the map from changing then. `Load` answers a reader that meets a computed listing. Everything else is a stutter. The lemmas
  `Begins`, `Applies`, `Ends`, `Calls`, `Takes`, `Returns` and `Stutters` say what each abstract step is
  in terms of the mapping, and each concrete action cites one or two.
* **`PolicyStreamProofs`** (any number of sidecars, policies, versions, edits and faults). `SenderFollowsCluster`: `SenderInStep` is not inductive, as `Store` needs
  `WorkerIsCurrent` (the version in the worker's hand is the cluster's, or the name is queued again),
  and `ControlPlaneStart` needs `DownIsBlank` (a control plane that is down
  has nothing left, so that what the cluster has is queued and the rest agrees). `ControlInv` is their conjunction with
  the types. `StreamTypeCorrect`, from `WireTypes`. `QuietSidecarsAgree` is the convergence of the sidecars. Its invariant says for every
  sidecar and policy who it is that still knows: while nothing overlaps (`~overlapped`), whatever is on its way is current (`AllIsCurrent`), there is one
  stream handler at most and the sender has nothing to catch up with while there is (`OneHandler`), a sidecar that is away misses nothing but what `missed` has (`DeletionsKnown`),
  one that has been replayed to knows of everything (`ReplayKnown`), and a registered one knows or is about to be told
  (`UpdatesKnown`). "Knows" is that it has the cluster's version or that a message about it is in its stream.
  When nothing is under way, the last of these is the property. An edit or a registration that overlaps another breaks `AllIsCurrent` or
  `OneHandler`, which is why the property excepts them (and `StreamDistributes` shows one).
* **`FanOutProofs`** (any number of streams, calls and attempts). `FanOutTypeCorrect`; `UpdatesAreDeliveredOnce`, from `StillTrying` (a goroutine that is still trying has
  had no success, and has an attempt left); `PanicsNeedAFirstClient`, from `ClosedAtZero`.
* **`ClientRegistryProofs`** (any number of sidecars and addresses, any durations and clocks). `RegistryTypeCorrect`, with `Shapes` and `Lives` (a sidecar that is off has no timers, and no check
  that it sent since). Two theorems have a hypothesis
  about the durations, as the properties are false without:
  `LinkedStayRegistered` assumes `ChecksAreFrequent`, that `Interval + 2 MaxDelay <= MaxInactive`, by the sidecar's clock. `HeardInTime` says why: from the time of the last
  check on record, the next one is due, or was sent, within one interval and one delay, and arrives within another.
  `GoneAreFlushed` assumes `ChecksArriveInTime`, that no check is on its way for longer than `MaxInactive`, by the sidecar's clock. `DroppedWhenDue` says
  that the monitor's next round comes within `FlushInterval` of the time when the sidecar is due, and the round after that time takes it. The defaults (checks every 30 s, a
  round every 180 s, 240 s of inactivity: `sidecar-server/command.go:145`, `control-plane/command.go:151-152`) meet both
  hypotheses unless a check takes more than 105 s or the clocks differ by minutes.
* **`LifecycleProofs`** (the five commands, any number of requests). `LifecycleTypeCorrect`; `ProcessesStopForACause`, from `WaitsForSomething`
  (a task is done only for a cause, and the command waits while one is not); `RequestsAreAnsweredBeforeExit`, from `IdleIsAnswered` (a
  server that is not serving or draining has answered, or given up on, what it had).
* **`TranslationProofs`** (lists of any length). `TranslationTypeCorrect`; `IllScopedPoliciesAreRefused`, from `ScopedSoFar`: what the compiler has
  passed is well scoped, list by list and index by index, and `fields` has just the variables before `k`;
  `AdmittedPoliciesAreServed`, from `SpecOfPolicy` (the lists are what was written, wherever the policy is) and
  `Admission` (what was admitted is the program of a well-scoped policy for HTTP).
* **`AuthorizerProofs`**. `TypeCorrect`, and `AnswersAreVerdicts`, that the three nested
  loops compute the verdict as the documentation states it without loops. The loop invariant says that
  every policy before `p` is silent, that no condition before `i` was false and
  `errs` tells whether one erred, and that every validation before `j` was null. `EvaluationIsBounded`: every step
  of the handler decreases `EvaluationLeft`, a natural number (`WithinBounds`), so that the loops end.
* **`StandaloneProofs`** (any sources, files, contents and changes). `StandaloneAnswers`, that the verdict of `Authorizer` carries over: what
  `ListKube` hands to the handler is one of the listings `Authorizer` is about (`IsAuthorizer`), because whatever compiled is a policy, in every `out` and
  every map that the cluster may be, and the reconciler's maps stay finite (`Compiled`); and `RefusalsHaveACause`. `RefusedForACause` needs
  `CauseInv`: a file that is still to be read was there when it was listed, and what a file
  is now is among what it has been. Without the second, the file that fails could be one `seen` does not know.
  `StandaloneTypeCorrect` and `ListingsAreRegular` come from `RegularInv`, which says how far the reading has got: for one choice of a
  content for each file, among those it had during the request, `out` is what the sources before `source` give, and `raw` what the
  files of this one give that are not in `todo`. A file that is not there when the directory is listed has its choice then, any other when it is read.
  `RequestsAreBounded`: the handler's steps decrease `StepsLeft`, to which a change of the files or of the cluster adds
  nothing; with fairness this is `RequestEnds`.

  The operators on sequences behind these (`FlattenSeq`, and `Without`, which is made of it) take inductions, over lengths and over sequences, and
  the library's induction theorems have an operator as a parameter. `SetInduction` and `SequenceInduction` do without: a *set* of
  numbers, or of sequences, that has the first and with each the next, has all. They follow from `Least`: the subsets of a finite set are
  well-founded under strict inclusion (a theorem of the library without such a parameter), so that a set of numbers has a least one.

Only model-checked:

* everything about liveness (`EveryCallReturns`, `ResyncConverges`, `EveryStreamIsTried`, `RequestEnds`, `ExitsOnceCancelled`, `KeepsDialling`): the
  provers have no rule for fairness;
* the statements that the code does not meet, of course: their runs show it.

## 5. What is not modelled

* CEL itself, and in `PolicyStream` the contents of policies. Which version compiles is the constant `Refused`; which is of
  another mode, `Ignored`. A change to another mode leaves the last version with the sender and the
  sidecars (`mesh.go:41`); no document says what should happen, so the properties leave such policies out.
* `healthCheckMap`'s unlocked access, and concurrent `Send` on one stream: that they are
  undefined is plain from the code, and no model adds to that.
* The CEL libraries (`pkg/cel/libs`): pure functions of one request, with no state and nothing that runs beside them. Two
  places in their conversions are worth a test. Query parameters are looked up under a title-cased key (`http/impl.go:27`), so that a parameter with a
  lower-case name is not found; and a response's headers are set from a Go map, so that of two spellings of one header an
  arbitrary one wins (`handlers.go:82-84`).
* The probe handlers, which answer 200 whatever happens; image, ports and environment of the injected container.
* The external policies in the sender's constructor: they are discarded at once. A source whose URL is not understood makes the command fail (`control-plane/command.go:74-76`, `SetupFails` of
  `Lifecycle`); an error in loading its policies is only logged (lines 79-83).
* Generated code and embedded data. In `Standalone` the embedded CRDs are taken to load (`fs.go:96-99`).
* What becomes of the process when a goroutine of `SendPolicy` panics: `FanOut` says when one does, and `Lifecycle` does without.

## 6. Plan

In this order; the first four parts are done.

1. **Core** (done): `PolicyMaps`, `PolicyStore`, `SortedStore`, `PolicyStream`, `FanOut`,
   `ClientRegistry`, `Authorizer`, `Lifecycle`, `Translation`, and their proofs.
2. **Providers** (done): `Standalone`, the file provider and the composite over directories that change, composed with `Authorizer`.
3. **Admission** (done): `Injection`.
4. **ClientRegistry** with shared, inherited and missing client addresses (done).
5. **MeshEndToEnd**: the listener's `SortedStore` under `PolicyStream` and `Authorizer` on top of it, so that a
   property relates a request's answer to the cluster. It is to check what the runs of its parts check, and replace some of them.
6. **Proofs**: of the safety properties of all components (done: section 4). Left are theorems that relate
   components: that what `FanOut` does to one stream is, at some instant, the step that `PolicyStream` takes for it (not one instant for
   all streams at once: a stream may be reconnected while others are still being tried); and that the sender's store is atomic outside the nil window, for which
   `PolicyStore` would have to let a request that peeks at an empty map return without an answer. The listener's
   store is not atomic, because of its early unlock at the end of a delete (section 3).

## Running

    tlc -workers 2 -config Stores.cfg SortedStore.tla
    tlapm SortedStoreProofs.tla

The module of each run is in `PROJECT.json`.
