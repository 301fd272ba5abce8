-------------------------------- MODULE Injection ------------------------------
(* The way of a pod through the sidecar injector: the API server sends it to   *)
(* the mutating webhook, which adds the sidecar's container; once the pod is   *)
(* admitted, its containers are started with the arguments they were given.    *)
EXTENDS Integers, Sequences, FiniteSets

CONSTANTS
    Names,          \* the names a container of a pod may have
    SidecarName,    \* the name of the sidecar's
    MaxContainers,  \* bound: the containers of a pod that is created
    WebhookFailure, \* the webhook's failurePolicy: the charts install "Fail"
    NotAPod         \* an object that does not unmarshal into a Pod

VARIABLES
    pc,         \* where the review stands
    request,    \* what the handler was sent
    pod,        \* the pod that the API server creates, or NotAPod
    response,   \* what the handler answered
    started     \* what became of each container of the admitted pod

vars == <<pc, request, pod, response, started>>

(* The flags of the two servers, and the subcommands of serve they are run by; *)
(* "kube-" stands for the overrides of the kubeconfig.                         *)
AuthzFlags == {"probes-address", "http-auth-server-address", "nested-request"}
SidecarFlags ==
    AuthzFlags \cup {"control-plane-address", "control-plane-reconnect-wait",
                    "control-plane-max-dial-interval", "health-check-interval", "client-address"}
StandaloneFlags ==
    AuthzFlags \cup {"metrics-address", "external-policy-source", "kube-policy-source", "kube-"}

Flags(command) == CASE command = "sidecar-authz-server" -> SidecarFlags
                    [] command = "authz-server" -> StandaloneFlags

(* An own container runs whatever its image runs.                              *)
Own(n) == [name |-> n, command |-> "own", flags |-> {}]

Sidecar ==
    [name |-> SidecarName,
     command |-> "authz-server",
     flags |-> {"probes-address", "control-plane-address", "control-plane-reconnect-wait",
                "control-plane-max-dial-interval", "health-check-interval"}]

Pods == {[k \in DOMAIN l |-> Own(l[k])] :
           l \in UNION {[1 .. n -> Names] : n \in 0 .. MaxContainers}}

(* The first container of the sidecar's name is replaced, or it is added.      *)
Inject(p) ==
    LET same == {k \in DOMAIN p : p[k].name = SidecarName}
    IN  IF same = {} THEN Append(p, Sidecar)
        ELSE [p EXCEPT ![CHOOSE k \in same : \A l \in same : k <= l] = Sidecar]

Init ==
    /\ pc = "create"
    /\ request = "none"
    /\ pod \in {p \in Pods : \A k, l \in DOMAIN p : p[k].name = p[l].name => k = l} \cup {NotAPod}
    /\ response = "none"
    /\ started = {}

(* What arrives at the handler, in every shape that it tells apart.            *)
Call ==
    /\ pc = "create"
    /\ request' \in [body : {"unreadable", "garbage", "noRequest", "review"},
                     type : {"json", "other"}]
    /\ pc' = "handler"
    /\ UNCHANGED <<pod, response, started>>

(* AdmissionReview answers with an error of HTTP before it has looked at the   *)
(* object; without a request in the review the handler panics.                 *)
HttpError ==
    /\ pc = "handler"
    /\ request.body # "review" \/ request.type # "json"
    /\ response' = "failed"
    /\ pc' = "answered"
    /\ UNCHANGED <<request, pod, started>>

(* What does not unmarshal into a Pod is denied: AdmissionResponse with an     *)
(* error.  An object of another kind that does is a pod without containers.    *)
Deny ==
    /\ pc = "handler"
    /\ request.body = "review" /\ request.type = "json"
    /\ pod = NotAPod
    /\ response' = "denied"
    /\ pc' = "answered"
    /\ UNCHANGED <<request, pod, started>>

(* The answer allows the pod and carries the patch.                            *)
Patch ==
    /\ pc = "handler"
    /\ request.body = "review" /\ request.type = "json"
    /\ pod # NotAPod
    /\ response' = "allowed"
    /\ pod' = Inject(pod)
    /\ pc' = "answered"
    /\ UNCHANGED <<request, started>>

(* The API server, and a webhook that cannot be reached.                       *)
Unreachable ==
    /\ pc = "create"
    /\ response' = "failed"
    /\ pc' = "answered"
    /\ UNCHANGED <<request, pod, started>>

Admit ==
    /\ pc = "answered" /\ pod # NotAPod
    /\ response = "allowed" \/ (response = "failed" /\ WebhookFailure = "Ignore")
    /\ pc' = "admitted"
    /\ UNCHANGED <<request, pod, response, started>>

(* The kubelet starts a container.  A command that is given a flag it does not *)
(* define returns an error, and the process exits with status 1.               *)
Start(k) ==
    /\ pc = "admitted"
    /\ k \in DOMAIN pod /\ \A s \in started : s.container # k
    /\ started' = started \cup
         {[container |-> k,
           runs |-> pod[k].command = "own" \/ pod[k].flags \subseteq Flags(pod[k].command)]}
    /\ UNCHANGED <<pc, request, pod, response>>

Next ==
    \/ Call \/ HttpError \/ Deny \/ Patch \/ Unreachable \/ Admit
    \/ \E k \in 1 .. MaxContainers + 1 : Start(k)

Spec == Init /\ [][Next]_vars

(* "Sidecar Injector: Automatically injects authorization sidecars into pods"; *)
(* the sidecar "runs alongside your proxy/application and validates HTTP       *)
(* requests" (website/docs/quick-start/index.md:33-34): the container that     *)
(* Inject put into an admitted pod runs once it is started (sidecar.go:22-30). *)
InjectedSidecarsRun ==
    \A s \in started : pod[s.container].name = SidecarName /\ response = "allowed" => s.runs
================================================================================
