------------------------------- MODULE Translation -----------------------------
(* What becomes of a policy of the cluster before requests are decided by it:  *)
(* the validation webhook compiles it to admit it; the standalone reconciler   *)
(* compiles it again; in mesh mode the control plane looks at its evaluation   *)
(* mode and translates it with ToProto, and the sidecar translates it back and *)
(* compiles it.  The compiler's loops are steps here, since what an expression *)
(* may refer to depends on how far they have come.                             *)
EXTENDS Integers, Sequences, SequencesExt

CONSTANTS
    VarNames,       \* names of variables
    None,           \* no program
    MaxConditions, MaxVariables, MaxValidations  \* bounds: the lists of a policy

ASSUME BoundsAreNat == {MaxConditions, MaxVariables, MaxValidations} \subseteq Nat

VARIABLES
    policy,     \* the policy, as it was written
    site,       \* who has it: the webhook, a reconciler or a sidecar
    spec,       \* the policy as it is there
    pc,         \* the place in its handler, or how it ended
    k,          \* the index of the compiler's loop
    fields,     \* variablesProvider.fields: the variables declared so far
    admitted,   \* history: the program the webhook compiled, or None
    program     \* the program the handler evaluates, or None

vars == <<policy, site, spec, pc, k, fields, admitted, program>>

(* An expression is the variables it refers to and its type.  One that does    *)
(* not parse is like one that refers to a variable that is declared nowhere.   *)
(* The API server sees to it that the names of the variables differ.           *)
Conditions == [uses : SUBSET VarNames, type : {"bool", "other"}]
Variables == [name : VarNames, uses : SUBSET VarNames]
Validations == [uses : SUBSET VarNames, type : {"response", "null", "other"}]
NamesDiffer(variables) == IsInjective([l \in DOMAIN variables |-> variables[l].name])

Policies ==
    [mode            : {"HTTP", "Kubernetes", "unset"},
     failurePolicy   : {"Fail", "Ignore", "unset"},
     matchConditions : BoundedSeq(Conditions, MaxConditions),
     variables       : {s \in BoundedSeq(Variables, MaxVariables) : NamesDiffer(s)},
     validations     : BoundedSeq(Validations, MaxValidations)]

--------------------------------------------------------------------------------
(* The translations.                                                           *)

(* Mutant: the variables are taken over in another order.                      *)
ToProtoReverses(pol) ==
    [failurePolicy   |-> IF pol.failurePolicy = "unset" THEN "Ignore" ELSE pol.failurePolicy,
     matchConditions |-> pol.matchConditions,
     variables       |-> Reverse(pol.variables),
     validations     |-> pol.validations]

(* The message has no evaluation mode, and its failure policy is always set.   *)
ToProto(pol) ==
    [failurePolicy   |-> IF pol.failurePolicy = "unset" THEN "Ignore" ELSE pol.failurePolicy,
     matchConditions |-> pol.matchConditions,
     variables       |-> pol.variables,
     validations     |-> pol.validations]

FromProto(msg) ==
    [mode            |-> "unset",
     failurePolicy   |-> msg.failurePolicy,
     matchConditions |-> msg.matchConditions,
     variables       |-> msg.variables,
     validations     |-> msg.validations]

(* Kyverno's ValidatingPolicy.GetFailurePolicy.                                *)
GetFailurePolicy(pol) == IF pol.failurePolicy = "unset" THEN "Fail" ELSE pol.failurePolicy

(* What Compile returns: the variables are a map from their names.             *)
Program(pol) ==
    [failurePolicy   |-> GetFailurePolicy(pol),
     matchConditions |-> pol.matchConditions,
     variables       |-> ToSet(pol.variables),
     rules           |-> pol.validations]

ASSUME NoneIsNoProgram == \A pol \in Policies : Program(pol) # None

Init ==
    /\ policy \in Policies
    /\ site \in {"webhook", "standalone", "control plane"}
    /\ spec = policy
    /\ pc = "received"
    /\ k = 1
    /\ fields = {}
    /\ admitted = None
    /\ program = None

--------------------------------------------------------------------------------
(* The handlers.                                                               *)

(* Compile begins with an environment of its own.                              *)
Compile ==
    /\ pc' = "conditions"
    /\ k' = 1
    /\ fields' = {}

(* validateVpol compiles the policies that are for HTTP and lets others pass.  *)
ValidateVpol ==
    /\ site = "webhook" /\ pc = "received"
    /\ \/ spec.mode = "HTTP" /\ Compile
       \/ spec.mode # "HTTP" /\ pc' = "passed" /\ UNCHANGED <<k, fields>>
    /\ UNCHANGED <<policy, site, spec, admitted, program>>

(* The standalone reconciler compiles whatever it is given.                    *)
ReconcileStandalone ==
    /\ site = "standalone" /\ pc = "received"
    /\ Compile
    /\ UNCHANGED <<policy, site, spec, admitted, program>>

(* The mesh reconciler looks at the mode without asking whether there is an    *)
(* evaluation configuration, and panics when there is none ("unset"; a         *)
(* configuration without a mode is one of another mode).                       *)
ReconcilePanics ==
    /\ site = "control plane" /\ pc = "received"
    /\ spec.mode = "unset"
    /\ pc' = "panicked"
    /\ UNCHANGED <<policy, site, spec, k, fields, admitted, program>>

ReconcileIgnores ==
    /\ site = "control plane" /\ pc = "received"
    /\ spec.mode = "Kubernetes"
    /\ pc' = "ignored"
    /\ UNCHANGED <<policy, site, spec, k, fields, admitted, program>>

(* It sends the message, and processPolicy compiles what comes out of it.      *)
ReconcileMesh ==
    /\ site = "control plane" /\ pc = "received"
    /\ spec.mode = "HTTP"
    /\ site' = "sidecar"
    /\ spec' = FromProto(ToProto(spec))
    /\ Compile
    /\ UNCHANGED <<policy, admitted, program>>

--------------------------------------------------------------------------------
(* The loops of Compile.                                                       *)

Refuse(wrong) ==
    /\ wrong
    /\ pc' = "refused"
    /\ UNCHANGED <<k, fields>>

NextLoop(from, to, list) ==
    /\ pc = from /\ k > Len(list)
    /\ pc' = to
    /\ k' = 1
    /\ UNCHANGED <<policy, site, spec, fields, admitted, program>>

(* The variables provider: an expression may refer to the declared variables.  *)
FindFields(uses) == uses \subseteq fields
RegisterField(name) == fields' = fields \cup {name}

CompileCondition ==
    /\ pc = "conditions" /\ k <= Len(spec.matchConditions)
    /\ LET e == spec.matchConditions[k]
           ok == FindFields(e.uses) /\ e.type = "bool"
       IN  \/ ok /\ k' = k + 1 /\ UNCHANGED <<pc, fields>>
           \/ Refuse(~ok)
    /\ UNCHANGED <<policy, site, spec, admitted, program>>

ConditionsEnd == NextLoop("conditions", "variables", spec.matchConditions)

(* Mutant: a variable is declared before its expression is compiled.           *)
DeclareFirst ==
    /\ pc = "variables" /\ k <= Len(spec.variables)
    /\ LET v == spec.variables[k]
           ok == v.uses \subseteq fields \cup {v.name}
       IN  \/ ok /\ k' = k + 1 /\ RegisterField(v.name) /\ UNCHANGED pc
           \/ Refuse(~ok)
    /\ UNCHANGED <<policy, site, spec, admitted, program>>

(* RegisterField declares a variable once its expression has been compiled.    *)
CompileVariable ==
    /\ pc = "variables" /\ k <= Len(spec.variables)
    /\ LET v == spec.variables[k]
           ok == FindFields(v.uses)
       IN  \/ ok /\ k' = k + 1 /\ RegisterField(v.name) /\ UNCHANGED pc
           \/ Refuse(~ok)
    /\ UNCHANGED <<policy, site, spec, admitted, program>>

(* Mutant: the loop over the validations begins where this one ended.          *)
VariablesEndKeepsIndex ==
    /\ pc = "variables" /\ k > Len(spec.variables)
    /\ pc' = "validations"
    /\ UNCHANGED <<policy, site, spec, k, fields, admitted, program>>

VariablesEnd == NextLoop("variables", "validations", spec.variables)

CompileAuthorization ==
    /\ pc = "validations" /\ k <= Len(spec.validations)
    /\ LET e == spec.validations[k]
           ok == FindFields(e.uses) /\ e.type \in {"response", "null"}
       IN  \/ ok /\ k' = k + 1 /\ UNCHANGED <<pc, fields>>
           \/ Refuse(~ok)
    /\ UNCHANGED <<policy, site, spec, admitted, program>>

(* The webhook drops what it compiled, and the policy goes to a reconciler.    *)
Admit ==
    /\ site = "webhook"
    /\ \/ /\ pc = "validations" /\ k > Len(spec.validations)
          /\ admitted' = Program(spec)
       \/ pc = "passed" /\ UNCHANGED admitted
    /\ site' \in {"standalone", "control plane"}
    /\ pc' = "received"
    /\ UNCHANGED <<policy, spec, k, fields, program>>

Serve ==
    /\ site \in {"standalone", "sidecar"}
    /\ pc = "validations" /\ k > Len(spec.validations)
    /\ pc' = "served"
    /\ program' = Program(spec)
    /\ UNCHANGED <<policy, site, spec, k, fields, admitted>>

Next ==
    \/ ValidateVpol \/ ReconcileStandalone
    \/ ReconcilePanics \/ ReconcileIgnores \/ ReconcileMesh
    \/ CompileCondition \/ ConditionsEnd \/ CompileVariable \/ VariablesEnd
    \/ CompileAuthorization \/ Admit \/ Serve

Spec == Init /\ [][Next]_vars

--------------------------------------------------------------------------------
(* Types; the loop's index is within the list it runs over.                    *)
Lists == [conditions |-> spec.matchConditions, variables |-> spec.variables,
          validations |-> spec.validations]

TypeOK ==
    /\ policy \in Policies /\ spec \in Policies
    /\ site \in {"webhook", "standalone", "control plane", "sidecar"}
    /\ pc \in {"received", "conditions", "variables", "validations",
               "passed", "refused", "ignored", "panicked", "served"}
    /\ pc \in DOMAIN Lists => k \in 1 .. Len(Lists[pc]) + 1
    /\ fields \subseteq VarNames
    /\ pc = "served" <=> program # None

(* "The expression of a variable can refer to other variables defined earlier  *)
(* in the list but not those after" (website/docs/policies/variables.md:9),    *)
(* and "will NOT be available in match conditions" (match-conditions.md:9).    *)
Declared(pol, n) == {pol.variables[l].name : l \in 1 .. n}
WellScoped(pol) ==
    /\ \A c \in ToSet(pol.matchConditions) : c.uses = {} /\ c.type = "bool"
    /\ \A l \in DOMAIN pol.variables : pol.variables[l].uses \subseteq Declared(pol, l - 1)
    /\ \A r \in ToSet(pol.validations) :
         r.uses \subseteq Declared(pol, Len(pol.variables)) /\ r.type # "other"

(* The compiler refuses exactly the policies that the documentation rules out, *)
(* wherever it runs: a policy is not refused by a sidecar for what its journey *)
(* made of it, nor served with a variable that has no value when it is used.   *)
RefusedIffIllScoped ==
    /\ pc = "refused" => ~WellScoped(policy)
    /\ pc = "served" => WellScoped(policy)

(* What the webhook admitted for HTTP is served, whichever way it comes to the *)
(* requests, and as the webhook compiled it; but a failure policy that was not *)
(* set is "Ignore" at a sidecar, as ToProto makes it (validating_policy.go:44).*)
(* "If not set, the failure policy defaults to `Fail`"                         *)
(* (website/docs/policies/failure-policy.md:12), as it does at the webhook and *)
(* at the authz server.                                                        *)
IgnoredBySidecars == site = "sidecar" /\ policy.failurePolicy = "unset"
AdmittedIsServed ==
    admitted # None =>
        /\ pc \notin {"refused", "ignored", "panicked"}
        /\ pc = "served" =>
             program = IF IgnoredBySidecars THEN [admitted EXCEPT !.failurePolicy = "Ignore"]
                       ELSE admitted
================================================================================
