------------------------------- MODULE Authorizer ------------------------------
(* One request at the authorization server: the handler of pkg/httpauth asks   *)
(* the provider for the policies and evaluates them in turn, each with its     *)
(* match conditions, its validations and its failure policy (ForHTTP in        *)
(* pkg/engine/vpol/compiler).  CEL is abstracted to what an evaluation yields. *)
EXTENDS Integers, Sequences, SequencesExt

CONSTANTS
    NestedRequest,  \* the flag: the request to check is in the body
    MaxPolicies,    \* bound: the policies of a listing
    MaxConditions,  \* bound: the match conditions of a policy
    MaxRules        \* bound: the validations of a policy

ASSUME NestedRequestIsFlag == NestedRequest \in BOOLEAN
ASSUME BoundsAreNat == MaxPolicies \in Nat /\ MaxConditions \in Nat /\ MaxRules \in Nat

VARIABLES
    pc,         \* the place in the handler
    pols,       \* the policies the provider answered with
    p, i, j,    \* the policy, the match condition and the validation at hand
    errs,       \* some match condition of the policy failed to evaluate
    answer      \* what was written to the client

vars == <<pc, pols, p, i, j, errs, answer>>

(* A match condition is of type bool.  A validation yields null or a response: *)
(* one that allows, one that denies, or one whose status was never set.        *)
Policies == [failurePolicy   : {"Fail", "Ignore"},
             matchConditions : BoundedSeq({"true", "false", "error"}, MaxConditions),
             validations     : BoundedSeq({"allow", "deny", "unset", "null", "error"}, MaxRules)]
Listings == Seq(Policies)

Policy == pols[p]
Condition == Policy.matchConditions[i]
Rule == Policy.validations[j]

(* WriteHeader(0) panics, and net/http closes the connection.                  *)
Written(resp) == IF resp = "unset" THEN "aborted" ELSE resp

Init ==
    /\ pc = IF NestedRequest THEN "read" ELSE "fetch"
    /\ pols = <<>>
    /\ p = 1 /\ i = 1 /\ j = 1
    /\ errs = FALSE
    /\ answer = "none"

(* http.ReadRequest on the body, when the request is nested.                   *)
Read ==
    /\ pc = "read"
    /\ pc' = "fetch"
    /\ UNCHANGED <<pols, p, i, j, errs, answer>>

(* provider.CompiledPolicies: the listing this request is decided by.          *)
Fetch ==
    /\ pc = "fetch"
    /\ \E n \in 0 .. MaxPolicies : pols' \in [1 .. n -> Policies]
    /\ pc' = "convert"
    /\ UNCHANGED <<p, i, j, errs, answer>>

(* NewRequest reads the body.                                                  *)
Convert ==
    /\ pc = "convert"
    /\ pc' = "match"
    /\ UNCHANGED <<pols, p, i, j, errs, answer>>

(* An error of any of the three is answered with status 500.                   *)
Refuse ==
    /\ pc \in {"read", "fetch", "convert"}
    /\ pc' = "failed"
    /\ answer' = "rejected"
    /\ UNCHANGED <<pols, p, i, j, errs>>

Finish(a) ==
    /\ pc' = "done"
    /\ answer' = a
    /\ UNCHANGED <<pols, p, i, j, errs>>

(* Mutant: the next policy's conditions are read from where this one's ended.  *)
NextPolicyKeepsIndex ==
    /\ pc' = "match"
    /\ p' = p + 1 /\ j' = 1
    /\ errs' = FALSE
    /\ UNCHANGED <<pols, i, answer>>

(* The policy has no answer for this request.                                  *)
NextPolicy ==
    /\ pc' = "match"
    /\ p' = p + 1 /\ i' = 1 /\ j' = 1
    /\ errs' = FALSE
    /\ UNCHANGED <<pols, answer>>

(* The failure policy decides what an error of the policy means.               *)
Failure ==
    \/ Policy.failurePolicy = "Fail" /\ Finish("rejected")
    \/ Policy.failurePolicy = "Ignore" /\ NextPolicy

--------------------------------------------------------------------------------
InMatch == pc = "match" /\ p <= Len(pols)

(* An error is kept, and the next condition is evaluated.                      *)
ConditionError ==
    /\ InMatch /\ i <= Len(Policy.matchConditions)
    /\ Condition = "error"
    /\ i' = i + 1
    /\ errs' = TRUE
    /\ UNCHANGED <<pc, pols, p, j, answer>>

ConditionTrue ==
    /\ InMatch /\ i <= Len(Policy.matchConditions)
    /\ Condition = "true"
    /\ i' = i + 1
    /\ UNCHANGED <<pc, pols, p, j, errs, answer>>

(* A false condition skips the policy, whatever errors there were before it.   *)
ConditionFalse ==
    /\ InMatch /\ i <= Len(Policy.matchConditions)
    /\ Condition = "false"
    /\ NextPolicy

Matched ==
    /\ InMatch /\ i > Len(Policy.matchConditions)
    /\ ~errs
    /\ pc' = "rules"
    /\ UNCHANGED <<pols, p, i, j, errs, answer>>

MatchFailed ==
    /\ InMatch /\ i > Len(Policy.matchConditions)
    /\ errs
    /\ Failure

--------------------------------------------------------------------------------
RuleNull ==
    /\ pc = "rules" /\ j <= Len(Policy.validations)
    /\ Rule = "null"
    /\ j' = j + 1
    /\ UNCHANGED <<pc, pols, p, i, errs, answer>>

RuleError ==
    /\ pc = "rules" /\ j <= Len(Policy.validations)
    /\ Rule = "error"
    /\ Failure

(* The first response there is is written, and nothing else is evaluated.      *)
RuleResponds ==
    /\ pc = "rules" /\ j <= Len(Policy.validations)
    /\ Rule \notin {"null", "error"}
    /\ Finish(Written(Rule))

(* Mutant: a policy that matched and has no response ends the request.         *)
RulesEndRequest ==
    /\ pc = "rules" /\ j > Len(Policy.validations)
    /\ Finish("implicit")

RulesEnd ==
    /\ pc = "rules" /\ j > Len(Policy.validations)
    /\ NextPolicy

(* The loop ends and the handler returns without having written anything:      *)
(* net/http completes the response with status 200 and no body.                *)
NoAnswer ==
    /\ pc = "match" /\ p > Len(pols)
    /\ Finish("implicit")

Next ==
    \/ Read \/ Fetch \/ Convert \/ Refuse
    \/ ConditionError \/ ConditionTrue \/ ConditionFalse \/ Matched \/ MatchFailed
    \/ RuleNull \/ RuleError \/ RuleResponds \/ RulesEnd
    \/ NoAnswer

Spec == Init /\ [][Next]_vars

--------------------------------------------------------------------------------
(* The decision, as website/docs/policies states it (match-conditions.md:68-75,*)
(* failure-policy.md, authorization-rules.md:12-18) and the end-to-end tests   *)
(* order it, without loops.                                                    *)
HasFalse(pol) == \E k \in DOMAIN pol.matchConditions : pol.matchConditions[k] = "false"
HasError(pol) == \E k \in DOMAIN pol.matchConditions : pol.matchConditions[k] = "error"

OnError(pol) == IF pol.failurePolicy = "Fail" THEN "rejected" ELSE "silent"

(* The validation that speaks first, by a response or an error.                *)
SpeaksFirst(k, rules) ==
    k \in DOMAIN rules /\ rules[k] # "null" /\ \A l \in 1 .. k - 1 : rules[l] = "null"

Verdict(pol) ==
    IF HasFalse(pol) THEN "silent"
    ELSE IF HasError(pol) THEN OnError(pol)
    ELSE IF \A k \in DOMAIN pol.validations : pol.validations[k] = "null" THEN "silent"
    ELSE LET k == CHOOSE k \in DOMAIN pol.validations : SpeaksFirst(k, pol.validations)
         IN  IF pol.validations[k] = "error" THEN OnError(pol) ELSE Written(pol.validations[k])

Decides(pol) == Verdict(pol) # "silent"
DecidesFirst(k) == k \in DOMAIN pols /\ Decides(pols[k]) /\ \A l \in 1 .. k - 1 : ~Decides(pols[l])

(* A type invariant; the indices are within one of the lists they run over.    *)
TypeOK ==
    /\ pc \in {"read", "fetch", "convert", "match", "rules", "done", "failed"}
    /\ pols \in Listings
    /\ p \in 1 .. Len(pols) + 1
    /\ p <= Len(pols) => /\ i \in 1 .. Len(Policy.matchConditions) + 1
                         /\ j \in 1 .. Len(Policy.validations) + 1
    /\ pc = "rules" => p <= Len(pols)
    /\ errs \in BOOLEAN
    /\ answer \in {"none", "rejected", "allow", "deny", "aborted", "implicit"}

(* The answer is the verdict of the first policy of the listing that has one:  *)
(* no policy behind it is heard, an error is only what the failure policy of   *)
(* the erring policy makes of it, and a false match condition silences the     *)
(* policy even after another condition failed.                                 *)
AnswerIsFirstVerdict ==
    pc = "done" =>
        \/ \E k \in DOMAIN pols : DecidesFirst(k) /\ answer = Verdict(pols[k])
        \/ (\A k \in DOMAIN pols : ~Decides(pols[k])) /\ answer = "implicit"

(* The steps the handler has left, at most: one for each condition, each rule  *)
(* and the end of both, policy by policy, and one for the answer.              *)
PerPolicy == MaxConditions + MaxRules + 2
EvaluationLeft ==
    CASE pc = "read"    -> MaxPolicies * PerPolicy + 4
      [] pc = "fetch"   -> MaxPolicies * PerPolicy + 3
      [] pc = "convert" -> MaxPolicies * PerPolicy + 2
      [] pc = "match"   -> (Len(pols) + 1 - p) * PerPolicy + 2 - i
      [] pc = "rules"   -> (Len(pols) - p) * PerPolicy + MaxRules + 3 - j
      [] OTHER          -> 0

(* "If all validations return null, the request is denied by default"          *)
(* (website/docs/policies/authorization-rules.md:18).                          *)
DenyByDefault ==
    pc = "done" /\ Len(pols) = 1 /\ ~HasFalse(pols[1]) /\ ~HasError(pols[1])
        /\ (\A k \in DOMAIN pols[1].validations : pols[1].validations[k] = "null") =>
           answer \in {"deny", "rejected"}
================================================================================
