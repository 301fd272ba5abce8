--------------------------- MODULE AuthorizerProofs ----------------------------
(* Proofs about Authorizer, for listings, policies and validations of any      *)
(* length, with or without nested requests.                                    *)
EXTENDS Authorizer, SequenceTheorems, TLAPS

(* A bounded sequence is a sequence.                                           *)
LEMMA BoundedSeqIsSeq ==
  ASSUME NEW S, NEW n \in Nat, NEW s \in BoundedSeq(S, n)
  PROVE  s \in Seq(S)
<1>1. PICK m \in 0 .. n : s \in [1 .. m -> S]
  BY DEF BoundedSeq, SeqOf
<1>2. m \in Nat
  BY <1>1
<1>3. QED
  BY <1>1, <1>2, SeqDef

(* The policies of a listing, and the lists of each of them, are sequences.    *)
LEMMA ListingShape ==
  ASSUME NEW l \in Listings
  PROVE  /\ l \in Seq(Policies) /\ Len(l) \in Nat /\ DOMAIN l = 1 .. Len(l)
         /\ \A k \in 1 .. Len(l) : l[k] \in Policies
<1>1. l \in Seq(Policies)
  BY DEF Listings
<1>2. QED
  BY <1>1, LenProperties

LEMMA PolicyShape ==
  ASSUME NEW pol \in Policies
  PROVE  /\ pol.failurePolicy \in {"Fail", "Ignore"}
         /\ Len(pol.matchConditions) \in Nat
         /\ DOMAIN pol.matchConditions = 1 .. Len(pol.matchConditions)
         /\ \A k \in DOMAIN pol.matchConditions :
              pol.matchConditions[k] \in {"true", "false", "error"}
         /\ Len(pol.validations) \in Nat
         /\ DOMAIN pol.validations = 1 .. Len(pol.validations)
         /\ \A k \in DOMAIN pol.validations :
              pol.validations[k] \in {"allow", "deny", "unset", "null", "error"}
<1>1. /\ pol.failurePolicy \in {"Fail", "Ignore"}
      /\ pol.matchConditions \in BoundedSeq({"true", "false", "error"}, MaxConditions)
      /\ pol.validations \in BoundedSeq({"allow", "deny", "unset", "null", "error"}, MaxRules)
  BY DEF Policies
<1>2. pol.matchConditions \in Seq({"true", "false", "error"})
  BY <1>1, BoundedSeqIsSeq, BoundsAreNat
<1>3. pol.validations \in Seq({"allow", "deny", "unset", "null", "error"})
  BY <1>1, BoundedSeqIsSeq, BoundsAreNat
<1>4. QED
  BY <1>1, <1>2, <1>3, LenProperties

(* What the policy at hand is made of.                                         *)
LEMMA CurrentPolicy ==
  ASSUME TypeOK, p <= Len(pols)
  PROVE  /\ Policy \in Policies
         /\ p \in Nat
         /\ Len(pols) \in Nat
         /\ i \in Nat /\ i <= Len(Policy.matchConditions) + 1
         /\ j \in Nat /\ j <= Len(Policy.validations) + 1
         /\ Len(Policy.matchConditions) \in Nat
         /\ Len(Policy.validations) \in Nat
<1>1. /\ p \in 1 .. Len(pols) /\ Len(pols) \in Nat /\ pols \in Listings
  BY ListingShape DEF TypeOK
<1>2. Policy \in Policies
  BY <1>1, ListingShape DEF Policy
<1>3. Len(Policy.matchConditions) \in Nat /\ Len(Policy.validations) \in Nat
  BY <1>2, PolicyShape
<1>4. QED
  BY <1>1, <1>2, <1>3 DEF TypeOK

(* The policy that is next in the listing, at its first condition and rule.    *)
LEMMA NextPolicyType ==
  ASSUME TypeOK, p <= Len(pols), NextPolicy
  PROVE  TypeOK'
<1>1. p \in 1 .. Len(pols) /\ Len(pols) \in Nat /\ pols \in Listings
  BY ListingShape DEF TypeOK
<1>2. pols' = pols /\ p' = p + 1 /\ i' = 1 /\ j' = 1 /\ errs' = FALSE /\ answer' = answer
      /\ pc' = "match"
  BY DEF NextPolicy
<1>3. p' \in 1 .. Len(pols') + 1
  BY <1>1, <1>2
<1>4. ASSUME p' <= Len(pols')
      PROVE  /\ i' \in 1 .. Len(Policy'.matchConditions) + 1
             /\ j' \in 1 .. Len(Policy'.validations) + 1
  <2>1. Policy' = pols[p + 1] /\ p + 1 \in 1 .. Len(pols)
    BY <1>1, <1>2, <1>4 DEF Policy
  <2>2. Policy' \in Policies
    BY <1>1, <2>1, ListingShape
  <2>3. Len(Policy'.matchConditions) \in Nat /\ Len(Policy'.validations) \in Nat
    BY <2>2, PolicyShape
  <2>4. QED
    BY <1>2, <2>3
<1>5. QED
  BY <1>2, <1>3, <1>4 DEF TypeOK

LEMMA FinishType ==
  ASSUME TypeOK,
         NEW a \in {"rejected", "allow", "deny", "aborted", "implicit"},
         Finish(a)
  PROVE  TypeOK'
  BY DEF Finish, TypeOK, Policy

LEMMA FailureType ==
  ASSUME TypeOK, p <= Len(pols), Failure
  PROVE  TypeOK'
<1>1. CASE Finish("rejected")
  BY <1>1, FinishType
<1>2. CASE NextPolicy
  BY <1>2, NextPolicyType
<1>3. QED
  BY <1>1, <1>2 DEF Failure

--------------------------------------------------------------------------------
(* Until the loop over the policies is entered nothing has been evaluated.     *)
AtStart == pc \in {"read", "fetch", "convert"} =>
             p = 1 /\ i = 1 /\ j = 1 /\ errs = FALSE /\ answer = "none"

LEMMA TypeInductive == TypeOK /\ AtStart /\ [Next]_vars => TypeOK'
<1> SUFFICES ASSUME TypeOK, AtStart, [Next]_vars PROVE TypeOK'
  OBVIOUS
<1>1. CASE Read \/ Convert \/ Refuse
  BY <1>1 DEF Read, Convert, Refuse, TypeOK, Policy
<1>2. CASE Fetch
  <2>1. /\ pols' \in Listings /\ pc' = "convert"
        /\ p' = 1 /\ i' = 1 /\ j' = 1 /\ errs' = FALSE /\ answer' = "none"
    <3>1. PICK n \in 0 .. MaxPolicies : pols' \in [1 .. n -> Policies]
      BY <1>2 DEF Fetch
    <3>2. pols' \in Listings
      BY <3>1, BoundsAreNat, SeqDef DEF Listings
    <3>3. QED
      BY <1>2, <3>2 DEF Fetch, AtStart
  <2>2. Len(pols') \in Nat
    BY <2>1, ListingShape
  <2>3. ASSUME p' <= Len(pols')
        PROVE  /\ i' \in 1 .. Len(Policy'.matchConditions) + 1
               /\ j' \in 1 .. Len(Policy'.validations) + 1
    <3>1. Policy' = pols'[1] /\ 1 \in 1 .. Len(pols')
      BY <2>1, <2>2, <2>3 DEF Policy
    <3>2. Policy' \in Policies
      BY <2>1, <3>1, ListingShape
    <3>3. Len(Policy'.matchConditions) \in Nat /\ Len(Policy'.validations) \in Nat
      BY <3>2, PolicyShape
    <3>4. QED
      BY <2>1, <3>3
  <2>4. p' \in 1 .. Len(pols') + 1
    BY <2>1, <2>2
  <2>5. QED
    BY <2>1, <2>3, <2>4 DEF TypeOK
<1>3. CASE ConditionError \/ ConditionTrue
  <2>1. /\ i' = i + 1 /\ pc' = pc /\ pols' = pols /\ p' = p /\ j' = j /\ answer' = answer
        /\ errs' \in BOOLEAN
        /\ p <= Len(pols) /\ i <= Len(Policy.matchConditions) /\ pc = "match"
    BY <1>3 DEF ConditionError, ConditionTrue, InMatch, TypeOK
  <2>2. Policy' = Policy
    BY <2>1 DEF Policy
  <2>3. i' \in 1 .. Len(Policy'.matchConditions) + 1
    BY <2>1, <2>2, CurrentPolicy DEF TypeOK
  <2>4. QED
    BY <2>1, <2>2, <2>3 DEF TypeOK
<1>4. CASE ConditionFalse
  BY <1>4, NextPolicyType DEF ConditionFalse, InMatch
<1>5. CASE Matched
  BY <1>5 DEF Matched, InMatch, TypeOK, Policy
<1>6. CASE MatchFailed
  BY <1>6, FailureType DEF MatchFailed, InMatch
<1>7. CASE RuleNull
  <2>1. /\ j' = j + 1 /\ pc' = pc /\ pols' = pols /\ p' = p /\ i' = i /\ errs' = errs
        /\ answer' = answer
        /\ p <= Len(pols) /\ j <= Len(Policy.validations)
    BY <1>7 DEF RuleNull, TypeOK
  <2>2. Policy' = Policy
    BY <2>1 DEF Policy
  <2>3. j' \in 1 .. Len(Policy'.validations) + 1
    BY <2>1, <2>2, CurrentPolicy DEF TypeOK
  <2>4. QED
    BY <2>1, <2>2, <2>3 DEF TypeOK
<1>8. CASE RuleError
  BY <1>8, FailureType DEF RuleError, TypeOK
<1>9. CASE RuleResponds
  <2>1. p <= Len(pols) /\ j \in 1 .. Len(Policy.validations)
    <3>1. pc = "rules" /\ j <= Len(Policy.validations)
      BY <1>9 DEF RuleResponds
    <3>2. p <= Len(pols)
      BY <3>1 DEF TypeOK
    <3>3. QED
      BY <3>1, <3>2, CurrentPolicy DEF TypeOK
  <2>2. Rule \in {"allow", "deny", "unset"}
    <3>1. Rule \in {"allow", "deny", "unset", "null", "error"}
      BY <2>1, CurrentPolicy, PolicyShape DEF Rule
    <3>2. QED
      BY <1>9, <3>1 DEF RuleResponds
  <2>3. Written(Rule) \in {"rejected", "allow", "deny", "aborted", "implicit"}
    BY <2>2 DEF Written
  <2>4. Finish(Written(Rule))
    BY <1>9 DEF RuleResponds
  <2>5. QED
    BY <2>3, <2>4, FinishType
<1>10. CASE RulesEnd
  BY <1>10, NextPolicyType DEF RulesEnd, TypeOK
<1>11. CASE NoAnswer
  BY <1>11, FinishType DEF NoAnswer
<1>12. CASE UNCHANGED vars
  BY <1>12 DEF vars, TypeOK, Policy
<1>13. QED
  BY <1>1, <1>2, <1>3, <1>4, <1>5, <1>6, <1>7, <1>8, <1>9, <1>10, <1>11, <1>12 DEF Next

(* A step that enters or stays in the loop leaves AtStart alone, and the three *)
(* before the loop evaluate nothing.                                           *)
LEMMA StartInductive == AtStart /\ [Next]_vars => AtStart'
  BY DEF AtStart, Next, vars, Read, Fetch, Convert, Refuse, ConditionError, ConditionTrue,
         ConditionFalse, Matched, MatchFailed, RuleNull, RuleError, RuleResponds, RulesEnd,
         NoAnswer, InMatch, Failure, Finish, NextPolicy

LEMMA TypeInit == Init => TypeOK /\ AtStart
<1>1. <<>> \in Listings
  BY DEF Listings
<1> SUFFICES ASSUME Init PROVE TypeOK /\ AtStart
  OBVIOUS
<1>3. pols = <<>> /\ p = 1 /\ i = 1 /\ j = 1 /\ errs = FALSE /\ answer = "none"
  BY DEF Init
<1>4. pc = "read" \/ pc = "fetch"
  BY Zenon DEF Init
<1>5. Len(pols) = 0 /\ pols \in Listings
  BY <1>1, <1>3
<1>6. ~(p <= Len(pols)) /\ p \in 1 .. Len(pols) + 1
  BY <1>3, <1>5
<1>7. TypeOK
  BY <1>3, <1>4, <1>5, <1>6 DEF TypeOK
<1>8. QED
  BY <1>3, <1>7 DEF AtStart

(* The indices never leave the lists they run over, and what is written is one *)
(* of the answers the handler has.                                             *)
THEOREM TypeCorrect == Spec => []TypeOK
<1>1. Init => TypeOK /\ AtStart
  BY TypeInit
<1>2. TypeOK /\ AtStart /\ [Next]_vars => (TypeOK /\ AtStart)'
  BY TypeInductive, StartInductive
<1>3. QED
  BY <1>1, <1>2, PTL DEF Spec

--------------------------------------------------------------------------------
(* What the verdict of a policy is, case by case.                              *)
LEMMA FalseIsSilent == \A pol : HasFalse(pol) => ~Decides(pol)
  BY DEF Decides, Verdict

LEMMA ErrorVerdict ==
  \A pol : ~HasFalse(pol) /\ HasError(pol) =>
             /\ pol.failurePolicy = "Fail" => Verdict(pol) = "rejected" /\ Decides(pol)
             /\ pol.failurePolicy = "Ignore" => ~Decides(pol)
  BY DEF Decides, Verdict, OnError

LEMMA NullIsSilent ==
  \A pol : ~HasFalse(pol) /\ ~HasError(pol)
           /\ (\A k \in DOMAIN pol.validations : pol.validations[k] = "null") => ~Decides(pol)
  BY DEF Decides, Verdict

(* One validation speaks first.                                                *)
LEMMA FirstIsUnique ==
  ASSUME NEW rules, DOMAIN rules \subseteq Nat \ {0}, NEW k, NEW l,
         SpeaksFirst(k, rules), SpeaksFirst(l, rules)
  PROVE  k = l
<1>1. k \in Nat \ {0} /\ l \in Nat \ {0}
  BY DEF SpeaksFirst
<1>2. rules[k] # "null" /\ rules[l] # "null"
  BY DEF SpeaksFirst
<1>3. (\A n \in 1 .. k - 1 : rules[n] = "null") /\ (\A n \in 1 .. l - 1 : rules[n] = "null")
  BY DEF SpeaksFirst
<1>4. QED
  BY <1>1, <1>2, <1>3

LEMMA RuleVerdict ==
  ASSUME NEW pol \in Policies, ~HasFalse(pol), ~HasError(pol),
         NEW k \in DOMAIN pol.validations, SpeaksFirst(k, pol.validations)
  PROVE  Verdict(pol) = IF pol.validations[k] = "error" THEN OnError(pol)
                        ELSE Written(pol.validations[k])
<1>1. ~(\A l \in DOMAIN pol.validations : pol.validations[l] = "null")
  BY DEF SpeaksFirst
<1>2. DOMAIN pol.validations \subseteq Nat \ {0}
  BY PolicyShape
<1> DEFINE c == CHOOSE l \in DOMAIN pol.validations : SpeaksFirst(l, pol.validations)
<1>3. SpeaksFirst(c, pol.validations)
  BY Zenon
<1>4. c = k
  BY <1>2, <1>3, FirstIsUnique
<1>5. Verdict(pol) = IF pol.validations[c] = "error" THEN OnError(pol)
                     ELSE Written(pol.validations[c])
  BY <1>1, Zenon DEF Verdict
<1>6. QED
  BY <1>4, <1>5

--------------------------------------------------------------------------------
(* What the loop knows.  No policy before the one at hand has a verdict; of    *)
(* the conditions before the one at hand none is false, and errs tells whether *)
(* one of them failed; in the validations all conditions have been found true, *)
(* and those before the one at hand were null.                                 *)
SilentBefore == \A k \in 1 .. p - 1 : ~Decides(pols[k])

Matching ==
    pc = "match" /\ p <= Len(pols) =>
        /\ j = 1
        /\ \A k \in 1 .. i - 1 : Policy.matchConditions[k] # "false"
        /\ errs <=> \E k \in 1 .. i - 1 : Policy.matchConditions[k] = "error"

Validating ==
    pc = "rules" =>
        /\ ~HasFalse(Policy) /\ ~HasError(Policy)
        /\ \A k \in 1 .. j - 1 : Policy.validations[k] = "null"

LoopInv == SilentBefore /\ Matching /\ Validating

(* An answer that is the verdict of the policy at hand is the right one.       *)
LEMMA FinishIsVerdict ==
  ASSUME TypeOK, SilentBefore, p <= Len(pols), Decides(Policy), Finish(Verdict(Policy))
  PROVE  AnswerIsFirstVerdict'
<1>1. p \in DOMAIN pols /\ p \in Nat
  BY ListingShape DEF TypeOK
<1>2. DecidesFirst(p)
  BY <1>1 DEF SilentBefore, DecidesFirst, Policy
<1>3. pols' = pols /\ answer' = Verdict(pols[p])
  BY DEF Finish, Policy
<1>4. /\ p \in DOMAIN pols' /\ answer' = Verdict(pols'[p]) /\ Decides(pols'[p])
      /\ \A l \in 1 .. p - 1 : ~Decides(pols'[l])
  BY <1>2, <1>3 DEF DecidesFirst
<1>5. \E k \in DOMAIN pols' : /\ k \in DOMAIN pols' /\ Decides(pols'[k])
                              /\ \A l \in 1 .. k - 1 : ~Decides(pols'[l])
                              /\ answer' = Verdict(pols'[k])
  BY <1>4
<1>6. QED
  BY <1>5 DEF AnswerIsFirstVerdict, DecidesFirst

(* Leaving a policy that has no verdict keeps what the loop knows.             *)
LEMMA NextPolicyKeeps ==
  ASSUME TypeOK, SilentBefore, p <= Len(pols), ~Decides(Policy), NextPolicy
  PROVE  LoopInv'
<1>1. /\ pols' = pols /\ p' = p + 1 /\ i' = 1 /\ j' = 1 /\ errs' = FALSE /\ pc' = "match"
  BY DEF NextPolicy
<1>2. p \in Nat \ {0}
  BY DEF TypeOK
<1>3. SilentBefore'
  BY <1>1, <1>2 DEF SilentBefore, Policy
<1>4. QED
  BY <1>1, <1>3 DEF LoopInv, Matching, Validating

(* What the failure policy does is what the verdict says.                      *)
LEMMA FailureIsVerdict ==
  ASSUME TypeOK, SilentBefore, p <= Len(pols), Failure,
         Policy.failurePolicy = "Fail" => Verdict(Policy) = "rejected" /\ Decides(Policy),
         Policy.failurePolicy = "Ignore" => ~Decides(Policy)
  PROVE  /\ pc' = "done" => AnswerIsFirstVerdict'
         /\ pc' # "done" => LoopInv'
<1>1. CASE Policy.failurePolicy = "Fail" /\ Finish("rejected")
  <2>1. AnswerIsFirstVerdict'
    BY <1>1, FinishIsVerdict
  <2>2. QED
    BY <1>1, <2>1 DEF Finish
<1>2. CASE Policy.failurePolicy = "Ignore" /\ NextPolicy
  <2>1. LoopInv'
    BY <1>2, NextPolicyKeeps
  <2>2. QED
    BY <1>2, <2>1 DEF NextPolicy
<1>3. QED
  BY <1>1, <1>2 DEF Failure

--------------------------------------------------------------------------------
Verdicts == (pc = "done" => AnswerIsFirstVerdict) /\ (pc # "done" => LoopInv)

(* A condition that is not false keeps what is known of those before it.       *)
LEMMA ConditionKeeps ==
  ASSUME TypeOK, LoopInv, ConditionError \/ ConditionTrue
  PROVE  LoopInv'
<1>1. /\ i' = i + 1 /\ pc' = pc /\ pols' = pols /\ p' = p /\ j' = j
      /\ p <= Len(pols) /\ i <= Len(Policy.matchConditions) /\ pc = "match"
  BY DEF ConditionError, ConditionTrue, InMatch
<1>2. Policy' = Policy /\ i \in Nat \ {0}
  BY <1>1, CurrentPolicy DEF Policy, TypeOK
<1>3. \/ Policy.matchConditions[i] = "error" /\ errs' = TRUE
      \/ Policy.matchConditions[i] = "true" /\ errs' = errs
  BY DEF ConditionError, ConditionTrue, Condition
<1>4. /\ j = 1
      /\ \A k \in 1 .. i - 1 : Policy.matchConditions[k] # "false"
      /\ errs <=> \E k \in 1 .. i - 1 : Policy.matchConditions[k] = "error"
  BY <1>1 DEF LoopInv, Matching
<1>5. \A k \in 1 .. i' - 1 : k = i \/ k \in 1 .. i - 1
  BY <1>1, <1>2
<1>6. i \in 1 .. i' - 1 /\ 1 .. i - 1 \subseteq 1 .. i' - 1
  BY <1>1, <1>2
<1>7. \A k \in 1 .. i' - 1 : Policy'.matchConditions[k] # "false"
  BY <1>2, <1>3, <1>4, <1>5
<1>8. errs' <=> \E k \in 1 .. i' - 1 : Policy'.matchConditions[k] = "error"
  <2>1. CASE Policy.matchConditions[i] = "error" /\ errs' = TRUE
    BY <2>1, <1>2, <1>6
  <2>2. CASE Policy.matchConditions[i] = "true" /\ errs' = errs
    <3>1. (\E k \in 1 .. i' - 1 : Policy'.matchConditions[k] = "error")
            <=> \E k \in 1 .. i - 1 : Policy.matchConditions[k] = "error"
      BY <2>2, <1>2, <1>5, <1>6
    <3>2. QED
      BY <2>2, <1>4, <3>1
  <2>3. QED
    BY <1>3, <2>1, <2>2
<1>9. Matching'
  BY <1>1, <1>4, <1>7, <1>8 DEF Matching
<1>10. SilentBefore' /\ Validating'
  BY <1>1 DEF LoopInv, SilentBefore, Validating
<1>11. QED
  BY <1>9, <1>10 DEF LoopInv

(* At the end of the conditions, errs says whether the policy has an error.    *)
LEMMA AllConditionsSeen ==
  ASSUME TypeOK, LoopInv, InMatch, i > Len(Policy.matchConditions)
  PROVE  ~HasFalse(Policy) /\ (errs <=> HasError(Policy))
<1>1. i = Len(Policy.matchConditions) + 1 /\ Len(Policy.matchConditions) \in Nat
  BY CurrentPolicy DEF InMatch
<1>2. DOMAIN Policy.matchConditions = 1 .. i - 1
  BY <1>1, CurrentPolicy, PolicyShape DEF InMatch
<1>3. QED
  BY <1>2 DEF LoopInv, Matching, InMatch, HasFalse, HasError

(* The validation at hand, when it is not null, is the one that speaks first.  *)
LEMMA RuleSpeaksFirst ==
  ASSUME TypeOK, LoopInv, pc = "rules", j <= Len(Policy.validations), Rule # "null"
  PROVE  /\ j \in DOMAIN Policy.validations
         /\ Verdict(Policy) = IF Rule = "error" THEN OnError(Policy) ELSE Written(Rule)
<1>1. p <= Len(pols) /\ j \in Nat \ {0}
  BY DEF TypeOK
<1>2. j \in DOMAIN Policy.validations /\ Policy \in Policies
  BY <1>1, CurrentPolicy, PolicyShape
<1>3. ~HasFalse(Policy) /\ ~HasError(Policy) /\ SpeaksFirst(j, Policy.validations)
  BY <1>2 DEF LoopInv, Validating, SpeaksFirst, Rule
<1>4. QED
  BY <1>2, <1>3, RuleVerdict DEF Rule

LEMMA VerdictsInductive == TypeOK /\ AtStart /\ Verdicts /\ [Next]_vars => Verdicts'
<1> SUFFICES ASSUME TypeOK, AtStart, Verdicts, [Next]_vars PROVE Verdicts'
  OBVIOUS
<1>1. CASE Read \/ Fetch \/ Convert \/ Refuse
  <2>1. pc' \in {"fetch", "convert", "match", "failed"}
        /\ UNCHANGED <<p, i, j, errs>> /\ pc \in {"read", "fetch", "convert"}
    BY <1>1 DEF Read, Fetch, Convert, Refuse
  <2>2. p' = 1 /\ i' = 1 /\ j' = 1 /\ errs' = FALSE
    BY <2>1 DEF AtStart
  <2>3. LoopInv'
    BY <2>1, <2>2 DEF LoopInv, SilentBefore, Matching, Validating
  <2>4. QED
    BY <2>1, <2>3 DEF Verdicts
<1>2. CASE ConditionError \/ ConditionTrue
  <2>1. pc' = "match" /\ pc = "match"
    BY <1>2 DEF ConditionError, ConditionTrue, InMatch
  <2>2. LoopInv'
    BY <1>2, <2>1, ConditionKeeps DEF Verdicts
  <2>3. QED
    BY <2>1, <2>2 DEF Verdicts
<1>3. CASE ConditionFalse
  <2>1. /\ pc = "match" /\ p <= Len(pols) /\ Condition = "false" /\ NextPolicy
        /\ i <= Len(Policy.matchConditions)
    BY <1>3 DEF ConditionFalse, InMatch
  <2>2. i \in DOMAIN Policy.matchConditions
    BY <2>1, CurrentPolicy, PolicyShape DEF TypeOK
  <2>3. HasFalse(Policy)
    BY <2>1, <2>2 DEF HasFalse, Condition
  <2>4. LoopInv'
    BY <2>1, <2>3, FalseIsSilent, NextPolicyKeeps DEF Verdicts, LoopInv
  <2>5. QED
    BY <2>1, <2>4 DEF Verdicts, NextPolicy
<1>4. CASE Matched
  <2>1. /\ InMatch /\ i > Len(Policy.matchConditions) /\ ~errs /\ pc = "match" /\ pc' = "rules"
        /\ UNCHANGED <<pols, p, i, j, errs, answer>>
    BY <1>4 DEF Matched, InMatch
  <2>2. LoopInv /\ j = 1
    BY <2>1 DEF Verdicts, LoopInv, Matching, InMatch
  <2>3. ~HasFalse(Policy) /\ ~HasError(Policy)
    BY <2>1, <2>2, AllConditionsSeen
  <2>4. Policy' = Policy
    BY <2>1 DEF Policy
  <2>5. LoopInv'
    BY <2>1, <2>2, <2>3, <2>4 DEF LoopInv, SilentBefore, Matching, Validating
  <2>6. QED
    BY <2>1, <2>5 DEF Verdicts
<1>5. CASE MatchFailed
  <2>1. /\ InMatch /\ p <= Len(pols) /\ i > Len(Policy.matchConditions) /\ errs /\ Failure
        /\ pc = "match"
    BY <1>5 DEF MatchFailed, InMatch
  <2>2. LoopInv /\ SilentBefore
    BY <2>1 DEF Verdicts, LoopInv
  <2>3. ~HasFalse(Policy) /\ HasError(Policy)
    BY <2>1, <2>2, AllConditionsSeen
  <2>4. QED
    BY <2>1, <2>2, <2>3, ErrorVerdict, FailureIsVerdict DEF Verdicts
<1>6. CASE RuleNull
  <2>1. /\ pc = "rules" /\ pc' = pc /\ j <= Len(Policy.validations) /\ Rule = "null" /\ j' = j + 1
        /\ UNCHANGED <<pols, p, i, errs, answer>>
    BY <1>6 DEF RuleNull
  <2>2. Policy' = Policy /\ j \in Nat
    BY <2>1, CurrentPolicy DEF Policy, TypeOK
  <2>3. LoopInv
    BY <2>1 DEF Verdicts
  <2>4. \A k \in 1 .. j' - 1 : Policy'.validations[k] = "null"
    BY <2>1, <2>2, <2>3 DEF LoopInv, Validating, Rule
  <2>5. LoopInv'
    BY <2>1, <2>2, <2>3, <2>4 DEF LoopInv, SilentBefore, Matching, Validating
  <2>6. QED
    BY <2>1, <2>5 DEF Verdicts
<1>7. CASE RuleError
  <2>1. /\ pc = "rules" /\ j <= Len(Policy.validations) /\ Rule = "error" /\ Failure
        /\ p <= Len(pols)
    BY <1>7 DEF RuleError, TypeOK
  <2>2. LoopInv /\ SilentBefore
    BY <2>1 DEF Verdicts, LoopInv
  <2>3. Verdict(Policy) = OnError(Policy)
    BY <2>1, <2>2, RuleSpeaksFirst
  <2>4. QED
    BY <2>1, <2>2, <2>3, FailureIsVerdict DEF Verdicts, OnError, Decides
<1>8. CASE RuleResponds
  <2>1. /\ pc = "rules" /\ j <= Len(Policy.validations) /\ Rule \notin {"null", "error"}
        /\ Finish(Written(Rule)) /\ p <= Len(pols)
    BY <1>8 DEF RuleResponds, TypeOK
  <2>2. LoopInv /\ SilentBefore
    BY <2>1 DEF Verdicts, LoopInv
  <2>3. Verdict(Policy) = Written(Rule) /\ j \in DOMAIN Policy.validations
    BY <2>1, <2>2, RuleSpeaksFirst
  <2>4. Rule \in {"allow", "deny", "unset"}
    BY <2>1, <2>3, CurrentPolicy, PolicyShape DEF Rule
  <2>5. Decides(Policy)
    BY <2>3, <2>4 DEF Decides, Written
  <2>6. AnswerIsFirstVerdict'
    BY <2>1, <2>2, <2>3, <2>5, FinishIsVerdict
  <2>7. QED
    BY <2>1, <2>6 DEF Verdicts, Finish
<1>9. CASE RulesEnd
  <2>1. /\ pc = "rules" /\ j > Len(Policy.validations) /\ NextPolicy /\ p <= Len(pols)
    BY <1>9 DEF RulesEnd, TypeOK
  <2>2. LoopInv /\ SilentBefore
    BY <2>1 DEF Verdicts, LoopInv
  <2>3. DOMAIN Policy.validations = 1 .. j - 1
    BY <2>1, CurrentPolicy, PolicyShape
  <2>4. ~Decides(Policy)
    BY <2>1, <2>2, <2>3, NullIsSilent DEF LoopInv, Validating
  <2>5. LoopInv'
    BY <2>1, <2>2, <2>4, NextPolicyKeeps
  <2>6. QED
    BY <2>1, <2>5 DEF Verdicts, NextPolicy
<1>10. CASE NoAnswer
  <2>1. /\ pc = "match" /\ p > Len(pols) /\ pc' = "done" /\ answer' = "implicit" /\ pols' = pols
    BY <1>10 DEF NoAnswer, Finish
  <2>2. DOMAIN pols = 1 .. p - 1
    BY <2>1, ListingShape DEF TypeOK
  <2>3. \A k \in DOMAIN pols : ~Decides(pols[k])
    BY <2>1, <2>2 DEF Verdicts, LoopInv, SilentBefore
  <2>4. AnswerIsFirstVerdict'
    BY <2>1, <2>3 DEF AnswerIsFirstVerdict
  <2>5. QED
    BY <2>1, <2>4 DEF Verdicts
<1>11. CASE UNCHANGED vars
  <2>1. UNCHANGED <<pc, pols, p, i, j, errs, answer>> /\ Policy' = Policy
    BY <1>11 DEF vars, Policy
  <2>2. LoopInv => LoopInv'
    BY <2>1 DEF LoopInv, SilentBefore, Matching, Validating
  <2>3. AnswerIsFirstVerdict => AnswerIsFirstVerdict'
    BY <2>1 DEF AnswerIsFirstVerdict, DecidesFirst
  <2>4. QED
    BY <2>1, <2>2, <2>3 DEF Verdicts
<1>12. QED
  BY <1>1, <1>2, <1>3, <1>4, <1>5, <1>6, <1>7, <1>8, <1>9, <1>10, <1>11 DEF Next

(* Whatever the listing and however its evaluations turn out, the answer is    *)
(* the verdict of the first policy that has one, and the implicit response     *)
(* only if none has: the loops of the handler and of ForHTTP compute what the  *)
(* documentation says of policies, conditions and validations.                 *)
THEOREM AnswersAreVerdicts == Spec => []AnswerIsFirstVerdict
<1>1. Init => TypeOK /\ AtStart /\ Verdicts
  <2> SUFFICES ASSUME Init PROVE TypeOK /\ AtStart /\ Verdicts
    OBVIOUS
  <2>1. pc = "read" \/ pc = "fetch"
    BY Zenon DEF Init
  <2>2. LoopInv
    BY <2>1 DEF Init, LoopInv, SilentBefore, Matching, Validating
  <2>3. QED
    BY <2>1, <2>2, TypeInit DEF Verdicts
<1>2. TypeOK /\ AtStart /\ Verdicts /\ [Next]_vars => (TypeOK /\ AtStart /\ Verdicts)'
  BY TypeInductive, StartInductive, VerdictsInductive
<1>3. Verdicts => AnswerIsFirstVerdict
  BY DEF Verdicts, AnswerIsFirstVerdict
<1>4. QED
  BY <1>1, <1>2, <1>3, PTL DEF Spec

--------------------------------------------------------------------------------
(* How long an evaluation takes.                                               *)

(* The listing is within its bound, and a policy that is not there has no      *)
(* conditions.                                                                 *)
WithinBounds ==
    /\ Len(pols) <= MaxPolicies
    /\ pc = "match" /\ p > Len(pols) => i = 1

LEMMA BoundedFromStart == Init => WithinBounds
<1>1. Init => pols = <<>> /\ i = 1
  BY DEF Init
<1>2. QED
  BY <1>1, BoundsAreNat DEF WithinBounds

LEMMA WithinBoundsInductive ==
  TypeOK /\ AtStart /\ WithinBounds /\ [Next]_vars => WithinBounds'
<1> SUFFICES ASSUME TypeOK, AtStart, WithinBounds, [Next]_vars PROVE WithinBounds'
  OBVIOUS
<1>1. CASE Fetch
  <2>1. PICK n \in 0 .. MaxPolicies : pols' \in [1 .. n -> Policies]
    BY <1>1 DEF Fetch
  <2>2. Len(pols') = n
    BY <2>1, BoundsAreNat, SeqDef, LenProperties
  <2>3. pc' = "convert"
    BY <1>1 DEF Fetch
  <2>4. QED
    BY <2>1, <2>2, <2>3, BoundsAreNat DEF WithinBounds
<1>2. CASE ~Fetch
  <2>1. pols' = pols
    BY <1>2 DEF Next, vars, Read, Convert, Refuse, ConditionError, ConditionTrue, ConditionFalse,
                Matched, MatchFailed, RuleNull, RuleError, RuleResponds, RulesEnd, NoAnswer,
                Failure, Finish, NextPolicy
  <2>2. pc' = "match" /\ p' > Len(pols) => i' = 1
    BY <1>2 DEF Next, vars, Read, Convert, Refuse, ConditionError, ConditionTrue, ConditionFalse,
                Matched, MatchFailed, RuleNull, RuleError, RuleResponds, RulesEnd, NoAnswer,
                Failure, Finish, NextPolicy, InMatch, AtStart, WithinBounds, TypeOK
  <2>3. QED
    BY <2>1, <2>2 DEF WithinBounds
<1>3. QED
  BY <1>1, <1>2

(* What is left of the policies behind is less than what is left of all.       *)
LEMMA Products ==
  ASSUME NEW K \in Nat, NEW a \in Nat, NEW b \in Nat, a <= b
  PROVE  a * K \in Nat /\ b * K \in Nat /\ a * K <= b * K /\ (a + 1) * K = a * K + K
<1>1. PICK d \in Nat : b = a + d
  <2>1. b - a \in Nat /\ b = a + (b - a)
    OBVIOUS
  <2>2. QED
    BY <2>1
<1>2. (a + d) * K = a * K + d * K /\ (a + 1) * K = a * K + K
  OBVIOUS
<1>3. a * K \in Nat /\ d * K \in Nat
  OBVIOUS
<1> DEFINE x == a * K
           y == d * K
<1>4. x \in Nat /\ y \in Nat /\ b * K = x + y
  BY <1>1, <1>2, <1>3
<1> HIDE DEF x, y
<1>5. b * K \in Nat /\ x <= b * K
  BY <1>4
<1>6. QED
  BY <1>2, <1>4, <1>5 DEF x

(* The lists of a policy are within their bounds.                             *)
LEMMA ShortLists ==
  ASSUME NEW pol \in Policies
  PROVE  Len(pol.matchConditions) <= MaxConditions /\ Len(pol.validations) <= MaxRules
<1>1. ASSUME NEW S, NEW n \in Nat, NEW s \in BoundedSeq(S, n) PROVE Len(s) <= n
  <2>1. PICK m \in 0 .. n : s \in [1 .. m -> S]
    BY DEF BoundedSeq, SeqOf
  <2>2. Len(s) = m
    BY <2>1, SeqDef, LenProperties
  <2>3. QED
    BY <2>1, <2>2
<1>2. QED
  BY <1>1, BoundsAreNat DEF Policies

(* What is left at each place, in terms of the policies behind the one at hand.*)
LEMMA LeftInLoop ==
  ASSUME TypeOK, p <= Len(pols)
  PROVE  /\ PerPolicy \in Nat /\ Len(pols) - p \in Nat
         /\ (Len(pols) - p) * PerPolicy \in Nat
         /\ (Len(pols) + 1 - p) * PerPolicy = (Len(pols) - p) * PerPolicy + PerPolicy
         /\ i \in 1 .. MaxConditions + 1 /\ j \in 1 .. MaxRules + 1
<1>1. PerPolicy \in Nat
  BY BoundsAreNat DEF PerPolicy
<1>2. Len(pols) - p \in Nat /\ Len(pols) + 1 - p = (Len(pols) - p) + 1
  BY ListingShape DEF TypeOK
<1>3. Policy \in Policies
  BY CurrentPolicy
<1>4. i \in 1 .. MaxConditions + 1 /\ j \in 1 .. MaxRules + 1
  BY <1>3, CurrentPolicy, ShortLists, BoundsAreNat DEF TypeOK
<1>5. QED
  BY <1>1, <1>2, <1>4, Products

(* Going on to the next policy, giving up, and every other step.               *)
LEMMA NextPolicyAdvances ==
  ASSUME TypeOK, p <= Len(pols), pc \in {"match", "rules"}, NextPolicy
  PROVE  EvaluationLeft' \in 0 .. EvaluationLeft - 1
<1> DEFINE x == (Len(pols) - p) * PerPolicy
           y == (Len(pols) + 1 - p) * PerPolicy
<1>1. x \in Nat /\ y = x + PerPolicy
  BY LeftInLoop
<1>2. EvaluationLeft' = x + 1
  <2>1. pc' = "match" /\ pols' = pols /\ p' = p + 1 /\ i' = 1
    BY DEF NextPolicy
  <2>2. Len(pols) + 1 - (p + 1) = Len(pols) - p
    BY ListingShape DEF TypeOK
  <2>3. EvaluationLeft' = (Len(pols) + 1 - (p + 1)) * PerPolicy + 2 - 1
    BY <2>1 DEF EvaluationLeft, PerPolicy
  <2>4. EvaluationLeft' = x + 2 - 1
    BY <2>2, <2>3
  <2> HIDE DEF x
  <2>5. QED
    BY <1>1, <2>4
<1>3. \/ pc = "match" /\ EvaluationLeft = y + 2 - i
      \/ pc = "rules" /\ EvaluationLeft = x + MaxRules + 3 - j
  BY DEF EvaluationLeft
<1>4. i \in 1 .. MaxConditions + 1 /\ j \in 1 .. MaxRules + 1
  BY LeftInLoop
<1> HIDE DEF x, y
<1>5. QED
  BY <1>1, <1>2, <1>3, <1>4, BoundsAreNat DEF PerPolicy

(* What is left is a number as long as the request is not over.                *)
LEMMA SomethingLeft ==
  ASSUME TypeOK, WithinBounds, pc \notin {"done", "failed"}
  PROVE  EvaluationLeft \in Nat \ {0}
<1>1. CASE pc \in {"read", "fetch", "convert"}
  <2>1. MaxPolicies * PerPolicy \in Nat
    BY BoundsAreNat, Products DEF PerPolicy
  <2> DEFINE x == MaxPolicies * PerPolicy
  <2>2. EvaluationLeft \in {x + 4, x + 3, x + 2}
    BY <1>1 DEF EvaluationLeft
  <2> HIDE DEF x
  <2>3. QED
    BY <2>1, <2>2 DEF x
<1>2. CASE pc \in {"match", "rules"} /\ p <= Len(pols)
  <2> DEFINE x == (Len(pols) - p) * PerPolicy
             y == (Len(pols) + 1 - p) * PerPolicy
  <2>1. x \in Nat /\ y = x + PerPolicy
    BY <1>2, LeftInLoop
  <2>2. \/ EvaluationLeft = y + 2 - i
        \/ EvaluationLeft = x + MaxRules + 3 - j
    BY <1>2 DEF EvaluationLeft
  <2>3. i \in 1 .. MaxConditions + 1 /\ j \in 1 .. MaxRules + 1
    BY <1>2, LeftInLoop
  <2> HIDE DEF x, y
  <2>4. QED
    BY <2>1, <2>2, <2>3, BoundsAreNat DEF PerPolicy
<1>3. CASE pc = "match" /\ p > Len(pols)
  <2>1. i = 1 /\ Len(pols) + 1 - p = 0
    BY <1>3, ListingShape DEF TypeOK, WithinBounds
  <2>2. EvaluationLeft = 0 * PerPolicy + 2 - 1
    BY <1>3, <2>1 DEF EvaluationLeft
  <2>3. PerPolicy \in Nat
    BY BoundsAreNat DEF PerPolicy
  <2>4. 0 * PerPolicy = 0
    BY <2>3
  <2>5. QED
    BY <2>2, <2>4
<1>4. QED
  <2>1. p <= Len(pols) \/ p > Len(pols)
    BY ListingShape DEF TypeOK
  <2>2. QED
    BY <1>1, <1>2, <1>3, <2>1 DEF TypeOK

LEMMA FinishAdvances ==
  ASSUME TypeOK, WithinBounds, pc \notin {"done", "failed"}, pc' \in {"done", "failed"}
  PROVE  EvaluationLeft' \in 0 .. EvaluationLeft - 1
<1>1. EvaluationLeft' = 0
  BY DEF EvaluationLeft
<1>2. QED
  BY <1>1, SomethingLeft

LEMMA FailureAdvances ==
  ASSUME TypeOK, WithinBounds, p <= Len(pols), pc \in {"match", "rules"}, Failure
  PROVE  EvaluationLeft' \in 0 .. EvaluationLeft - 1
<1>1. CASE Finish("rejected")
  BY <1>1, FinishAdvances DEF Finish
<1>2. CASE NextPolicy
  BY <1>2, NextPolicyAdvances
<1>3. QED
  BY <1>1, <1>2 DEF Failure

LEMMA StepAdvances ==
  ASSUME TypeOK, AtStart, WithinBounds, Next
  PROVE  EvaluationLeft' \in 0 .. EvaluationLeft - 1
<1>1. CASE Read \/ Fetch
  <2> DEFINE x == MaxPolicies * PerPolicy
  <2>1. x \in Nat
    BY BoundsAreNat, Products DEF PerPolicy
  <2>2. \/ pc = "read" /\ pc' = "fetch"
        \/ pc = "fetch" /\ pc' = "convert"
    BY <1>1 DEF Read, Fetch
  <2>3. \/ EvaluationLeft = x + 4 /\ EvaluationLeft' = x + 3
        \/ EvaluationLeft = x + 3 /\ EvaluationLeft' = x + 2
    BY <2>2 DEF EvaluationLeft, PerPolicy
  <2> HIDE DEF x
  <2>4. QED
    BY <2>1, <2>3
<1>2. CASE Convert
  <2> DEFINE x == MaxPolicies * PerPolicy
             y == Len(pols) * PerPolicy
  <2>1. pc = "convert" /\ pc' = "match" /\ pols' = pols /\ p' = 1 /\ i' = 1 /\ p = 1
    BY <1>2 DEF Convert, AtStart
  <2>2. Len(pols) \in Nat /\ Len(pols) <= MaxPolicies /\ Len(pols) + 1 - 1 = Len(pols)
    BY ListingShape DEF TypeOK, WithinBounds
  <2>3. x \in Nat /\ y \in Nat /\ y <= x
    BY <2>2, BoundsAreNat, Products DEF PerPolicy
  <2>4. EvaluationLeft = x + 2
    BY <2>1 DEF EvaluationLeft
  <2>5. EvaluationLeft' = (Len(pols) + 1 - 1) * PerPolicy + 2 - 1
    BY <2>1 DEF EvaluationLeft, PerPolicy
  <2>6. EvaluationLeft' = y + 2 - 1
    BY <2>2, <2>5
  <2> HIDE DEF x, y
  <2>7. QED
    BY <2>3, <2>4, <2>6
<1>3. CASE Refuse
  BY <1>3, FinishAdvances DEF Refuse
<1>4. CASE ConditionError \/ ConditionTrue
  <2> DEFINE y == (Len(pols) + 1 - p) * PerPolicy
  <2>1. /\ pc = "match" /\ pc' = "match" /\ pols' = pols /\ p' = p /\ i' = i + 1
        /\ p <= Len(pols) /\ i <= Len(Policy.matchConditions)
    BY <1>4 DEF ConditionError, ConditionTrue, InMatch
  <2>2. EvaluationLeft = y + 2 - i /\ EvaluationLeft' = y + 2 - (i + 1)
    BY <2>1 DEF EvaluationLeft, PerPolicy
  <2>3. i \in Nat /\ i <= MaxConditions
    <3>1. Len(Policy.matchConditions) <= MaxConditions /\ i \in Nat
             /\ Len(Policy.matchConditions) \in Nat
      BY <2>1, CurrentPolicy, ShortLists
    <3>2. QED
      BY <2>1, <3>1, BoundsAreNat
  <2>4. y \in Nat /\ y >= PerPolicy
    <3> DEFINE x == (Len(pols) - p) * PerPolicy
    <3>1. x \in Nat /\ y = x + PerPolicy /\ PerPolicy \in Nat
      BY <2>1, LeftInLoop
    <3> HIDE DEF x, y
    <3>2. QED
      BY <3>1
  <2> HIDE DEF y
  <2>5. QED
    BY <2>2, <2>3, <2>4, BoundsAreNat DEF PerPolicy
<1>5. CASE ConditionFalse
  BY <1>5, NextPolicyAdvances DEF ConditionFalse, InMatch
<1>6. CASE Matched
  <2> DEFINE x == (Len(pols) - p) * PerPolicy
             y == (Len(pols) + 1 - p) * PerPolicy
  <2>1. /\ pc = "match" /\ pc' = "rules" /\ pols' = pols /\ p' = p /\ j' = j
        /\ p <= Len(pols)
    BY <1>6 DEF Matched, InMatch
  <2>2. EvaluationLeft = y + 2 - i /\ EvaluationLeft' = x + MaxRules + 3 - j
    BY <2>1 DEF EvaluationLeft, PerPolicy
  <2>3. x \in Nat /\ y = x + PerPolicy
    BY <2>1, LeftInLoop
  <2>4. i \in 1 .. MaxConditions + 1 /\ j \in 1 .. MaxRules + 1
    BY <2>1, LeftInLoop
  <2> HIDE DEF x, y
  <2>5. QED
    BY <2>2, <2>3, <2>4, BoundsAreNat DEF PerPolicy
<1>7. CASE MatchFailed
  BY <1>7, FailureAdvances DEF MatchFailed, InMatch
<1>8. CASE RuleNull
  <2> DEFINE x == (Len(pols) - p) * PerPolicy
  <2>1. /\ pc = "rules" /\ pc' = "rules" /\ pols' = pols /\ p' = p /\ j' = j + 1
        /\ j <= Len(Policy.validations)
    BY <1>8 DEF RuleNull
  <2>2. p <= Len(pols)
    BY <2>1 DEF TypeOK
  <2>3. EvaluationLeft = x + MaxRules + 3 - j /\ EvaluationLeft' = x + MaxRules + 3 - (j + 1)
    BY <2>1 DEF EvaluationLeft, PerPolicy
  <2>4. x \in Nat
    BY <2>2, LeftInLoop
  <2>5. j \in Nat /\ j <= MaxRules
    <3>1. Len(Policy.validations) <= MaxRules /\ j \in Nat /\ Len(Policy.validations) \in Nat
      BY <2>2, CurrentPolicy, ShortLists
    <3>2. QED
      BY <2>1, <3>1, BoundsAreNat
  <2> HIDE DEF x
  <2>6. QED
    BY <2>3, <2>4, <2>5, BoundsAreNat
<1>9. CASE RuleError
  BY <1>9, FailureAdvances DEF RuleError, TypeOK
<1>10. CASE RuleResponds
  BY <1>10, FinishAdvances DEF RuleResponds, Finish
<1>11. CASE RulesEnd
  BY <1>11, NextPolicyAdvances DEF RulesEnd, TypeOK
<1>12. CASE NoAnswer
  BY <1>12, FinishAdvances DEF NoAnswer, Finish
<1>13. QED
  BY <1>1, <1>2, <1>3, <1>4, <1>5, <1>6, <1>7, <1>8, <1>9, <1>10, <1>11, <1>12 DEF Next

(* Each step of the handler takes one at least of those it has left, of which  *)
(* it has MaxPolicies * PerPolicy + 4 at most when the request comes: the      *)
(* three loops of handlers.go and policy.go end, whatever the policies say.    *)
THEOREM EvaluationIsBounded == Spec => [][EvaluationLeft' \in 0 .. EvaluationLeft - 1]_vars
<1>1. /\ TypeOK /\ AtStart /\ WithinBounds /\ [Next]_vars
      => [EvaluationLeft' \in 0 .. EvaluationLeft - 1]_vars
  BY StepAdvances
<1>2. QED
  BY <1>1, BoundedFromStart, TypeInit, TypeInductive, StartInductive, WithinBoundsInductive, PTL DEF Spec
================================================================================
