--------------------------- MODULE TranslationProofs ---------------------------
(* Proofs about Translation, for policies with any number of conditions,       *)
(* variables and validations.                                                  *)
EXTENDS Translation, SequenceTheorems, TLAPS

(* A bounded sequence is a sequence.                                           *)
LEMMA BoundedSeqIsSeq ==
  ASSUME NEW S, NEW n \in Nat, NEW s \in BoundedSeq(S, n)
  PROVE  s \in Seq(S)
<1>1. PICK m \in 0 .. n : s \in [1 .. m -> S]
  BY DEF BoundedSeq, SeqOf
<1>2. m \in Nat
  BY <1>1
<1>3. QED
  BY <1>1, <1>2, SeqDef

(* The lists of a policy are sequences of expressions.                         *)
ListsOf(pol) ==
    /\ pol.matchConditions \in Seq(Conditions)
    /\ pol.variables \in Seq(Variables)
    /\ pol.validations \in Seq(Validations)

LEMMA PolicyShape ==
  ASSUME NEW pol \in Policies
  PROVE  ListsOf(pol)
<1>1. /\ pol.matchConditions \in BoundedSeq(Conditions, MaxConditions)
      /\ pol.variables \in BoundedSeq(Variables, MaxVariables)
      /\ pol.validations \in BoundedSeq(Validations, MaxValidations)
  BY DEF Policies
<1>2. {MaxConditions, MaxVariables, MaxValidations} \subseteq Nat
  BY BoundsAreNat
<1>3. QED
  BY <1>1, <1>2, BoundedSeqIsSeq DEF ListsOf

(* The translations keep the lists, and always say what the failure policy is. *)
SameLists(a, b) ==
    /\ a.matchConditions = b.matchConditions
    /\ a.variables = b.variables
    /\ a.validations = b.validations

LEMMA RoundTrip ==
  ASSUME NEW pol \in Policies
  PROVE  /\ FromProto(ToProto(pol)) \in Policies
         /\ SameLists(FromProto(ToProto(pol)), pol)
         /\ FromProto(ToProto(pol)).failurePolicy =
              IF pol.failurePolicy = "unset" THEN "Ignore" ELSE pol.failurePolicy
<1>1. /\ pol.failurePolicy \in {"Fail", "Ignore", "unset"}
      /\ pol.matchConditions \in BoundedSeq(Conditions, MaxConditions)
      /\ pol.variables \in {s \in BoundedSeq(Variables, MaxVariables) : NamesDiffer(s)}
      /\ pol.validations \in BoundedSeq(Validations, MaxValidations)
  BY DEF Policies
<1>2. FromProto(ToProto(pol)) =
        [mode            |-> "unset",
         failurePolicy   |-> IF pol.failurePolicy = "unset" THEN "Ignore" ELSE pol.failurePolicy,
         matchConditions |-> pol.matchConditions,
         variables       |-> pol.variables,
         validations     |-> pol.validations]
  BY DEF FromProto, ToProto
<1>3. QED
  BY <1>1, <1>2 DEF Policies, SameLists

--------------------------------------------------------------------------------
(* What the documentation asks of a policy, index by index.                    *)
ConditionScoped(pol, l) ==
    pol.matchConditions[l].uses = {} /\ pol.matchConditions[l].type = "bool"
VariableScoped(pol, l) == pol.variables[l].uses \subseteq Declared(pol, l - 1)
ValidationScoped(pol, l) ==
    /\ pol.validations[l].uses \subseteq Declared(pol, Len(pol.variables))
    /\ pol.validations[l].type # "other"

ConditionsScoped(pol, n) == \A l \in 1 .. n : ConditionScoped(pol, l)
VariablesScoped(pol, n) == \A l \in 1 .. n : VariableScoped(pol, l)
ValidationsScoped(pol, n) == \A l \in 1 .. n : ValidationScoped(pol, l)

LEMMA ScopedByIndex ==
  ASSUME NEW pol, ListsOf(pol)
  PROVE  WellScoped(pol) <=> /\ ConditionsScoped(pol, Len(pol.matchConditions))
                             /\ VariablesScoped(pol, Len(pol.variables))
                             /\ ValidationsScoped(pol, Len(pol.validations))
<1>1. /\ DOMAIN pol.matchConditions = 1 .. Len(pol.matchConditions)
      /\ DOMAIN pol.variables = 1 .. Len(pol.variables)
      /\ DOMAIN pol.validations = 1 .. Len(pol.validations)
  BY LenProperties DEF ListsOf
<1>2. (\A c \in ToSet(pol.matchConditions) : c.uses = {} /\ c.type = "bool")
        <=> ConditionsScoped(pol, Len(pol.matchConditions))
  BY <1>1 DEF ToSet, ConditionsScoped, ConditionScoped
<1>3. (\A r \in ToSet(pol.validations) :
         r.uses \subseteq Declared(pol, Len(pol.variables)) /\ r.type # "other")
        <=> ValidationsScoped(pol, Len(pol.validations))
  BY <1>1 DEF ToSet, ValidationsScoped, ValidationScoped
<1>4. QED
  BY <1>1, <1>2, <1>3 DEF WellScoped, VariablesScoped, VariableScoped

LEMMA SameScope ==
  ASSUME NEW a, NEW b, SameLists(a, b)
  PROVE  WellScoped(a) <=> WellScoped(b)
  BY DEF SameLists, WellScoped, Declared

(* One more index of a loop.                                                   *)
LEMMA OneMore ==
  ASSUME NEW pol, NEW n \in Nat \ {0}
  PROVE  /\ ConditionsScoped(pol, n) <=> ConditionsScoped(pol, n - 1) /\ ConditionScoped(pol, n)
         /\ VariablesScoped(pol, n) <=> VariablesScoped(pol, n - 1) /\ VariableScoped(pol, n)
         /\ ValidationsScoped(pol, n) <=> ValidationsScoped(pol, n - 1) /\ ValidationScoped(pol, n)
         /\ Declared(pol, n) = Declared(pol, n - 1) \cup {pol.variables[n].name}
<1>1. 1 .. n = (1 .. n - 1) \cup {n}
  OBVIOUS
<1>2. Declared(pol, n) = Declared(pol, n - 1) \cup {pol.variables[n].name}
  BY <1>1 DEF Declared
<1>3. QED
  BY <1>1, <1>2 DEF ConditionsScoped, VariablesScoped, ValidationsScoped

LEMMA NoneYet ==
  ASSUME NEW pol
  PROVE  /\ ConditionsScoped(pol, 0) /\ VariablesScoped(pol, 0) /\ ValidationsScoped(pol, 0)
         /\ Declared(pol, 0) = {}
  BY DEF ConditionsScoped, VariablesScoped, ValidationsScoped, Declared

--------------------------------------------------------------------------------
(* The inductive invariant.                                                    *)

(* The policy where it is, against the policy as it was written.               *)
SpecOfPolicy ==
    /\ SameLists(spec, policy)
    /\ site # "sidecar" => spec = policy
    /\ spec.failurePolicy = IF IgnoredBySidecars THEN "Ignore" ELSE policy.failurePolicy

(* What the compiler knows of the policy, and has declared, at each place.     *)
ScopedSoFar ==
    /\ pc = "conditions" =>
         /\ fields = {}
         /\ ConditionsScoped(spec, k - 1)
    /\ pc \in {"variables", "validations", "served"} =>
         ConditionsScoped(spec, Len(spec.matchConditions))
    /\ pc = "variables" =>
         /\ fields = Declared(spec, k - 1)
         /\ VariablesScoped(spec, k - 1)
    /\ pc \in {"validations", "served"} => VariablesScoped(spec, Len(spec.variables))
    /\ pc = "validations" =>
         /\ fields = Declared(spec, Len(spec.variables))
         /\ ValidationsScoped(spec, k - 1)
    /\ pc = "served" => ValidationsScoped(spec, Len(spec.validations))

(* The webhook compiles what is for HTTP, and keeps what it admits.            *)
Admission ==
    /\ site = "webhook" => admitted = None
    /\ site = "webhook" /\ pc \in {"conditions", "variables", "validations"} => policy.mode = "HTTP"
    /\ admitted # None => /\ WellScoped(policy)
                          /\ policy.mode = "HTTP"
                          /\ admitted = Program(policy)
    /\ pc = "passed" => site = "webhook"

(* How it ended.                                                               *)
Ended ==
    /\ pc = "refused" => ~WellScoped(policy)
    /\ pc \in {"ignored", "panicked"} => policy.mode # "HTTP"
    /\ pc = "served" => program = Program(spec)

TranslationInv == TypeOK /\ SpecOfPolicy /\ ScopedSoFar /\ Admission /\ Ended

(* The loops' indices, loop by loop.                                           *)
IndexIn(place, i, pol) ==
    /\ place = "conditions" => i \in 1 .. Len(pol.matchConditions) + 1
    /\ place = "variables" => i \in 1 .. Len(pol.variables) + 1
    /\ place = "validations" => i \in 1 .. Len(pol.validations) + 1

ListsIn(pol) == [conditions |-> pol.matchConditions, variables |-> pol.variables,
                 validations |-> pol.validations]

LEMMA IndexByLoop ==
  ASSUME NEW place, NEW i, NEW pol
  PROVE  (place \in DOMAIN ListsIn(pol) => i \in 1 .. Len(ListsIn(pol)[place]) + 1)
           <=> IndexIn(place, i, pol)
<1>1. DOMAIN ListsIn(pol) = {"conditions", "variables", "validations"}
  BY DEF ListsIn
<1>2. /\ ListsIn(pol)["conditions"] = pol.matchConditions
      /\ ListsIn(pol)["variables"] = pol.variables
      /\ ListsIn(pol)["validations"] = pol.validations
  BY DEF ListsIn
<1>3. CASE place = "conditions"
  BY <1>1, <1>2, <1>3 DEF IndexIn
<1>4. CASE place = "variables"
  BY <1>1, <1>2, <1>4 DEF IndexIn
<1>5. CASE place = "validations"
  BY <1>1, <1>2, <1>5 DEF IndexIn
<1>6. CASE place \notin {"conditions", "variables", "validations"}
  BY <1>1, <1>6 DEF IndexIn
<1>7. QED
  BY <1>3, <1>4, <1>5, <1>6

(* The type invariant, with the index loop by loop.                            *)
TypesByLoop ==
    /\ policy \in Policies /\ spec \in Policies
    /\ site \in {"webhook", "standalone", "control plane", "sidecar"}
    /\ pc \in {"received", "conditions", "variables", "validations",
               "passed", "refused", "ignored", "panicked", "served"}
    /\ IndexIn(pc, k, spec)
    /\ fields \subseteq VarNames
    /\ pc = "served" <=> program # None

LEMMA TypesAreByLoop == (TypeOK <=> TypesByLoop) /\ (TypeOK' <=> TypesByLoop')
<1>1. Lists = ListsIn(spec) /\ Lists' = ListsIn(spec')
  BY DEF Lists, ListsIn
<1>2. TypeOK <=> TypesByLoop
  BY <1>1, IndexByLoop DEF TypeOK, TypesByLoop
<1>3. TypeOK' <=> TypesByLoop'
  BY <1>1, IndexByLoop DEF TypeOK, TypesByLoop
<1>4. QED
  BY <1>2, <1>3

(* The lists have lengths, and the index of the loop is a number.              *)
LEMMA Numbers ==
  ASSUME TypesByLoop
  PROVE  /\ ListsOf(spec) /\ ListsOf(policy)
         /\ Len(spec.matchConditions) \in Nat
         /\ Len(spec.variables) \in Nat
         /\ Len(spec.validations) \in Nat
         /\ pc = "conditions" => k \in Nat \ {0} /\ k <= Len(spec.matchConditions) + 1
         /\ pc = "variables" => k \in Nat \ {0} /\ k <= Len(spec.variables) + 1
         /\ pc = "validations" => k \in Nat \ {0} /\ k <= Len(spec.validations) + 1
<1>1. ListsOf(spec) /\ ListsOf(policy)
  BY PolicyShape DEF TypesByLoop
<1>2. /\ Len(spec.matchConditions) \in Nat
      /\ Len(spec.variables) \in Nat
      /\ Len(spec.validations) \in Nat
  BY <1>1, LenProperties DEF ListsOf
<1>3. IndexIn(pc, k, spec)
  BY DEF TypesByLoop
<1>4. pc = "conditions" => k \in Nat \ {0} /\ k <= Len(spec.matchConditions) + 1
  BY <1>2, <1>3 DEF IndexIn
<1>5. pc = "variables" => k \in Nat \ {0} /\ k <= Len(spec.variables) + 1
  BY <1>2, <1>3 DEF IndexIn
<1>6. pc = "validations" => k \in Nat \ {0} /\ k <= Len(spec.validations) + 1
  BY <1>2, <1>3 DEF IndexIn
<1>7. QED
  BY <1>1, <1>2, <1>4, <1>5, <1>6

(* The policy is well scoped here when it is as it was written.                *)
LEMMA ScopedHere ==
  ASSUME TypesByLoop, SpecOfPolicy
  PROVE  WellScoped(policy) <=> /\ ConditionsScoped(spec, Len(spec.matchConditions))
                                /\ VariablesScoped(spec, Len(spec.variables))
                                /\ ValidationsScoped(spec, Len(spec.validations))
<1>1. WellScoped(spec) <=> WellScoped(policy)
  BY SameScope DEF SpecOfPolicy
<1>2. QED
  BY <1>1, Numbers, ScopedByIndex

--------------------------------------------------------------------------------
(* The invariant holds at first, and every step keeps it.                      *)
LEMMA TranslationInit == Init => TranslationInv
<1> SUFFICES ASSUME Init PROVE TranslationInv
  OBVIOUS
<1>1. TypesByLoop
  BY DEF Init, TypesByLoop, IndexIn
<1>2. SpecOfPolicy /\ ScopedSoFar /\ Admission /\ Ended
  BY DEF Init, SpecOfPolicy, IgnoredBySidecars, SameLists, ScopedSoFar, Admission, Ended
<1>3. QED
  BY <1>1, <1>2, TypesAreByLoop DEF TranslationInv

LEMMA TranslationStep == TranslationInv /\ [Next]_vars => TranslationInv'
<1> SUFFICES ASSUME TypesByLoop, SpecOfPolicy, ScopedSoFar, Admission, Ended, [Next]_vars
             PROVE  /\ TypesByLoop' /\ SpecOfPolicy' /\ ScopedSoFar' /\ Admission' /\ Ended'
  BY TypesAreByLoop DEF TranslationInv
<1>0. /\ Len(spec.matchConditions) \in Nat
      /\ Len(spec.variables) \in Nat
      /\ Len(spec.validations) \in Nat
      /\ pc = "conditions" => k \in Nat \ {0} /\ k <= Len(spec.matchConditions) + 1
      /\ pc = "variables" => k \in Nat \ {0} /\ k <= Len(spec.variables) + 1
      /\ pc = "validations" => k \in Nat \ {0} /\ k <= Len(spec.validations) + 1
  BY Numbers
<1>1. CASE ValidateVpol
  <2>1. TypesByLoop'
    BY <1>1, <1>0 DEF ValidateVpol, Compile, TypesByLoop, IndexIn
  <2>2. SpecOfPolicy'
    BY <1>1 DEF ValidateVpol, Compile, SpecOfPolicy, IgnoredBySidecars, SameLists
  <2>3. ScopedSoFar'
    BY <1>1, NoneYet DEF ValidateVpol, Compile, ScopedSoFar
  <2>4. Admission'
    BY <1>1 DEF ValidateVpol, Compile, Admission, SpecOfPolicy
  <2>5. Ended'
    BY <1>1 DEF ValidateVpol, Compile, Ended
  <2>6. QED
    BY <2>1, <2>2, <2>3, <2>4, <2>5
<1>2. CASE ReconcileStandalone
  <2>1. TypesByLoop'
    BY <1>2, <1>0 DEF ReconcileStandalone, Compile, TypesByLoop, IndexIn
  <2>2. SpecOfPolicy'
    BY <1>2 DEF ReconcileStandalone, Compile, SpecOfPolicy, IgnoredBySidecars, SameLists
  <2>3. ScopedSoFar'
    BY <1>2, NoneYet DEF ReconcileStandalone, Compile, ScopedSoFar
  <2>4. Admission'
    BY <1>2 DEF ReconcileStandalone, Compile, Admission, SpecOfPolicy
  <2>5. Ended'
    BY <1>2 DEF ReconcileStandalone, Compile, Ended
  <2>6. QED
    BY <2>1, <2>2, <2>3, <2>4, <2>5
<1>3. CASE ReconcilePanics
  <2>1. TypesByLoop'
    BY <1>3, <1>0 DEF ReconcilePanics, TypesByLoop, IndexIn
  <2>2. SpecOfPolicy'
    BY <1>3 DEF ReconcilePanics, SpecOfPolicy, IgnoredBySidecars, SameLists
  <2>3. ScopedSoFar'
    BY <1>3, NoneYet DEF ReconcilePanics, ScopedSoFar
  <2>4. Admission'
    BY <1>3 DEF ReconcilePanics, Admission, SpecOfPolicy
  <2>5. Ended'
    BY <1>3 DEF ReconcilePanics, Ended, SpecOfPolicy
  <2>6. QED
    BY <2>1, <2>2, <2>3, <2>4, <2>5
<1>4. CASE ReconcileIgnores
  <2>1. TypesByLoop'
    BY <1>4, <1>0 DEF ReconcileIgnores, TypesByLoop, IndexIn
  <2>2. SpecOfPolicy'
    BY <1>4 DEF ReconcileIgnores, SpecOfPolicy, IgnoredBySidecars, SameLists
  <2>3. ScopedSoFar'
    BY <1>4, NoneYet DEF ReconcileIgnores, ScopedSoFar
  <2>4. Admission'
    BY <1>4 DEF ReconcileIgnores, Admission, SpecOfPolicy
  <2>5. Ended'
    BY <1>4 DEF ReconcileIgnores, Ended, SpecOfPolicy
  <2>6. QED
    BY <2>1, <2>2, <2>3, <2>4, <2>5
<1>5. CASE ReconcileMesh
  <2>1. /\ spec' \in Policies /\ SameLists(spec', spec)
        /\ spec'.failurePolicy = IF spec.failurePolicy = "unset" THEN "Ignore"
                                 ELSE spec.failurePolicy
    BY <1>5, RoundTrip DEF ReconcileMesh, TypesByLoop
  <2>2. pc' = "conditions" /\ k' = 1 /\ fields' = {}
    BY <1>5 DEF ReconcileMesh, Compile
  <2>3. TypesByLoop'
    <3>1. Len(spec'.matchConditions) \in Nat
      BY <2>1, <1>0 DEF SameLists
    <3>2. IndexIn(pc', k', spec')
      BY <2>2, <3>1 DEF IndexIn
    <3>3. QED
      BY <1>5, <2>1, <3>2 DEF ReconcileMesh, Compile, TypesByLoop
  <2>4. SpecOfPolicy'
    BY <1>5, <2>1 DEF ReconcileMesh, Compile, SpecOfPolicy, IgnoredBySidecars, SameLists
  <2>5. ScopedSoFar'
    <3>1. ConditionsScoped(spec', k' - 1)
      BY <2>2, NoneYet
    <3>2. QED
      BY <2>2, <3>1 DEF ScopedSoFar
  <2>6. Admission'
    BY <1>5 DEF ReconcileMesh, Compile, Admission, SpecOfPolicy
  <2>7. Ended'
    BY <1>5 DEF ReconcileMesh, Compile, Ended
  <2>8. QED
    BY <2>3, <2>4, <2>5, <2>6, <2>7
<1>6. CASE CompileCondition
  <2> DEFINE e == spec.matchConditions[k]
  <2>0. /\ pc = "conditions" /\ k \in Nat \ {0} /\ k <= Len(spec.matchConditions)
        /\ UNCHANGED <<policy, site, spec, admitted, program>>
    BY <1>0, <1>6 DEF CompileCondition
  <2>1. e \in Conditions
    BY <2>0, Numbers, ElementOfSeq DEF ListsOf
  <2>2. (FindFields(e.uses) /\ e.type = "bool") <=> ConditionScoped(spec, k)
    BY <2>0, <2>1 DEF ScopedSoFar, FindFields, ConditionScoped, Conditions
  <2>3. CASE ConditionScoped(spec, k) /\ k' = k + 1 /\ pc' = pc /\ fields' = fields
    <3>1. ConditionsScoped(spec', k' - 1)
      BY <2>0, <2>3, OneMore DEF ScopedSoFar
    <3>2. TypesByLoop'
      <4>1. IndexIn(pc', k', spec')
        BY <2>0, <2>3, <1>0 DEF IndexIn
      <4>2. QED
        BY <2>0, <2>1, <2>3, <4>1 DEF TypesByLoop, Conditions
    <3>3. SpecOfPolicy' /\ Admission' /\ Ended'
      BY <2>0, <2>3 DEF SpecOfPolicy, IgnoredBySidecars, Admission, Ended
    <3>4. ScopedSoFar'
      BY <2>0, <2>3, <3>1 DEF ScopedSoFar
    <3>5. QED
      BY <3>2, <3>3, <3>4
  <2>4. CASE ~ConditionScoped(spec, k) /\ pc' = "refused" /\ UNCHANGED <<k, fields>>
    <3>1. ~ConditionsScoped(spec, Len(spec.matchConditions))
      BY <2>0, <2>4 DEF ConditionsScoped
    <3>2. ~WellScoped(policy)
      BY <3>1, ScopedHere
    <3>3. TypesByLoop'
      BY <2>0, <2>4 DEF TypesByLoop, IndexIn
    <3>4. SpecOfPolicy' /\ ScopedSoFar' /\ Admission'
      BY <2>0, <2>4 DEF SpecOfPolicy, IgnoredBySidecars, ScopedSoFar, Admission
    <3>5. Ended'
      BY <2>0, <2>4, <3>2 DEF Ended
    <3>6. QED
      BY <3>3, <3>4, <3>5
  <2>5. QED
    BY <1>6, <2>2, <2>3, <2>4 DEF CompileCondition, Refuse, RegisterField
<1>7. CASE ConditionsEnd
  <2>0. /\ pc = "conditions" /\ k - 1 = Len(spec.matchConditions) /\ pc' = "variables" /\ k' = 1
        /\ UNCHANGED <<policy, site, spec, fields, admitted, program>>
    BY <1>0, <1>7 DEF ConditionsEnd, NextLoop
  <2>1. TypesByLoop'
    <3>1. IndexIn(pc', k', spec')
      BY <2>0, <1>0 DEF IndexIn
    <3>2. QED
      BY <2>0, <3>1 DEF TypesByLoop
  <2>2. ScopedSoFar'
    <3>1. ConditionsScoped(spec, 0) /\ VariablesScoped(spec, 0) /\ ValidationsScoped(spec, 0)
      BY NoneYet
    <3>2. Declared(spec, 0) = {} /\ k' - 1 = 0
      BY <2>0, NoneYet
    <3>3. QED
      BY <2>0, <3>1, <3>2 DEF ScopedSoFar
  <2>3. SpecOfPolicy' /\ Admission' /\ Ended'
    BY <2>0 DEF SpecOfPolicy, IgnoredBySidecars, Admission, Ended
  <2>4. QED
    BY <2>1, <2>2, <2>3
<1>8. CASE CompileVariable
  <2> DEFINE e == spec.variables[k]
  <2>0. /\ pc = "variables" /\ k \in Nat \ {0} /\ k <= Len(spec.variables)
        /\ UNCHANGED <<policy, site, spec, admitted, program>>
    BY <1>0, <1>8 DEF CompileVariable
  <2>1. e \in Variables
    BY <2>0, Numbers, ElementOfSeq DEF ListsOf
  <2>2. FindFields(e.uses) <=> VariableScoped(spec, k)
    BY <2>0, <2>1 DEF ScopedSoFar, FindFields, VariableScoped, Variables
  <2>3. CASE VariableScoped(spec, k) /\ k' = k + 1 /\ pc' = pc /\ fields' = fields \cup {e.name}
    <3>1. VariablesScoped(spec', k' - 1) /\ fields' = Declared(spec', k' - 1)
      BY <2>0, <2>3, OneMore DEF ScopedSoFar
    <3>2. TypesByLoop'
      <4>1. IndexIn(pc', k', spec')
        BY <2>0, <2>3, <1>0 DEF IndexIn
      <4>2. QED
        BY <2>0, <2>1, <2>3, <4>1 DEF TypesByLoop, Variables
    <3>3. SpecOfPolicy' /\ Admission' /\ Ended'
      BY <2>0, <2>3 DEF SpecOfPolicy, IgnoredBySidecars, Admission, Ended
    <3>4. ScopedSoFar'
      BY <2>0, <2>3, <3>1 DEF ScopedSoFar
    <3>5. QED
      BY <3>2, <3>3, <3>4
  <2>4. CASE ~VariableScoped(spec, k) /\ pc' = "refused" /\ UNCHANGED <<k, fields>>
    <3>1. ~VariablesScoped(spec, Len(spec.variables))
      BY <2>0, <2>4 DEF VariablesScoped
    <3>2. ~WellScoped(policy)
      BY <3>1, ScopedHere
    <3>3. TypesByLoop'
      BY <2>0, <2>4 DEF TypesByLoop, IndexIn
    <3>4. SpecOfPolicy' /\ ScopedSoFar' /\ Admission'
      BY <2>0, <2>4 DEF SpecOfPolicy, IgnoredBySidecars, ScopedSoFar, Admission
    <3>5. Ended'
      BY <2>0, <2>4, <3>2 DEF Ended
    <3>6. QED
      BY <3>3, <3>4, <3>5
  <2>5. QED
    BY <1>8, <2>2, <2>3, <2>4 DEF CompileVariable, Refuse, RegisterField
<1>9. CASE VariablesEnd
  <2>0. /\ pc = "variables" /\ k - 1 = Len(spec.variables) /\ pc' = "validations" /\ k' = 1
        /\ UNCHANGED <<policy, site, spec, fields, admitted, program>>
    BY <1>0, <1>9 DEF VariablesEnd, NextLoop
  <2>1. TypesByLoop'
    <3>1. IndexIn(pc', k', spec')
      BY <2>0, <1>0 DEF IndexIn
    <3>2. QED
      BY <2>0, <3>1 DEF TypesByLoop
  <2>2. ScopedSoFar'
    <3>1. ConditionsScoped(spec, 0) /\ VariablesScoped(spec, 0) /\ ValidationsScoped(spec, 0)
      BY NoneYet
    <3>2. Declared(spec, 0) = {} /\ k' - 1 = 0
      BY <2>0, NoneYet
    <3>3. QED
      BY <2>0, <3>1, <3>2 DEF ScopedSoFar
  <2>3. SpecOfPolicy' /\ Admission' /\ Ended'
    BY <2>0 DEF SpecOfPolicy, IgnoredBySidecars, Admission, Ended
  <2>4. QED
    BY <2>1, <2>2, <2>3
<1>10. CASE CompileAuthorization
  <2> DEFINE e == spec.validations[k]
  <2>0. /\ pc = "validations" /\ k \in Nat \ {0} /\ k <= Len(spec.validations)
        /\ UNCHANGED <<policy, site, spec, admitted, program>>
    BY <1>0, <1>10 DEF CompileAuthorization
  <2>1. e \in Validations
    BY <2>0, Numbers, ElementOfSeq DEF ListsOf
  <2>2. (FindFields(e.uses) /\ e.type \in {"response", "null"}) <=> ValidationScoped(spec, k)
    BY <2>0, <2>1 DEF ScopedSoFar, FindFields, ValidationScoped, Validations
  <2>3. CASE ValidationScoped(spec, k) /\ k' = k + 1 /\ pc' = pc /\ fields' = fields
    <3>1. ValidationsScoped(spec', k' - 1)
      BY <2>0, <2>3, OneMore DEF ScopedSoFar
    <3>2. TypesByLoop'
      <4>1. IndexIn(pc', k', spec')
        BY <2>0, <2>3, <1>0 DEF IndexIn
      <4>2. QED
        BY <2>0, <2>1, <2>3, <4>1 DEF TypesByLoop, Validations
    <3>3. SpecOfPolicy' /\ Admission' /\ Ended'
      BY <2>0, <2>3 DEF SpecOfPolicy, IgnoredBySidecars, Admission, Ended
    <3>4. ScopedSoFar'
      BY <2>0, <2>3, <3>1 DEF ScopedSoFar
    <3>5. QED
      BY <3>2, <3>3, <3>4
  <2>4. CASE ~ValidationScoped(spec, k) /\ pc' = "refused" /\ UNCHANGED <<k, fields>>
    <3>1. ~ValidationsScoped(spec, Len(spec.validations))
      BY <2>0, <2>4 DEF ValidationsScoped
    <3>2. ~WellScoped(policy)
      BY <3>1, ScopedHere
    <3>3. TypesByLoop'
      BY <2>0, <2>4 DEF TypesByLoop, IndexIn
    <3>4. SpecOfPolicy' /\ ScopedSoFar' /\ Admission'
      BY <2>0, <2>4 DEF SpecOfPolicy, IgnoredBySidecars, ScopedSoFar, Admission
    <3>5. Ended'
      BY <2>0, <2>4, <3>2 DEF Ended
    <3>6. QED
      BY <3>3, <3>4, <3>5
  <2>5. QED
    BY <1>10, <2>2, <2>3, <2>4 DEF CompileAuthorization, Refuse, RegisterField
<1>11. CASE Admit
  <2>0. /\ site = "webhook" /\ site' \in {"standalone", "control plane"} /\ pc' = "received"
        /\ UNCHANGED <<policy, spec, k, fields, program>>
    BY <1>11 DEF Admit
  <2>1. TypesByLoop'
    <3>1. program' = None
      BY <2>0, <1>11 DEF Admit, TypesByLoop
    <3>2. QED
      BY <2>0, <3>1 DEF TypesByLoop, IndexIn
  <2>2. SpecOfPolicy' /\ ScopedSoFar' /\ Ended'
    BY <2>0 DEF SpecOfPolicy, IgnoredBySidecars, ScopedSoFar, Ended
  <2>3. CASE pc = "passed" /\ UNCHANGED admitted
    BY <2>0, <2>1, <2>2, <2>3 DEF Admission
  <2>4. CASE pc = "validations" /\ k > Len(spec.validations) /\ admitted' = Program(spec)
    <3>1. k - 1 = Len(spec.validations)
      BY <1>0, <2>4
    <3>2. WellScoped(policy)
      BY <2>4, <3>1, ScopedHere DEF ScopedSoFar
    <3>3. spec = policy /\ policy.mode = "HTTP"
      BY <2>0, <2>4 DEF SpecOfPolicy, Admission
    <3>4. QED
      BY <2>0, <2>1, <2>2, <2>4, <3>2, <3>3 DEF Admission
  <2>5. QED
    BY <1>11, <2>1, <2>2, <2>3, <2>4 DEF Admit
<1>12. CASE Serve
  <2>0. /\ site \in {"standalone", "sidecar"} /\ pc = "validations" /\ k - 1 = Len(spec.validations)
        /\ pc' = "served" /\ program' = Program(spec)
        /\ UNCHANGED <<policy, site, spec, k, fields, admitted>>
    BY <1>0, <1>12 DEF Serve
  <2>1. TypesByLoop'
    <3>1. program' # None
      BY <2>0, NoneIsNoProgram DEF TypesByLoop
    <3>2. QED
      BY <2>0, <3>1 DEF TypesByLoop, IndexIn
  <2>2. SpecOfPolicy' /\ ScopedSoFar' /\ Admission' /\ Ended'
    BY <2>0 DEF SpecOfPolicy, IgnoredBySidecars, ScopedSoFar, Admission, Ended
  <2>3. QED
    BY <2>1, <2>2
<1>13. CASE UNCHANGED vars
  <2>1. TypesByLoop'
    BY <1>13 DEF vars, TypesByLoop, IndexIn
  <2>2. SpecOfPolicy' /\ ScopedSoFar' /\ Admission' /\ Ended'
    BY <1>13 DEF vars, SpecOfPolicy, IgnoredBySidecars, ScopedSoFar, Admission, Ended
  <2>3. QED
    BY <2>1, <2>2
<1>14. QED
  BY <1>1, <1>2, <1>3, <1>4, <1>5, <1>6, <1>7, <1>8, <1>9, <1>10, <1>11, <1>12, <1>13 DEF Next

(* The inductive invariant holds of the specification.                         *)
LEMMA TranslationCorrect == Spec => []TranslationInv
  BY TranslationInit, TranslationStep, PTL DEF Spec

--------------------------------------------------------------------------------
(* The places, the compiler's index and its declared fields are what the code  *)
(* makes them, and only a policy that is served has a program.                 *)
THEOREM TranslationTypeCorrect == Spec => []TypeOK
<1>1. TranslationInv => TypeOK
  BY DEF TranslationInv
<1>2. QED
  BY <1>1, TranslationCorrect, PTL

(* The compiler refuses exactly the policies whose expressions refer to what   *)
(* the documentation says they cannot, wherever the policy has been.           *)
LEMMA OnlyTheIllScopedAreRefused == TranslationInv => RefusedIffIllScoped
<1> SUFFICES ASSUME TypesByLoop, SpecOfPolicy, ScopedSoFar, Ended PROVE RefusedIffIllScoped
  BY TypesAreByLoop DEF TranslationInv
<1>1. pc = "served" => WellScoped(policy)
  BY ScopedHere DEF ScopedSoFar
<1>2. QED
  BY <1>1 DEF RefusedIffIllScoped, Ended

(* For lists of any length, at the webhook, the authz server and a sidecar:    *)
(* what compiles refers to variables declared earlier only, and has the types  *)
(* that are asked for; what does not compile, does not (Compile,               *)
(* RegisterField).                                                             *)
THEOREM IllScopedPoliciesAreRefused == Spec => []RefusedIffIllScoped
  BY OnlyTheIllScopedAreRefused, TranslationCorrect, PTL

(* What the webhook admitted is served as it was admitted, standalone and by a *)
(* sidecar.                                                                    *)
LEMMA WhatIsAdmittedIsServed == TranslationInv => AdmittedIsServed
<1> SUFFICES ASSUME SpecOfPolicy, Admission, Ended, admitted # None PROVE AdmittedIsServed
  BY DEF TranslationInv, AdmittedIsServed
<1>1. /\ WellScoped(policy) /\ policy.mode = "HTTP"
      /\ admitted = Program(policy)
  BY DEF Admission
<1>2. pc \notin {"refused", "ignored", "panicked"}
  BY <1>1 DEF Ended
<1>3. ASSUME pc = "served"
      PROVE  program = IF IgnoredBySidecars THEN [admitted EXCEPT !.failurePolicy = "Ignore"]
                       ELSE admitted
  <2>1. program = Program(spec) /\ SameLists(spec, policy)
    BY <1>3 DEF Ended, SpecOfPolicy
  <2>2. spec.failurePolicy = IF IgnoredBySidecars THEN "Ignore" ELSE policy.failurePolicy
    BY DEF SpecOfPolicy
  <2>3. CASE IgnoredBySidecars
    BY <1>1, <2>1, <2>2, <2>3 DEF SameLists, Program, GetFailurePolicy
  <2>4. CASE ~IgnoredBySidecars
    BY <1>1, <2>1, <2>2, <2>4 DEF SameLists, Program, GetFailurePolicy
  <2>5. QED
    BY <2>3, <2>4
<1>4. QED
  BY <1>2, <1>3 DEF AdmittedIsServed

(* A policy that the webhook compiled and admitted for HTTP neither panics nor *)
(* is refused or ignored where it is used, and is served as it was compiled,   *)
(* but for a failure policy that was not set, of which a sidecar makes         *)
(* "Ignore" (ToProto, FromProto).                                              *)
THEOREM AdmittedPoliciesAreServed == Spec => []AdmittedIsServed
  BY WhatIsAdmittedIsServed, TranslationCorrect, PTL
================================================================================
