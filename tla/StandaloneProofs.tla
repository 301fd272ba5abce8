---------------------------- MODULE StandaloneProofs ---------------------------
(* Proofs about Standalone, for any number of sources, files and edits.        *)
EXTENDS Standalone, AuthorizerProofs, FiniteSetTheorems

--------------------------------------------------------------------------------
(* What a refusal is about.                                                    *)

Directories == [Files -> Contents \cup {Absent}]

(* What is on the disk has been seen, a listed directory is there, and files   *)
(* are left to be read only while the sources are.                             *)
CauseInv ==
    /\ disk \in [Sources -> Directories \cup {Gone}]
    /\ seen.files \in [Sources -> [Files -> SUBSET (Contents \cup {Absent})]]
    /\ seen = [files |-> seen.files, maps |-> seen.maps]
    /\ \A s \in Sources : disk[s] # Gone =>
         \A f \in Files : disk[s][f] \in seen.files[s][f]
    /\ todo # Unlisted => source \in Sources /\ disk[source] # Gone
    /\ todo # Unlisted => pc \in {"fetch", "failed"}
    /\ RefusedForACause

LEMMA CauseInit == StandaloneInit => CauseInv
<1> SUFFICES ASSUME StandaloneInit PROVE CauseInv
  OBVIOUS
<1>1. /\ disk \in [Sources -> Directories \cup {Gone}]
      /\ seen = [files |-> [s \in Sources |-> [f \in Files |->
                              IF disk[s] = Gone THEN {} ELSE {disk[s][f]}]],
                 maps |-> {cluster}]
      /\ todo = Unlisted
  BY DEF StandaloneInit, Directories
<1>2. \A s \in Sources : disk[s] # Gone => disk[s] \in Directories
  BY <1>1
<1>3. \A s \in Sources, f \in Files :
        (IF disk[s] = Gone THEN {} ELSE {disk[s][f]}) \in SUBSET (Contents \cup {Absent})
  BY <1>2 DEF Directories
<1>4. QED
  BY <1>1, <1>2, <1>3 DEF CauseInv, RefusedForACause

LEMMA EditKeepsCause ==
  ASSUME CauseInv, NEW s \in Sources, NEW f \in Files, Edit(s, f)
  PROVE  CauseInv'
<1>1. PICK c \in Contents \cup {Absent} : disk' = [disk EXCEPT ![s][f] = c]
  BY DEF Edit
<1>2. /\ disk[s] # Gone /\ pc = "fetch" /\ pc' = pc /\ source' = source /\ todo' = todo
      /\ seen' = [seen EXCEPT !.files[s][f] = @ \cup {disk'[s][f]}]
  BY DEF Edit, vars, listing
<1>3. disk[s] \in Directories /\ disk \in [Sources -> Directories \cup {Gone}]
  BY <1>2 DEF CauseInv
<1>4. disk'[s] = [disk[s] EXCEPT ![f] = c] /\ disk'[s] \in Directories
  BY <1>1, <1>3 DEF Directories
<1>5. disk'[s] # Gone /\ \A r \in Sources \ {s} : disk'[r] = disk[r]
  BY <1>1, <1>3, <1>4, GoneIsNoDirectory DEF Directories, Files
<1>6. disk' \in [Sources -> Directories \cup {Gone}]
  BY <1>1, <1>3, <1>4
<1>7. disk'[s][f] = c
  BY <1>3, <1>4 DEF Directories
<1>8. /\ seen'.files = [seen.files EXCEPT ![s] = [seen.files[s] EXCEPT ![f] = @ \cup {c}]]
      /\ seen' = [files |-> seen'.files, maps |-> seen'.maps]
  BY <1>2, <1>7 DEF CauseInv
<1>9. seen'.files \in [Sources -> [Files -> SUBSET (Contents \cup {Absent})]]
  BY <1>8 DEF CauseInv
<1>10. ASSUME NEW r \in Sources, disk'[r] # Gone, NEW g \in Files
       PROVE  disk'[r][g] \in seen'.files[r][g]
  <2>1. CASE r = s /\ g = f
    BY <2>1, <1>7, <1>8 DEF CauseInv
  <2>2. CASE r = s /\ g # f
    BY <2>2, <1>2, <1>3, <1>4, <1>8 DEF CauseInv, Directories
  <2>3. CASE r # s
    BY <2>3, <1>5, <1>8, <1>10 DEF CauseInv
  <2>4. QED
    BY <2>1, <2>2, <2>3
<1>11. todo' # Unlisted => source' \in Sources /\ disk'[source'] # Gone
  BY <1>2, <1>5 DEF CauseInv
<1>12. QED
  BY <1>2, <1>6, <1>8, <1>9, <1>10, <1>11 DEF CauseInv, RefusedForACause

LEMMA SourceFailsKeepsCause == CauseInv /\ SourceFails => CauseInv'
<1> SUFFICES ASSUME CauseInv, SourceFails PROVE CauseInv'
  OBVIOUS
<1>1. /\ pc' = "failed"
      /\ disk' = disk /\ seen' = seen /\ source' = source /\ todo' = todo
  BY DEF SourceFails, Refuse, inputs, listing
<1>2. ASSUME todo # Unlisted
      PROVE  \E f \in todo : \E c \in seen.files[source][f] : Fatal(c)
  <2>1. PICK f \in Files : Turn(f) /\ Fatal(disk[source][f])
    BY <1>2 DEF SourceFails
  <2>2. f \in todo /\ source \in Sources
    BY <2>1 DEF Turn, Looking
  <2>3. disk[source][f] \in seen.files[source][f]
    BY <1>2, <2>2 DEF CauseInv
  <2>4. QED
    BY <2>1, <2>2, <2>3
<1>3. RefusedForACause'
  BY <1>1, <1>2 DEF RefusedForACause, Fatal
<1>4. QED
  BY <1>1, <1>3 DEF CauseInv

LEMMA CauseInductive == CauseInv /\ [StandaloneNext]_allVars => CauseInv'
<1> SUFFICES ASSUME CauseInv, [StandaloneNext]_allVars PROVE CauseInv'
  OBVIOUS
<1>1. CASE ListDir
  BY <1>1 DEF ListDir, Looking, inputs, vars, CauseInv, RefusedForACause
<1>2. CASE \E f \in Files : ReadFile(f)
  <2>1. PICK f \in Files : ReadFile(f)
    BY <1>2
  <2>2. todo # Unlisted
    BY <2>1 DEF ReadFile, Turn, Unlisted
  <2>3. QED
    BY <2>1, <2>2 DEF ReadFile, Turn, Looking, inputs, vars, CauseInv, RefusedForACause
<1>3. CASE CompileAll
  BY <1>3 DEF CompileAll, Looking, inputs, vars, CauseInv, RefusedForACause
<1>4. CASE SourceFails
  BY <1>4, SourceFailsKeepsCause
<1>5. CASE ListKube
  <2>1. source \notin Sources
    BY <1>5, SourcesAreNat DEF ListKube, Sources
  <2>2. QED
    BY <1>5, <2>1 DEF ListKube, inputs, listing, CauseInv, RefusedForACause
<1>6. CASE Evaluate
  <2>1. /\ disk' = disk /\ seen' = seen /\ source' = source /\ todo' = todo
    BY <1>6 DEF Evaluate, inputs, listing
  <2>2. pc \notin {"fetch", "failed"}
    BY <1>6 DEF Evaluate, Read, Convert, Refuse, InMatch, ConditionError, ConditionTrue,
                ConditionFalse, Matched, MatchFailed, RuleNull, RuleError, RuleResponds,
                RulesEnd, NoAnswer
  <2>3. todo = Unlisted
    BY <2>2 DEF CauseInv
  <2>4. QED
    BY <2>1, <2>3 DEF CauseInv, RefusedForACause
<1>7. CASE \E s \in Sources, f \in Files : Edit(s, f)
  BY <1>7, EditKeepsCause
<1>8. CASE Reconcile
  <2>1. /\ disk' = disk /\ pc' = pc /\ source' = source /\ todo' = todo
        /\ seen' = [seen EXCEPT !.maps = @ \cup {cluster'}] /\ pc = "fetch"
    BY <1>8 DEF Reconcile, vars, listing
  <2>2. seen'.files = seen.files /\ seen' = [files |-> seen'.files, maps |-> seen'.maps]
    BY <2>1 DEF CauseInv
  <2>3. QED
    BY <2>1, <2>2 DEF CauseInv, RefusedForACause
<1>9. CASE UNCHANGED allVars
  BY <1>9 DEF allVars, vars, inputs, listing, CauseInv, RefusedForACause
<1>10. QED
  BY <1>1, <1>2, <1>3, <1>4, <1>5, <1>6, <1>7, <1>8, <1>9 DEF StandaloneNext, Handler

(* A request is refused over a file only when that file was unreadable, held   *)
(* an odd policy or vanished while the request was looking (fs.go:88-113), for *)
(* any number of sources, files and edits.                                     *)
THEOREM RefusalsHaveACause == StandaloneSpec => []RefusedForACause
<1>1. CauseInv => RefusedForACause
  BY DEF CauseInv
<1>2. QED
  BY <1>1, CauseInit, CauseInductive, PTL DEF StandaloneSpec

--------------------------------------------------------------------------------
(* Induction, in a first-order form: the least element comes from the library's *)
(* fact that the finite subsets of a set are well-founded by inclusion.        *)

(* A set of naturals has a least element.                                      *)
LEMMA Least ==
  ASSUME NEW T \in SUBSET Nat, T # {}
  PROVE  \E n \in T : \A m \in T : n <= m
<1> DEFINE Below == {0 .. n : n \in T}
<1>1. Below \subseteq FiniteSubsetsOf(Nat)
  <2>1. \A n \in T : 0 .. n \subseteq Nat /\ IsFiniteSet(0 .. n)
    BY FS_Interval
  <2>2. QED
    BY <2>1 DEF FiniteSubsetsOf
<1>2. PICK B \in Below : \A C \in Below : <<C, B>> \notin StrictSubsetOrdering(Nat)
  <2>1. Below # {}
    OBVIOUS
  <2>2. QED
    BY ONLY <1>1, <2>1, FS_StrictSubsetOrderingWellFounded, WFMin
<1>3. PICK n \in T : B = 0 .. n
  OBVIOUS
<1>4. ASSUME NEW m \in T, ~(n <= m)
      PROVE  FALSE
  <2>1. 0 .. m \in Below /\ 0 .. m \subseteq Nat /\ 0 .. n \subseteq Nat
    OBVIOUS
  <2>2. 0 .. m \subseteq 0 .. n /\ n \in 0 .. n /\ n \notin 0 .. m
    BY <1>4
  <2>3. <<0 .. m, 0 .. n>> \in StrictSubsetOrdering(Nat)
    BY <2>1, <2>2 DEF StrictSubsetOrdering
  <2>4. QED
    BY <1>2, <1>3, <2>1, <2>3
<1>5. QED
  BY <1>4

(* A set that holds 0 and the successor of each of its naturals holds them all. *)
LEMMA SetInduction ==
  ASSUME NEW N, 0 \in N, \A n \in Nat : n \in N => n + 1 \in N
  PROVE  Nat \subseteq N
<1> DEFINE T == Nat \ N
<1>1. SUFFICES ASSUME T # {} PROVE FALSE
  OBVIOUS
<1>2. PICK n \in T : \A m \in T : n <= m
  BY <1>1, Least
<1>3. n # 0 /\ n - 1 \in Nat /\ n-1 \notin T
  BY <1>2
<1>4. QED
  BY <1>2, <1>3

(* What holds of the empty sequence, and of a sequence with one more element   *)
(* at its end, holds of every sequence.                                        *)
LEMMA SequenceInduction ==
  ASSUME NEW S, NEW P, <<>> \in P,
         \A s \in Seq(S), x \in S : s \in P => Append(s, x) \in P
  PROVE  Seq(S) \subseteq P
<1> DEFINE N == {n \in Nat : \A s \in Seq(S) : Len(s) = n => s \in P}
<1>1. 0 \in N
  BY EmptySeq
<1>2. ASSUME NEW n \in Nat, n \in N
      PROVE  n + 1 \in N
  <2>1. ASSUME NEW s \in Seq(S), Len(s) = n + 1
        PROVE  s \in P
    <3>1. SubSeq(s, 1, n) \in Seq(S) /\ Len(SubSeq(s, 1, n)) = n /\ s[n + 1] \in S
      BY <2>1, LenProperties, SubSeqProperties
    <3>2. s = Append(SubSeq(s, 1, n), s[n + 1])
      BY <2>1, <3>1, LenProperties, SubSeqProperties, AppendProperties, SeqEqual
    <3>3. QED
      BY <1>2, <3>1, <3>2
  <2>2. QED
    BY <2>1
<1>3. Nat \subseteq N
  BY <1>1, <1>2, SetInduction
<1>4. QED
  BY <1>3, LenProperties

(* g[k] is what the first k sequences of ss give when they are joined.         *)
Steps(g, ss, n) == g[0] = <<>> /\ \A k \in 1 .. n : g[k] = g[k - 1] \o ss[k]

(* A list of sequences can be joined step by step.                             *)
LEMMA FlattenHasSteps ==
  ASSUME NEW D, NEW ss \in Seq(Seq(D))
  PROVE  \E g \in [0 .. Len(ss) -> Seq(D)] : Steps(g, ss, Len(ss))
<1> DEFINE Q(n) == \E g \in [0 .. n -> Seq(D)] : Steps(g, ss, n)
           N == {n \in Nat : n <= Len(ss) => Q(n)}
<1>1. Q(0)
  <2>1. [k \in 0 .. 0 |-> <<>>] \in [0 .. 0 -> Seq(D)]
    BY EmptySeq
  <2>2. Steps([k \in 0 .. 0 |-> <<>>], ss, 0)
    BY DEF Steps
  <2>3. QED
    BY <2>1, <2>2
<1>2. Len(ss) \in Nat
  BY LenProperties
<1>3. ASSUME NEW n \in Nat, Q(n), n + 1 <= Len(ss)
      PROVE  Q(n + 1)
  <2>1. PICK g \in [0 .. n -> Seq(D)] : Steps(g, ss, n)
    BY <1>3
  <2>2. ss[n + 1] \in Seq(D)
    BY <1>3, LenProperties
  <2> DEFINE h == [k \in 0 .. n + 1 |-> IF k <= n THEN g[k] ELSE g[n] \o ss[n + 1]]
  <2>3. h \in [0 .. n + 1 -> Seq(D)]
    BY <2>1, <2>2, ConcatProperties
  <2>4. (\A k \in 0 .. n : h[k] = g[k]) /\ h[n + 1] = g[n] \o ss[n + 1]
    BY ONLY n \in Nat
  <2> HIDE DEF h
  <2>5. ASSUME NEW k \in 1 .. n + 1
        PROVE  h[k] = h[k - 1] \o ss[k]
    <3>1. CASE k \in 1 .. n
      <4>1. k \in 0 .. n /\ k - 1 \in 0 .. n
        BY <3>1
      <4>2. h[k] = g[k] /\ h[k - 1] = g[k - 1] /\ g[k] = g[k - 1] \o ss[k]
        BY ONLY <2>1, <2>4, <3>1, <4>1 DEF Steps
      <4>3. QED
        BY <4>2
    <3>2. CASE k = n + 1
      <4>1. k - 1 = n /\ h[n] = g[n] /\ h[k] = g[n] \o ss[k]
        BY <2>4, <3>2
      <4>2. h[k - 1] = h[n]
        BY ONLY <4>1
      <4>3. QED
        BY ONLY <4>1, <4>2
    <3>3. k \in 1 .. n \/ k = n + 1
      OBVIOUS
    <3>4. QED
      BY ONLY <3>1, <3>2, <3>3
  <2>6. h[0] = <<>>
    BY <2>1, <2>4 DEF Steps
  <2>7. QED
    BY <2>3, <2>5, <2>6 DEF Steps
<1> HIDE DEF Q
<1>4. Nat \subseteq N
  <2>1. 0 \in N /\ \A n \in Nat : n \in N => n + 1 \in N
    BY <1>1, <1>2, <1>3
  <2>2. QED
    BY <2>1, SetInduction
<1>5. Q(Len(ss))
  BY <1>2, <1>4
<1>6. QED
  BY <1>5 DEF Q

(* However it is joined step by step, the whole is what FlattenSeq gives.      *)
LEMMA FlattenBySteps ==
  ASSUME NEW D, NEW ss \in Seq(Seq(D)), NEW g \in [0 .. Len(ss) -> Seq(D)],
         Steps(g, ss, Len(ss))
  PROVE  FlattenSeq(ss) = g[Len(ss)]
<1>1. CASE Len(ss) = 0
  BY <1>1, EmptySeq, LenProperties DEF FlattenSeq, Steps
<1>2. CASE Len(ss) # 0
  <2> DEFINE E(f) == f = [m \in 1 .. Len(ss) |-> IF m = 1 THEN ss[m] ELSE f[m - 1] \o ss[m]]
             flat == CHOOSE f : E(f)
  <2>0. g[1] = ss[1] /\ Len(ss) \in Nat \ {0}
    <3>1. Len(ss) \in Nat \ {0} /\ ss[1] \in Seq(D)
      BY <1>2, LenProperties
    <3>2. g[0] = <<>> /\ g[1] = g[1 - 1] \o ss[1]
      BY <3>1, 1 \in 1 .. Len(ss) DEF Steps
    <3>3. QED
      BY <3>1, <3>2, ConcatEmptySeq
  <2>1. FlattenSeq(ss) = flat[Len(ss)]
    BY <1>2 DEF FlattenSeq
  <2>2. E([m \in 1 .. Len(ss) |-> g[m]])
    <3>1. Len(ss) \in Nat /\ 1 \in 1 .. Len(ss)
      BY <1>2, LenProperties
    <3>2. g[1] = ss[1]
      BY <2>0
    <3>3. \A m \in 1 .. Len(ss) : m # 1 => m - 1 \in 1 .. Len(ss)
      BY <3>1
    <3>4. \A m \in 1 .. Len(ss) : g[m] = g[m - 1] \o ss[m]
      BY DEF Steps
    <3>5. QED
      BY <3>2, <3>3, <3>4
  <2>3. E(flat)
    BY ONLY <2>2
  <2> HIDE DEF flat
  <2> DEFINE N == {n \in Nat : n + 1 <= Len(ss) => flat[n + 1] = g[n + 1]}
  <2>4. 0 \in N
    BY <2>0, <2>3
  <2>5. ASSUME NEW n \in Nat, n \in N
        PROVE  n + 1 \in N
    <3>1. SUFFICES ASSUME n + 2 <= Len(ss) PROVE flat[n + 2] = g[n + 2]
      BY LenProperties
    <3>2. n + 2 \in 1 .. Len(ss) /\ n + 2 # 1 /\ (n + 2) - 1 = n + 1
      BY <3>1, LenProperties
    <3>3. flat[n + 2] = flat[n + 1] \o ss[n + 2]
      BY <2>3, <3>2
    <3>4. g[n + 2] = g[n + 1] \o ss[n + 2]
      BY <3>2 DEF Steps
    <3>5. flat[n + 1] = g[n + 1]
      BY <2>5, <3>1, LenProperties
    <3>6. QED
      BY <3>3, <3>4, <3>5
  <2>6. Nat \subseteq N
    BY <2>4, <2>5, SetInduction
  <2>7. PICK m \in Nat : m + 1 = Len(ss)
    <3>1. Len(ss) - 1 \in Nat /\ (Len(ss) - 1) + 1 = Len(ss)
      BY <2>0
    <3>2. QED
      BY ONLY <3>1
  <2>8. flat[m + 1] = g[m + 1]
    <3>1. m \in N
      BY <2>6
    <3>2. QED
      BY <2>0, <2>7, <3>1
  <2>9. QED
    BY ONLY <2>1, <2>7, <2>8
<1>3. QED
  BY <1>1, <1>2

LEMMA FlattenEmpty == FlattenSeq(<<>>) = <<>>
  BY EmptySeq DEF FlattenSeq

LEMMA FlattenType ==
  ASSUME NEW D, NEW ss \in Seq(Seq(D))
  PROVE  FlattenSeq(ss) \in Seq(D)
<1>1. PICK g \in [0 .. Len(ss) -> Seq(D)] : Steps(g, ss, Len(ss))
  BY FlattenHasSteps
<1>2. Len(ss) \in 0 .. Len(ss)
  BY LenProperties
<1>3. g[Len(ss)] \in Seq(D)
  BY <1>2
<1>4. QED
  BY <1>1, <1>3, FlattenBySteps

LEMMA FlattenAppend ==
  ASSUME NEW D, NEW ss \in Seq(Seq(D)), NEW x \in Seq(D)
  PROVE  FlattenSeq(Append(ss, x)) = FlattenSeq(ss) \o x
<1> DEFINE tt == Append(ss, x)
           n == Len(ss)
<1>1. /\ tt \in Seq(Seq(D)) /\ n \in Nat /\ Len(tt) = n + 1
      /\ tt[n + 1] = x /\ \A k \in 1 .. n : tt[k] = ss[k]
  BY AppendProperties, LenProperties
<1> HIDE DEF tt, n
<1>2. PICK g \in [0 .. n + 1 -> Seq(D)] : Steps(g, tt, n + 1)
  BY <1>1, FlattenHasSteps
<1>3. FlattenSeq(tt) = g[n + 1]
  BY <1>1, <1>2, FlattenBySteps
<1>4. g[n + 1] = g[n] \o x
  <2>1. n + 1 \in 1 .. n + 1 /\ (n + 1) - 1 = n
    BY <1>1
  <2>2. g[n + 1] = g[(n + 1) - 1] \o tt[n + 1]
    BY <1>2, <2>1 DEF Steps
  <2>3. QED
    BY <1>1, <2>1, <2>2
<1>5. FlattenSeq(ss) = g[n]
  <2> DEFINE f == [k \in 0 .. n |-> g[k]]
  <2>1. f \in [0 .. Len(ss) -> Seq(D)]
    BY <1>1 DEF n
  <2>2. \A k \in 1 .. n : k \in 0 .. n /\ k - 1 \in 0 .. n /\ k \in 1 .. n + 1
    BY <1>1
  <2>3. Steps(f, ss, n)
    <3>1. f[0] = <<>>
      BY <1>1, <1>2 DEF Steps
    <3>2. ASSUME NEW k \in 1 .. n
          PROVE  f[k] = f[k - 1] \o ss[k]
      <4>1. f[k] = g[k] /\ f[k - 1] = g[k - 1]
        BY <2>2
      <4>2. g[k] = g[k - 1] \o tt[k] /\ tt[k] = ss[k]
        BY <1>1, <1>2, <2>2 DEF Steps
      <4>3. QED
        BY ONLY <4>1, <4>2
    <3>3. QED
      BY <3>1, <3>2 DEF Steps
  <2>4. FlattenSeq(ss) = f[Len(ss)]
    BY <2>1, <2>3, FlattenBySteps DEF n
  <2>5. QED
    BY <1>1, <2>4 DEF n
<1>6. QED
  BY <1>3, <1>4, <1>5 DEF tt

(* Nothing joined to nothing.                                                  *)
LEMMA FlattenNothing ==
  ASSUME NEW D, NEW ss \in Seq(Seq(D)), \A k \in 1 .. Len(ss) : ss[k] = <<>>
  PROVE  FlattenSeq(ss) = <<>>
<1> DEFINE g == [k \in 0 .. Len(ss) |-> <<>>]
<1>1. g \in [0 .. Len(ss) -> Seq(D)] /\ <<>> \in Seq(D)
  BY EmptySeq
<1>2. <<>> = <<>> \o <<>>
  BY <1>1, ConcatEmptySeq
<1>3. Steps(g, ss, Len(ss))
  <2>1. Len(ss) \in Nat
    BY LenProperties
  <2>2. 0 \in 0 .. Len(ss) /\ \A k \in 1 .. Len(ss) : k \in 0 .. Len(ss) /\ k - 1 \in 0 .. Len(ss)
    BY <2>1
  <2>3. QED
    BY <1>2, <2>2 DEF Steps
<1>4. FlattenSeq(ss) = g[Len(ss)]
  BY <1>1, <1>3, FlattenBySteps
<1>5. QED
  BY <1>4, LenProperties

(* Overwriting the element that was appended, or an earlier one.               *)
LEMMA ExceptOfAppend ==
  ASSUME NEW S, NEW s \in Seq(S), NEW y \in S, NEW x \in S
  PROVE  /\ [Append(s, y) EXCEPT ![Len(s) + 1] = x] = Append(s, x)
         /\ \A f \in 1 .. Len(s) :
              [Append(s, y) EXCEPT ![f] = x] = Append([s EXCEPT ![f] = x], y)
<1> DEFINE n == Len(s)
           t == Append(s, y)
           last == [t EXCEPT ![n + 1] = x]
           other == Append(s, x)
<1>1. /\ n \in Nat /\ t \in Seq(S) /\ Len(t) = n + 1 /\ t[n + 1] = y
      /\ \A k \in 1 .. n : t[k] = s[k]
  BY AppendProperties, LenProperties
<1>2. /\ other \in Seq(S) /\ Len(other) = n + 1 /\ other[n + 1] = x
      /\ \A k \in 1 .. n : other[k] = s[k]
  BY AppendProperties
<1> HIDE DEF t, n, other
<1>3. last = other
  <2>1. n + 1 \in 1 .. Len(t)
    BY <1>1
  <2>2. /\ last \in Seq(S) /\ Len(last) = Len(t)
        /\ \A k \in 1 .. Len(t) : last[k] = IF k = n + 1 THEN x ELSE t[k]
    BY <1>1, <2>1, ExceptSeq
  <2> HIDE DEF last
  <2>3. \A k \in 1 .. Len(last) : last[k] = other[k]
    BY <1>1, <1>2, <2>2
  <2>4. QED
    BY <1>1, <1>2, <2>2, <2>3, SeqEqual
<1>4. ASSUME NEW f \in 1 .. n
      PROVE  [t EXCEPT ![f] = x] = Append([s EXCEPT ![f] = x], y)
  <2> DEFINE a == [t EXCEPT ![f] = x]
             c == [s EXCEPT ![f] = x]
             b == Append(c, y)
  <2>1. f \in 1 .. Len(t) /\ f \in 1 .. Len(s)
    BY <1>1 DEF n
  <2>2. /\ a \in Seq(S) /\ Len(a) = Len(t)
        /\ \A k \in 1 .. Len(t) : a[k] = IF k = f THEN x ELSE t[k]
    BY <1>1, <2>1, ExceptSeq
  <2>3. /\ c \in Seq(S) /\ Len(c) = n
        /\ \A k \in 1 .. n : c[k] = IF k = f THEN x ELSE s[k]
    BY <2>1, ExceptSeq DEF n
  <2> HIDE DEF a, c
  <2>4. /\ b \in Seq(S) /\ Len(b) = n + 1 /\ b[n + 1] = y
        /\ \A k \in 1 .. n : b[k] = c[k]
    BY <2>3, AppendProperties
  <2> HIDE DEF b
  <2>5. \A k \in 1 .. Len(a) : a[k] = b[k]
    BY <1>1, <2>1, <2>2, <2>3, <2>4
  <2>6. a = b
    BY <1>1, <2>2, <2>4, <2>5, SeqEqual
  <2>7. QED
    BY <2>6 DEF a, b, c
<1>5. QED
  BY <1>3, <1>4 DEF t, n, other

(* What is put at a place after which there is nothing comes last.             *)
LEMMA FlattenLast ==
  ASSUME NEW D
  PROVE  \A ss \in Seq(Seq(D)) : \A f \in 1 .. Len(ss), x \in Seq(D) :
           (\A k \in f .. Len(ss) : ss[k] = <<>>)
             => FlattenSeq([ss EXCEPT ![f] = x]) = FlattenSeq(ss) \o x
<1> DEFINE Q(ss) == \A f \in 1 .. Len(ss), x \in Seq(D) :
                      (\A k \in f .. Len(ss) : ss[k] = <<>>)
                        => FlattenSeq([ss EXCEPT ![f] = x]) = FlattenSeq(ss) \o x
           P == {ss \in Seq(Seq(D)) : Q(ss)}
<1>1. Q(<<>>)
  BY EmptySeq
<1>2. ASSUME NEW ss \in Seq(Seq(D)), Q(ss), NEW y \in Seq(D)
      PROVE  Q(Append(ss, y))
  <2> DEFINE tt == Append(ss, y)
             n == Len(ss)
  <2>1. /\ tt \in Seq(Seq(D)) /\ n \in Nat /\ Len(tt) = n + 1 /\ tt[n + 1] = y
        /\ \A k \in 1 .. n : tt[k] = ss[k]
    BY AppendProperties, LenProperties
  <2>2. SUFFICES ASSUME NEW f \in 1 .. n + 1, NEW x \in Seq(D),
                        \A k \in f .. n + 1 : tt[k] = <<>>
                 PROVE  FlattenSeq([tt EXCEPT ![f] = x]) = FlattenSeq(tt) \o x
    BY <2>1
  <2>3. y = <<>>
    BY <2>1, <2>2
  <2>4. FlattenSeq(tt) = FlattenSeq(ss)
    <3>1. FlattenSeq(tt) = FlattenSeq(ss) \o y /\ FlattenSeq(ss) \in Seq(D)
      BY FlattenAppend, FlattenType
    <3>2. QED
      BY <2>3, <3>1, ConcatEmptySeq
  <2>5. CASE f = n + 1
    <3>1. [tt EXCEPT ![f] = x] = Append(ss, x)
      BY <2>5, ExceptOfAppend
    <3>2. QED
      BY <2>4, <3>1, FlattenAppend
  <2>6. CASE f \in 1 .. n
    <3> DEFINE uu == [ss EXCEPT ![f] = x]
    <3>1. uu \in Seq(Seq(D)) /\ Len(uu) = n
      BY <2>6, ExceptSeq
    <3>2. [tt EXCEPT ![f] = x] = Append(uu, y)
      BY <2>6, ExceptOfAppend
    <3>3. FlattenSeq(Append(uu, y)) = FlattenSeq(uu) \o y /\ FlattenSeq(uu) \in Seq(D)
      BY <3>1, FlattenAppend, FlattenType
    <3>4. FlattenSeq(Append(uu, y)) = FlattenSeq(uu)
      BY <2>3, <3>3, ConcatEmptySeq
    <3>5. \A k \in f .. n : ss[k] = <<>>
      BY <2>1, <2>2, <2>6
    <3>6. FlattenSeq(uu) = FlattenSeq(ss) \o x
      BY <1>2, <2>6, <3>5
    <3>7. QED
      BY <2>4, <3>2, <3>4, <3>6
  <2>7. f \in 1 .. n \/ f = n + 1
    BY <2>1
  <2>8. QED
    BY ONLY <2>5, <2>6, <2>7
<1> HIDE DEF Q
<1>3. <<>> \in P /\ \A ss \in Seq(Seq(D)), y \in Seq(D) : ss \in P => Append(ss, y) \in P
  BY <1>1, <1>2, EmptySeq, AppendProperties
<1>4. Seq(Seq(D)) \subseteq P
  BY <1>3, SequenceInduction
<1>5. QED
  BY <1>4 DEF Q

LEMMA ListIsSeq ==
  ASSUME NEW S, NEW n \in Nat, NEW f \in [1 .. n -> S]
  PROVE  f \in Seq(S) /\ Len(f) = n
<1>1. f \in Seq(S) /\ DOMAIN f = 1 .. n
  BY SeqDef
<1>2. Len(f) \in Nat /\ DOMAIN f = 1 .. Len(f)
  BY <1>1, LenProperties
<1>3. QED
  BY <1>1, <1>2

Piece(x, X) == IF x \in X THEN <<>> ELSE <<x>>
Pieces(s, X) == [k \in DOMAIN s |-> Piece(s[k], X)]

LEMMA PieceType ==
  ASSUME NEW D, NEW X, NEW x \in D
  PROVE  Piece(x, X) \in Seq(D \ X)
<1>1. CASE x \in X
  BY <1>1, EmptySeq DEF Piece
<1>2. CASE x \notin X
  BY <1>2, <<x>> \in Seq(D \ X) DEF Piece
<1>3. QED
  BY <1>1, <1>2

LEMMA PiecesType ==
  ASSUME NEW D, NEW X, NEW s \in Seq(D)
  PROVE  /\ Pieces(s, X) \in Seq(Seq(D \ X))
         /\ Len(Pieces(s, X)) = Len(s)
         /\ \A k \in 1 .. Len(s) : Pieces(s, X)[k] = Piece(s[k], X)
<1>1. Len(s) \in Nat /\ DOMAIN s = 1 .. Len(s) /\ \A k \in 1 .. Len(s) : s[k] \in D
  BY LenProperties
<1>2. Pieces(s, X) \in [1 .. Len(s) -> Seq(D \ X)]
  BY <1>1, PieceType DEF Pieces
<1>3. QED
  BY <1>1, <1>2, ListIsSeq DEF Pieces

LEMMA WithoutIsPieces ==
  ASSUME NEW s, NEW X
  PROVE  Without(s, X) = FlattenSeq(Pieces(s, X))
  BY DEF Without, Pieces, Piece

LEMMA WithoutType ==
  ASSUME NEW D, NEW X, NEW s \in Seq(D)
  PROVE  Without(s, X) \in Seq(D \ X)
  BY PiecesType, FlattenType, WithoutIsPieces

LEMMA WithoutEmpty ==
  ASSUME NEW X
  PROVE  Without(<<>>, X) = <<>>
<1>1. <<>> \in Seq({}) /\ Len(<<>>) = 0
  BY EmptySeq
<1>2. Pieces(<<>>, X) = <<>>
  BY <1>1, PiecesType, EmptySeq
<1>3. QED
  BY <1>2, FlattenEmpty, WithoutIsPieces

LEMMA WithoutAppend ==
  ASSUME NEW D, NEW X, NEW s \in Seq(D), NEW x \in D
  PROVE  Without(Append(s, x), X) = Without(s, X) \o Piece(x, X)
<1> DEFINE t == Append(s, x)
           n == Len(s)
           a == Pieces(t, X)
           b == Append(Pieces(s, X), Piece(x, X))
<1>1. /\ n \in Nat /\ t \in Seq(D) /\ Len(t) = n + 1 /\ t[n + 1] = x
      /\ \A k \in 1 .. n : t[k] = s[k]
  BY AppendProperties, LenProperties
<1>2. /\ Pieces(s, X) \in Seq(Seq(D \ X)) /\ Len(Pieces(s, X)) = n
      /\ \A k \in 1 .. n : Pieces(s, X)[k] = Piece(s[k], X)
  BY PiecesType
<1>3. Piece(x, X) \in Seq(D \ X)
  BY PieceType
<1>4. /\ b \in Seq(Seq(D \ X)) /\ Len(b) = n + 1 /\ b[n + 1] = Piece(x, X)
      /\ \A k \in 1 .. n : b[k] = Pieces(s, X)[k]
  BY <1>2, <1>3, AppendProperties
<1> HIDE DEF t, n
<1>5. /\ a \in Seq(Seq(D \ X)) /\ Len(a) = n + 1
      /\ \A k \in 1 .. n + 1 : a[k] = Piece(t[k], X)
  BY <1>1, PiecesType
<1> HIDE DEF a, b
<1>6. \A k \in 1 .. n + 1 : a[k] = b[k]
  <2>1. \A k \in 1 .. n + 1 : k \in 1 .. n \/ k = n + 1
    BY <1>1
  <2>2. n + 1 \in 1 .. n + 1 /\ \A k \in 1 .. n : k \in 1 .. n + 1
    BY <1>1
  <2>3. a[n + 1] = b[n + 1]
    BY ONLY <1>1, <1>4, <1>5, <2>2, Zenon
  <2>4. \A k \in 1 .. n : a[k] = Piece(t[k], X) /\ b[k] = Piece(s[k], X)
    BY ONLY <1>2, <1>4, <1>5, <2>2, Zenon
  <2>5. QED
    BY ONLY <1>1, <2>1, <2>3, <2>4, Zenon
<1>7. a = b
  BY <1>4, <1>5, <1>6, SeqEqual
<1>8. FlattenSeq(b) = FlattenSeq(Pieces(s, X)) \o Piece(x, X)
  BY <1>2, <1>3, FlattenAppend DEF b
<1>9. QED
  BY <1>7, <1>8, WithoutIsPieces DEF a, t

(* Skipping in two parts.                                                      *)
LEMMA WithoutConcat ==
  ASSUME NEW D, NEW X, NEW s \in Seq(D)
  PROVE  \A t \in Seq(D) : Without(s \o t, X) = Without(s, X) \o Without(t, X)
<1> DEFINE P == {t \in Seq(D) : Without(s \o t, X) = Without(s, X) \o Without(t, X)}
<1>1. <<>> \in P
  <2>1. Without(s, X) \in Seq(D \ X) /\ s \o <<>> = s /\ <<>> \in Seq(D)
    BY WithoutType, ConcatEmptySeq, EmptySeq
  <2>2. Without(s, X) \o <<>> = Without(s, X)
    BY <2>1, ConcatEmptySeq
  <2>3. QED
    BY <2>1, <2>2, WithoutEmpty
<1>2. ASSUME NEW t \in Seq(D), NEW x \in D, t \in P
      PROVE  Append(t, x) \in P
  <2>1. /\ Append(t, x) \in Seq(D) /\ <<x>> \in Seq(D) /\ s \o t \in Seq(D)
        /\ Append(t, x) = t \o <<x>> /\ Append(s \o t, x) = (s \o t) \o <<x>>
    BY AppendProperties, AppendIsConcat, ConcatProperties
  <2>2. s \o Append(t, x) = Append(s \o t, x)
    BY <2>1, ConcatAssociative
  <2>3. Without(s \o Append(t, x), X) = (Without(s, X) \o Without(t, X)) \o Piece(x, X)
    BY <1>2, <2>1, <2>2, WithoutAppend
  <2>4. /\ Without(s, X) \in Seq(D \ X) /\ Without(t, X) \in Seq(D \ X)
        /\ Piece(x, X) \in Seq(D \ X)
    BY WithoutType, PieceType
  <2>5. Without(s \o Append(t, x), X) = Without(s, X) \o (Without(t, X) \o Piece(x, X))
    BY <2>3, <2>4, ConcatAssociative
  <2>6. QED
    BY <2>1, <2>5, WithoutAppend
<1>3. \A t \in Seq(D), x \in D : t \in P => Append(t, x) \in P
  BY <1>2
<1>4. Seq(D) \subseteq P
  BY ONLY <1>1, <1>3, SequenceInduction
<1>5. QED
  BY <1>4

(* Skipping from what was joined is joining what was left of each part.        *)
LEMMA WithoutFlatten ==
  ASSUME NEW D, NEW X
  PROVE  \A ss \in Seq(Seq(D)) :
           Without(FlattenSeq(ss), X) = FlattenSeq([k \in 1 .. Len(ss) |-> Without(ss[k], X)])
<1> DEFINE Each(ss) == [k \in 1 .. Len(ss) |-> Without(ss[k], X)]
           P == {ss \in Seq(Seq(D)) : Without(FlattenSeq(ss), X) = FlattenSeq(Each(ss))}
<1>1. ASSUME NEW ss \in Seq(Seq(D))
      PROVE  Each(ss) \in Seq(Seq(D \ X)) /\ Len(Each(ss)) = Len(ss)
  <2>1. Len(ss) \in Nat /\ \A k \in 1 .. Len(ss) : ss[k] \in Seq(D)
    BY LenProperties
  <2>2. Each(ss) \in [1 .. Len(ss) -> Seq(D \ X)]
    BY <2>1, WithoutType
  <2>3. QED
    BY <2>1, <2>2, ListIsSeq
<1>2. <<>> \in P
  <2>1. <<>> \in Seq(Seq(D)) /\ Len(<<>>) = 0
    BY EmptySeq
  <2>2. Each(<<>>) = <<>>
    BY <1>1, <2>1, EmptySeq
  <2>3. QED
    BY <2>1, <2>2, FlattenEmpty, WithoutEmpty
<1>3. ASSUME NEW ss \in Seq(Seq(D)), NEW x \in Seq(D), ss \in P
      PROVE  Append(ss, x) \in P
  <2> DEFINE tt == Append(ss, x)
             n == Len(ss)
             b == Append(Each(ss), Without(x, X))
  <2>1. /\ n \in Nat /\ tt \in Seq(Seq(D)) /\ Len(tt) = n + 1 /\ tt[n + 1] = x
        /\ \A k \in 1 .. n : tt[k] = ss[k]
    BY AppendProperties, LenProperties
  <2>2. Without(x, X) \in Seq(D \ X) /\ Each(ss) \in Seq(Seq(D \ X)) /\ Len(Each(ss)) = n
    BY <1>1, WithoutType
  <2>3. /\ b \in Seq(Seq(D \ X)) /\ Len(b) = n + 1 /\ b[n + 1] = Without(x, X)
        /\ \A k \in 1 .. n : b[k] = Each(ss)[k]
    BY <2>2, AppendProperties
  <2>4. \A k \in 1 .. n : Each(ss)[k] = Without(ss[k], X)
    OBVIOUS
  <2>5. Each(tt) \in Seq(Seq(D \ X)) /\ Len(Each(tt)) = n + 1
    BY <1>1, <2>1
  <2>6. \A k \in 1 .. n + 1 : Each(tt)[k] = Without(tt[k], X)
    BY <2>1
  <2>7. FlattenSeq(b) = FlattenSeq(Each(ss)) \o Without(x, X)
    BY <2>2, FlattenAppend
  <2>8. FlattenSeq(tt) = FlattenSeq(ss) \o x /\ FlattenSeq(ss) \in Seq(D)
    BY FlattenAppend, FlattenType
  <2>9. Without(FlattenSeq(ss), X) = FlattenSeq(Each(ss))
    BY <1>3
  <2> HIDE DEF tt, n, b, Each
  <2>10. \A k \in 1 .. n + 1 : Each(tt)[k] = b[k]
    <3>1. \A k \in 1 .. n + 1 : k \in 1 .. n \/ k = n + 1
      BY <2>1
    <3>2. QED
      BY <2>1, <2>3, <2>4, <2>6, <3>1
  <2>11. Each(tt) = b
    BY <2>3, <2>5, <2>10, SeqEqual
  <2>12. Without(FlattenSeq(tt), X) = FlattenSeq(Each(ss)) \o Without(x, X)
    <3>1. x \in Seq(D)
      OBVIOUS
    <3>2. Without(FlattenSeq(ss) \o x, X) = Without(FlattenSeq(ss), X) \o Without(x, X)
      BY ONLY <2>8, <3>1, WithoutConcat
    <3>3. QED
      BY ONLY <2>8, <2>9, <3>2
  <2>13. Without(FlattenSeq(tt), X) = FlattenSeq(Each(tt))
    BY <2>7, <2>11, <2>12
  <2>14. QED
    BY <2>1, <2>13 DEF tt
<1>4. \A ss \in Seq(Seq(D)), x \in Seq(D) : ss \in P => Append(ss, x) \in P
  BY <1>3
<1>5. Seq(Seq(D)) \subseteq P
  BY ONLY <1>2, <1>4, SequenceInduction
<1>6. QED
  BY <1>5

--------------------------------------------------------------------------------
(* What the reading keeps, and the listing that it yields.                     *)

(* What a source contributes, when it is read as d.                            *)
FromSource(d) == FlattenSeq([f \in Files |-> Contribution(d[f])])

(* The source at hand is being read as d: the files read so far were like that *)
(* while the request was looking, and those passed over were not listed.       *)
Reading(d) ==
    /\ \A f \in Files \ todo : d[f] \in Readable(source, f)
    /\ \A f \in Files \ todo : (\E g \in todo : g < f) => d[f] = Absent
    /\ raw = FlattenSeq([f \in Files |-> IF f \in todo THEN <<>> ELSE Loaded(d[f])])

(* The sources are being read as c.                                            *)
ReadAs(c) ==
    /\ \A s \in 1 .. source - 1, f \in Files : c[s][f] \in Readable(s, f)
    /\ out = FlattenSeq([s \in 1 .. source - 1 |-> FromSource(c[s])])
    /\ todo # Unlisted => Reading(c[source])

RegularInv ==
    /\ StandaloneTypeOK
    /\ raw \in Seq(Versions)
    /\ todo = Unlisted => raw = <<>>
    /\ cluster \in seen.maps
    /\ \E c \in [Sources -> Directories] : ReadAs(c)
    /\ pc \notin {"read", "fetch", "failed"} => \E m \in seen.maps : pols = out \o Kube(m)

(* Types of what is read: nothing odd, and nothing foreign, is loaded.         *)

Docs == Versions \cup {Foreign, Odd}

LEMMA SequencesMix ==
  ASSUME NEW S, NEW s \in Seq(S), NEW T, \A k \in 1 .. Len(s) : s[k] \in T
  PROVE  s \in Seq(T)
<1>1. Len(s) \in Nat /\ s \in [1 .. Len(s) -> S]
  BY LenProperties
<1>2. s \in [1 .. Len(s) -> T]
  BY <1>1
<1>3. QED
  BY <1>1, <1>2, ListIsSeq

LEMMA LoadedType ==
  ASSUME NEW c \in Contents \cup {Absent}
  PROVE  Loaded(c) \in Seq(Docs) /\ Contribution(c) \in Seq(Docs \ Refused)
<1>1. CASE c = Absent
  <2>1. Loaded(c) = <<>> /\ <<>> \in Seq(Docs)
    BY <1>1, EmptySeq DEF Loaded
  <2>2. QED
    BY <2>1, WithoutType DEF Contribution
<1>2. CASE c # Absent
  <2>1. c \in Seq(Docs)
    BY <1>2, ContentsAreDocuments DEF Docs
  <2>2. Without(c, {Foreign}) \in Seq(Docs \ {Foreign})
    BY <2>1, WithoutType
  <2>3. Without(c, {Foreign}) \in Seq(Docs)
    BY <2>2, SeqMonotonic
  <2>4. QED
    BY <1>2, <2>3, WithoutType DEF Loaded, Contribution
<1>3. QED
  BY <1>1, <1>2

LEMMA ReadableLoads ==
  ASSUME NEW c \in Contents \cup {Absent}, c = Absent \/ ~Fatal(c)
  PROVE  Loaded(c) \in Seq(Versions)
<1>1. CASE c = Absent
  BY <1>1, EmptySeq DEF Loaded
<1>2. CASE c # Absent
  <2> DEFINE T == Versions \cup {Foreign}
  <2>1. c \in Seq(Docs) /\ Len(c) \in Nat /\ DOMAIN c = 1 .. Len(c)
    BY <1>2, ContentsAreDocuments, LenProperties DEF Docs
  <2>2. \A k \in 1 .. Len(c) : c[k] \in Docs /\ c[k] # Odd
    BY <1>2, <2>1, LenProperties DEF Fatal
  <2>3. \A k \in 1 .. Len(c) : c[k] \in T
    BY <2>2 DEF Docs
  <2>4. c \in Seq(T)
    BY <2>1, <2>3, SequencesMix
  <2>5. Without(c, {Foreign}) \in Seq(T \ {Foreign})
    BY <2>4, WithoutType
  <2>6. T \ {Foreign} \subseteq Versions
    OBVIOUS
  <2> HIDE DEF T
  <2>7. QED
    BY <1>2, <2>5, <2>6, SeqMonotonic DEF Loaded
<1>3. QED
  BY <1>1, <1>2

LEMMA FilesAreNat == NumFiles \in Nat /\ Files = 1 .. NumFiles
  BY SourcesAreNat DEF Files

LEMMA FromSourceType ==
  ASSUME NEW d \in Directories
  PROVE  FromSource(d) \in Seq(Docs \ Refused)
<1>1. \A f \in Files : Contribution(d[f]) \in Seq(Docs \ Refused)
  BY LoadedType DEF Directories
<1>2. [f \in Files |-> Contribution(d[f])] \in [1 .. NumFiles -> Seq(Docs \ Refused)]
  BY <1>1, FilesAreNat
<1>3. [f \in Files |-> Contribution(d[f])] \in Seq(Seq(Docs \ Refused))
  BY <1>2, FilesAreNat, ListIsSeq
<1>4. QED
  BY <1>3, FlattenType DEF FromSource

(* When no file is left, compiling what was loaded gives what the source, read *)
(* as it was, contributes.                                                     *)
LEMMA CompiledIsContribution ==
  ASSUME NEW d \in Directories
  PROVE  Without(FlattenSeq([f \in Files |-> Loaded(d[f])]), Refused) = FromSource(d)
<1> DEFINE ss == [f \in Files |-> Loaded(d[f])]
<1>1. \A f \in Files : Loaded(d[f]) \in Seq(Docs)
  BY LoadedType DEF Directories
<1>2. ss \in Seq(Seq(Docs)) /\ Len(ss) = NumFiles
  <2>1. ss \in [1 .. NumFiles -> Seq(Docs)]
    BY <1>1, FilesAreNat
  <2>2. QED
    BY <2>1, FilesAreNat, ListIsSeq
<1>3. [f \in 1 .. Len(ss) |-> Without(ss[f], Refused)] = [f \in Files |-> Contribution(d[f])]
  BY <1>2, FilesAreNat DEF Contribution
<1> HIDE DEF ss
<1>4. Without(FlattenSeq(ss), Refused)
        = FlattenSeq([f \in 1 .. Len(ss) |-> Without(ss[f], Refused)])
  BY <1>2, WithoutFlatten
<1>5. QED
  BY <1>3, <1>4 DEF ss, FromSource

(* The first listing has no policies, and nothing has been read for it.        *)
LEMMA RegularInit == StandaloneInit => RegularInv
<1> SUFFICES ASSUME StandaloneInit PROVE RegularInv
  OBVIOUS
<1>1. /\ source = 1 /\ todo = Unlisted /\ raw = <<>> /\ out = <<>>
      /\ pc \in {"read", "fetch"} /\ cluster \in seen.maps
  BY DEF StandaloneInit, Init
<1> DEFINE c == [s \in Sources |-> [f \in Files |-> Absent]]
<1>2. c \in [Sources -> Directories]
  BY DEF Directories
<1>3. ReadAs(c)
  <2>1. 1 .. source - 1 = {}
    BY <1>1
  <2> DEFINE ss == [s \in 1 .. source - 1 |-> FromSource(c[s])]
  <2>2. ss \in [1 .. 0 -> Seq(Docs)]
    BY <2>1
  <2>3. ss \in Seq(Seq(Docs)) /\ Len(ss) = 0
    BY <2>2, ListIsSeq
  <2>4. FlattenSeq(ss) = <<>>
    BY <2>3, EmptySeq, FlattenEmpty
  <2>5. QED
    BY <1>1, <2>1, <2>4 DEF ReadAs
<1>4. StandaloneTypeOK /\ raw \in Seq(Versions)
  BY <1>1, EmptySeq, SourcesAreNat DEF StandaloneTypeOK, Listings
<1>5. QED
  BY <1>1, <1>2, <1>3, <1>4 DEF RegularInv

(* What was readable stays so.                                                 *)
LEMMA ReadableGrows ==
  ASSUME \A s \in Sources, f \in Files : seen.files[s][f] \subseteq seen'.files[s][f]
  PROVE  \A s \in Sources, f \in Files : Readable(s, f) \subseteq Readable(s, f)'
  BY DEF Readable, Fatal

(* Nothing is read in this step.                                               *)
LEMMA ReadAsBefore ==
  ASSUME StandaloneTypeOK, todo # Unlisted => source \in Sources,
         \A s \in Sources, f \in Files : seen.files[s][f] \subseteq seen'.files[s][f],
         UNCHANGED <<source, todo, raw, out>>, NEW c, ReadAs(c)
  PROVE  ReadAs(c)'
<1>1. \A s \in Sources, f \in Files : Readable(s, f) \subseteq Readable(s, f)'
  BY ReadableGrows
<1>2. \A s \in 1 .. source - 1 : s \in Sources
  BY SourcesAreNat DEF StandaloneTypeOK, Sources
<1>3. \A s \in 1 .. source' - 1, f \in Files : c[s][f] \in Readable(s, f)'
  BY <1>1, <1>2 DEF ReadAs
<1>4. out' = FlattenSeq([s \in 1 .. source' - 1 |-> FromSource(c[s])])
  BY DEF ReadAs
<1>5. todo' # Unlisted => Reading(c[source])'
  BY <1>1 DEF ReadAs, Reading
<1>6. QED
  BY <1>3, <1>4, <1>5 DEF ReadAs, FromSource, Contribution, Without, Loaded

(* What has been read of the earlier sources does not depend on this one.      *)
LEMMA OtherSourceRead ==
  ASSUME StandaloneTypeOK, source \in Sources, NEW c \in [Sources -> Directories],
         NEW d \in Directories, ReadAs(c)
  PROVE  \E e \in [Sources -> Directories] :
           /\ e[source] = d
           /\ \A s \in 1 .. source - 1, f \in Files : e[s][f] \in Readable(s, f)
           /\ out = FlattenSeq([s \in 1 .. source - 1 |-> FromSource(e[s])])
<1> DEFINE e == [c EXCEPT ![source] = d]
<1>1. e \in [Sources -> Directories] /\ e[source] = d
  OBVIOUS
<1>2. \A s \in 1 .. source - 1 : e[s] = c[s]
  BY SourcesAreNat DEF Sources, StandaloneTypeOK
<1> HIDE DEF e
<1>3. [s \in 1 .. source - 1 |-> FromSource(e[s])] = [s \in 1 .. source - 1 |-> FromSource(c[s])]
  BY <1>2
<1>4. out = FlattenSeq([s \in 1 .. source - 1 |-> FromSource(e[s])])
  BY <1>3 DEF ReadAs
<1>5. \A s \in 1 .. source - 1, f \in Files : e[s][f] \in Readable(s, f)
  BY <1>2 DEF ReadAs
<1>6. QED
  BY <1>1, <1>4, <1>5

LEMMA ListDirKeepsRegular == CauseInv /\ RegularInv /\ ListDir => RegularInv'
<1> SUFFICES ASSUME CauseInv, RegularInv, ListDir PROVE RegularInv'
  OBVIOUS
<1>1. /\ source \in Sources /\ todo = Unlisted /\ disk[source] # Gone
      /\ todo' = {f \in Files : disk[source][f] # Absent}
      /\ source' = source /\ raw' = raw /\ out' = out /\ seen' = seen /\ pc' = pc
      /\ pols' = pols /\ cluster' = cluster
  BY DEF ListDir, Looking, vars, inputs
<1>2. PICK d \in Directories : /\ d = disk[source]
                              /\ \A f \in Files : d[f] \in seen.files[source][f]
  BY <1>1 DEF CauseInv
<1>3. StandaloneTypeOK'
  BY <1>1 DEF RegularInv, StandaloneTypeOK
<1>4. raw = <<>>
  BY <1>1 DEF RegularInv
<1>5. PICK c \in [Sources -> Directories] : ReadAs(c)
  BY DEF RegularInv
<1>6. PICK e \in [Sources -> Directories] :
      /\ e[source] = d
      /\ \A s \in 1 .. source - 1, f \in Files : e[s][f] \in Readable(s, f)
      /\ out = FlattenSeq([s \in 1 .. source - 1 |-> FromSource(e[s])])
  BY <1>1, <1>2, <1>5, OtherSourceRead DEF RegularInv
<1>7. Reading(d)'
  <2>1. \A f \in Files \ todo' : d[f] = Absent
    BY <1>1, <1>2
  <2>2. \A f \in Files \ todo' : d[f] \in Readable(source, f)'
    BY <1>1, <1>2, <2>1 DEF Readable, Fatal
  <2> DEFINE ss == [f \in Files |-> IF f \in todo' THEN <<>> ELSE Loaded(d[f])]
  <2>3. \A f \in Files : ss[f] = <<>>
    BY <2>1 DEF Loaded
  <2>4. ss \in Seq(Seq(Docs)) /\ Len(ss) = NumFiles
    <3>1. <<>> \in Seq(Docs)
      BY EmptySeq
    <3>2. ss \in [1 .. NumFiles -> Seq(Docs)]
      BY <2>3, <3>1, FilesAreNat
    <3>3. QED
      BY <3>2, FilesAreNat, ListIsSeq
  <2>5. FlattenSeq(ss) = <<>>
    BY <2>3, <2>4, FilesAreNat, FlattenNothing
  <2>6. QED
    BY <1>1, <1>4, <2>1, <2>2, <2>5 DEF Reading, Loaded, Without
<1>8. ReadAs(e)'
  <2>1. \A s \in 1 .. source - 1, f \in Files : e[s][f] \in Readable(s, f)'
    BY <1>1, <1>6 DEF Readable, Fatal
  <2>2. QED
    BY <1>1, <1>6, <1>7, <2>1 DEF ReadAs, FromSource, Contribution, Without, Loaded
<1>9. \E x \in [Sources -> Directories] : ReadAs(x)'
  BY <1>6, <1>8
<1>10. QED
  BY <1>1, <1>3, <1>4, <1>9 DEF RegularInv, Kube, MapToSortedSlice

LEMMA ReadFileKeepsRegular ==
  ASSUME CauseInv, RegularInv, NEW f \in Files, ReadFile(f)
  PROVE  RegularInv'
<1>1. /\ source \in Sources /\ f \in todo /\ (\A g \in todo : f <= g) /\ todo # Unlisted
      /\ ~Fatal(disk[source][f]) /\ todo' = todo \ {f}
      /\ raw' = raw \o Loaded(disk[source][f])
      /\ source' = source /\ out' = out /\ seen' = seen /\ pc' = pc
      /\ pols' = pols /\ cluster' = cluster
  BY DEF ReadFile, Turn, Looking, Unlisted, vars, inputs
<1>2. todo \subseteq Files /\ todo' # Unlisted /\ Files \subseteq Nat
  BY <1>1, FilesAreNat DEF RegularInv, StandaloneTypeOK, Unlisted
<1>3. PICK x \in Contents \cup {Absent} : x = disk[source][f] /\ x \in Readable(source, f)
  BY <1>1 DEF CauseInv, Directories, Readable
<1>4. Loaded(x) \in Seq(Versions)
  BY <1>1, <1>3, ReadableLoads
<1>5. raw' \in Seq(Versions)
  BY <1>1, <1>3, <1>4, ConcatProperties DEF RegularInv
<1>6. StandaloneTypeOK'
  BY <1>1, <1>2, <1>5, LenProperties DEF RegularInv, StandaloneTypeOK
<1>7. PICK c \in [Sources -> Directories] : ReadAs(c)
  BY DEF RegularInv
<1>8. PICK d \in Directories : d = [c[source] EXCEPT ![f] = x]
  BY <1>1, <1>3, <1>7 DEF Directories
<1>9. PICK e \in [Sources -> Directories] :
      /\ e[source] = d
      /\ \A s \in 1 .. source - 1, g \in Files : e[s][g] \in Readable(s, g)
      /\ out = FlattenSeq([s \in 1 .. source - 1 |-> FromSource(e[s])])
  BY <1>1, <1>7, <1>8, OtherSourceRead DEF RegularInv
<1> DEFINE b == c[source]
<1>10. /\ Reading(b) /\ b \in Directories /\ d[f] = x
       /\ \A g \in Files \ {f} : d[g] = b[g]
  BY <1>1, <1>7, <1>8 DEF ReadAs, Directories
<1>11. Reading(d)'
  <2>1. \A g \in Files \ todo' : d[g] \in Readable(source, g)'
    BY <1>1, <1>3, <1>10 DEF Reading, Readable, Fatal
  <2>2. \A g \in Files \ todo' : (\E h \in todo' : h < g) => d[g] = Absent
    BY <1>1, <1>2, <1>10 DEF Reading
  <2> DEFINE ss == [g \in Files |-> IF g \in todo THEN <<>> ELSE Loaded(b[g])]
             tt == [g \in Files |-> IF g \in todo' THEN <<>> ELSE Loaded(d[g])]
  <2>3. tt = [ss EXCEPT ![f] = Loaded(x)]
    BY <1>1, <1>10
  <2>4. ss \in Seq(Seq(Docs)) /\ Len(ss) = NumFiles /\ Loaded(x) \in Seq(Docs)
    <3>1. /\ <<>> \in Seq(Docs) /\ Loaded(x) \in Seq(Docs)
          /\ \A g \in Files : Loaded(b[g]) \in Seq(Docs)
      BY <1>3, <1>10, EmptySeq, LoadedType DEF Directories
    <3>2. ss \in [1 .. NumFiles -> Seq(Docs)]
      BY <3>1, FilesAreNat
    <3>3. QED
      BY <3>1, <3>2, FilesAreNat, ListIsSeq
  <2>5. \A g \in f .. Len(ss) : ss[g] = <<>>
    <3>1. SUFFICES ASSUME NEW g \in f .. NumFiles, g \notin todo PROVE Loaded(b[g]) = <<>>
      BY <1>2, <2>4, FilesAreNat
    <3>2. g \in Files /\ f < g
      BY <1>1, <1>2, <3>1, FilesAreNat
    <3>3. b[g] = Absent
      BY <1>1, <1>10, <3>1, <3>2 DEF Reading
    <3>4. QED
      BY <3>3 DEF Loaded
  <2>6. f \in 1 .. Len(ss)
    BY <2>4, FilesAreNat
  <2> HIDE DEF ss, tt
  <2>7. FlattenSeq(tt) = FlattenSeq(ss) \o Loaded(x)
    BY <2>3, <2>4, <2>5, <2>6, FlattenLast
  <2>8. raw = FlattenSeq(ss)
    BY <1>10 DEF Reading, ss
  <2>9. raw' = FlattenSeq(tt)
    BY <1>1, <1>3, <2>7, <2>8
  <2>10. raw' = FlattenSeq([g \in Files |-> IF g \in todo' THEN <<>> ELSE Loaded(d[g])])
    BY <2>9 DEF tt
  <2>11. QED
    BY <2>1, <2>2, <2>10 DEF Reading, Loaded, Without
<1>12. ReadAs(e)'
  <2>1. \A s \in 1 .. source - 1, g \in Files : e[s][g] \in Readable(s, g)'
    BY <1>1, <1>9 DEF Readable, Fatal
  <2>2. QED
    BY <1>1, <1>9, <1>11, <2>1 DEF ReadAs, FromSource, Contribution, Without, Loaded
<1>13. \E y \in [Sources -> Directories] : ReadAs(y)'
  BY <1>9, <1>12
<1>14. QED
  BY <1>1, <1>2, <1>5, <1>6, <1>13 DEF RegularInv, Kube, MapToSortedSlice

LEMMA CompileAllKeepsRegular == CauseInv /\ RegularInv /\ CompileAll => RegularInv'
<1> SUFFICES ASSUME CauseInv, RegularInv, CompileAll PROVE RegularInv'
  OBVIOUS
<1>1. /\ source \in Sources /\ todo = {} /\ todo # Unlisted /\ pc = "fetch"
      /\ out' = out \o Without(raw, Refused)
      /\ source' = source + 1 /\ todo' = Unlisted /\ raw' = <<>>
      /\ seen' = seen /\ pc' = pc /\ pols' = pols /\ cluster' = cluster
  BY DEF CompileAll, Looking, Unlisted, vars, inputs
<1>2. source \in Nat \ {0} /\ source <= NumSources /\ NumSources \in Nat
  BY <1>1, SourcesAreNat DEF Sources
<1>3. PICK c \in [Sources -> Directories] : ReadAs(c)
  BY DEF RegularInv
<1> DEFINE d == c[source]
           ss == [s \in 1 .. source - 1 |-> FromSource(c[s])]
           tt == [s \in 1 .. source |-> FromSource(c[s])]
<1>4. d \in Directories /\ Reading(d) /\ out = FlattenSeq(ss)
  BY <1>1, <1>3 DEF ReadAs
<1>5. Without(raw, Refused) = FromSource(d)
  <2>1. [f \in Files |-> IF f \in todo THEN <<>> ELSE Loaded(d[f])] = [f \in Files |-> Loaded(d[f])]
    BY <1>1
  <2>2. raw = FlattenSeq([f \in Files |-> Loaded(d[f])])
    BY <1>4, <2>1 DEF Reading
  <2>3. QED
    BY <1>4, <2>2, CompiledIsContribution
<1>6. /\ ss \in Seq(Seq(Docs \ Refused)) /\ Len(ss) = source - 1
      /\ tt \in Seq(Seq(Docs \ Refused)) /\ Len(tt) = source
  <2>1. \A s \in 1 .. source : FromSource(c[s]) \in Seq(Docs \ Refused)
    BY <1>2, FromSourceType DEF Sources
  <2>2. /\ ss \in [1 .. source - 1 -> Seq(Docs \ Refused)] /\ source - 1 \in Nat
        /\ tt \in [1 .. source -> Seq(Docs \ Refused)]
    BY <1>2, <2>1
  <2>3. QED
    BY <1>2, <2>2, ListIsSeq
<1>7. FromSource(d) \in Seq(Docs \ Refused)
  BY <1>4, FromSourceType
<1>8. tt = Append(ss, FromSource(d))
  <2>1. /\ \A s \in 1 .. source - 1 : ss[s] = FromSource(c[s])
        /\ \A s \in 1 .. source : tt[s] = FromSource(c[s])
        /\ FromSource(d) = FromSource(c[source])
    OBVIOUS
  <2> HIDE DEF tt, ss, d
  <2> DEFINE uu == Append(ss, FromSource(d))
  <2>2. /\ uu \in Seq(Seq(Docs \ Refused)) /\ Len(uu) = Len(ss) + 1
        /\ uu[Len(ss) + 1] = FromSource(d) /\ \A s \in 1 .. Len(ss) : uu[s] = ss[s]
    BY <1>6, <1>7, AppendProperties
  <2> HIDE DEF uu
  <2>3. Len(ss) + 1 = source
    BY <1>2, <1>6
  <2>4. /\ Len(uu) = source /\ uu[source] = tt[source] /\ source \in 1 .. source
        /\ \A s \in 1 .. source - 1 : uu[s] = ss[s] /\ s \in 1 .. source
    BY <1>2, <1>6, <2>1, <2>2, <2>3
  <2>5. \A s \in 1 .. source : s \in 1 .. source - 1 \/ s = source
    BY <1>2
  <2>6. \A s \in 1 .. source : uu[s] = tt[s]
    BY <2>1, <2>4, <2>5, Zenon
  <2>7. tt = uu
    BY <1>6, <2>2, <2>4, <2>6, SeqEqual
  <2>8. QED
    BY <2>7 DEF uu
<1>9. out' = FlattenSeq(tt)
  <2> HIDE DEF tt, ss, d
  <2>1. FlattenSeq(tt) = FlattenSeq(ss) \o FromSource(d)
    BY <1>6, <1>7, <1>8, FlattenAppend
  <2>2. QED
    BY <1>1, <1>4, <1>5, <2>1
<1>10. ReadAs(c)'
  <2>1. source' - 1 = source
    BY <1>1, <1>2
  <2>2. \A s \in 1 .. source, f \in Files : c[s][f] \in Readable(s, f)
    <3>1. \A s \in 1 .. source : s \in 1 .. source - 1 \/ s = source
      BY <1>2
    <3>2. \A f \in Files : c[source][f] \in Readable(source, f)
      BY <1>1, <1>4 DEF Reading
    <3>3. QED
      BY <1>3, <3>1, <3>2 DEF ReadAs
  <2>3. \A s \in 1 .. source, f \in Files : c[s][f] \in Readable(s, f)'
    BY <1>1, <2>2 DEF Readable, Fatal
  <2>4. out' = FlattenSeq([s \in 1 .. source' - 1 |-> FromSource(c[s])])
    BY <1>9, <2>1
  <2>5. QED
    BY <1>1, <2>1, <2>3, <2>4 DEF ReadAs, FromSource, Contribution, Without, Loaded
<1>11. StandaloneTypeOK'
  <2>1. Without(raw, Refused) \in Seq(Versions \ Refused)
    BY WithoutType DEF RegularInv
  <2>2. Without(raw, Refused) \in Seq(Policies)
    BY <2>1, VersionsArePolicies, SeqMonotonic
  <2>3. out' \in Listings
    BY <1>1, <2>2, ConcatProperties DEF RegularInv, StandaloneTypeOK, Listings
  <2>4. \A k \in DOMAIN raw' : raw'[k] \in Versions
    BY <1>1
  <2>5. QED
    BY <1>1, <1>2, <2>3, <2>4 DEF StandaloneTypeOK, Listings, Policies
<1>12. raw' \in Seq(Versions)
  BY <1>1, EmptySeq
<1>13. QED
  BY <1>1, <1>3, <1>10, <1>11, <1>12 DEF RegularInv

Looks == {"read", "fetch", "failed"}

(* A step that reads nothing and evaluates no listing that was not there.      *)
LEMMA RegularBefore ==
  ASSUME CauseInv, RegularInv, UNCHANGED <<source, todo, raw, out>>, cluster' \in seen'.maps,
         \A s \in Sources, f \in Files : seen.files[s][f] \subseteq seen'.files[s][f],
         seen.maps \subseteq seen'.maps,
         pc' \notin Looks => pc \notin Looks /\ pols' = pols
  PROVE  RegularInv'
<1>1. StandaloneTypeOK'
  BY DEF RegularInv, StandaloneTypeOK, Listings, Policies, Looks
<1>2. PICK c \in [Sources -> Directories] : ReadAs(c)
  BY DEF RegularInv
<1>3. ReadAs(c)'
  BY <1>2, ReadAsBefore DEF CauseInv, RegularInv
<1>4. raw' \in Seq(Versions) /\ (todo' = Unlisted => raw' = <<>>)
  BY DEF RegularInv
<1>5. pc' \notin Looks => \E m \in seen'.maps : pols' = out' \o Kube(m)
  BY DEF RegularInv, Looks
<1>6. QED
  BY <1>1, <1>2, <1>3, <1>4, <1>5 DEF RegularInv, Looks, Kube, MapToSortedSlice

LEMMA ListKubeKeepsRegular == CauseInv /\ RegularInv /\ ListKube => RegularInv'
<1> SUFFICES ASSUME CauseInv, RegularInv, ListKube PROVE RegularInv'
  OBVIOUS
<1>1. /\ UNCHANGED <<source, todo, raw, out, seen, cluster>>
      /\ pc = "fetch" /\ pc' = "convert"
      /\ pols' = out \o Kube(cluster) /\ source > NumSources
  BY DEF ListKube, inputs, listing
<1>2. StandaloneTypeOK' /\ cluster \in seen.maps
  BY <1>1, SourcesAreNat DEF RegularInv, StandaloneTypeOK, Listings, Policies
<1>3. PICK c \in [Sources -> Directories] : ReadAs(c)
  BY DEF RegularInv
<1>4. ReadAs(c)'
  BY <1>1, <1>3, ReadAsBefore DEF CauseInv, RegularInv
<1>5. \E m \in seen'.maps : pols' = out' \o Kube(m)
  BY <1>1, <1>2
<1>6. QED
  BY <1>1, <1>2, <1>3, <1>4, <1>5 DEF RegularInv, Kube, MapToSortedSlice

LEMMA RegularInductive ==
  CauseInv /\ RegularInv /\ [StandaloneNext]_allVars => RegularInv'
<1> SUFFICES ASSUME CauseInv, RegularInv, [StandaloneNext]_allVars PROVE RegularInv'
  OBVIOUS
<1>1. CASE ListDir
  BY <1>1, ListDirKeepsRegular
<1>2. CASE \E f \in Files : ReadFile(f)
  BY <1>2, ReadFileKeepsRegular
<1>3. CASE CompileAll
  BY <1>3, CompileAllKeepsRegular
<1>4. CASE SourceFails
  <2>1. UNCHANGED <<source, todo, raw, out, seen, cluster>> /\ pc' \in Looks
    BY <1>4 DEF SourceFails, Refuse, inputs, listing, Looks
  <2>2. QED
    BY <2>1, RegularBefore DEF RegularInv
<1>5. CASE ListKube
  BY <1>5, ListKubeKeepsRegular
<1>6. CASE Evaluate
  <2>1. UNCHANGED <<source, todo, raw, out, seen, cluster>>
    BY <1>6 DEF Evaluate, inputs, listing
  <2>2. pc' \notin Looks => pc \notin Looks /\ pols' = pols
    <3>1. CASE Read \/ Refuse
      BY <3>1 DEF Read, Refuse, Looks
    <3>2. CASE Convert \/ ConditionError \/ ConditionTrue \/ ConditionFalse
      BY <3>2 DEF Convert, InMatch, ConditionError, ConditionTrue, ConditionFalse, NextPolicy, Looks
    <3>3. CASE Matched \/ MatchFailed
      BY <3>3 DEF InMatch, Matched, MatchFailed, Failure, NextPolicy, Finish, Looks
    <3>4. CASE RuleNull \/ RuleError \/ RuleResponds \/ RulesEnd \/ NoAnswer
      BY <3>4 DEF RuleNull, RuleError, RuleResponds, RulesEnd, NoAnswer, Failure, NextPolicy,
                  Finish, Looks
    <3>5. QED
      BY <1>6, <3>1, <3>2, <3>3, <3>4 DEF Evaluate
  <2>3. QED
    BY <2>1, <2>2, RegularBefore DEF RegularInv
<1>7. CASE \E s \in Sources, f \in Files : Edit(s, f)
  <2>1. PICK s \in Sources, f \in Files : Edit(s, f)
    BY <1>7
  <2>2. /\ UNCHANGED <<source, todo, raw, out, cluster>> /\ pc' = pc /\ pols' = pols
        /\ seen' = [seen EXCEPT !.files[s][f] = @ \cup {disk'[s][f]}]
    BY <2>1 DEF Edit, vars, listing
  <2>3. /\ seen'.files = [seen.files EXCEPT ![s][f] = @ \cup {disk'[s][f]}]
        /\ seen'.maps = seen.maps
    BY <2>2 DEF CauseInv
  <2>4. \A r \in Sources, g \in Files : seen.files[r][g] \subseteq seen'.files[r][g]
    BY <2>3 DEF CauseInv
  <2>5. QED
    BY <2>2, <2>3, <2>4, RegularBefore DEF RegularInv
<1>8. CASE Reconcile
  <2>1. /\ UNCHANGED <<source, todo, raw, out>> /\ pc' = pc /\ pols' = pols
        /\ seen' = [seen EXCEPT !.maps = @ \cup {cluster'}]
    BY <1>8 DEF Reconcile, vars, listing
  <2>2. seen'.files = seen.files /\ seen'.maps = seen.maps \cup {cluster'}
    BY <2>1 DEF CauseInv
  <2>3. QED
    BY <2>1, <2>2, RegularBefore
<1>9. CASE UNCHANGED allVars
  BY <1>9, RegularBefore DEF allVars, vars, inputs, listing, RegularInv
<1>10. QED
  BY <1>1, <1>2, <1>3, <1>4, <1>5, <1>6, <1>7, <1>8, <1>9 DEF StandaloneNext, Handler

LEMMA RegularImplied == RegularInv => ListingIsRegular
<1> DEFINE A == [Sources -> [Files -> UNION {Readable(s, f) : s \in Sources, f \in Files}]]
           Given(c, m) ==
             /\ \A s \in Sources, f \in Files : c[s][f] \in Readable(s, f)
             /\ pols = FlattenSeq([s \in Sources |->
                         FlattenSeq([f \in Files |-> Contribution(c[s][f])])]) \o Kube(m)
<1>1. ASSUME RegularInv, pc \notin Looks
      PROVE  \E c \in A, m \in seen.maps : Given(c, m)
  <2>1. source - 1 = NumSources /\ Sources = 1 .. source - 1
    BY <1>1, SourcesAreNat DEF RegularInv, StandaloneTypeOK, Looks, Sources
  <2>2. PICK c \in [Sources -> Directories] : ReadAs(c)
    BY <1>1 DEF RegularInv
  <2>3. PICK m \in seen.maps : pols = out \o Kube(m)
    BY <1>1 DEF RegularInv, Looks
  <2>4. \A s \in Sources, f \in Files : c[s][f] \in Readable(s, f)
    BY <2>1, <2>2 DEF ReadAs
  <2>5. c \in A
    BY <2>2, <2>4 DEF Directories
  <2>6. out = FlattenSeq([s \in Sources |-> FromSource(c[s])])
    BY <2>1, <2>2 DEF ReadAs
  <2>7. Given(c, m)
    BY <2>3, <2>4, <2>6, Zenon DEF FromSource
  <2> HIDE DEF A, Given
  <2>8. QED
    BY <2>3, <2>5, <2>7
<1>2. ListingIsRegular <=>
        (pc \notin {"read", "fetch", "failed"} => \E c \in A, m \in seen.maps : Given(c, m))
  BY DEF ListingIsRegular
<1> HIDE DEF A, Given
<1>3. QED
  BY <1>1, <1>2 DEF Looks

(* What a request loads are versions of policies, what it evaluates compiled,  *)
(* and it evaluates only once every source has been read (fs.go:53-117 and     *)
(* composite.go:15-26), whatever happens to the files meanwhile.               *)
THEOREM StandaloneTypeCorrect == StandaloneSpec => []StandaloneTypeOK
<1>1. RegularInv => StandaloneTypeOK
  BY DEF RegularInv
<1>2. QED
  BY <1>1, CauseInit, CauseInductive, RegularInit, RegularInductive, PTL DEF StandaloneSpec

(* Whatever changes while the sources are read (fs.go:53-117, composite.go     *)
(* 15-26), the listing is made of one whole content that each file had during  *)
(* the request, none twice, in order, and of one map of the cluster, last: for *)
(* any number of sources, files, documents and edits.                          *)
THEOREM ListingsAreRegular == StandaloneSpec => []ListingIsRegular
  BY CauseInit, CauseInductive, RegularInit, RegularInductive, RegularImplied, PTL
     DEF StandaloneSpec

--------------------------------------------------------------------------------
(* The handler with its sources is the handler of Authorizer, with a provider  *)
(* that answers with some listing.  The cluster's is a sequence of policies    *)
(* because every place of it belongs to one (as in SortedStoreProofs).         *)

(* The policies that are in a map, and how many of them come before a name.    *)
Present(m) == {n \in Names : m[n] # Absent}
Rank(m, n) == Cardinality({k \in Present(m) : k < n})

(* A later policy has more before it.                                          *)
LEMMA RankAscends ==
  ASSUME NEW m, IsFiniteSet(Present(m)), NEW a \in Present(m), NEW b \in Present(m), a < b
  PROVE  Rank(m, a) \in Nat /\ Rank(m, b) \in Nat /\ Rank(m, a) < Rank(m, b)
<1> DEFINE A == {k \in Present(m) : k < a}
           B == {k \in Present(m) : k < b}
<1>1. Present(m) \subseteq Int
  BY NamesAreOrdered DEF Present
<1>2. IsFiniteSet(A) /\ IsFiniteSet(B)
  BY FS_Subset
<1>3. A \cup {a} \subseteq B /\ a \notin A
  BY <1>1
<1> HIDE DEF A, B
<1>4. IsFiniteSet(A \cup {a}) /\ Cardinality(A \cup {a}) = Cardinality(A) + 1
  BY <1>2, <1>3, FS_AddElement
<1>5. Cardinality(A \cup {a}) <= Cardinality(B)
  BY <1>2, <1>3, FS_Subset
<1>6. Cardinality(A) \in Nat /\ Cardinality(B) \in Nat
  BY <1>2, FS_CardinalityType
<1>7. QED
  BY <1>4, <1>5, <1>6 DEF Rank, A, B

(* Two policies have different places.                                         *)
LEMMA RankDiffers ==
  ASSUME NEW m, IsFiniteSet(Present(m)), NEW a \in Present(m), NEW b \in Present(m),
         Rank(m, a) = Rank(m, b)
  PROVE  a = b
<1>1. a \in Int /\ b \in Int
  BY NamesAreOrdered DEF Present
<1>2. ~(a < b) /\ ~(b < a)
  BY RankAscends
<1>3. QED
  BY <1>1, <1>2

(* Every place of the listing belongs to one policy.                           *)
LEMMA RankCovers ==
  ASSUME NEW m, IsFiniteSet(Present(m))
  PROVE  /\ Cardinality(Present(m)) \in Nat
         /\ \A n \in Present(m) : Rank(m, n) + 1 \in 1 .. Cardinality(Present(m))
         /\ \A l \in 1 .. Cardinality(Present(m)) : \E n \in Present(m) : Rank(m, n) = l - 1
<1> DEFINE P == Present(m)
           N == Cardinality(P)
           f == [n \in P |-> Rank(m, n) + 1]
<1>1. N \in Nat
  BY FS_CardinalityType
<1>2. ASSUME NEW n \in P
      PROVE  Rank(m, n) \in Nat /\ Rank(m, n) + 1 \in 1 .. N
  <2> DEFINE B == {k \in P : k < n}
  <2>1. IsFiniteSet(B) /\ n \notin B /\ B \cup {n} \subseteq P
    <3>1. n \in Int
      BY NamesAreOrdered DEF Present
    <3>2. QED
      BY <3>1, FS_Subset
  <2> HIDE DEF B
  <2>2. Cardinality(B \cup {n}) = Cardinality(B) + 1 /\ Cardinality(B) \in Nat
    BY <2>1, FS_AddElement, FS_CardinalityType
  <2>3. Cardinality(B \cup {n}) <= N
    BY <2>1, FS_Subset
  <2>4. QED
    BY <1>1, <2>2, <2>3 DEF Rank, B
<1>3. f \in [P -> 1 .. N]
  BY <1>2
<1>4. \A a, b \in P : f[a] = f[b] => a = b
  BY <1>2, RankDiffers
<1>5. IsFiniteSet(1 .. N) /\ Cardinality(1 .. N) = N
  BY <1>1, FS_Interval
<1>6. f \in Surjection(P, 1 .. N)
  <2> HIDE DEF f
  <2>1. f \in Injection(P, 1 .. N)
    BY <1>3, <1>4 DEF Injection, IsInjective
  <2> HIDE DEF P, N
  <2>2. Cardinality(P) = Cardinality(1 .. N)
    BY <1>5 DEF N
  <2>3. QED
    BY ONLY <1>5, <2>1, <2>2, FS_Injection
<1>7. \A l \in 1 .. N : \E n \in P : f[n] = l
  BY <1>6 DEF Surjection
<1>8. \A l \in 1 .. N : \E n \in P : Rank(m, n) = l - 1
  BY <1>2, <1>7
<1>9. QED
  BY <1>1, <1>2, <1>8

LEMMA SliceIsPolicies ==
  ASSUME NEW m \in Compiled
  PROVE  Kube(m) \in Seq(Policies)
<1> DEFINE P == Present(m)
           N == Cardinality(P)
           Nth(n) == CHOOSE x \in P : Rank(m, x) = n - 1
           s == MapToSortedSlice(m)
<1>1. s = [n \in 1 .. N |-> [name |-> Nth(n), policy |-> m[Nth(n)]]]
  BY DEF MapToSortedSlice, Present, Rank
<1>2. IsFiniteSet(P) /\ m \in [Names -> (Versions \ Refused) \cup {Absent}]
  BY DEF Compiled, Present
<1>3. N \in Nat /\ \A n \in 1 .. N : Nth(n) \in P
  BY <1>2, RankCovers
<1>4. \A n \in 1 .. N : m[Nth(n)] \in Policies
  BY <1>2, <1>3, VersionsArePolicies DEF Present
<1> HIDE DEF Nth, P
<1>5. DOMAIN s = 1 .. N /\ \A n \in 1 .. N : s[n].policy = m[Nth(n)]
  BY <1>1
<1> HIDE DEF s
<1>6. [k \in DOMAIN s |-> s[k].policy] \in [1 .. N -> Policies]
  BY <1>4, <1>5
<1> HIDE DEF N
<1>7. [k \in DOMAIN s |-> s[k].policy] \in Seq(Policies)
  BY <1>3, <1>6, ListIsSeq
<1>8. <<>> \in Seq(Policies)
  BY EmptySeq
<1>9. QED
  BY <1>7, <1>8 DEF Kube, s

(* The map keeps to what compiled.                                             *)
LEMMA ClusterInductive ==
  cluster \in Compiled /\ [StandaloneNext]_allVars => (cluster \in Compiled)'
<1> SUFFICES ASSUME cluster \in Compiled, [StandaloneNext]_allVars PROVE cluster' \in Compiled
  OBVIOUS
<1>1. CASE Reconcile
  <2>1. PICK q \in Requests : q.version \notin Refused /\ cluster' = With(cluster, q)
    BY <1>1 DEF Reconcile
  <2>2. cluster' \in [Names -> (Versions \ Refused) \cup {Absent}]
    BY <2>1 DEF Requests, With, Compiled
  <2>3. Present(cluster') \subseteq Present(cluster) \cup {q.name}
    BY <2>1 DEF Present, Requests, With, Compiled
  <2>4. IsFiniteSet(Present(cluster) \cup {q.name})
    BY FS_AddElement DEF Present, Compiled
  <2>5. IsFiniteSet(Present(cluster'))
    BY <2>3, <2>4, FS_Subset
  <2>6. QED
    BY <2>2, <2>5 DEF Present, Compiled
<1>2. CASE \E s \in Sources, f \in Files : Edit(s, f)
  BY <1>2 DEF Edit
<1>3. CASE Handler
  BY <1>3 DEF Handler, ListDir, CompileAll, SourceFails, ListKube, ReadFile, Evaluate, inputs
<1>4. CASE UNCHANGED allVars
  BY <1>4 DEF allVars, inputs
<1>5. QED
  BY <1>1, <1>2, <1>3, <1>4 DEF StandaloneNext

LEMMA ListKubeIsFetch == StandaloneTypeOK /\ cluster \in Compiled /\ ListKube => Fetch
<1> SUFFICES ASSUME StandaloneTypeOK, cluster \in Compiled, ListKube PROVE Fetch
  OBVIOUS
<1>1. out \in Seq(Policies) /\ Kube(cluster) \in Seq(Policies)
  BY SliceIsPolicies DEF StandaloneTypeOK, Listings
<1>2. pols' \in Seq(Policies)
  BY <1>1, ConcatProperties DEF ListKube
<1>3. Len(pols') \in 0 .. MaxPolicies
  BY <1>2, BoundsAreNat, LenProperties DEF ListKube
<1>4. pols' \in [1 .. Len(pols') -> Policies]
  BY <1>2, LenProperties
<1>5. QED
  BY <1>3, <1>4 DEF ListKube, Fetch

LEMMA StepImplements ==
  StandaloneTypeOK /\ cluster \in Compiled /\ [StandaloneNext]_allVars => [Next]_vars
<1> SUFFICES ASSUME StandaloneTypeOK, cluster \in Compiled, [StandaloneNext]_allVars PROVE [Next]_vars
  OBVIOUS
<1>1. CASE ListDir \/ CompileAll \/ \E f \in Files : ReadFile(f)
  BY <1>1 DEF ListDir, CompileAll, ReadFile
<1>2. CASE SourceFails
  BY <1>2 DEF SourceFails, Next
<1>3. CASE ListKube
  BY <1>3, ListKubeIsFetch DEF Next
<1>4. CASE Evaluate
  BY <1>4 DEF Evaluate, Next
<1>5. CASE (\E s \in Sources, f \in Files : Edit(s, f)) \/ Reconcile
  BY <1>5 DEF Edit, Reconcile
<1>6. CASE UNCHANGED allVars
  BY <1>6 DEF allVars
<1>7. QED
  BY <1>1, <1>2, <1>3, <1>4, <1>5, <1>6 DEF StandaloneNext, Handler

LEMMA ClusterCompiles == StandaloneSpec => [](cluster \in Compiled)
<1>1. StandaloneInit => cluster \in Compiled
  BY DEF StandaloneInit
<1>2. QED
  BY <1>1, ClusterInductive, PTL DEF StandaloneSpec

(* So what holds of Authorizer holds here.                                     *)
LEMMA IsAuthorizer == StandaloneSpec => Spec
<1>1. StandaloneInit => Init
  BY DEF StandaloneInit
<1>2. QED
  BY <1>1, StepImplements, StandaloneTypeCorrect, ClusterCompiles, PTL DEF StandaloneSpec, Spec

(* The standalone server answers with the verdict of the first policy that has *)
(* one in the listing that it put together, whatever is done to the files and  *)
(* the cluster meanwhile (handlers.go, fs.go, composite.go).                   *)
THEOREM StandaloneAnswers == StandaloneSpec => []AnswerIsFirstVerdict
  BY IsAuthorizer, AnswersAreVerdicts, PTL

--------------------------------------------------------------------------------
(* How long a request takes.                                                   *)

(* Behind the last source there is nothing to list.                            *)
NothingBehind == source = NumSources + 1 => todo = Unlisted

LEMMA NothingBehindInductive ==
  StandaloneTypeOK /\ NothingBehind /\ [StandaloneNext]_allVars => NothingBehind'
<1> SUFFICES ASSUME StandaloneTypeOK, NothingBehind, [StandaloneNext]_allVars
             PROVE  NothingBehind'
  OBVIOUS
<1> USE DEF NothingBehind
<1>1. CASE ListDir \/ \E f \in Files : ReadFile(f)
  BY <1>1, SourcesAreNat DEF ListDir, ReadFile, Turn, Looking, Sources, listing
<1>2. CASE CompileAll
  BY <1>2 DEF CompileAll
<1>3. CASE SourceFails \/ ListKube \/ Evaluate \/ UNCHANGED allVars
  BY <1>3 DEF SourceFails, ListKube, Evaluate, allVars, listing
<1>4. CASE Reconcile \/ \E s \in Sources, f \in Files : Edit(s, f)
  BY <1>4 DEF Reconcile, Edit, listing
<1>5. QED
  BY <1>1, <1>2, <1>3, <1>4 DEF StandaloneNext, Handler

(* The files left of the source at hand, and the sources behind it.            *)
LEMMA SourcesBehind ==
  ASSUME StandaloneTypeOK, source \in Sources
  PROVE  /\ (NumSources - source) * (NumFiles + 2) \in Nat
         /\ todo = Unlisted =>
              SourcesLeft = (NumSources - source) * (NumFiles + 2) + NumFiles + 2
         /\ todo # Unlisted =>
              /\ todo \subseteq Files /\ IsFiniteSet(todo) /\ Cardinality(todo) \in 0 .. NumFiles
              /\ SourcesLeft = (NumSources - source) * (NumFiles + 2) + Cardinality(todo) + 1
<1> DEFINE x == (NumSources - source) * (NumFiles + 2)
           y == (NumSources + 1 - source) * (NumFiles + 2)
<1>1. NumSources - source \in Nat /\ NumSources + 1 - source = (NumSources - source) + 1
  BY SourcesAreNat DEF Sources
<1>2. NumFiles + 2 \in Nat
  BY SourcesAreNat
<1>3. x \in Nat /\ y = x + (NumFiles + 2)
  <2>1. x \in Nat
    BY <1>1, <1>2, Products
  <2>2. y = x + (NumFiles + 2)
    BY <1>1, <1>2, Products
  <2>3. QED
    BY <2>1, <2>2
<1>4. todo # Unlisted =>
        todo \subseteq Files /\ IsFiniteSet(todo) /\ Cardinality(todo) \in 0 .. NumFiles
  <2>1. SUFFICES ASSUME todo # Unlisted
                 PROVE  /\ todo \subseteq Files /\ IsFiniteSet(todo)
                        /\ Cardinality(todo) \in 0 .. NumFiles
    OBVIOUS
  <2>2. todo \subseteq Files
    BY <2>1 DEF StandaloneTypeOK
  <2>3. IsFiniteSet(Files) /\ Cardinality(Files) = NumFiles
    BY SourcesAreNat, FS_Interval DEF Files
  <2>4. IsFiniteSet(todo) /\ Cardinality(todo) <= Cardinality(Files)
    BY <2>2, <2>3, FS_Subset
  <2>5. Cardinality(todo) \in Nat
    BY <2>4, FS_CardinalityType
  <2>6. QED
    BY <2>2, <2>3, <2>4, <2>5, SourcesAreNat
<1>5. SourcesLeft = y - (IF todo = Unlisted THEN 0 ELSE NumFiles + 1 - Cardinality(todo))
  BY DEF SourcesLeft
<1> HIDE DEF x, y
<1>6. /\ todo = Unlisted => SourcesLeft = x + NumFiles + 2
      /\ todo # Unlisted => SourcesLeft = x + Cardinality(todo) + 1
  BY <1>3, <1>4, <1>5, SourcesAreNat
<1>7. QED
  BY <1>3, <1>4, <1>6 DEF x

LEMMA SourcesLeftType ==
  ASSUME StandaloneTypeOK, NothingBehind
  PROVE  SourcesLeft \in Nat
<1>1. CASE source \in Sources
  <2> DEFINE x == (NumSources - source) * (NumFiles + 2)
  <2>1. x \in Nat
    BY <1>1, SourcesBehind
  <2>2. SourcesLeft = x + NumFiles + 2
          \/ (SourcesLeft = x + Cardinality(todo) + 1 /\ Cardinality(todo) \in 0 .. NumFiles)
    BY <1>1, SourcesBehind
  <2> HIDE DEF x
  <2>3. QED
    BY <2>1, <2>2, SourcesAreNat
<1>2. CASE source = NumSources + 1
  <2>1. NumSources + 1 - source = 0 /\ todo = Unlisted /\ NumFiles + 2 \in Nat
    BY <1>2, SourcesAreNat DEF NothingBehind
  <2>2. 0 * (NumFiles + 2) = 0
    BY <2>1
  <2>3. QED
    BY <2>1, <2>2 DEF SourcesLeft
<1>3. QED
  BY <1>1, <1>2, SourcesAreNat DEF StandaloneTypeOK, Sources

(* While the provider is looking: one listing, file or compilation less.       *)
LEMMA LookingAdvances ==
  ASSUME StandaloneTypeOK, ListDir \/ CompileAll \/ \E f \in Files : ReadFile(f)
  PROVE  pc = "fetch" /\ SourcesLeft' \in Nat /\ SourcesLeft' < SourcesLeft
<1> DEFINE x == (NumSources - source) * (NumFiles + 2)
           Rest(s, t) == (NumSources + 1 - s) * (NumFiles + 2)
                           - (IF t = Unlisted THEN 0 ELSE NumFiles + 1 - Cardinality(t))
<1>1. pc = "fetch" /\ source \in Sources
  BY DEF ListDir, CompileAll, ReadFile, Turn, Looking
<1>2. x \in Nat
  BY <1>1, SourcesBehind
<1>3. SourcesLeft' = Rest(source', todo')
  BY DEF SourcesLeft, Unlisted
<1>4. ASSUME NEW t \in SUBSET Files
      PROVE  /\ t # Unlisted /\ IsFiniteSet(t) /\ Cardinality(t) \in 0 .. NumFiles
             /\ Rest(source, t) = x + Cardinality(t) + 1
  <2>1. 0 \notin Files
    BY DEF Files
  <2>2. t # Unlisted
    BY <2>1 DEF Unlisted
  <2>3. IsFiniteSet(Files) /\ Cardinality(Files) = NumFiles
    BY SourcesAreNat, FS_Interval DEF Files
  <2>4. IsFiniteSet(t) /\ Cardinality(t) <= NumFiles /\ Cardinality(t) \in Nat
    BY <2>3, FS_Subset, FS_CardinalityType
  <2> DEFINE y == (NumSources + 1 - source) * (NumFiles + 2)
  <2>5. y = x + (NumFiles + 2)
    <3>1. NumSources - source \in Nat /\ NumSources + 1 - source = (NumSources - source) + 1
      BY <1>1, SourcesAreNat DEF Sources
    <3>2. NumFiles + 2 \in Nat
      BY SourcesAreNat
    <3>3. QED
      BY <3>1, <3>2, Products
  <2>6. Rest(source, t) = y - (NumFiles + 1 - Cardinality(t))
    BY <2>2
  <2> HIDE DEF x, y, Rest
  <2>7. QED
    BY <1>2, <2>2, <2>4, <2>5, <2>6, SourcesAreNat
<1>5. CASE ListDir
  <2>1. todo = Unlisted /\ todo' \in SUBSET Files /\ source' = source
    BY <1>5 DEF ListDir
  <2>2. SourcesLeft = x + NumFiles + 2
    BY <1>1, <2>1, SourcesBehind
  <2>3. SourcesLeft' = x + Cardinality(todo') + 1 /\ Cardinality(todo') \in 0 .. NumFiles
    BY <1>3, <1>4, <2>1
  <2> HIDE DEF x
  <2>4. QED
    BY <1>1, <1>2, <2>2, <2>3, SourcesAreNat
<1>6. CASE \E f \in Files : ReadFile(f)
  <2>1. PICK f \in Files : ReadFile(f)
    BY <1>6
  <2>2. f \in todo /\ f # 0 /\ todo' = todo \ {f} /\ source' = source
    BY <2>1 DEF ReadFile, Turn
  <2>3. todo # Unlisted
    BY <2>2 DEF Unlisted
  <2>4. /\ todo \subseteq Files /\ IsFiniteSet(todo) /\ Cardinality(todo) \in 0 .. NumFiles
        /\ SourcesLeft = x + Cardinality(todo) + 1
    BY <1>1, <2>3, SourcesBehind
  <2>5. SourcesLeft' = x + Cardinality(todo') + 1 /\ Cardinality(todo') \in 0 .. NumFiles
    BY <1>3, <1>4, <2>2, <2>4
  <2>6. Cardinality(todo') = Cardinality(todo) - 1
    BY <2>2, <2>4, FS_RemoveElement
  <2> HIDE DEF x
  <2>7. QED
    BY <1>1, <1>2, <2>4, <2>5, <2>6
<1>7. CASE CompileAll
  <2>1. todo = {} /\ todo' = Unlisted /\ source' = source + 1
    BY <1>7 DEF CompileAll
  <2>2. SourcesLeft = x + 1
    <3>1. SourcesLeft = Rest(source, {})
      BY <2>1 DEF SourcesLeft
    <3>2. Rest(source, {}) = x + Cardinality({}) + 1 /\ Cardinality({}) = 0
      BY <1>4, FS_EmptySet
    <3> HIDE DEF x, Rest
    <3>3. QED
      BY <1>2, <3>1, <3>2
  <2>3. NumSources + 1 - (source + 1) = NumSources - source
    BY <1>1, SourcesAreNat DEF Sources
  <2>4. SourcesLeft' = x - 0
    BY <1>3, <2>1, <2>3
  <2> HIDE DEF x
  <2>5. QED
    BY <1>1, <1>2, <2>2, <2>4
<1>8. QED
  BY <1>5, <1>6, <1>7

LEMMA HandlerAdvances ==
  ASSUME TypeOK, AtStart, WithinBounds, StandaloneTypeOK, NothingBehind, cluster \in Compiled,
         Handler
  PROVE  StepsLeft' \in 0 .. StepsLeft - 1
<1>1. SourcesLeft \in Nat
  BY SourcesLeftType
<1>2. CASE ListDir \/ CompileAll \/ \E f \in Files : ReadFile(f)
  <2>1. pc = "fetch" /\ SourcesLeft' \in Nat /\ SourcesLeft' < SourcesLeft
    BY <1>2, LookingAdvances
  <2>2. UNCHANGED vars
    BY <1>2 DEF ListDir, CompileAll, ReadFile
  <2>3. pc' = "fetch" /\ EvaluationLeft' = EvaluationLeft /\ EvaluationLeft \in Nat
    BY <2>1, <2>2, SomethingLeft DEF vars, EvaluationLeft, PerPolicy
  <2>4. StepsLeft = EvaluationLeft + SourcesLeft /\ StepsLeft' = EvaluationLeft' + SourcesLeft'
    BY <2>1, <2>3 DEF StepsLeft
  <2>5. PICK e \in Nat, s \in Nat, t \in Nat :
          StepsLeft = e + s /\ StepsLeft' = e + t /\ t < s
    BY <1>1, <2>1, <2>3, <2>4
  <2>6. QED
    BY <2>5
<1>3. CASE SourceFails \/ ListKube \/ Evaluate
  <2>1. /\ Next
        /\ pc' \in {"read", "fetch"} => pc = "read" /\ UNCHANGED <<source, todo>>
    <3>1. CASE SourceFails
      BY <3>1 DEF SourceFails, Next, Refuse
    <3>2. CASE ListKube
      BY <3>2, ListKubeIsFetch DEF ListKube, Next
    <3>3. CASE Evaluate
      <4>1. Next /\ UNCHANGED <<source, todo>>
        BY <3>3 DEF Evaluate, Next, listing
      <4>2. pc' \in {"read", "fetch"} => pc = "read"
        BY <3>3 DEF Evaluate, Read, Convert, Refuse, ConditionError, ConditionTrue,
                    ConditionFalse, Matched, MatchFailed, RuleNull, RuleError, RuleResponds,
                    RulesEnd, NoAnswer, Failure, Finish, NextPolicy, InMatch
      <4>3. QED
        BY <4>1, <4>2
    <3>4. QED
      BY <1>3, <3>1, <3>2, <3>3
  <2>2. /\ EvaluationLeft \in Nat /\ EvaluationLeft' \in Nat
        /\ EvaluationLeft' < EvaluationLeft
    <3>1. PICK f \in 0 .. EvaluationLeft - 1 : EvaluationLeft' = f
      BY <2>1, StepAdvances
    <3>2. pc \in {"done", "failed"} => EvaluationLeft = 0
      BY DEF EvaluationLeft
    <3>3. EvaluationLeft \in Nat
      BY <3>2, SomethingLeft
    <3>4. f \in Nat /\ f < EvaluationLeft
      BY <3>3
    <3>5. QED
      BY <3>1, <3>3, <3>4
  <2>3. CASE pc' \in {"read", "fetch"}
    <3>1. pc = "read" /\ SourcesLeft' = SourcesLeft
      BY <2>1, <2>3 DEF SourcesLeft, Unlisted
    <3>2. StepsLeft = EvaluationLeft + SourcesLeft /\ StepsLeft' = EvaluationLeft' + SourcesLeft'
      BY <2>3, <3>1 DEF StepsLeft
    <3>3. PICK e \in Nat, s \in Nat, f \in Nat :
            StepsLeft = e + s /\ StepsLeft' = f + s /\ f < e
      BY <1>1, <2>2, <3>1, <3>2
    <3>4. QED
      BY <3>3
  <2>4. CASE pc' \notin {"read", "fetch"}
    <3>1. /\ StepsLeft' = EvaluationLeft' + 0
          /\ \/ StepsLeft = EvaluationLeft + SourcesLeft
             \/ StepsLeft = EvaluationLeft + 0
      BY <2>4 DEF StepsLeft
    <3>2. \A e, s, f \in Nat : f < e =>
            f + 0 \in 0 .. (e + 0) - 1 /\ f + 0 \in 0 .. (e + s) - 1
      OBVIOUS
    <3>3. /\ EvaluationLeft' + 0 \in 0 .. (EvaluationLeft + 0) - 1
          /\ EvaluationLeft' + 0 \in 0 .. (EvaluationLeft + SourcesLeft) - 1
      BY <1>1, <2>2, <3>2
    <3>4. QED
      BY <3>1, <3>3
  <2>5. QED
    BY <2>3, <2>4
<1>4. QED
  BY <1>2, <1>3 DEF Handler

(* No change to the files or the cluster gives a request more to do: it takes  *)
(* as many steps as the number and the size of its inputs allow, for any       *)
(* number of changes (fs.go, composite.go, handlers.go).                       *)
THEOREM RequestsAreBounded == StandaloneSpec => RequestIsBounded
<1>1. TypeOK /\ AtStart /\ WithinBounds /\ StandaloneTypeOK /\ NothingBehind
        /\ cluster \in Compiled /\ [StandaloneNext]_allVars
        => [StepsLeft' \in 0 .. StepsLeft /\ (Handler => StepsLeft' # StepsLeft)]_allVars
  <2>1. SUFFICES ASSUME TypeOK, AtStart, WithinBounds, StandaloneTypeOK, NothingBehind,
                        cluster \in Compiled, StandaloneNext
                 PROVE  StepsLeft' \in 0 .. StepsLeft /\ (Handler => StepsLeft' # StepsLeft)
    OBVIOUS
  <2>2. StepsLeft \in Nat
    <3>1. SourcesLeft \in Nat /\ EvaluationLeft \in Nat
      <4>1. pc \in {"done", "failed"} => EvaluationLeft = 0
        BY DEF EvaluationLeft
      <4>2. QED
        BY <2>1, <4>1, SourcesLeftType, SomethingLeft
    <3>2. QED
      BY <3>1 DEF StepsLeft
  <2>3. Handler => StepsLeft' \in 0 .. StepsLeft - 1
    BY <2>1, HandlerAdvances
  <2>4. ~Handler => StepsLeft' = StepsLeft
    <3>1. ~Handler => UNCHANGED <<vars, listing>>
      BY <2>1 DEF StandaloneNext, Edit, Reconcile
    <3>2. UNCHANGED <<vars, listing>> => StepsLeft' = StepsLeft
      BY DEF vars, listing, StepsLeft, EvaluationLeft, SourcesLeft, PerPolicy, Unlisted
    <3>3. QED
      BY <3>1, <3>2
  <2>5. QED
    BY <2>2, <2>3, <2>4
<1>2. StandaloneInit => TypeOK /\ AtStart /\ WithinBounds /\ NothingBehind
  <2>1. Init => WithinBounds
    BY BoundedFromStart
  <2>2. QED
    BY <2>1, TypeInit DEF StandaloneInit, NothingBehind
<1>3. TypeOK /\ AtStart /\ WithinBounds /\ StandaloneTypeOK /\ cluster \in Compiled
        /\ [StandaloneNext]_allVars
        => (TypeOK /\ AtStart /\ WithinBounds)'
  BY StepImplements, TypeInductive, StartInductive, WithinBoundsInductive
<1>4. QED
  BY <1>1, <1>2, <1>3, NothingBehindInductive, StandaloneTypeCorrect, ClusterCompiles, PTL
     DEF StandaloneSpec, RequestIsBounded
================================================================================
