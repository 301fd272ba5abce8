------------------------------- MODULE Standalone ------------------------------
(* One request at the standalone server, from the files and the cluster to the *)
(* answer: Authorizer, whose provider is the composite that the authz-server   *)
(* command builds.  Every request reads the external sources anew, a directory *)
(* listing first and then one file after the other (FsProvider), while the     *)
(* files and the cluster go on changing; the reconciler's listing comes last.  *)
EXTENDS Authorizer, PolicyMaps

CONSTANTS
    KubePolicySource,   \* the flag: the policies of the cluster count as well
    NumSources,         \* the external policy sources, in the order of the flags
    NumFiles,           \* the YAML files of a source, by the order of their names
    Contents,           \* what a file may hold: sequences of documents
    Foreign,            \* a document that does not load, or is of another kind
    Odd,                \* a ValidatingPolicy that cannot be converted to one; a file
                        \* that cannot be read, or split, counts as holding just that
    Gone,               \* a directory that cannot be listed
    MaxEdits            \* bound: changes while the request is looking

ASSUME SourcesAreNat == NumSources \in Nat /\ NumFiles \in Nat /\ MaxEdits \in Nat
ASSUME ContentsAreDocuments == Contents \subseteq Seq(Versions \cup {Foreign, Odd})
ASSUME GoneIsNoDirectory == Gone \notin [1 .. NumFiles -> Contents \cup {Absent}]
ASSUME VersionsArePolicies == Versions \ Refused \subseteq Policies

VARIABLES
    disk,       \* the directory of each source: its files, Absent the others
    cluster,    \* the reconciler's map (SortedStore)
    source,     \* the source that is being read
    todo,       \* its files that were listed and have not been read, if it was listed
    raw, out,   \* the documents loaded from it; the policies of the earlier ones
    seen,       \* history: what each file, and the cluster, has been
    edits       \* the changes so far, for the bound

inputs == <<disk, cluster, seen, edits>>
listing == <<source, todo, raw, out>>

Sources == 1 .. NumSources
Files == 1 .. NumFiles
Unlisted == {0}

(* What the reconciler's map may be: policies that compiled, by their names.   *)
Compiled == {m \in [Names -> (Versions \ Refused) \cup {Absent}] :
                IsFiniteSet({n \in Names : m[n] # Absent})}

StandaloneInit ==
    /\ Init
    /\ disk \in [Sources -> [Files -> Contents \cup {Absent}] \cup {Gone}]
    /\ cluster \in Compiled
    /\ source = 1
    /\ todo = Unlisted
    /\ raw = <<>> /\ out = <<>>
    /\ seen = [files |-> [s \in Sources |-> [f \in Files |-> IF disk[s] = Gone THEN {} ELSE {disk[s][f]}]],
               maps |-> {cluster}]
    /\ edits = 0

--------------------------------------------------------------------------------
(* Whoever writes the files; what it does before or after the request looks    *)
(* makes no difference to it.                                                  *)
Edit(s, f) ==
    /\ pc = "fetch" /\ edits < MaxEdits
    /\ disk[s] # Gone
    /\ \E c \in Contents \cup {Absent} : disk' = [disk EXCEPT ![s][f] = c]
    /\ seen' = [seen EXCEPT !.files[s][f] = @ \cup {disk'[s][f]}]
    /\ edits' = edits + 1
    /\ UNCHANGED <<vars, cluster, listing>>

(* standaloneReconciler.Reconcile, one instant by SortedStore!AtomicStore.     *)
Reconcile ==
    /\ pc = "fetch" /\ edits < MaxEdits
    /\ \E q \in Requests : q.version \notin Refused /\ cluster' = With(cluster, q)
    /\ seen' = [seen EXCEPT !.maps = @ \cup {cluster'}]
    /\ edits' = edits + 1
    /\ UNCHANGED <<vars, disk, listing>>

--------------------------------------------------------------------------------
(* composite.CompiledPolicies, and FsProvider.loadAll for each source.         *)
Looking == pc = "fetch" /\ source \in Sources

ListDir ==
    /\ Looking /\ todo = Unlisted
    /\ disk[source] # Gone
    /\ todo' = {f \in Files : disk[source][f] # Absent}
    /\ UNCHANGED <<vars, inputs, source, raw, out>>

(* The file whose turn it is, as it is by now.                                 *)
Turn(f) == Looking /\ f \in todo /\ f # 0 /\ \A g \in todo : f <= g
(* Besides the file itself, the CRDs that are embedded in the program may fail *)
(* to load (DefaultLoader), once and for all; they are taken to load.          *)
Fatal(c) == c # Absent => \E k \in DOMAIN c : c[k] = Odd
Without(docs, X) ==
    FlattenSeq([k \in DOMAIN docs |-> IF docs[k] \in X THEN <<>> ELSE <<docs[k]>>])
Loaded(c) == IF c = Absent THEN <<>> ELSE Without(c, {Foreign})
TakeWhileLoads(c) ==
    SubSeq(c, 1, Cardinality({k \in DOMAIN c : \A l \in 1 .. k : c[l] # Foreign}))

(* Mutant: a document that does not load ends the reading of its file.         *)
ReadFileBreaks(f) ==
    /\ Turn(f)
    /\ ~Fatal(disk[source][f])
    /\ raw' = raw \o TakeWhileLoads(disk[source][f])
    /\ todo' = todo \ {f}
    /\ UNCHANGED <<vars, inputs, source, out>>

ReadFile(f) ==
    /\ Turn(f)
    /\ ~Fatal(disk[source][f])
    /\ raw' = raw \o Loaded(disk[source][f])
    /\ todo' = todo \ {f}
    /\ UNCHANGED <<vars, inputs, source, out>>

(* Mutant: a policy that does not compile is appended like the others.         *)
CompileAllKeeps ==
    /\ Looking /\ todo = {}
    /\ out' = out \o raw
    /\ source' = source + 1
    /\ todo' = Unlisted
    /\ raw' = <<>>
    /\ UNCHANGED <<vars, inputs>>

(* The policies of one source are compiled when all of them are loaded.        *)
CompileAll ==
    /\ Looking /\ todo = {}
    /\ out' = out \o Without(raw, Refused)
    /\ source' = source + 1
    /\ todo' = Unlisted
    /\ raw' = <<>>
    /\ UNCHANGED <<vars, inputs>>

(* Mutant: a document of another kind fails the request, as an odd one does.   *)
ForeignFails ==
    /\ \E f \in Files : Turn(f) /\ disk[source][f] # Absent
                        /\ \E k \in DOMAIN disk[source][f] : disk[source][f][k] = Foreign
    /\ Refuse
    /\ UNCHANGED <<inputs, listing>>

(* Mutant: a directory with a file that fails is listed again.                 *)
SourceRetried ==
    /\ \E f \in Files : Turn(f) /\ Fatal(disk[source][f])
    /\ todo' = Unlisted
    /\ raw' = <<>>
    /\ UNCHANGED <<vars, inputs, source, out>>

(* One file, or one directory, fails the request, whatever the others have.    *)
SourceFails ==
    /\ \/ Looking /\ todo = Unlisted /\ disk[source] = Gone
       \/ \E f \in Files : Turn(f) /\ Fatal(disk[source][f])
    /\ Refuse
    /\ UNCHANGED <<inputs, listing>>

Kube(m) == IF KubePolicySource
           THEN [k \in DOMAIN MapToSortedSlice(m) |-> MapToSortedSlice(m)[k].policy]
           ELSE <<>>

(* The reconciler's listing is the last one.  MaxPolicies bounds them all.     *)
ListKube ==
    /\ pc = "fetch" /\ source > NumSources
    /\ pols' = out \o Kube(cluster)
    /\ Len(pols') <= MaxPolicies
    /\ pc' = "convert"
    /\ UNCHANGED <<p, i, j, errs, answer, inputs, listing>>

(* The rest of the handler does not look at the sources again.                 *)
Evaluate ==
    /\ \/ Read \/ Convert \/ (pc # "fetch" /\ Refuse)
       \/ ConditionError \/ ConditionTrue \/ ConditionFalse \/ Matched \/ MatchFailed
       \/ RuleNull \/ RuleError \/ RuleResponds \/ RulesEnd
       \/ NoAnswer
    /\ UNCHANGED <<inputs, listing>>

Handler ==
    \/ ListDir \/ CompileAll \/ SourceFails \/ ListKube
    \/ \E f \in Files : ReadFile(f)
    \/ Evaluate

StandaloneNext ==
    \/ Handler
    \/ \E s \in Sources, f \in Files : Edit(s, f)
    \/ Reconcile

allVars == <<vars, inputs, listing>>
StandaloneSpec == StandaloneInit /\ [][StandaloneNext]_allVars
FairSpec == StandaloneSpec /\ WF_allVars(Handler)

--------------------------------------------------------------------------------
(* Types of what the provider keeps while it looks: what compiled is policies. *)
StandaloneTypeOK ==
    /\ source \in 1 .. NumSources + 1
    /\ todo = Unlisted \/ todo \subseteq Files
    /\ \A k \in DOMAIN raw : raw[k] \in Versions
    /\ out \in Listings
    /\ pc \notin {"read", "fetch", "failed"} => source = NumSources + 1

(* What a file contributes when it is read with these contents.                *)
Contribution(c) == Without(Loaded(c), Refused)

Readable(s, f) == {c \in seen.files[s][f] : c = Absent \/ ~Fatal(c)}

(* Whatever changes meanwhile, a request is decided by policies that were all  *)
(* there while it was looking: each file gives the policies, in their order,   *)
(* of one whole content it had during the request, none of them twice, then    *)
(* the next file, and the cluster gives one of its maps, last.  A document     *)
(* that does not load or compile is left out, whatever its failure policy, and *)
(* no other with it.                                                           *)
ListingIsRegular ==
    pc \notin {"read", "fetch", "failed"} =>
        \E c \in [Sources -> [Files -> UNION {Readable(s, f) : s \in Sources, f \in Files}]],
           m \in seen.maps :
            /\ \A s \in Sources, f \in Files : c[s][f] \in Readable(s, f)
            /\ pols = FlattenSeq([s \in Sources |->
                                   FlattenSeq([f \in Files |-> Contribution(c[s][f])])]) \o Kube(m)

(* When a file refuses a request, it was broken, held an odd policy, or had    *)
(* vanished after it was listed, while the request was looking.  A policy that *)
(* does not compile, or does not load, is not among the causes even when its   *)
(* failure policy is Fail (fs.go:63, "TODO: handle single policy errors"),     *)
(* although "failures can occur from CEL expression parse errors, type check   *)
(* errors [...] and invalid or mis-configured policy definitions" and Fail     *)
(* denies the request (website/docs/policies/failure-policy.md:5 and 20).      *)
RefusedForACause ==
    pc = "failed" /\ todo # Unlisted =>
        \E f \in todo : \E c \in seen.files[source][f] : Fatal(c)

(* The steps left of the provider: a listing, the files, the compilation.      *)
SourcesLeft ==
    (NumSources + 1 - source) * (NumFiles + 2)
        - (IF todo = Unlisted THEN 0 ELSE NumFiles + 1 - Cardinality(todo))
StepsLeft == EvaluationLeft + (IF pc \in {"read", "fetch"} THEN SourcesLeft ELSE 0)

(* Nobody can keep a request busy by changing the files and the cluster while  *)
(* it looks at them: the number of steps it has left is bounded from the start *)
(* by the sizes alone, each of its steps takes one at least, and a change adds *)
(* none.                                                                       *)
RequestIsBounded ==
    [][StepsLeft' \in 0 .. StepsLeft /\ (Handler => StepsLeft' # StepsLeft)]_allVars

(* A request comes to its end, however the files change while it is looking:   *)
(* the directory is listed once.                                               *)
RequestEnds == <>(pc \in {"done", "failed"})
================================================================================
