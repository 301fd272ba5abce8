------------------------------ MODULE PolicyStore ------------------------------
(* What a policy store promises to the processes around it: writers put and    *)
(* delete policies one at a time, readers are answered with the sorted listing *)
(* of the store at one instant between their call and its return.  No cache,   *)
(* no lock, no lazily computed closure: SortedStore implements this with them. *)
EXTENDS PolicyMaps

CONSTANTS
    Writers,    \* the processes that update the store
    Readers,    \* the processes that ask for the listing
    None        \* no request, no answer

VARIABLES
    store,      \* the policies, by name
    wst,        \* where each update stands
    wreq,       \* the update each writer is making
    rst,        \* where each read stands
    rval        \* the answer each read has been given

vars == <<store, wst, wreq, rst, rval>>

Init ==
    /\ store = Empty
    /\ wst = [w \in Writers |-> "idle"]
    /\ wreq = [w \in Writers |-> None]
    /\ rst = [r \in Readers |-> "idle"]
    /\ rval = [r \in Readers |-> None]

Begin(w) ==
    /\ wst[w] = "idle"
    /\ \E q \in Requests : wreq' = [wreq EXCEPT ![w] = q]
    /\ wst' = [wst EXCEPT ![w] = "pending"]
    /\ UNCHANGED <<store, rst, rval>>

(* The update takes effect, at one instant, for every reader at once.          *)
Apply(w) ==
    /\ wst[w] = "pending"
    /\ wreq[w].version \notin Refused
    /\ store' = With(store, wreq[w])
    /\ wst' = [wst EXCEPT ![w] = "applied"]
    /\ UNCHANGED <<wreq, rst, rval>>

End(w) ==
    /\ \/ wst[w] = "applied"
       \/ wst[w] = "pending" /\ wreq[w].version \in Refused
    /\ wst' = [wst EXCEPT ![w] = "idle"]
    /\ wreq' = [wreq EXCEPT ![w] = None]
    /\ UNCHANGED <<store, rst, rval>>

Invoke(r) ==
    /\ rst[r] = "idle"
    /\ rst' = [rst EXCEPT ![r] = "invoked"]
    /\ UNCHANGED <<store, wst, wreq, rval>>

(* Readers are answered from the store as it is now; several may be at once.   *)
Take(R) ==
    /\ \A r \in R : rst[r] = "invoked"
    /\ rst' = [r \in Readers |-> IF r \in R THEN "taken" ELSE rst[r]]
    /\ rval' = [r \in Readers |-> IF r \in R THEN MapToSortedSlice(store) ELSE rval[r]]
    /\ UNCHANGED <<store, wst, wreq>>

Return(r) ==
    /\ rst[r] = "taken"
    /\ rst' = [rst EXCEPT ![r] = "idle"]
    /\ rval' = [rval EXCEPT ![r] = None]
    /\ UNCHANGED <<store, wst, wreq>>

Next ==
    \/ \E w \in Writers : Begin(w) \/ Apply(w) \/ End(w)
    \/ \E r \in Readers : Invoke(r) \/ Return(r)
    \/ \E R \in (SUBSET Readers) \ {{}} : Take(R)

Spec == Init /\ [][Next]_vars
================================================================================
