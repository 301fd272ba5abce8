------------------------------- MODULE PolicyMaps ------------------------------
(* Maps from policy names to policies, the updates made to them, and the slice *)
(* a request is evaluated against.                                             *)
EXTENDS Integers, FiniteSets

CONSTANTS
    Names,      \* the keys; their order is the order of evaluation
    Versions,   \* the values a policy can take
    Absent,     \* the mark of a name that is not in the map
    Refused     \* the versions that do not compile

ASSUME NamesAreOrdered == Names \subseteq Int
ASSUME AbsentIsNoVersion == Absent \notin Versions
ASSUME RefusedAreVersions == Refused \subseteq Versions

Maps == [Names -> Versions \cup {Absent}]
Empty == [n \in Names |-> Absent]

(* Storing a version under a name, or deleting the name when it is Absent.     *)
Requests == [name : Names, version : Versions \cup {Absent}]
With(m, q) == [m EXCEPT ![q.name] = q.version]

(* The values of the map in the ascending order of their keys.                 *)
MapToSortedSlice(m) ==
    LET present == {n \in Names : m[n] # Absent}
        Nth(i)  == CHOOSE n \in present : Cardinality({k \in present : k < n}) = i - 1
    IN  [i \in 1 .. Cardinality(present) |-> [name |-> Nth(i), policy |-> m[Nth(i)]]]
================================================================================
