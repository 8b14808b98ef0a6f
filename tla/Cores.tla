--------------------------------- MODULE Cores ---------------------------------
(***************************************************************************)
(* The list CORES of the program, which gives each CPU core an index for   *)
(* ever, and the lists of indices (Cores) that hives are given.            *)
(***************************************************************************)
EXTENDS Naturals, FiniteSets, SequencesExt

Core(id) == [id |-> id, available |-> TRUE]

\* Pinning a thread to a core does nothing if the core is not there.
TryPinCurrent(core, ids) == IF core.available THEN {core.id} \cap ids ELSE {}

Ids(list) == {list[k].id : k \in DOMAIN list}
AsCores(ids) == [k \in DOMAIN ids |-> Core(ids[k])]

\* The list is established, in ascending order, when it is first used; ids is what
\* the machine has to offer then.
Ascending(ids) == {q \in SetToSeqs(ids) : \A j, k \in DOMAIN q : j < k => q[j] < q[k]}
Established(list, ids) ==
  IF list = <<>> THEN {AsCores(q) : q \in Ascending(ids)} ELSE {list}

\* Mutant: the list is established anew.
RefreshedAnew(list, ids) == {AsCores(new) : new \in SetToSeqs(ids)}

\* refresh: the lists it may produce, the new cores being appended in any order.
Refreshed(list, ids) ==
  LET kept == [k \in DOMAIN list |-> [list[k] EXCEPT !.available = list[k].id \in ids]]
  IN  {kept \o AsCores(new) : new \in SetToSeqs(ids \ Ids(list))}

AllCores(ids) == [k \in 1..Cardinality(ids) |-> k - 1]

\* union: the indices of other that are new are appended in the order of their first
\* occurrence there.
OccursBefore(other, x, y) ==
  \E k \in DOMAIN other : other[k] = x /\ \A j \in 1..k : other[j] # y
Unions(affinity, other) ==
  {affinity \o new : new \in {q \in SetToSeqs(ToSet(other) \ ToSet(affinity)) :
                               \A j, k \in DOMAIN q : j < k => OccursBefore(other, q[j], q[k])}}

\* The core of the given thread, if there is one and it is available.
CoreFor(affinity, list, thread) ==
  {list[affinity[k] + 1] :
     k \in {j \in DOMAIN affinity :
              /\ j = thread + 1 /\ affinity[j] + 1 \in DOMAIN list
              /\ list[affinity[j] + 1].available}}
================================================================================
