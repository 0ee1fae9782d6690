--------------------------- MODULE StateRegister ---------------------------
(* What a StateRepository promises its callers: one versioned state, to     *)
(* which every acknowledged write is applied exactly once, on top of all    *)
(* the writes acknowledged before it.                                       *)
EXTENDS Naturals

CONSTANTS Writers,   \* whoever calls Load - mutate - Save
          Fields,    \* the parts of the state
          Keys,      \* the rows of a part
          Vals,      \* what a row may hold
          None       \* no such row

VARIABLES reg,       \* the state the acknowledged writes add up to
          version,   \* 0: the state does not exist
          last       \* the last acknowledged write

Empty == [f \in Fields |-> [k \in Keys |-> None]]

Init == reg = Empty /\ version = 0 /\ last = None

Put(w, f, k, v) ==
    /\ reg' = [reg EXCEPT ![f][k] = v]
    /\ version' = version + 1
    /\ last' = [by |-> w, n |-> version', field |-> f, key |-> k, val |-> v]

\* A finished state may be pruned.
Drop == /\ version > 0
        /\ reg' = Empty
        /\ version' = 0
        /\ UNCHANGED last

Next == \/ \E w \in Writers, f \in Fields, k \in Keys, v \in Vals \cup {None} : Put(w, f, k, v)
        \/ Drop

Spec == Init /\ [][Next]_<<reg, version, last>>
============================================================================
