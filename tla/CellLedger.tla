----------------------------- MODULE CellLedger -----------------------------
(***************************************************************************)
(* What the matrix of a regime-cross campaign promises: one cell for each  *)
(* champion and out-of-sample window, filled in once, with the strategy it *)
(* was planned for, and never changed or planned a second time.            *)
(***************************************************************************)
CONSTANTS Keys, Dsls, Rows

VARIABLE cells      \* the cells planned so far: [key, dsl, run], run being a row

Init == cells = {}

Plan(k, d, r) ==
    /\ \A c \in cells : c.key # k
    /\ cells' = cells \cup {[key |-> k, dsl |-> d, run |-> r]}

Next == \E k \in Keys, d \in Dsls, r \in Rows : Plan(k, d, r)

Spec == Init /\ [][Next]_cells
=============================================================================
