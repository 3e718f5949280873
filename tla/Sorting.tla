------------------------------- MODULE Sorting -------------------------------
(***************************************************************************)
(* A stable sort, as sorted() and list.sort() of Python give it, and SQLite *)
(* for ORDER BY: what is equal stays in the order it had.                  *)
(***************************************************************************)
EXTENDS Integers, Sequences, FiniteSets

Precedes(key, i, j) == key[i] < key[j] \/ (key[i] = key[j] /\ i <= j)

Below(key, i) == {j \in DOMAIN key : Precedes(key, j, i)}

\* The index whose key is the k-th.
Nth(key, k) == CHOOSE i \in DOMAIN key : Cardinality(Below(key, i)) = k

\* The elements of s whose indices have a key, in the order of their keys.  (The
\* concatenation makes TLC evaluate the elements once.)
Sorted(s, key) == <<>> \o [k \in 1 .. Cardinality(DOMAIN key) |-> s[Nth(key, k)]]

=============================================================================
