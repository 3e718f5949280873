------------------------------- MODULE MCJobs -------------------------------
(* Constants of the JobLifecycle runs. *)
EXTENDS JobLifecycle, TLC

CONSTANTS p1, p2, p3
CONSTANTS screen, valid, disc, disc2, paper, data

KindOf == screen :> "screening" @@ valid :> "validation" @@ disc :> "discovery"
          @@ disc2 :> "discovery" @@ paper :> "paper" @@ data :> "data"

\* Process ids are only compared for equality.
Symmetry == Permutations(Pids)

MCKind == [r \in Runs |-> KindOf[r]]

=============================================================================
