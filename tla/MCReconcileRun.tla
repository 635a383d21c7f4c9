--------------------------- MODULE MCReconcileRun ---------------------------
(***************************************************************************)
(* Instances of ReconcileRun for TLC, and the invariants that need sums    *)
(* over sets.                                                              *)
(***************************************************************************)
EXTENDS ReconcileRun, FiniteSetsExt, TLC

\* The budget manager's books: reserved is exactly what the workers between
\* tryReserveBudget and commit or release hold, committed exactly what the
\* resized pods were given.  In particular reserved is 0 when the run ends.
BooksBalance ==
  \A r \in Resources :
    /\ reserved[r] = MapThenSumSet(LAMBDA w : Held(w, r), Workers)
    /\ committed[r] = MapThenSumSet(LAMBDA p : delta[p][r], Resized)

\* The budget of the whole run: when it has returned, what it applied in sum
\* is within maxTotal*Increase.
BudgetAtEnd == main = "done" => BudgetRespected

-----------------------------------------------------------------------------
\* cpu is budgeted, memory has no budget (0).
MCResources == {"cpu", "memory"}
MCMaxIncrease == [r \in MCResources |-> IF r = "cpu" THEN 3 ELSE 0]

\* Increases: one unit of cpu, two units of cpu, memory only.
MCIncreases == {[cpu |-> 1, memory |-> 0], [cpu |-> 2, memory |-> 0],
                [cpu |-> 0, memory |-> 1]}

\* allowDownscale: one pod gives cpu back while another takes more than the
\* whole budget.
MCBothWays == {[cpu |-> 4, memory |-> 0], [cpu |-> -1, memory |-> 0]}

\* One resource, for the liveness run.
MCCpuOnly == {"cpu"}
MCCpuBudget == [r \in MCCpuOnly |-> 1]
MCCpuIncreases == {[cpu |-> 1]}

PodSymmetry == Permutations(Pods)

=============================================================================
