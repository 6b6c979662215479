----------------------------- MODULE MCWorktrees -----------------------------
\* Worktrees under the fairness of its workers, locks and timers.
EXTENDS Worktrees

FairSpec == TreesInit /\ [][TreesNext]_treeVars /\ TreesFairness
=============================================================================
