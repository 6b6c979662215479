----------------------------- MODULE MCRepoSync -----------------------------
\* Instances of RepoSync: two refs, every job waits for the first.
EXTENDS RepoSync, TLC

CONSTANTS main, pr, j1

JobsOnMain == [j \in Jobs |-> main]

Symmetry == Permutations(Syncers)
=============================================================================
