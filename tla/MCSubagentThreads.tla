--------------------------- MODULE MCSubagentThreads --------------------------
\* An instance of SubagentThreads: all tasks are runs of one attempt in one
\* thread.
EXTENDS SubagentThreads, TLC

CONSTANTS r0, t1, a1, d1

OneThread == [c \in Task |-> t1]
OneAttempt == [c \in Task |-> a1]

\* Tasks may be permuted; of the deletions, d1 is the first to begin.
Symmetry == Permutations(Task)
FirstDeletion == (\A d \in Deletion : DAt(d, "idle")) \/ ~DAt(d1, "idle")
=============================================================================
