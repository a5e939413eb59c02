--------------------------- MODULE MCTaskScheduler ---------------------------
(* Instances of TaskScheduler for TLC.                                     *)
EXTENDS TaskScheduler, TLC

SymTasks == Permutations(Tasks)

\* Task ids and accounts are interchangeable in the safety runs.
Symmetry == Permutations(Tasks) \cup Permutations(Accounts)
=============================================================================
