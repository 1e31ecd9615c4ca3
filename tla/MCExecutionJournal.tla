------------------------- MODULE MCExecutionJournal -------------------------
(* Small instances of ExecutionJournal for TLC.                            *)
EXTENDS ExecutionJournal, TLC

\* Tasks and devices are interchangeable; the scans and recoveries are not.
Symmetry == Permutations(Tasks)
=============================================================================
