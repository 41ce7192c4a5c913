------------------------ MODULE MCCommandExecution ------------------------
(* Instances of CommandExecution: commands 1 and 2 are one package (same    *)
(* draft), command 3 stands alone; all runs share one worker_id, so that    *)
(* only the fencing token tells their claims apart.                         *)
EXTENDS CommandExecution, TLC

MCDraft == [c \in Commands |-> IF c \in {1, 2} THEN "package" ELSE "single"]
MCWorkerId == [r \in Runs |-> "worker"]
Symmetry == Permutations(Runs)
=============================================================================
