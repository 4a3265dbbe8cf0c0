-------------------------- MODULE MCSavedCmdlines --------------------------
(* A small instance of SavedCmdlines: the task tree of the mount benchmark,  *)
(* idle - init - shell - mnt; with TopPid = 4 a task beyond PID_MAX joins.   *)
EXTENDS SavedCmdlines, TLC

CONSTANTS c1, c2, a, b

MCCpu == {c1}
MCTwoCpus == {c1, c2}
CpuSymmetry == Permutations(MCTwoCpus)
MCComm == {a, b}
MCInitParent == [p \in 0 .. TopPid |-> IF p = 0 THEN 0 ELSE p - 1]
MCInitComm == [p \in 0 .. TopPid |-> IF p \in {1, 2} THEN a ELSE b]
=============================================================================
