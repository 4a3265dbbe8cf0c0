------------------------- MODULE MCSavedCmdlinesSeq -------------------------
(* SavedCmdlinesSeq with one recording CPU, one reader and a fixed tree.     *)
EXTENDS SavedCmdlinesSeq

CONSTANTS c1, a

MCCpu == {c1}
MCComm == {a}
MCInitParent == [p \in 0 .. TopPid |-> IF p = 0 THEN 0 ELSE p - 1]
MCInitComm == [p \in 0 .. TopPid |-> a]
=============================================================================
