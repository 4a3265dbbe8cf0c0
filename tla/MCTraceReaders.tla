--------------------------- MODULE MCTraceReaders ---------------------------
(* Instances of TraceReaders: who has which file open.                       *)
EXTENDS TraceReaders, TLC

CONSTANTS r1, r2, c1, c2

File(c, call) == [cpu |-> c, call |-> call]

(* Readers of everything beside readers of one CPU, two readers of the same  *)
(* CPU, and a splice that shares its CPU with nobody.                        *)
MCOpenFiles == { (r1 :> f @@ r2 :> g) : <<f, g>> \in
    { <<File(All, "read"), File(All, "read")>>,
      <<File(All, "read"), File(c1, "read")>>,
      <<File(All, "read"), File(c1, "raw")>>,
      <<File(c1, "read"), File(c1, "pages")>>,
      <<File(c1, "splice"), File(c2, "raw")>> } }

(* A splice and a read of the same CPU.                                      *)
MCSharedSplice == { (r1 :> File(c1, "splice") @@ r2 :> File(c1, "read")) }
=============================================================================
