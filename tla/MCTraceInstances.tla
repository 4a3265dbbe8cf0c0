-------------------------- MODULE MCTraceInstances --------------------------
(* Three processes on global_trace and two addresses for instances.          *)
EXTENDS TraceInstances, TLC

CONSTANTS p1, p2, p3, global, a1, a2, nop, function_graph, irqsoff

MCProcess == {p1, p2, p3}
MCArray   == {global, a1, a2}
MCTracer  == {nop, function_graph, irqsoff}
MCMaxTracer    == {irqsoff}
MCInstanceable == {nop, irqsoff}

Symmetry == Permutations(MCProcess) \cup Permutations({a1, a2})
=============================================================================
