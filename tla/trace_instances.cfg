SPECIFICATION Spec
CONSTANTS
  p1 = p1
  p2 = p2
  p3 = p3
  global = global
  a1 = a1
  a2 = a2
  nop = nop
  function_graph = function_graph
  irqsoff = irqsoff
  Process <- MCProcess
  Array <- MCArray
  GlobalTrace = global
  Tracer <- MCTracer
  Nop = nop
  MaxTracer <- MCMaxTracer
  Instanceable <- MCInstanceable
SYMMETRY Symmetry
INVARIANTS TypeOK RefBalanced TracerRefBalanced HolderListed TraceKept SnapshotRawQuiet EnabledExact
