------------------------ MODULE TraceInstancesProofs ------------------------
(***************************************************************************)
(* Proofs about TraceInstances for any number of processes, addresses and  *)
(* tracers: its counts of references are exact, so an array lives as long  *)
(* as a file of it is open and keeps its tracer while it is being read.    *)
(***************************************************************************)
EXTENDS TraceInstances, FiniteSetTheorems, TLAPS

(* Only snapshot_raw_open has the step between its two halves.               *)
OpenedShape == \A p \in Process : file[p].at = "opened" => file[p].kind = "snapshot_raw"

IndInv == /\ TypeOK /\ RefBalanced /\ TracerRefBalanced /\ HolderListed
          /\ TraceKept /\ OpenedShape /\ SnapshotRawQuiet

-----------------------------------------------------------------------------
(* The two sets that are counted.                                            *)

LEMMA HoldersFinite ==
    ASSUME NEW a, NEW t
    PROVE  /\ IsFiniteSet(Holders(a)) /\ Cardinality(Holders(a)) \in Nat
           /\ IsFiniteSet(Readers(t)) /\ Cardinality(Readers(t)) \in Nat
  <1>1. Holders(a) \subseteq Process /\ Readers(t) \subseteq Process
    BY DEF Holders, Readers
  <1>2. IsFiniteSet(Holders(a)) /\ IsFiniteSet(Readers(t))
    BY <1>1, ProcessAssumption, FS_Subset
  <1>3. QED
    BY <1>2, FS_CardinalityType

(* A positive count where there is a holder, none where the count is zero.   *)
LEMMA CountPositive ==
    ASSUME TypeOK, RefBalanced, NEW p \in Process, Pinning(p)
    PROVE  ref[file[p].array] - 1 \in Nat
  <1> DEFINE a == file[p].array
  <1>1. a \in Array
    BY DEF TypeOK, FileState
  <1>2. p \in Holders(a)
    BY DEF Holders
  <1>3. Cardinality(Holders(a)) # 0
    BY <1>2, HoldersFinite, FS_EmptySet
  <1>4. QED
    BY <1>1, <1>3, HoldersFinite DEF RefBalanced

LEMMA TracerCountPositive ==
    ASSUME TypeOK, TracerRefBalanced, NEW p \in Process, Reading(p)
    PROVE  tracer_ref[current_trace[file[p].array]] - 1 \in Nat
  <1> DEFINE t == current_trace[file[p].array]
  <1>1. t \in Tracer
    BY DEF TypeOK, FileState
  <1>2. p \in Readers(t)
    BY DEF Readers
  <1>3. Cardinality(Readers(t)) # 0
    BY <1>2, HoldersFinite, FS_EmptySet
  <1>4. QED
    BY <1>1, <1>3, HoldersFinite DEF TracerRefBalanced

LEMMA NoHolder ==
    ASSUME TypeOK, RefBalanced, NEW a \in Array, ref[a] = 0, NEW p \in Process, Pinning(p)
    PROVE  file[p].array # a
  BY CountPositive DEF TypeOK

LEMMA NoReader ==
    ASSUME TypeOK, TracerRefBalanced, NEW a \in Array, ~TracerBusy(a),
           NEW p \in Process, Reading(p)
    PROVE  current_trace[file[p].array] # current_trace[a]
  BY TracerCountPositive DEF TypeOK, TracerBusy

(* Steps that leave the holders as they are.                                 *)
LEMMA HoldersSame ==
    ASSUME RefBalanced, ref' = ref,
           \A q \in Process : /\ Pinning(q)' <=> Pinning(q)
                              /\ Pinning(q) => file'[q].array = file[q].array
    PROVE  RefBalanced'
  <1> SUFFICES ASSUME NEW a \in Array PROVE ref'[a] = Cardinality(Holders(a)')
    BY DEF RefBalanced
  <1>1. Holders(a)' = Holders(a)
    BY DEF Holders
  <1>2. QED
    BY <1>1 DEF RefBalanced

LEMMA ReadersSame ==
    ASSUME TracerRefBalanced, tracer_ref' = tracer_ref,
           \A q \in Process :
              /\ Reading(q)' <=> Reading(q)
              /\ Reading(q) => current_trace'[file'[q].array] = current_trace[file[q].array]
    PROVE  TracerRefBalanced'
  <1> SUFFICES ASSUME NEW t \in Tracer PROVE tracer_ref'[t] = Cardinality(Readers(t)')
    BY DEF TracerRefBalanced
  <1>1. Readers(t)' = Readers(t)
    BY DEF Readers
  <1>2. QED
    BY <1>1 DEF TracerRefBalanced

(* One process more, and one process less, among the holders of its array.   *)
LEMMA HolderAdded ==
    ASSUME TypeOK, RefBalanced, NEW p \in Process, ~Pinning(p), Pinning(p)',
           file'[p].array = file[p].array,
           \A q \in Process \ {p} : file'[q] = file[q],
           ref' = [ref EXCEPT ![file[p].array] = @ + 1]
    PROVE  RefBalanced' /\ ref' \in [Array -> Nat]
  <1>1. file[p].array \in Array
    BY DEF TypeOK, FileState
  <1>2. ASSUME NEW a \in Array PROVE ref'[a] = Cardinality(Holders(a)')
    <2>1. CASE a = file[p].array
      <3>1. Holders(a)' = Holders(a) \cup {p} /\ p \notin Holders(a)
        BY <2>1 DEF Holders, Pinning
      <3>2. Cardinality(Holders(a)') = Cardinality(Holders(a)) + 1
        BY <3>1, HoldersFinite, FS_AddElement
      <3>3. QED
        BY <3>2, <2>1, <1>1 DEF RefBalanced, TypeOK
    <2>2. CASE a # file[p].array
      <3>1. Holders(a)' = Holders(a)
        BY <2>2 DEF Holders, Pinning
      <3>2. QED
        BY <3>1, <2>2, <1>1 DEF RefBalanced, TypeOK
    <2>3. QED
      BY <2>1, <2>2
  <1>3. QED
    BY <1>1, <1>2 DEF RefBalanced, TypeOK

LEMMA HolderRemoved ==
    ASSUME TypeOK, RefBalanced, NEW p \in Process, Pinning(p), ~Pinning(p)',
           \A q \in Process \ {p} : file'[q] = file[q],
           ref' = Put(p)
    PROVE  RefBalanced' /\ ref' \in [Array -> Nat]
  <1>1. file[p].array \in Array
    BY DEF TypeOK, FileState
  <1>2. ASSUME NEW a \in Array PROVE ref'[a] = Cardinality(Holders(a)')
    <2>1. CASE a = file[p].array
      <3>1. Holders(a)' = Holders(a) \ {p} /\ p \in Holders(a)
        BY <2>1 DEF Holders, Pinning
      <3>2. Cardinality(Holders(a)') = Cardinality(Holders(a)) - 1
        BY <3>1, HoldersFinite, FS_RemoveElement
      <3>3. QED
        BY <3>2, <2>1, <1>1 DEF RefBalanced, TypeOK, Put
    <2>2. CASE a # file[p].array
      <3>1. Holders(a)' = Holders(a)
        BY <2>2 DEF Holders, Pinning
      <3>2. QED
        BY <3>1, <2>2, <1>1 DEF RefBalanced, TypeOK, Put
    <2>3. QED
      BY <2>1, <2>2
  <1>3. ref' \in [Array -> Nat]
    BY <1>1, CountPositive DEF TypeOK, Put
  <1>4. QED
    BY <1>2, <1>3 DEF RefBalanced

LEMMA ReaderAdded ==
    ASSUME TypeOK, TracerRefBalanced, NEW p \in Process, ~Reading(p), Reading(p)',
           file'[p].array = file[p].array, current_trace' = current_trace,
           \A q \in Process \ {p} : file'[q] = file[q],
           tracer_ref' = [tracer_ref EXCEPT ![current_trace[file[p].array]] = @ + 1]
    PROVE  TracerRefBalanced' /\ tracer_ref' \in [Tracer -> Nat]
  <1> DEFINE u == current_trace[file[p].array]
  <1>1. u \in Tracer
    BY DEF TypeOK, FileState
  <1>2. ASSUME NEW t \in Tracer PROVE tracer_ref'[t] = Cardinality(Readers(t)')
    <2>1. CASE t = u
      <3>1. Readers(t)' = Readers(t) \cup {p} /\ p \notin Readers(t)
        BY <2>1 DEF Readers, Reading, Tracing
      <3>2. Cardinality(Readers(t)') = Cardinality(Readers(t)) + 1
        BY <3>1, HoldersFinite, FS_AddElement
      <3>3. QED
        BY <3>2, <2>1, <1>1 DEF TracerRefBalanced, TypeOK
    <2>2. CASE t # u
      <3>1. Readers(t)' = Readers(t)
        BY <2>2 DEF Readers, Reading, Tracing
      <3>2. QED
        BY <3>1, <2>2, <1>1 DEF TracerRefBalanced, TypeOK
    <2>3. QED
      BY <2>1, <2>2
  <1>3. QED
    BY <1>1, <1>2 DEF TracerRefBalanced, TypeOK

LEMMA ReaderRemoved ==
    ASSUME TypeOK, TracerRefBalanced, NEW p \in Process, Reading(p), ~Reading(p)',
           current_trace' = current_trace,
           \A q \in Process \ {p} : file'[q] = file[q],
           tracer_ref' = TracerPut(p)
    PROVE  TracerRefBalanced' /\ tracer_ref' \in [Tracer -> Nat]
  <1> DEFINE u == current_trace[file[p].array]
  <1>1. u \in Tracer
    BY DEF TypeOK, FileState
  <1>2. ASSUME NEW t \in Tracer PROVE tracer_ref'[t] = Cardinality(Readers(t)')
    <2>1. CASE t = u
      <3>1. Readers(t)' = Readers(t) \ {p} /\ p \in Readers(t)
        BY <2>1 DEF Readers, Reading, Tracing
      <3>2. Cardinality(Readers(t)') = Cardinality(Readers(t)) - 1
        BY <3>1, HoldersFinite, FS_RemoveElement
      <3>3. QED
        BY <3>2, <2>1, <1>1 DEF TracerRefBalanced, TypeOK, TracerPut
    <2>2. CASE t # u
      <3>1. Readers(t)' = Readers(t)
        BY <2>2 DEF Readers, Reading, Tracing
      <3>2. QED
        BY <3>1, <2>2, <1>1 DEF TracerRefBalanced, TypeOK, TracerPut
    <2>3. QED
      BY <2>1, <2>2
  <1>3. tracer_ref' \in [Tracer -> Nat]
    BY <1>1, TracerCountPositive DEF TypeOK, TracerPut
  <1>4. QED
    BY <1>2, <1>3 DEF TracerRefBalanced

-----------------------------------------------------------------------------
(* The invariant holds at the start ...                                      *)

LEMMA InitInv == Init => IndInv
  <1> SUFFICES ASSUME Init PROVE IndInv
    OBVIOUS
  <1>1. TypeOK
    BY ArrayAssumption, TracerAssumption DEF Init, TypeOK, FileState, FileKind, Closed
  <1>2. ASSUME NEW a \in Array PROVE Holders(a) = {}
    BY DEF Init, Holders, Pinning, Closed
  <1>3. ASSUME NEW t \in Tracer PROVE Readers(t) = {}
    BY DEF Init, Readers, Reading, Tracing, Closed
  <1>4. RefBalanced /\ TracerRefBalanced
    BY <1>2, <1>3, FS_EmptySet DEF Init, RefBalanced, TracerRefBalanced
  <1>5. HolderListed /\ TraceKept /\ OpenedShape /\ SnapshotRawQuiet
    BY DEF Init, HolderListed, TraceKept, OpenedShape, SnapshotRawQuiet, Pinning,
           Reading, Tracing, Closed
  <1>6. QED
    BY <1>1, <1>4, <1>5 DEF IndInv

(* ... every step on an array keeps it ...                                   *)

LEMMA EnabledType ==
    ASSUME TypeOK, NEW t \in Tracer
    PROVE  /\ Disable(t) \in [Tracer \ {Nop} -> Int]
           /\ \A w \in Tracer : [u \in Tracer \ {Nop} |->
                Disable(t)[u] + (IF u = w THEN 1 ELSE 0)] \in [Tracer \ {Nop} -> Int]
  <1>1. Disable(t) \in [Tracer \ {Nop} -> Int]
    BY DEF TypeOK, Disable
  <1>2. ASSUME NEW f \in [Tracer \ {Nop} -> Int], NEW w \in Tracer
        PROVE  [u \in Tracer \ {Nop} |-> f[u] + (IF u = w THEN 1 ELSE 0)]
                  \in [Tracer \ {Nop} -> Int]
    OBVIOUS
  <1>3. QED
    BY <1>1, <1>2

LEMMA ArrayStep ==
    ASSUME IndInv, NEW a \in Array, ArrayOp(a)
    PROVE  IndInv'
  <1> USE DEF IndInv
  <1>1. CASE InstanceMkdir(a)
    <2>1. \A q \in Process : Pinning(q) => file[q].array # a
      BY <1>1 DEF InstanceMkdir, HolderListed
    <2>2. \A q \in Process : Reading(q) => Pinning(q)
      BY DEF Reading, Pinning
    <2>3. \A q \in Process : Reading(q) =>
             current_trace'[file[q].array] = current_trace[file[q].array]
      BY <1>1, <2>1, <2>2 DEF InstanceMkdir, TypeOK, FileState
    <2>4. TypeOK'
      BY <1>1, TracerAssumption DEF InstanceMkdir, TypeOK
    <2>5. RefBalanced'
      <3>1. ASSUME NEW b \in Array PROVE Holders(b)' = Holders(b)
        BY <1>1 DEF InstanceMkdir, Holders, Pinning
      <3>2. Holders(a) = {}
        BY <2>1 DEF Holders
      <3>3. QED
        BY <1>1, <3>1, <3>2, FS_EmptySet DEF InstanceMkdir, RefBalanced, TypeOK
    <2>6. TracerRefBalanced'
      BY <1>1, <2>3, ReadersSame DEF InstanceMkdir, Reading, Tracing
    <2>7. HolderListed'
      BY <1>1 DEF InstanceMkdir, HolderListed, Pinning
    <2>8. TraceKept' /\ OpenedShape' /\ SnapshotRawQuiet'
      BY <1>1, <2>3 DEF InstanceMkdir, TraceKept, OpenedShape, SnapshotRawQuiet,
                        Reading, Tracing
    <2>9. QED
      BY <2>4, <2>5, <2>6, <2>7, <2>8
  <1>2. CASE InstanceRmdir(a)
    <2>1. \A q \in Process : Pinning(q) => file[q].array # a
      BY <1>2, NoHolder DEF InstanceRmdir, ArrayBusy
    <2>2. \A q \in Process : Reading(q) => Pinning(q)
      BY DEF Reading, Pinning
    <2>3. \A q \in Process : Reading(q) =>
             current_trace'[file[q].array] = current_trace[file[q].array]
      BY <1>2, <2>1, <2>2 DEF InstanceRmdir, TypeOK, FileState
    <2>4. TypeOK'
      BY <1>2, TracerAssumption, EnabledType DEF InstanceRmdir, RmdirDisable, TypeOK
    <2>5. RefBalanced' /\ TracerRefBalanced'
      BY <1>2, <2>3, HoldersSame, ReadersSame DEF InstanceRmdir, Reading, Tracing, Pinning
    <2>6. HolderListed'
      BY <1>2, <2>1 DEF InstanceRmdir, HolderListed, Pinning
    <2>7. TraceKept' /\ OpenedShape' /\ SnapshotRawQuiet'
      BY <1>2, <2>3 DEF InstanceRmdir, TraceKept, OpenedShape, SnapshotRawQuiet,
                        Reading, Tracing
    <2>8. QED
      BY <2>4, <2>5, <2>6, <2>7
  <1>3. ASSUME NEW t \in Tracer, SetTracer(a, t) PROVE IndInv'
    <2>1. \A q \in Process : Reading(q) => file[q].array # a
      BY <1>3, NoReader DEF SetTracer
    <2>2. \A q \in Process : Reading(q) =>
             current_trace'[file[q].array] = current_trace[file[q].array]
      BY <1>3, <2>1 DEF SetTracer, TypeOK, FileState
    <2>3. enabled' \in [Tracer \ {Nop} -> Int]
      <3>1. current_trace[a] \in Tracer
        BY DEF TypeOK
      <3>2. /\ Disable(current_trace[a]) \in [Tracer \ {Nop} -> Int]
            /\ [u \in Tracer \ {Nop} |-> Disable(current_trace[a])[u]
                                         + (IF u = t THEN 1 ELSE 0)] \in [Tracer \ {Nop} -> Int]
        BY <3>1, EnabledType
      <3>3. \/ enabled' = [u \in Tracer \ {Nop} |-> Disable(current_trace[a])[u]
                                                   + (IF u = t THEN 1 ELSE 0)]
            \/ enabled' = Disable(current_trace[a])
        BY <1>3 DEF SetTracer
      <3>4. QED
        BY <3>2, <3>3
    <2>4. TypeOK'
      BY <1>3, <2>3, TracerAssumption DEF SetTracer, TypeOK
    <2>5. RefBalanced' /\ TracerRefBalanced'
      BY <1>3, <2>2, HoldersSame, ReadersSame DEF SetTracer, Reading, Tracing, Pinning
    <2>6. HolderListed'
      BY <1>3 DEF SetTracer, HolderListed, Pinning
    <2>7. TraceKept' /\ OpenedShape' /\ SnapshotRawQuiet'
      BY <1>3, <2>2 DEF SetTracer, TraceKept, OpenedShape, SnapshotRawQuiet,
                        Reading, Tracing
    <2>8. QED
      BY <2>4, <2>5, <2>6, <2>7
  <1>4. QED
    BY <1>1, <1>2, <1>3 DEF ArrayOp

(* What the two ways to update a file do.                                    *)

LEMMA Moved ==
    ASSUME TypeOK, NEW p \in Process, NEW at \in {"got", "open"}, file' = Move(p, at)
    PROVE  /\ file' \in [Process -> FileState]
           /\ \A q \in Process \ {p} : file'[q] = file[q]
           /\ file'[p].at = at /\ file'[p].kind = file[p].kind
           /\ file'[p].array = file[p].array /\ file'[p].trace = file[p].trace
  BY DEF TypeOK, FileState, Move

LEMMA ClosedNow ==
    ASSUME TypeOK, NEW p \in Process, file' = Close(p)
    PROVE  /\ file' \in [Process -> FileState]
           /\ \A q \in Process \ {p} : file'[q] = file[q]
           /\ file'[p] = Closed /\ ~Pinning(p)' /\ ~Reading(p)'
  <1>1. Closed \in FileState
    BY ArrayAssumption, TracerAssumption DEF Closed, FileState, FileKind
  <1>2. file'[p] = Closed /\ \A q \in Process \ {p} : file'[q] = file[q]
    BY DEF TypeOK, Close
  <1>3. QED
    BY <1>1, <1>2 DEF TypeOK, Close, Closed, Pinning, Reading

(* ... and so does every step of a file.                                     *)

LEMMA FileStep ==
    ASSUME IndInv, NEW p \in Process, FileOp(p)
    PROVE  IndInv'
  <1> USE DEF IndInv
  <1>1. ASSUME NEW k \in FileKind, NEW a \in Array, LookUp(p, k, a) PROVE IndInv'
    <2>1. file' \in [Process -> FileState] /\ \A q \in Process \ {p} : file'[q] = file[q]
      <3>1. file' = [file EXCEPT ![p] = [file[p] EXCEPT !.at = "found", !.kind = k, !.array = a]]
        BY <1>1 DEF LookUp, TypeOK
      <3>2. [file[p] EXCEPT !.at = "found", !.kind = k, !.array = a] \in FileState
        <4>1. file[p] \in FileState
          BY DEF TypeOK
        <4>2. QED
          BY <4>1 DEF FileState
      <3>3. QED
        BY <3>1, <3>2 DEF TypeOK
    <2>2. /\ ~Pinning(p) /\ ~Reading(p) /\ ~Pinning(p)' /\ ~Reading(p)'
          /\ file'[p].at = "found"
      BY <1>1 DEF LookUp, TypeOK, Pinning, Reading
    <2>3. TypeOK'
      BY <1>1, <2>1 DEF LookUp, TypeOK
    <2>4. RefBalanced' /\ TracerRefBalanced'
      BY <1>1, <2>1, <2>2, HoldersSame, ReadersSame DEF LookUp, Pinning, Reading, Tracing
    <2>5. HolderListed' /\ TraceKept' /\ OpenedShape' /\ SnapshotRawQuiet'
      BY <1>1, <2>1, <2>2 DEF LookUp, HolderListed, TraceKept, OpenedShape,
                              SnapshotRawQuiet, Pinning, Reading, Tracing
    <2>6. QED
      BY <2>3, <2>4, <2>5
  <1>2. CASE TraceArrayGet(p)
    <2>1. ~Pinning(p) /\ ~Reading(p)
      BY <1>2 DEF TraceArrayGet, Pinning, Reading
    <2>2. CASE file[p].array \in ftrace_trace_arrays
      <3>1. file' = Move(p, "got") /\ ref' = [ref EXCEPT ![file[p].array] = @ + 1]
        BY <1>2, <2>2 DEF TraceArrayGet
      <3>2. /\ file' \in [Process -> FileState] /\ \A q \in Process \ {p} : file'[q] = file[q]
            /\ file'[p].at = "got" /\ file'[p].array = file[p].array
            /\ Pinning(p)' /\ ~Reading(p)'
        BY <3>1, Moved DEF Pinning, Reading
      <3>3. RefBalanced' /\ ref' \in [Array -> Nat]
        BY <2>1, <3>1, <3>2, HolderAdded
      <3>4. TypeOK'
        BY <1>2, <3>2, <3>3 DEF TraceArrayGet, TypeOK
      <3>5. TracerRefBalanced'
        BY <1>2, <2>1, <3>2, ReadersSame DEF TraceArrayGet, Reading, Tracing
      <3>6. HolderListed'
        BY <1>2, <2>2, <3>2 DEF TraceArrayGet, HolderListed, Pinning
      <3>7. TraceKept' /\ OpenedShape' /\ SnapshotRawQuiet'
        BY <1>2, <3>2 DEF TraceArrayGet, TraceKept, OpenedShape, SnapshotRawQuiet,
                          Reading, Tracing
      <3>8. QED
        BY <3>3, <3>4, <3>5, <3>6, <3>7
    <2>3. CASE file[p].array \notin ftrace_trace_arrays
      <3>1. file' = Close(p) /\ ref' = ref
        BY <1>2, <2>3 DEF TraceArrayGet
      <3>2. /\ file' \in [Process -> FileState] /\ \A q \in Process \ {p} : file'[q] = file[q]
            /\ file'[p] = Closed /\ ~Pinning(p)' /\ ~Reading(p)'
        BY <3>1, ClosedNow
      <3>3. RefBalanced'
        BY <2>1, <3>1, <3>2, HoldersSame DEF Pinning
      <3>4. TypeOK'
        BY <1>2, <3>1, <3>2 DEF TraceArrayGet, TypeOK
      <3>5. TracerRefBalanced'
        BY <1>2, <2>1, <3>2, ReadersSame DEF TraceArrayGet, Reading, Tracing
      <3>6. HolderListed' /\ TraceKept' /\ OpenedShape' /\ SnapshotRawQuiet'
        BY <1>2, <3>2 DEF TraceArrayGet, HolderListed, TraceKept, OpenedShape,
                          SnapshotRawQuiet, Pinning, Reading, Tracing, Closed
      <3>7. QED
        BY <3>3, <3>4, <3>5, <3>6
    <2>4. QED
      BY <2>2, <2>3
  <1>3. CASE OpenFailed(p)
    <2>1. file' \in [Process -> FileState] /\ \A q \in Process \ {p} : file'[q] = file[q]
      BY <1>3, ClosedNow DEF OpenFailed
    <2>2. Pinning(p) /\ ~Reading(p) /\ ~Pinning(p)' /\ ~Reading(p)' /\ file'[p] = Closed
      BY <1>3, ClosedNow DEF OpenFailed, Pinning, Reading
    <2>3. RefBalanced' /\ ref' \in [Array -> Nat]
      BY <1>3, <2>1, <2>2, HolderRemoved DEF OpenFailed, FailedPut
    <2>4. TypeOK'
      BY <1>3, <2>1, <2>3 DEF OpenFailed, TypeOK
    <2>5. TracerRefBalanced'
      BY <1>3, <2>1, <2>2, ReadersSame DEF OpenFailed, Reading, Tracing
    <2>6. HolderListed' /\ TraceKept' /\ OpenedShape' /\ SnapshotRawQuiet'
      BY <1>3, <2>1, <2>2 DEF OpenFailed, HolderListed, TraceKept, OpenedShape,
                              SnapshotRawQuiet, Pinning, Reading, Tracing, Closed
    <2>7. QED
      BY <2>3, <2>4, <2>5, <2>6
  <1>4. CASE OpenPlain(p)
    <2>1. file' \in [Process -> FileState] /\ \A q \in Process \ {p} : file'[q] = file[q]
      BY <1>4, Moved DEF OpenPlain
    <2>2. /\ Pinning(p) /\ Pinning(p)' /\ ~Reading(p) /\ ~Reading(p)'
          /\ file'[p].array = file[p].array /\ file'[p].at = "open"
          /\ file'[p].kind = "plain"
      <3>1. file[p].kind = "plain" /\ file[p].at = "got"
        BY <1>4 DEF OpenPlain, Tracing
      <3>2. file'[p].array = file[p].array /\ file'[p].at = "open" /\ file'[p].kind = "plain"
        BY <1>4, <3>1, Moved DEF OpenPlain
      <3>3. QED
        BY <3>1, <3>2 DEF Pinning, Reading, Tracing
    <2>3. RefBalanced' /\ TracerRefBalanced'
      BY <1>4, <2>1, <2>2, HoldersSame, ReadersSame DEF OpenPlain, Pinning, Reading, Tracing
    <2>4. TypeOK'
      BY <1>4, <2>1 DEF OpenPlain, TypeOK
    <2>5. HolderListed' /\ TraceKept' /\ OpenedShape' /\ SnapshotRawQuiet'
      BY <1>4, <2>1, <2>2 DEF OpenPlain, HolderListed, TraceKept, OpenedShape,
                              SnapshotRawQuiet, Pinning, Reading, Tracing
    <2>6. QED
      BY <2>3, <2>4, <2>5
  <1>5. CASE OpenTracing(p)
    <2> DEFINE t == current_trace[file[p].array]
    <2> DEFINE at == IF file[p].kind = "snapshot_raw" THEN "opened" ELSE "open"
    <2>1. /\ tracer_ref' = [tracer_ref EXCEPT ![t] = @ + 1]
          /\ file' = [file EXCEPT ![p].trace = t, ![p].at = at]
          /\ file[p].at = "got" /\ file[p].kind # "plain"
      BY <1>5 DEF OpenTracing, Tracing
    <2>2. file[p] \in FileState /\ t \in Tracer /\ at \in {"opened", "open"}
      BY DEF TypeOK, FileState
    <2>3. file' = [file EXCEPT ![p] = [file[p] EXCEPT !.trace = t, !.at = at]]
      BY <2>1, <2>2 DEF TypeOK, FileState
    <2>4. file' \in [Process -> FileState] /\ \A q \in Process \ {p} : file'[q] = file[q]
      BY <2>2, <2>3 DEF TypeOK, FileState
    <2>5. /\ file'[p].array = file[p].array /\ file'[p].kind = file[p].kind
          /\ file'[p].trace = t /\ file'[p].at = at
      BY <2>2, <2>3 DEF TypeOK, FileState
    <2>6. /\ Pinning(p) /\ Pinning(p)' /\ ~Reading(p) /\ Reading(p)'
          /\ file'[p].array = file[p].array /\ file'[p].kind = file[p].kind
          /\ file'[p].trace = t
      BY <2>1, <2>2, <2>5 DEF Pinning, Reading, Tracing
    <2>7. /\ file'[p].at = "opened" => file'[p].kind = "snapshot_raw"
          /\ file'[p].at = "open" => file'[p].kind # "snapshot_raw"
      BY <2>5
    <2>8. RefBalanced'
      BY <1>5, <2>4, <2>6, HoldersSame DEF OpenTracing, Pinning
    <2>9. TracerRefBalanced' /\ tracer_ref' \in [Tracer -> Nat]
      <3>1. current_trace' = current_trace
        BY <1>5 DEF OpenTracing
      <3>2. QED
        BY <2>1, <2>4, <2>6, <3>1, ReaderAdded
    <2>10. TypeOK'
      BY <1>5, <2>4, <2>9 DEF OpenTracing, TypeOK
    <2>11. HolderListed' /\ TraceKept' /\ OpenedShape' /\ SnapshotRawQuiet'
      <3>1. /\ UNCHANGED <<ftrace_trace_arrays, current_trace>>
            /\ \A q \in Process \ {p} : file'[q] = file[q]
        BY <1>5, <2>4 DEF OpenTracing
      <3>2. t = current_trace[file[p].array]
        BY <2>1
      <3>3. HolderListed'
        BY <2>6, <3>1 DEF HolderListed, Pinning
      <3>4. TraceKept'
        BY <2>6, <3>1, <3>2 DEF TraceKept, Reading, Tracing
      <3>5. OpenedShape'
        BY <2>7, <3>1 DEF OpenedShape
      <3>6. SnapshotRawQuiet'
        BY <2>7, <3>1 DEF SnapshotRawQuiet, Reading, Tracing
      <3>7. QED
        BY <3>3, <3>4, <3>5, <3>6
    <2>12. QED
      BY <2>8, <2>9, <2>10, <2>11
  <1>6. CASE OpenSnapshotRaw(p)
    <2>1. Pinning(p) /\ Reading(p) /\ file[p].trace = current_trace[file[p].array]
      BY <1>6 DEF OpenSnapshotRaw, OpenedShape, Pinning, Reading, Tracing, TraceKept
    <2>2. CASE RawRefused(p)
      <3>1. file' \in [Process -> FileState] /\ \A q \in Process \ {p} : file'[q] = file[q]
        BY <1>6, <2>2, ClosedNow DEF OpenSnapshotRaw
      <3>2. ~Pinning(p)' /\ ~Reading(p)' /\ file'[p] = Closed
        BY <1>6, <2>2, ClosedNow DEF OpenSnapshotRaw
      <3>3. RefBalanced' /\ ref' \in [Array -> Nat]
        BY <1>6, <2>1, <2>2, <3>1, <3>2, HolderRemoved DEF OpenSnapshotRaw
      <3>4. TracerRefBalanced' /\ tracer_ref' \in [Tracer -> Nat]
        BY <1>6, <2>1, <2>2, <3>1, <3>2, ReaderRemoved DEF OpenSnapshotRaw
      <3>5. TypeOK'
        BY <1>6, <3>1, <3>3, <3>4 DEF OpenSnapshotRaw, TypeOK
      <3>6. HolderListed' /\ TraceKept' /\ OpenedShape' /\ SnapshotRawQuiet'
        BY <1>6, <3>1, <3>2 DEF OpenSnapshotRaw, HolderListed, TraceKept, OpenedShape,
                                SnapshotRawQuiet, Pinning, Reading, Tracing, Closed
      <3>7. QED
        BY <3>3, <3>4, <3>5, <3>6
    <2>3. CASE ~RawRefused(p)
      <3>1. file' \in [Process -> FileState] /\ \A q \in Process \ {p} : file'[q] = file[q]
        BY <1>6, <2>3, Moved DEF OpenSnapshotRaw
      <3>2. /\ Pinning(p)' /\ Reading(p)' /\ file'[p].array = file[p].array
            /\ file'[p].trace = file[p].trace /\ file'[p].at = "open"
        BY <1>6, <2>1, <2>3, Moved DEF OpenSnapshotRaw, Pinning, Reading, Tracing
      <3>3. RefBalanced' /\ TracerRefBalanced'
        BY <1>6, <2>1, <2>3, <3>1, <3>2, HoldersSame, ReadersSame
           DEF OpenSnapshotRaw, Pinning, Reading, Tracing
      <3>4. TypeOK'
        BY <1>6, <2>3, <3>1 DEF OpenSnapshotRaw, TypeOK
      <3>5. HolderListed' /\ TraceKept' /\ OpenedShape'
        BY <1>6, <2>1, <3>1, <3>2 DEF OpenSnapshotRaw, HolderListed, TraceKept, OpenedShape,
                                      Pinning, Reading, Tracing
      <3>6. SnapshotRawQuiet'
        BY <1>6, <2>1, <2>3, <3>1, <3>2
           DEF OpenSnapshotRaw, SnapshotRawQuiet, RawRefused, Reading, Tracing
      <3>7. QED
        BY <3>3, <3>4, <3>5, <3>6
    <2>4. QED
      BY <2>2, <2>3
  <1>7. CASE ReleasePlain(p) \/ ReleasePipePut(p)
    <2>1. file' \in [Process -> FileState] /\ \A q \in Process \ {p} : file'[q] = file[q]
      BY <1>7, ClosedNow DEF ReleasePlain, ReleasePipePut
    <2>2. Pinning(p) /\ ~Reading(p) /\ ~Pinning(p)' /\ ~Reading(p)' /\ file'[p] = Closed
      BY <1>7, ClosedNow DEF ReleasePlain, ReleasePipePut, Pinning, Reading, Tracing
    <2>3. RefBalanced' /\ ref' \in [Array -> Nat]
      BY <1>7, <2>1, <2>2, HolderRemoved DEF ReleasePlain, ReleasePipePut
    <2>4. TypeOK'
      BY <1>7, <2>1, <2>3 DEF ReleasePlain, ReleasePipePut, TypeOK
    <2>5. TracerRefBalanced'
      BY <1>7, <2>1, <2>2, ReadersSame DEF ReleasePlain, ReleasePipePut, Reading, Tracing
    <2>6. HolderListed' /\ TraceKept' /\ OpenedShape' /\ SnapshotRawQuiet'
      BY <1>7, <2>1, <2>2 DEF ReleasePlain, ReleasePipePut, HolderListed, TraceKept,
                              OpenedShape, SnapshotRawQuiet, Pinning, Reading, Tracing, Closed
    <2>7. QED
      BY <2>3, <2>4, <2>5, <2>6
  <1>8. CASE ReleasePipe(p)
    <2>1. file' \in [Process -> FileState] /\ \A q \in Process \ {p} : file'[q] = file[q]
      BY <1>8, TracerAssumption DEF ReleasePipe, TypeOK, FileState
    <2>2. /\ Pinning(p) /\ Reading(p) /\ Pinning(p)' /\ ~Reading(p)'
          /\ file'[p].array = file[p].array /\ file'[p].at = "released"
      BY <1>8 DEF ReleasePipe, TypeOK, Pinning, Reading, Tracing
    <2>3. RefBalanced'
      BY <1>8, <2>1, <2>2, HoldersSame DEF ReleasePipe, Pinning
    <2>4. TracerRefBalanced' /\ tracer_ref' \in [Tracer -> Nat]
      BY <1>8, <2>1, <2>2, ReaderRemoved DEF ReleasePipe
    <2>5. TypeOK'
      BY <1>8, <2>1, <2>4 DEF ReleasePipe, TypeOK
    <2>6. HolderListed' /\ TraceKept' /\ OpenedShape' /\ SnapshotRawQuiet'
      BY <1>8, <2>1, <2>2 DEF ReleasePipe, HolderListed, TraceKept, OpenedShape,
                              SnapshotRawQuiet, Pinning, Reading, Tracing
    <2>7. QED
      BY <2>3, <2>4, <2>5, <2>6
  <1>9. CASE ReleaseRaw(p)
    <2>1. file' \in [Process -> FileState] /\ \A q \in Process \ {p} : file'[q] = file[q]
      BY <1>9, ClosedNow DEF ReleaseRaw
    <2>2. /\ Pinning(p) /\ Reading(p) /\ ~Pinning(p)' /\ ~Reading(p)'
          /\ file'[p] = Closed
      BY <1>9, ClosedNow DEF ReleaseRaw, Pinning, Reading, Tracing
    <2>3. RefBalanced' /\ ref' \in [Array -> Nat]
      BY <1>9, <2>1, <2>2, HolderRemoved DEF ReleaseRaw
    <2>4. TracerRefBalanced' /\ tracer_ref' \in [Tracer -> Nat]
      BY <1>9, <2>1, <2>2, ReaderRemoved DEF ReleaseRaw
    <2>5. TypeOK'
      BY <1>9, <2>1, <2>3, <2>4 DEF ReleaseRaw, TypeOK
    <2>6. HolderListed' /\ TraceKept' /\ OpenedShape' /\ SnapshotRawQuiet'
      BY <1>9, <2>1, <2>2 DEF ReleaseRaw, HolderListed, TraceKept, OpenedShape,
                              SnapshotRawQuiet, Pinning, Reading, Tracing, Closed
    <2>7. QED
      BY <2>3, <2>4, <2>5, <2>6
  <1>10. QED
    BY <1>1, <1>2, <1>3, <1>4, <1>5, <1>6, <1>7, <1>8, <1>9 DEF FileOp

LEMMA Stutter == IndInv /\ UNCHANGED vars => IndInv'
  BY DEF IndInv, vars, TypeOK, RefBalanced, TracerRefBalanced, HolderListed, TraceKept,
         OpenedShape, SnapshotRawQuiet, Holders, Readers, Pinning, Reading, Tracing

(* The inductive invariant: the references are exact, so that rmdir and a    *)
(* change of tracer, which test them for zero, find no file in their way.    *)
THEOREM Inductive == Spec => []IndInv
  <1>1. IndInv /\ [Next]_vars => IndInv'
    <2> SUFFICES ASSUME IndInv, [Next]_vars PROVE IndInv'
      OBVIOUS
    <2>1. ASSUME NEW a \in Array, ArrayOp(a) PROVE IndInv'
      BY <2>1, ArrayStep
    <2>2. ASSUME NEW p \in Process, FileOp(p) PROVE IndInv'
      BY <2>2, FileStep
    <2>3. CASE UNCHANGED vars
      BY <2>3, Stutter
    <2>4. QED
      BY <2>1, <2>2, <2>3 DEF Next
  <1>2. QED
    BY InitInv, <1>1, PTL DEF Spec

(* No count of references goes below zero, whatever opens, fails and closes. *)
THEOREM TypeCorrect == Spec => []TypeOK
  <1>1. IndInv => TypeOK
    BY DEF IndInv
  <1>2. QED
    BY Inductive, <1>1, PTL

(* tr->ref and tracer->ref are exact for any number of arrays, files and     *)
(* tracers.                                                                  *)
THEOREM RefCorrect == Spec => [](RefBalanced /\ TracerRefBalanced)
  <1>1. IndInv => RefBalanced /\ TracerRefBalanced
    BY DEF IndInv
  <1>2. QED
    BY Inductive, <1>1, PTL

(* instance_rmdir frees no array that an open file uses.                     *)
THEOREM HolderCorrect == Spec => []HolderListed
  <1>1. IndInv => HolderListed
    BY DEF IndInv
  <1>2. QED
    BY Inductive, <1>1, PTL

(* tracing_set_tracer changes no tracer under its readers, and so no latency *)
(* tracer appears under an open snapshot_raw file.                           *)
THEOREM TraceCorrect == Spec => [](TraceKept /\ SnapshotRawQuiet)
  <1>1. IndInv => TraceKept /\ SnapshotRawQuiet
    BY DEF IndInv
  <1>2. QED
    BY Inductive, <1>1, PTL

(* tracing_open_pipe, tracing_release_pipe: tracer->ref counts the readers   *)
(* that use the tracer by now, although nobody stores whom it counted.       *)
THEOREM TracerRefCorrect == Spec => []TracerRefBalanced
  <1>1. IndInv => TracerRefBalanced
    BY DEF IndInv
  <1>2. QED
    BY Inductive, <1>1, PTL

(* tracing_snapshot_raw_open: the tracer that it looked at without a lock    *)
(* stays, so no latency tracer swaps under an open snapshot_raw file.        *)
THEOREM SnapshotRawCorrect == Spec => []SnapshotRawQuiet
  <1>1. IndInv => SnapshotRawQuiet
    BY DEF IndInv
  <1>2. QED
    BY Inductive, <1>1, PTL

-----------------------------------------------------------------------------
(* tracer->enabled.                                                          *)

(* A set that changes at most at a.                                          *)
LEMMA OneMember ==
    ASSUME NEW S, NEW T, NEW a, IsFiniteSet(S), \A x : x # a => (x \in S <=> x \in T)
    PROVE  Cardinality(T) = Cardinality(S) - (IF a \in S THEN 1 ELSE 0)
                                           + (IF a \in T THEN 1 ELSE 0)
  <1>1. IsFiniteSet(S \ {a}) /\ Cardinality(S \ {a}) \in Nat /\ Cardinality(S) \in Nat
    BY FS_RemoveElement, FS_CardinalityType
  <1>2. Cardinality(S \ {a}) = IF a \in S THEN Cardinality(S) - 1 ELSE Cardinality(S)
    BY FS_RemoveElement
  <1>3. CASE a \in T
    <2>1. T = (S \ {a}) \cup {a} /\ a \notin S \ {a}
      BY <1>3
    <2>2. Cardinality((S \ {a}) \cup {a}) = Cardinality(S \ {a}) + 1
      BY <1>1, <2>1, FS_AddElement
    <2>3. Cardinality(T) = Cardinality(S \ {a}) + 1
      BY <2>1, <2>2
    <2>4. QED
      BY <1>1, <1>2, <1>3, <2>3
  <1>4. CASE a \notin T
    <2>1. T = S \ {a}
      BY <1>4
    <2>2. QED
      BY <1>1, <1>2, <1>4, <2>1
  <1>5. QED
    BY <1>3, <1>4

(* The array a with its tracer old gives way to one with the tracer new, or  *)
(* comes or goes.                                                            *)
LEMMA UsersMove ==
    ASSUME TypeOK, EnabledExact, NEW a \in Array, NEW t \in Tracer \ {Nop},
           NEW out \in {0, 1}, NEW in \in {0, 1},
           \A b \in Array : b # a => /\ b \in ftrace_trace_arrays' <=> b \in ftrace_trace_arrays
                                     /\ current_trace'[b] = current_trace[b],
           ftrace_trace_arrays' \subseteq Array,
           out = 1 <=> a \in Users(t), in = 1 <=> a \in Users(t)',
           enabled'[t] = enabled[t] - out + in
    PROVE  enabled'[t] = Cardinality(Users(t)')
  <1>1. Users(t) \subseteq Array /\ IsFiniteSet(Users(t))
    <2>1. Users(t) \subseteq Array
      BY DEF Users, TypeOK
    <2>2. QED
      BY <2>1, ProcessAssumption, FS_Subset
  <1>2. \A x : x # a => (x \in Users(t) <=> x \in Users(t)')
    BY <1>1 DEF Users, TypeOK
  <1>3. Cardinality(Users(t)') = Cardinality(Users(t)) - (IF a \in Users(t) THEN 1 ELSE 0)
                                   + (IF a \in Users(t)' THEN 1 ELSE 0)
    BY <1>1, <1>2, OneMember
  <1>4. enabled[t] = Cardinality(Users(t)) /\ Cardinality(Users(t)) \in Nat
    BY <1>1, FS_CardinalityType DEF EnabledExact
  <1>5. QED
    BY <1>3, <1>4

LEMMA EnabledStep ==
    ASSUME TypeOK, EnabledExact, [Next]_vars
    PROVE  EnabledExact'
  <1> SUFFICES ASSUME NEW t \in Tracer \ {Nop} PROVE enabled'[t] = Cardinality(Users(t)')
    BY DEF EnabledExact
  <1>1. ASSUME NEW a \in Array, InstanceMkdir(a) PROVE enabled'[t] = Cardinality(Users(t)')
    <2>1. /\ \A b \in Array : b # a => /\ b \in ftrace_trace_arrays' <=> b \in ftrace_trace_arrays
                                       /\ current_trace'[b] = current_trace[b]
          /\ ftrace_trace_arrays' \subseteq Array
          /\ a \notin Users(t) /\ a \notin Users(t)' /\ enabled'[t] = enabled[t] - 0 + 0
      BY <1>1 DEF InstanceMkdir, TypeOK, Users
    <2>2. QED
      BY <2>1, UsersMove
  <1>2. ASSUME NEW a \in Array, InstanceRmdir(a) PROVE enabled'[t] = Cardinality(Users(t)')
    <2> DEFINE out == IF current_trace[a] = t THEN 1 ELSE 0
    <2>1. /\ \A b \in Array : b # a => /\ b \in ftrace_trace_arrays' <=> b \in ftrace_trace_arrays
                                       /\ current_trace'[b] = current_trace[b]
          /\ ftrace_trace_arrays' \subseteq Array
      BY <1>2 DEF InstanceRmdir, TypeOK
    <2>2. /\ out = 1 <=> a \in Users(t)
          /\ a \notin Users(t)'
      BY <1>2 DEF InstanceRmdir, TypeOK, Users
    <2>3. enabled'[t] = enabled[t] - out + 0
      BY <1>2 DEF InstanceRmdir, RmdirDisable, Disable, TypeOK
    <2>4. QED
      BY <2>1, <2>2, <2>3, UsersMove
  <1>3. ASSUME NEW a \in Array, NEW u \in Tracer, SetTracer(a, u)
        PROVE  enabled'[t] = Cardinality(Users(t)')
    <2> DEFINE out == IF current_trace[a] = t THEN 1 ELSE 0
    <2>1. PICK w \in {u, Nop} :
            /\ current_trace' = [current_trace EXCEPT ![a] = w]
            /\ enabled'[t] = enabled[t] - out + (IF w = t THEN 1 ELSE 0)
      BY <1>3 DEF SetTracer, Disable, TypeOK
    <2> DEFINE in == IF w = t THEN 1 ELSE 0
    <2>2. /\ \A b \in Array : b # a => /\ b \in ftrace_trace_arrays' <=> b \in ftrace_trace_arrays
                                       /\ current_trace'[b] = current_trace[b]
          /\ ftrace_trace_arrays' \subseteq Array
      BY <1>3, <2>1 DEF SetTracer, TypeOK
    <2>3. /\ out = 1 <=> a \in Users(t)
          /\ in = 1 <=> a \in Users(t)'
      BY <1>3, <2>1 DEF SetTracer, TypeOK, Users
    <2>4. QED
      BY <2>1, <2>2, <2>3, UsersMove
  <1>4. CASE UNCHANGED <<ftrace_trace_arrays, current_trace, enabled>>
    BY <1>4 DEF EnabledExact, Users
  <1>5. ASSUME NEW p \in Process, FileOp(p)
        PROVE  UNCHANGED <<ftrace_trace_arrays, current_trace, enabled>>
    BY <1>5 DEF FileOp, LookUp, TraceArrayGet, OpenFailed, OpenPlain, OpenTracing,
                OpenSnapshotRaw, ReleasePlain, ReleasePipe, ReleasePipePut, ReleaseRaw
  <1>6. QED
    BY <1>1, <1>2, <1>3, <1>4, <1>5 DEF Next, ArrayOp, vars

(* tracing_set_tracer, instance_rmdir: a tracer is enabled once per array    *)
(* that uses it, for any number of arrays, and by none that was removed.     *)
THEOREM EnabledCorrect == Spec => []EnabledExact
  <1>1. Init => EnabledExact
    <2> SUFFICES ASSUME Init, NEW t \in Tracer \ {Nop} PROVE enabled[t] = Cardinality(Users(t))
      BY DEF EnabledExact
    <2>1. Users(t) = {}
      BY ArrayAssumption DEF Init, Users
    <2>2. QED
      BY <2>1, FS_EmptySet DEF Init
  <1>2. TypeOK /\ EnabledExact /\ [Next]_vars => EnabledExact'
    BY EnabledStep
  <1>3. QED
    BY <1>1, <1>2, TypeCorrect, PTL DEF Spec
=============================================================================
