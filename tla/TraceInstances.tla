--------------------------- MODULE TraceInstances ---------------------------
(***************************************************************************)
(* The life of trace arrays (linux/ftrace/trace/trace.c): mkdir and rmdir  *)
(* in the directory "instances" create and destroy them, open files pin    *)
(* them with the count tr->ref, and the readers of trace_pipe and          *)
(* trace_pipe_raw pin the current tracer with the count tracer->ref, which *)
(* all arrays that use the tracer share.  An open counts in two critical   *)
(* sections of trace_types_lock, and every file but the raw ones is        *)
(* released in two as well.  A new array may get the address of a          *)
(* destroyed one, so Array is the set of addresses.                        *)
(***************************************************************************)
EXTENDS Integers, FiniteSets

CONSTANTS
    Process,      \* processes, each with at most one file of a trace array
    Array,        \* addresses a struct trace_array can have
    GlobalTrace,  \* global_trace, which is never removed
    Tracer,       \* the registered tracers
    Nop,          \* nop_trace
    MaxTracer,    \* tracers with use_max_tr
    Instanceable  \* tracers with allow_instances

ASSUME ProcessAssumption == IsFiniteSet(Process) /\ IsFiniteSet(Array)
ASSUME ArrayAssumption == GlobalTrace \in Array
ASSUME TracerAssumption ==
    /\ Nop \in Tracer \ MaxTracer
    /\ MaxTracer \subseteq Tracer /\ Instanceable \subseteq Tracer

VARIABLES
    ftrace_trace_arrays,  \* the addresses of the arrays that exist
    ref,                  \* per address, tr->ref
    current_trace,        \* per address, tr->current_trace
    tracer_ref,           \* per tracer, tracer->ref
    enabled,              \* per tracer but nop, tracer->enabled
    file                  \* per process, its file

vars == <<ftrace_trace_arrays, ref, current_trace, tracer_ref, enabled, file>>

(* "found": the path is resolved, the inode's i_private is array; "got": the *)
(* array is pinned; "opened": between the two halves of snapshot_raw_open;   *)
(* "released": between the two halves of tracing_release_pipe.  trace is     *)
(* iter->trace, of a pipe or raw file that is open.                          *)
FileKind  == {"plain", "pipe", "raw", "snapshot_raw"}
FileState == [at: {"closed", "found", "got", "opened", "open", "released"},
              kind: FileKind, array: Array, trace: Tracer]
Closed == [at |-> "closed", kind |-> "plain", array |-> GlobalTrace, trace |-> Nop]

Init ==
    /\ ftrace_trace_arrays = {GlobalTrace}
    /\ ref = [a \in Array |-> 0]
    /\ current_trace = [a \in Array |-> Nop]
    /\ tracer_ref = [t \in Tracer |-> 0]
    /\ enabled = [t \in Tracer \ {Nop} |-> 0]
    /\ file = [p \in Process |-> Closed]

Tracing(p) == file[p].kind # "plain"     \* the file reads the ring buffer itself

-----------------------------------------------------------------------------
(* Arrays.                                                                   *)

(* instance_mkdir: the array starts with nop_trace and no reference.         *)
InstanceMkdir(a) ==
    /\ a \notin ftrace_trace_arrays
    /\ ftrace_trace_arrays' = ftrace_trace_arrays \cup {a}
    /\ ref' = [ref EXCEPT ![a] = 0]
    /\ current_trace' = [current_trace EXCEPT ![a] = Nop]
    /\ UNCHANGED <<tracer_ref, enabled, file>>

Disable(t) == [u \in Tracer \ {Nop} |-> IF u = t THEN enabled[u] - 1 ELSE enabled[u]]

(* Mutant: rmdir only looks at the readers of the current tracer.            *)
ArrayBusyTracer(a) == tracer_ref[current_trace[a]] # 0
ArrayBusy(a) == ref[a] # 0 \/ tracer_ref[current_trace[a]] # 0

(* Mutant: rmdir forgets the array's tracer.                                 *)
RmdirDisableNone(a) == enabled
RmdirDisable(a) == Disable(current_trace[a])

(* instance_rmdir, which sets nop before the array is freed.                 *)
InstanceRmdir(a) ==
    /\ a \in ftrace_trace_arrays \ {GlobalTrace} /\ ~ArrayBusy(a)
    /\ ftrace_trace_arrays' = ftrace_trace_arrays \ {a}
    /\ enabled' = RmdirDisable(a)
    /\ current_trace' = [current_trace EXCEPT ![a] = Nop]
    /\ UNCHANGED <<ref, tracer_ref, file>>

(* Mutant: the tracer is changed under its readers.                          *)
TracerBusyNever(a) == FALSE
TracerBusy(a) == tracer_ref[current_trace[a]] # 0

TraceOkForArray(t, a) == a = GlobalTrace \/ t \in Instanceable

(* tracing_set_tracer: the old tracer is disabled first; when no snapshot    *)
(* can be allocated for t or its init fails, the array is left with nop.     *)
SetTracer(a, t) ==
    /\ a \in ftrace_trace_arrays
    /\ t # current_trace[a] /\ TraceOkForArray(t, a) /\ ~TracerBusy(a)
    /\ \/ /\ current_trace' = [current_trace EXCEPT ![a] = t]
          /\ enabled' = [u \in Tracer \ {Nop} |->
                           Disable(current_trace[a])[u] + (IF u = t THEN 1 ELSE 0)]
       \/ /\ current_trace' = [current_trace EXCEPT ![a] = Nop]
          /\ enabled' = Disable(current_trace[a])
    /\ UNCHANGED <<ftrace_trace_arrays, ref, tracer_ref, file>>

-----------------------------------------------------------------------------
(* Files.                                                                    *)

Move(p, at) == [file EXCEPT ![p].at = at]
Close(p) == [file EXCEPT ![p] = Closed]

(* The kernel resolves the path of a file of an array that exists.           *)
LookUp(p, k, a) ==
    /\ file[p].at = "closed" /\ a \in ftrace_trace_arrays
    /\ file' = [file EXCEPT ![p].at = "found", ![p].kind = k, ![p].array = a]
    /\ UNCHANGED <<ftrace_trace_arrays, ref, current_trace, tracer_ref, enabled>>

(* trace_array_get, at the start of each open: the array may be gone by now, *)
(* and its address may be that of another one.                               *)
TraceArrayGet(p) ==
    /\ file[p].at = "found"
    /\ IF file[p].array \in ftrace_trace_arrays
       THEN ref' = [ref EXCEPT ![file[p].array] = @ + 1] /\ file' = Move(p, "got")
       ELSE file' = Close(p) /\ UNCHANGED ref
    /\ UNCHANGED <<ftrace_trace_arrays, current_trace, tracer_ref, enabled>>

Put(p) == [ref EXCEPT ![file[p].array] = @ - 1]

(* Mutant: a failing open keeps its reference.                               *)
FailedPutNone(p) == ref
FailedPut(p) == Put(p)

(* Memory runs out, or tracing is disabled for good.                         *)
OpenFailed(p) ==
    /\ file[p].at = "got"
    /\ ref' = FailedPut(p)
    /\ file' = Close(p)
    /\ UNCHANGED <<ftrace_trace_arrays, current_trace, tracer_ref, enabled>>

(* tracing_open, tracing_snapshot_open, tracing_open_generic_tr,             *)
(* tracing_clock_open, tracing_trace_options_open.                           *)
OpenPlain(p) ==
    /\ file[p].at = "got" /\ ~Tracing(p)
    /\ file' = Move(p, "open")
    /\ UNCHANGED <<ftrace_trace_arrays, ref, current_trace, tracer_ref, enabled>>

(* The second half of tracing_open_pipe and tracing_buffers_open, in a       *)
(* critical section of its own.                                              *)
OpenTracing(p) ==
    /\ file[p].at = "got" /\ Tracing(p)
    /\ \E t \in Tracer :
         /\ t = current_trace[file[p].array]
         /\ tracer_ref' = [tracer_ref EXCEPT ![t] = @ + 1]
         /\ file' = [file EXCEPT ![p].trace = t,
                       ![p].at = IF file[p].kind = "snapshot_raw" THEN "opened" ELSE "open"]
    /\ UNCHANGED <<ftrace_trace_arrays, ref, current_trace, enabled>>

TracerPut(p) == [tracer_ref EXCEPT ![current_trace[file[p].array]] = @ - 1]

(* Mutant: snapshot_raw_open does not look at the tracer.                    *)
RawRefusedNever(p) == FALSE
RawRefused(p) == file[p].trace \in MaxTracer

(* The rest of snapshot_raw_open, which holds no lock when it looks at the   *)
(* tracer and gives everything back if the tracer uses the spare buffer.     *)
OpenSnapshotRaw(p) ==
    /\ file[p].at = "opened"
    /\ IF RawRefused(p)
       THEN tracer_ref' = TracerPut(p) /\ ref' = Put(p) /\ file' = Close(p)
       ELSE file' = Move(p, "open") /\ UNCHANGED <<tracer_ref, ref>>
    /\ UNCHANGED <<ftrace_trace_arrays, current_trace, enabled>>

(* trace_array_put by the releases of the files that only pin the array.     *)
ReleasePlain(p) ==
    /\ file[p].at = "open" /\ ~Tracing(p)
    /\ ref' = Put(p) /\ file' = Close(p)
    /\ UNCHANGED <<ftrace_trace_arrays, current_trace, tracer_ref, enabled>>

(* tracing_release_pipe unpins the current tracer ...                        *)
ReleasePipe(p) ==
    /\ file[p].at = "open" /\ file[p].kind = "pipe"
    /\ tracer_ref' = TracerPut(p)
    /\ file' = [file EXCEPT ![p].at = "released", ![p].trace = Nop]
    /\ UNCHANGED <<ftrace_trace_arrays, ref, current_trace, enabled>>

(* ... and later the array.                                                  *)
ReleasePipePut(p) ==
    /\ file[p].at = "released"
    /\ ref' = Put(p) /\ file' = Close(p)
    /\ UNCHANGED <<ftrace_trace_arrays, current_trace, tracer_ref, enabled>>

(* tracing_buffers_release unpins both in one critical section.              *)
ReleaseRaw(p) ==
    /\ file[p].at = "open" /\ file[p].kind \in {"raw", "snapshot_raw"}
    /\ tracer_ref' = TracerPut(p)
    /\ ref' = Put(p) /\ file' = Close(p)
    /\ UNCHANGED <<ftrace_trace_arrays, current_trace, enabled>>

-----------------------------------------------------------------------------

ArrayOp(a) ==
    \/ InstanceMkdir(a) \/ InstanceRmdir(a)
    \/ \E t \in Tracer : SetTracer(a, t)

FileOp(p) ==
    \/ \E k \in FileKind, a \in Array : LookUp(p, k, a)
    \/ TraceArrayGet(p) \/ OpenFailed(p) \/ OpenPlain(p) \/ OpenTracing(p)
    \/ OpenSnapshotRaw(p) \/ ReleasePlain(p) \/ ReleasePipe(p) \/ ReleasePipePut(p)
    \/ ReleaseRaw(p)

Next == (\E a \in Array : ArrayOp(a)) \/ (\E p \in Process : FileOp(p))

Spec == Init /\ [][Next]_vars

-----------------------------------------------------------------------------
(* Properties.                                                               *)

(* No count of references is ever negative, so the WARN_ON of                *)
(* __trace_array_put never fires.                                            *)
TypeOK ==
    /\ ftrace_trace_arrays \subseteq Array /\ GlobalTrace \in ftrace_trace_arrays
    /\ ref \in [Array -> Nat]
    /\ current_trace \in [Array -> Tracer]
    /\ tracer_ref \in [Tracer -> Nat]
    /\ enabled \in [Tracer \ {Nop} -> Int]
    /\ file \in [Process -> FileState]

(* Files between a trace_array_get of the array and its trace_array_put.     *)
Pinning(p)  == file[p].at \in {"got", "opened", "open", "released"}
Holders(a)  == {p \in Process : Pinning(p) /\ file[p].array = a}
(* Files between the increment of a tracer's count and its decrement.        *)
Reading(p)  == Tracing(p) /\ file[p].at \in {"opened", "open"}
Readers(t)  == {p \in Process : Reading(p) /\ current_trace[file[p].array] = t}

(* The count of an array is the number of its open files, whatever opens     *)
(* fail and however halves of opens and releases interleave: a forgotten     *)
(* reference would keep rmdir from ever succeeding (-EBUSY).                 *)
RefBalanced == \A a \in Array : ref[a] = Cardinality(Holders(a))

(* The count of a tracer is the number of pipe and raw files open on arrays  *)
(* that use it, although a release finds the tracer through current_trace    *)
(* and not through the one the open saw.                                     *)
TracerRefBalanced == \A t \in Tracer : tracer_ref[t] = Cardinality(Readers(t))

(* An array is never freed under an open file, nor is its address given to   *)
(* another array (the reason for -EBUSY in instance_rmdir).                  *)
HolderListed == \A p \in Process : Pinning(p) => file[p].array \in ftrace_trace_arrays

(* A pipe or raw file sees the tracer it was opened with until it is closed  *)
(* ("If trace pipe files are being read, we can't change the tracer").       *)
TraceKept == \A p \in Process : Reading(p) => file[p].trace = current_trace[file[p].array]

(* No latency tracer swaps the buffers of an array whose snapshot_raw file   *)
(* is open: snapshot_raw_open checks the tracer once, without a lock.        *)
SnapshotRawQuiet ==
    \A p \in Process : Reading(p) /\ file[p].kind = "snapshot_raw" /\ file[p].at = "open"
                         => current_trace[file[p].array] \notin MaxTracer

(* tracer->enabled counts the arrays that use the tracer (trace_keep_        *)
(* overwrite and the tracers' own options rely on it), also after a failed   *)
(* set of a tracer and after rmdir of an array that used it.                 *)
Users(t) == {a \in ftrace_trace_arrays : current_trace[a] = t}
EnabledExact == \A t \in Tracer \ {Nop} : enabled[t] = Cardinality(Users(t))
=============================================================================
