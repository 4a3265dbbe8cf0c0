----------------------------- MODULE TraceArray -----------------------------
(***************************************************************************)
(* The two ring buffers of a trace array (linux/ftrace/trace/trace.c): the *)
(* live buffer, into which events go, and the spare buffer that holds a    *)
(* snapshot or the trace of the worst latency.  Taking a snapshot swaps    *)
(* the two pointers.  Reading the file "trace" stops recording, clearing   *)
(* it disables a buffer for a moment, "tracing_on" switches the live       *)
(* buffer on and off, a change of tracer allocates or shrinks the spare    *)
(* buffer, and CPUs swap the buffers at any time with interrupts off and   *)
(* without the mutex trace_types_lock.                                     *)
(***************************************************************************)
EXTENDS Integers, FiniteSets

CONSTANTS
    File,        \* processes that operate the files of the trace array
    Cpu,         \* CPUs that can swap the buffers
    Global,      \* TRUE for global_trace, FALSE for an instance
    MaxTracer,   \* tracers with use_max_tr (the latency tracers)
    OtherTracer, \* other tracers that can be set, nop among them
    Nop,         \* nop_trace
    MaxSize,     \* bound: sizes of a ring buffer; 1 is the smallest there can be
    Nobody       \* no file holds trace_types_lock; no tracer is being set

Tracer == MaxTracer \cup OtherTracer
Buffer == {0, 1}     \* the two ring buffers, whatever role they play
Size   == 1 .. MaxSize

ASSUME ActorAssumption == IsFiniteSet(File) /\ IsFiniteSet(Cpu) /\ Nobody \notin File
ASSUME TracerAssumption == /\ Nop \in OtherTracer /\ MaxTracer \cap OtherTracer = {}
                           /\ Nobody \notin Tracer
ASSUME GlobalAssumption == Global \in BOOLEAN
ASSUME SizeAssumption == MaxSize \in Nat \ {0}

VARIABLES
    live,               \* the ring buffer trace_buffer.buffer points to
    record_disabled,    \* per ring buffer, what disable and enable count
    record_on,          \* per ring buffer, its on/off bit
    size,               \* per ring buffer, its size
    entries,            \* the size trace_buffer.data records, whichever ring is live
    stop_count,
    tracing_disabled,   \* set for good when a resize cannot be rolled back
    buffer_disabled,
    allocated_snapshot,
    current_trace,
    trace_types_lock,
    file,               \* per process, where its operation is
    swap                \* per CPU, the kind of swap past update_max_tr's checks

sizes == <<size, entries>>
rings == <<live, record_disabled, record_on, sizes>>
stops == <<stop_count, tracing_disabled>>
vars  == <<rings, stops, buffer_disabled, allocated_snapshot,
           current_trace, trace_types_lock, file, swap>>

spare == 1 - live      \* max_buffer.buffer

(* at: "closed"; "reading" an open trace file; "live" or "spare" when        *)
(* O_TRUNC has decided which of the two it clears; "clear" inside a reset of *)
(* the buffer buf; "sync" in synchronize_sched until the CPUs in wait are    *)
(* done; "shrink", "shrunk" and "reset" inside free_snapshot, the last with  *)
(* the buffer buf disabled; "set" before tracer_init and "init" inside its   *)
(* reset of the buffer buf; "swap" past the checks of update_max_tr.  next   *)
(* is the tracer being set.                                                  *)
FileState == [at: {"closed", "reading", "live", "spare", "clear", "sync", "shrink",
                   "shrunk", "reset", "set", "init", "swap"},
              buf: Buffer, wait: SUBSET Cpu, next: Tracer \cup {Nobody}]
Closed == [at |-> "closed", buf |-> 0, wait |-> {}, next |-> Nobody]

Init ==
    /\ live = 0
    /\ record_disabled = [b \in Buffer |-> 0]
    /\ record_on = [b \in Buffer |-> TRUE]
    /\ entries \in Size
    /\ size = [b \in Buffer |-> IF b = live THEN entries ELSE 1]
    /\ stop_count = 0 /\ tracing_disabled = FALSE /\ buffer_disabled = FALSE
    /\ allocated_snapshot = FALSE
    /\ current_trace = Nop
    /\ trace_types_lock = Nobody
    /\ file = [f \in File |-> Closed]
    /\ swap = [c \in Cpu |-> "none"]

Records(b) == record_disabled[b] = 0 /\ record_on[b]

-----------------------------------------------------------------------------
(* Stopping and starting.                                                    *)

(* Mutant: only the live buffer is disabled, for the global array too.       *)
StoppedBuffersLive == {live}
(* tracing_stop disables both buffers ("If global, we need to also stop the  *)
(* max tracer"), tracing_stop_tr of an instance the live one only.           *)
StoppedBuffers == IF Global THEN Buffer ELSE {live}

Add(bs, n) == [b \in Buffer |-> IF b \in bs THEN record_disabled[b] + n
                                ELSE record_disabled[b]]

(* tracing_open for reading: __tracing_open stops the array.                 *)
OpenTrace(f) ==
    /\ file[f].at = "closed" /\ trace_types_lock = Nobody /\ ~tracing_disabled
    /\ file' = [file EXCEPT ![f].at = "reading"]
    /\ stop_count' = stop_count + 1
    /\ record_disabled' = IF stop_count = 0 THEN Add(StoppedBuffers, 1) ELSE record_disabled
    /\ UNCHANGED <<live, record_on, sizes, tracing_disabled, buffer_disabled,
                   allocated_snapshot, current_trace, trace_types_lock, swap>>

(* Mutant: every reader that leaves enables the buffers.                     *)
LastStopAny == TRUE
LastStop == stop_count = 1

(* tracing_release: tracing_start_tr, which gives nothing back once tracing  *)
(* is disabled.                                                              *)
ReleaseTrace(f) ==
    /\ file[f].at = "reading" /\ trace_types_lock = Nobody
    /\ file' = [file EXCEPT ![f].at = "closed"]
    /\ IF tracing_disabled
       THEN UNCHANGED <<stop_count, record_disabled>>
       ELSE /\ stop_count' = stop_count - 1
            /\ record_disabled' = IF LastStop THEN Add(StoppedBuffers, -1)
                                  ELSE record_disabled
    /\ UNCHANGED <<live, record_on, sizes, tracing_disabled, buffer_disabled,
                   allocated_snapshot, current_trace, trace_types_lock, swap>>

(* tracing_open with O_TRUNC takes no lock: by the tracer of the moment it   *)
(* decides whether to clear the live or the spare buffer ...                 *)
ClearChoose(f) ==
    /\ file[f].at = "closed"
    /\ file' = [file EXCEPT ![f].at = IF current_trace \in MaxTracer THEN "spare" ELSE "live"]
    /\ UNCHANGED <<rings, stops, buffer_disabled, allocated_snapshot, current_trace,
                   trace_types_lock, swap>>

(* ... and tracing_reset_online_cpus keeps the ring that it finds there      *)
(* disabled until its commits have finished.                                 *)
ClearBegin(f) ==
    /\ \E b \in Buffer :
         /\ \/ file[f].at = "live" /\ b = live
            \/ file[f].at = "spare" /\ b = spare
         /\ record_disabled' = Add({b}, 1)
         /\ file' = [file EXCEPT ![f].at = "clear", ![f].buf = b]
    /\ UNCHANGED <<live, record_on, sizes, stops, buffer_disabled,
                   allocated_snapshot, current_trace, trace_types_lock, swap>>

(* Mutant: the reset enables the live buffer, not the one it disabled.       *)
ClearedLive(f) == live
Cleared(f) == file[f].buf

ClearEnd(f) ==
    /\ file[f].at = "clear"
    /\ record_disabled' = Add({Cleared(f)}, -1)
    /\ file' = [file EXCEPT ![f] = Closed]
    /\ trace_types_lock' = IF trace_types_lock = f THEN Nobody ELSE trace_types_lock
    /\ UNCHANGED <<live, record_on, sizes, stops, buffer_disabled,
                   allocated_snapshot, current_trace, swap>>

(* tracer_tracing_on and tracer_tracing_off, from the file tracing_on or     *)
(* from tracing_on() and tracing_off() in the kernel, which take no lock and *)
(* are for global_trace.                                                     *)
TracingOn(on) ==
    /\ ~Global => trace_types_lock = Nobody
    /\ record_on' = [record_on EXCEPT ![live] = on]
    /\ buffer_disabled' = ~on
    /\ UNCHANGED <<live, record_disabled, sizes, stops, allocated_snapshot,
                   current_trace, trace_types_lock, file, swap>>

-----------------------------------------------------------------------------
(* Swaps by CPUs: update_max_tr.                                             *)

(* The swap passes update_max_tr's checks, which read stop_count and         *)
(* allocated_snapshot before max_lock is taken.                              *)
MaySwap == stop_count = 0 /\ allocated_snapshot

(* A latency tracer saw a new maximum.                                       *)
TracerSwap(c) ==
    /\ swap[c] = "none"
    /\ current_trace \in MaxTracer /\ MaySwap
    /\ swap' = [swap EXCEPT ![c] = "tracer"]
    /\ UNCHANGED <<rings, stops, buffer_disabled, allocated_snapshot,
                   current_trace, trace_types_lock, file>>

(* tracing_snapshot_instance, called by an event trigger or by kernel code.  *)
CallSnapshot(c) ==
    /\ swap[c] = "none"
    /\ current_trace \notin MaxTracer /\ MaySwap
    /\ swap' = [swap EXCEPT ![c] = "caller"]
    /\ UNCHANGED <<rings, stops, buffer_disabled, allocated_snapshot,
                   current_trace, trace_types_lock, file>>

(* It stops the tracing of global_trace when there is no snapshot buffer.    *)
CallSnapshotUnallocated ==
    /\ Global /\ ~allocated_snapshot
    /\ TracingOn(FALSE)

(* The pointers are exchanged under max_lock.                                *)
Swap(c) ==
    /\ swap[c] # "none"
    /\ live' = spare
    /\ swap' = [swap EXCEPT ![c] = "none"]
    /\ file' = [f \in File |-> [file[f] EXCEPT !.wait = @ \ {c}]]
    /\ UNCHANGED <<record_disabled, record_on, sizes, stops, buffer_disabled,
                   allocated_snapshot, current_trace, trace_types_lock>>

(* alloc_snapshot gives the spare buffer the recorded size of the live one.  *)
Allocated == [size EXCEPT ![spare] = entries]

(* tracing_alloc_snapshot, which takes no lock.                              *)
AllocSnapshot ==
    /\ ~allocated_snapshot
    /\ size' = Allocated
    /\ allocated_snapshot' = TRUE
    /\ UNCHANGED <<live, record_disabled, record_on, entries, stops, buffer_disabled,
                   current_trace, trace_types_lock, file, swap>>

-----------------------------------------------------------------------------
(* Operations under trace_types_lock: the file snapshot.                     *)

Locked(f) == file[f].at = "closed" /\ trace_types_lock = Nobody

(* Mutant: a snapshot is freed while a latency tracer uses it.               *)
SnapshotBusyNever == FALSE
SnapshotBusy == current_trace \in MaxTracer

(* "echo 0 > snapshot" frees the snapshot buffer; free_snapshot follows.     *)
WriteSnapshotFree(f) ==
    /\ Locked(f) /\ ~SnapshotBusy /\ allocated_snapshot
    /\ trace_types_lock' = f
    /\ file' = [file EXCEPT ![f].at = "shrink"]
    /\ UNCHANGED <<rings, stops, buffer_disabled, allocated_snapshot,
                   current_trace, swap>>

(* "echo 1 > snapshot" allocates it where needed and swaps.                  *)
WriteSnapshotTake(f) ==
    /\ Locked(f) /\ ~SnapshotBusy
    /\ size' = IF allocated_snapshot THEN size ELSE Allocated
    /\ allocated_snapshot' = TRUE
    /\ IF stop_count = 0
       THEN trace_types_lock' = f /\ file' = [file EXCEPT ![f].at = "swap"]
       ELSE UNCHANGED <<trace_types_lock, file>>
    /\ UNCHANGED <<live, record_disabled, record_on, entries, stops, buffer_disabled,
                   current_trace, swap>>

WriteSnapshotSwap(f) ==
    /\ file[f].at = "swap"
    /\ live' = spare
    /\ trace_types_lock' = Nobody /\ file' = [file EXCEPT ![f] = Closed]
    /\ UNCHANGED <<record_disabled, record_on, sizes, stops, buffer_disabled,
                   allocated_snapshot, current_trace, swap>>

(* Any other number clears the snapshot buffer, if there is one.             *)
WriteSnapshotClear(f) ==
    /\ Locked(f) /\ ~SnapshotBusy /\ allocated_snapshot
    /\ trace_types_lock' = f
    /\ record_disabled' = Add({spare}, 1)
    /\ file' = [file EXCEPT ![f].at = "clear", ![f].buf = spare]
    /\ UNCHANGED <<live, record_on, sizes, stops, buffer_disabled,
                   allocated_snapshot, current_trace, swap>>

(* The tracer t is about to be initialised.                                  *)
BeginSetting(f, t) == file' = [file EXCEPT ![f] = [Closed EXCEPT !.at = "set", !.next = t]]

(* free_snapshot: ring_buffer_resize to one entry ...                        *)
Shrink(f) ==
    /\ file[f].at = "shrink"
    /\ size' = [size EXCEPT ![spare] = 1]
    /\ file' = [file EXCEPT ![f].at = "shrunk"]
    /\ UNCHANGED <<live, record_disabled, record_on, entries, stops, buffer_disabled,
                   allocated_snapshot, current_trace, trace_types_lock, swap>>

(* ... then a reset of the buffer that is the spare one by now ...           *)
ResetSpare(f) ==
    /\ file[f].at = "shrunk"
    /\ record_disabled' = Add({spare}, 1)
    /\ file' = [file EXCEPT ![f].at = "reset", ![f].buf = spare]
    /\ UNCHANGED <<live, record_on, sizes, stops, buffer_disabled,
                   allocated_snapshot, current_trace, trace_types_lock, swap>>

(* ... at last the snapshot is marked free; a change of tracer that asked    *)
(* for it goes on.                                                           *)
Freed(f) ==
    /\ file[f].at = "reset"
    /\ record_disabled' = Add({Cleared(f)}, -1)
    /\ allocated_snapshot' = FALSE
    /\ IF file[f].next = Nobody
       THEN trace_types_lock' = Nobody /\ file' = [file EXCEPT ![f] = Closed]
       ELSE BeginSetting(f, file[f].next) /\ UNCHANGED trace_types_lock
    /\ UNCHANGED <<live, record_on, sizes, stops, buffer_disabled, current_trace, swap>>

-----------------------------------------------------------------------------
(* tracing_set_tracer.                                                       *)

(* The old tracer is replaced by nop before anything else happens.           *)
SetTracerFreeing(f, t) ==
    /\ Locked(f) /\ t # current_trace
    /\ allocated_snapshot /\ t \notin MaxTracer
    /\ current_trace' = Nop
    /\ trace_types_lock' = f
    /\ file' = [file EXCEPT ![f].at = "sync", ![f].next = t,
                            ![f].wait = {c \in Cpu : swap[c] # "none"}]
    /\ UNCHANGED <<rings, stops, buffer_disabled, allocated_snapshot, swap>>

(* Mutant: free_snapshot does not wait for the swaps in flight.              *)
QuietAlways(f) == TRUE
(* Mutant: it waits until no CPU swaps at all.                               *)
QuietForAll(f) == \A c \in Cpu : swap[c] = "none"
Quiet(f) == file[f].wait = {}

(* synchronize_sched returns: every swap that was in flight is over.         *)
Synchronized(f) ==
    /\ file[f].at = "sync" /\ Quiet(f)
    /\ file' = [file EXCEPT ![f].at = "shrink"]
    /\ UNCHANGED <<rings, stops, buffer_disabled, allocated_snapshot,
                   current_trace, trace_types_lock, swap>>

(* Without a buffer to free: one is allocated for a latency tracer; if that  *)
(* fails, nop stays.                                                         *)
SetTracer(f, t) ==
    /\ Locked(f) /\ t # current_trace
    /\ allocated_snapshot => t \in MaxTracer
    /\ current_trace' = Nop
    /\ \/ /\ IF t \in MaxTracer /\ ~allocated_snapshot
             THEN size' = Allocated /\ allocated_snapshot' = TRUE
             ELSE UNCHANGED <<size, allocated_snapshot>>
          /\ trace_types_lock' = f /\ BeginSetting(f, t)
       \/ /\ t \in MaxTracer /\ ~allocated_snapshot
          /\ UNCHANGED <<size, allocated_snapshot, trace_types_lock, file>>
    /\ UNCHANGED <<live, record_disabled, record_on, entries, stops, buffer_disabled, swap>>

(* A tracer may have no init function.                                       *)
SetUninitialised(f) ==
    /\ file[f].at = "set"
    /\ current_trace' = file[f].next
    /\ trace_types_lock' = Nobody /\ file' = [file EXCEPT ![f] = Closed]
    /\ UNCHANGED <<rings, stops, buffer_disabled, allocated_snapshot, swap>>

(* tracer_init resets the live buffer before it calls that function.         *)
InitTracer(f) ==
    /\ file[f].at = "set"
    /\ record_disabled' = Add({live}, 1)
    /\ file' = [file EXCEPT ![f].at = "init", ![f].buf = live]
    /\ UNCHANGED <<live, record_on, sizes, stops, buffer_disabled, allocated_snapshot,
                   current_trace, trace_types_lock, swap>>

(* The reset is over and init has returned; if it failed nop stays.          *)
TracerInitialised(f) ==
    /\ file[f].at = "init"
    /\ record_disabled' = Add({Cleared(f)}, -1)
    /\ current_trace' \in {file[f].next, Nop}
    /\ trace_types_lock' = Nobody /\ file' = [file EXCEPT ![f] = Closed]
    /\ UNCHANGED <<live, record_on, sizes, stops, buffer_disabled, allocated_snapshot, swap>>

-----------------------------------------------------------------------------
(* Tracing is disabled for good by a resize of global_trace under a latency  *)
(* tracer that could not be rolled back and leaves the live buffer with the  *)
(* new size.  TraceSettings has its steps; to an instance it is a change     *)
(* from outside.                                                             *)
DisableTracing ==
    /\ trace_types_lock = Nobody /\ ~tracing_disabled
    /\ tracing_disabled' = TRUE
    /\ IF Global THEN /\ current_trace \in MaxTracer
                      /\ \E n \in Size : size' = [size EXCEPT ![live] = n]
       ELSE UNCHANGED size
    /\ UNCHANGED <<live, record_disabled, record_on, entries, stop_count, buffer_disabled,
                   allocated_snapshot, current_trace, trace_types_lock, file, swap>>

-----------------------------------------------------------------------------

FileOp(f) ==
    \/ OpenTrace(f) \/ ReleaseTrace(f) \/ ClearChoose(f) \/ ClearBegin(f) \/ ClearEnd(f)
    \/ WriteSnapshotFree(f) \/ WriteSnapshotTake(f) \/ WriteSnapshotSwap(f)
    \/ WriteSnapshotClear(f) \/ Shrink(f) \/ ResetSpare(f) \/ Freed(f) \/ Synchronized(f)
    \/ \E t \in Tracer : SetTracerFreeing(f, t) \/ SetTracer(f, t)
    \/ SetUninitialised(f) \/ InitTracer(f) \/ TracerInitialised(f)

CpuOp(c) == TracerSwap(c) \/ CallSnapshot(c) \/ Swap(c)

Next ==
    \/ \E f \in File : FileOp(f)
    \/ \E c \in Cpu : CpuOp(c)
    \/ \E on \in BOOLEAN : TracingOn(on)
    \/ CallSnapshotUnallocated
    \/ AllocSnapshot
    \/ DisableTracing

Spec == Init /\ [][Next]_vars

(* An operation that holds trace_types_lock runs on, and a CPU that is past  *)
(* update_max_tr's checks with interrupts off finishes its swap.             *)
Fairness ==
    /\ \A f \in File : WF_vars(ClearEnd(f) \/ WriteSnapshotSwap(f) \/ Shrink(f)
                               \/ ResetSpare(f) \/ Freed(f) \/ Synchronized(f)
                               \/ SetUninitialised(f) \/ InitTracer(f)
                               \/ TracerInitialised(f))
    /\ \A c \in Cpu : WF_vars(Swap(c))

FairSpec == Spec /\ Fairness

-----------------------------------------------------------------------------
(* Properties.                                                               *)

TypeOK ==
    /\ live \in Buffer
    /\ record_disabled \in [Buffer -> IF Global THEN Nat ELSE Int]
    /\ record_on \in [Buffer -> BOOLEAN]
    /\ size \in [Buffer -> Size] /\ entries \in Size
    /\ stop_count \in Nat
    /\ tracing_disabled \in BOOLEAN
    /\ buffer_disabled \in BOOLEAN /\ allocated_snapshot \in BOOLEAN
    /\ current_trace \in Tracer
    /\ trace_types_lock \in File \cup {Nobody}
    /\ file \in [File -> FileState]
    /\ swap \in [Cpu -> {"none", "tracer", "caller"}]

Readers    == {f \in File : file[f].at = "reading"}
Resets(b)  == {f \in File : file[f].at \in {"clear", "reset", "init"} /\ file[f].buf = b}
StoppedOne == IF stop_count > 0 THEN 1 ELSE 0

(* Stopping, starting, clearing, changing the tracer and swapping stay       *)
(* balanced on each of the two buffers of the global array: a buffer is      *)
(* disabled once while the array is stopped and once per reset that found    *)
(* it, so that it records again when these are gone (tracing_stop,           *)
(* tracing_start, tracing_reset_online_cpus, update_max_tr).  The array is   *)
(* stopped while it has readers, and a reader that leaves after tracing was  *)
(* disabled leaves it stopped (tracing_start returns at once).               *)
DisableBalanced ==
    /\ IF tracing_disabled THEN stop_count >= Cardinality(Readers)
       ELSE stop_count = Cardinality(Readers)
    /\ \A b \in Buffer : record_disabled[b] = StoppedOne + Cardinality(Resets(b))

(* While a file "trace" is open for reading nothing is recorded ("stop the   *)
(* trace while dumping", __tracing_open), not even by a swap that passed its *)
(* checks before the array was stopped.                                      *)
DumpStopped == Readers # {} => ~Records(live)

(* A CPU that passed update_max_tr's checks for a latency tracer swaps.      *)
TracerSwaps == \E c \in Cpu : swap[c] = "tracer"

(* When a change of tracer shrinks the spare buffer, no latency tracer is    *)
(* past the checks of update_max_tr (the comment on synchronize_sched in     *)
(* tracing_set_tracer), so none swaps a shrunk buffer in.                    *)
ShrinkQuiet ==
    [][\A f \in File : /\ file[f].at = "shrink" /\ file[f].next # Nobody
                       /\ file'[f].at # "shrink"
         => ~TracerSwaps]_vars

(* The same of every shrink.  It does not hold: after a change between two   *)
(* latency tracers that failed, which waits for nobody, "echo 0 > snapshot"  *)
(* shrinks the buffer before the old tracer's swap is over.                  *)
ShrinkQuietAlways ==
    [][\A f \in File : file[f].at = "shrink" /\ file'[f].at # "shrink" => ~TracerSwaps]_vars

(* Every operation on the files gives trace_types_lock back, though CPUs go  *)
(* on taking snapshots.                                                      *)
LockReleased == \A f \in File : trace_types_lock = f ~> trace_types_lock # f

(* After tracing_off() or "echo 0 > tracing_on" nothing is recorded until    *)
(* tracing is switched on ("This function stops the tracing buffers from     *)
(* recording data").  It does not hold: a later swap makes the buffer live   *)
(* that was not switched off.                                                *)
TracingOffHolds == buffer_disabled => ~Records(live)
=============================================================================
