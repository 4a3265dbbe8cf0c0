--------------------------- MODULE TraceSettings ---------------------------
(***************************************************************************)
(* The settings that the two ring buffers of global_trace share: their     *)
(* size (buffer_size_kb, free_buffer and the first expansion), the         *)
(* overwrite mode (options/overwrite) and the clock (trace_clock).  Each   *)
(* is written to the live buffer and then to the spare one, named by       *)
(* pointers that a swap may exchange in between.  The change of a size may *)
(* fail half-way and is then rolled back.                                  *)
(*                                                                         *)
(* The module extends TraceArray: its files, CPUs, snapshots and tracers   *)
(* run on beside the settings.  Only tracing_on is left out, on which no   *)
(* setting depends, and DisableTracing, which is ResizeBack here.          *)
(***************************************************************************)
EXTENDS TraceArray

CONSTANTS
    Default,     \* trace_buf_size, to which the buffers are expanded
    Clock,       \* trace_clocks
    FirstClock   \* the clock at boot

(* Global is TRUE here: the theorems take it as a hypothesis.                *)
ASSUME SettingAssumption == Default \in Size /\ FirstClock \in Clock

VARIABLES
    ring_buffer_expanded,
    overwrite,        \* TRACE_ITER_OVERWRITE in trace_flags
    ring_overwrite,   \* per ring buffer
    clock_id,
    ring_clock,       \* per ring buffer
    op,               \* the change that the holder of trace_types_lock makes
    apart             \* history: the settings that a swap has separated

settings == <<overwrite, ring_overwrite, clock_id, ring_clock>>
svars == <<vars, ring_buffer_expanded, settings, op, apart>>

(* at: "resize" when the live buffer has its new size and "back" when the    *)
(* spare one could not get it; "overwrite" when the live buffer has its new  *)
(* mode; "clock" when the live buffer has its new clock, "cleared" after its *)
(* reset, "clock2" and "clear2" the same of the spare one; "wait" and        *)
(* "wait2" inside the reset of the buffer buf.  moved: history, whether a    *)
(* swap came since the change began.                                         *)
OpState == [at: {"idle", "resize", "back", "overwrite", "clock", "wait",
                 "cleared", "clock2", "wait2"},
            size: Size, buf: Buffer, moved: BOOLEAN]
Idle == [at |-> "idle", size |-> 1, buf |-> 0, moved |-> FALSE]

SettingsInit ==
    /\ Init /\ entries = 1
    /\ ring_buffer_expanded = FALSE
    /\ overwrite = TRUE /\ ring_overwrite = [b \in Buffer |-> TRUE]
    /\ clock_id = FirstClock /\ ring_clock = [b \in Buffer |-> FirstClock]
    /\ op = Idle /\ apart = {}

Begin(f, at) ==
    /\ op' = [Idle EXCEPT !.at = at]
    /\ trace_types_lock' = f
    /\ UNCHANGED apart

(* The change of a setting is complete, in two halves of which a swap may    *)
(* have exchanged the buffers.                                               *)
Complete(setting) ==
    /\ op' = Idle
    /\ trace_types_lock' = Nobody
    /\ apart' = IF op.moved THEN apart \cup {setting} ELSE apart \ {setting}

-----------------------------------------------------------------------------
(* Sizes: __tracing_resize_ring_buffer.                                      *)

rest == <<live, record_on, stop_count, buffer_disabled, allocated_snapshot,
          current_trace, file, swap>>

(* A write to buffer_size_kb or the release of free_buffer (to the smallest  *)
(* size, after tracing_on was cleared where stop-on-free says so): the live  *)
(* buffer comes first.                                                       *)
ResizeLive(f, n) ==
    /\ Locked(f)
    /\ ring_buffer_expanded' = TRUE
    /\ \/ UNCHANGED <<size, op, apart, trace_types_lock>>
       \/ /\ size' = [size EXCEPT ![live] = n]
          /\ op' = [Idle EXCEPT !.at = "resize", !.size = n]
          /\ trace_types_lock' = f
          /\ UNCHANGED apart
    /\ UNCHANGED <<rest, record_disabled, entries, tracing_disabled, settings>>

(* tracing_update_buffers, which opens a write to the file snapshot or the   *)
(* first use of an event, and tracing_set_tracer expand the buffers once,    *)
(* whether or not that succeeds.                                             *)
Expand(f) == ~ring_buffer_expanded /\ ResizeLive(f, Default)

(* Without a latency tracer the spare buffer is left alone.  A snapshot that *)
(* is allocated has the old size from now on.                                *)
RecordSize ==
    /\ op.at = "resize" /\ current_trace \notin MaxTracer
    /\ entries' = op.size
    /\ op' = Idle /\ trace_types_lock' = Nobody
    /\ apart' = IF allocated_snapshot THEN apart \cup {"size"} ELSE apart
    /\ UNCHANGED <<rest, record_disabled, size, ring_buffer_expanded,
                   tracing_disabled, settings>>

(* A latency tracer's spare buffer gets the same size, or cannot get it.     *)
ResizeSpare ==
    /\ op.at = "resize" /\ current_trace \in MaxTracer
    /\ \/ /\ size' = [size EXCEPT ![spare] = op.size]
          /\ entries' = op.size
          /\ Complete("size")
       \/ /\ op' = [op EXCEPT !.at = "back"]
          /\ UNCHANGED <<sizes, apart, trace_types_lock>>
    /\ UNCHANGED <<rest, record_disabled, ring_buffer_expanded, tracing_disabled, settings>>

(* Mutant: the size is recorded before it is known to hold for both.         *)
BackToNew == op.size
BackTo == entries

(* The live buffer is given its recorded size back; if that fails too,       *)
(* tracing is disabled for good.                                             *)
ResizeBack ==
    /\ op.at = "back"
    /\ \/ size' = [size EXCEPT ![live] = BackTo] /\ UNCHANGED tracing_disabled
       \/ tracing_disabled' = TRUE /\ UNCHANGED size
    /\ op' = Idle /\ trace_types_lock' = Nobody
    /\ apart' = IF op.moved THEN apart \cup {"size"} ELSE apart
    /\ UNCHANGED <<rest, record_disabled, entries, ring_buffer_expanded, settings>>

-----------------------------------------------------------------------------
(* The overwrite mode: set_tracer_flag.                                      *)

other == <<rings, stops, buffer_disabled, allocated_snapshot, current_trace,
           file, swap, ring_buffer_expanded>>

(* trace_keep_overwrite: a latency tracer needs the overwrite mode.          *)
Vetoed(on) == current_trace \in MaxTracer /\ ~on

SetOverwriteLive(f, on) ==
    /\ Locked(f)
    /\ overwrite # on /\ ~Vetoed(on)
    /\ overwrite' = on
    /\ ring_overwrite' = [ring_overwrite EXCEPT ![live] = on]
    /\ Begin(f, "overwrite")
    /\ UNCHANGED <<other, clock_id, ring_clock>>

(* Mutant: the second half goes to the live buffer as well.                  *)
SecondLive == live
Second == spare

SetOverwriteSpare ==
    /\ op.at = "overwrite"
    /\ ring_overwrite' = [ring_overwrite EXCEPT ![Second] = overwrite]
    /\ Complete("overwrite")
    /\ UNCHANGED <<other, overwrite, clock_id, ring_clock>>

-----------------------------------------------------------------------------
(* The clock: tracing_set_clock, with a reset of each buffer, which sleeps.  *)

SetClockLive(f, c) ==
    /\ Locked(f)
    /\ clock_id' = c
    /\ ring_clock' = [ring_clock EXCEPT ![live] = c]
    /\ Begin(f, "clock")
    /\ UNCHANGED <<other, overwrite, ring_overwrite>>

SetClockSpare ==
    /\ op.at = "cleared"
    /\ ring_clock' = [ring_clock EXCEPT ![Second] = clock_id]
    /\ op' = [op EXCEPT !.at = "clock2"]
    /\ UNCHANGED <<other, trace_types_lock, apart, overwrite, ring_overwrite, clock_id>>

quiet == <<rest, sizes, ring_buffer_expanded, tracing_disabled, settings>>

(* tracing_reset_online_cpus: the live buffer, then the spare one.           *)
ResetBegin ==
    /\ \E b \in Buffer :
         /\ \/ op.at = "clock" /\ b = live
            \/ op.at = "clock2" /\ b = spare
         /\ record_disabled' = Add({b}, 1)
         /\ op' = [op EXCEPT !.at = IF @ = "clock" THEN "wait" ELSE "wait2", !.buf = b]
    /\ UNCHANGED <<quiet, trace_types_lock, apart>>

ResetEnd ==
    /\ op.at \in {"wait", "wait2"}
    /\ record_disabled' = Add({op.buf}, -1)
    /\ \/ /\ op.at = "wait"
          /\ op' = [op EXCEPT !.at = "cleared", !.buf = 0]
          /\ UNCHANGED <<trace_types_lock, apart>>
       \/ op.at = "wait2" /\ Complete("clock")
    /\ UNCHANGED quiet

-----------------------------------------------------------------------------

(* Until the buffers are expanded, a write to snapshot or current_tracer     *)
(* expands them first.  When tracing is disabled they are written through    *)
(* descriptors opened earlier.                                               *)
FileStep(f) ==
    /\ trace_types_lock = f => op.at = "idle"
    /\ IF ring_buffer_expanded THEN FileOp(f)
       ELSE \/ OpenTrace(f) \/ ReleaseTrace(f)
            \/ ClearChoose(f) \/ ClearBegin(f) \/ ClearEnd(f)

ArrayStep ==
    /\ \/ \E f \in File : FileStep(f)
       \/ \E c \in Cpu : CpuOp(c)
       \/ AllocSnapshot
    /\ op' = [op EXCEPT !.moved = @ \/ (op.at # "idle" /\ live' # live)]
    /\ apart' = IF live' # live /\ size[live] # size[spare] THEN apart \cup {"size"}
                ELSE apart
    /\ UNCHANGED <<ring_buffer_expanded, settings>>

SettingStep ==
    \/ \E f \in File :
         \/ \E n \in Size : ResizeLive(f, n)
         \/ Expand(f)
         \/ \E on \in BOOLEAN : SetOverwriteLive(f, on)
         \/ \E c \in Clock : SetClockLive(f, c)
    \/ RecordSize \/ ResizeSpare \/ ResizeBack
    \/ SetOverwriteSpare
    \/ SetClockSpare \/ ResetBegin \/ ResetEnd

SettingsNext == ArrayStep \/ SettingStep

SettingsSpec == SettingsInit /\ [][SettingsNext]_svars

-----------------------------------------------------------------------------
(* Properties.                                                               *)

SettingsTypeOK ==
    /\ TypeOK
    /\ ring_buffer_expanded \in BOOLEAN
    /\ overwrite \in BOOLEAN /\ ring_overwrite \in [Buffer -> BOOLEAN]
    /\ clock_id \in Clock /\ ring_clock \in [Buffer -> Clock]
    /\ op \in OpState
    /\ apart \subseteq {"size", "overwrite", "clock"}

Resizing == op.at \in {"resize", "back"}

(* A latency tracer works on two buffers of the recorded size, after failed  *)
(* resizes too, or tracing is disabled ("AARGH! We are left with different   *)
(* size max buffer", __tracing_resize_ring_buffer), except for the two ways  *)
(* that apart notes: the live buffer was resized for another tracer while a  *)
(* snapshot was allocated, or buffers of two sizes were swapped.             *)
SameSize ==
    current_trace \in MaxTracer /\ ~Resizing /\ ~tracing_disabled /\ "size" \notin apart
    => \A b \in Buffer : size[b] = entries

(* A swap does not change the overwrite mode or the clock of the trace: both *)
(* buffers have those that the flag and clock_id tell, unless a swap came    *)
(* between the two halves of their change (set_tracer_flag,                  *)
(* tracing_set_clock).                                                       *)
SameSettings ==
    /\ op.at # "overwrite" /\ "overwrite" \notin apart
       => \A b \in Buffer : ring_overwrite[b] = overwrite
    /\ op.at \in {"idle", "resize", "back", "overwrite"} /\ "clock" \notin apart
       => \A b \in Buffer : ring_clock[b] = clock_id

(* With a latency tracer the buffers have one size or tracing is disabled.   *)
(* It does not hold, in the two ways that SameSize leaves out.               *)
SameSizeAlways ==
    current_trace \in MaxTracer /\ ~Resizing /\ ~tracing_disabled
    => size[live] = size[spare]

(* New events are stamped by the clock that trace_clock shows.  It does not  *)
(* hold after a swap between the two halves of tracing_set_clock.            *)
LiveClock == op.at = "idle" => ring_clock[live] = clock_id
=============================================================================
