-------------------------- MODULE TraceArrayProofs --------------------------
(***************************************************************************)
(* Proofs about TraceArray for any number of files and CPUs and any        *)
(* tracers: stops, starts and resets balance on both buffers of the global *)
(* array, nothing is recorded while the trace is read, and a change of     *)
(* tracer shrinks the spare buffer only when no latency tracer swaps.      *)
(*                                                                         *)
(* The second part is about TraceSettings, for which the lemmas of the     *)
(* first are used again: with a latency tracer both buffers have the       *)
(* recorded size, and both have the overwrite mode and the clock that are  *)
(* shown, unless a swap fell between the two halves of a change.           *)
(***************************************************************************)
EXTENDS TraceSettings, FiniteSetTheorems, TLAPS

(* The types without the signs of the counts, which follow from the balance. *)
BaseType ==
    /\ live \in Buffer
    /\ record_disabled \in [Buffer -> Int]
    /\ record_on \in [Buffer -> BOOLEAN]
    /\ size \in [Buffer -> Size] /\ entries \in Size
    /\ stop_count \in Nat /\ tracing_disabled \in BOOLEAN
    /\ buffer_disabled \in BOOLEAN /\ allocated_snapshot \in BOOLEAN
    /\ current_trace \in Tracer
    /\ trace_types_lock \in File \cup {Nobody}
    /\ file \in [File -> FileState]
    /\ swap \in [Cpu -> {"none", "tracer", "caller"}]

(* The readers are counted until tracing is disabled, and what has disabled  *)
(* a buffer is counted always.                                               *)
ReadersCounted == IF tracing_disabled THEN stop_count >= Cardinality(Readers)
                  ELSE stop_count = Cardinality(Readers)
Slack(b) == record_disabled[b] - StoppedOne - Cardinality(Resets(b))
Balanced == Global => \A b \in Buffer : Slack(b) = 0

(* An operation that changes the tracer, that is inside free_snapshot or     *)
(* before its swap holds the mutex.                                          *)
HoldsLock == \A f \in File :
    file[f].at \in {"sync", "shrink", "shrunk", "reset", "set", "init", "swap"}
    => trace_types_lock = f

(* From the moment its old tracer became nop until the new one is set,       *)
(* tracing_set_tracer keeps latency tracers from starting a swap, and before *)
(* it frees the snapshot it waits for those that started before.             *)
Setting(f) == file[f].next # Nobody
SettingHeld == \A f \in File :
    /\ file[f].at \in {"set", "init"} => Setting(f)
    /\ Setting(f) =>
         /\ file[f].at \in {"sync", "shrink", "shrunk", "reset", "set", "init"}
         /\ current_trace \notin MaxTracer
         /\ file[f].at \notin {"set", "init"} =>
              \A c \in Cpu : swap[c] = "tracer" => file[f].at = "sync" /\ c \in file[f].wait

IndInv == BaseType /\ ReadersCounted /\ Balanced /\ HoldsLock /\ SettingHeld

-----------------------------------------------------------------------------
(* Counting the readers and the resets.                                      *)

LEMMA CountsFinite ==
    ASSUME NEW b
    PROVE  /\ IsFiniteSet(Readers) /\ Cardinality(Readers) \in Nat
           /\ IsFiniteSet(Resets(b)) /\ Cardinality(Resets(b)) \in Nat
  <1>1. Readers \subseteq File /\ Resets(b) \subseteq File
    BY DEF Readers, Resets
  <1>2. IsFiniteSet(Readers) /\ IsFiniteSet(Resets(b))
    BY <1>1, ActorAssumption, FS_Subset
  <1>3. QED
    BY <1>2, FS_CardinalityType

(* A set that changes at most at f.                                          *)
LEMMA OneMember ==
    ASSUME NEW S, NEW T, NEW f, IsFiniteSet(S), \A x : x # f => (x \in S <=> x \in T)
    PROVE  Cardinality(T) = Cardinality(S) - (IF f \in S THEN 1 ELSE 0)
                                           + (IF f \in T THEN 1 ELSE 0)
  <1>1. IsFiniteSet(S \ {f}) /\ Cardinality(S \ {f}) \in Nat
    BY FS_RemoveElement, FS_CardinalityType
  <1>2. Cardinality(S \ {f}) = Cardinality(S) - (IF f \in S THEN 1 ELSE 0)
    <2>1. Cardinality(S \ {f}) = IF f \in S THEN Cardinality(S) - 1 ELSE Cardinality(S)
      BY FS_RemoveElement
    <2>2. Cardinality(S) \in Nat
      BY FS_CardinalityType
    <2>3. QED
      BY <2>1, <2>2
  <1>3. CASE f \in T
    <2>1. T = (S \ {f}) \cup {f} /\ f \notin S \ {f}
      BY <1>3
    <2>2. Cardinality((S \ {f}) \cup {f}) = Cardinality(S \ {f}) + 1
      BY <1>1, <2>1, FS_AddElement
    <2>3. Cardinality(T) = Cardinality(S \ {f}) + 1
      BY <2>1, <2>2
    <2>4. QED
      BY <1>2, <1>3, <2>3
  <1>4. CASE f \notin T
    <2>1. T = S \ {f}
      BY <1>4
    <2>2. Cardinality(S) \in Nat
      BY FS_CardinalityType
    <2>3. QED
      BY <1>2, <1>4, <2>1, <2>2
  <1>5. QED
    BY <1>3, <1>4

One(P) == IF P THEN 1 ELSE 0
Resetting(e, b) == e.at \in {"clear", "reset", "init"} /\ e.buf = b

LEMMA OneFileMoves ==
    ASSUME NEW f \in File, \A g \in File : g # f => file'[g] = file[g]
    PROVE  /\ Cardinality(Readers') = Cardinality(Readers)
                - One(file[f].at = "reading") + One(file'[f].at = "reading")
           /\ \A b \in Buffer : Cardinality(Resets(b)') = Cardinality(Resets(b))
                - One(Resetting(file[f], b)) + One(Resetting(file'[f], b))
  <1>1. Cardinality(Readers') = Cardinality(Readers)
                - One(file[f].at = "reading") + One(file'[f].at = "reading")
    <2>1. \A x : x # f => (x \in Readers <=> x \in Readers')
      BY DEF Readers
    <2>2. Cardinality(Readers') = Cardinality(Readers)
            - (IF f \in Readers THEN 1 ELSE 0) + (IF f \in Readers' THEN 1 ELSE 0)
      BY <2>1, CountsFinite, OneMember
    <2>3. (f \in Readers <=> file[f].at = "reading") /\ (f \in Readers' <=> file'[f].at = "reading")
      BY DEF Readers
    <2>4. QED
      BY <2>2, <2>3 DEF One
  <1>2. ASSUME NEW b \in Buffer
        PROVE  Cardinality(Resets(b)') = Cardinality(Resets(b))
                 - One(Resetting(file[f], b)) + One(Resetting(file'[f], b))
    <2>1. \A x : x # f => (x \in Resets(b) <=> x \in Resets(b)')
      BY DEF Resets
    <2>2. Cardinality(Resets(b)') = Cardinality(Resets(b))
            - (IF f \in Resets(b) THEN 1 ELSE 0) + (IF f \in Resets(b)' THEN 1 ELSE 0)
      BY <2>1, CountsFinite, OneMember
    <2>3. /\ f \in Resets(b) <=> Resetting(file[f], b)
          /\ f \in Resets(b)' <=> Resetting(file'[f], b)
      BY DEF Resets, Resetting
    <2>4. QED
      BY <2>2, <2>3 DEF One
  <1>3. QED
    BY <1>1, <1>2

-----------------------------------------------------------------------------
(* Types.  Every step but tracing_on is a step of a file, of a CPU or of     *)
(* tracing_alloc_snapshot; TraceSettings takes them over.                    *)

At == {"closed", "reading", "live", "spare", "clear", "sync", "shrink", "shrunk", "reset",
       "set", "init", "swap"}
OthersSame(f) == \A g \in File : g # f => file'[g] = file[g]

(* The ways in which a file's entry is changed.                              *)
LEMMA EntryAt ==
    ASSUME file \in [File -> FileState], NEW f \in File, NEW at \in At,
           file' = [file EXCEPT ![f].at = at]
    PROVE  /\ file' \in [File -> FileState] /\ OthersSame(f)
           /\ file'[f] = [file[f] EXCEPT !.at = at] /\ file'[f].at = at
           /\ file'[f].next = file[f].next /\ file'[f].wait = file[f].wait
  <1>1. [file[f] EXCEPT !.at = at] \in FileState
    BY DEF FileState, At
  <1>2. file' = [file EXCEPT ![f] = [file[f] EXCEPT !.at = at]]
    OBVIOUS
  <1>3. QED
    BY <1>1, <1>2 DEF OthersSame, FileState

LEMMA EntryBuf ==
    ASSUME file \in [File -> FileState], NEW f \in File, NEW at \in At, NEW b \in Buffer,
           file' = [file EXCEPT ![f].at = at, ![f].buf = b]
    PROVE  /\ file' \in [File -> FileState] /\ OthersSame(f)
           /\ file'[f].at = at /\ file'[f].buf = b
           /\ file'[f].next = file[f].next /\ file'[f].wait = file[f].wait
  <1> DEFINE e == [file[f] EXCEPT !.at = at, !.buf = b]
  <1>1. e \in FileState /\ e.at = at /\ e.buf = b /\ e.next = file[f].next /\ e.wait = file[f].wait
    BY DEF FileState, At
  <1>2. file' = [file EXCEPT ![f] = e]
    OBVIOUS
  <1>3. QED
    BY <1>1, <1>2 DEF OthersSame

LEMMA EntryNext ==
    ASSUME file \in [File -> FileState], NEW f \in File, NEW at \in At, NEW t \in Tracer,
           NEW W \in SUBSET Cpu,
           file' = [file EXCEPT ![f].at = at, ![f].next = t, ![f].wait = W]
    PROVE  /\ file' \in [File -> FileState] /\ OthersSame(f)
           /\ file'[f].at = at /\ file'[f].next = t /\ file'[f].wait = W
  <1> DEFINE e == [file[f] EXCEPT !.at = at, !.next = t, !.wait = W]
  <1>1. e \in FileState /\ e.at = at /\ e.next = t /\ e.wait = W
    BY DEF FileState, At
  <1>2. file' = [file EXCEPT ![f] = e]
    OBVIOUS
  <1>3. QED
    BY <1>1, <1>2 DEF OthersSame

LEMMA EntryClosed ==
    ASSUME file \in [File -> FileState], NEW f \in File, file' = [file EXCEPT ![f] = Closed]
    PROVE  /\ file' \in [File -> FileState] /\ OthersSame(f)
           /\ file'[f].at = "closed" /\ file'[f].next = Nobody
  <1>1. Closed \in FileState /\ Closed.at = "closed" /\ Closed.next = Nobody
    BY DEF Closed, FileState, Buffer
  <1>2. QED
    BY <1>1 DEF OthersSame

LEMMA EntrySet ==
    ASSUME file \in [File -> FileState], NEW f \in File, NEW t \in Tracer, BeginSetting(f, t)
    PROVE  /\ file' \in [File -> FileState] /\ OthersSame(f)
           /\ file'[f].at = "set" /\ file'[f].next = t
  <1> DEFINE e == [Closed EXCEPT !.at = "set", !.next = t]
  <1>1. e \in FileState /\ e.at = "set" /\ e.next = t
    BY DEF Closed, FileState, Buffer
  <1>2. file' = [file EXCEPT ![f] = e]
    BY DEF BeginSetting
  <1>3. QED
    BY <1>1, <1>2 DEF OthersSame

LEMMA AddType ==
    ASSUME record_disabled \in [Buffer -> Int], NEW bs, NEW n \in Int
    PROVE  Add(bs, n) \in [Buffer -> Int]
  BY DEF Add

LEMMA SizeType ==
    ASSUME size \in [Buffer -> Size], entries \in Size
    PROVE  /\ Allocated \in [Buffer -> Size]
           /\ [size EXCEPT ![spare] = 1] \in [Buffer -> Size]
  <1>1. 1 \in Size
    BY SizeAssumption DEF Size
  <1>2. QED
    BY <1>1 DEF Allocated

(* The resets that begin on the live or on the spare buffer.                 *)
LEMMA BeginEntry ==
    ASSUME BaseType, NEW f \in File,
           ClearBegin(f) \/ WriteSnapshotClear(f) \/ ResetSpare(f) \/ InitTracer(f)
    PROVE  \E b \in Buffer, at \in {"clear", "reset", "init"} :
             /\ record_disabled' = Add({b}, 1)
             /\ file' = [file EXCEPT ![f].at = at, ![f].buf = b]
             /\ \/ at = "clear" /\ file[f].at \in {"closed", "live", "spare"}
                \/ at = "reset" /\ file[f].at = "shrunk"
                \/ at = "init" /\ file[f].at = "set"
  <1>1. live \in Buffer /\ spare \in Buffer
    BY DEF spare, Buffer, BaseType
  <1>2. CASE ClearBegin(f)
    BY <1>2 DEF ClearBegin
  <1>3. CASE WriteSnapshotClear(f)
    BY <1>1, <1>3 DEF WriteSnapshotClear, Locked
  <1>4. CASE ResetSpare(f)
    BY <1>1, <1>4 DEF ResetSpare
  <1>5. CASE InitTracer(f)
    BY <1>1, <1>5 DEF InitTracer, InitTracer
  <1>6. QED
    BY <1>2, <1>3, <1>4, <1>5

LEMMA FileType ==
    ASSUME BaseType, SettingHeld, NEW f \in File, FileOp(f), stop_count' \in Nat
    PROVE  BaseType'
  <1> USE DEF BaseType, rings, sizes, stops
  <1>0. spare \in Buffer
    BY DEF spare, Buffer
  <1>1. CASE OpenTrace(f) \/ ReleaseTrace(f)
    <2>1. file' \in [File -> FileState]
      BY <1>1, EntryAt DEF OpenTrace, ReleaseTrace, At
    <2>2. record_disabled' \in [Buffer -> Int]
      BY <1>1, AddType DEF OpenTrace, ReleaseTrace
    <2>3. QED
      BY <1>1, <2>1, <2>2 DEF OpenTrace, ReleaseTrace
  <1>2. CASE ClearBegin(f) \/ WriteSnapshotClear(f) \/ ResetSpare(f) \/ InitTracer(f)
    <2>1. PICK b \in Buffer, at \in {"clear", "reset", "init"} :
            /\ record_disabled' = Add({b}, 1)
            /\ file' = [file EXCEPT ![f].at = at, ![f].buf = b]
      BY <1>2, BeginEntry
    <2>2. file' \in [File -> FileState]
      BY <2>1, EntryBuf DEF At
    <2>2a. record_disabled' \in [Buffer -> Int]
      BY <2>1, AddType
    <2>3. current_trace' \in Tracer /\ trace_types_lock' \in File \cup {Nobody}
      BY <1>2 DEF ClearBegin, WriteSnapshotClear, ResetSpare, InitTracer
    <2>4. QED
      BY <1>2, <2>2, <2>2a, <2>3 DEF ClearBegin, WriteSnapshotClear, ResetSpare, InitTracer
  <1>3. CASE ClearEnd(f) \/ Freed(f) \/ TracerInitialised(f)
    <2>1. file' \in [File -> FileState]
      <3>1. CASE file' = [file EXCEPT ![f] = Closed]
        BY <3>1, EntryClosed
      <3>2. CASE file[f].next # Nobody /\ BeginSetting(f, file[f].next)
        <4>1. file[f].next \in Tracer
          BY <3>2 DEF FileState
        <4>2. QED
          BY <3>2, <4>1, EntrySet
      <3>3. QED
        BY <1>3, <3>1, <3>2 DEF ClearEnd, Freed, TracerInitialised
    <2>2. record_disabled' \in [Buffer -> Int]
      BY <1>3, AddType DEF ClearEnd, Freed, TracerInitialised
    <2>3. current_trace' \in Tracer
      <3>1. CASE TracerInitialised(f)
        <4>1. file[f].next \in Tracer
          BY <3>1 DEF TracerInitialised, SettingHeld, Setting, FileState
        <4>2. QED
          BY <3>1, <4>1, TracerAssumption DEF TracerInitialised, Tracer
      <3>2. QED
        BY <1>3, <3>1 DEF ClearEnd, Freed
    <2>4. QED
      BY <1>3, <2>1, <2>2, <2>3 DEF ClearEnd, Freed, TracerInitialised
  <1>4. CASE WriteSnapshotSwap(f)
    <2>1. file' \in [File -> FileState]
      BY <1>4, EntryClosed DEF WriteSnapshotSwap
    <2>2. QED
      BY <1>0, <1>4, <2>1 DEF WriteSnapshotSwap
  <1>5. CASE WriteSnapshotFree(f) \/ Shrink(f) \/ Synchronized(f) \/ ClearChoose(f)
    <2>1. file' \in [File -> FileState]
      BY <1>5, EntryAt DEF WriteSnapshotFree, Shrink, Synchronized, ClearChoose, At
    <2>2. QED
      BY <1>5, <2>1, SizeType DEF WriteSnapshotFree, Shrink, Synchronized, ClearChoose
  <1>6. CASE WriteSnapshotTake(f)
    <2>1. file' \in [File -> FileState]
      BY <1>6, EntryAt DEF WriteSnapshotTake, At
    <2>2. QED
      BY <1>6, <2>1, SizeType DEF WriteSnapshotTake
  <1>7. CASE \E t \in Tracer : SetTracerFreeing(f, t)
    <2>1. PICK t \in Tracer : SetTracerFreeing(f, t)
      BY <1>7
    <2>2. file' \in [File -> FileState]
      <3>1. {c \in Cpu : swap[c] # "none"} \in SUBSET Cpu
        OBVIOUS
      <3>2. QED
        BY <2>1, <3>1, EntryNext DEF SetTracerFreeing, At
    <2>3. QED
      BY <2>1, <2>2, TracerAssumption DEF SetTracerFreeing, Tracer
  <1>8. CASE \E t \in Tracer : SetTracer(f, t)
    <2>1. PICK t \in Tracer : SetTracer(f, t)
      BY <1>8
    <2>2. file' \in [File -> FileState]
      BY <2>1, EntrySet DEF SetTracer
    <2>3. QED
      BY <2>1, <2>2, SizeType, TracerAssumption DEF SetTracer, Tracer
  <1>9. CASE SetUninitialised(f)
    <2>1. file[f].next \in Tracer
      BY <1>9 DEF SetUninitialised, SettingHeld, Setting, FileState
    <2>2. file' \in [File -> FileState]
      BY <1>9, EntryClosed DEF SetUninitialised
    <2>3. trace_types_lock' \in File \cup {Nobody}
      BY <1>9 DEF SetUninitialised
    <2>4. QED
      BY <1>9, <2>1, <2>2, <2>3 DEF SetUninitialised
  <1>10. QED
    BY <1>1, <1>2, <1>3, <1>4, <1>5, <1>6, <1>7, <1>8, <1>9 DEF FileOp

LEMMA OtherType ==
    ASSUME BaseType, \/ \E c \in Cpu : CpuOp(c)
                     \/ AllocSnapshot \/ CallSnapshotUnallocated \/ DisableTracing
                     \/ \E on \in BOOLEAN : TracingOn(on)
    PROVE  BaseType'
  <1> USE DEF BaseType, stops
  <1>1. CASE \E c \in Cpu : TracerSwap(c) \/ CallSnapshot(c)
    BY <1>1 DEF TracerSwap, CallSnapshot, rings, sizes
  <1>2. CASE \E c \in Cpu : Swap(c)
    <2>1. \A c \in Cpu, f \in File :
            [file[f] EXCEPT !.wait = file[f].wait \ {c}] \in FileState
      BY DEF FileState
    <2>2. file' \in [File -> FileState]
      BY <1>2, <2>1 DEF Swap
    <2>3. QED
      BY <1>2, <2>2 DEF Swap, spare, Buffer, sizes
  <1>3. CASE AllocSnapshot
    BY <1>3 DEF AllocSnapshot, Allocated, sizes
  <1>4. CASE CallSnapshotUnallocated \/ \E on \in BOOLEAN : TracingOn(on)
    BY <1>4 DEF CallSnapshotUnallocated, TracingOn, sizes
  <1>5. CASE DisableTracing
    BY <1>5 DEF DisableTracing
  <1>6. QED
    BY <1>1, <1>2, <1>3, <1>4, <1>5 DEF CpuOp

-----------------------------------------------------------------------------
(* Balance.  What a step adds to record_disabled, it adds to the stops and   *)
(* resets that hold the buffer.                                              *)
Kept == ReadersCounted' /\ (Global => \A b \in Buffer : Slack(b)' = Slack(b))

(* A step that moves no file between the counted states.                     *)
LEMMA NothingCounted ==
    ASSUME BaseType, ReadersCounted, record_disabled' = record_disabled, stop_count' = stop_count,
           tracing_disabled => tracing_disabled', tracing_disabled' \in BOOLEAN,
           \A f \in File : /\ file'[f].at = file[f].at /\ file'[f].buf = file[f].buf
                           \/ /\ file[f].at \notin {"reading", "clear", "reset", "init"}
                              /\ file'[f].at \notin {"reading", "clear", "reset", "init"}
    PROVE  Kept
  <1>1. Readers' = Readers /\ \A b \in Buffer : Resets(b)' = Resets(b)
    BY DEF Readers, Resets
  <1>2. Cardinality(Readers) \in Nat
    BY CountsFinite
  <1>3. ReadersCounted'
    BY <1>1, <1>2 DEF ReadersCounted, BaseType
  <1>4. QED
    BY <1>1, <1>3 DEF Kept, Slack, StoppedOne

LEMMA OpenKept ==
    ASSUME BaseType, ReadersCounted, NEW f \in File, OpenTrace(f) \/ ReleaseTrace(f)
    PROVE  Kept /\ stop_count' \in Nat
  <1>1. /\ \A g \in File : g # f => file'[g] = file[g]
        /\ {file[f].at, file'[f].at} \subseteq {"closed", "reading"}
    BY EntryAt DEF OpenTrace, ReleaseTrace, BaseType, OthersSame, At
  <1>2. \A b \in Buffer : ~Resetting(file[f], b) /\ ~Resetting(file'[f], b)
    BY <1>1 DEF Resetting
  <1>3. \A b \in Buffer : /\ Cardinality(Resets(b)') = Cardinality(Resets(b))
                          /\ Cardinality(Resets(b)) \in Nat
    BY <1>1, <1>2, OneFileMoves, CountsFinite DEF One
  <1>4. Cardinality(Readers) \in Nat
    BY CountsFinite
  <1>5. CASE OpenTrace(f)
    <2>0. file[f].at = "closed" /\ file'[f].at = "reading"
      BY <1>5, EntryAt DEF OpenTrace, BaseType, At
    <2>1. Cardinality(Readers') = Cardinality(Readers) + 1
      BY <1>1, <1>4, <2>0, OneFileMoves DEF One
    <2>2. Global => \A b \in Buffer :
            record_disabled'[b] = record_disabled[b] + (IF stop_count = 0 THEN 1 ELSE 0)
      BY <1>5 DEF OpenTrace, StoppedBuffers, Add, BaseType
    <2>3. ~tracing_disabled /\ tracing_disabled' = tracing_disabled
      BY <1>5 DEF OpenTrace
    <2>4. QED
      BY <1>3, <1>4, <1>5, <2>1, <2>2, <2>3
         DEF OpenTrace, BaseType, Kept, ReadersCounted, Slack, StoppedOne
  <1>6. CASE ReleaseTrace(f)
    <2>0. file[f].at = "reading" /\ file'[f].at = "closed"
      BY <1>6, EntryAt DEF ReleaseTrace, BaseType, At
    <2>1a. f \in Readers
      BY <2>0 DEF Readers
    <2>1b. Cardinality(Readers) # 0
      BY <2>1a, CountsFinite, FS_EmptySet
    <2>1. Cardinality(Readers') = Cardinality(Readers) - 1
      BY <1>1, <1>4, <2>0, OneFileMoves DEF One
    <2>2. tracing_disabled' = tracing_disabled
      BY <1>6 DEF ReleaseTrace
    <2>3. CASE tracing_disabled
      <3>1. stop_count' = stop_count /\ record_disabled' = record_disabled
        BY <1>6, <2>3 DEF ReleaseTrace
      <3>2. QED
        BY <1>3, <1>4, <2>1, <2>1b, <2>2, <2>3, <3>1
           DEF BaseType, Kept, ReadersCounted, Slack, StoppedOne
    <2>4. CASE ~tracing_disabled
      <3>1. /\ stop_count' = stop_count - 1
            /\ Global => \A b \in Buffer :
                 record_disabled'[b] = record_disabled[b] - (IF stop_count = 1 THEN 1 ELSE 0)
        BY <1>6, <2>4 DEF ReleaseTrace, StoppedBuffers, Add, BaseType, LastStop
      <3>2. QED
        BY <1>3, <1>4, <2>1, <2>1b, <2>2, <2>4, <3>1
           DEF BaseType, Kept, ReadersCounted, Slack, StoppedOne
    <2>5. QED
      BY <2>3, <2>4
  <1>7. QED
    BY <1>5, <1>6

(* A reset begins or ends on one buffer.                                     *)
LEMMA ResetKept ==
    ASSUME BaseType, ReadersCounted, NEW f \in File, NEW b \in Buffer, NEW n \in {1, -1},
           \A g \in File : g # f => file'[g] = file[g],
           file[f].at # "reading", file'[f].at # "reading",
           \A d \in Buffer : One(Resetting(file'[f], d)) - One(Resetting(file[f], d))
                               = IF d = b THEN n ELSE 0,
           record_disabled' = Add({b}, n), stop_count' = stop_count,
           tracing_disabled' = tracing_disabled
    PROVE  Kept
  <1>1. \A d \in Buffer : /\ Cardinality(Resets(d)') = Cardinality(Resets(d))
                               + (IF d = b THEN n ELSE 0)
                          /\ Cardinality(Resets(d)) \in Nat
    BY OneFileMoves, CountsFinite DEF One
  <1>2. Cardinality(Readers') = Cardinality(Readers)
    <2>1. Cardinality(Readers) \in Nat
      BY CountsFinite
    <2>2. QED
      BY <2>1, OneFileMoves DEF One
  <1>3. \A d \in Buffer : record_disabled'[d] = record_disabled[d] + (IF d = b THEN n ELSE 0)
    BY DEF Add, BaseType
  <1>4. StoppedOne' = StoppedOne /\ StoppedOne \in Nat
    BY DEF StoppedOne
  <1>5. \A d \in Buffer : Slack(d)' = Slack(d)
    <2> SUFFICES ASSUME NEW d \in Buffer PROVE Slack(d)' = Slack(d)
      OBVIOUS
    <2>1. record_disabled[d] \in Int /\ n \in Int
      BY DEF BaseType
    <2>2. PICK x \in Int : /\ record_disabled'[d] = record_disabled[d] + x
                           /\ Cardinality(Resets(d)') = Cardinality(Resets(d)) + x
      BY <1>1, <1>3, <2>1
    <2>3. Cardinality(Resets(d)) \in Nat
      BY <1>1
    <2>4. QED
      BY <1>4, <2>1, <2>2, <2>3 DEF Slack
  <1>6. QED
    BY <1>2, <1>5 DEF Kept, ReadersCounted

LEMMA BeginKept ==
    ASSUME BaseType, ReadersCounted, NEW f \in File,
           ClearBegin(f) \/ WriteSnapshotClear(f) \/ ResetSpare(f) \/ InitTracer(f)
    PROVE  Kept /\ stop_count' = stop_count
  <1>0. stop_count' = stop_count /\ tracing_disabled' = tracing_disabled
    BY DEF ClearBegin, WriteSnapshotClear, ResetSpare, InitTracer, stops
  <1>1. PICK b \in Buffer, at \in {"clear", "reset", "init"} :
          /\ record_disabled' = Add({b}, 1)
          /\ file' = [file EXCEPT ![f].at = at, ![f].buf = b]
          /\ file[f].at \in {"closed", "live", "spare", "shrunk", "set"}
    BY BeginEntry
  <1>2. /\ file'[f].at \in {"clear", "reset", "init"} /\ file'[f].buf = b
        /\ \A g \in File : g # f => file'[g] = file[g]
    BY <1>1, EntryBuf DEF BaseType, At, OthersSame
  <1>3. \A d \in Buffer : One(Resetting(file'[f], d)) - One(Resetting(file[f], d))
                            = IF d = b THEN 1 ELSE 0
    BY <1>1, <1>2 DEF One, Resetting
  <1>4. QED
    BY <1>0, <1>1, <1>2, <1>3, ResetKept

LEMMA EndKept ==
    ASSUME BaseType, ReadersCounted, SettingHeld, NEW f \in File,
           ClearEnd(f) \/ Freed(f) \/ TracerInitialised(f)
    PROVE  Kept
  <1> DEFINE b == file[f].buf
  <1>0. /\ file'[f].at \in {"closed", "set"}
        /\ \A g \in File : g # f => file'[g] = file[g]
    <2>1. CASE file' = [file EXCEPT ![f] = Closed]
      BY <2>1, EntryClosed DEF BaseType, OthersSame
    <2>2. CASE file[f].next # Nobody /\ BeginSetting(f, file[f].next)
      <3>1. file[f].next \in Tracer
        BY <2>2 DEF BaseType, FileState
      <3>2. QED
        BY <2>2, <3>1, EntrySet DEF BaseType, OthersSame
    <2>3. QED
      BY <2>1, <2>2 DEF ClearEnd, Freed, TracerInitialised
  <1>1. /\ b \in Buffer
        /\ record_disabled' = Add({b}, -1)
        /\ stop_count' = stop_count /\ tracing_disabled' = tracing_disabled
        /\ file[f].at \in {"clear", "reset", "init"}
    BY DEF ClearEnd, Freed, TracerInitialised, Cleared, BaseType, FileState, stops
  <1>2. \A d \in Buffer : One(Resetting(file'[f], d)) - One(Resetting(file[f], d))
                            = IF d = b THEN -1 ELSE 0
    BY <1>0, <1>1 DEF One, Resetting
  <1>3. QED
    BY <1>0, <1>1, <1>2, ResetKept

LEMMA FileKept ==
    ASSUME BaseType, ReadersCounted, SettingHeld, NEW f \in File, FileOp(f)
    PROVE  Kept /\ stop_count' \in Nat
  <1>1. CASE OpenTrace(f) \/ ReleaseTrace(f)
    BY <1>1, OpenKept
  <1>2. CASE ClearBegin(f) \/ WriteSnapshotClear(f) \/ ResetSpare(f) \/ InitTracer(f)
    BY <1>2, BeginKept DEF BaseType
  <1>3. CASE ClearEnd(f) \/ Freed(f) \/ TracerInitialised(f)
    BY <1>3, EndKept DEF ClearEnd, Freed, TracerInitialised, BaseType, stops
  <1>4. CASE \/ WriteSnapshotFree(f) \/ WriteSnapshotTake(f) \/ WriteSnapshotSwap(f)
             \/ Shrink(f) \/ Synchronized(f) \/ ClearChoose(f) \/ SetUninitialised(f)
    <2>1. /\ record_disabled' = record_disabled /\ UNCHANGED stops
          /\ \A g \in File : g # f => file'[g] = file[g]
          /\ \/ file' = file
             \/ /\ file[f].at \notin {"reading", "clear", "reset", "init"}
                /\ file'[f].at \notin {"reading", "clear", "reset", "init"}
      BY <1>4 DEF WriteSnapshotFree, WriteSnapshotTake, WriteSnapshotSwap, Shrink, Synchronized,
                  ClearChoose, SetUninitialised, rings, Locked, Closed, BaseType, FileState
    <2>2. QED
      BY <2>1, NothingCounted DEF BaseType, stops
  <1>5. CASE \E t \in Tracer : SetTracerFreeing(f, t) \/ SetTracer(f, t)
    <2>1. /\ record_disabled' = record_disabled /\ UNCHANGED stops
          /\ \A g \in File : g # f => file'[g] = file[g]
          /\ \/ file' = file
             \/ file[f].at = "closed" /\ file'[f].at \in {"sync", "set"}
      <3>1. CASE \E t \in Tracer : SetTracerFreeing(f, t)
        BY <3>1 DEF SetTracerFreeing, rings, Locked, BaseType, FileState
      <3>2. CASE \E t \in Tracer : SetTracer(f, t)
        BY <3>2, EntrySet DEF SetTracer, Locked, BaseType, OthersSame
      <3>3. QED
        BY <1>5, <3>1, <3>2
    <2>2. QED
      BY <2>1, NothingCounted DEF BaseType, stops
  <1>6. QED
    BY <1>1, <1>2, <1>3, <1>4, <1>5 DEF FileOp

LEMMA OtherKept ==
    ASSUME BaseType, ReadersCounted, \/ \E c \in Cpu : CpuOp(c)
                                     \/ AllocSnapshot \/ CallSnapshotUnallocated
                                     \/ DisableTracing
                                     \/ \E on \in BOOLEAN : TracingOn(on)
    PROVE  Kept
  <1>1. CASE DisableTracing
    <2>1. /\ record_disabled' = record_disabled /\ stop_count' = stop_count
          /\ tracing_disabled' = TRUE /\ file' = file
      BY <1>1 DEF DisableTracing
    <2>2. QED
      BY <2>1, NothingCounted
  <1>2. CASE \/ \E c \in Cpu : CpuOp(c)
             \/ AllocSnapshot \/ CallSnapshotUnallocated
             \/ \E on \in BOOLEAN : TracingOn(on)
    <2>1. UNCHANGED <<record_disabled, stops>>
      BY <1>2 DEF CpuOp, TracerSwap, CallSnapshot, Swap, AllocSnapshot, CallSnapshotUnallocated,
                  TracingOn, rings
    <2>2. \A f \in File : file'[f].at = file[f].at /\ file'[f].buf = file[f].buf
      BY <1>2 DEF CpuOp, TracerSwap, CallSnapshot, Swap, AllocSnapshot, CallSnapshotUnallocated,
                  TracingOn, BaseType, FileState
    <2>3. QED
      BY <2>1, <2>2, NothingCounted DEF stops, BaseType
  <1>3. QED
    BY <1>1, <1>2

-----------------------------------------------------------------------------
(* The mutex and the change of tracer.  A file that is not in free_snapshot  *)
(* or before its swap holds nothing that these two say anything of.          *)

LEMMA FileHolds ==
    ASSUME BaseType, HoldsLock, SettingHeld, NEW f \in File, FileOp(f)
    PROVE  HoldsLock' /\ SettingHeld'
  <1> USE DEF BaseType, rings, stops
  <1>1. CASE OpenTrace(f) \/ ReleaseTrace(f)
    <2>1. /\ OthersSame(f) /\ file[f].at \in {"closed", "reading"}
          /\ file'[f].at \in {"closed", "reading"} /\ file'[f].next = file[f].next
      BY <1>1, EntryAt DEF OpenTrace, ReleaseTrace, At
    <2>2. UNCHANGED <<current_trace, trace_types_lock, swap>>
      BY <1>1 DEF OpenTrace, ReleaseTrace
    <2>3. QED
      BY <2>1, <2>2 DEF HoldsLock, SettingHeld, Setting, OthersSame
  <1>2. CASE ClearBegin(f) \/ WriteSnapshotClear(f)
    <2>1. PICK b \in Buffer : file' = [file EXCEPT ![f].at = "clear", ![f].buf = b]
      BY <1>2 DEF ClearBegin, WriteSnapshotClear, spare, Buffer
    <2>2. /\ OthersSame(f) /\ file'[f].at = "clear" /\ file'[f].next = file[f].next
      BY <2>1, EntryBuf DEF At
    <2>3. /\ file[f].at \in {"closed", "live", "spare"} /\ UNCHANGED <<current_trace, swap>>
          /\ trace_types_lock' = trace_types_lock \/ trace_types_lock = Nobody
      BY <1>2 DEF ClearBegin, WriteSnapshotClear, Locked
    <2>4. \A g \in File : trace_types_lock = Nobody => trace_types_lock # g
      BY ActorAssumption
    <2>5. QED
      BY <2>2, <2>3, <2>4 DEF HoldsLock, SettingHeld, Setting, OthersSame
  <1>3. CASE ClearEnd(f)
    <2>1. OthersSame(f) /\ file'[f].at = "closed" /\ file'[f].next = Nobody
      BY <1>3, EntryClosed DEF ClearEnd
    <2>2. /\ UNCHANGED <<current_trace, swap>>
          /\ trace_types_lock' = trace_types_lock \/ trace_types_lock = f
      BY <1>3 DEF ClearEnd
    <2>3. QED
      BY <2>1, <2>2 DEF HoldsLock, SettingHeld, Setting, OthersSame
  <1>4. CASE WriteSnapshotFree(f)
    <2>1. /\ OthersSame(f) /\ file'[f].at = "shrink" /\ file'[f].next = file[f].next
      BY <1>4, EntryAt DEF WriteSnapshotFree, At
    <2>2. /\ file[f].at = "closed" /\ trace_types_lock = Nobody /\ trace_types_lock' = f
          /\ UNCHANGED <<current_trace, swap>>
      BY <1>4 DEF WriteSnapshotFree, Locked
    <2>3. QED
      BY <2>1, <2>2, ActorAssumption DEF HoldsLock, SettingHeld, Setting, OthersSame
  <1>5. CASE WriteSnapshotTake(f)
    <2>1. /\ file[f].at = "closed" /\ trace_types_lock = Nobody
          /\ UNCHANGED <<current_trace, swap>>
      BY <1>5 DEF WriteSnapshotTake, Locked
    <2>2. CASE UNCHANGED <<trace_types_lock, file>>
      BY <2>1, <2>2 DEF HoldsLock, SettingHeld, Setting
    <2>3. CASE trace_types_lock' = f /\ file' = [file EXCEPT ![f].at = "swap"]
      <3>1. OthersSame(f) /\ file'[f].next = file[f].next
        BY <2>3, EntryAt DEF At
      <3>2. QED
        BY <2>1, <2>3, <3>1, ActorAssumption DEF HoldsLock, SettingHeld, Setting, OthersSame
    <2>4. QED
      BY <1>5, <2>2, <2>3 DEF WriteSnapshotTake
  <1>6. CASE \/ WriteSnapshotSwap(f) \/ SetUninitialised(f) \/ TracerInitialised(f)
             \/ Freed(f) /\ file[f].next = Nobody
    <2>1. OthersSame(f) /\ file'[f].at = "closed" /\ file'[f].next = Nobody
      BY <1>6, EntryClosed DEF WriteSnapshotSwap, SetUninitialised, TracerInitialised, Freed
    <2>2. /\ file[f].at \in {"swap", "set", "init", "reset"} /\ trace_types_lock' = Nobody
          /\ UNCHANGED swap
      BY <1>6 DEF WriteSnapshotSwap, SetUninitialised, TracerInitialised, Freed
    <2>3. \A g \in File : g # f =>
            file[g].at \notin {"sync", "shrink", "shrunk", "reset", "set", "init", "swap"}
      BY <2>2 DEF HoldsLock
    <2>4. QED
      BY <2>1, <2>2, <2>3 DEF HoldsLock, SettingHeld, Setting, OthersSame
  <1>7. CASE Shrink(f)
    <2>1. /\ OthersSame(f) /\ file'[f].at = "shrunk" /\ file'[f].next = file[f].next
      BY <1>7, EntryAt DEF Shrink, At
    <2>2. /\ file[f].at = "shrink"
          /\ UNCHANGED <<current_trace, trace_types_lock, swap>>
      BY <1>7 DEF Shrink
    <2>3. QED
      BY <2>1, <2>2 DEF HoldsLock, SettingHeld, Setting, OthersSame
  <1>8. CASE ResetSpare(f)
    <2>1. /\ OthersSame(f) /\ file'[f].at = "reset" /\ file'[f].next = file[f].next
      <3>1. PICK b \in Buffer : file' = [file EXCEPT ![f].at = "reset", ![f].buf = b]
        <4>1. spare \in Buffer
          BY DEF spare, Buffer
        <4>2. file' = [file EXCEPT ![f].at = "reset", ![f].buf = spare]
          BY <1>8 DEF ResetSpare
        <4>3. QED
          BY <4>1, <4>2
      <3>2. QED
        BY <3>1, EntryBuf DEF At
    <2>2. /\ file[f].at = "shrunk"
          /\ UNCHANGED <<current_trace, trace_types_lock, swap>>
      BY <1>8 DEF ResetSpare
    <2>3. QED
      BY <2>1, <2>2 DEF HoldsLock, SettingHeld, Setting, OthersSame
  <1>9. CASE Synchronized(f)
    <2>1. /\ OthersSame(f) /\ file'[f].at = "shrink" /\ file'[f].next = file[f].next
      BY <1>9, EntryAt DEF Synchronized, At
    <2>2. /\ file[f].at = "sync" /\ file[f].wait = {}
          /\ UNCHANGED <<current_trace, trace_types_lock, swap>>
      BY <1>9 DEF Synchronized, Quiet
    <2>3. QED
      BY <2>1, <2>2 DEF HoldsLock, SettingHeld, Setting, OthersSame
  <1>10. CASE \E t \in Tracer : SetTracerFreeing(f, t)
    <2>1. PICK t \in Tracer : SetTracerFreeing(f, t)
      BY <1>10
    <2>2. /\ OthersSame(f) /\ file'[f].at = "sync"
          /\ file'[f].wait = {c \in Cpu : swap[c] # "none"}
      <3>1. PICK W \in SUBSET Cpu :
              /\ W = {c \in Cpu : swap[c] # "none"}
              /\ file' = [file EXCEPT ![f].at = "sync", ![f].next = t, ![f].wait = W]
        BY <2>1 DEF SetTracerFreeing
      <3>2. file' = [file EXCEPT ![f] = [file[f] EXCEPT !.at = "sync", !.next = t, !.wait = W]]
        BY <3>1
      <3>3. OthersSame(f) /\ file'[f].at = "sync" /\ file'[f].wait = W
        BY <3>2 DEF OthersSame, FileState
      <3>4. QED
        BY <3>1, <3>3
    <2>3. /\ trace_types_lock = Nobody /\ trace_types_lock' = f
          /\ current_trace' = Nop /\ UNCHANGED swap
      BY <2>1 DEF SetTracerFreeing, Locked
    <2>4. Nop \notin MaxTracer
      BY TracerAssumption
    <2>5. \A g \in File : ~ file[g].at \in {"sync", "shrink", "shrunk", "reset", "set", "init", "swap"}
      BY <2>3, ActorAssumption DEF HoldsLock
    <2>6. QED
      BY <2>2, <2>3, <2>4, <2>5 DEF HoldsLock, SettingHeld, Setting, OthersSame
  <1>11. CASE \E t \in Tracer : SetTracer(f, t)
    <2>1. PICK t \in Tracer : SetTracer(f, t)
      BY <1>11
    <2>2. /\ trace_types_lock = Nobody /\ UNCHANGED swap
          /\ current_trace' \notin MaxTracer
      BY <2>1, TracerAssumption DEF SetTracer, Locked
    <2>3. \A g \in File :
            ~ file[g].at \in {"sync", "shrink", "shrunk", "reset", "set", "init", "swap"}
      BY <2>2, ActorAssumption DEF HoldsLock
    <2>4. CASE UNCHANGED <<trace_types_lock, file>>
      BY <2>2, <2>3, <2>4 DEF HoldsLock, SettingHeld, Setting
    <2>5. CASE trace_types_lock' = f /\ BeginSetting(f, t)
      <3>1. OthersSame(f) /\ file'[f].at = "set" /\ file'[f].next = t
        BY <2>5, EntrySet
      <3>2. t # Nobody
        BY TracerAssumption
      <3>3. QED
        BY <2>2, <2>3, <2>5, <3>1, <3>2 DEF HoldsLock, SettingHeld, Setting, OthersSame
    <2>6. QED
      BY <2>1, <2>4, <2>5 DEF SetTracer
  <1>12. CASE Freed(f) /\ file[f].next # Nobody
    <2>1. file[f].next \in Tracer
      BY <1>12 DEF FileState
    <2>2. OthersSame(f) /\ file'[f].at = "set" /\ file'[f].next = file[f].next
      BY <1>12, <2>1, EntrySet DEF Freed
    <2>3. file[f].at = "reset" /\ UNCHANGED <<current_trace, trace_types_lock, swap>>
      BY <1>12 DEF Freed
    <2>4. QED
      BY <1>12, <2>2, <2>3 DEF HoldsLock, SettingHeld, Setting, OthersSame
  <1>13. CASE InitTracer(f)
    <2>1. PICK b \in Buffer : file' = [file EXCEPT ![f].at = "init", ![f].buf = b]
      BY <1>13 DEF InitTracer
    <2>2. OthersSame(f) /\ file'[f].at = "init" /\ file'[f].next = file[f].next
      BY <2>1, EntryBuf DEF At
    <2>3. file[f].at = "set" /\ UNCHANGED <<current_trace, trace_types_lock, swap>>
      BY <1>13 DEF InitTracer
    <2>4. QED
      BY <2>2, <2>3 DEF HoldsLock, SettingHeld, Setting, OthersSame
  <1>14. CASE ClearChoose(f)
    <2>1. PICK at \in {"live", "spare"} : file' = [file EXCEPT ![f].at = at]
      BY <1>14 DEF ClearChoose
    <2>2. /\ OthersSame(f) /\ file'[f].at \in {"live", "spare"}
          /\ file'[f].next = file[f].next
      BY <2>1, EntryAt DEF At
    <2>3. file[f].at = "closed" /\ UNCHANGED <<current_trace, trace_types_lock, swap>>
      BY <1>14 DEF ClearChoose
    <2>4. QED
      BY <2>2, <2>3 DEF HoldsLock, SettingHeld, Setting, OthersSame
  <1>15. QED
    BY <1>1, <1>2, <1>3, <1>4, <1>5, <1>6, <1>7, <1>8, <1>9, <1>10, <1>11, <1>12, <1>13, <1>14
       DEF FileOp

LEMMA OtherHolds ==
    ASSUME BaseType, HoldsLock, SettingHeld,
           \/ \E c \in Cpu : CpuOp(c)
           \/ AllocSnapshot \/ CallSnapshotUnallocated \/ DisableTracing
           \/ \E on \in BOOLEAN : TracingOn(on)
    PROVE  HoldsLock' /\ SettingHeld'
  <1> USE DEF BaseType, rings
  <1>1. CASE \E c \in Cpu : TracerSwap(c)
    <2>1. \A f \in File : ~Setting(f)
      BY <1>1 DEF TracerSwap, SettingHeld
    <2>2. QED
      BY <1>1, <2>1 DEF TracerSwap, HoldsLock, SettingHeld, Setting
  <1>2. CASE \E c \in Cpu : CallSnapshot(c)
    BY <1>2 DEF CallSnapshot, HoldsLock, SettingHeld, Setting
  <1>3. CASE \E c \in Cpu : Swap(c)
    <2>1. PICK c \in Cpu : Swap(c)
      BY <1>3
    <2>2. \A f \in File : /\ file'[f].at = file[f].at /\ file'[f].next = file[f].next
                          /\ file'[f].wait = file[f].wait \ {c}
      BY <2>1 DEF Swap, FileState
    <2>3. /\ UNCHANGED <<current_trace, trace_types_lock>>
          /\ \A d \in Cpu : swap'[d] = "tracer" => d # c /\ swap[d] = "tracer"
      BY <2>1 DEF Swap
    <2>4. QED
      BY <2>2, <2>3 DEF HoldsLock, SettingHeld, Setting
  <1>4. CASE \/ AllocSnapshot \/ CallSnapshotUnallocated \/ DisableTracing
             \/ \E on \in BOOLEAN : TracingOn(on)
    BY <1>4 DEF AllocSnapshot, CallSnapshotUnallocated, DisableTracing, TracingOn,
                HoldsLock, SettingHeld, Setting
  <1>5. QED
    BY <1>1, <1>2, <1>3, <1>4 DEF CpuOp

-----------------------------------------------------------------------------

LEMMA InitInvariant == Init => IndInv
  <1> SUFFICES ASSUME Init PROVE IndInv
    OBVIOUS
  <1> USE DEF Init
  <1>1. Closed \in FileState /\ Closed.at = "closed" /\ Closed.next = Nobody
    BY DEF Closed, FileState, Buffer
  <1>2. 1 \in Size /\ 0 \in Buffer /\ Nop \in Tracer
    BY SizeAssumption, TracerAssumption DEF Size, Buffer, Tracer
  <1>3. BaseType
    <2>1. size \in [Buffer -> Size]
      BY <1>2
    <2>2. record_disabled \in [Buffer -> Int] /\ record_on \in [Buffer -> BOOLEAN]
      OBVIOUS
    <2>3. live \in Buffer /\ current_trace \in Tracer /\ file \in [File -> FileState]
      BY <1>1, <1>2
    <2>4. QED
      BY <2>1, <2>2, <2>3 DEF BaseType
  <1>4. Readers = {} /\ \A b \in Buffer : Resets(b) = {}
    BY <1>1 DEF Readers, Resets
  <1>5. ReadersCounted /\ Balanced
    <2>1. Cardinality({}) = 0
      BY FS_EmptySet
    <2>2. QED
      BY <1>4, <2>1 DEF ReadersCounted, Balanced, Slack, StoppedOne
  <1>6. HoldsLock /\ SettingHeld
    BY <1>1 DEF HoldsLock, SettingHeld, Setting
  <1>7. QED
    BY <1>3, <1>5, <1>6 DEF IndInv

LEMMA StepInvariant == IndInv /\ [Next]_vars => IndInv'
  <1> SUFFICES ASSUME IndInv, [Next]_vars PROVE IndInv'
    OBVIOUS
  <1> USE DEF IndInv
  <1>1. CASE \E f \in File : FileOp(f)
    <2>1. PICK f \in File : FileOp(f)
      BY <1>1
    <2>2. Kept /\ stop_count' \in Nat
      BY <2>1, FileKept
    <2>3. BaseType' /\ HoldsLock' /\ SettingHeld'
      BY <2>1, <2>2, FileType, FileHolds
    <2>4. QED
      BY <2>2, <2>3 DEF Kept, Balanced
  <1>2. CASE \/ \E c \in Cpu : CpuOp(c)
             \/ AllocSnapshot \/ CallSnapshotUnallocated \/ DisableTracing
             \/ \E on \in BOOLEAN : TracingOn(on)
    BY <1>2, OtherType, OtherKept, OtherHolds DEF Kept, Balanced
  <1>3. CASE UNCHANGED vars
    <2>1. Kept
      BY <1>3, NothingCounted DEF vars, rings, stops, BaseType
    <2>2. BaseType' /\ HoldsLock' /\ SettingHeld'
      BY <1>3 DEF vars, rings, stops, sizes, BaseType, HoldsLock, SettingHeld, Setting
    <2>3. QED
      BY <2>1, <2>2 DEF Kept, Balanced
  <1>4. QED
    BY <1>1, <1>2, <1>3 DEF Next

LEMMA Invariance == Spec => []IndInv
  BY InitInvariant, StepInvariant, PTL DEF Spec

(* What the invariant says of the global array.                              *)
LEMMA BalanceImplies ==
    ASSUME BaseType, ReadersCounted, Balanced, Global
    PROVE  DisableBalanced /\ DumpStopped /\ TypeOK
  <1>1. \A b \in Buffer : record_disabled[b] = StoppedOne + Cardinality(Resets(b))
    BY CountsFinite DEF BaseType, Balanced, Slack, StoppedOne
  <1>2. DisableBalanced
    BY <1>1 DEF DisableBalanced, ReadersCounted
  <1>3. DumpStopped
    <2> SUFFICES ASSUME Readers # {} PROVE ~Records(live)
      BY DEF DumpStopped
    <2>1. Cardinality(Readers) \in Nat /\ Cardinality(Readers) # 0
      BY CountsFinite, FS_EmptySet
    <2>1a. stop_count # 0 /\ stop_count \in Nat
      BY <2>1 DEF ReadersCounted, BaseType
    <2>2. live \in Buffer /\ Cardinality(Resets(live)) \in Nat
      BY CountsFinite DEF BaseType
    <2>3. record_disabled[live] # 0
      BY <1>1, <2>1a, <2>2 DEF StoppedOne
    <2>4. QED
      BY <2>3 DEF Records
  <1>4. \A b \in Buffer : record_disabled[b] \in Nat
    BY <1>1, CountsFinite DEF StoppedOne
  <1>5. QED
    BY <1>2, <1>3, <1>4 DEF BaseType, TypeOK

-----------------------------------------------------------------------------
(* The results.                                                              *)

(* tracing_start, ring_buffer_record_enable: for the global array no count   *)
(* that stops a buffer goes below zero.                                      *)
THEOREM TypeCorrect == Spec => []TypeOK
  <1>1. IndInv => TypeOK
    <2>1. CASE Global
      BY <2>1, BalanceImplies DEF IndInv
    <2>2. CASE ~Global
      BY <2>2 DEF IndInv, BaseType, TypeOK
    <2>3. QED
      BY <2>1, <2>2
  <1>2. QED
    BY <1>1, Invariance, PTL

(* Each buffer of the global array is disabled once while the array is       *)
(* stopped, and once per reset that found it, whichever buffer is live by    *)
(* now: resets of a clear, of free_snapshot and of tracer_init.  The array   *)
(* is stopped for its readers and nobody else until tracing is disabled, and *)
(* for at least its readers from then on.                                    *)
THEOREM BalanceCorrect == ASSUME Global PROVE Spec => []DisableBalanced
  <1>1. IndInv => DisableBalanced
    BY BalanceImplies DEF IndInv
  <1>2. QED
    BY <1>1, Invariance, PTL

(* __tracing_open: while a file "trace" is open nothing is recorded, though  *)
(* a CPU may still swap the buffers.                                         *)
THEOREM DumpCorrect == ASSUME Global PROVE Spec => []DumpStopped
  <1>1. IndInv => DumpStopped
    BY BalanceImplies DEF IndInv
  <1>2. QED
    BY <1>1, Invariance, PTL

(* synchronize_sched in tracing_set_tracer: no latency tracer is inside      *)
(* update_max_tr when a change of tracer shrinks the spare buffer, for       *)
(* instances too.                                                            *)
THEOREM ShrinkCorrect == Spec => ShrinkQuiet
  <1>1. IndInv => \A f \in File : file[f].at = "shrink" /\ file[f].next # Nobody => ~TracerSwaps
    BY DEF IndInv, SettingHeld, Setting, TracerSwaps
  <1>2. IndInv => [\A f \in File : /\ file[f].at = "shrink" /\ file[f].next # Nobody
                                   /\ file'[f].at # "shrink"
                     => ~TracerSwaps]_vars
    BY <1>1
  <1>3. QED
    BY <1>2, Invariance, PTL DEF ShrinkQuiet

-----------------------------------------------------------------------------
(* The settings.                                                             *)

(* The types of what the settings add to TraceArray.                         *)
SettingType ==
    /\ ring_buffer_expanded \in BOOLEAN
    /\ overwrite \in BOOLEAN /\ ring_overwrite \in [Buffer -> BOOLEAN]
    /\ clock_id \in Clock /\ ring_clock \in [Buffer -> Clock]
    /\ op \in OpState
    /\ apart \subseteq {"size", "overwrite", "clock"}

(* tracing_set_clock resets the buffers, as the files do.                    *)
OpResets(b) == op.at \in {"wait", "wait2"} /\ op.buf = b
OpBalanced == \A b \in Buffer : Slack(b) = One(OpResets(b))

(* Whoever changes a setting holds the mutex and does nothing else.          *)
OpHolds == op.at # "idle" =>
    trace_types_lock \in File /\ file[trace_types_lock].at = "closed"

(* free_snapshot and a latency tracer exclude each other.                    *)
Freeing(f) == file[f].at \in {"sync", "shrink", "shrunk", "reset"}
TracersApart ==
    /\ current_trace \in MaxTracer => allocated_snapshot
    /\ \A f \in File : Freeing(f) => {current_trace, file[f].next} \cap MaxTracer = {}
    /\ \A f \in File : file[f].at \in {"set", "init"} /\ file[f].next \in MaxTracer
                      => allocated_snapshot

(* The two halves of a change of the overwrite mode.                         *)
Overwrites ==
    /\ op.at # "overwrite" /\ "overwrite" \notin apart
       => \A b \in Buffer : ring_overwrite[b] = overwrite
    /\ op.at = "overwrite" /\ ~op.moved => ring_overwrite[live] = overwrite

(* The two halves of a change of the clock.                                  *)
Clocks ==
    /\ op.at \in {"idle", "resize", "back", "overwrite"} /\ "clock" \notin apart
       => \A b \in Buffer : ring_clock[b] = clock_id
    /\ op.at \in {"clock", "wait", "cleared"} /\ ~op.moved => ring_clock[live] = clock_id
    /\ op.at \in {"clock2", "wait2"} /\ ~op.moved => \A b \in Buffer : ring_clock[b] = clock_id

(* While nothing is apart the live buffer has the recorded size, or the one  *)
(* it is changed to, and so has the spare one while the snapshot is          *)
(* allocated and is not being freed.                                         *)
Shrunk == \E f \in File : file[f].at \in {"shrunk", "reset"}
Sizes ==
    /\ op.at = "resize" /\ (op.moved => "size" \notin apart) => size[live] = op.size
    /\ ~Resizing /\ ~tracing_disabled /\ "size" \notin apart => size[live] = entries
    /\ /\ allocated_snapshot /\ ~Shrunk /\ ~tracing_disabled /\ "size" \notin apart
       /\ Resizing => ~op.moved
       => size[spare] = entries

SettingsInv ==
    /\ Global
    /\ BaseType /\ ReadersCounted /\ HoldsLock /\ SettingHeld
    /\ SettingType /\ OpBalanced /\ OpHolds /\ TracersApart
    /\ Overwrites /\ Clocks /\ Sizes

-----------------------------------------------------------------------------
(* Steps of TraceArray.                                                      *)

LEMMA FileStepOp ==
    ASSUME NEW f \in File, FileStep(f)
    PROVE  FileOp(f)
  BY DEF FileStep, FileOp

LEMMA DisabledSame ==
    ASSUME (\E f \in File : FileOp(f)) \/ (\E c \in Cpu : CpuOp(c)) \/ AllocSnapshot
    PROVE  tracing_disabled' = tracing_disabled
  <1>1. CASE \E f \in File : FileOp(f)
    BY <1>1 DEF FileOp, OpenTrace, ReleaseTrace, ClearChoose, ClearBegin, ClearEnd,
                WriteSnapshotFree, WriteSnapshotTake, WriteSnapshotSwap, WriteSnapshotClear,
                Shrink, ResetSpare, Freed, Synchronized, SetTracerFreeing, SetTracer,
                SetUninitialised, InitTracer, TracerInitialised, stops
  <1>2. CASE (\E c \in Cpu : CpuOp(c)) \/ AllocSnapshot
    BY <1>2 DEF CpuOp, TracerSwap, CallSnapshot, Swap, AllocSnapshot, stops
  <1>3. QED
    BY <1>1, <1>2

LEMMA ArrayBase ==
    ASSUME SettingsInv, ArrayStep
    PROVE  /\ BaseType' /\ ReadersCounted' /\ HoldsLock' /\ SettingHeld'
           /\ \A b \in Buffer : Slack(b)' = Slack(b)
  <1> USE DEF SettingsInv
  <1>1. CASE \E f \in File : FileStep(f)
    <2>1. PICK f \in File : FileOp(f)
      BY <1>1, FileStepOp
    <2>2. Kept /\ stop_count' \in Nat
      BY <2>1, FileKept
    <2>3. BaseType' /\ HoldsLock' /\ SettingHeld'
      BY <2>1, <2>2, FileType, FileHolds
    <2>4. QED
      BY <2>2, <2>3 DEF Kept
  <1>2. CASE (\E c \in Cpu : CpuOp(c)) \/ AllocSnapshot
    <2>1. Kept /\ BaseType' /\ HoldsLock' /\ SettingHeld'
      BY <1>2, OtherKept, OtherType, OtherHolds
    <2>2. QED
      BY <2>1 DEF Kept
  <1>3. QED
    BY <1>1, <1>2 DEF ArrayStep

(* While a setting is changed a file can only clear the trace, without the   *)
(* mutex.                                                                    *)
LEMMA OnlyClears ==
    ASSUME SettingsInv, op.at # "idle", NEW f \in File, FileStep(f)
    PROVE  (ClearChoose(f) \/ ClearBegin(f) \/ ClearEnd(f)) /\ trace_types_lock # f
  <1> USE DEF SettingsInv
  <1>1. trace_types_lock # f
    BY DEF FileStep
  <1>2. trace_types_lock # Nobody
    BY ActorAssumption DEF OpHolds
  <1>3. file[f].at \notin {"sync", "shrink", "shrunk", "reset", "set", "init", "swap"}
    BY <1>1 DEF HoldsLock
  <1>4. FileOp(f)
    BY FileStepOp
  <1>5. ~(OpenTrace(f) \/ ReleaseTrace(f) \/ WriteSnapshotFree(f) \/ WriteSnapshotTake(f)
          \/ WriteSnapshotClear(f))
    BY <1>2 DEF OpenTrace, ReleaseTrace, WriteSnapshotFree, WriteSnapshotTake,
                WriteSnapshotClear, Locked
  <1>6. ~(WriteSnapshotSwap(f) \/ Shrink(f) \/ ResetSpare(f) \/ Freed(f) \/ Synchronized(f)
          \/ SetUninitialised(f) \/ InitTracer(f) \/ TracerInitialised(f))
    BY <1>3 DEF WriteSnapshotSwap, Shrink, ResetSpare, Freed, Synchronized,
                SetUninitialised, InitTracer, TracerInitialised
  <1>7. ~ \E t \in Tracer : SetTracerFreeing(f, t) \/ SetTracer(f, t)
    BY <1>2 DEF SetTracerFreeing, SetTracer, Locked
  <1>8. QED
    BY <1>1, <1>4, <1>5, <1>6, <1>7 DEF FileOp

(* What ArrayStep does to the change in progress.                            *)
LEMMA ArrayOpSame ==
    ASSUME SettingsInv, ArrayStep
    PROVE  /\ op' \in OpState /\ op'.at = op.at /\ op'.buf = op.buf /\ op'.size = op.size
           /\ op'.moved = (op.moved \/ (op.at # "idle" /\ live' # live))
           /\ apart' = IF live' # live /\ size[live] # size[spare] THEN apart \cup {"size"}
                       ELSE apart
           /\ UNCHANGED <<ring_buffer_expanded, tracing_disabled, settings>>
  <1>1. op \in OpState
    BY DEF SettingsInv, SettingType
  <1>2. op' = [op EXCEPT !.moved = op.moved \/ (op.at # "idle" /\ live' # live)]
    BY DEF ArrayStep
  <1>3. (op.moved \/ (op.at # "idle" /\ live' # live)) \in BOOLEAN
    BY <1>1 DEF OpState
  <1>4. tracing_disabled' = tracing_disabled
    BY DisabledSame, FileStepOp DEF ArrayStep
  <1>5. QED
    BY <1>1, <1>2, <1>3, <1>4 DEF OpState, ArrayStep

LEMMA ArrayOpHolds ==
    ASSUME SettingsInv, ArrayStep
    PROVE  OpHolds'
  <1> USE DEF SettingsInv
  <1>0. SUFFICES ASSUME op.at # "idle"
                 PROVE  trace_types_lock' \in File /\ file'[trace_types_lock'].at = "closed"
    BY ArrayOpSame DEF OpHolds
  <1>1. trace_types_lock \in File /\ file[trace_types_lock].at = "closed"
    BY <1>0 DEF OpHolds
  <1>2. CASE \E f \in File : FileStep(f)
    <2>1. PICK f \in File : FileStep(f)
      BY <1>2
    <2>2. (ClearChoose(f) \/ ClearBegin(f) \/ ClearEnd(f)) /\ trace_types_lock # f
      BY <1>0, <2>1, OnlyClears
    <2>3. trace_types_lock' = trace_types_lock /\ file'[trace_types_lock] = file[trace_types_lock]
      BY <1>1, <2>2 DEF ClearChoose, ClearBegin, ClearEnd, BaseType
    <2>4. QED
      BY <1>1, <2>3
  <1>3. CASE (\E c \in Cpu : CpuOp(c)) \/ AllocSnapshot
    <2>1. trace_types_lock' = trace_types_lock /\ \A f \in File : file'[f].at = file[f].at
      BY <1>3 DEF CpuOp, TracerSwap, CallSnapshot, Swap, AllocSnapshot, BaseType, FileState
    <2>2. QED
      BY <1>1, <2>1
  <1>4. QED
    BY <1>2, <1>3 DEF ArrayStep

LEMMA ArrayOverwritesClocks ==
    ASSUME SettingsInv, ArrayStep
    PROVE  Overwrites' /\ Clocks'
  <1> USE DEF SettingsInv
  <1>1. /\ op'.at = op.at /\ (op.at # "idle" /\ ~op'.moved => ~op.moved /\ live' = live)
        /\ "overwrite" \in apart' <=> "overwrite" \in apart
        /\ "clock" \in apart' <=> "clock" \in apart
        /\ UNCHANGED <<overwrite, ring_overwrite, clock_id, ring_clock>>
    BY ArrayOpSame DEF settings
  <1>2. Overwrites'
    BY <1>1 DEF Overwrites
  <1>3. Clocks'
    BY <1>1 DEF Clocks
  <1>4. QED
    BY <1>2, <1>3

-----------------------------------------------------------------------------
(* Sizes and tracers, over the steps of TraceArray.                          *)

LEMMA NotFreeing ==
    ASSUME SettingsInv, trace_types_lock = Nobody
    PROVE  \A f \in File : ~Freeing(f) /\ file[f].at \notin {"set", "init", "swap"}
  BY ActorAssumption DEF SettingsInv, HoldsLock, Freeing

LEMMA TracersFileStep ==
    ASSUME SettingsInv, NEW f \in File, FileOp(f)
    PROVE  TracersApart'
  <1> USE DEF SettingsInv, BaseType, stops
  <1>1. CASE \/ OpenTrace(f) \/ ReleaseTrace(f) \/ ClearChoose(f) \/ ClearBegin(f) \/ ClearEnd(f)
             \/ WriteSnapshotClear(f) \/ WriteSnapshotSwap(f)
    <2>1. /\ OthersSame(f) /\ file'[f].at \in {"closed", "reading", "live", "spare", "clear"}
          /\ UNCHANGED <<current_trace, allocated_snapshot>>
      <3>1. CASE OpenTrace(f) \/ ReleaseTrace(f) \/ ClearChoose(f)
        BY <3>1, EntryAt DEF OpenTrace, ReleaseTrace, ClearChoose, At
      <3>2. CASE ClearBegin(f) \/ WriteSnapshotClear(f)
        <4>1. PICK b \in Buffer : file' = [file EXCEPT ![f].at = "clear", ![f].buf = b]
          BY <3>2 DEF ClearBegin, WriteSnapshotClear, spare, Buffer
        <4>2. OthersSame(f) /\ file'[f].at = "clear"
          BY <4>1, EntryBuf DEF At
        <4>3. QED
          BY <3>2, <4>2 DEF ClearBegin, WriteSnapshotClear
      <3>3. CASE ClearEnd(f) \/ WriteSnapshotSwap(f)
        BY <3>3, EntryClosed DEF ClearEnd, WriteSnapshotSwap
      <3>4. QED
        BY <1>1, <3>1, <3>2, <3>3
    <2>2. QED
      BY <2>1 DEF TracersApart, Freeing, OthersSame
  <1>2. CASE WriteSnapshotFree(f)
    <2>1. /\ OthersSame(f) /\ file'[f].at = "shrink" /\ file'[f].next = file[f].next
          /\ file[f].at = "closed" /\ current_trace \notin MaxTracer
          /\ UNCHANGED <<current_trace, allocated_snapshot>>
      BY <1>2, EntryAt DEF WriteSnapshotFree, Locked, SnapshotBusy, At
    <2>2. file[f].next = Nobody
      BY <2>1 DEF SettingHeld, Setting
    <2>3. Nobody \notin MaxTracer
      BY TracerAssumption DEF Tracer
    <2>4. QED
      BY <2>1, <2>2, <2>3 DEF TracersApart, Freeing, OthersSame
  <1>3. CASE WriteSnapshotTake(f)
    <2>1. \A g \in File : file'[g].at = file[g].at \/ file'[g].at = "swap"
      <3>1. CASE file' = [file EXCEPT ![f].at = "swap"]
        BY <3>1, EntryAt DEF OthersSame, At
      <3>2. QED
        BY <1>3, <3>1 DEF WriteSnapshotTake
    <2>2. \A g \in File : ~Freeing(g)
      BY <1>3, NotFreeing DEF WriteSnapshotTake, Locked
    <2>3. QED
      BY <1>3, <2>1, <2>2 DEF WriteSnapshotTake, TracersApart, Freeing
  <1>4. CASE Shrink(f) \/ ResetSpare(f) \/ Synchronized(f)
    <2>1. /\ OthersSame(f) /\ file'[f].next = file[f].next
          /\ file'[f].at \in {"shrink", "shrunk", "reset"}
      <3>1. CASE Shrink(f) \/ Synchronized(f)
        BY <3>1, EntryAt DEF Shrink, Synchronized, At
      <3>2. CASE ResetSpare(f)
        <4>1. spare \in Buffer
          BY DEF spare, Buffer
        <4>2. file' = [file EXCEPT ![f].at = "reset", ![f].buf = spare]
          BY <3>2 DEF ResetSpare
        <4>3. PICK b \in Buffer : file' = [file EXCEPT ![f].at = "reset", ![f].buf = b]
          BY <4>1, <4>2
        <4>4. QED
          BY <4>3, EntryBuf DEF At
      <3>3. QED
        BY <1>4, <3>1, <3>2
    <2>2. Freeing(f) /\ UNCHANGED <<current_trace, allocated_snapshot>>
      BY <1>4 DEF Shrink, ResetSpare, Synchronized, Freeing, rings
    <2>3. QED
      BY <2>1, <2>2 DEF TracersApart, Freeing, OthersSame
  <1>5. CASE Freed(f)
    <2>1. /\ file[f].at = "reset" /\ {current_trace, file[f].next} \cap MaxTracer = {}
          /\ current_trace' = current_trace
      BY <1>5 DEF Freed, TracersApart, Freeing
    <2>2. /\ OthersSame(f) /\ file'[f].at \in {"closed", "set"}
          /\ file'[f].next \in {Nobody, file[f].next}
      <3>1. CASE file[f].next = Nobody
        BY <1>5, <3>1, EntryClosed DEF Freed
      <3>2. CASE file[f].next # Nobody
        <4>1. file[f].next \in Tracer
          BY <3>2 DEF FileState
        <4>2. QED
          BY <1>5, <3>2, <4>1, EntrySet DEF Freed
      <3>3. QED
        BY <3>1, <3>2
    <2>3. \A g \in File : g # f => file[g].at \notin {"sync", "shrink", "shrunk", "reset", "set", "init"}
      BY <2>1 DEF HoldsLock
    <2>4. Nobody \notin MaxTracer
      BY TracerAssumption DEF Tracer
    <2>5. QED
      BY <2>1, <2>2, <2>3, <2>4 DEF TracersApart, Freeing, OthersSame
  <1>6. CASE \E t \in Tracer : SetTracerFreeing(f, t)
    <2>1. PICK t \in Tracer : SetTracerFreeing(f, t)
      BY <1>6
    <2>2. PICK W \in SUBSET Cpu : file' = [file EXCEPT ![f].at = "sync", ![f].next = t, ![f].wait = W]
      <3>1. {c \in Cpu : swap[c] # "none"} \in SUBSET Cpu
        OBVIOUS
      <3>2. QED
        BY <2>1, <3>1 DEF SetTracerFreeing
    <2>3. OthersSame(f) /\ file'[f].at = "sync" /\ file'[f].next = t
      BY <2>2, EntryNext DEF At
    <2>4. t \notin MaxTracer /\ current_trace' \notin MaxTracer
      BY <2>1, TracerAssumption DEF SetTracerFreeing
    <2>5. \A g \in File : ~Freeing(g) /\ file[g].at \notin {"set", "init"}
      BY <2>1, NotFreeing DEF SetTracerFreeing, Locked
    <2>6. QED
      BY <2>3, <2>4, <2>5 DEF TracersApart, Freeing, OthersSame
  <1>7. CASE \E t \in Tracer : SetTracer(f, t)
    <2>1. PICK t \in Tracer : SetTracer(f, t)
      BY <1>7
    <2>2. \A g \in File : ~Freeing(g) /\ file[g].at \notin {"set", "init"}
      BY <2>1, NotFreeing DEF SetTracer, Locked
    <2>3. current_trace' \notin MaxTracer
      BY <2>1, TracerAssumption DEF SetTracer
    <2>4. CASE file' = file
      BY <2>2, <2>3, <2>4 DEF TracersApart, Freeing
    <2>5. CASE BeginSetting(f, t) /\ (t \in MaxTracer => allocated_snapshot')
      <3>1. OthersSame(f) /\ file'[f].at = "set" /\ file'[f].next = t
        BY <2>5, EntrySet
      <3>2. QED
        BY <2>2, <2>3, <2>5, <3>1 DEF TracersApart, Freeing, OthersSame
    <2>6. QED
      BY <2>1, <2>4, <2>5 DEF SetTracer
  <1>8. CASE InitTracer(f)
    <2>1. PICK b \in Buffer : file' = [file EXCEPT ![f].at = "init", ![f].buf = b]
      BY <1>8 DEF InitTracer
    <2>2. OthersSame(f) /\ file'[f].at = "init" /\ file'[f].next = file[f].next
      BY <2>1, EntryBuf DEF At
    <2>3. file[f].at = "set" /\ UNCHANGED <<current_trace, allocated_snapshot>>
      BY <1>8 DEF InitTracer
    <2>4. QED
      BY <2>2, <2>3 DEF TracersApart, Freeing, OthersSame
  <1>9. CASE SetUninitialised(f) \/ TracerInitialised(f)
    <2>1. OthersSame(f) /\ file'[f].at = "closed"
      BY <1>9, EntryClosed DEF SetUninitialised, TracerInitialised
    <2>2. /\ file[f].at \in {"set", "init"} /\ current_trace' \in {file[f].next, Nop}
          /\ allocated_snapshot' = allocated_snapshot
      BY <1>9 DEF SetUninitialised, TracerInitialised
    <2>3. \A g \in File : g # f => file[g].at \notin {"sync", "shrink", "shrunk", "reset", "set", "init"}
      BY <2>2 DEF HoldsLock
    <2>4. current_trace' \in MaxTracer => allocated_snapshot'
      BY <2>2, TracerAssumption DEF TracersApart
    <2>5. QED
      BY <2>1, <2>3, <2>4 DEF TracersApart, Freeing, OthersSame
  <1>10. QED
    BY <1>1, <1>2, <1>3, <1>4, <1>5, <1>6, <1>7, <1>8, <1>9 DEF FileOp

LEMMA ArrayTracersApart ==
    ASSUME SettingsInv, ArrayStep
    PROVE  TracersApart'
  <1> USE DEF SettingsInv, BaseType
  <1>1. CASE \E f \in File : FileStep(f)
    BY <1>1, FileStepOp, TracersFileStep
  <1>2. CASE (\E c \in Cpu : CpuOp(c)) \/ AllocSnapshot
    <2>1. /\ current_trace' = current_trace
          /\ allocated_snapshot => allocated_snapshot'
          /\ \A f \in File : file'[f].at = file[f].at /\ file'[f].next = file[f].next
      BY <1>2 DEF CpuOp, TracerSwap, CallSnapshot, Swap, AllocSnapshot, FileState
    <2>2. QED
      BY <2>1 DEF TracersApart, Freeing
  <1>3. QED
    BY <1>1, <1>2 DEF ArrayStep

(* The five ways in which a step of TraceArray changes what Sizes speaks of: *)
(* not at all, a swap, an allocation, a shrink or the end of one.            *)
SizesSame   == live' = live /\ size' = size /\ allocated_snapshot' = allocated_snapshot
               /\ (Shrunk => Shrunk')
SizesSwap   == live' = spare /\ size' = size /\ allocated_snapshot' = allocated_snapshot
               /\ (Shrunk => Shrunk')
SizesAlloc  == live' = live /\ size' = Allocated /\ (Shrunk => Shrunk')
SizesShrink == live' = live /\ size' = [size EXCEPT ![spare] = 1] /\ Shrunk'
SizesFreed  == live' = live /\ size' = size /\ ~allocated_snapshot'
SizesStep   == \/ SizesSame \/ SizesSwap \/ SizesAlloc \/ SizesShrink \/ SizesFreed

LEMMA FileSizes ==
    ASSUME SettingsInv, NEW f \in File, FileOp(f)
    PROVE  entries' = entries /\ SizesStep
  <1> USE DEF SettingsInv, BaseType, SizesStep, stops
  <1>1. ASSUME OthersSame(f), file[f].at \notin {"shrunk", "reset"} \/ file'[f].at \in {"shrunk", "reset"}
        PROVE  Shrunk => Shrunk'
    BY <1>1 DEF Shrunk, OthersSame
  <1>2. CASE \/ OpenTrace(f) \/ ReleaseTrace(f) \/ ClearChoose(f)
             \/ WriteSnapshotFree(f) \/ Synchronized(f)
    <2>1. OthersSame(f) /\ file[f].at \in {"closed", "reading", "sync"}
      BY <1>2, EntryAt DEF OpenTrace, ReleaseTrace, ClearChoose, WriteSnapshotFree, Synchronized,
                           Locked, At
    <2>2. QED
      BY <1>1, <1>2, <2>1 DEF OpenTrace, ReleaseTrace, ClearChoose, WriteSnapshotFree,
                              Synchronized, SizesSame, rings, sizes
  <1>3. CASE ClearBegin(f) \/ WriteSnapshotClear(f) \/ ResetSpare(f) \/ InitTracer(f)
    <2>1. PICK b \in Buffer, at \in {"clear", "reset", "init"} :
            /\ file' = [file EXCEPT ![f].at = at, ![f].buf = b]
            /\ file[f].at \in {"closed", "live", "spare", "set"} \/ at = "reset"
      BY <1>3, BeginEntry
    <2>2. OthersSame(f) /\ file'[f].at = at
      BY <2>1, EntryBuf DEF At
    <2>3. Shrunk => Shrunk'
      BY <1>1, <2>1, <2>2
    <2>4. QED
      BY <1>3, <2>3 DEF ClearBegin, WriteSnapshotClear, ResetSpare, InitTracer, SizesSame, sizes
  <1>4. CASE \/ ClearEnd(f) \/ WriteSnapshotSwap(f)
             \/ SetUninitialised(f) \/ TracerInitialised(f)
    <2>1. OthersSame(f) /\ file[f].at \in {"clear", "swap", "set", "init"}
      BY <1>4, EntryClosed DEF ClearEnd, WriteSnapshotSwap, SetUninitialised, TracerInitialised
    <2>2. QED
      BY <1>1, <1>4, <2>1 DEF ClearEnd, WriteSnapshotSwap, SetUninitialised, TracerInitialised,
                              SizesSame, SizesSwap, rings, sizes
  <1>5. CASE WriteSnapshotTake(f)
    <2>1. Shrunk => Shrunk'
      BY <1>5, NotFreeing DEF WriteSnapshotTake, Locked, Shrunk, Freeing
    <2>2. QED
      BY <1>5, <2>1 DEF WriteSnapshotTake, SizesSame, SizesAlloc
  <1>6. CASE Shrink(f)
    <2>1. file'[f].at = "shrunk"
      BY <1>6, EntryAt DEF Shrink, At
    <2>2. QED
      BY <1>6, <2>1 DEF Shrink, SizesShrink, Shrunk
  <1>7. CASE Freed(f)
    BY <1>7 DEF Freed, SizesFreed, sizes
  <1>8. CASE \E t \in Tracer : SetTracerFreeing(f, t) \/ SetTracer(f, t)
    <2>1. Shrunk => Shrunk'
      BY <1>8, NotFreeing DEF SetTracerFreeing, SetTracer, Locked, Shrunk, Freeing
    <2>2. QED
      BY <1>8, <2>1 DEF SetTracerFreeing, SetTracer, SizesSame, SizesAlloc, rings, sizes
  <1>9. QED
    BY <1>2, <1>3, <1>4, <1>5, <1>6, <1>7, <1>8 DEF FileOp

LEMMA ArraySizesStep ==
    ASSUME SettingsInv, ArrayStep
    PROVE  entries' = entries /\ SizesStep
  <1> USE DEF SettingsInv, BaseType
  <1>1. CASE \E f \in File : FileStep(f)
    BY <1>1, FileStepOp, FileSizes
  <1>2. CASE (\E c \in Cpu : CpuOp(c)) \/ AllocSnapshot
    <2>1. \A f \in File : file'[f].at = file[f].at
      BY <1>2 DEF CpuOp, TracerSwap, CallSnapshot, Swap, AllocSnapshot, FileState
    <2>2. Shrunk => Shrunk'
      BY <2>1 DEF Shrunk
    <2>3. QED
      BY <1>2, <2>2 DEF CpuOp, TracerSwap, CallSnapshot, Swap, AllocSnapshot,
                        SizesStep, SizesSame, SizesSwap, SizesAlloc, rings, sizes
  <1>3. QED
    BY <1>1, <1>2 DEF ArrayStep

LEMMA ArraySizes ==
    ASSUME SettingsInv, ArrayStep
    PROVE  Sizes'
  <1> USE DEF SettingsInv, BaseType
  <1>1. /\ op'.at = op.at /\ op'.size = op.size /\ Resizing' = Resizing
        /\ op'.moved = (op.moved \/ (op.at # "idle" /\ live' # live))
        /\ apart' = IF live' # live /\ size[live] # size[spare] THEN apart \cup {"size"} ELSE apart
        /\ tracing_disabled' = tracing_disabled
    BY ArrayOpSame DEF Resizing
  <1>2. entries' = entries
    BY ArraySizesStep
  <1>3. /\ live \in Buffer /\ spare \in Buffer /\ spare # live
        /\ spare' = 1 - live'
    BY DEF spare, Buffer
  <1>4. CASE SizesSwap
    <2>1. live' = spare /\ spare' = live /\ size' = size /\ live' # live
      BY <1>3, <1>4 DEF SizesSwap, spare, Buffer
    <2>2. CASE size[live] # size[spare]
      <3>1. "size" \in apart'
        BY <1>1, <2>1, <2>2
      <3>2. op'.at = "resize" => op'.moved
        BY <1>1, <2>1
      <3>3. QED
        BY <3>1, <3>2 DEF Sizes
    <2>3. CASE size[live] = size[spare]
      <3>1. apart' = apart /\ size'[live'] = size[live] /\ size'[spare'] = size[live]
        BY <1>1, <2>1, <2>3
      <3>2. op'.at = "resize" /\ (op'.moved => "size" \notin apart') => size'[live'] = op'.size
        BY <1>1, <2>1, <3>1 DEF Sizes
      <3>3. Resizing => op'.moved
        BY <1>1, <2>1 DEF Resizing
      <3>4. ~Resizing' /\ ~tracing_disabled' /\ "size" \notin apart' => size'[live'] = entries'
        BY <1>1, <1>2, <3>1 DEF Sizes
      <3>5. Resizing' /\ ~op'.moved => FALSE
        BY <1>1, <3>3
      <3>6. QED
        BY <1>1, <1>2, <3>1, <3>2, <3>4, <3>5 DEF Sizes
    <2>4. QED
      BY <2>2, <2>3
  <1>5. CASE SizesSame \/ SizesAlloc \/ SizesShrink \/ SizesFreed
    <2>1. live' = live /\ spare' = spare /\ apart' = apart /\ size'[live] = size[live]
      BY <1>1, <1>3, <1>5 DEF SizesSame, SizesAlloc, SizesShrink, SizesFreed, Allocated, spare
    <2>2. op'.moved = op.moved
      <3>1. op.moved \in BOOLEAN
        BY DEF SettingType, OpState
      <3>2. QED
        BY <1>1, <2>1, <3>1
    <2>3. allocated_snapshot' /\ ~Shrunk' =>
            \/ size'[spare] = entries
            \/ allocated_snapshot /\ ~Shrunk /\ size'[spare] = size[spare]
      BY <1>3, <1>5 DEF SizesSame, SizesAlloc, SizesShrink, SizesFreed, Allocated
    <2>4. /\ op'.at = "resize" /\ (op'.moved => "size" \notin apart') => size'[live'] = op'.size
          /\ ~Resizing' /\ ~tracing_disabled' /\ "size" \notin apart' => size'[live'] = entries'
      BY <1>1, <1>2, <2>1, <2>2 DEF Sizes
    <2>5. /\ allocated_snapshot' /\ ~Shrunk' /\ ~tracing_disabled' /\ "size" \notin apart'
          /\ Resizing' => ~op'.moved
          => size'[spare'] = entries'
      BY <1>1, <1>2, <2>1, <2>2, <2>3 DEF Sizes
    <2>6. QED
      BY <2>4, <2>5 DEF Sizes
  <1>6. QED
    BY <1>4, <1>5, ArraySizesStep DEF SizesStep

-----------------------------------------------------------------------------
(* Changes of a setting.  They leave the files, the CPUs and the tracer as   *)
(* they are.                                                                 *)

LEMMA IdleFields ==
    Idle \in OpState /\ Idle.at = "idle" /\ Idle.moved = FALSE
  <1>1. 1 \in Size
    BY SizeAssumption DEF Size
  <1>2. QED
    BY <1>1 DEF Idle, OpState, Buffer

LEMMA BeginsIdle ==
    ASSUME SettingsInv, trace_types_lock = Nobody
    PROVE  op.at = "idle"
  BY ActorAssumption DEF SettingsInv, OpHolds

(* The mutex is taken, kept or given back by the change.                     *)
LockMoves ==
    \/ trace_types_lock' = trace_types_lock
    \/ trace_types_lock = Nobody /\ trace_types_lock' \in File
    \/ op.at # "idle" /\ trace_types_lock' = Nobody

(* Tracing stays as it is or is disabled for good.                           *)
Disables == tracing_disabled' \in BOOLEAN /\ (tracing_disabled => tracing_disabled')

LEMMA SettingBase ==
    ASSUME SettingsInv, UNCHANGED rest, LockMoves, Disables,
           size' \in [Buffer -> Size], entries' \in Size, record_disabled' \in [Buffer -> Int]
    PROVE  /\ BaseType' /\ ReadersCounted' /\ HoldsLock' /\ SettingHeld' /\ TracersApart'
           /\ \A b \in Buffer : Slack(b)' = Slack(b) + record_disabled'[b] - record_disabled[b]
           /\ spare' = spare /\ Shrunk' = Shrunk
  <1> USE DEF SettingsInv
  <1>1. /\ UNCHANGED <<live, record_on, stop_count, buffer_disabled, allocated_snapshot>>
        /\ UNCHANGED <<current_trace, file, swap>>
    BY DEF rest
  <1>2. trace_types_lock' \in File \cup {Nobody}
    BY DEF LockMoves, BaseType
  <1>3. BaseType'
    BY <1>1, <1>2 DEF BaseType, Disables
  <1>4. Readers' = Readers /\ \A b \in Buffer : Resets(b)' = Resets(b)
    BY <1>1 DEF Readers, Resets
  <1>5. ReadersCounted'
    <2>1. Cardinality(Readers) \in Nat
      BY CountsFinite
    <2>2. QED
      BY <1>1, <1>4, <2>1 DEF ReadersCounted, Disables, BaseType
  <1>6. ASSUME NEW b \in Buffer
        PROVE  Slack(b)' = Slack(b) + record_disabled'[b] - record_disabled[b]
    <2>1. Cardinality(Resets(b)) \in Nat /\ Resets(b)' = Resets(b)
      BY <1>4, CountsFinite
    <2>2. record_disabled[b] \in Int /\ record_disabled'[b] \in Int
      BY DEF BaseType
    <2>3. StoppedOne' = StoppedOne /\ StoppedOne \in Int
      BY <1>1 DEF StoppedOne
    <2>4. QED
      BY <2>1, <2>2, <2>3 DEF Slack
  <1>7. HoldsLock'
    <2>1. CASE trace_types_lock' = trace_types_lock
      BY <1>1, <2>1 DEF HoldsLock
    <2>2. CASE trace_types_lock = Nobody
      BY <1>1, <2>2, NotFreeing DEF HoldsLock, Freeing
    <2>3. CASE op.at # "idle"
      <3>1. \A f \in File :
              file[f].at \notin {"sync", "shrink", "shrunk", "reset", "set", "init", "swap"}
        BY <2>3 DEF OpHolds, HoldsLock
      <3>2. QED
        BY <1>1, <3>1 DEF HoldsLock
    <2>4. QED
      BY <2>1, <2>2, <2>3 DEF LockMoves
  <1>8. SettingHeld' /\ TracersApart'
    BY <1>1 DEF SettingHeld, Setting, TracersApart, Freeing
  <1>9. spare' = spare /\ Shrunk' = Shrunk
    BY <1>1 DEF spare, Shrunk
  <1>10. QED
    BY <1>3, <1>5, <1>6, <1>7, <1>8, <1>9

(* A change outside the reset of a buffer begins or ends outside it.         *)
LEMMA NoReset ==
    ASSUME SettingsInv, UNCHANGED rest, LockMoves, Disables, record_disabled' = record_disabled,
           size' \in [Buffer -> Size], entries' \in Size,
           op.at \notin {"wait", "wait2"}, op'.at \notin {"wait", "wait2"}
    PROVE  OpBalanced'
  <1>1. /\ record_disabled' \in [Buffer -> Int]
        /\ \A b \in Buffer : Slack(b) \in Int
    BY CountsFinite DEF SettingsInv, BaseType, OpBalanced, One
  <1>2. \A b \in Buffer : Slack(b)' = Slack(b)
    <2>1. \A b \in Buffer : record_disabled[b] \in Int
      BY DEF SettingsInv, BaseType
    <2>2. QED
      BY <1>1, <2>1, SettingBase
  <1>3. \A b \in Buffer : ~OpResets(b) /\ ~OpResets(b)'
    BY DEF OpResets
  <1>4. QED
    BY <1>2, <1>3 DEF SettingsInv, OpBalanced, One

LEMMA ResizeLiveStep ==
    ASSUME SettingsInv, NEW f \in File, NEW n \in Size, ResizeLive(f, n)
    PROVE  SettingsInv'
  <1> USE DEF SettingsInv
  <1>0. Disables
    BY DEF ResizeLive, Disables, BaseType
  <1>1. trace_types_lock = Nobody /\ file[f].at = "closed" /\ op.at = "idle"
    BY BeginsIdle DEF ResizeLive, Locked
  <1>2. /\ UNCHANGED rest /\ record_disabled' = record_disabled /\ entries' = entries
        /\ UNCHANGED <<overwrite, ring_overwrite, clock_id, ring_clock>>
        /\ tracing_disabled' = tracing_disabled /\ apart' = apart
        /\ ring_buffer_expanded' = TRUE
    BY DEF ResizeLive, settings
  <1>2a. live' = live /\ allocated_snapshot' = allocated_snapshot /\ file' = file
    BY <1>2 DEF rest
  <1>3. CASE UNCHANGED <<size, op, apart, trace_types_lock>>
    <2>1. LockMoves /\ size' \in [Buffer -> Size] /\ entries' \in Size
          /\ record_disabled' \in [Buffer -> Int]
      BY <1>2, <1>3 DEF LockMoves, BaseType
    <2>2. /\ BaseType' /\ ReadersCounted' /\ HoldsLock' /\ SettingHeld' /\ TracersApart'
          /\ spare' = spare /\ Shrunk' = Shrunk
      BY <1>2, <2>1, <1>0, SettingBase
    <2>3. OpBalanced'
      BY <1>1, <1>2, <1>3, <2>1, <1>0, NoReset
    <2>4. SettingType' /\ OpHolds'
      BY <1>1, <1>2, <1>3 DEF SettingType, OpHolds
    <2>5. Overwrites' /\ Clocks' /\ Sizes'
      BY <1>2, <1>2a, <1>3, <2>2 DEF Overwrites, Clocks, Sizes, Resizing
    <2>6. QED
      BY <2>2, <2>3, <2>4, <2>5
  <1>4. CASE /\ size' = [size EXCEPT ![live] = n]
             /\ op' = [Idle EXCEPT !.at = "resize", !.size = n]
             /\ trace_types_lock' = f
    <2>1. op' \in OpState /\ op'.at = "resize" /\ op'.size = n /\ op'.moved = FALSE
      BY <1>4 DEF Idle, OpState, Buffer
    <2>2. LockMoves /\ size' \in [Buffer -> Size] /\ entries' \in Size
          /\ record_disabled' \in [Buffer -> Int]
      BY <1>1, <1>2, <1>4 DEF LockMoves, BaseType
    <2>3. /\ BaseType' /\ ReadersCounted' /\ HoldsLock' /\ SettingHeld' /\ TracersApart'
          /\ spare' = spare /\ Shrunk' = Shrunk
      BY <1>2, <2>2, <1>0, SettingBase
    <2>4. OpBalanced'
      BY <1>1, <1>2, <2>1, <2>2, <1>0, NoReset
    <2>5. SettingType' /\ OpHolds'
      BY <1>1, <1>2, <1>2a, <1>4, <2>1 DEF SettingType, OpHolds
    <2>6. Overwrites' /\ Clocks'
      BY <1>1, <1>2, <1>2a, <2>1 DEF Overwrites, Clocks
    <2>7. Sizes'
      <3>1. live \in Buffer /\ spare # live /\ size'[live] = n /\ size'[spare] = size[spare]
        BY <1>4 DEF BaseType, spare, Buffer
      <3>2. QED
        BY <1>1, <1>2, <1>2a, <2>1, <2>3, <3>1 DEF Sizes, Resizing
    <2>8. QED
      BY <2>3, <2>4, <2>5, <2>6, <2>7
  <1>5. QED
    BY <1>3, <1>4 DEF ResizeLive

LEMMA ResizeEnds ==
    ASSUME SettingsInv, RecordSize \/ ResizeSpare \/ ResizeBack
    PROVE  SettingsInv'
  <1> USE DEF SettingsInv
  <1>0. Disables
    BY DEF RecordSize, ResizeSpare, ResizeBack, Disables, BaseType
  <1>1. /\ UNCHANGED rest /\ record_disabled' = record_disabled
        /\ UNCHANGED <<overwrite, ring_overwrite, clock_id, ring_clock>>
        /\ UNCHANGED ring_buffer_expanded
        /\ op.at \in {"resize", "back"} /\ op \in OpState
    BY DEF RecordSize, ResizeSpare, ResizeBack, settings, SettingType
  <1>2. /\ live' = live /\ allocated_snapshot' = allocated_snapshot /\ file' = file
        /\ current_trace' = current_trace
    BY <1>1 DEF rest
  <1>3. op.size \in Size /\ op.moved \in BOOLEAN
    BY <1>1 DEF OpState
  <1>4. size' \in [Buffer -> Size] /\ entries' \in Size
    BY <1>3 DEF RecordSize, ResizeSpare, ResizeBack, BackTo, BaseType, sizes
  <1>5. /\ op' \in OpState /\ op'.moved \in BOOLEAN
        /\ \/ op' = Idle /\ trace_types_lock' = Nobody
           \/ /\ op'.at = "back" /\ op'.moved = op.moved
              /\ UNCHANGED <<size, entries, apart, trace_types_lock>>
    <2>1. CASE op' = Idle
      BY <2>1, IdleFields DEF RecordSize, ResizeSpare, ResizeBack, Complete, Idle
    <2>2. CASE op' = [op EXCEPT !.at = "back"] /\ UNCHANGED <<sizes, apart, trace_types_lock>>
      BY <1>1, <2>2 DEF OpState, sizes
    <2>3. QED
      BY <2>1, <2>2 DEF RecordSize, ResizeSpare, ResizeBack, Complete, Idle
  <1>6. op'.at \in {"idle", "back"}
    BY <1>5, IdleFields
  <1>7. LockMoves /\ record_disabled' \in [Buffer -> Int]
    BY <1>1, <1>5 DEF LockMoves, BaseType
  <1>8. /\ BaseType' /\ ReadersCounted' /\ HoldsLock' /\ SettingHeld' /\ TracersApart'
        /\ spare' = spare /\ Shrunk' = Shrunk
    BY <1>1, <1>4, <1>7, <1>0, SettingBase
  <1>9. OpBalanced'
    BY <1>1, <1>4, <1>6, <1>7, <1>0, NoReset
  <1>10. OpHolds'
    BY <1>1, <1>2, <1>5, IdleFields DEF OpHolds
  <1>11. apart' \in {apart, apart \cup {"size"}, apart \ {"size"}}
    BY DEF RecordSize, ResizeSpare, ResizeBack, Complete, SettingType
  <1>12. SettingType'
    BY <1>1, <1>5, <1>11 DEF SettingType
  <1>13. Overwrites' /\ Clocks'
    BY <1>1, <1>2, <1>6, <1>11 DEF Overwrites, Clocks
  <1>14. live \in Buffer /\ spare \in Buffer /\ spare # live
    BY DEF BaseType, spare, Buffer
  <1>15. Sizes'
    <2>1. CASE RecordSize
      <3>1. /\ op.at = "resize" /\ op'.at = "idle" /\ size' = size /\ entries' = op.size
            /\ apart' = IF allocated_snapshot THEN apart \cup {"size"} ELSE apart
        BY <2>1, IdleFields DEF RecordSize
      <3>2. "size" \notin apart' => ~allocated_snapshot /\ size[live] = op.size
        BY <3>1 DEF Sizes
      <3>3. QED
        BY <1>2, <1>8, <3>1, <3>2 DEF Sizes, Resizing
    <2>2. CASE ResizeSpare /\ op' = Idle
      <3>1. /\ op.at = "resize" /\ op'.at = "idle"
            /\ size' = [size EXCEPT ![spare] = op.size] /\ entries' = op.size
            /\ apart' = IF op.moved THEN apart \cup {"size"} ELSE apart \ {"size"}
        BY <2>2, <1>1, IdleFields DEF ResizeSpare, Complete, Idle
      <3>2. "size" \notin apart' => size[live] = op.size
        BY <3>1 DEF Sizes
      <3>3. size'[spare] = op.size /\ size'[live] = size[live]
        BY <1>14, <3>1 DEF BaseType
      <3>4. QED
        BY <1>2, <1>8, <3>1, <3>2, <3>3 DEF Sizes, Resizing
    <2>3. CASE ResizeSpare /\ op' # Idle
      <3>1. /\ op.at = "resize" /\ op'.at = "back" /\ op'.moved = op.moved
            /\ UNCHANGED <<size, entries, apart>> /\ tracing_disabled' = tracing_disabled
        BY <2>3, <1>5 DEF ResizeSpare
      <3>2. QED
        BY <1>2, <1>8, <3>1 DEF Sizes, Resizing
    <2>4. CASE ResizeBack
      <3>1. /\ op.at = "back" /\ op'.at = "idle" /\ entries' = entries
            /\ apart' = IF op.moved THEN apart \cup {"size"} ELSE apart
            /\ \/ size' = [size EXCEPT ![live] = entries] /\ tracing_disabled' = tracing_disabled
               \/ tracing_disabled' = TRUE
        BY <2>4, IdleFields DEF ResizeBack, BackTo
      <3>2. CASE tracing_disabled' = TRUE
        BY <3>1, <3>2 DEF Sizes
      <3>3. CASE size' = [size EXCEPT ![live] = entries] /\ tracing_disabled' = tracing_disabled
        <4>1. size'[live] = entries /\ size'[spare] = size[spare]
          BY <1>14, <3>3 DEF BaseType
        <4>2. "size" \notin apart' => ~op.moved /\ apart' = apart
          BY <3>1
        <4>3. QED
          BY <1>2, <1>8, <3>1, <3>3, <4>1, <4>2 DEF Sizes, Resizing
      <3>4. QED
        BY <3>1, <3>2, <3>3
    <2>5. QED
      BY <2>1, <2>2, <2>3, <2>4
  <1>16. QED
    BY <1>8, <1>9, <1>10, <1>12, <1>13, <1>15

(* The overwrite mode and the clock leave the sizes alone.                   *)
LEMMA ModeSizes ==
    ASSUME SettingsInv, UNCHANGED <<rest, sizes, tracing_disabled>>,
           op.at \notin {"resize", "back"}, op'.at \notin {"resize", "back"},
           "size" \in apart' <=> "size" \in apart
    PROVE  Sizes'
  BY DEF SettingsInv, Sizes, Resizing, rest, sizes, Shrunk, spare

LEMMA OverwriteStep ==
    ASSUME SettingsInv, \/ \E f \in File, on \in BOOLEAN : SetOverwriteLive(f, on)
                        \/ SetOverwriteSpare
    PROVE  SettingsInv'
  <1> USE DEF SettingsInv
  <1>0. Disables
    BY DEF SetOverwriteLive, SetOverwriteSpare, other, stops, Disables, BaseType
  <1>1. /\ UNCHANGED <<rest, record_disabled, sizes, tracing_disabled, ring_buffer_expanded>>
        /\ UNCHANGED <<clock_id, ring_clock>>
    BY DEF SetOverwriteLive, SetOverwriteSpare, other, rest, rings, stops
  <1>2. /\ live' = live /\ file' = file
        /\ size' \in [Buffer -> Size] /\ entries' \in Size
        /\ record_disabled' \in [Buffer -> Int]
    BY <1>1 DEF rest, sizes, BaseType
  <1>3. live \in Buffer /\ spare \in Buffer /\ \A b \in Buffer : b = live \/ b = spare
    BY DEF BaseType, spare, Buffer
  <1>4. CASE \E f \in File, on \in BOOLEAN : SetOverwriteLive(f, on)
    <2>1. PICK f \in File, on \in BOOLEAN : SetOverwriteLive(f, on)
      BY <1>4
    <2>2. /\ trace_types_lock = Nobody /\ file[f].at = "closed" /\ op.at = "idle"
          /\ trace_types_lock' = f /\ apart' = apart
      BY <2>1, BeginsIdle DEF SetOverwriteLive, Locked, Begin
    <2>3. op' \in OpState /\ op'.at = "overwrite" /\ op'.moved = FALSE
      <3>1. op' = [Idle EXCEPT !.at = "overwrite"]
        BY <2>1 DEF SetOverwriteLive, Begin
      <3>2. QED
        BY <3>1, IdleFields DEF OpState
    <2>4. /\ overwrite' = on /\ ring_overwrite' = [ring_overwrite EXCEPT ![live] = on]
      BY <2>1 DEF SetOverwriteLive
    <2>5. LockMoves
      BY <2>2 DEF LockMoves
    <2>6. /\ BaseType' /\ ReadersCounted' /\ HoldsLock' /\ SettingHeld' /\ TracersApart'
      BY <1>1, <1>2, <2>5, <1>0, SettingBase
    <2>7. OpBalanced' /\ Sizes'
      BY <1>1, <1>2, <2>2, <2>3, <2>5, <1>0, NoReset, ModeSizes
    <2>8. SettingType' /\ OpHolds'
      BY <1>1, <1>2, <2>2, <2>3, <2>4 DEF SettingType, OpHolds
    <2>9. Overwrites' /\ Clocks'
      <3>1. ring_overwrite'[live'] = overwrite'
        BY <1>2, <1>3, <2>4 DEF SettingType
      <3>2. QED
        BY <1>1, <2>2, <2>3, <3>1 DEF Overwrites, Clocks
    <2>10. QED
      BY <2>6, <2>7, <2>8, <2>9
  <1>5. CASE SetOverwriteSpare
    <2>1. /\ op.at = "overwrite" /\ op' = Idle /\ op'.at = "idle" /\ trace_types_lock' = Nobody
          /\ apart' = IF op.moved THEN apart \cup {"overwrite"} ELSE apart \ {"overwrite"}
          /\ overwrite' = overwrite
          /\ ring_overwrite' = [ring_overwrite EXCEPT ![spare] = overwrite]
      BY <1>5, IdleFields DEF SetOverwriteSpare, Complete, Second
    <2>2. LockMoves
      BY <2>1 DEF LockMoves
    <2>3. /\ BaseType' /\ ReadersCounted' /\ HoldsLock' /\ SettingHeld' /\ TracersApart'
      BY <1>1, <1>2, <2>2, <1>0, SettingBase
    <2>4. OpBalanced' /\ Sizes'
      BY <1>1, <1>2, <2>1, <2>2, <1>0, NoReset, ModeSizes
    <2>5. SettingType' /\ OpHolds'
      BY <1>1, <1>2, <2>1, IdleFields DEF SettingType, OpHolds
    <2>6. Overwrites'
      <3>1. ASSUME "overwrite" \notin apart' PROVE \A b \in Buffer : ring_overwrite'[b] = overwrite
        <4>1. ring_overwrite[live] = overwrite
          BY <2>1, <3>1 DEF Overwrites
        <4>2. QED
          BY <1>3, <2>1, <4>1 DEF SettingType
      <3>2. QED
        BY <2>1, <3>1 DEF Overwrites
    <2>7. Clocks'
      BY <1>1, <2>1 DEF Clocks
    <2>8. QED
      BY <2>3, <2>4, <2>5, <2>6, <2>7
  <1>6. QED
    BY <1>4, <1>5

LEMMA ClockStep ==
    ASSUME SettingsInv, (\E f \in File, c \in Clock : SetClockLive(f, c)) \/ SetClockSpare
    PROVE  SettingsInv'
  <1> USE DEF SettingsInv
  <1>0. Disables
    BY DEF SetClockLive, SetClockSpare, other, stops, Disables, BaseType
  <1>1. /\ UNCHANGED <<rest, record_disabled, sizes, tracing_disabled, ring_buffer_expanded>>
        /\ UNCHANGED <<overwrite, ring_overwrite, apart>>
    BY DEF SetClockLive, SetClockSpare, Begin, other, rest, rings, stops
  <1>2. /\ live' = live /\ file' = file
        /\ size' \in [Buffer -> Size] /\ entries' \in Size
        /\ record_disabled' \in [Buffer -> Int]
    BY <1>1 DEF rest, sizes, BaseType
  <1>3. live \in Buffer /\ spare \in Buffer /\ \A b \in Buffer : b = live \/ b = spare
    BY DEF BaseType, spare, Buffer
  <1>4. CASE \E f \in File, c \in Clock : SetClockLive(f, c)
    <2>1. PICK f \in File, c \in Clock : SetClockLive(f, c)
      BY <1>4
    <2>2. /\ trace_types_lock = Nobody /\ file[f].at = "closed" /\ op.at = "idle"
          /\ trace_types_lock' = f
      BY <2>1, BeginsIdle DEF SetClockLive, Locked, Begin
    <2>3. op' \in OpState /\ op'.at = "clock" /\ op'.moved = FALSE
      <3>1. op' = [Idle EXCEPT !.at = "clock"]
        BY <2>1 DEF SetClockLive, Begin
      <3>2. QED
        BY <3>1, IdleFields DEF OpState
    <2>4. /\ clock_id' = c /\ ring_clock' = [ring_clock EXCEPT ![live] = c]
      BY <2>1 DEF SetClockLive
    <2>5. LockMoves
      BY <2>2 DEF LockMoves
    <2>6. /\ BaseType' /\ ReadersCounted' /\ HoldsLock' /\ SettingHeld' /\ TracersApart'
      BY <1>1, <1>2, <2>5, <1>0, SettingBase
    <2>7. OpBalanced' /\ Sizes'
      BY <1>1, <1>2, <2>2, <2>3, <2>5, <1>0, NoReset, ModeSizes
    <2>8. SettingType' /\ OpHolds'
      BY <1>1, <1>2, <2>2, <2>3, <2>4 DEF SettingType, OpHolds
    <2>9. Overwrites' /\ Clocks'
      <3>1. ring_clock'[live'] = clock_id'
        BY <1>2, <1>3, <2>4 DEF SettingType
      <3>2. QED
        BY <1>1, <2>2, <2>3, <3>1 DEF Overwrites, Clocks
    <2>10. QED
      BY <2>6, <2>7, <2>8, <2>9
  <1>5. CASE SetClockSpare
    <2>1. /\ op.at = "cleared" /\ trace_types_lock' = trace_types_lock
          /\ clock_id' = clock_id
          /\ ring_clock' = [ring_clock EXCEPT ![spare] = clock_id]
          /\ op' = [op EXCEPT !.at = "clock2"]
      BY <1>5 DEF SetClockSpare, Second
    <2>2. op' \in OpState /\ op'.at = "clock2" /\ op'.moved = op.moved
      <3>1. op \in OpState
        BY DEF SettingType
      <3>2. QED
        BY <2>1, <3>1 DEF OpState
    <2>3. LockMoves
      BY <2>1 DEF LockMoves
    <2>4. /\ BaseType' /\ ReadersCounted' /\ HoldsLock' /\ SettingHeld' /\ TracersApart'
      BY <1>1, <1>2, <2>3, <1>0, SettingBase
    <2>5. OpBalanced' /\ Sizes'
      BY <1>1, <1>2, <2>1, <2>2, <2>3, <1>0, NoReset, ModeSizes
    <2>6. SettingType' /\ OpHolds'
      BY <1>1, <1>2, <2>1, <2>2 DEF SettingType, OpHolds
    <2>7. Overwrites'
      BY <1>1, <2>1, <2>2 DEF Overwrites
    <2>8. Clocks'
      <3>1. ASSUME ~op.moved PROVE \A b \in Buffer : ring_clock'[b] = clock_id
        <4>1. ring_clock[live] = clock_id
          BY <2>1, <3>1 DEF Clocks
        <4>2. QED
          BY <1>3, <2>1, <4>1 DEF SettingType
      <3>2. QED
        BY <2>1, <2>2, <3>1 DEF Clocks
    <2>9. QED
      BY <2>4, <2>5, <2>6, <2>7, <2>8
  <1>6. QED
    BY <1>4, <1>5

(* tracing_reset_online_cpus: the buffer that the reset found is the one it  *)
(* enables again, wherever a swap has put it.                                *)
LEMMA ResetStep ==
    ASSUME SettingsInv, ResetBegin \/ ResetEnd
    PROVE  SettingsInv'
  <1> USE DEF SettingsInv
  <1>0. Disables
    BY DEF ResetBegin, ResetEnd, quiet, Disables, BaseType
  <1>1. /\ UNCHANGED <<rest, sizes, tracing_disabled, ring_buffer_expanded>>
        /\ UNCHANGED <<overwrite, ring_overwrite, clock_id, ring_clock>>
    BY DEF ResetBegin, ResetEnd, quiet, settings
  <1>2. /\ live' = live /\ file' = file
        /\ size' \in [Buffer -> Size] /\ entries' \in Size
    BY <1>1 DEF rest, sizes, BaseType
  <1>3. live \in Buffer /\ spare \in Buffer
    BY DEF BaseType, spare, Buffer
  <1>4. op \in OpState /\ op.buf \in Buffer /\ op.moved \in BOOLEAN
    BY DEF SettingType, OpState
  <1>5. \A b \in Buffer : record_disabled[b] \in Int /\ Slack(b) = One(OpResets(b))
    BY DEF BaseType, OpBalanced
  <1>6. CASE ResetBegin
    <2>1. PICK b \in Buffer, at \in {"wait", "wait2"} :
            /\ op.at = IF at = "wait" THEN "clock" ELSE "clock2"
            /\ record_disabled' = Add({b}, 1)
            /\ op' = [op EXCEPT !.at = at, !.buf = b]
      BY <1>6 DEF ResetBegin
    <2>2. op' \in OpState /\ op'.at = at /\ op'.buf = b /\ op'.moved = op.moved
      <3>1. op' = [op EXCEPT !.at = at, !.buf = b]
        BY <2>1
      <3>2. QED
        BY <1>4, <3>1 DEF OpState
    <2>3. trace_types_lock' = trace_types_lock /\ apart' = apart /\ LockMoves
      BY <1>6 DEF ResetBegin, LockMoves
    <2>4. record_disabled' \in [Buffer -> Int]
      BY <2>1, AddType DEF BaseType
    <2>5. /\ BaseType' /\ ReadersCounted' /\ HoldsLock' /\ SettingHeld' /\ TracersApart'
          /\ \A x \in Buffer : Slack(x)' = Slack(x) + record_disabled'[x] - record_disabled[x]
      BY <1>1, <1>2, <2>3, <2>4, <1>0, SettingBase
    <2>6. OpBalanced'
      <3>1. ASSUME NEW x \in Buffer PROVE Slack(x)' = One(OpResets(x))'
        <4>1. record_disabled'[x] = record_disabled[x] + One(x = b)
          <5>1. record_disabled[x] \in Int /\ record_disabled' = Add({b}, 1)
            BY <1>5, <2>1
          <5>2. record_disabled'[x] = IF x = b THEN record_disabled[x] + 1 ELSE record_disabled[x]
            BY <5>1 DEF Add
          <5>3. QED
            BY <5>1, <5>2 DEF One
        <4>2. Slack(x) = 0
          BY <1>5, <2>1 DEF One, OpResets
        <4>3. Slack(x)' = One(x = b)
          BY <1>5, <2>5, <4>1, <4>2 DEF One
        <4>4. OpResets(x)' <=> x = b
          BY <2>2 DEF OpResets
        <4>5. QED
          BY <4>3, <4>4 DEF One
      <3>2. QED
        BY <3>1 DEF OpBalanced
    <2>7. Sizes'
      BY <1>1, <2>1, <2>2, <2>3, ModeSizes
    <2>8. SettingType' /\ OpHolds'
      BY <1>1, <1>2, <2>1, <2>2, <2>3 DEF SettingType, OpHolds
    <2>9. Overwrites' /\ Clocks'
      BY <1>1, <1>2, <2>1, <2>2, <2>3 DEF Overwrites, Clocks
    <2>10. QED
      BY <2>5, <2>6, <2>7, <2>8, <2>9
  <1>7. CASE ResetEnd
    <2>1. op.at \in {"wait", "wait2"} /\ record_disabled' = Add({op.buf}, -1)
      BY <1>7 DEF ResetEnd
    <2>2. /\ op' \in OpState
          /\ \/ /\ op.at = "wait" /\ op'.at = "cleared" /\ op'.moved = op.moved
                /\ UNCHANGED <<trace_types_lock, apart>>
             \/ /\ op.at = "wait2" /\ op'.at = "idle" /\ trace_types_lock' = Nobody
                /\ apart' = IF op.moved THEN apart \cup {"clock"} ELSE apart \ {"clock"}
      <3>1. CASE /\ op.at = "wait" /\ op' = [op EXCEPT !.at = "cleared", !.buf = 0]
                 /\ UNCHANGED <<trace_types_lock, apart>>
        <4>1. op' \in OpState /\ op'.at = "cleared" /\ op'.moved = op.moved
          BY <1>4, <3>1 DEF OpState, Buffer
        <4>2. QED
          BY <3>1, <4>1
      <3>2. CASE op.at = "wait2" /\ Complete("clock")
        BY <3>2, IdleFields DEF Complete
      <3>3. QED
        BY <1>7, <3>1, <3>2 DEF ResetEnd
    <2>3. LockMoves
      BY <2>2 DEF LockMoves
    <2>4. record_disabled' \in [Buffer -> Int]
      BY <2>1, AddType DEF BaseType
    <2>5. /\ BaseType' /\ ReadersCounted' /\ HoldsLock' /\ SettingHeld' /\ TracersApart'
          /\ \A x \in Buffer : Slack(x)' = Slack(x) + record_disabled'[x] - record_disabled[x]
      BY <1>1, <1>2, <2>3, <2>4, <1>0, SettingBase
    <2>6. OpBalanced'
      <3>1. ASSUME NEW x \in Buffer PROVE Slack(x)' = One(OpResets(x))'
        <4>1. record_disabled'[x] = record_disabled[x] - One(x = op.buf)
          BY <1>5, <2>1 DEF Add, One
        <4>2. Slack(x) = One(x = op.buf)
          BY <1>5, <2>1 DEF One, OpResets
        <4>3. Slack(x)' = 0
          BY <1>5, <2>5, <4>1, <4>2 DEF One
        <4>4. ~OpResets(x)'
          BY <2>2 DEF OpResets
        <4>5. QED
          BY <4>3, <4>4 DEF One
      <3>2. QED
        BY <3>1 DEF OpBalanced
    <2>7. Sizes'
      BY <1>1, <2>1, <2>2, ModeSizes
    <2>8. SettingType' /\ OpHolds'
      BY <1>1, <1>2, <2>1, <2>2 DEF SettingType, OpHolds
    <2>9. Overwrites'
      BY <1>1, <2>1, <2>2 DEF Overwrites
    <2>10. Clocks'
      BY <1>1, <1>2, <2>1, <2>2 DEF Clocks
    <2>11. QED
      BY <2>5, <2>6, <2>7, <2>8, <2>9, <2>10
  <1>8. QED
    BY <1>6, <1>7

-----------------------------------------------------------------------------

LEMMA SettingsInvInit == Global /\ SettingsInit => SettingsInv
  <1> SUFFICES ASSUME Global, SettingsInit PROVE SettingsInv
    OBVIOUS
  <1>1. IndInv
    BY InitInvariant DEF SettingsInit
  <1>2. /\ op = Idle /\ op.at = "idle" /\ op.moved = FALSE /\ op \in OpState
    BY IdleFields DEF SettingsInit
  <1>3. SettingType
    BY <1>2, SettingAssumption DEF SettingsInit, SettingType
  <1>4. OpBalanced
    <2>1. \A b \in Buffer : Slack(b) = 0
      BY <1>1 DEF IndInv, Balanced
    <2>2. QED
      BY <1>2, <2>1 DEF OpBalanced, OpResets, One
  <1>5. \A f \in File : file[f].at = "closed"
    BY DEF SettingsInit, Init, Closed
  <1>6. OpHolds /\ TracersApart
    BY <1>2, <1>5, TracerAssumption DEF SettingsInit, Init, OpHolds, TracersApart, Freeing
  <1>7. Overwrites /\ Clocks
    BY <1>2, SettingAssumption DEF SettingsInit, Overwrites, Clocks
  <1>8. Sizes
    BY <1>2 DEF SettingsInit, Init, Sizes, Resizing, Buffer
  <1>9. QED
    BY <1>1, <1>3, <1>4, <1>6, <1>7, <1>8 DEF SettingsInv, IndInv

LEMMA SettingsInvStep == SettingsInv /\ [SettingsNext]_svars => SettingsInv'
  <1> SUFFICES ASSUME SettingsInv, [SettingsNext]_svars PROVE SettingsInv'
    OBVIOUS
  <1>1. CASE ArrayStep
    <2>1. /\ BaseType' /\ ReadersCounted' /\ HoldsLock' /\ SettingHeld'
          /\ \A b \in Buffer : Slack(b)' = Slack(b)
      BY <1>1, ArrayBase
    <2>2. OpBalanced'
      BY <1>1, <2>1, ArrayOpSame DEF SettingsInv, OpBalanced, OpResets
    <2>3. SettingType'
      BY <1>1, ArrayOpSame DEF SettingsInv, SettingType, settings
    <2>4. OpHolds' /\ TracersApart' /\ Overwrites' /\ Clocks' /\ Sizes'
      BY <1>1, ArrayOpHolds, ArrayTracersApart, ArrayOverwritesClocks, ArraySizes
    <2>5. QED
      BY <2>1, <2>2, <2>3, <2>4 DEF SettingsInv
  <1>2. CASE SettingStep
    <2>1. ASSUME NEW f \in File, Expand(f) PROVE SettingsInv'
      BY <2>1, ResizeLiveStep, SettingAssumption DEF Expand
    <2>2. QED
      BY <1>2, <2>1, ResizeLiveStep, ResizeEnds, OverwriteStep, ClockStep, ResetStep DEF SettingStep
  <1>3. CASE UNCHANGED svars
    <2>1. UNCHANGED vars /\ UNCHANGED <<ring_buffer_expanded, tracing_disabled, op, apart>>
          /\ UNCHANGED <<overwrite, ring_overwrite, clock_id, ring_clock>>
      BY <1>3 DEF svars, vars, stops, settings
    <2>2. UNCHANGED rest /\ UNCHANGED <<record_disabled, size, entries, trace_types_lock>>
      BY <2>1 DEF vars, rings, stops, rest, sizes
    <2>3. /\ BaseType' /\ ReadersCounted' /\ HoldsLock' /\ SettingHeld' /\ TracersApart'
          /\ \A b \in Buffer : Slack(b)' = Slack(b) + record_disabled'[b] - record_disabled[b]
          /\ spare' = spare /\ Shrunk' = Shrunk
      BY <2>1, <2>2, SettingBase DEF SettingsInv, BaseType, LockMoves, Disables
    <2>4. \A b \in Buffer : record_disabled[b] \in Int /\ Slack(b) = One(OpResets(b))
      BY DEF SettingsInv, BaseType, OpBalanced
    <2>5. OpBalanced'
      BY <2>1, <2>2, <2>3, <2>4 DEF OpBalanced, OpResets, One
    <2>6. SettingType' /\ OpHolds'
      BY <2>1, <2>2 DEF SettingsInv, SettingType, OpHolds, rest
    <2>7. Overwrites' /\ Clocks' /\ Sizes'
      BY <2>1, <2>2, <2>3 DEF SettingsInv, Overwrites, Clocks, Sizes, Resizing, rest
    <2>8. QED
      BY <2>3, <2>5, <2>6, <2>7 DEF SettingsInv
  <1>4. QED
    BY <1>1, <1>2, <1>3 DEF SettingsNext

LEMMA SettingsInvariance == ASSUME Global PROVE SettingsSpec => []SettingsInv
  BY SettingsInvInit, SettingsInvStep, PTL DEF SettingsSpec

(* tracing_reset_online_cpus, tracing_start: no count that stops a buffer    *)
(* goes below zero, whatever resets of tracing_set_clock interleave.         *)
THEOREM SettingsTypeCorrect == ASSUME Global PROVE SettingsSpec => []SettingsTypeOK
  <1>1. SettingsInv => SettingsTypeOK
    <2> SUFFICES ASSUME SettingsInv PROVE SettingsTypeOK
      OBVIOUS
    <2>1. ASSUME NEW b \in Buffer PROVE record_disabled[b] \in Nat
      <3>1. Cardinality(Resets(b)) \in Nat
        BY CountsFinite
      <3>2. record_disabled[b] \in Int /\ Slack(b) = One(OpResets(b))
        BY DEF SettingsInv, BaseType, OpBalanced
      <3>3. QED
        BY <3>1, <3>2 DEF Slack, StoppedOne, One
    <2>2. TypeOK
      BY <2>1, SettingAssumption DEF SettingsInv, BaseType, TypeOK
    <2>3. QED
      BY <2>2 DEF SettingsInv, SettingType, SettingsTypeOK
  <1>2. QED
    BY <1>1, SettingsInvariance, PTL

(* __tracing_resize_ring_buffer: the two buffers of a latency tracer have    *)
(* the recorded size, after failed resizes too.                              *)
THEOREM SizeCorrect == ASSUME Global PROVE SettingsSpec => []SameSize
  <1>1. SettingsInv => SameSize
    <2> SUFFICES ASSUME SettingsInv, current_trace \in MaxTracer, ~Resizing,
                        ~tracing_disabled, "size" \notin apart
                 PROVE  \A b \in Buffer : size[b] = entries
      BY DEF SameSize
    <2>1. allocated_snapshot /\ ~Shrunk
      BY DEF SettingsInv, TracersApart, Freeing, Shrunk
    <2>2. size[live] = entries /\ size[spare] = entries
      BY <2>1 DEF SettingsInv, Sizes
    <2>3. \A b \in Buffer : b = live \/ b = spare
      BY DEF SettingsInv, BaseType, spare, Buffer
    <2>4. QED
      BY <2>2, <2>3
  <1>2. QED
    BY <1>1, SettingsInvariance, PTL

(* set_tracer_flag, tracing_set_clock: both buffers have the overwrite mode  *)
(* and the clock that are shown, whatever swaps, unless a swap came between  *)
(* the two halves of a change.                                               *)
THEOREM SettingsCorrect == ASSUME Global PROVE SettingsSpec => []SameSettings
  <1>1. SettingsInv => SameSettings
    BY DEF SettingsInv, Overwrites, Clocks, SameSettings
  <1>2. QED
    BY <1>1, SettingsInvariance, PTL
=============================================================================
