# Verification of the tracer in `linux/ftrace/trace` and its neighbours

The repository is a collection of scripts and small programs for measuring Linux machines. Most
of it is set-up scripts that run once. The part with a state machine of its own is
`src/linux/ftrace/trace/`, the core of the kernel's tracer (`trace.c`, `trace.h`,
`trace_output.c`), changed by the author so that every line of a trace shows the task together
with its parent, grandparent and great-grandparent. The benchmarks in `src/mount` and the
scripts `new-ftrace.sh` are the users of that tracer.

This directory holds TLA+ modules of the tracer, TLC configurations that check them on small
instances, and proofs checked by TLAPS.

## 1. Inventory

### 1.1 The tracer

**Saved command lines** (`trace.c` 1728-2310, 5020-5170; `trace_output.c` 590-630). State: a
ring of `cmdline_num` slots with two maps (pid to slot, slot to pid), four names per slot, three
ancestors per pid, the lock `trace_cmdline_lock`, a per-CPU flag `trace_taskinfo_save`.
Operations: record a task or a context switch, look a pid up, resize the ring, list it through a
seq_file. Called by the scheduler's tracepoints on every CPU, by the output of every trace line,
and by two files. Hard: a recorder only tries the lock and must ask again if it missed it; the
ring wraps and evicts; a resize replaces it under its users; a listing gives the lock up between
chunks. Correct when the maps are inverse to each other, no pid shows another task's names, the
newest pids are kept, a missed save is asked for again, and a line prints each ancestor's own
name.

**Buffers of a trace array** (`trace.c` 880-1080, 1330-1420, 1660-1700, 1840-1970, 4030-4250,
5550-5650, 6560-6640, 7750-7850). State: two ring buffers with disable counts and an on/off bit
each, the pointers `trace_buffer.buffer` and `max_buffer.buffer`, `stop_count`,
`buffer_disabled`, `allocated_snapshot`, `current_trace`, `trace_types_lock` and `max_lock`.
Operations: stop and start, reset, on and off, swap (by latency tracers, by
`tracing_snapshot()`, by the file `snapshot`), allocate and free the snapshot, change the
tracer. Hard: swaps come from any CPU with interrupts off and without the mutex, and every other
operation names its buffer by the pointer that a swap exchanges. Correct when disables and
enables meet the same buffer, nothing is recorded while it must not be, no swap meets a shrunk
buffer, and the mutex is given back.

**Life of trace arrays and tracers** (`trace.c` 272-301, 4150-4270, 5531-5650, 5760-5850,
6660-6930, 7900-8030). State: the list of arrays, `tr->ref`, `tracer->ref` (one count for all
arrays that use the tracer), `tracer->enabled`, what open files point to. Operations: mkdir,
rmdir, open and release of four kinds of files, change of tracer. Hard: opens take references in
two critical sections with failures between, releases find the tracer again through the array, a
new array may get the address of an old one. Correct when the counts are exact, arrays outlive
their files and readers keep their tracer.

**Buffered events** (`trace.c` 2360-2512, `trace.h` 1264-1274). State: a page and a count per
CPU and one count of users. Operations: enable, disable, reserve, commit, discard. Hard: nested
events, interprocessor calls, `synchronize_sched`, failed allocations. Correct when one event
writes to a page at a time and no page is freed in use.

**Readers** (`trace.c` 640-760, 1420-1430, 3260-3400, 3800-3830, 5760-6140, 6830-7110). State: per
open file an iterator (its position, the entry it found and that entry's CPU, what it has printed);
for all of them one reader-writer semaphore, `all_cpu_access_lock`, and a mutex per CPU. Operations:
read and splice of `trace_pipe` of all CPUs or of one, read and splice of `trace_pipe_raw`. Hard: an
entry is found, printed and consumed in three steps while the producer overwrites the oldest ones;
readers of one CPU and of all CPUs meet; a reader sleeps without a lock and looks again. Correct
when each event goes to one reader, once, in order, nobody is locked out, and a reader that has
something to read does not sleep.

**Options, pid filters, clocks, sizes** (`trace.c` 310-560, 4429-4660, 5370-5530, 6180-6290,
6436-6468). State: `trace_flags`, `clock_id`, the recorded `entries`, `ring_buffer_expanded`,
`tracing_disabled`, and in each of the two ring buffers a size, an overwrite mode and a clock.
Operations: `buffer_size_kb`, `free_buffer`, the first expansion, `options/overwrite`,
`trace_clock`; filters that fork and exit edit, `tracing_cpumask`. Hard: every setting is written
to two buffers one after the other, named by pointers that a swap exchanges, and a resize of the
second may fail, and its rollback too. Correct when both buffers have one size and the settings of
the array, or tracing is disabled.

**trace_printk, recursion bits, exports, dump** (`trace.h` 470-575; `trace.c` 2630-3200,
8380-8500). State: per task the bits of `trace_recursion`, per CPU four text buffers and their
`nesting`. Operations: a function is traced, a message is printed, each inside any other after an
interrupt. Hard: no lock; an interrupt falls between any two steps and must leave what it found.
Correct when a context refuses only its own recursion and each message reaches its event unchanged.
Besides: marker files, a list of exports read under RCU, the dump at an oops.

**Output** (`trace_output.c`). Text of events. No state; the context line calls the lookup of
the saved command lines.

### 1.2 The other programs

- **Mount and unshare benchmarks** (`src/mount/*.c`, 24 programs of one kind). State: the loop of
  `main`, one pipe, children with a mount namespace each, the directories `/mnt/procN` and what is
  mounted on them. A parent forks children (or clones them, or does the work itself); each child
  unshares, makes a directory, mounts, may report through the pipe, and stays alive; started with
  one more argument most programs unmount again. Hard: calls fail, children are killed, a failed
  fork falls into the branch of the child in some programs, mounts propagate or do not. Correct
  when the serial programs measure one child at a time, a program that cleans up can be run again,
  and `main` is never stuck in a read.
- **uevent dump** (`src/docker/aic-dump-uevent`, and the trigger `src/aosp/uevent/main.cpp`). State:
  the place in the walk of sysfs, a socket with a bounded buffer, `uevent_index`, the dump files and
  a marker file. Hard: other devices and processes write to the socket, the receive loop ends at the
  first error, sysfs is full of links, the program is killed and run again. Correct when no message
  is lost unnoticed, the marker means a complete dump, and a withheld device is never written to.
- **Android-in-container scripts** (`src/aic`): start and stop numbered containers.
- **ftrace scripts** (`new-ftrace.sh`): write to the files of the tracer.
- **Set-up scripts, machine learning, vision, FPGA**: commands that run once.

`PROJECT.json` lists every component with what is and what is not modelled.

## 2. Modules

| module | what it is |
|---|---|
| `SavedCmdlines` | the ring, its recorders on every CPU, lookups, resizing |
| `SavedCmdlinesSeq` | extends it by the chunked listing of the file `saved_cmdlines` |
| `SavedCmdlinesProofs` | proofs about `SavedCmdlines` and `SavedCmdlinesSeq` |
| `TraceArray` | the two buffers of one array, the files and CPUs that act on them |
| `TraceSettings` | extends it by sizes, overwrite mode and clock of `global_trace` |
| `TraceInstances` | arrays, files, references, tracers |
| `TraceInstancesProofs` | proofs about `TraceInstances` |
| `BufferedEvent` | the pages for filtered events |
| `TraceQueue` | what consuming readers promise: a queue per CPU (abstract) |
| `TraceReaders` | read and splice of `trace_pipe` and `trace_pipe_raw`; implements `TraceQueue` |
| `TraceContexts` | recursion bits and `trace_printk` under nested contexts of a CPU |
| `MountBench` | the 24 programs of `src/mount` |
| `UeventDump` | `uevent_dump` and the uevent trigger |
| `TraceArrayProofs` | proofs about `TraceArray` and `TraceSettings` |
| `BufferedEventProofs`, `TraceReadersProofs`, `TraceContextsProofs`, `MountBenchProofs`, `UeventDumpProofs` | proofs about the module each is named after |
| `MCSavedCmdlines`, `MCSavedCmdlinesSeq`, `MCTraceInstances`, `MCTraceReaders` | instances for TLC |

Variables carry the names of the C fields they stand for. Three conventions hold everywhere. A
critical section in which nothing else can look at the state is one step; where the code lets go
of a lock, or reads before it takes one, the action is split there. A failure the code handles
(no memory, a missed trylock, a tracer whose init fails) is a disjunct. A definition that a
mutant replaces has the mutant in front of it, marked "Mutant", so that a reader sees which
mistake the property would catch.

### SavedCmdlines

`tracing_record_taskinfo_sched_switch` is `RecordBegin`, then for each of the two tasks
`SaveSkip` (pid 0, pid too large, or lock missed) or `SaveBind` and `SaveNames` under the lock,
then `RecordEnd`, which clears the CPU's flag if all saves succeeded. `Bound` is the binding of
a slot with the eviction of the pid that had it. `Find` and `FindPids` are what a lookup
returns; `FindLock` and `FindUnlock` are the times it holds the lock, during which recorders
miss it. `Resize` installs an empty ring of another size. The kernel's task tree (`Fork`,
`Exec`, `Exit`) is external and runs at the same time, since the recorder reads `tsk->parent`
and names without synchronisation. `last` and `recent` are history variables: what the last save
of a pid wrote, and the order in which pids were bound. Left out: the map of tgids, and what a
failed allocation of a ring leaks.

### SavedCmdlinesSeq

A reader holds the lock while it fills a chunk (`ListStart` finds the place of position `pos`,
`ListShow` prints and goes on, `ListStop` unlocks) and drops it between chunks. The `vars` of
the ring are unchanged by the listing and the reverse.

### TraceArray

Each process has at most one operation under way (`file`), each CPU at most one swap past the
checks of `update_max_tr` (`swap`). `OpenTrace` and `ReleaseTrace` are `tracing_stop_tr` and
`tracing_start_tr`; the one is refused and the other gives nothing back once `tracing_disabled` is
set. `ClearChoose` is the look that `tracing_open` takes without a lock at the tracer's `print_max`,
`ClearBegin`/`ClearEnd` the reset of the ring that is found by then under the chosen pointer, which
sleeps while that ring is disabled. `SetTracerFreeing`, `Synchronized`, `Shrink`, `ResetSpare`,
`Freed` follow `tracing_set_tracer` through `synchronize_sched` and `free_snapshot`; `SetTracer` is
the way without a buffer to free. Both lead to `SetUninitialised`, for a tracer without an init
function, or to `tracer_init`, which first resets the live buffer (`InitTracer`) and calls that
function after the sleep (`TracerInitialised`). `DisableTracing` is the end of a resize that could
not be rolled back, which sets `tracing_disabled` for good; its steps are in `TraceSettings`
(`ResizeBack`), which leaves `DisableTracing` out. A buffer's size is a number
from 1 (as small as it gets) to `MaxSize`, and `entries` is what `trace_buffer.data` records of it,
which a swap does not exchange; `alloc_snapshot` gives the spare buffer the recorded size. The
constant `Global` tells `global_trace`, whose stop disables both buffers, from an instance, whose
stop disables the live one. Left out: swaps of one CPU's buffer (`update_max_tr_single`),
`tracing_cpumask`, and, since nothing reads it, what `max_buffer.data` records.

### TraceSettings

Every action of `TraceArray` except those of `tracing_on`, on which no setting depends, and
`DisableTracing`, goes on beside the settings (`ArrayStep`), so swaps fall between any two steps of
theirs. `tracing_disabled` is the variable of `TraceArray`; when it is set, files opened earlier can
still be written to. `ResizeLive`, then `ResizeSpare` under a latency tracer or `RecordSize` under
any other, are `__tracing_resize_ring_buffer`; `ResizeBack` is the rollback, after whose failure
`tracing_disabled` is set. `SetOverwriteLive` and `SetOverwriteSpare` are `set_tracer_flag` with the
veto of `trace_keep_overwrite`; `SetClockLive`, a reset, `SetClockSpare`, a reset are
`tracing_set_clock`, where each reset sleeps. Until the first expansion a write to `snapshot` or
`current_tracer` has to `Expand` first, which marks the buffers expanded whether or not it succeeds.
All of this runs under `trace_types_lock`; `op` is the step reached. `apart` is a history variable:
the settings that were separated by a swap between the two halves of a change, and `size` also when
the live buffer is resized while a snapshot is allocated for another tracer. Sizes are those of all
CPUs together.

### TraceInstances

A file is "found" when its path is resolved and its inode points to an address, "got" when
`trace_array_get` took a reference, "open" at the end. `FileKind` tells apart the files that
only pin the array (plain), `trace_pipe`, `trace_pipe_raw` and `snapshot_raw`, which also pin
the tracer. An address may be used again by a later array. `tracing_set_tracer` is one step
here, since `TraceArray` looks inside. Left out: names of instances, failures inside mkdir, and
writes to the files that take no reference (`current_tracer`, `options/*`) after their array was
removed, which are undefined.

### BufferedEvent

`events[c]` is the stack of nested events on CPU `c`, split where an interrupt may come: the
pointer is read, the count is incremented, the page is written, the count is decremented. The
holder of `event_mutex` walks through enable and disable with one step per CPU reached by the
interprocessor calls, `synchronize_sched`, and two steps per page, since the page is freed
before its pointer is cleared. Once the pointer was changed under an event the count it gives
back is a free choice, as the comparison of pointers in `__trace_event_discard_commit` may go
either way.

### TraceQueue and TraceReaders

`TraceQueue` is the promise: an event is recorded at the end of its CPU's queue, possibly in the
place of a lost one, and some reader is given the first `n` of a queue. `TraceReaders` is the code.
A call goes through `WaitPipe` (and `Wake`, `Signal`), `CheckEmpty`, the lock (`LockAll`, or
`LockShared` and `LockCpu`), `Find`, `PrintLine`, `Consume`, `Unlock`; splice of `trace_pipe` finds
its first entry before the lock (`FindFirst`); the raw readers take a page at once (`TakePage`,
`TakePages`). The ring buffer itself is external (`Record`, `Room`, `Given`): a buffer of `Cap`
events in overwrite mode, where looking at the oldest event moves its page out of the producer's way.
What a reader printed counts as delivered, so the refinement maps `delivered` to `out` and `pending`
to the buffer without an entry that is printed and not yet consumed (`Pending`). `EAGAIN` and a full
page are free choices. Left out: `poll`, references of spliced pages, swaps beside a reader, and the
file `trace`, which consumes nothing.

### TraceContexts

`stack` is what runs on a CPU: a task and the softirqs, interrupts and NMIs on top of it, and traced
functions called inside. A task that has bottom halves disabled counts as a softirq for
`in_interrupt()`; level 1 stands for it too, as it meets the same contexts from above. `Test`, `Set`,
`Clear`, `Unset` are `trace_test_and_set_recursion` and `trace_clear_recursion` with their reads and
writes apart; the list function of ftrace and the callbacks, which are not in the repository, are two
kinds of users with the bits and the `max` the header's comment gives them. `GetBuf`, `BufIndex`,
`Fill`, `CommitAndPut` are a `trace_printk`. The buffer behind the last one, which the code writes to
when four are nested, is a cell of its own; what it overwrites in the kernel is undefined.

### MountBench

A program is a record of what its `main` and `child_main` do (start by fork, clone or call; which
calls in which order; what happens when a fork fails; what the second mode does); the 24 records name
the 24 files, and the actions are the steps that the records choose from. Namespaces, propagation and
directories are modelled as far as `mount`, `umount` and `rmdir` can tell. The field `mounts` tells
whether a program's `mount` can succeed: that of `mnt16` cannot, since it binds an empty source. A
program is run up to `MaxPass` times, the even runs unmount. Left out: time (a `sleep(5)` guarantees
nothing and is no step), CPU affinity, output.

### UeventDump

`do_coldboot` is a stack of directories with the entries still to read. The part of sysfs that is
walked is fixed: devices that may be asked, devices that the trigger withholds, and links to both.
`Arrive` puts the kernel's answer into a socket of `QueueCap` messages or sets the overrun;
`OtherDevice` and `UserSends` add what nobody asked for. `ReceiveFails` and `Receive` are
`handle_device_fd`, called after every write. Every call of the two programs may fail where the code
goes on without it: `opendir`, `open`, `openat`, `fdopendir` and `write` in the walk (`Misses`), the
marker's `open`, `fopen` and a write of a dump file that is cut short (`Part`). The test behind
`fwrite` only prints; most such writes fail later anyway, in the flush of `fclose`, which is not
looked at. `Restart` kills the program at any step, or runs it
again after its end, in the same container (the marker stays) or a new one. History variables:
`written`, the devices that were asked; `missed`, those at or below a place where a call of the walk
failed; `sent`, what the kernel sent; `gone`, what was lost of it for a reason the code knows; `calm`,
whether nothing disturbed the run. The parts of sysfs below a directory (`Below`) are written out,
without where links lead.

## 3. Runs

| run | instance | what it shows |
|---|---|---|
| `saved_cmdlines` | 2 CPUs, pids 0..3, ring of 1 or 2 slots, one step of the task tree, symmetric CPUs | the six properties of the ring |
| `saved_cmdlines_seq` | 1 CPU, ring of 1 to 3 slots, pids 0..4 of which 4 is beyond the maps | a listing misses nothing that stays bound |
| `trace_array` | 2 processes, 2 CPUs, two latency tracers and two others, size 1, `global_trace` | the four properties of the buffers |
| `trace_settings` | 1 process, 1 CPU, a latency tracer and nop, sizes 1 to 3, 2 clocks | both buffers keep one size, one mode and one clock, or `apart` tells why not; the type invariant of both modules |
| `trace_instances` | 3 processes, 3 addresses, 3 tracers, symmetric | the seven properties of references |
| `buffered_event` | 2 CPUs, 2 nested events, 2 filters | the four properties of the pages |
| `trace_readers` | 2 readers in five pairs of files, 2 CPUs, buffers of 2, 3 events, one switch of `tracing_on` | the readers implement `TraceQueue`, and drain it |
| `trace_contexts` | 4 contexts, 6 deep, 4 text buffers | refused exactly when recursive, messages intact |
| `mount_bench` | each of 24 programs, 2 directories, 3 runs, 2 faults, with and without propagation | the three properties of the benchmarks besides their types |
| `uevent_dump` | both programs, 10 directories, 3 links, a socket of 2, 2 runs, 2 foreign messages, 1 fault | the five properties of the dump besides its types |
| `trace_readers_splice` | a splice and a read of one CPU | finding 1 |
| `trace_contexts_index` | as `trace_contexts` | finding 2 |

Why the bounds are enough. A ring of two slots with three pids besides the idle task wraps,
evicts, and evicts a pid that was bound again; one slot makes every binding an eviction; two
CPUs meet at the lock; the task tree needs one step between two saves of one pid to make names
and ancestors change. Two processes and two CPUs give a dump beside a reset or a change of
tracer, with one swap in flight and one to come; a third would add no other pair of operations
on the two buffers. Three processes allow two readers of one tracer on two arrays beside a third
that changes the tracer or removes an array; two addresses besides `global_trace` let one be
removed and reused while the other pins the same tracer. Nesting of two shows a second user of a
page; deeper nesting repeats it. Two filters reach every transition of the count of users around
0 and 1. No property of `trace_array` looks at a size, so its buffers have one; sizes are the matter of
`trace_settings`. There the changes hold the mutex, so one process makes them all and what
matters beside it are swaps, kernel code that allocates a snapshot, and tracers; three sizes tell the
old size, the new one and the smallest apart. The five pairs of `trace_readers` are all ways in which
two readers can meet: two of all CPUs, all against one by read and by page, two of one CPU, and two
that must not meet; a buffer of 2 with 3 events overwrites one that is being read. Six frames nest an
NMI in an interrupt in a softirq in a task with two more calls inside. Two directories show a second
child beside a first; the third run is the one after an unmount. A socket of two overruns.

Fairness. In `TraceArray`, for `LockReleased`: a process that holds `trace_types_lock` inside an
operation runs on: it sleeps only in `synchronize_sched` and in the wait of a reset, both of which
end. A CPU past the checks of `update_max_tr` has interrupts off, so its swap ends. Nothing is
assumed of opening, closing, new snapshots or new stops. Under this fairness `synchronize_sched` ends
although CPUs go on swapping, as it waits only for those it found; the mutant `QuietForAll`, which
waits for a moment without swaps, loses that.

In `TraceReaders`, for `Drained`: a program that reads a trace calls read again (`Call`), a call that
can go on goes on (`Step`, `Wake`), and the kernel's semaphores and mutexes queue their waiters, so
that a lock that becomes free again and again is given to each of them (strong fairness of
`LockAll`, `LockShared`, `LockCpu`). Signals, new events and switches of `tracing_on` are not assumed.

In `MountBench`, for `LoopEnds`: every process that can run runs; nothing is killed or started again
by necessity. In `UeventDump`, for `WalkEnds`: the program runs on; nothing is assumed of other
senders, which are bounded by `MaxOther`: a sender that never stops would keep the receive loop busy.

## 4. Proofs

Every invariant and every action property that a passing run checks is also the statement of a
theorem, for every value of the constants that the modules' named `ASSUME`s allow: finite sets of
processes, CPUs and readers, distinct special values, positive bounds, `cmdline_num` from 1 to
`PID_MAX`, a buffer of at least two events, and the like. Each theorem goes the same way: an
invariant stronger than the property, which TLC checked on the run's instance before it was proved;
one lemma or step per action that disturbs it; and the implication. The bounds on counters
(`MaxEvents`, `MaxPass`, `Depth`, ...) are constants too, so a result holds however large they are.

Three hypotheses that the code does not ensure by itself are written into the theorems that need
them. The run checks the property under the same hypothesis, and section 6 tells what goes wrong
without.

- `~Migrates` (`BufferedEventProofs`): the task that enables or disables the pages is on the same CPU
  at its two rounds of calls.
- `Global` (`TraceArrayProofs`): the array is `global_trace`, whose stop disables both buffers.
- `SpliceAlone` (`TraceReadersProofs`): a splice of `trace_pipe` has its CPUs to itself. It is a
  condition on who has which file open; read and raw readers may share CPUs as they like.

**Saved command lines** (`SavedCmdlinesProofs`). The ring is well typed, the maps are inverse, a
slot holds the names of its pid, a lookup prints the last save or nothing known, the last
`cmdline_num` bound pids are all kept, and a CPU stops asking only when every task was saved.
`MapsInverse` is preserved by a binding only because the evicted pid's entry is cleared, and
`OwnNames` only because the names are written before the lock is given back, so the invariant adds
who holds the lock and what the holder is doing (`LockHeld`). `RecentCorrect` needs that the pids
bound since the ring was installed fill the slots in the order of the index; `RetryCorrect` that
while no save failed, what is not saved is still on the recorder's list (`Unsaved`). `SeqImplements`
shows that readers of `saved_cmdlines` take only steps of the recorders' specification, so all of
these hold beside them; `ListingCorrect` that a listing misses nothing: what stayed bound is shown
already or lies ahead of the reader's position (`Ahead`, by the rank of a slot among those in use).

**Trace arrays** (`TraceArrayProofs`). `DisableBalanced` is not inductive because a swap exchanges
the buffers between a disable and its enable. It holds for `global_trace` because a stop disables
both buffers, and a reset enables the one it disabled, whatever has become of the pointers: the
invariant says that the disables of each buffer are those of the readers and of the resets that
found it (`Balanced`), and `DumpStopped` follows. A resize that cannot be rolled back sets
`tracing_disabled`; a reader that leaves then leaves its stop behind, so from then on the array is
stopped for at least its readers, and before for exactly them. The resets are those of a clear, of
`free_snapshot` and of `tracer_init`. `ShrinkQuiet`, of any array, needs who holds the
mutex at each step (`HoldsLock`) and that a latency tracer's swap that is under way while the old
tracer is freed is one that `synchronize_sched` still waits for (`SettingHeld`). For the settings,
`SameSize` and `SameSettings` need where the change under way is between its two halves
(`OpBalanced`, `OpHolds`), that a tracer which may swap is set only while a snapshot is allocated,
and never while one is freed (`TracersApart`), and that the recorded size is the live one as long as
nothing is apart (`Sizes`).

**References** (`TraceInstancesProofs`). No count goes below zero, both counts are exact, an array
with an open file exists, readers keep their tracer, a `snapshot_raw` file never meets a latency
tracer, and `tracer->enabled` counts the arrays that use the tracer. Exactness makes the zero tests
of rmdir and of `tracing_set_tracer` mean that nobody holds the array or reads with the tracer,
which keeps `HolderListed` and `TraceKept`; those in turn make every decrement hit the count that
was incremented. None is inductive alone, so the invariant is their conjunction with the shape of a
half-opened file (`OpenedShape`).

**Buffered events** (`BufferedEventProofs`). An event writes to the page only if it finds the count
at one after counting itself. The count covers all events on the stack that hold one and the one
that the task's call adds (`Covers`), so a second event finds more than one (`Single`). Once a CPU
was called, no event is the first user any more; so when `synchronize_sched` has seen it idle, it
has no writer until its page is cleared (`Drained`), and only that page is freed (`FreedListed`).

**Readers** (`TraceReadersProofs`). With the types come what each call may hold at each place
(`CallsOK`, `LocksHeld`), and that an entry is one that was recorded (`EntriesKnown`). Two readers
past their locks have no CPU in common, so the entry a reader found stays the oldest of its CPU and
is on the reader page, out of the producer's way (`EntriesHeld`). From that, each step of
`TraceReaders` is mapped to a step of `TraceQueue` or to a stutter: a recording to a recording with
or without a loss, a printed line or a taken page to a delivery of the first entries, and a
consumption to nothing (`QueueCorrect`).

**Contexts** (`TraceContextsProofs`). The bits of `trace_recursion` are those set by the frames on
the stack (`Bits`), and the `nesting` of a CPU is the number of text buffers its frames have taken
(`Taken`): an interrupt returns with the stack as it was, so both are restored though reads and
writes are apart. From the first, a function is refused exactly when its context is inside already;
from the second, two messages are never in one buffer.

**Benchmarks** (`MountBenchProofs`). The 24 programs are reduced to the few facts the steps use
(`Described`). `OneMeasured`: at most one child is before its report, because `main` forks the next
one only when it has read the report or the end of the pipe, and nobody else has its write end open
(`HeldByPipe`, `OwnPipe`). `Rerunnable` is about the programs that work one directory after another
in `main` and remove it in their second mode, where mounts propagate, the program's mount can succeed
(not that of `mnt16`) and no call has failed: an odd run has made the
first directories and an even run has left the last ones, as far as the loop has come (`Through`,
`Done`), and the mounts follow one step behind.

**uevent dump** (`UeventDumpProofs`). The walk is described by what lies ahead of it: what was
written, what a failed call missed and what is still ahead make the goal (`Covered`), links and
withheld devices left out; so at the end of the trigger's list what was not written was missed. A
message is in a file, in the socket, or accounted for as lost (`Accounted`); socket and files keep
the kernel's order (`QueueInOrder`, `RunInOrder`); in an undisturbed run, which misses nothing, a
message of each device written is kept (`WrittenKept`), and at the marker nothing is ahead. A restart
may fall between any two steps, so each part says which run it is about.

Only model-checked: `LockReleased`, `Drained`, `LoopEnds` and `WalkEnds`, liveness under fairness,
which needs ENABLED; and the counterexamples of the two runs of section 6. No theorem speaks of a
recursively defined value in general: functions such as `Below` of the uevent dump are unfolded over
the fixed directories, and the ranks of `Ahead` are cardinalities.

## 5. What the checks do not cover

- Undefined behaviour after a failed assertion of the code, and writes to files of a removed
  array (`current_tracer` and `options/*` are opened without a reference).
- In `buffered_event` the task stays on its CPU between the two interprocessor calls (`Migrates`
  FALSE): its properties say that the protocol is right under that condition, which the code does
  not ensure (section 6).
- `ShrinkQuiet` is about a change of tracer that shrinks the spare buffer, and about latency tracers.
  A caller of `tracing_snapshot()` may be past the checks when the buffer is shrunk, as
  `free_snapshot` clears `allocated_snapshot` last; the model swaps the shrunk buffer in and no
  property forbids it. Nor does it cover "echo 0 > snapshot" (section 6).
- Memory: what is leaked on the error paths of `allocate_cmdlines_buffer`, the kfree of the
  registered tracer on the error path of `tracing_open_pipe`, the page references of splice.
- Two arrays in one model of the buffers: a snapshot of an instance without a buffer switches
  `global_trace` off, and `ring_buffer_expanded` is one flag for all arrays.
- `tracing_cpumask`, sizes of single CPUs, swaps of a single CPU's buffer.
- Swaps beside a reader: a reader that sleeps on a buffer which is exchanged, or that finds in one
  and consumes in the other; `poll`.
- Pid filters: `trace_filter_add_remove_task` and its kin are here, but the code that publishes a
  filter and registers them (`trace_events.c`, `ftrace.c`) is not.
- Marker files, exports and the oops dump.
- The walk of `uevent_dump` is over one fixed part of sysfs; the scripts around it, which remove
  `/dev/.coldboot_done` and not `DUMP_DONE`, so that a scripted second dump does nothing; what a fork
  does to unflushed output in the benchmarks.
- The components with status `not_modelled`: they are scripts that run once, formatting, or
  third-party code, without a state that outlives a step.

## 6. Findings

Two have a run that TLC must find violated.

1. `trace_readers_splice` (`EntryValid`): splice of `trace_pipe` finds its entry before it takes the
   access lock, so another reader of that CPU may consume it, and splice then prints it again and
   consumes one it did not print.
2. `trace_contexts_index` (`IndexInBuffer`): `get_trace_buf` counts before it indexes, so the fourth
   nested `trace_printk` writes behind the four buffers.

Further disagreements between the code and what it says of itself. The first ones are stated in the
modules as definitions that do not hold; no run checks them.

- `LookupOlderAncestors` (`SavedCmdlines`): `__trace_find_cmdline_ggparent` prints the parent's name
  for all three ancestors.
- `LookupPairs` (`SavedCmdlines`): the names of ancestors are refreshed at every save, their pids
  only when a slot is taken, so a name is printed beside the pid of another task.
- `DumpStopped` with `Global` FALSE (`TraceArray`): a swap in flight makes an instance record while
  its trace is dumped.
- `TracingOffHolds` (`TraceArray`): a snapshot after `tracing_off()` makes the array record again.
- `ShrinkQuietAlways` (`TraceArray`): a change from one latency tracer to another that fails leaves nop
  and waits for nobody; "echo 0 > snapshot" may then shrink the buffer before a swap of the old
  tracer is over.
- `SameSizeAlways` (`TraceSettings`): a latency tracer may work on buffers of two sizes without
  tracing being disabled: the live buffer is resized under nop while a snapshot is allocated and the
  tracer is set then, or a swap comes between the two resizes.
- `LiveClock` (`TraceSettings`): after a swap between the two halves of `tracing_set_clock`, which
  sleeps in between, the live buffer keeps the old clock. The overwrite mode has the same gap.
- `FreedUnused` (`BufferedEvent`): the CPU that disables the pages is not told; its page is freed
  under an event.
- `CountCleared` with `Migrates` TRUE (`BufferedEvent`): the task may be on different CPUs at its two
  calls; one CPU then keeps a count and another goes below zero.
- `RefWhileFilters` (`BufferedEvent`): an enable that runs out of memory undoes its count, and the
  owner's disable meets the warning.
- `CallbackOnce` (`TraceContexts`): an interrupt between the read and the write of the recursion bits
  can let a callback run inside itself.
- `EofWhenOff` (`TraceReaders`): a reader that went to sleep before tracing was switched off is not
  woken and gives no end of file.

Seen while modelling, and in no definition:

- `read` of `trace_pipe` returns 0, an end of file, while tracing is on, when another reader emptied
  the buffer between `tracing_wait_pipe` and the test that follows it.
- `tracing_cpumask_write` disables the live buffer only, so after a swap the mask is not in force and
  the next write gives a count back to a buffer that never had it.
- `ring_buffer_expanded` is set before the resize and shared by all arrays: after a failed expansion,
  or the first tracer of an instance, `global_trace` keeps its smallest size.
- `buffer_size_kb` shows the recorded size, which is not that of the live buffer after buffers of two
  sizes were swapped.
- `mnt13-sequence2-wait-child.c` calls `fpid <= 0` "in child": a failed fork makes the parent unshare,
  mount and loop. A failed fork in `mnt11-f-strace.c` and `mnt12-cpu-affinity.c` leaves `tracing_on`
  set; they also write 0 to it when the children have been forked, not when they have mounted.
- Under private propagation the second mode of the benchmarks unmounts nothing of its children, and
  the directories of `mnt14` stay.
- `mnt16-single-thread-mount-tests.c` cannot be run twice under any propagation: it binds an empty
  source (`mount("", ..., MS_BIND | MS_REC, NULL)`, line 101), which the kernel refuses, so in the
  second mode `umount` fails, `umount_one` returns at line 137 before its `rmdir`, and the next run
  finds the directories.
- `write_uevent_dump` compares what `fwrite` took with what it was given, but the data may still be in
  the stream's buffer, and `fclose`, which writes it, is not looked at: a full disk cuts files short
  without a message. `device_init` makes the marker whether or not calls of the walk failed.

## 7. Plan

Done: the ring of command lines and its listing, the buffers, their settings, the references, the
buffered events, the readers with their abstract queue, nested contexts, the mount benchmarks, the
uevent dump, and a theorem for every invariant and action property of the passing runs.

Theorems to prove next, in this order:

1. What `LockReleased` and `Drained` rest on that is no liveness: that some step is possible for
   whoever holds `trace_types_lock` or a lock of the readers, stated as a predicate on states.
2. `DisableBalanced` for an instance, up to the swaps that fell into an operation, as `apart` does for
   the settings.
3. What remains of `TraceQueue` when a splice shares its CPU: that nothing is delivered that was not
   recorded, and how often an event is.
4. `SameSettings` for an instance, under the weaker balance of 2.

To model, if a property asks for it: two arrays that share `ring_buffer_expanded` and the call of
`tracing_off`; a swap beside a sleeping reader; `tracing_cpumask`.
