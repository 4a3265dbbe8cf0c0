---------------------------- MODULE TraceReaders ----------------------------
(***************************************************************************)
(* The readers that consume a trace (linux/ftrace/trace/trace.c): read and *)
(* splice of trace_pipe, of all CPUs or of one, and read and splice of     *)
(* trace_pipe_raw of one CPU.  A reader finds the oldest entry, prints it  *)
(* and consumes it, under locks of its own (trace_access_lock) that leave  *)
(* different CPUs to different readers; it sleeps when there is nothing to *)
(* read and gives up when tracing was switched off.  Events are recorded   *)
(* on every CPU at any time and overwrite the oldest ones.                 *)
(***************************************************************************)
EXTENDS Integers, Sequences, SequencesExt, FiniteSets

CONSTANTS
    Reader,    \* processes, each with one open file
    Cpu,
    All,       \* RING_BUFFER_ALL_CPUS
    Nobody,    \* a lock that is free
    OpenFiles, \* the cases: functions from Reader to [cpu, call]
    Cap,       \* events a CPU's buffer holds
    MaxEvents, \* bound: events recorded
    MaxSwitches\* bound: writes to tracing_on

ASSUME ReaderAssumption == IsFiniteSet(Reader) /\ Nobody \notin Reader
ASSUME CpuAssumption == IsFiniteSet(Cpu) /\ All \notin Cpu
ASSUME FileAssumption ==
    /\ OpenFiles \subseteq [Reader -> [cpu: Cpu \cup {All}, call: {"read", "splice", "raw", "pages"}]]
    /\ \A f \in OpenFiles : \A r \in Reader : f[r].call \in {"raw", "pages"} => f[r].cpu \in Cpu
ASSUME BoundAssumption == Cap \in Nat \ {0, 1} /\ MaxEvents \in Nat /\ MaxSwitches \in Nat

VARIABLES
    files,               \* per reader, the CPU of its file and how it reads
    recorded,            \* number of events recorded; event n is the nth
    buffer,              \* per CPU, the events that can be read, oldest first
    reader_page,         \* per CPU, whether the oldest was moved to the reader page
    tracing_on, switches,
    all_cpu_access_lock, \* writer and readers of the semaphore
    cpu_access_lock,     \* per CPU, the holder of the mutex
    iter,                \* per reader, where it is, its entry and whether it has read
    out                  \* per reader, what it was given

locks == <<all_cpu_access_lock, cpu_access_lock>>
trace == <<recorded, buffer, reader_page>>
vars  == <<files, trace, tracing_on, switches, locks, iter, out>>

(* ent and cpu: the entry found (0 for none) and its CPU.  pos: whether       *)
(* iter->pos is set.  got: whether this call has something for its caller.   *)
IterState == [at: {"idle", "wait", "sleep", "check", "first", "down", "mutex", "find", "print",
                   "consume", "next", "take", "unlock", "eof"},
              ent: 0 .. MaxEvents, cpu: Cpu \cup {All}, pos: BOOLEAN, got: BOOLEAN]

Init ==
    /\ files \in OpenFiles
    /\ recorded = 0
    /\ buffer = [c \in Cpu |-> << >>]
    /\ reader_page = [c \in Cpu |-> FALSE]
    /\ tracing_on \in BOOLEAN /\ switches = 0
    /\ all_cpu_access_lock = [writer |-> Nobody, readers |-> {}]
    /\ cpu_access_lock = [c \in Cpu |-> Nobody]
    /\ iter = [r \in Reader |-> [at |-> "idle", ent |-> 0, cpu |-> files[r].cpu, pos |-> FALSE, got |-> FALSE]]
    /\ out = [r \in Reader |-> << >>]

-----------------------------------------------------------------------------
(* The ring buffer, as the readers use it.                                   *)

(* In a full buffer an event takes the place of the oldest one that is not   *)
(* on the reader page.  Mutant: off by one.                                  *)
RoomForOneMore(c) == IF Len(buffer[c]) <= Cap THEN buffer[c] ELSE Tail(buffer[c])
Room(c) == IF Len(buffer[c]) < Cap THEN buffer[c]
           ELSE RemoveAt(buffer[c], IF reader_page[c] THEN 2 ELSE 1)

(* An event is recorded.                                                     *)
Record(c) ==
    /\ tracing_on /\ recorded < MaxEvents
    /\ recorded' = recorded + 1
    /\ buffer' = [buffer EXCEPT ![c] = Append(Room(c), recorded + 1)]
    /\ UNCHANGED <<files, reader_page, tracing_on, switches, locks, iter, out>>

Switch ==
    /\ switches < MaxSwitches /\ switches' = switches + 1
    /\ tracing_on' = ~tracing_on
    /\ UNCHANGED <<files, trace, locks, iter, out>>

CpusOf(r) == IF files[r].cpu = All THEN Cpu ELSE {files[r].cpu}
trace_empty(r) == \A c \in CpusOf(r) : buffer[c] = << >>

Goto(r, at) == iter' = [iter EXCEPT ![r].at = at]

-----------------------------------------------------------------------------
(* Waiting.                                                                  *)

Raw(r) == files[r].call \in {"raw", "pages"}

(* read or splice is called.  A reader of trace_pipe_raw looks for a page    *)
(* before it waits.                                                          *)
Call(r) ==
    /\ iter[r].at \in {"idle", "eof"}
    /\ iter' = [iter EXCEPT ![r].at = IF Raw(r) THEN "down" ELSE "wait", ![r].got = FALSE]
    /\ UNCHANGED <<files, trace, tracing_on, switches, locks, out>>

(* tracing_wait_pipe: EAGAIN for O_NONBLOCK, 0 when tracing is off and       *)
(* something was read before, else wait_on_pipe.                             *)
WaitPipe(r) ==
    LET readable == Goto(r, IF files[r].call = "splice" THEN "first" ELSE "check")
        finished == ~tracing_on /\ iter[r].pos
    IN /\ iter[r].at = "wait"
       /\ \/ ~trace_empty(r) /\ readable
          \/ trace_empty(r) /\ Goto(r, "idle")
          \/ trace_empty(r) /\ finished /\ readable
          \/ trace_empty(r) /\ ~finished /\ Goto(r, "sleep")
       /\ UNCHANGED <<files, trace, tracing_on, switches, locks, out>>

(* ring_buffer_wait returns when the CPUs waited for have an event; a signal *)
(* ends the call.                                                            *)
Wake(r) ==
    /\ iter[r].at = "sleep" /\ ~trace_empty(r)
    /\ Goto(r, IF Raw(r) THEN "down" ELSE "wait")
    /\ UNCHANGED <<files, trace, tracing_on, switches, locks, out>>

Signal(r) ==
    /\ iter[r].at = "sleep"
    /\ Goto(r, "idle")
    /\ UNCHANGED <<files, trace, tracing_on, switches, locks, out>>

(* "stop when tracing is finished": tracing_read_pipe returns 0 if there is  *)
(* nothing to read, else clears the iterator and takes the lock.             *)
CheckEmpty(r) ==
    /\ iter[r].at = "check"
    /\ IF trace_empty(r) THEN Goto(r, "eof")
       ELSE iter' = [iter EXCEPT ![r].at = "down", ![r].ent = 0, ![r].pos = TRUE]
    /\ UNCHANGED <<files, trace, tracing_on, switches, locks, out>>

-----------------------------------------------------------------------------
(* trace_access_lock and trace_access_unlock.                                *)

(* What comes after the lock.                                                *)
AfterLock(r) == CASE files[r].call = "read" -> "find"
                  [] files[r].call = "splice" -> "print"
                  [] OTHER -> "take"

(* Mutant: the reader of all CPUs looks only for others of its kind.         *)
DownWriteAlone == all_cpu_access_lock.writer = Nobody
DownWriteFree  == all_cpu_access_lock = [writer |-> Nobody, readers |-> {}]

LockAll(r) ==
    /\ iter[r].at = "down" /\ files[r].cpu = All
    /\ DownWriteFree
    /\ all_cpu_access_lock' = [all_cpu_access_lock EXCEPT !.writer = r]
    /\ Goto(r, AfterLock(r))
    /\ UNCHANGED <<files, trace, tracing_on, switches, cpu_access_lock, out>>

LockShared(r) ==
    /\ iter[r].at = "down" /\ files[r].cpu # All
    /\ all_cpu_access_lock.writer = Nobody
    /\ all_cpu_access_lock' = [all_cpu_access_lock EXCEPT !.readers = @ \cup {r}]
    /\ Goto(r, "mutex")
    /\ UNCHANGED <<files, trace, tracing_on, switches, cpu_access_lock, out>>

LockCpu(r) ==
    /\ iter[r].at = "mutex"
    /\ cpu_access_lock[files[r].cpu] = Nobody
    /\ cpu_access_lock' = [cpu_access_lock EXCEPT ![files[r].cpu] = r]
    /\ Goto(r, AfterLock(r))
    /\ UNCHANGED <<files, trace, tracing_on, switches, all_cpu_access_lock, out>>

(* Mutant: the mutex of the CPU is given back, the semaphore is not.         *)
UpReadNothing(r) == all_cpu_access_lock.readers
UpRead(r) == all_cpu_access_lock.readers \ {r}

(* A read of trace_pipe that has nothing for its caller waits again; a reader *)
(* of trace_pipe_raw sleeps if there is still nothing (splice waits for more *)
(* than is there, until the page is full) or returns.                        *)
Unlock(r) ==
    /\ iter[r].at = "unlock"
    /\ IF files[r].cpu = All
       THEN /\ all_cpu_access_lock' = [all_cpu_access_lock EXCEPT !.writer = Nobody]
            /\ UNCHANGED cpu_access_lock
       ELSE /\ cpu_access_lock' = [cpu_access_lock EXCEPT ![files[r].cpu] = Nobody]
            /\ all_cpu_access_lock' = [all_cpu_access_lock EXCEPT !.readers = UpRead(r)]
    /\ \/ (iter[r].got \/ files[r].call # "read") /\ Goto(r, "idle")
       \/ ~iter[r].got /\ files[r].call = "read" /\ Goto(r, "wait")
       \/ ~iter[r].got /\ files[r].call = "raw" /\ trace_empty(r) /\ Goto(r, "sleep")
       \/ ~iter[r].got /\ files[r].call = "pages" /\ Goto(r, "sleep")
    /\ UNCHANGED <<files, trace, tracing_on, switches, out>>

-----------------------------------------------------------------------------
(* Finding, printing and consuming.                                          *)

Oldest(C) == CHOOSE c \in C : \A d \in C : Head(buffer[c]) <= Head(buffer[d])

(* The CPUs whose oldest entry is on the reader page after C were peeked at.  *)
Peeked(C) == [c \in Cpu |-> reader_page[c] \/ c \in C]

(* trace_find_next_entry_inc: the oldest entry of the CPUs read.  Looking at *)
(* an entry moves its page out of the producer's way.                        *)
FindNext(r, at, none) ==
    LET C == {c \in CpusOf(r) : buffer[c] # << >>} IN
    IF C = {} THEN /\ iter' = [iter EXCEPT ![r].ent = 0, ![r].at = none]
                   /\ UNCHANGED reader_page
    ELSE /\ iter' = [iter EXCEPT ![r].ent = Head(buffer[Oldest(C)]), ![r].cpu = Oldest(C),
                                 ![r].at = at]
         /\ reader_page' = Peeked(C)

Find(r) ==
    /\ iter[r].at = "find"
    /\ FindNext(r, "print", "unlock")
    /\ UNCHANGED <<files, recorded, buffer, tracing_on, switches, locks, out>>

(* splice keeps the entry that did not fit the last time; it looks for one   *)
(* before it has the lock, and fails when there is none (-EFAULT).           *)
FindFirst(r) ==
    /\ iter[r].at = "first"
    /\ IF iter[r].ent # 0 THEN Goto(r, "down") /\ UNCHANGED reader_page
       ELSE FindNext(r, "down", "idle")
    /\ UNCHANGED <<files, recorded, buffer, tracing_on, switches, locks, out>>

(* print_trace_line.  The first line fits; a later one may find the page     *)
(* full and is left where it is.                                             *)
PrintLine(r) ==
    /\ iter[r].at = "print"
    /\ \/ /\ out' = [out EXCEPT ![r] = Append(@, iter[r].ent)]
          /\ iter' = [iter EXCEPT ![r].at = "consume", ![r].got = TRUE]
       \/ iter[r].got /\ Goto(r, "unlock") /\ UNCHANGED out
    /\ UNCHANGED <<files, trace, tracing_on, switches, locks>>

(* trace_consume: the oldest entry of the entry's CPU, whichever it is now.  *)
Consume(r) ==
    /\ iter[r].at = "consume"
    /\ buffer' = [buffer EXCEPT ![iter[r].cpu] = IF @ = << >> THEN @ ELSE Tail(@)]
    /\ reader_page' = [reader_page EXCEPT ![iter[r].cpu] = FALSE]
    /\ IF files[r].call = "splice" THEN Goto(r, "next") ELSE Goto(r, "find") \/ Goto(r, "unlock")
    /\ UNCHANGED <<files, recorded, tracing_on, switches, locks, out>>

(* splice goes on to the next entry, if there is one.                        *)
FindAfter(r) ==
    /\ iter[r].at = "next"
    /\ FindNext(r, "print", "unlock")
    /\ UNCHANGED <<files, recorded, buffer, tracing_on, switches, locks, out>>

(* ring_buffer_read_page: the n oldest events of the CPU, a page of them.    *)
Given(r, n) ==
    LET c == files[r].cpu IN
    /\ buffer' = [buffer EXCEPT ![c] = SubSeq(@, n + 1, Len(@))]
    /\ out' = [out EXCEPT ![r] = @ \o SubSeq(buffer[c], 1, n)]
    /\ reader_page' = [reader_page EXCEPT ![c] = FALSE]
    /\ iter' = [iter EXCEPT ![r].at = "unlock", ![r].got = TRUE]

NothingGiven(r) == Goto(r, "unlock") /\ UNCHANGED <<buffer, reader_page, out>>

(* tracing_buffers_read gets a page, if there is an event.                   *)
TakePage(r) ==
    /\ iter[r].at = "take" /\ files[r].call = "raw"
    /\ IF buffer[files[r].cpu] = << >> THEN NothingGiven(r)
       ELSE \E n \in 1 .. Len(buffer[files[r].cpu]) : Given(r, n)
    /\ UNCHANGED <<files, recorded, tracing_on, switches, locks>>

(* tracing_buffers_splice_read gets pages until one is not full or none can  *)
(* be allocated.                                                             *)
TakePages(r) ==
    /\ iter[r].at = "take" /\ files[r].call = "pages"
    /\ \/ \E n \in 1 .. Len(buffer[files[r].cpu]) : Given(r, n)
       \/ NothingGiven(r)
    /\ UNCHANGED <<files, recorded, tracing_on, switches, locks>>

-----------------------------------------------------------------------------
Step(r) == \/ WaitPipe(r) \/ CheckEmpty(r) \/ Unlock(r) \/ Find(r) \/ FindFirst(r)
           \/ PrintLine(r) \/ Consume(r) \/ FindAfter(r)
           \/ TakePage(r) \/ TakePages(r)

Next ==
    \/ \E c \in Cpu : Record(c)
    \/ Switch
    \/ \E r \in Reader : Call(r) \/ Wake(r) \/ Signal(r) \/ LockAll(r) \/ LockShared(r)
                         \/ LockCpu(r) \/ Step(r)

(* Readers call again and a call that can go on goes on.  The semaphore and  *)
(* the mutex queue their waiters: nobody is passed over for ever.            *)
Fairness == \A r \in Reader :
    /\ WF_vars(Call(r)) /\ WF_vars(Step(r)) /\ WF_vars(Wake(r))
    /\ SF_vars(LockAll(r)) /\ SF_vars(LockShared(r)) /\ SF_vars(LockCpu(r))

Spec == Init /\ [][Next]_vars /\ Fairness

-----------------------------------------------------------------------------
TypeOK ==
    /\ files \in OpenFiles
    /\ recorded \in 0 .. MaxEvents
    /\ \A c \in Cpu : Len(buffer[c]) <= Cap /\ \A i \in DOMAIN buffer[c] : buffer[c][i] \in 1 .. recorded
    /\ reader_page \in [Cpu -> BOOLEAN]
    /\ tracing_on \in BOOLEAN /\ switches \in 0 .. MaxSwitches
    /\ all_cpu_access_lock \in [writer: Reader \cup {Nobody}, readers: SUBSET Reader]
    /\ cpu_access_lock \in [Cpu -> Reader \cup {Nobody}]
    /\ iter \in [Reader -> IterState]
    /\ \A r \in Reader : \A i \in DOMAIN out[r] : out[r][i] \in 1 .. recorded

(* The entry a reader prints, and then consumes, is the oldest of its CPU:   *)
(* what was found is neither read by somebody else nor overwritten in        *)
(* between ("the validity of the events", trace_access_lock).  It holds for  *)
(* read; splice finds its entry before it has the lock.                      *)
EntryValid == \A r \in Reader : iter[r].at \in {"print", "consume"} =>
    buffer[iter[r].cpu] # << >> /\ iter[r].ent = Head(buffer[iter[r].cpu])

(* What the readers promise where no splice shares its CPU: each event goes  *)
(* to one reader, once, in order, unless it is overwritten.  An entry that   *)
(* is printed is delivered.                                                  *)
Printed(c) == \E r \in Reader : iter[r].at = "consume" /\ iter[r].cpu = c
Pending == [c \in Cpu |-> IF Printed(c) /\ buffer[c] # << >> THEN Tail(buffer[c]) ELSE buffer[c]]
Queue == INSTANCE TraceQueue WITH pending <- Pending, delivered <- out
DeliversQueue == Queue!Spec

(* Every event of a CPU that somebody reads for is read in the end: no       *)
(* reader is locked out by the others and none sleeps through an event.      *)
(* splice of trace_pipe_raw is not counted, it leaves the last page.         *)
Drained == <>[](\A r \in Reader : files[r].call # "pages" => trace_empty(r))

(* "After we have read something, we give an EOF when tracing is again       *)
(* disabled" (tracing_wait_pipe): a reader that has read something does not  *)
(* sleep for ever once tracing is off.  It does not hold: a reader that went *)
(* to sleep before is not woken.                                             *)
EofWhenOff == \A r \in Reader :
    <>[](~tracing_on /\ iter[r].pos) => []<>(iter[r].at # "sleep")
=============================================================================
