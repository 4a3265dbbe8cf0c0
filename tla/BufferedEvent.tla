--------------------------- MODULE BufferedEvent ---------------------------
(***************************************************************************)
(* The per-CPU pages that filtered events are written to before they are   *)
(* copied into the ring buffer or dropped (trace_buffered_event,           *)
(* linux/ftrace/trace/trace.c).  Events use the page of their CPU with     *)
(* preemption disabled, and interrupts nest events on one CPU; the task    *)
(* that holds event_mutex allocates the pages for the first filter and     *)
(* frees them after the last, by interprocessor calls and                  *)
(* synchronize_sched.                                                      *)
(***************************************************************************)
EXTENDS Integers, Sequences, FiniteSets

CONSTANTS
    Cpu,       \* the CPUs that are traced
    Depth,     \* bound: events nested on a CPU (task, softirq, irq, NMI)
    MaxFilters,\* bound: filters that need the pages
    Migrates   \* whether the task can change CPU between two interprocessor calls

ASSUME CpuAssumption == IsFiniteSet(Cpu)
ASSUME BoundAssumption == Depth \in Nat \ {0} /\ MaxFilters \in Nat \ {0}
ASSUME MigratesAssumption == Migrates \in BOOLEAN

VARIABLES
    filters,                   \* filters and triggers whose owner called enable
    trace_buffered_event_ref,
    trace_buffered_event,      \* per CPU: no page, a page, or a page that was freed
    trace_buffered_event_cnt,
    events,                    \* per CPU: the events in flight, the innermost first
    task                       \* what the holder of event_mutex does

vars == <<filters, trace_buffered_event_ref, trace_buffered_event, trace_buffered_event_cnt,
          events, task>>

(* An event has read the pointer to the page, writes to the page, or found   *)
(* it in use and has to take its count back.  stale: the page was taken away *)
(* under the event (history).                                                *)
Event == [at: {"read", "writes", "declined"}, stale: BOOLEAN]

(* "alloc" pages for the CPUs in todo; "count" and "uncount" by calls to the *)
(* CPUs in todo; "sync" until the CPUs in todo were idle once; "free" the    *)
(* pages of the CPUs in todo.  on is the CPU that made the calls.            *)
Task == [at: {"idle", "alloc", "count", "sync", "free", "uncount"},
         todo: SUBSET Cpu, on: Cpu]

Init ==
    /\ filters = 0
    /\ trace_buffered_event_ref = 0
    /\ trace_buffered_event = [c \in Cpu |-> "none"]
    /\ trace_buffered_event_cnt = [c \in Cpu |-> 0]
    /\ events = [c \in Cpu |-> << >>]
    /\ task \in {[at |-> "idle", todo |-> {}, on |-> c] : c \in Cpu}

-----------------------------------------------------------------------------
(* Events.                                                                   *)

Count(c, n) == [trace_buffered_event_cnt EXCEPT ![c] = @ + n]
Innermost(c, at) == events[c] # << >> /\ Head(events[c]).at = at

(* trace_event_buffer_lock_reserve reads the pointer; without a page the     *)
(* event goes to the ring buffer at once.                                    *)
ReadPage(c) ==
    /\ Len(events[c]) < Depth
    /\ trace_buffered_event[c] # "none"
    /\ events' = [events EXCEPT ![c] = <<[at |-> "read", stale |-> FALSE]>> \o @]
    /\ UNCHANGED <<filters, trace_buffered_event_ref, trace_buffered_event,
                   trace_buffered_event_cnt, task>>

(* Mutant: an event that interrupts another one may write too.               *)
FirstUserAny(val) == val >= 1
FirstUser(val) == val = 1

(* this_cpu_inc_return: only the first user writes to the page.              *)
CountPage(c) ==
    /\ Innermost(c, "read")
    /\ trace_buffered_event_cnt' = Count(c, 1)
    /\ events' = [events EXCEPT ![c][1].at =
                    IF FirstUser(trace_buffered_event_cnt'[c]) THEN "writes" ELSE "declined"]
    /\ UNCHANGED <<filters, trace_buffered_event_ref, trace_buffered_event, task>>

(* A CPU without an event in flight was idle once for synchronize_sched.     *)
Idled(c, es) ==
    IF task.at = "sync" /\ es = << >> THEN [task EXCEPT !.todo = @ \ {c}] ELSE task

(* The event goes to the ring buffer instead.                                *)
Decline(c) ==
    /\ Innermost(c, "declined")
    /\ trace_buffered_event_cnt' = Count(c, -1)
    /\ events' = [events EXCEPT ![c] = Tail(@)]
    /\ task' = Idled(c, Tail(events[c]))
    /\ UNCHANGED <<filters, trace_buffered_event_ref, trace_buffered_event>>

(* __buffer_unlock_commit or __trace_event_discard_commit.  Where the page   *)
(* was taken away the pointers differ, unless the page got the same address  *)
(* again: the count may or may not be taken back.                            *)
CommitPage(c) ==
    /\ Innermost(c, "writes")
    /\ trace_buffered_event_cnt' \in
         {Count(c, -1)} \cup (IF Head(events[c]).stale THEN {trace_buffered_event_cnt} ELSE {})
    /\ events' = [events EXCEPT ![c] = Tail(@)]
    /\ task' = Idled(c, Tail(events[c]))
    /\ UNCHANGED <<filters, trace_buffered_event_ref, trace_buffered_event>>

-----------------------------------------------------------------------------
(* The task that holds event_mutex.                                          *)

(* smp_call_function_many calls every CPU but the one it runs on.            *)
Called(on) == Cpu \ {on}

(* Mutant: the task may always move.                                         *)
SecondCpuAny == Cpu
(* Where the task is when it makes its second call: another CPU only if it   *)
(* can move.                                                                 *)
SecondCpu == IF Migrates THEN Cpu ELSE {task.on}

(* trace_buffered_event_disable, past its test of the count.                 *)
DisableLast ==
    /\ trace_buffered_event_ref' = 0
    /\ \E c \in Cpu : task' = [at |-> "count", todo |-> Called(c), on |-> c]

(* trace_buffered_event_enable.                                              *)
Enable ==
    /\ task.at = "idle" /\ filters < MaxFilters
    /\ filters' = filters + 1
    /\ trace_buffered_event_ref' = trace_buffered_event_ref + 1
    /\ task' = IF trace_buffered_event_ref = 0
               THEN [task EXCEPT !.at = "alloc", !.todo = Cpu] ELSE task
    /\ UNCHANGED <<trace_buffered_event, trace_buffered_event_cnt, events>>

Done(c) == [task EXCEPT !.todo = @ \ {c}]

AllocPage(c) ==
    /\ task.at = "alloc" /\ c \in task.todo
    /\ trace_buffered_event' = [trace_buffered_event EXCEPT ![c] = "page"]
    /\ task' = IF task.todo = {c} THEN [task EXCEPT !.at = "idle", !.todo = {}] ELSE Done(c)
    /\ UNCHANGED <<filters, trace_buffered_event_ref, trace_buffered_event_cnt, events>>

(* No memory: all pages are given back.                                      *)
AllocFailed ==
    /\ task.at = "alloc"
    /\ DisableLast
    /\ UNCHANGED <<filters, trace_buffered_event, trace_buffered_event_cnt, events>>

(* Mutant: the count is not tested.                                          *)
IsCountedAlways == TRUE
IsCounted == trace_buffered_event_ref > 0

(* trace_buffered_event_disable, by the owner of a filter; without a count   *)
(* it warns and does nothing.                                                *)
Disable ==
    /\ task.at = "idle" /\ filters > 0
    /\ filters' = filters - 1
    /\ \/ ~IsCounted /\ UNCHANGED <<trace_buffered_event_ref, task>>
       \/ IsCounted /\ trace_buffered_event_ref = 1 /\ DisableLast
       \/ /\ IsCounted /\ trace_buffered_event_ref # 1
          /\ trace_buffered_event_ref' = trace_buffered_event_ref - 1
          /\ UNCHANGED task
    /\ UNCHANGED <<trace_buffered_event, trace_buffered_event_cnt, events>>

(* Mutant: synchronize_sched is left out.                                    *)
InFlightNone == {}
InFlight == {c \in Cpu : events[c] # << >>}

(* disable_trace_buffered_event on a CPU that was called.                    *)
CountCall(c) ==
    /\ task.at = "count" /\ c \in task.todo
    /\ trace_buffered_event_cnt' = Count(c, 1)
    /\ task' = Done(c)
    /\ UNCHANGED <<filters, trace_buffered_event_ref, trace_buffered_event, events>>

(* All calls were made, and synchronize_sched starts ...                     *)
Synchronize ==
    /\ task.at = "count" /\ task.todo = {}
    /\ task' = [task EXCEPT !.at = "sync", !.todo = InFlight]
    /\ UNCHANGED <<filters, trace_buffered_event_ref, trace_buffered_event,
                   trace_buffered_event_cnt, events>>

(* ... and ends.                                                             *)
Synchronized ==
    /\ task.at = "sync" /\ task.todo = {}
    /\ task' = [task EXCEPT !.at = "free", !.todo = Cpu]
    /\ UNCHANGED <<filters, trace_buffered_event_ref, trace_buffered_event,
                   trace_buffered_event_cnt, events>>

FreePage(c) ==
    /\ task.at = "free" /\ c \in task.todo /\ trace_buffered_event[c] = "page"
    /\ trace_buffered_event' = [trace_buffered_event EXCEPT ![c] = "freed"]
    /\ UNCHANGED <<filters, trace_buffered_event_ref, trace_buffered_event_cnt, events, task>>

(* The pointer is cleared after its page is freed.                           *)
ClearPage(c) ==
    /\ task.at = "free" /\ c \in task.todo /\ trace_buffered_event[c] # "page"
    /\ trace_buffered_event' = [trace_buffered_event EXCEPT ![c] = "none"]
    /\ events' = [events EXCEPT ![c] =
                    [i \in DOMAIN @ |-> [@[i] EXCEPT !.stale = TRUE]]]
    /\ IF task.todo = {c}
       THEN \E d \in SecondCpu : task' = [at |-> "uncount", todo |-> Called(d), on |-> d]
       ELSE task' = Done(c)
    /\ UNCHANGED <<filters, trace_buffered_event_ref, trace_buffered_event_cnt>>

(* enable_trace_buffered_event on a CPU that was called.                     *)
UncountCall(c) ==
    /\ task.at = "uncount" /\ c \in task.todo
    /\ trace_buffered_event_cnt' = Count(c, -1)
    /\ task' = Done(c)
    /\ UNCHANGED <<filters, trace_buffered_event_ref, trace_buffered_event, events>>

(* All calls were answered.                                                  *)
Disabled ==
    /\ task.at = "uncount" /\ task.todo = {}
    /\ task' = [task EXCEPT !.at = "idle"]
    /\ UNCHANGED <<filters, trace_buffered_event_ref, trace_buffered_event,
                   trace_buffered_event_cnt, events>>

-----------------------------------------------------------------------------

EventStep(c) == ReadPage(c) \/ CountPage(c) \/ Decline(c) \/ CommitPage(c)

TaskStep ==
    \/ Enable \/ AllocFailed \/ Disable \/ Synchronize \/ Synchronized \/ Disabled
    \/ \E c \in Cpu : \/ AllocPage(c) \/ CountCall(c) \/ FreePage(c)
                      \/ ClearPage(c) \/ UncountCall(c)

Next == (\E c \in Cpu : EventStep(c)) \/ TaskStep

Spec == Init /\ [][Next]_vars

-----------------------------------------------------------------------------
(* Properties.                                                               *)

TypeOK ==
    /\ filters \in Nat /\ trace_buffered_event_ref \in Nat
    /\ trace_buffered_event \in [Cpu -> {"none", "page", "freed"}]
    /\ trace_buffered_event_cnt \in [Cpu -> Int]
    /\ events \in [Cpu -> Seq(Event)]
    /\ task \in Task

At(c, at)  == {i \in DOMAIN events[c] : events[c][i].at = at}

(* Of the events nested on a CPU only one writes to the CPU's page, whatever *)
(* calls change the count between (the test of this_cpu_inc_return).         *)
OneWriter ==
    \A c \in Cpu : Cardinality({i \in At(c, "writes") : ~events[c][i].stale}) <= 1

(* The CPUs that the task has counted and not yet uncounted.                 *)
Counted ==
    CASE task.at = "count" -> Called(task.on) \ task.todo
      [] task.at \in {"sync", "free"} -> Called(task.on)
      [] task.at = "uncount" -> task.todo
      [] OTHER -> {}

(* A page in use is counted: once per event in flight and once by the task   *)
(* that takes the page away.  Below that a second event could write to it.   *)
CountCovers ==
    \A c \in Cpu : trace_buffered_event_cnt[c] >=
        Cardinality(At(c, "writes") \cup At(c, "declined")) + (IF c \in Counted THEN 1 ELSE 0)

(* On the CPUs that were called a page is freed when no event writes to it,  *)
(* and none writes to it before the pointer is cleared.                      *)
FreedUnusedCalled ==
    \A c \in Cpu : trace_buffered_event[c] = "freed" /\ c # task.on => At(c, "writes") = {}

(* "Free up the temp buffers when there are no more users": on no CPU at     *)
(* all.  It does not hold: the calls leave out the CPU the task runs on.     *)
FreedUnused ==
    \A c \in Cpu : trace_buffered_event[c] = "freed" => At(c, "writes") = {}

(* "Make sure trace_buffered_event is NULL before clearing                   *)
(* trace_buffered_event_cnt": once a disable is over, a page counts as used  *)
(* only by the events in flight.  It does not hold when the task moves to    *)
(* another CPU between its two calls.                                        *)
CountCleared ==
    task.at = "idle" => \A c \in Cpu :
        trace_buffered_event_cnt[c] = Cardinality(At(c, "writes") \cup At(c, "declined"))

(* The count of enables is not used up while a filter counts on the pages    *)
(* (WARN_ON_ONCE(!trace_buffered_event_ref)).  It does not hold after an     *)
(* allocation failed.                                                        *)
RefWhileFilters == filters > 0 /\ task.at = "idle" => trace_buffered_event_ref > 0
=============================================================================
