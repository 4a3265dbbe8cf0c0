--------------------------- MODULE SavedCmdlines ---------------------------
(***************************************************************************)
(* The saved command lines of the tracer (linux/ftrace/trace/trace.c): a   *)
(* ring of cmdline_num slots that remembers, for the pids whose events are *)
(* in the trace, the names and pids of the task and of its three nearest   *)
(* ancestors.  Every CPU records the tasks of a context switch when it     *)
(* committed an event since its last recording; the ring is shared and     *)
(* guarded by trace_cmdline_lock, which a recorder only tries to take and  *)
(* a lookup or a resize waits for.                                         *)
(***************************************************************************)
EXTENDS Integers, Sequences

CONSTANTS
    Cpu,          \* the CPUs that record context switches
    TopPid,       \* the largest pid of the machine
    PID_MAX,      \* PID_MAX_DEFAULT, the largest pid the maps hold
    Comm,         \* the names a task can carry
    InitParent,   \* the task tree at the start
    InitComm,     \* the names at the start
    DefaultNum,   \* SAVED_CMDLINES_DEFAULT
    MaxNum,       \* bound: the largest size written to saved_cmdlines_size
    MaxTaskSteps, \* bound: steps of the task tree (fork, exec, exit)
    NoMap,        \* NO_CMDLINE_MAP
    Free,         \* the value of the lock when nobody holds it
    Reader        \* the holder of the lock that looks a pid up

Pid  == 0 .. TopPid
Held == 1 .. PID_MAX      \* the pids the maps can hold besides the idle task

(***************************************************************************)
(* What the ring keeps of a task: the names of the task and of its         *)
(* ancestors (saved_cmdlines, _parent, _grandparent, _ggparent).           *)
(***************************************************************************)
Names == [comm: Comm, p_comm: Comm, g_comm: Comm, gg_comm: Comm]
Save  == [names: Names, pids: Pid \X Pid \X Pid]

ASSUME PidAssumption == /\ TopPid \in Nat /\ PID_MAX \in Nat \ {0}
                        /\ PID_MAX <= TopPid
ASSUME TreeAssumption == /\ InitParent \in [Pid -> Pid] /\ InitParent[0] = 0
                         /\ InitComm \in [Pid -> Comm]
ASSUME NumAssumption == /\ MaxNum \in 1 .. PID_MAX /\ DefaultNum \in 1 .. MaxNum
                        /\ MaxTaskSteps \in Nat
ASSUME ValueAssumption == /\ NoMap \notin Int \cup Save
                          /\ Free \notin Cpu /\ Reader \notin Cpu /\ Free # Reader

VARIABLES
    parent, comm,          \* the task tree and the tasks' names
    taskSteps,             \* steps the task tree has taken (for MaxTaskSteps)
    cmdline_num,           \* number of slots
    cmdline_idx,           \* the slot bound last
    map_pid_to_cmdline,    \* pid -> slot or NoMap
    map_cmdline_to_pid,    \* slot -> pid or NoMap
    ancestors,             \* <<ppid, gpid, ggpid>> of each pid, NoMap before the first
    saved_cmdlines,        \* slot -> the four names; NoMap while uninitialised
    lock,                  \* trace_cmdline_lock
    work,                  \* what the recorder of each CPU still has to save
    trace_taskinfo_save,   \* per CPU: an event was committed since the last recording
    last,                  \* history: names and ancestors at the last save of a pid
    recent                 \* history: the pids bound since the ring was installed

tasks == <<parent, comm, taskSteps>>
maps  == <<cmdline_num, cmdline_idx, map_pid_to_cmdline, map_cmdline_to_pid, ancestors>>
ring  == <<maps, saved_cmdlines, recent>>
vars  == <<tasks, ring, lock, work, trace_taskinfo_save, last>>

Slot == 0 .. cmdline_num - 1

(* The recorder of a CPU: whether it runs, the tasks still to save, the      *)
(* value of "done", and (history) the tasks of this recording not saved.     *)
Work == [on: BOOLEAN, todo: Seq(Pid), done: BOOLEAN, unsaved: SUBSET Pid]
Idle == [on |-> FALSE, todo |-> << >>, done |-> FALSE, unsaved |-> {}]

Init ==
    /\ parent = InitParent /\ comm = InitComm /\ taskSteps = 0
    /\ cmdline_num = DefaultNum
    /\ cmdline_idx = 0
    /\ map_pid_to_cmdline = [p \in Held |-> NoMap]
    /\ map_cmdline_to_pid = [s \in 0 .. DefaultNum - 1 |-> NoMap]
    /\ ancestors = [p \in Held |-> NoMap]
    /\ saved_cmdlines = [s \in 0 .. DefaultNum - 1 |-> NoMap]
    /\ lock = Free
    /\ work = [c \in Cpu |-> Idle]
    /\ trace_taskinfo_save = [c \in Cpu |-> FALSE]
    /\ last = [p \in Held |-> NoMap]
    /\ recent = << >>

-----------------------------------------------------------------------------
(* The kernel's task tree, which the tracer only reads.                      *)

(* A new task takes the pid p of a task nobody descends from.                *)
Fork(p, q) ==
    /\ taskSteps < MaxTaskSteps
    /\ p \notin {0, 1, q} /\ \A t \in Pid : parent[t] # p
    /\ parent' = [parent EXCEPT ![p] = q]
    /\ comm' = [comm EXCEPT ![p] = comm[q]]
    /\ taskSteps' = taskSteps + 1
    /\ UNCHANGED <<ring, lock, work, trace_taskinfo_save, last>>

Exec(p, name) ==
    /\ taskSteps < MaxTaskSteps
    /\ p # 0 /\ comm[p] # name
    /\ comm' = [comm EXCEPT ![p] = name]
    /\ taskSteps' = taskSteps + 1
    /\ UNCHANGED <<parent, ring, lock, work, trace_taskinfo_save, last>>

(* The children of a task that exits become children of init.                *)
Exit(p) ==
    /\ taskSteps < MaxTaskSteps
    /\ p \notin {0, 1} /\ \E t \in Pid : parent[t] = p
    /\ parent' = [t \in Pid |-> IF parent[t] = p THEN 1 ELSE parent[t]]
    /\ taskSteps' = taskSteps + 1
    /\ UNCHANGED <<comm, ring, lock, work, trace_taskinfo_save, last>>

-----------------------------------------------------------------------------
(* Recording.                                                                *)

(* __buffer_unlock_commit: an event in the buffer asks for a recording.      *)
CommitEvent(c) ==
    /\ ~trace_taskinfo_save[c]
    /\ trace_taskinfo_save' = [trace_taskinfo_save EXCEPT ![c] = TRUE]
    /\ UNCHANGED <<tasks, ring, lock, work, last>>

(* tracing_record_taskinfo(task) and ..._sched_switch(prev, next) with the   *)
(* cmdline flag, past tracing_record_taskinfo_skip.  The calls it skips      *)
(* (recording disabled, tracing off, no event committed) change nothing.     *)
RecordBegin(c, ts) ==
    /\ ~work[c].on
    /\ trace_taskinfo_save[c]
    /\ work' = [work EXCEPT ![c] = [on |-> TRUE, todo |-> ts, done |-> TRUE,
                                    unsaved |-> {ts[i] : i \in DOMAIN ts}]]
    /\ UNCHANGED <<tasks, ring, lock, trace_taskinfo_save, last>>

Saving(c, p) == work[c].on /\ work[c].todo # << >> /\ Head(work[c].todo) = p

(* Mutant: "done" is the outcome of the last save only.                      *)
SavedLastOnly(c, p, ok) ==
    [work EXCEPT ![c] = [on |-> TRUE, todo |-> Tail(@.todo), done |-> ok,
                         unsaved |-> IF ok THEN @.unsaved \ {p} ELSE @.unsaved]]

(* One trace_save_cmdline returned: "done" accumulates the outcomes.         *)
Saved(c, p, ok) ==
    [work EXCEPT ![c] = [on |-> TRUE, todo |-> Tail(@.todo), done |-> @.done /\ ok,
                         unsaved |-> IF ok THEN @.unsaved \ {p} ELSE @.unsaved]]

(* The idle task succeeds at once; a pid beyond the maps, or a lock another  *)
(* CPU or a lookup holds, fails at once.                                     *)
SaveSkip(c, p) ==
    /\ Saving(c, p) /\ lock # c
    /\ \/ p = 0 /\ work' = Saved(c, p, TRUE)
       \/ p > PID_MAX /\ work' = Saved(c, p, FALSE)
       \/ p \in Held /\ lock # Free /\ work' = Saved(c, p, FALSE)
    /\ UNCHANGED <<tasks, ring, lock, trace_taskinfo_save, last>>

AncestorsOf(p) == <<parent[p], parent[parent[p]], parent[parent[parent[p]]]>>

(* Mutant: the slot that was bound last is bound again.                      *)
NextSlotSame == cmdline_idx % cmdline_num
NextSlot == (cmdline_idx + 1) % cmdline_num

(* Mutant: the pid that owned the slot keeps pointing at it.                 *)
BoundNoEvict(p, s) == [map_pid_to_cmdline EXCEPT ![p] = s]

(* map_pid_to_cmdline once p owns slot s: the pid that owned it is unmapped  *)
(* ("Otherwise we would read the new comm for the old pid").                 *)
Bound(p, s) ==
    [q \in Held |-> IF q = p THEN s
                    ELSE IF q = map_cmdline_to_pid[s] THEN NoMap
                    ELSE map_pid_to_cmdline[q]]

(* trace_save_cmdline got the lock: a pid without a slot takes the next one, *)
(* and only then are the pids of its ancestors written.                      *)
SaveBind(c, p) ==
    /\ Saving(c, p) /\ p \in Held
    /\ lock = Free /\ lock' = c
    /\ IF map_pid_to_cmdline[p] # NoMap
       THEN UNCHANGED <<maps, recent>>
       ELSE /\ map_cmdline_to_pid' = [map_cmdline_to_pid EXCEPT ![NextSlot] = p]
            /\ map_pid_to_cmdline' = Bound(p, NextSlot)
            /\ ancestors' = [ancestors EXCEPT ![p] = AncestorsOf(p)]
            /\ cmdline_idx' = NextSlot
            /\ recent' = Append(IF Len(recent) < MaxNum THEN recent ELSE Tail(recent), p)
            /\ UNCHANGED cmdline_num
    /\ UNCHANGED <<tasks, saved_cmdlines, work, trace_taskinfo_save, last>>

NamesOf(p) == [comm |-> comm[p], p_comm |-> comm[parent[p]],
               g_comm |-> comm[parent[parent[p]]],
               gg_comm |-> comm[parent[parent[parent[p]]]]]

(* set_cmdline, _parent, _grandparent and _ggparent into the slot, then the  *)
(* lock is dropped.                                                          *)
SaveNames(c, p) ==
    /\ Saving(c, p) /\ lock = c
    /\ saved_cmdlines' = [saved_cmdlines EXCEPT ![map_pid_to_cmdline[p]] = NamesOf(p)]
    /\ last' = [last EXCEPT ![p] = [names |-> NamesOf(p), pids |-> AncestorsOf(p)]]
    /\ work' = Saved(c, p, TRUE)
    /\ lock' = Free
    /\ UNCHANGED <<tasks, maps, recent, trace_taskinfo_save>>

(* All tasks were tried: the CPU records no more until the next event,       *)
(* unless one of them failed.                                                *)
RecordEnd(c) ==
    /\ work[c].on /\ work[c].todo = << >>
    /\ trace_taskinfo_save' = [trace_taskinfo_save EXCEPT ![c] = @ /\ ~work[c].done]
    /\ work' = [work EXCEPT ![c] = Idle]
    /\ UNCHANGED <<tasks, ring, lock, last>>

-----------------------------------------------------------------------------
(* Lookups and the size of the ring.                                         *)

Unknown == [comm |-> "<...>", p_comm |-> "<...>", g_comm |-> "<...>", gg_comm |-> "<...>"]
IdleNames == [comm |-> "<idle>", p_comm |-> "<idle>", g_comm |-> "<idle>", gg_comm |-> "<idle>"]

(* Mutant: the name of the task is printed for its parent too.               *)
FindOwnTwice(pid) ==
    IF pid = 0 THEN IdleNames
    ELSE IF pid > PID_MAX \/ map_pid_to_cmdline[pid] = NoMap THEN Unknown
    ELSE LET n == saved_cmdlines[map_pid_to_cmdline[pid]]
         IN  [comm |-> n.comm, p_comm |-> n.comm, g_comm |-> n.p_comm, gg_comm |-> n.p_comm]

(* The names __trace_find_cmdline_ggparent writes for a pid.                 *)
Find(pid) ==
    IF pid = 0 THEN IdleNames
    ELSE IF pid > PID_MAX \/ map_pid_to_cmdline[pid] = NoMap THEN Unknown
    ELSE LET n == saved_cmdlines[map_pid_to_cmdline[pid]]
         IN  [comm |-> n.comm, p_comm |-> n.p_comm, g_comm |-> n.p_comm, gg_comm |-> n.p_comm]

(* The pids it writes: those of the trace_print_context default, -1, when    *)
(* the pid is the idle task or beyond the maps.                              *)
FindPids(pid) == IF pid \in Held THEN ancestors[pid] ELSE <<-1, -1, -1>>

(* trace_find_cmdline and its variants read while they hold the lock.        *)
FindLock ==
    /\ lock = Free /\ lock' = Reader
    /\ UNCHANGED <<tasks, ring, work, trace_taskinfo_save, last>>

FindUnlock ==
    /\ lock = Reader /\ lock' = Free
    /\ UNCHANGED <<tasks, ring, work, trace_taskinfo_save, last>>

EmptyMap == [p \in Held |-> NoMap]

(* Mutant: the index of the old ring is kept.                                *)
FirstIdxKept == cmdline_idx
FirstIdx == 0

(* The ring is replaced under trace_cmdline_lock.                            *)
MayReplace == lock = Free

(* A size is written to saved_cmdlines_size: the ring is replaced by a new   *)
(* one whose names are uninitialised memory.  The sizes 0 and those beyond   *)
(* PID_MAX are refused and a failed allocation leaves the ring.              *)
Resize(n) ==
    /\ n \in 1 .. MaxNum
    /\ MayReplace
    /\ cmdline_num' = n
    /\ cmdline_idx' = FirstIdx
    /\ map_pid_to_cmdline' = EmptyMap
    /\ map_cmdline_to_pid' = [s \in 0 .. n - 1 |-> NoMap]
    /\ ancestors' = [p \in Held |-> NoMap]
    /\ saved_cmdlines' = [s \in 0 .. n - 1 |-> NoMap]
    /\ recent' = << >>
    /\ last' = [p \in Held |-> NoMap]
    /\ UNCHANGED <<tasks, lock, work, trace_taskinfo_save>>

Switched == {<<p>> : p \in Pid} \cup {ts \in Pid \X Pid : ts[1] # ts[2]}

Record(c) ==
    \/ CommitEvent(c)
    \/ \E ts \in Switched : RecordBegin(c, ts)
    \/ \E p \in Pid : SaveSkip(c, p) \/ SaveBind(c, p) \/ SaveNames(c, p)
    \/ RecordEnd(c)

TaskStep ==
    \/ \E p, q \in Pid : Fork(p, q)
    \/ \E p \in Pid, name \in Comm : Exec(p, name)
    \/ \E p \in Pid : Exit(p)

Next ==
    \/ TaskStep
    \/ \E c \in Cpu : Record(c)
    \/ FindLock
    \/ FindUnlock
    \/ \E n \in 1 .. MaxNum : Resize(n)

Spec == Init /\ [][Next]_vars

-----------------------------------------------------------------------------
(* Properties.                                                               *)

TypeOK ==
    /\ parent \in [Pid -> Pid] /\ comm \in [Pid -> Comm] /\ taskSteps \in Nat
    /\ cmdline_num \in 1 .. MaxNum
    /\ cmdline_idx \in Slot
    /\ map_pid_to_cmdline \in [Held -> Slot \cup {NoMap}]
    /\ map_cmdline_to_pid \in [Slot -> Held \cup {NoMap}]
    /\ ancestors \in [Held -> (Pid \X Pid \X Pid) \cup {NoMap}]
    /\ saved_cmdlines \in [Slot -> Names \cup {NoMap}]
    /\ lock \in Cpu \cup {Free, Reader}
    /\ work \in [Cpu -> Work]
    /\ trace_taskinfo_save \in [Cpu -> BOOLEAN]
    /\ last \in [Held -> Save \cup {NoMap}]
    /\ recent \in Seq(Held)

(* The two maps of the ring are inverse to each other: a pid that owns a     *)
(* slot is the pid the slot names, and a slot that names a pid is its slot.  *)
(* It is what the eviction in trace_save_cmdline has to preserve.            *)
MapsInverse ==
    /\ \A p \in Held : map_pid_to_cmdline[p] # NoMap =>
            map_cmdline_to_pid[map_pid_to_cmdline[p]] = p
    /\ \A s \in Slot : map_cmdline_to_pid[s] # NoMap =>
            map_pid_to_cmdline[map_cmdline_to_pid[s]] = s

(* The lock holder that is between SaveBind and SaveNames for p.             *)
BeingNamed(p) == lock \in Cpu /\ Saving(lock, p)

(* A slot holds the names that its own pid had when that pid was saved last, *)
(* never those of the pid that owned the slot before or owns it next, and    *)
(* never uninitialised memory (the eviction comment of trace_save_cmdline).  *)
OwnNames ==
    \A p \in Held : map_pid_to_cmdline[p] # NoMap /\ ~BeingNamed(p) =>
        last[p] # NoMap /\ saved_cmdlines[map_pid_to_cmdline[p]] = last[p].names

(* A lookup under the lock prints, as the name of a task and of its parent,  *)
(* those of the task's last save, or "<...>" for both.                       *)
LookupOwn ==
    lock = Reader => \A p \in Held :
        \/ Find(p) = Unknown
        \/ /\ last[p] # NoMap
           /\ Find(p).comm = last[p].names.comm
           /\ Find(p).p_comm = last[p].names.p_comm

(* The ring forgets the pid bound longest ago: the last cmdline_num pids     *)
(* that were bound all keep their slots, in the order they were bound.       *)
RecentKept ==
    \A k \in 0 .. cmdline_num - 1 : k < Len(recent) =>
        map_pid_to_cmdline[recent[Len(recent) - k]] = (cmdline_idx - k) % cmdline_num

(* A CPU stops asking for recordings only after a recording in which every   *)
(* task was saved ("If recording any information failed, retry again soon"). *)
RetryUntilSaved ==
    [][\A c \in Cpu : trace_taskinfo_save[c] /\ ~trace_taskinfo_save'[c] =>
            work[c].unsaved = {}]_vars

(* trace_print_context prints "children, parent, grandparent and ggparent":  *)
(* the names printed for the two older ancestors are those saved for them.   *)
(* It does not hold: __trace_find_cmdline_ggparent copies the parent's name  *)
(* into all three.                                                           *)
LookupOlderAncestors ==
    lock = Reader => \A p \in Held :
        Find(p) # Unknown => /\ Find(p).g_comm = last[p].names.g_comm
                             /\ Find(p).gg_comm = last[p].names.gg_comm

(* Each "%16s-%-5d" it prints is the name and the pid of one task: the pids  *)
(* printed beside the names were read when the names were.  It does not hold *)
(* after a task was reparented.                                              *)
LookupPairs ==
    lock = Reader => \A p \in Held :
        Find(p) # Unknown => FindPids(p) = last[p].pids
=============================================================================
