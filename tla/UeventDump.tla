----------------------------- MODULE UeventDump -----------------------------
(***************************************************************************)
(* Two programs that make the kernel report its devices again by writing   *)
(* "add" to their uevent files.  uevent_dump                               *)
(* (docker/aic-dump-uevent/src/uevent_dump.c) walks the whole of sysfs,    *)
(* reads the reports from a netlink socket after every write, puts each    *)
(* into a file of its own and marks the dump as done.  The trigger         *)
(* (aosp/uevent/main.cpp) only writes, for a list of directories that      *)
(* leaves out some devices.  The kernel and other processes put messages   *)
(* into the socket at any time; uevent_dump may crash and be run again.    *)
(***************************************************************************)
EXTENDS Integers, FiniteSets, SequencesExt

CONSTANTS
    QueueCap,    \* messages the socket's receive buffer holds
    MaxRuns,     \* bound: runs of uevent_dump
    MaxOther,    \* bound: messages that no write asked for
    MaxFaults    \* bound: calls that fail

ASSUME BoundAssumption ==
    /\ QueueCap \in Nat \ {0} /\ MaxRuns \in Nat \ {0} /\ MaxOther \in Nat /\ MaxFaults \in Nat

-----------------------------------------------------------------------------
(* The part of sysfs that tells the two walks apart: a device that can be    *)
(* asked safely (cpu, breakpoint and the like), a disk sda with a partition  *)
(* below its host adapter and port (host1, ata2).                            *)
(* Entries in the order of readdir; links as in the kernel.                  *)
Entries ==
    [class |-> <<"class_block">>, class_block |-> <<"link_sda", "link_sda1">>,
     block |-> <<"link_sda">>, devices |-> <<"cpu", "ata2">>,
     cpu |-> << >>, ata2 |-> <<"host1">>, host1 |-> <<"sda">>,
     sda |-> <<"queue", "subsystem", "sda1">>, queue |-> << >>, sda1 |-> << >>]
Target == [link_sda |-> "sda", link_sda1 |-> "sda1", subsystem |-> "class_block"]
Dir  == DOMAIN Entries
Link == DOMAIN Target
HasUevent == {"cpu", "ata2", "host1", "sda", "sda1"}

(* The devices at and below a directory, not counting where links lead.      *)
Below ==
    [class |-> {}, class_block |-> {}, block |-> {}, devices |-> HasUevent,
     cpu |-> {"cpu"}, ata2 |-> {"ata2", "host1", "sda", "sda1"},
     host1 |-> {"host1", "sda", "sda1"}, sda |-> {"sda", "sda1"}, queue |-> {},
     sda1 |-> {"sda1"}]

Coldboot(paths) == [i \in DOMAIN paths |-> [call |-> "coldboot", path |-> paths[i]]]

(* device_init: all of /sys/class, /sys/block and /sys/devices.              *)
DumpList == Coldboot(<<"class", "block", "devices">>)

(* The trigger's main goes down to a device that it must not ask for itself  *)
(* and names what is around it: directories below it, one of them a link,    *)
(* and single uevent files above it.  Left out as comments in the list: the  *)
(* port ata2, the disk and its partitions.                                   *)
TriggerList == Coldboot(<<"block", "class", "cpu", "queue", "subsystem">>)
               \o <<[call |-> "write_file_uevent", path |-> "host1"]>>
Withheld == {"ata2", "sda", "sda1"}

-----------------------------------------------------------------------------
VARIABLES
    prog,      \* "dump" or "trigger"
    run,       \* how often the program was started
    at,        \* where it is
    todo,      \* the calls of coldboot and write_file_uevent still to make
    stack,     \* do_coldboot's activations, the innermost first
    queue,     \* messages in the socket's receive buffer
    overrun,   \* the socket's error ENOBUFS, reported by the next recvmsg
    uevent_index,
    uevent_stop_dump,
    folder,    \* whether DUMP_PATH exists
    marker,    \* whether DUMP_DONE exists
    files,     \* per number, what was appended to that dump file
    written,   \* the uevent files written to in this run (history)
    missed,    \* those it did not get to because a call failed (history)
    sent,      \* kernel messages of this run, numbered (history)
    gone,      \* the numbers of those that will not be dumped (history)
    calm,      \* no overrun, no failed call, nothing odd received (history)
    others, faults

counters == <<uevent_index, uevent_stop_dump>>
socket  == <<queue, overrun>>
disk    == <<folder, marker, files>>
history == <<written, missed, sent, gone, calm>>
vars    == <<prog, run, at, todo, stack, socket, counters, disk, history, others, faults>>

Message == [kind: {"add", "other", "big", "user"}, dev: Dir \cup {"none"}, no: Nat]
Init ==
    /\ prog \in {"dump", "trigger"}
    /\ run = 1
    /\ at = IF prog = "dump" THEN "start" ELSE "walk"
    /\ todo = IF prog = "dump" THEN DumpList ELSE TriggerList
    /\ stack = << >>
    /\ queue = << >> /\ overrun = FALSE
    /\ uevent_index = 0 /\ uevent_stop_dump = FALSE
    /\ folder \in BOOLEAN /\ marker = FALSE
    /\ files = << >>
    /\ written = {} /\ missed = {} /\ sent = 0 /\ gone = {} /\ calm = TRUE
    /\ others = 0 /\ faults = 0

Fault == faults < MaxFaults /\ faults' = faults + 1
Goto(s) == at' = s

-----------------------------------------------------------------------------
(* The socket.                                                               *)

Bound == prog = "dump" /\ at \in {"init", "walk", "receive", "mark"}

(* A message of the kernel is numbered whether or not it fits.               *)
Arrive(kind, dev) ==
    /\ sent' = sent + 1
    /\ IF Len(queue) < QueueCap
       THEN /\ queue' = Append(queue, [kind |-> kind, dev |-> dev, no |-> sent + 1])
            /\ UNCHANGED <<overrun, gone, calm>>
       ELSE /\ overrun' = TRUE /\ gone' = gone \cup {sent + 1} /\ calm' = FALSE
            /\ UNCHANGED queue

(* Another device reports, too much for UEVENT_MSG_LEN or not.               *)
OtherDevice(kind) ==
    /\ Bound /\ others < MaxOther /\ others' = others + 1
    /\ Arrive(kind, "none")
    /\ UNCHANGED <<prog, run, at, todo, stack, counters, disk, written, missed, faults>>

(* A process without root's credentials sends to the group.                  *)
UserSends ==
    /\ Bound /\ others < MaxOther /\ others' = others + 1
    /\ calm' = FALSE
    /\ IF Len(queue) < QueueCap
       THEN queue' = Append(queue, [kind |-> "user", dev |-> "none", no |-> 0]) /\ UNCHANGED overrun
       ELSE overrun' = TRUE /\ UNCHANGED queue
    /\ UNCHANGED <<prog, run, at, todo, stack, counters, disk, written, missed, sent,
                   gone, faults>>

-----------------------------------------------------------------------------
(* uevent_dump before and after the walk.                                    *)

(* dump_host_devices: the folder.                                            *)
MakeFolder ==
    /\ at = "start"
    /\ \/ folder' = TRUE /\ Goto("open") /\ UNCHANGED faults
       \/ ~folder /\ Fault /\ Goto("exit") /\ UNCHANGED folder
    /\ UNCHANGED <<prog, run, todo, stack, socket, counters, marker, files, history, others>>

(* uevent_open_socket; without a socket device_init returns.                 *)
OpenSocket ==
    /\ at = "open"
    /\ \/ Goto("init") /\ UNCHANGED faults
       \/ Goto("exit") /\ Fault
    /\ UNCHANGED <<prog, run, todo, stack, socket, counters, disk, history, others>>

(* Mutant: the marker is made before the walk.                               *)
MarksBefore == "init"
(* Where device_init makes the marker.                                       *)
MarksAt == "mark"

(* device_init skips the walk when it finds the marker.                      *)
CheckMarker ==
    /\ at = "init"
    /\ Goto(IF marker THEN "exit" ELSE "walk")
    /\ marker' = (marker \/ MarksAt = "init")
    /\ UNCHANGED <<prog, run, todo, stack, socket, counters, folder, files, history,
                   others, faults>>

(* device_init makes the marker, without a look at whether open succeeds,    *)
(* and stops the dump; nothing is received any more, the loop on poll being  *)
(* commented out.                                                            *)
MakeMarker ==
    /\ at = "mark"
    /\ \/ marker' = (marker \/ MarksAt = "mark") /\ UNCHANGED faults
       \/ Fault /\ UNCHANGED marker
    /\ uevent_stop_dump' = TRUE
    /\ Goto("exit")
    /\ UNCHANGED <<prog, run, todo, stack, socket, uevent_index, folder, files, history,
                   others>>

-----------------------------------------------------------------------------
(* The walk.                                                                 *)

Enter(d) == [dir |-> d, fresh |-> TRUE, rest |-> Entries[d]]
Opened(path) == IF path \in Link THEN Target[path] ELSE path

(* A call fails on the way to the devices ds, and the walk passes them over. *)
Misses(ds) == Fault /\ missed' = missed \cup ds /\ calm' = FALSE
Succeeds   == UNCHANGED <<missed, calm, faults>>

(* The devices that a call of the list leads to.                             *)
CallAhead(c) == IF c.call = "coldboot" THEN Below[Opened(c.path)] ELSE {Opened(c.path)}

(* The next call of coldboot or write_file_uevent in the list.  opendir and  *)
(* open follow a link in the path; where one of them fails, or the write to  *)
(* the single file, the list goes on.                                        *)
NextInList ==
    /\ at = "walk" /\ stack = << >>
    /\ IF todo = << >>
       THEN /\ Goto(IF prog = "dump" THEN "mark" ELSE "exit")
            /\ Succeeds /\ UNCHANGED <<todo, stack, written>>
       ELSE LET call == Head(todo) IN
            /\ todo' = Tail(todo)
            /\ \/ /\ call.call = "coldboot" /\ Succeeds
                  /\ stack' = <<Enter(Opened(call.path))>> /\ UNCHANGED written
               \/ /\ call.call = "write_file_uevent" /\ Succeeds
                  /\ written' = written \cup {Opened(call.path)} /\ UNCHANGED stack
               \/ Misses(CallAhead(call)) /\ UNCHANGED <<stack, written>>
            /\ UNCHANGED at
    /\ UNCHANGED <<prog, run, socket, counters, disk, sent, gone, others>>

(* do_coldboot on entry writes "add\n" to the directory's uevent file.  The  *)
(* write returns when the kernel has sent its message.  If openat fails the  *)
(* dump does not receive either; a write that fails it does not notice.      *)
WriteAdd ==
    /\ at = "walk" /\ stack # << >> /\ Head(stack).fresh
    /\ stack' = [stack EXCEPT ![1].fresh = FALSE]
    /\ LET d == Head(stack).dir IN
       \/ d \notin HasUevent /\ UNCHANGED <<at, socket, history, faults>>
       \/ /\ d \in HasUevent
          /\ written' = written \cup {d}
          /\ IF prog = "dump"
             THEN Arrive("add", d) /\ Goto("receive")
             ELSE UNCHANGED <<at, socket, sent, gone, calm>>
          /\ UNCHANGED <<missed, faults>>
       \/ /\ d \in HasUevent /\ Misses({d})
          /\ UNCHANGED at \/ (prog = "dump" /\ Goto("receive"))
          /\ UNCHANGED <<socket, written, sent, gone>>
    /\ UNCHANGED <<prog, run, todo, counters, disk, others>>

(* Mutant: links are followed.                                               *)
WalksLinks(e) == TRUE
(* An entry that is not a directory (DT_DIR) is passed over, links too.      *)
Walks(e) == e \notin Link

(* Without openat or fdopendir there is no walk of the directory.            *)
NextEntry ==
    /\ at = "walk" /\ stack # << >> /\ ~Head(stack).fresh
    /\ LET top == Head(stack) IN
       IF top.rest = << >> THEN stack' = Tail(stack) /\ Succeeds
       ELSE LET e == Head(top.rest)
                back == [stack EXCEPT ![1].rest = Tail(@)]
            IN  \/ ~Walks(e) /\ stack' = back /\ Succeeds
                \/ Walks(e) /\ stack' = <<Enter(Opened(e))>> \o back /\ Succeeds
                \/ Walks(e) /\ stack' = back /\ Misses(Below[Opened(e)])
    /\ UNCHANGED <<prog, run, at, todo, socket, counters, disk, written, sent, gone, others>>

-----------------------------------------------------------------------------
(* handle_device_fd.                                                         *)

(* Mutant: the socket blocks.                                                *)
LoopOverBlocks == overrun
(* uevent_kernel_recv returns -1: ENOBUFS, reported once, or EAGAIN.         *)
LoopOver == overrun \/ queue = << >>

ReceiveFails ==
    /\ at = "receive" /\ LoopOver
    /\ overrun' = FALSE
    /\ Goto("walk")
    /\ UNCHANGED <<prog, run, todo, stack, queue, counters, disk, history, others, faults>>

(* Mutants: the number is not taken up, or is taken up twice.                *)
NextIndexSame == uevent_index
NextIndexTwice == uevent_index + 2
NextIndex == uevent_index + 1

(* write_uevent_dump appends to the file ("a+b").                            *)
Appended(m) ==
    LET old == IF uevent_index < Len(files) THEN files[uevent_index + 1] ELSE << >>
        new == Append(old, [run |-> run, dev |-> m.dev, no |-> m.no])
    IN  IF uevent_index < Len(files) THEN [files EXCEPT ![uevent_index + 1] = new]
        ELSE Append(files, new)

(* Mutant: the test of uevent_stop_dump is the wrong way round.              *)
PassedOverUnlessStopped(m) == m.kind = "big" \/ ~uevent_stop_dump
(* A message that is passed over: it is not shorter than UEVENT_MSG_LEN, or  *)
(* the dump was stopped.                                                     *)
PassedOver(m) == m.kind = "big" \/ uevent_stop_dump

(* What is left in the file of a message that is not written whole.          *)
Part(m) == [m EXCEPT !.dev = "none"]

Receive ==
    /\ at = "receive" /\ ~overrun /\ queue # << >>
    /\ queue' = Tail(queue)
    /\ LET m == Head(queue) IN
       CASE m.kind = "user" ->    \* uevent_kernel_recv clears it: EIO ends the loop
              Goto("walk") /\ UNCHANGED <<files, uevent_index, gone, calm, faults>>
         [] m.kind # "user" /\ PassedOver(m) ->
              /\ gone' = IF m.kind = "big" THEN gone \cup {m.no} ELSE gone
              /\ calm' = FALSE
              /\ UNCHANGED <<at, files, uevent_index, faults>>
         [] OTHER ->
              /\ uevent_index' = NextIndex
              /\ \/ files' = Appended(m) /\ UNCHANGED <<gone, calm, faults>>
                 \/ /\ Fault
                    /\ \/ files' = Appended(Part(m))      \* fwrite or the flush is cut short
                       \/ files' = IF uevent_index < Len(files) THEN files    \* fopen fails
                                   ELSE Append(files, << >>)
                    /\ gone' = gone \cup {m.no} /\ calm' = FALSE
              /\ UNCHANGED at
    /\ UNCHANGED <<prog, run, todo, stack, overrun, uevent_stop_dump, folder, marker,
                   written, missed, sent, others>>

-----------------------------------------------------------------------------
(* uevent_dump is killed, or it has ended, and is run again: in the same     *)
(* container, or in a new one, which has a new /dev and may keep DUMP_PATH.  *)
Restart ==
    /\ prog = "dump" /\ run < MaxRuns
    /\ run' = run + 1
    /\ Goto("start") /\ todo' = DumpList /\ stack' = << >>
    /\ queue' = << >> /\ overrun' = FALSE
    /\ uevent_index' = 0 /\ uevent_stop_dump' = FALSE
    /\ marker' \in {marker, FALSE}
    /\ written' = {} /\ missed' = {} /\ sent' = 0 /\ gone' = {}
    /\ calm' = (calm \/ ~marker')
    /\ UNCHANGED <<prog, folder, files, others, faults>>

Program ==
    \/ MakeFolder \/ OpenSocket \/ CheckMarker \/ MakeMarker
    \/ NextInList \/ WriteAdd \/ NextEntry \/ ReceiveFails \/ Receive

Next == \/ Program \/ Restart \/ UserSends
        \/ \E kind \in {"other", "big"} : OtherDevice(kind)

Spec == Init /\ [][Next]_vars /\ WF_vars(Program)

-----------------------------------------------------------------------------
Contents == UNION {Range(files[i]) : i \in DOMAIN files}

TypeOK ==
    /\ prog \in {"dump", "trigger"} /\ run \in 1 .. MaxRuns
    /\ at \in {"start", "open", "init", "walk", "receive", "mark", "exit"}
    /\ \A i \in DOMAIN stack : stack[i].dir \in Dir /\ stack[i].fresh \in BOOLEAN
    /\ \A i \in DOMAIN queue : queue[i] \in Message
    /\ Len(queue) <= QueueCap /\ overrun \in BOOLEAN
    /\ uevent_index \in 0 .. Len(files) /\ uevent_stop_dump \in BOOLEAN
    /\ folder \in BOOLEAN /\ marker \in BOOLEAN /\ calm \in BOOLEAN
    /\ written \subseteq HasUevent /\ missed \subseteq HasUevent /\ gone \subseteq 1 .. sent
    /\ others \in 0 .. MaxOther /\ faults \in 0 .. MaxFaults

(* What the kernel sent in a run is in a dump file, still in the socket, or  *)
(* it was lost for a reason the code knows: an overrun, a message too long,  *)
(* a file that could not be opened or not be written whole.  A foreign       *)
(* message that ends the receive loop loses nothing.                         *)
Accounted ==
    1 .. sent = {e.no : e \in {f \in Contents : f.run = run}}
                \cup {queue[i].no : i \in {j \in DOMAIN queue : queue[j].kind # "user"}}
                \cup gone

(* A run puts at most one message into each file, in the order in which the  *)
(* kernel sent them; only a file written to by several runs holds several.   *)
FilesInOrder ==
    \A i, j \in DOMAIN files : \A k \in DOMAIN files[i], l \in DOMAIN files[j] :
        /\ files[i][k].run = files[j][l].run /\ <<i, k>> # <<j, l>>
        => (i < j /\ files[i][k].no < files[j][l].no) \/ (j < i /\ files[j][l].no < files[i][k].no)

(* The marker means a complete dump: whatever runs were interrupted before,  *)
(* when DUMP_DONE exists and the run that made it was undisturbed, every     *)
(* device's answer to "add" is in a file.                                    *)
MarkerComplete ==
    prog = "dump" /\ marker /\ calm => HasUevent \subseteq {e.dev : e \in Contents}

(* The trigger never writes to a device left out of its list, though links   *)
(* lead to it, and in the end it has written to all others except those at   *)
(* or below the places where a call failed: a failure ends neither the list  *)
(* nor the walk of the directories beside it.                                *)
TriggerExact ==
    prog = "trigger" =>
        /\ (written \cup missed) \cap Withheld = {}
        /\ at = "exit" => written \cup missed = HasUevent \ Withheld

(* Every walk comes to its end: the receive loop is left when nothing is     *)
(* queued, and links do not lead it in circles.                              *)
WalkEnds == at \in {"walk", "receive"} ~> at \notin {"walk", "receive"}
=============================================================================
