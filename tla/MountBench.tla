----------------------------- MODULE MountBench -----------------------------
(***************************************************************************)
(* The benchmarks of unshare and mount (mount/*.c and mount/back/*.c).     *)
(* Every file is one program of the same kind: a parent starts children    *)
(* (or does the work itself), each child makes a mount namespace and       *)
(* mounts a directory of its own in it, and most programs have a second    *)
(* mode that unmounts the directories again.  A program is described by    *)
(* what main and child_main of its file do; the actions below are the      *)
(* steps those descriptions are made of, and the variable prog says which  *)
(* program is run.                                                         *)
(***************************************************************************)
EXTENDS Integers, FiniteSets, SequencesExt

CONSTANTS
    Times,      \* argv[1]: directories, and children of the programs that fork
    MaxPass,    \* bound: runs of a program, one after the other
    MaxFaults   \* bound: calls that fail and processes killed before they rest

ASSUME BoundAssumption == /\ Times \in Nat \ {0} /\ MaxPass \in Nat \ {0, 1}
                          /\ MaxFaults \in Nat

-----------------------------------------------------------------------------
(* The programs.                                                             *)

(* start: whether main uses fork or clone, or makes the calls itself.        *)
(* many: whether it does so Times times.  calls: what child_main calls, in   *)
(* the order of Calls.  rest: whether child_main ends in a loop (or a shell) *)
(* or returns.  each: child_main itself goes through all directories.        *)
(* failed: what main does when fork fails.  umount: what the second mode     *)
(* calls.  mounts: whether mount can succeed with the arguments it is given. *)
(* traced: main writes to tracing_on.                                        *)
mnt9_fork ==
    [start |-> "fork", many |-> TRUE, calls |-> {"unshare", "mkdir", "mount"},
     mounts |-> TRUE, rest |-> "spin", each |-> FALSE, failed |-> "leave",
     umount |-> {"umount_one"}, traced |-> FALSE]

mnt       == [mnt9_fork EXCEPT !.start = "clone", !.many = FALSE, !.calls = {"mount"},
                               !.umount = {}]
mnt_times == [mnt EXCEPT !.calls = {"mkdir", "mount"}, !.each = TRUE]

mnt3_time  == [mnt9_fork EXCEPT !.calls = {"mkdir", "mount"}, !.rest = "back",
                                !.failed = "next", !.umount = {}]
mnt2_forks == [mnt3_time EXCEPT !.many = FALSE]
mnt4_umount  == [mnt3_time EXCEPT !.calls = {"mkdir", "mount", "umount"}]
mnt5_unshare == [mnt3_time EXCEPT !.calls = {"unshare", "mkdir", "mount", "umount"}]
mnt6_android       == [mnt9_fork EXCEPT !.failed = "next"]
mnt7_mount_only    == [mnt6_android EXCEPT !.calls = {"mkdir", "mount"}]
mnt8_unshare_mount == [mnt6_android EXCEPT !.calls = {"unshare"}]

mnt10_strace        == mnt9_fork
mnt11_f_strace      == [mnt9_fork EXCEPT !.traced = TRUE]
mnt12_cpu_affinity  == [mnt9_fork EXCEPT !.traced = TRUE]
back_mnt13_sequence == [mnt9_fork EXCEPT !.failed = "child", !.traced = TRUE]
mnt13_sequence      == mnt9_fork
mnt13_sequence3_sleep60s == mnt9_fork
unshare_mount22_concurrent == mnt9_fork

mnt13_sequence2_wait_child ==
    [mnt9_fork EXCEPT !.calls = @ \cup {"message"}, !.failed = "child_wait"]
mnt13_sequence2_wait_child2_sleep60s == mnt13_sequence2_wait_child
unshare_mount22_serial               == mnt13_sequence2_wait_child

mnt15_single_thread_multi_mount == [mnt9_fork EXCEPT !.start = "call", !.rest = "back"]
unshare_mount21_single_process  == mnt15_single_thread_multi_mount
mnt14_single_thread == [mnt15_single_thread_multi_mount EXCEPT
                                !.umount = {"umount_one", "rmdir"}]
(* A bind mount of "": the kernel refuses one that names no source.          *)
mnt16_single_thread_mount_tests == [mnt14_single_thread EXCEPT !.mounts = FALSE]

Programs ==
    {mnt, mnt_times, mnt2_forks, mnt3_time, mnt4_umount, mnt5_unshare, mnt6_android,
     mnt7_mount_only, mnt8_unshare_mount, mnt9_fork, mnt10_strace, mnt11_f_strace,
     mnt12_cpu_affinity, back_mnt13_sequence, mnt13_sequence, mnt13_sequence3_sleep60s,
     mnt13_sequence2_wait_child, mnt13_sequence2_wait_child2_sleep60s, mnt14_single_thread,
     mnt15_single_thread_multi_mount, mnt16_single_thread_mount_tests,
     unshare_mount21_single_process, unshare_mount22_concurrent, unshare_mount22_serial}

(* Mutant: the child reports before it has mounted.                          *)
CallsEarly == <<"unshare", "mkdir", "message", "mount", "umount">>
Calls      == <<"unshare", "mkdir", "mount", "message", "umount">>

-----------------------------------------------------------------------------
Dir   == 0 .. Times - 1                  \* /mnt/proc<idx>
Child == (1 .. MaxPass) \X Dir           \* the child forked at that time of that run
Main  == <<0, 0>>
Proc  == Child \cup {Main}
Host  == <<0, 1>>                        \* the mount namespace the programs are started in

Step == {"none", "gate", "umount_one", "rmdir", "spin", "back", "gone"} \cup Range(Calls)

VARIABLES
    prog,      \* the program
    shared,    \* whether mounts under /mnt propagate between namespaces
    pass,      \* how often the program was started
    main,      \* where main is, and its loop variable time
    step,      \* per process, the call it makes next
    idx,       \* per process, the directory it works on
    spaces,    \* the processes that have a namespace of their own
    mounted,   \* per namespace, the directories something is mounted on
    dirs,      \* the directories that exist
    pipe,      \* fds: who can write, who can read, and whether a message is in it
    tracing,   \* whether main left tracing_on set
    faults

vars == <<prog, shared, pass, main, step, idx, spaces, mounted, dirs, pipe, tracing, faults>>
env  == <<prog, shared, pass>>
files == <<spaces, mounted, dirs>>

MainAt == {"loop", "close", "read", "inside", "wait", "done", "left", "killed"}
NoPipe == [writers |-> {}, readers |-> {}, message |-> FALSE]

Init ==
    /\ prog \in Programs
    /\ shared \in BOOLEAN
    /\ pass = 1
    /\ main = [at |-> "loop", time |-> 0]
    /\ step = [p \in Proc |-> "none"]
    /\ idx = [p \in Proc |-> 0]
    /\ spaces = {}
    /\ mounted = [n \in Proc \cup {Host} |-> {}]
    /\ dirs = IF "mkdir" \in prog.calls THEN {} ELSE Dir
    /\ pipe = NoPipe
    /\ tracing = prog.traced
    /\ faults = 0

(* The odd runs mount, the even ones are started with argv[2], if the        *)
(* program has that mode.                                                    *)
Umounts == pass % 2 = 0 /\ prog.umount # {}
Piped   == "message" \in prog.calls

(* Mutant: the loop of main goes one round too far.                          *)
LoopsOver == IF prog.many THEN Times + 1 ELSE 1
Loops     == IF prog.many THEN Times ELSE 1

(* The call child_main makes after its first n calls.                        *)
NextCall(n) ==
    LET rest == {i \in n + 1 .. Len(Calls) : Calls[i] \in prog.calls}
    IN  IF rest = {} THEN prog.rest ELSE Calls[CHOOSE i \in rest : \A j \in rest : i <= j]
After(call) == NextCall(CHOOSE i \in 1 .. Len(Calls) : Calls[i] = call)

(* argv[2] asks for the second mode.                                         *)
Entry == IF Umounts THEN "umount_one" ELSE NextCall(0)

Fault == faults < MaxFaults /\ faults' = faults + 1

(* The namespace a process is in.                                            *)
Space(p) == IF p \in spaces THEN p ELSE Host
(* The namespaces in which a mount or umount in p's takes effect.            *)
Peers(p) == IF shared THEN spaces \cup {Host} ELSE {Space(p)}

(* A process ends: its namespace goes, its ends of the pipe are closed.      *)
Ended(ps) ==
    /\ spaces' = spaces \ ps
    /\ mounted' = [n \in DOMAIN mounted |-> IF n \in ps THEN {} ELSE mounted[n]]
    /\ pipe' = [pipe EXCEPT !.writers = @ \ ps, !.readers = @ \ ps]

-----------------------------------------------------------------------------
(* main.                                                                     *)

ToLoop(t) == main' = [at |-> "loop", time |-> t]
MainTo(at) == main' = [main EXCEPT !.at = at]
Parent == prog.start # "call"

(* pipe, and fork or clone: the child shares both ends of the pipe.  A clone *)
(* has a copy of the host's mount namespace from the start.                  *)
StartChild ==
    /\ main.at = "loop" /\ main.time < Loops /\ Parent
    /\ LET c == <<pass, main.time>>
           cloned == prog.start = "clone"
       IN  /\ step' = [step EXCEPT ![c] = IF cloned THEN "gate" ELSE Entry]
           /\ idx' = [idx EXCEPT ![c] = main.time]
           /\ spaces' = spaces \cup (IF cloned THEN {c} ELSE {})
           /\ mounted' = IF cloned THEN [mounted EXCEPT ![c] = mounted[Host]] ELSE mounted
           /\ pipe' = IF cloned \/ Piped
                      THEN [writers |-> {Main, c}, readers |-> {Main, c}, message |-> FALSE]
                      ELSE pipe
    /\ IF prog.start = "clone" \/ Piped THEN MainTo("close") ELSE ToLoop(main.time + 1)
    /\ UNCHANGED <<env, dirs, tracing, faults>>

(* fork returns -1.  The programs that test for fpid <= 0 and call           *)
(* handle_child_pro there do the child's work in the parent.                 *)
ForkFails ==
    /\ main.at = "loop" /\ main.time < Loops /\ Parent /\ Fault
    /\ CASE prog.failed = "next"  -> ToLoop(main.time + 1) /\ UNCHANGED <<step, idx, pipe>>
         [] prog.failed = "leave" -> MainTo("left") /\ UNCHANGED <<step, idx, pipe>>
         [] OTHER -> /\ MainTo("inside")
                     /\ step' = [step EXCEPT ![Main] = Entry]
                     /\ idx' = [idx EXCEPT ![Main] = main.time]
                     /\ pipe' = IF Piped THEN [writers |-> {Main}, readers |-> {Main},
                                               message |-> FALSE]
                                ELSE pipe
    /\ UNCHANGED <<env, files, tracing>>

PipeFails ==
    /\ main.at = "loop" /\ main.time < Loops /\ Piped /\ Fault
    /\ MainTo("left")
    /\ UNCHANGED <<env, step, idx, files, pipe, tracing>>

(* A single process calls the handler for every directory in turn.           *)
CallHandler ==
    /\ main.at = "loop" /\ main.time < Loops /\ ~Parent
    /\ MainTo("inside")
    /\ step' = [step EXCEPT ![Main] = Entry]
    /\ idx' = [idx EXCEPT ![Main] = main.time]
    /\ UNCHANGED <<env, files, pipe, tracing, faults>>

(* Mutant: the parent keeps its write end while it reads.                    *)
CloseEndKept == pipe' = pipe
CloseEnd == pipe' = [pipe EXCEPT !.writers = @ \ {Main}]

CloseWriteEnd ==
    /\ main.at = "close"
    /\ CloseEnd
    /\ MainTo(IF Piped THEN "read" ELSE "wait")
    /\ UNCHANGED <<env, step, idx, files, tracing, faults>>

(* read returns with the message, or with 0 when nobody can write any more.  *)
ReadPipe ==
    /\ main.at = "read" /\ (pipe.message \/ pipe.writers = {})
    /\ pipe' = [pipe EXCEPT !.readers = @ \ {Main}]
    /\ ToLoop(main.time + 1)
    /\ UNCHANGED <<env, step, idx, files, tracing, faults>>

(* After the loop: "0" to tracing_on, then wait.                             *)
LoopEnd ==
    /\ main.at = "loop" /\ main.time = Loops
    /\ tracing' = FALSE
    /\ IF Parent THEN MainTo("wait") /\ UNCHANGED <<step, files, pipe>>
       ELSE /\ MainTo("done") /\ step' = [step EXCEPT ![Main] = "none"]
            /\ Ended({Main}) /\ UNCHANGED dirs
    /\ UNCHANGED <<env, idx, faults>>

(* The handler has returned in main.  After a failed fork main leaves the    *)
(* loop; only the programs with a pipe go on to wait.                        *)
HandlerReturns ==
    /\ main.at = "inside" /\ step[Main] = "back"
    /\ step' = [step EXCEPT ![Main] = "none"]
    /\ CASE ~Parent -> ToLoop(main.time + 1) /\ UNCHANGED <<files, pipe>>
         [] prog.failed = "child_wait" -> MainTo("wait") /\ UNCHANGED <<files, pipe>>
         [] OTHER -> MainTo("left") /\ Ended({Main}) /\ UNCHANGED dirs
    /\ UNCHANGED <<env, idx, tracing, faults>>

Alive(c) == step[c] \notin {"none", "gone"}
OwnChildren == {c \in Child : c[1] = pass /\ Alive(c)}

(* With SIGCHLD ignored, wait(NULL) returns (ECHILD) when all have ended.    *)
WaitReturns == OwnChildren = {}

Wait ==
    /\ main.at = "wait" /\ WaitReturns
    /\ MainTo("done") /\ step' = [step EXCEPT ![Main] = "none"]
    /\ Ended({Main})
    /\ UNCHANGED <<env, idx, dirs, tracing, faults>>

-----------------------------------------------------------------------------
(* child_main and umount_one, in a child or in main.                         *)

Goto(p, s) == step' = [step EXCEPT ![p] = s]

(* Who else can write to or read from the pipe that p was started with.      *)
OtherWriters(p) == IF p \in pipe.writers THEN pipe.writers \ {p} ELSE {}
OtherReaders(p) == IF p \in pipe.writers THEN pipe.readers \ {p} ELSE {}

(* A clone waits at the checkpoint until the parent has closed the pipe.     *)
Gate(p) ==
    /\ step[p] = "gate" /\ OtherWriters(p) = {}
    /\ Goto(p, NextCall(0))
    /\ UNCHANGED <<env, main, idx, files, pipe, tracing, faults>>

(* unshare(CLONE_NEWNS): a copy of the namespace the process is in.  If it   *)
(* fails, child_main prints that and goes on.                                *)
Unshare(p) ==
    /\ step[p] = "unshare"
    /\ Goto(p, After("unshare"))
    /\ \/ /\ mounted' = [mounted EXCEPT ![p] = mounted[Space(p)]]
          /\ spaces' = spaces \cup {p}
          /\ UNCHANGED faults
       \/ Fault /\ UNCHANGED <<mounted, spaces>>
    /\ UNCHANGED <<env, main, idx, dirs, pipe, tracing>>

(* mkdir: "mkdir error" makes child_main return -1.                          *)
MakeDir(p) ==
    /\ step[p] = "mkdir"
    /\ IF idx[p] \in dirs THEN Goto(p, "back") ELSE Goto(p, After("mkdir"))
    /\ dirs' = dirs \cup {idx[p]}
    /\ UNCHANGED <<env, main, idx, spaces, mounted, pipe, tracing, faults>>

MountIn(p, d) == [n \in DOMAIN mounted |-> IF n \in Peers(p) THEN mounted[n] \cup {d}
                                           ELSE mounted[n]]
UmountIn(p, d) == [n \in DOMAIN mounted |-> IF n \in Peers(p) THEN mounted[n] \ {d}
                                            ELSE mounted[n]]

(* mount; a failure is printed.                                              *)
Mount(p) ==
    /\ step[p] = "mount"
    /\ \/ prog.mounts /\ mounted' = MountIn(p, idx[p]) /\ UNCHANGED faults
       \/ prog.mounts /\ Fault /\ UNCHANGED mounted
       \/ ~prog.mounts /\ UNCHANGED <<mounted, faults>>
    /\ IF prog.each /\ idx[p] + 1 < Times
       THEN Goto(p, NextCall(0)) /\ idx' = [idx EXCEPT ![p] = @ + 1]
       ELSE Goto(p, After("mount")) /\ UNCHANGED idx
    /\ UNCHANGED <<env, main, spaces, dirs, pipe, tracing>>

(* close(fds[0]), write, close(fds[1]).  With the read end closed everywhere *)
(* write kills the process: SIGPIPE is not ignored.                          *)
SendMessage(p) ==
    /\ step[p] = "message"
    /\ IF OtherReaders(p) = {}
       THEN /\ Goto(p, "gone") /\ Ended({p}) /\ UNCHANGED dirs
            /\ IF p = Main THEN MainTo("killed") ELSE UNCHANGED main
       ELSE /\ Goto(p, After("message"))
            /\ pipe' = [readers |-> pipe.readers \ {p}, writers |-> pipe.writers \ {p},
                        message |-> TRUE]
            /\ UNCHANGED <<main, files>>
    /\ UNCHANGED <<env, idx, tracing, faults>>

(* The programs that unmount in child_main.                                  *)
Umount(p) ==
    /\ step[p] = "umount"
    /\ mounted' = UmountIn(p, idx[p])
    /\ Goto(p, After("umount"))
    /\ UNCHANGED <<env, main, idx, spaces, dirs, pipe, tracing, faults>>

(* Mutant: the programs that remove the directory do so only when umount     *)
(* failed.                                                                   *)
RemovesInverted(p) == "rmdir" \in prog.umount /\ idx[p] \notin mounted[Space(p)]
(* umount_one returns before rmdir when umount fails.                        *)
Removes(p) == "rmdir" \in prog.umount /\ idx[p] \in mounted[Space(p)]

(* umount_one.                                                               *)
UmountOne(p) ==
    /\ step[p] = "umount_one"
    /\ mounted' = UmountIn(p, idx[p])
    /\ Goto(p, IF Removes(p) THEN "rmdir" ELSE "back")
    /\ UNCHANGED <<env, main, idx, spaces, dirs, pipe, tracing, faults>>

RemoveDir(p) ==
    /\ step[p] = "rmdir"
    /\ dirs' = dirs \ {idx[p]}
    /\ Goto(p, "back")
    /\ UNCHANGED <<env, main, idx, spaces, mounted, pipe, tracing, faults>>

(* A child whose handler returned has no children to wait for and exits.     *)
ChildExits(c) ==
    /\ c # Main /\ step[c] = "back"
    /\ Goto(c, "gone") /\ Ended({c})
    /\ UNCHANGED <<env, main, idx, dirs, tracing, faults>>

-----------------------------------------------------------------------------
(* The user.                                                                 *)

(* kill -9 of a child; before the child rests that is one of the faults.     *)
Kill(c) ==
    /\ Alive(c)
    /\ IF step[c] = "spin" THEN UNCHANGED faults ELSE Fault
    /\ Goto(c, "gone") /\ Ended({c})
    /\ UNCHANGED <<env, main, idx, dirs, tracing>>

Running == main.at \notin {"done", "left", "killed"}

KillMain ==
    /\ Running /\ Fault
    /\ MainTo("killed") /\ step' = [step EXCEPT ![Main] = "none"]
    /\ Ended({Main})
    /\ UNCHANGED <<env, idx, dirs, tracing>>

(* Bound: a third run is only of interest where umount_one calls rmdir.       *)
LastPass == IF "rmdir" \in prog.umount THEN MaxPass ELSE MaxPass - 1

(* The program is started again, in the host's namespace.                    *)
Rerun ==
    /\ ~Running /\ pass < LastPass
    /\ pass' = pass + 1
    /\ ToLoop(0)
    /\ step' = [step EXCEPT ![Main] = "none"]
    /\ tracing' = (tracing \/ prog.traced)
    /\ pipe' = NoPipe
    /\ UNCHANGED <<prog, shared, idx, files, faults>>

MainStep ==
    \/ StartChild \/ ForkFails \/ PipeFails \/ CallHandler \/ CloseWriteEnd \/ ReadPipe
    \/ LoopEnd \/ HandlerReturns \/ Wait
Handler(p) ==
    \/ Gate(p) \/ Unshare(p) \/ MakeDir(p) \/ Mount(p) \/ SendMessage(p) \/ Umount(p)
    \/ UmountOne(p) \/ RemoveDir(p) \/ ChildExits(p)

Next == \/ MainStep \/ KillMain \/ Rerun
        \/ \E p \in Proc : Handler(p)
        \/ \E c \in Child : Kill(c)

(* Every process that can run does; nobody has to kill or restart anything.  *)
Fairness == WF_vars(MainStep) /\ \A p \in Proc : WF_vars(Handler(p))
Spec == Init /\ [][Next]_vars /\ Fairness

-----------------------------------------------------------------------------
TypeOK ==
    /\ prog \in Programs /\ shared \in BOOLEAN /\ pass \in 1 .. MaxPass
    /\ main \in [at: MainAt, time: 0 .. Times]
    /\ step \in [Proc -> Step] /\ idx \in [Proc -> Dir]
    /\ spaces \subseteq Proc
    /\ mounted \in [Proc \cup {Host} -> SUBSET Dir] /\ dirs \subseteq Dir
    /\ pipe \in [writers: SUBSET Proc, readers: SUBSET Proc, message: BOOLEAN]
    /\ tracing \in BOOLEAN /\ faults \in 0 .. MaxFaults

(* The programs that wait for each child's message measure one process at a  *)
(* time: of one run, at most one is between its start and its rest, also     *)
(* when children die, a fork fails or the parent is killed.                  *)
OneMeasured ==
    Piped => Cardinality({c \in OwnChildren \cup {Main} :
                             step[c] \notin {"none", "spin", "gone"}}) <= 1

(* A program whose umount_one removes the directory can be run again where   *)
(* mounts propagate and its own mount can succeed: mkdir finds no directory  *)
(* of an earlier run.  (mnt16 leaves all of its directories: where nothing   *)
(* is mounted umount fails, and umount_one returns before rmdir.)            *)
Rerunnable ==
    /\ shared /\ faults = 0 /\ "rmdir" \in prog.umount /\ prog.mounts
    => \A p \in Proc : step[p] = "mkdir" => idx[p] \notin dirs

(* main gets through its loop: its read of the pipe returns even when the    *)
(* child dies without a word.  It comes to the end, or it took a child's     *)
(* place and loops.                                                          *)
LoopEnds ==
    main.at = "loop" ~> \/ main.at \in {"wait", "done", "left", "killed"}
                        \/ main.at = "inside" /\ step[Main] = "spin"
=============================================================================
