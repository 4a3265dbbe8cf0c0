-------------------------- MODULE MountBenchProofs --------------------------
(***************************************************************************)
(* The benchmarks keep their types, the programs with a pipe measure one   *)
(* process at a time, and a program that removes the directories it could  *)
(* mount on can be run again, for every number of directories, runs and    *)
(* faults.                                                                 *)
(***************************************************************************)
EXTENDS MountBench, FiniteSetTheorems, TLAPS

(* Inside its loop main stands at a directory.                               *)
InLoop == main.at \in {"close", "read", "inside"} => main.time < Loops

TypeInv == TypeOK /\ InLoop

-----------------------------------------------------------------------------
(* The table of the programs.                                                *)

(* What the proofs use of a program: every one ends a handler in a loop or   *)
(* returns; those with a pipe fork, and take the child's place when fork     *)
(* fails; those that remove directories do everything in main.               *)
Described(p) ==
    /\ p.rest \in {"spin", "back"}
    /\ p.calls \subseteq {"unshare", "mkdir", "mount", "message", "umount"}
    /\ p.many \in BOOLEAN /\ p.traced \in BOOLEAN /\ p.mounts \in BOOLEAN
    /\ "message" \in p.calls => /\ p.start = "fork" /\ p.failed = "child_wait"
                                /\ p.rest = "spin" /\ "umount" \notin p.calls
    /\ "rmdir" \in p.umount => /\ p.start = "call" /\ p.many /\ ~p.each /\ p.rest = "back"
                               /\ p.failed = "leave"
                               /\ p.calls = {"unshare", "mkdir", "mount"}

LEMMA ProgramsDescribed == \A p \in Programs : Described(p)
  <1>1. /\ Described(mnt9_fork) /\ Described(mnt) /\ Described(mnt_times)
        /\ Described(mnt10_strace) /\ Described(mnt11_f_strace) /\ Described(mnt12_cpu_affinity)
        /\ Described(back_mnt13_sequence) /\ Described(mnt13_sequence)
        /\ Described(mnt13_sequence3_sleep60s) /\ Described(unshare_mount22_concurrent)
    BY DEF Described, mnt9_fork, mnt, mnt_times, mnt10_strace, mnt11_f_strace,
           mnt12_cpu_affinity, back_mnt13_sequence, mnt13_sequence,
           mnt13_sequence3_sleep60s, unshare_mount22_concurrent
  <1>2. /\ Described(mnt3_time) /\ Described(mnt2_forks) /\ Described(mnt4_umount)
        /\ Described(mnt5_unshare)
    BY DEF Described, mnt9_fork, mnt3_time, mnt2_forks, mnt4_umount, mnt5_unshare
  <1>3. /\ Described(mnt6_android) /\ Described(mnt7_mount_only) /\ Described(mnt8_unshare_mount)
    BY DEF Described, mnt9_fork, mnt6_android, mnt7_mount_only, mnt8_unshare_mount
  <1>4. /\ Described(mnt13_sequence2_wait_child)
        /\ Described(mnt13_sequence2_wait_child2_sleep60s) /\ Described(unshare_mount22_serial)
    BY DEF Described, mnt9_fork, mnt13_sequence2_wait_child,
           mnt13_sequence2_wait_child2_sleep60s, unshare_mount22_serial
  <1>5. /\ Described(mnt15_single_thread_multi_mount) /\ Described(mnt14_single_thread)
        /\ Described(unshare_mount21_single_process) /\ Described(mnt16_single_thread_mount_tests)
    BY DEF Described, mnt9_fork, mnt15_single_thread_multi_mount, mnt14_single_thread,
           unshare_mount21_single_process, mnt16_single_thread_mount_tests
  <1>6. QED
    BY <1>1, <1>2, <1>3, <1>4, <1>5 DEF Programs

CallNames == {"unshare", "mkdir", "mount", "message", "umount"}

LEMMA CallsAre ==
    /\ Len(Calls) = 5 /\ Range(Calls) = CallNames
    /\ Calls[1] = "unshare" /\ Calls[2] = "mkdir" /\ Calls[3] = "mount"
    /\ Calls[4] = "message" /\ Calls[5] = "umount"
  BY DEF Calls, Range, CallNames

(* Where a call stands in the order of the calls.                            *)
LEMMA CallAt ==
    /\ (CHOOSE i \in 1 .. Len(Calls) : Calls[i] = "unshare") = 1
    /\ (CHOOSE i \in 1 .. Len(Calls) : Calls[i] = "mkdir") = 2
    /\ (CHOOSE i \in 1 .. Len(Calls) : Calls[i] = "mount") = 3
    /\ (CHOOSE i \in 1 .. Len(Calls) : Calls[i] = "message") = 4
    /\ (CHOOSE i \in 1 .. Len(Calls) : Calls[i] = "umount") = 5
  <1>1. \A i \in 1 .. Len(Calls) : i = 1 \/ i = 2 \/ i = 3 \/ i = 4 \/ i = 5
    BY CallsAre
  <1>2. QED
    BY <1>1, CallsAre

(* The next call is the first of those the program makes.                    *)
LEMMA NextIs ==
    ASSUME prog \in Programs, NEW n \in 0 .. 5
    PROVE  \/ NextCall(n) = prog.rest /\ \A i \in n + 1 .. 5 : Calls[i] \notin prog.calls
           \/ \E i \in n + 1 .. 5 : /\ NextCall(n) = Calls[i] /\ Calls[i] \in prog.calls
                                   /\ \A j \in n + 1 .. i - 1 : Calls[j] \notin prog.calls
  <1> DEFINE rest == {i \in n + 1 .. Len(Calls) : Calls[i] \in prog.calls}
  <1>1. rest = {i \in n + 1 .. 5 : Calls[i] \in prog.calls}
    BY CallsAre
  <1>2. CASE rest = {}
    BY <1>1, <1>2 DEF NextCall
  <1>3. CASE rest # {}
    <2>1. \E i \in rest : \A j \in rest : i <= j
      <3>1. \A i \in rest : i \in 1 .. 5
        BY <1>1
      <3>2. QED
        BY <1>3, <3>1
    <2>2. PICK i \in rest : /\ i = CHOOSE k \in rest : \A j \in rest : k <= j
                            /\ \A j \in rest : i <= j
      BY <2>1
    <2>3. NextCall(n) = Calls[i]
      BY <1>3, <2>2 DEF NextCall
    <2>4. i \in n + 1 .. 5 /\ Calls[i] \in prog.calls
      BY <1>1
    <2>5. \A j \in n + 1 .. i - 1 : Calls[j] \notin prog.calls
      <3>1. ASSUME NEW j \in n + 1 .. i - 1, Calls[j] \in prog.calls PROVE FALSE
        <4>1. j \in rest /\ j < i
          BY <1>1, <2>4, <3>1
        <4>2. QED
          BY <2>2, <2>4, <4>1
      <3>2. QED
        BY <3>1
    <2>6. QED
      BY <2>3, <2>4, <2>5
  <1>4. QED
    BY <1>2, <1>3

(* Step is a finite list of names, and every successor is one of them.       *)
LEMMA StepsAre ==
    Step = {"none", "gate", "umount_one", "rmdir", "spin", "back", "gone",
            "unshare", "mkdir", "mount", "message", "umount"}
  BY CallsAre DEF Step, CallNames

LEMMA Successors ==
    ASSUME prog \in Programs
    PROVE  /\ NextCall(0) \in Step /\ Entry \in Step
           /\ \A call \in CallNames : After(call) \in Step
           /\ Piped => After("message") = "spin"
           /\ "rmdir" \in prog.umount =>
                /\ NextCall(0) = "unshare" /\ After("unshare") = "mkdir"
                /\ After("mkdir") = "mount" /\ After("mount") = "back"
  <1>0. Described(prog)
    BY ProgramsDescribed
  <1>1. \A n \in 0 .. 5 : NextCall(n) \in CallNames \cup {prog.rest}
    BY NextIs, CallsAre DEF CallNames
  <1>2. /\ After("unshare") = NextCall(1) /\ After("mkdir") = NextCall(2)
        /\ After("mount") = NextCall(3) /\ After("message") = NextCall(4)
        /\ After("umount") = NextCall(5)
    BY CallAt DEF After
  <1>3. CallNames \cup {prog.rest} \subseteq Step
    BY <1>0, StepsAre DEF CallNames, Described
  <1>4. Piped => NextCall(4) = "spin"
    BY <1>0, NextIs, CallsAre DEF Piped, Described
  <1>5. "rmdir" \in prog.umount =>
            /\ NextCall(0) = "unshare" /\ NextCall(1) = "mkdir"
            /\ NextCall(2) = "mount" /\ NextCall(3) = "back"
    <2> SUFFICES ASSUME "rmdir" \in prog.umount
                 PROVE  /\ NextCall(0) = "unshare" /\ NextCall(1) = "mkdir"
                        /\ NextCall(2) = "mount" /\ NextCall(3) = "back"
      OBVIOUS
    <2>1. /\ Calls[1] \in prog.calls /\ Calls[2] \in prog.calls /\ Calls[3] \in prog.calls
          /\ Calls[4] \notin prog.calls /\ Calls[5] \notin prog.calls /\ prog.rest = "back"
      BY <1>0, CallsAre DEF Described
    <2>2. NextCall(0) = "unshare"
      <3>1. 0 \in 0 .. 5 /\ 1 \in 0 + 1 .. 5
        OBVIOUS
      <3>2. QED
        BY <2>1, <3>1, NextIs, CallsAre
    <2>3. NextCall(1) = "mkdir"
      BY <2>1, NextIs, CallsAre
    <2>4. NextCall(2) = "mount"
      BY <2>1, NextIs, CallsAre
    <2>5. NextCall(3) = "back"
      BY <2>1, NextIs, CallsAre
    <2>6. QED
      BY <2>2, <2>3, <2>4, <2>5
  <1>6. QED
    <2>1. NextCall(0) \in Step /\ Entry \in Step
      BY <1>1, <1>3, StepsAre DEF Entry
    <2>2. \A call \in CallNames : After(call) \in Step
      BY <1>1, <1>2, <1>3 DEF CallNames
    <2>3. QED
      BY <1>2, <1>4, <1>5, <2>1, <2>2

-----------------------------------------------------------------------------
(* One process at a time.                                                    *)

Measured(p) == step[p] \notin {"none", "spin", "gone"}
Current     == <<pass, main.time>>

(* A child of this run is measured only while main holds it: it can still    *)
(* write, and it has not written.  The child of a killed parent is the last  *)
(* of its run.                                                               *)
HeldByPipe ==
    \A c \in Child : c[1] = pass /\ Measured(c) =>
        /\ c = Current
        /\ \/ main.at \in {"close", "read"} /\ c \in pipe.writers /\ ~pipe.message
           \/ main.at = "killed"

MainAlone  == Measured(Main) => main.at = "inside"
NotStarted == \A c \in Child : c[1] > pass => step[c] = "none"
(* A child of an earlier run has no end of this run's pipe.                  *)
OwnPipe    == \A c \in pipe.writers : c = Main \/ c[1] = pass

PipeInv == Piped => HeldByPipe /\ MainAlone /\ NotStarted /\ OwnPipe

-----------------------------------------------------------------------------
(* Run after run.                                                            *)

Removing == "rmdir" \in prog.umount /\ prog.mounts

(* The directories a run has made, or left, when k of them are done.         *)
Through(k) == IF Umounts THEN {d \in Dir : d >= k} ELSE {d \in Dir : d < k}
(* How many are done, the one main works on included once it is past them.   *)
Done(past) == IF step[Main] \in past THEN main.time + 1 ELSE main.time

WorkSteps == IF Umounts THEN {"umount_one", "rmdir", "back"}
             ELSE {"unshare", "mkdir", "mount", "back"}

NoChildren == spaces \subseteq {Main} /\ \A c \in Child : step[c] = "none"
MainWorks ==
    \/ main.at = "loop" /\ step[Main] = "none"
    \/ main.at = "inside" /\ step[Main] \in WorkSteps /\ idx[Main] = main.time
    \/ main.at = "done" /\ step[Main] = "none" /\ main.time = Times
DirsKept    == dirs = Through(Done({"mount", "back"}))
MountsKept  == \A n \in spaces \cup {Host} : mounted[n] = Through(Done({"rmdir", "back"}))

RunInv == Removing /\ shared /\ faults = 0
          => NoChildren /\ MainWorks /\ DirsKept /\ MountsKept

IInv == TypeInv /\ PipeInv /\ RunInv

-----------------------------------------------------------------------------
(* Types.                                                                    *)

LEMMA ProcFacts ==
    /\ Times \in Nat /\ MaxPass \in Nat /\ MaxFaults \in Nat /\ Times > 0
    /\ Main \in Proc /\ Child \subseteq Proc /\ Main \notin Child
    /\ \A c \in Child : c = <<c[1], c[2]>> /\ c[1] \in 1 .. MaxPass /\ c[2] \in Dir
  BY BoundAssumption DEF Proc, Child, Main, Dir

LEMMA TypeInitInv ==
    ASSUME Init
    PROVE  TypeInv
  <1>1. prog.traced \in BOOLEAN
    BY ProgramsDescribed DEF Init, Described
  <1>2. QED
    BY <1>1, ProcFacts, StepsAre, BoundAssumption
    DEF Init, TypeInv, TypeOK, InLoop, MainAt, NoPipe, Dir

LEMMA EndedType ==
    ASSUME TypeOK, NEW ps, Ended(ps)
    PROVE  /\ spaces' \subseteq Proc /\ mounted' \in [Proc \cup {Host} -> SUBSET Dir]
           /\ pipe' \in [writers: SUBSET Proc, readers: SUBSET Proc, message: BOOLEAN]
  BY DEF TypeOK, Ended

LEMMA FaultType ==
    ASSUME TypeOK, Fault
    PROVE  faults' \in 0 .. MaxFaults
  BY ProcFacts DEF TypeOK, Fault

LEMMA LoopsBound ==
    ASSUME prog \in Programs
    PROVE  Loops \in 1 .. Times
  BY ProcFacts DEF Loops

LEMMA MainTypeStep ==
    ASSUME TypeInv, MainStep
    PROVE  TypeInv'
  <1>0. /\ prog \in Programs /\ shared \in BOOLEAN /\ pass \in 1 .. MaxPass
        /\ main \in [at: MainAt, time: 0 .. Times]
        /\ step \in [Proc -> Step] /\ idx \in [Proc -> Dir]
        /\ spaces \subseteq Proc
        /\ mounted \in [Proc \cup {Host} -> SUBSET Dir] /\ dirs \subseteq Dir
        /\ pipe \in [writers: SUBSET Proc, readers: SUBSET Proc, message: BOOLEAN]
        /\ tracing \in BOOLEAN /\ faults \in 0 .. MaxFaults
        /\ TypeOK /\ InLoop
    BY DEF TypeInv, TypeOK
  <1>0a. main.time < Loops => main.time + 1 \in 0 .. Times
    <2>1. main.time \in 0 .. Times /\ Loops \in 1 .. Times /\ Times \in Nat
      BY <1>0, LoopsBound, ProcFacts
    <2>2. QED
      BY <2>1
  <1>1. Loops \in 1 .. Times /\ Loops' = IF prog'.many THEN Times ELSE 1
    BY <1>0, LoopsBound DEF Loops
  <1>2. /\ NextCall(0) \in Step /\ Entry \in Step /\ "none" \in Step /\ "gate" \in Step
        /\ Main \in Proc
    BY <1>0, Successors, StepsAre, ProcFacts
  <1>3. UNCHANGED <<prog, shared, pass>>
    BY DEF MainStep, StartChild, ForkFails, PipeFails, CallHandler, CloseWriteEnd, ReadPipe,
           LoopEnd, HandlerReturns, Wait, env
  <1>4. Loops' = Loops
    BY <1>1, <1>3 DEF Loops
  <1>5. main.at = "loop" /\ main.time < Loops => /\ main.time \in Dir /\ <<pass, main.time>> \in Child
                                                  /\ main.time + 1 \in 0 .. Times
    BY <1>0, <1>1, ProcFacts DEF Dir, Child
  <1>6. CASE StartChild
    <2> DEFINE c == <<pass, main.time>>
    <2>1. c \in Proc /\ main.time \in Dir /\ main.time + 1 \in 0 .. Times /\ main.time < Loops
      BY <1>5, <1>6, ProcFacts DEF StartChild
    <2>2. step' \in [Proc -> Step] /\ idx' \in [Proc -> Dir]
      BY <1>0, <1>2, <1>6, <2>1 DEF StartChild
    <2>3. spaces' \subseteq Proc
      BY <1>0, <1>6, <2>1 DEF StartChild
    <2>4. mounted' \in [Proc \cup {Host} -> SUBSET Dir]
      BY <1>0, <1>6, <2>1 DEF StartChild
    <2>5. pipe' \in [writers: SUBSET Proc, readers: SUBSET Proc, message: BOOLEAN]
      BY <1>0, <1>2, <1>6, <2>1 DEF StartChild
    <2>6. main' \in [at: MainAt, time: 0 .. Times] /\ InLoop'
      BY <1>0, <1>4, <1>6, <2>1 DEF StartChild, ToLoop, MainTo, MainAt, InLoop
    <2>7. QED
      BY <1>0, <1>3, <1>6, <2>2, <2>3, <2>4, <2>5, <2>6 DEF StartChild, TypeInv, TypeOK
  <1>7. CASE ForkFails
    <2>1. main.at = "loop" /\ main.time < Loops
      BY <1>7 DEF ForkFails
    <2>2. /\ main' \in [at: MainAt, time: 0 .. Times] /\ InLoop'
      BY <1>0, <1>4, <1>5, <1>7, <2>1 DEF ForkFails, ToLoop, MainTo, MainAt, InLoop
    <2>3. step' \in [Proc -> Step] /\ idx' \in [Proc -> Dir]
      BY <1>0, <1>2, <1>5, <1>7, <2>1 DEF ForkFails
    <2>4. pipe' \in [writers: SUBSET Proc, readers: SUBSET Proc, message: BOOLEAN]
      <3>1. \/ pipe' = pipe
            \/ pipe' = [writers |-> {Main}, readers |-> {Main}, message |-> FALSE]
        BY <1>7 DEF ForkFails
      <3>2. [writers |-> {Main}, readers |-> {Main}, message |-> FALSE]
              \in [writers: SUBSET Proc, readers: SUBSET Proc, message: BOOLEAN]
        BY <1>2
      <3>3. QED
        BY <1>0, <3>1, <3>2
    <2>5. faults' \in 0 .. MaxFaults
      BY <1>0, <1>7, FaultType DEF ForkFails
    <2>6. QED
      BY <1>0, <1>3, <1>7, <2>2, <2>3, <2>4, <2>5 DEF ForkFails, TypeInv, TypeOK, files
  <1>8. CASE PipeFails
    <2>1. main' \in [at: MainAt, time: 0 .. Times] /\ InLoop'
      BY <1>0, <1>8 DEF PipeFails, MainTo, MainAt, InLoop
    <2>2. faults' \in 0 .. MaxFaults
      BY <1>0, <1>8, FaultType DEF PipeFails
    <2>3. QED
      BY <1>0, <1>3, <1>8, <2>1, <2>2 DEF PipeFails, TypeInv, TypeOK, files
  <1>9. CASE CallHandler
    <2>1. main' \in [at: MainAt, time: 0 .. Times] /\ InLoop'
      BY <1>0, <1>4, <1>9 DEF CallHandler, MainTo, MainAt, InLoop
    <2>2. step' \in [Proc -> Step] /\ idx' \in [Proc -> Dir]
      BY <1>0, <1>2, <1>5, <1>9 DEF CallHandler
    <2>3. QED
      BY <1>0, <1>3, <1>9, <2>1, <2>2 DEF CallHandler, TypeInv, TypeOK, files
  <1>10. CASE CloseWriteEnd
    <2>1. main' \in [at: MainAt, time: 0 .. Times] /\ InLoop'
      BY <1>0, <1>4, <1>10 DEF CloseWriteEnd, MainTo, MainAt, InLoop
    <2>2. pipe' \in [writers: SUBSET Proc, readers: SUBSET Proc, message: BOOLEAN]
      BY <1>0, <1>10 DEF CloseWriteEnd, CloseEnd
    <2>3. QED
      BY <1>0, <1>3, <1>10, <2>1, <2>2 DEF CloseWriteEnd, TypeInv, TypeOK, files
  <1>11. CASE ReadPipe
    <2>1. main.time + 1 \in 0 .. Times
      BY <1>0, <1>0a, <1>11 DEF ReadPipe, InLoop
    <2>2. main' \in [at: MainAt, time: 0 .. Times] /\ InLoop'
      BY <1>0, <1>11, <2>1 DEF ReadPipe, ToLoop, MainAt, InLoop
    <2>3. pipe' \in [writers: SUBSET Proc, readers: SUBSET Proc, message: BOOLEAN]
      BY <1>0, <1>11 DEF ReadPipe
    <2>4. QED
      BY <1>0, <1>3, <1>11, <2>2, <2>3 DEF ReadPipe, TypeInv, TypeOK, files
  <1>12. CASE LoopEnd
    <2>1. main' \in [at: MainAt, time: 0 .. Times] /\ InLoop'
      BY <1>0, <1>12 DEF LoopEnd, MainTo, MainAt, InLoop
    <2>2. /\ spaces' \subseteq Proc /\ mounted' \in [Proc \cup {Host} -> SUBSET Dir]
          /\ pipe' \in [writers: SUBSET Proc, readers: SUBSET Proc, message: BOOLEAN]
      BY <1>0, <1>12, EndedType DEF LoopEnd, files
    <2>3. step' \in [Proc -> Step] /\ dirs' \subseteq Dir
      BY <1>0, <1>2, <1>12 DEF LoopEnd, files
    <2>4. QED
      BY <1>0, <1>3, <1>12, <2>1, <2>2, <2>3 DEF LoopEnd, TypeInv, TypeOK
  <1>13. CASE HandlerReturns
    <2>1. main.time + 1 \in 0 .. Times
      BY <1>0, <1>0a, <1>13 DEF HandlerReturns, InLoop
    <2>2. main' \in [at: MainAt, time: 0 .. Times] /\ InLoop'
      BY <1>0, <1>13, <2>1 DEF HandlerReturns, MainTo, ToLoop, MainAt, InLoop
    <2>3. /\ spaces' \subseteq Proc /\ mounted' \in [Proc \cup {Host} -> SUBSET Dir]
          /\ pipe' \in [writers: SUBSET Proc, readers: SUBSET Proc, message: BOOLEAN]
      BY <1>0, <1>13, EndedType DEF HandlerReturns, files
    <2>4. step' \in [Proc -> Step] /\ dirs' \subseteq Dir
      BY <1>0, <1>2, <1>13 DEF HandlerReturns, files
    <2>5. QED
      BY <1>0, <1>3, <1>13, <2>2, <2>3, <2>4 DEF HandlerReturns, TypeInv, TypeOK
  <1>14. CASE Wait
    <2>1. main' \in [at: MainAt, time: 0 .. Times] /\ InLoop'
      BY <1>0, <1>14 DEF Wait, MainTo, MainAt, InLoop
    <2>2. /\ spaces' \subseteq Proc /\ mounted' \in [Proc \cup {Host} -> SUBSET Dir]
          /\ pipe' \in [writers: SUBSET Proc, readers: SUBSET Proc, message: BOOLEAN]
      BY <1>0, <1>14, EndedType DEF Wait
    <2>3. step' \in [Proc -> Step]
      BY <1>0, <1>2, <1>14 DEF Wait
    <2>4. QED
      BY <1>0, <1>3, <1>14, <2>1, <2>2, <2>3 DEF Wait, TypeInv, TypeOK
  <1>15. QED
    BY <1>6, <1>7, <1>8, <1>9, <1>10, <1>11, <1>12, <1>13, <1>14 DEF MainStep

(* What a call leaves alone.                                                 *)
LEMMA HandlerTypeStep ==
    ASSUME TypeInv, NEW p \in Proc, Handler(p)
    PROVE  TypeInv'
  <1>0. /\ prog \in Programs /\ shared \in BOOLEAN /\ pass \in 1 .. MaxPass
        /\ main \in [at: MainAt, time: 0 .. Times]
        /\ step \in [Proc -> Step] /\ idx \in [Proc -> Dir]
        /\ spaces \subseteq Proc
        /\ mounted \in [Proc \cup {Host} -> SUBSET Dir] /\ dirs \subseteq Dir
        /\ pipe \in [writers: SUBSET Proc, readers: SUBSET Proc, message: BOOLEAN]
        /\ tracing \in BOOLEAN /\ faults \in 0 .. MaxFaults
        /\ TypeOK /\ InLoop /\ idx[p] \in Dir
    BY DEF TypeInv, TypeOK
  <1>1. /\ NextCall(0) \in Step /\ \A call \in CallNames : After(call) \in Step
        /\ "back" \in Step /\ "rmdir" \in Step /\ "gone" \in Step
    BY <1>0, Successors, StepsAre
  <1>2. /\ UNCHANGED <<prog, shared, pass, tracing>>
        /\ main' = main \/ main' = [main EXCEPT !.at = "killed"]
    BY DEF Handler, Gate, Unshare, MakeDir, Mount, SendMessage, Umount, UmountOne, RemoveDir,
           ChildExits, env, MainTo
  <1>3. main' \in [at: MainAt, time: 0 .. Times] /\ InLoop'
    BY <1>0, <1>2 DEF MainAt, InLoop, Loops
  <1>4. step' \in [Proc -> Step]
    <2>1. \A s \in Step : Goto(p, s) => step' \in [Proc -> Step]
      BY <1>0 DEF Goto
    <2>2. \E s \in Step : Goto(p, s)
      BY <1>1, StepsAre DEF CallNames, Handler, Gate, Unshare, MakeDir, Mount, SendMessage, Umount,
                  UmountOne, RemoveDir, ChildExits
    <2>3. QED
      BY <2>1, <2>2
  <1>5. idx' \in [Proc -> Dir] /\ faults' \in 0 .. MaxFaults /\ dirs' \subseteq Dir
    <2>1. idx' \in [Proc -> Dir]
      <3>1. idx' = idx \/ (idx[p] + 1 < Times /\ idx' = [idx EXCEPT ![p] = @ + 1])
        BY DEF Handler, Gate, Unshare, MakeDir, Mount, SendMessage, Umount,
               UmountOne, RemoveDir, ChildExits
      <3>2. idx[p] + 1 < Times => idx[p] + 1 \in Dir
        BY <1>0, ProcFacts DEF Dir
      <3>3. QED
        BY <1>0, <3>1, <3>2
    <2>2. faults' \in 0 .. MaxFaults
      BY <1>0, FaultType
      DEF Handler, Gate, Unshare, MakeDir, Mount, SendMessage, Umount,
          UmountOne, RemoveDir, ChildExits, files
    <2>3. dirs' \subseteq Dir
      BY <1>0
      DEF Handler, Gate, Unshare, MakeDir, Mount, SendMessage, Umount,
          UmountOne, RemoveDir, ChildExits, files
    <2>4. QED
      BY <2>1, <2>2, <2>3
  <1>6. /\ spaces' \subseteq Proc /\ mounted' \in [Proc \cup {Host} -> SUBSET Dir]
        /\ pipe' \in [writers: SUBSET Proc, readers: SUBSET Proc, message: BOOLEAN]
    <2>1. CASE Gate(p)
      BY <1>0, <2>1 DEF Gate, files
    <2>2. CASE Unshare(p)
      <3>1. Space(p) \in Proc \cup {Host}
        BY DEF Space
      <3>2. QED
        BY <1>0, <2>2, <3>1 DEF Unshare
    <2>3. CASE MakeDir(p)
      BY <1>0, <2>3 DEF MakeDir
    <2>4. CASE Mount(p)
      BY <1>0, <2>4 DEF Mount, MountIn
    <2>5. CASE SendMessage(p)
      <3>1. CASE OtherReaders(p) = {}
        BY <1>0, <2>5, <3>1, EndedType DEF SendMessage
      <3>2. CASE OtherReaders(p) # {}
        <4>1. /\ spaces' = spaces /\ mounted' = mounted
              /\ pipe' = [readers |-> pipe.readers \ {p}, writers |-> pipe.writers \ {p},
                          message |-> TRUE]
          BY <2>5, <3>2 DEF SendMessage, files
        <4>2. pipe.readers \subseteq Proc /\ pipe.writers \subseteq Proc
          BY <1>0
        <4>3. pipe' \in [writers: SUBSET Proc, readers: SUBSET Proc, message: BOOLEAN]
          BY <4>1, <4>2
        <4>4. QED
          BY <1>0, <4>1, <4>3
      <3>3. QED
        BY <3>1, <3>2
    <2>6. CASE Umount(p)
      BY <1>0, <2>6 DEF Umount, UmountIn
    <2>7. CASE UmountOne(p)
      BY <1>0, <2>7 DEF UmountOne, UmountIn
    <2>8. CASE RemoveDir(p)
      BY <1>0, <2>8 DEF RemoveDir
    <2>9. CASE ChildExits(p)
      BY <1>0, <2>9, EndedType DEF ChildExits
    <2>10. QED
      BY <2>1, <2>2, <2>3, <2>4, <2>5, <2>6, <2>7, <2>8, <2>9 DEF Handler
  <1>7. QED
    BY <1>0, <1>2, <1>3, <1>4, <1>5, <1>6 DEF TypeInv, TypeOK

LEMMA TypeStepInv ==
    ASSUME TypeInv, [Next]_vars
    PROVE  TypeInv'
  <1>0. TypeOK /\ InLoop
    BY DEF TypeInv
  <1>1. CASE MainStep
    BY <1>1, MainTypeStep
  <1>2. CASE KillMain
    <2>1. /\ spaces' \subseteq Proc /\ mounted' \in [Proc \cup {Host} -> SUBSET Dir]
          /\ pipe' \in [writers: SUBSET Proc, readers: SUBSET Proc, message: BOOLEAN]
      BY <1>0, <1>2, EndedType DEF KillMain
    <2>2. faults' \in 0 .. MaxFaults
      BY <1>0, <1>2, FaultType DEF KillMain
    <2>3. step' \in [Proc -> Step]
      BY <1>0, <1>2, StepsAre, ProcFacts DEF KillMain, TypeOK
    <2>4. main' \in [at: MainAt, time: 0 .. Times] /\ InLoop'
      BY <1>0, <1>2 DEF KillMain, MainTo, MainAt, InLoop, TypeOK
    <2>5. QED
      BY <1>0, <1>2, <2>1, <2>2, <2>3, <2>4 DEF KillMain, TypeInv, TypeOK, env
  <1>3. CASE Rerun
    <2>1. pass + 1 \in 1 .. MaxPass
      BY <1>0, <1>3, ProcFacts DEF Rerun, LastPass, TypeOK
    <2>2. main' \in [at: MainAt, time: 0 .. Times] /\ InLoop'
      BY <1>3, ProcFacts DEF Rerun, ToLoop, MainAt, InLoop
    <2>3. step' \in [Proc -> Step]
      BY <1>0, <1>3, StepsAre, ProcFacts DEF Rerun, TypeOK
    <2>4. tracing' \in BOOLEAN
      BY <1>3 DEF Rerun
    <2>5. QED
      BY <1>0, <1>3, <2>1, <2>2, <2>3, <2>4 DEF Rerun, TypeInv, TypeOK, files, NoPipe
  <1>4. ASSUME NEW p \in Proc, Handler(p) PROVE TypeInv'
    BY <1>4, HandlerTypeStep
  <1>5. ASSUME NEW c \in Child, Kill(c) PROVE TypeInv'
    <2>1. /\ spaces' \subseteq Proc /\ mounted' \in [Proc \cup {Host} -> SUBSET Dir]
          /\ pipe' \in [writers: SUBSET Proc, readers: SUBSET Proc, message: BOOLEAN]
      BY <1>0, <1>5, EndedType DEF Kill
    <2>2. faults' \in 0 .. MaxFaults
      BY <1>0, <1>5, FaultType DEF Kill, TypeOK
    <2>3. step' \in [Proc -> Step]
      BY <1>0, <1>5, StepsAre, ProcFacts DEF Kill, Goto, TypeOK
    <2>4. QED
      BY <1>0, <1>5, <2>1, <2>2, <2>3 DEF Kill, TypeInv, TypeOK, InLoop, Loops, env
  <1>6. CASE UNCHANGED vars
    BY <1>0, <1>6 DEF vars, TypeInv, TypeOK, InLoop, Loops
  <1>7. QED
    BY <1>1, <1>2, <1>3, <1>4, <1>5, <1>6 DEF Next

-----------------------------------------------------------------------------
(* One process at a time.                                                    *)

(* A step of p's handler leaves the other processes alone, and p was         *)
(* measured before it.                                                       *)
LEMMA HandlerSteps ==
    ASSUME TypeOK, NEW p \in Proc, Handler(p)
    PROVE  /\ Measured(p) /\ \A c \in Proc \ {p} : step'[c] = step[c]
           /\ pass' = pass /\ prog' = prog
           /\ ~SendMessage(p) =>
                /\ main' = main /\ pipe'.message = pipe.message
                /\ \/ pipe'.writers = pipe.writers
                   \/ pipe'.writers = pipe.writers \ {p} /\ step'[p] = "gone"
  <1>1. PICK s : Goto(p, s)
    BY DEF Handler, Gate, Unshare, MakeDir, Mount, SendMessage, Umount, UmountOne, RemoveDir,
           ChildExits
  <1>2. \A c \in Proc \ {p} : step'[c] = step[c]
    BY <1>1 DEF Goto, TypeOK
  <1>3. Measured(p)
    BY DEF Measured, Handler, Gate, Unshare, MakeDir, Mount, SendMessage, Umount, UmountOne,
           RemoveDir, ChildExits
  <1>4. pass' = pass /\ prog' = prog
    BY DEF Handler, Gate, Unshare, MakeDir, Mount, SendMessage, Umount, UmountOne, RemoveDir,
           ChildExits, env
  <1>5. CASE SendMessage(p)
    BY <1>2, <1>3, <1>4, <1>5
  <1>6. CASE ChildExits(p)
    <2>1. main' = main /\ step'[p] = "gone"
      BY <1>6 DEF ChildExits, Goto, TypeOK
    <2>2. pipe'.message = pipe.message /\ pipe'.writers = pipe.writers \ {p}
      BY <1>6 DEF ChildExits, Ended, TypeOK
    <2>3. QED
      BY <1>2, <1>3, <1>4, <2>1, <2>2
  <1>7. CASE ~SendMessage(p) /\ ~ChildExits(p)
    <2>1. main' = main /\ pipe' = pipe
      BY <1>7 DEF Handler, Gate, Unshare, MakeDir, Mount, Umount, UmountOne, RemoveDir, files
    <2>2. QED
      BY <1>2, <1>3, <1>4, <2>1
  <1>8. QED
    BY <1>5, <1>6, <1>7

LEMMA PipeHandlerStep ==
    ASSUME TypeInv, PipeInv, Piped, NEW p \in Proc, Handler(p)
    PROVE  HeldByPipe' /\ MainAlone' /\ NotStarted' /\ OwnPipe'
  <1>0. /\ TypeOK /\ HeldByPipe /\ MainAlone /\ NotStarted /\ OwnPipe
        /\ Measured(p) /\ \A c \in Proc \ {p} : step'[c] = step[c]
        /\ pass' = pass
        /\ Main \in Proc /\ Child \subseteq Proc /\ Main \notin Child
        /\ step[p] \notin {"none", "spin", "gone"}
        /\ p = Main \/ p \in Child
    BY HandlerSteps, ProcFacts DEF TypeInv, PipeInv, Measured, Proc
  <1>1. NotStarted'
    BY <1>0 DEF NotStarted
  <1>2. p \in Child /\ p[1] = pass => p = Current /\ (main.at = "killed" \/ p \in pipe.writers)
    BY <1>0 DEF HeldByPipe
  <1>3. CASE ~SendMessage(p)
    <2>1. /\ main' = main /\ pipe'.message = pipe.message
          /\ \/ pipe'.writers = pipe.writers
             \/ pipe'.writers = pipe.writers \ {p} /\ step'[p] = "gone"
      BY <1>0, <1>3, HandlerSteps
    <2>2. HeldByPipe'
      <3>1. ASSUME NEW c \in Child, c[1] = pass, Measured(c)'
            PROVE  /\ c = Current
                   /\ \/ main.at \in {"close", "read"} /\ c \in pipe'.writers /\ ~pipe.message
                      \/ main.at = "killed"
        <4>1. Measured(c)
          BY <1>0, <3>1 DEF Measured
        <4>2. step'[c] # "gone"
          BY <3>1 DEF Measured
        <4>3. c \in pipe.writers => c \in pipe'.writers
          BY <2>1, <4>2
        <4>4. QED
          BY <1>0, <3>1, <4>1, <4>3 DEF HeldByPipe
      <3>2. QED
        BY <1>0, <2>1, <3>1 DEF HeldByPipe, Current
    <2>3. MainAlone'
      BY <1>0, <2>1 DEF MainAlone, Measured
    <2>4. OwnPipe'
      BY <1>0, <2>1 DEF OwnPipe
    <2>5. QED
      BY <1>1, <2>2, <2>3, <2>4
  <1>4. CASE SendMessage(p) /\ OtherReaders(p) = {}
    <2>1. /\ step'[p] = "gone" /\ pipe'.writers = pipe.writers \ {p} /\ pipe'.message = pipe.message
          /\ p # Main => main' = main
          /\ p = Main => main'.at = "killed"
      <3>1. Goto(p, "gone") /\ Ended({p})
            /\ IF p = Main THEN MainTo("killed") ELSE UNCHANGED main
        BY <1>4 DEF SendMessage
      <3>2. step'[p] = "gone"
        BY <1>0, <3>1 DEF Goto, TypeOK
      <3>3. pipe'.writers = pipe.writers \ {p} /\ pipe'.message = pipe.message
        BY <1>0, <3>1 DEF Ended, TypeOK
      <3>4. p = Main => main'.at = "killed"
        BY <1>0, <3>1 DEF MainTo, TypeOK
      <3>5. QED
        BY <3>1, <3>2, <3>3, <3>4
    <2>2. HeldByPipe'
      <3>1. ASSUME NEW c \in Child, c[1] = pass, Measured(c)'
            PROVE  /\ c = Current' /\ c \in Child
                   /\ \/ main'.at \in {"close", "read"} /\ c \in pipe'.writers /\ ~pipe'.message
                      \/ main'.at = "killed"
        <4>1. c # p /\ Measured(c)
          BY <1>0, <2>1, <3>1 DEF Measured
        <4>2. /\ c = Current
              /\ \/ main.at \in {"close", "read"} /\ c \in pipe.writers /\ ~pipe.message
                 \/ main.at = "killed"
          BY <1>0, <3>1, <4>1 DEF HeldByPipe
        <4>3. p # Main
          BY <1>0, <4>2 DEF MainAlone
        <4>4. QED
          BY <1>0, <2>1, <4>1, <4>2, <4>3 DEF Current
      <3>2. QED
        BY <1>0, <3>1 DEF HeldByPipe
    <2>3. MainAlone'
      BY <1>0, <2>1 DEF MainAlone, Measured
    <2>4. OwnPipe'
      BY <1>0, <2>1 DEF OwnPipe
    <2>5. QED
      BY <1>1, <2>2, <2>3, <2>4
  <1>5. CASE SendMessage(p) /\ OtherReaders(p) # {}
    <2>1. /\ step'[p] = "spin" /\ pipe'.writers = pipe.writers \ {p} /\ pipe'.message
          /\ main' = main /\ p \in pipe.writers
      <3>1. After("message") = "spin"
        BY Successors DEF TypeInv, TypeOK
      <3>2. QED
        BY <1>0, <1>5, <3>1 DEF SendMessage, Goto, OtherReaders, TypeOK
    <2>2. p = Main \/ p[1] = pass
      BY <1>0, <2>1 DEF OwnPipe
    <2>3. ASSUME NEW c \in Child, c[1] = pass, Measured(c)' PROVE c = Current /\ main.at = "killed"
      <3>1. c # p /\ Measured(c)
        BY <1>0, <2>1, <2>3 DEF Measured
      <3>2. c = Current /\ (main.at \in {"close", "read"} \/ main.at = "killed")
        BY <1>0, <2>3, <3>1 DEF HeldByPipe
      <3>3. p # Main
        BY <1>0, <3>2 DEF MainAlone
      <3>4. QED
        BY <1>0, <1>2, <2>2, <3>1, <3>2, <3>3
    <2>4. HeldByPipe'
      BY <1>0, <2>1, <2>3 DEF HeldByPipe, Current
    <2>5. MainAlone'
      BY <1>0, <2>1 DEF MainAlone, Measured
    <2>6. OwnPipe'
      BY <1>0, <2>1 DEF OwnPipe
    <2>7. QED
      BY <1>1, <2>4, <2>5, <2>6
  <1>6. QED
    BY <1>3, <1>4, <1>5

(* Nobody of this run is measured while main is in its loop or past it.      *)
LEMMA NobodyMeasured ==
    ASSUME TypeOK, HeldByPipe, MainAlone, main.at \notin {"close", "read", "killed", "inside"}
    PROVE  /\ \A c \in Child : c[1] = pass => ~Measured(c)
           /\ ~Measured(Main)
  BY DEF HeldByPipe, MainAlone

LEMMA PipeMainStep ==
    ASSUME TypeInv, PipeInv, Piped, MainStep
    PROVE  HeldByPipe' /\ MainAlone' /\ NotStarted' /\ OwnPipe'
  <1>0. /\ TypeOK /\ InLoop /\ HeldByPipe /\ MainAlone /\ NotStarted /\ OwnPipe
        /\ Main \in Proc /\ Child \subseteq Proc /\ Main \notin Child
        /\ step \in [Proc -> Step] /\ main \in [at: MainAt, time: 0 .. Times]
        /\ pipe \in [writers: SUBSET Proc, readers: SUBSET Proc, message: BOOLEAN]
        /\ prog.start = "fork" /\ prog.failed = "child_wait"
        /\ \A c \in Child : c \in Proc /\ c # Main /\ c[1] \in Nat
        /\ pass \in Nat
    BY ProcFacts, ProgramsDescribed DEF TypeInv, PipeInv, TypeOK, Piped, Described
  <1>1. CASE StartChild
    <2> DEFINE cur == <<pass, main.time>>
    <2>1. /\ main.at = "loop" /\ pass' = pass /\ step' = [step EXCEPT ![cur] = Entry]
          /\ pipe' = [writers |-> {Main, cur}, readers |-> {Main, cur}, message |-> FALSE]
          /\ main' = [main EXCEPT !.at = "close"]
      BY <1>0, <1>1 DEF StartChild, MainTo, env
    <2>2. cur \in Child
      BY <1>0, <1>1, LoopsBound, ProcFacts DEF StartChild, TypeOK, Child, Dir
    <2>3. main'.at = "close" /\ main'.time = main.time /\ Current' = cur /\ cur[1] = pass
      BY <1>0, <2>1 DEF Current
    <2> HIDE DEF cur
    <2>4. \A c \in Proc : c # cur => step'[c] = step[c]
      BY <1>0, <2>1
    <2>5. /\ \A c \in Child : c[1] = pass => ~Measured(c)
          /\ ~Measured(Main)
      BY <1>0, <2>1, NobodyMeasured
    <2>6. HeldByPipe'
      <3>1. ASSUME NEW c \in Child, c[1] = pass, Measured(c)'
            PROVE  c = cur
        BY <1>0, <2>4, <2>5, <3>1 DEF Measured
      <3>2. QED
        BY <2>1, <2>3, <3>1 DEF HeldByPipe
    <2>7. MainAlone'
      BY <1>0, <2>2, <2>4, <2>5 DEF MainAlone, Measured
    <2>8. NotStarted'
      BY <1>0, <2>1, <2>2, <2>3, <2>4 DEF NotStarted
    <2>9. OwnPipe'
      BY <2>1, <2>3 DEF OwnPipe
    <2>10. QED
      BY <2>6, <2>7, <2>8, <2>9
  <1>2. CASE ForkFails
    <2>1. /\ main.at = "loop" /\ pass' = pass /\ step' = [step EXCEPT ![Main] = Entry]
          /\ pipe' = [writers |-> {Main}, readers |-> {Main}, message |-> FALSE]
          /\ main' = [main EXCEPT !.at = "inside"]
      BY <1>0, <1>2 DEF ForkFails, MainTo, env, Piped
    <2>2. main'.at = "inside" /\ \A c \in Child : step'[c] = step[c]
      BY <1>0, <2>1
    <2>3. \A c \in Child : c[1] = pass => ~Measured(c)
      BY <1>0, <2>1, NobodyMeasured
    <2>4. HeldByPipe' /\ MainAlone'
      BY <2>1, <2>2, <2>3 DEF HeldByPipe, MainAlone, Measured
    <2>5. NotStarted' /\ OwnPipe'
      BY <1>0, <2>1, <2>2 DEF NotStarted, OwnPipe
    <2>6. QED
      BY <2>4, <2>5
  <1>3. CASE PipeFails
    <2>1. main.at = "loop" /\ pass' = pass /\ step' = step /\ pipe' = pipe
      BY <1>3 DEF PipeFails, env
    <2>2. /\ \A c \in Child : c[1] = pass => ~Measured(c)
          /\ ~Measured(Main)
      BY <1>0, <2>1, NobodyMeasured
    <2>3. QED
      BY <1>0, <2>1, <2>2 DEF HeldByPipe, MainAlone, NotStarted, OwnPipe, Measured
  <1>4. CASE CallHandler
    BY <1>0, <1>4 DEF CallHandler, Parent
  <1>5. CASE CloseWriteEnd
    <2>1. main.at = "close" /\ pass' = pass /\ step' = step /\ main' = [main EXCEPT !.at = "read"]
          /\ pipe' = [pipe EXCEPT !.writers = @ \ {Main}]
      BY <1>5 DEF CloseWriteEnd, CloseEnd, MainTo, Piped, env
    <2>2. /\ main'.at = "read" /\ main'.time = main.time
          /\ pipe'.writers = pipe.writers \ {Main} /\ pipe'.message = pipe.message
      BY <1>0, <2>1
    <2>3. HeldByPipe'
      BY <1>0, <2>1, <2>2 DEF HeldByPipe, Current, Measured
    <2>4. MainAlone' /\ NotStarted' /\ OwnPipe'
      BY <1>0, <2>1, <2>2 DEF MainAlone, NotStarted, OwnPipe, Measured
    <2>5. QED
      BY <2>3, <2>4
  <1>6. CASE ReadPipe
    <2>1. /\ main.at = "read" /\ pass' = pass /\ step' = step
          /\ pipe.message \/ pipe.writers = {}
          /\ pipe' = [pipe EXCEPT !.readers = @ \ {Main}]
      BY <1>6 DEF ReadPipe, env
    <2>2. pipe'.writers = pipe.writers
      BY <1>0, <2>1
    <2>3. \A c \in Child : c[1] = pass => ~Measured(c)
      BY <1>0, <2>1 DEF HeldByPipe
    <2>4. ~Measured(Main)
      BY <1>0, <2>1 DEF MainAlone
    <2>5. QED
      BY <1>0, <2>1, <2>2, <2>3, <2>4 DEF HeldByPipe, MainAlone, NotStarted, OwnPipe, Measured
  <1>7. CASE LoopEnd
    <2>1. main.at = "loop" /\ pass' = pass /\ step' = step /\ pipe' = pipe
      BY <1>0, <1>7 DEF LoopEnd, Parent, env
    <2>2. /\ \A c \in Child : c[1] = pass => ~Measured(c)
          /\ ~Measured(Main)
      BY <1>0, <2>1, NobodyMeasured
    <2>3. QED
      BY <1>0, <2>1, <2>2 DEF HeldByPipe, MainAlone, NotStarted, OwnPipe, Measured
  <1>8. CASE HandlerReturns
    <2>1. /\ main.at = "inside" /\ pass' = pass /\ step' = [step EXCEPT ![Main] = "none"]
          /\ pipe' = pipe
      BY <1>0, <1>8 DEF HandlerReturns, Parent, env
    <2>2. step'[Main] = "none" /\ \A c \in Child : step'[c] = step[c]
      BY <1>0, <2>1
    <2>3. \A c \in Child : c[1] = pass => ~Measured(c)
      BY <1>0, <2>1 DEF HeldByPipe
    <2>4. QED
      BY <1>0, <2>1, <2>2, <2>3 DEF HeldByPipe, MainAlone, NotStarted, OwnPipe, Measured
  <1>9. CASE Wait
    <2>1. /\ main.at = "wait" /\ pass' = pass /\ step' = [step EXCEPT ![Main] = "none"]
          /\ pipe' = [pipe EXCEPT !.writers = @ \ {Main}, !.readers = @ \ {Main}]
      BY <1>9 DEF Wait, Ended, env
    <2>2. /\ step'[Main] = "none" /\ \A c \in Child : step'[c] = step[c]
          /\ pipe'.writers = pipe.writers \ {Main}
      BY <1>0, <2>1
    <2>3. \A c \in Child : c[1] = pass => ~Measured(c)
      BY <1>0, <2>1 DEF HeldByPipe
    <2>4. QED
      BY <1>0, <2>1, <2>2, <2>3 DEF HeldByPipe, MainAlone, NotStarted, OwnPipe, Measured
  <1>10. QED
    BY <1>1, <1>2, <1>3, <1>4, <1>5, <1>6, <1>7, <1>8, <1>9 DEF MainStep

LEMMA PipeStepInv ==
    ASSUME TypeInv, PipeInv, [Next]_vars
    PROVE  PipeInv'
  <1> SUFFICES ASSUME Piped' PROVE HeldByPipe' /\ MainAlone' /\ NotStarted' /\ OwnPipe'
    BY DEF PipeInv
  <1>0. prog' = prog /\ Piped
    BY DEF Next, vars, MainStep, StartChild, ForkFails, PipeFails, CallHandler, CloseWriteEnd,
           ReadPipe, LoopEnd, HandlerReturns, Wait, KillMain, Rerun, Kill, Handler, Gate, Unshare,
           MakeDir, Mount, SendMessage, Umount, UmountOne, RemoveDir, ChildExits, env, Piped
  <1>1. /\ TypeOK /\ HeldByPipe /\ MainAlone /\ NotStarted /\ OwnPipe
        /\ Main \in Proc /\ Child \subseteq Proc /\ Main \notin Child
        /\ step \in [Proc -> Step] /\ main \in [at: MainAt, time: 0 .. Times]
        /\ pipe \in [writers: SUBSET Proc, readers: SUBSET Proc, message: BOOLEAN]
        /\ \A c \in Child : c \in Proc /\ c # Main /\ c[1] \in Nat
        /\ pass \in Nat
    BY <1>0, ProcFacts DEF TypeInv, PipeInv, TypeOK
  <1>2. CASE MainStep
    BY <1>0, <1>2, PipeMainStep
  <1>3. CASE KillMain
    <2>1. /\ pass' = pass /\ step' = [step EXCEPT ![Main] = "none"]
          /\ main' = [main EXCEPT !.at = "killed"]
          /\ pipe' = [pipe EXCEPT !.writers = @ \ {Main}, !.readers = @ \ {Main}]
      BY <1>3 DEF KillMain, MainTo, Ended, env
    <2>2. /\ step'[Main] = "none" /\ \A c \in Child : step'[c] = step[c]
          /\ main'.at = "killed" /\ main'.time = main.time
          /\ pipe'.writers = pipe.writers \ {Main}
      BY <1>1, <2>1
    <2>3. HeldByPipe'
      BY <1>1, <2>1, <2>2 DEF HeldByPipe, Current, Measured
    <2>4. MainAlone' /\ NotStarted' /\ OwnPipe'
      BY <1>1, <2>1, <2>2 DEF MainAlone, NotStarted, OwnPipe, Measured
    <2>5. QED
      BY <2>3, <2>4
  <1>4. CASE Rerun
    <2>1. /\ pass' = pass + 1 /\ step' = [step EXCEPT ![Main] = "none"] /\ pipe'.writers = {}
      BY <1>4 DEF Rerun, NoPipe
    <2>2. step'[Main] = "none" /\ \A c \in Child : step'[c] = step[c]
      BY <1>1, <2>1
    <2>3. \A c \in Child : c[1] = pass' \/ c[1] > pass' => c[1] > pass
      BY <1>1, <2>1
    <2>4. \A c \in Child : c[1] = pass' \/ c[1] > pass' => step'[c] = "none"
      BY <1>1, <2>2, <2>3 DEF NotStarted
    <2>5. QED
      BY <2>1, <2>2, <2>4 DEF HeldByPipe, MainAlone, NotStarted, OwnPipe, Measured
  <1>5. ASSUME NEW p \in Proc, Handler(p)
        PROVE  HeldByPipe' /\ MainAlone' /\ NotStarted' /\ OwnPipe'
    BY <1>0, <1>5, PipeHandlerStep
  <1>6. ASSUME NEW k \in Child, Kill(k)
        PROVE  HeldByPipe' /\ MainAlone' /\ NotStarted' /\ OwnPipe'
    <2>1. /\ pass' = pass /\ main' = main /\ step' = [step EXCEPT ![k] = "gone"] /\ Alive(k)
          /\ pipe' = [pipe EXCEPT !.writers = @ \ {k}, !.readers = @ \ {k}]
      BY <1>6 DEF Kill, Goto, Ended, env
    <2>2. /\ step'[k] = "gone" /\ \A c \in Proc : c # k => step'[c] = step[c]
          /\ pipe'.writers = pipe.writers \ {k} /\ pipe'.message = pipe.message
          /\ step[k] # "none"
      BY <1>1, <2>1 DEF Alive
    <2>3. HeldByPipe'
      <3>1. ASSUME NEW c \in Child, c[1] = pass, Measured(c)'
            PROVE  c # k /\ Measured(c)
        BY <1>1, <2>2, <3>1 DEF Measured
      <3>2. QED
        BY <1>1, <2>1, <2>2, <3>1 DEF HeldByPipe, Current
    <2>4. MainAlone' /\ NotStarted' /\ OwnPipe'
      BY <1>1, <2>1, <2>2 DEF MainAlone, NotStarted, OwnPipe, Measured
    <2>5. QED
      BY <2>3, <2>4
  <1>7. CASE UNCHANGED vars
    BY <1>1, <1>7 DEF vars, HeldByPipe, MainAlone, NotStarted, OwnPipe, Measured, Current
  <1>8. QED
    BY <1>2, <1>3, <1>4, <1>5, <1>6, <1>7 DEF Next

LEMMA PipeInitInv ==
    ASSUME Init
    PROVE  PipeInv
  <1>1. \A p \in Proc : step[p] = "none"
    BY DEF Init
  <1>2. pipe.writers = {}
    BY DEF Init, NoPipe
  <1>3. QED
    BY <1>1, <1>2, ProcFacts DEF PipeInv, HeldByPipe, MainAlone, NotStarted, OwnPipe, Measured

(* What is measured is one child of this run, or main.                       *)
LEMMA MeasuredAlone ==
    ASSUME TypeInv, PipeInv
    PROVE  OneMeasured
  <1> SUFFICES ASSUME Piped
               PROVE  Cardinality({c \in OwnChildren \cup {Main} :
                                     step[c] \notin {"none", "spin", "gone"}}) <= 1
    BY DEF OneMeasured
  <1> DEFINE M == {c \in OwnChildren \cup {Main} : step[c] \notin {"none", "spin", "gone"}}
  <1>1. HeldByPipe /\ MainAlone /\ Main \notin Child
    BY ProcFacts DEF PipeInv
  <1>2. \A c \in M : c = Main \/ (c \in Child /\ c = Current /\ main.at # "inside")
    BY <1>1 DEF OwnChildren, HeldByPipe, Measured
  <1>3. Main \in M => main.at = "inside"
    BY <1>1 DEF MainAlone, Measured
  <1>4. \E q : M \subseteq {q}
    <2>1. CASE Main \in M
      BY <1>2, <1>3, <2>1
    <2>2. CASE Main \notin M
      BY <1>2, <2>2
    <2>3. QED
      BY <2>1, <2>2
  <1> HIDE DEF M
  <1>5. PICK q : M \subseteq {q}
    BY <1>4
  <1>6. IsFiniteSet({q}) /\ Cardinality({q}) = 1
    BY FS_Singleton
  <1>7. Cardinality(M) <= 1
    BY <1>5, <1>6, FS_Subset
  <1>8. QED
    BY <1>7 DEF M

-----------------------------------------------------------------------------
(* Run after run.                                                            *)

LEMMA RunInitInv ==
    ASSUME Init
    PROVE  RunInv
  <1> SUFFICES ASSUME Removing PROVE NoChildren /\ MainWorks /\ DirsKept /\ MountsKept
    BY DEF RunInv
  <1>1. "mkdir" \in prog.calls
    BY ProgramsDescribed DEF Init, Removing, Described
  <1>2. /\ spaces = {} /\ dirs = {} /\ main.at = "loop" /\ main.time = 0 /\ step[Main] = "none"
        /\ \A c \in Child : step[c] = "none"
        /\ \A n \in spaces \cup {Host} : mounted[n] = {}
    BY <1>1, ProcFacts DEF Init
  <1>3. ~Umounts
    BY DEF Init, Umounts
  <1>4. Through(0) = {}
    BY <1>3, ProcFacts DEF Through, Dir
  <1>5. Done({"mount", "back"}) = 0 /\ Done({"rmdir", "back"}) = 0
    BY <1>2 DEF Done
  <1>6. QED
    BY <1>2, <1>4, <1>5 DEF NoChildren, MainWorks, DirsKept, MountsKept

(* One directory more.                                                       *)
LEMMA ThroughNext ==
    ASSUME NEW k \in 0 .. Times - 1
    PROVE  /\ ~Umounts => Through(k + 1) = Through(k) \cup {k} /\ k \notin Through(k)
           /\ Umounts => Through(k + 1) = Through(k) \ {k} /\ k \in Through(k)
  <1>0. Times \in Nat /\ Dir = 0 .. Times - 1
    BY ProcFacts DEF Dir
  <1>1. CASE Umounts
    <2>1. \A d \in Dir : d >= k + 1 <=> (d >= k /\ d # k)
      BY <1>0
    <2>2. k \in Dir /\ k >= k
      BY <1>0
    <2>3. Through(k) = {d \in Dir : d >= k} /\ Through(k + 1) = {d \in Dir : d >= k + 1}
      BY <1>1 DEF Through
    <2>4. QED
      BY <1>1, <2>1, <2>2, <2>3
  <1>2. CASE ~Umounts
    <2>1. \A d \in Dir : d < k + 1 <=> (d < k \/ d = k)
      BY <1>0
    <2>2. k \in Dir /\ ~(k < k)
      BY <1>0
    <2>3. Through(k) = {d \in Dir : d < k} /\ Through(k + 1) = {d \in Dir : d < k + 1}
      BY <1>2 DEF Through
    <2>4. QED
      BY <1>2, <2>1, <2>2, <2>3
  <1>3. QED
    BY <1>1, <1>2

(* main goes from one directory to the next and to the end.                  *)
LEMMA RunMainStep ==
    ASSUME TypeInv, RunInv, Removing, shared, faults' = 0, MainStep
    PROVE  NoChildren' /\ MainWorks' /\ DirsKept' /\ MountsKept'
  <1>0. /\ TypeOK /\ InLoop /\ Described(prog) /\ step \in [Proc -> Step] /\ idx \in [Proc -> Dir]
        /\ main \in [at: MainAt, time: 0 .. Times] /\ main.time \in Nat /\ Times \in Nat
        /\ Main \in Proc /\ Child \subseteq Proc /\ Main \notin Child /\ Host \notin {Main}
        /\ prog.start = "call" /\ prog.many /\ Loops = Times
        /\ mounted \in [Proc \cup {Host} -> SUBSET Dir]
    BY ProcFacts, ProgramsDescribed
    DEF TypeInv, TypeOK, Removing, Described, Loops, Main, Host
  <1>1. faults = 0
    BY <1>0
    DEF MainStep, StartChild, ForkFails, PipeFails, CallHandler, CloseWriteEnd, ReadPipe,
        LoopEnd, HandlerReturns, Wait, Fault, TypeOK
  <1>2. NoChildren /\ MainWorks /\ DirsKept /\ MountsKept
    BY <1>1 DEF RunInv
  <1>3. UNCHANGED <<prog, pass>>
    BY DEF MainStep, StartChild, ForkFails, PipeFails, CallHandler, CloseWriteEnd, ReadPipe,
           LoopEnd, HandlerReturns, Wait, env
  <1>4. Umounts' = Umounts /\ \A k : Through(k)' = Through(k)
    BY <1>3 DEF Umounts, Through
  <1>5. CASE CallHandler
    <2>1. /\ main.at = "loop" /\ main.time < Loops /\ main' = [main EXCEPT !.at = "inside"]
          /\ step' = [step EXCEPT ![Main] = Entry] /\ idx' = [idx EXCEPT ![Main] = main.time]
          /\ spaces' = spaces /\ mounted' = mounted /\ dirs' = dirs
      BY <1>5 DEF CallHandler, MainTo, files
    <2>2. /\ main'.at = "inside" /\ main'.time = main.time /\ step'[Main] = Entry
          /\ idx'[Main] = main.time /\ \A c \in Child : step'[c] = step[c]
      BY <1>0, <2>1
    <2>3. Entry = (IF Umounts THEN "umount_one" ELSE "unshare")
      BY <1>0, Successors DEF Entry, Removing, TypeOK
    <2>4. step[Main] = "none"
      BY <1>2, <2>1 DEF MainWorks
    <2>5. NoChildren' /\ MainWorks'
      BY <1>2, <1>4, <2>1, <2>2, <2>3 DEF NoChildren, MainWorks, WorkSteps
    <2>6. \A past : "none" \notin past /\ "umount_one" \notin past /\ "unshare" \notin past
                   => Done(past)' = Done(past)
      BY <2>2, <2>3, <2>4 DEF Done
    <2>7. DirsKept'
      BY <1>2, <1>4, <2>1, <2>6 DEF DirsKept
    <2>8. MountsKept'
      BY <1>2, <1>4, <2>1, <2>6 DEF MountsKept
    <2>9. QED
      BY <2>5, <2>7, <2>8
  <1>6. CASE LoopEnd
    <2>1. /\ main.at = "loop" /\ main.time = Times /\ main' = [main EXCEPT !.at = "done"]
          /\ step' = [step EXCEPT ![Main] = "none"] /\ Ended({Main}) /\ dirs' = dirs
      BY <1>0, <1>6 DEF LoopEnd, MainTo, Parent
    <2>2. /\ main'.at = "done" /\ main'.time = main.time /\ step'[Main] = "none"
          /\ \A c \in Child : step'[c] = step[c]
      BY <1>0, <2>1
    <2>3. step[Main] = "none"
      BY <1>2, <2>1 DEF MainWorks
    <2>4. spaces' = {} /\ mounted'[Host] = mounted[Host]
      BY <1>0, <1>2, <2>1 DEF Ended, NoChildren
    <2>5. \A past : Done(past)' = Done(past)
      BY <2>2, <2>3 DEF Done
    <2>6. NoChildren' /\ MainWorks'
      BY <1>2, <2>1, <2>2, <2>4 DEF NoChildren, MainWorks
    <2>7. DirsKept'
      BY <1>2, <1>4, <2>1, <2>5 DEF DirsKept
    <2>8. MountsKept'
      BY <1>2, <1>4, <2>4, <2>5 DEF MountsKept
    <2>9. QED
      BY <2>6, <2>7, <2>8
  <1>7. CASE HandlerReturns
    <2>1. /\ main.at = "inside" /\ step[Main] = "back"
          /\ main' = [at |-> "loop", time |-> main.time + 1]
          /\ step' = [step EXCEPT ![Main] = "none"]
          /\ spaces' = spaces /\ mounted' = mounted /\ dirs' = dirs
      <3>1. ~Parent /\ prog.failed = "leave"
        BY <1>0 DEF Parent, Removing, Described
      <3>2. ToLoop(main.time + 1) /\ UNCHANGED <<files, pipe>>
        BY <1>7, <3>1 DEF HandlerReturns
      <3>3. QED
        BY <1>7, <3>2 DEF HandlerReturns, ToLoop, files
    <2>2. /\ main'.at = "loop" /\ main'.time = main.time + 1 /\ step'[Main] = "none"
          /\ \A c \in Child : step'[c] = step[c]
      BY <1>0, <2>1
    <2>3. \A past : "none" \notin past /\ "back" \in past => Done(past)' = Done(past)
      BY <2>1, <2>2 DEF Done
    <2>4. NoChildren' /\ MainWorks'
      BY <1>2, <2>1, <2>2 DEF NoChildren, MainWorks
    <2>5. DirsKept'
      BY <1>2, <1>4, <2>1, <2>3 DEF DirsKept
    <2>6. MountsKept'
      BY <1>2, <1>4, <2>1, <2>3 DEF MountsKept
    <2>7. QED
      BY <2>4, <2>5, <2>6
  <1>8. QED
    <2>1. main.at \in {"loop", "inside", "done"}
      BY <1>2 DEF MainWorks
    <2>2. ~Piped /\ ~Parent
      BY <1>0 DEF Piped, Parent, Removing, Described
    <2>3. QED
      BY <1>5, <1>6, <1>7, <2>1, <2>2
      DEF MainStep, StartChild, ForkFails, PipeFails, CloseWriteEnd, ReadPipe, Wait

(* A call of the handler in main.                                            *)
LEMMA RunHandlerStep ==
    ASSUME TypeInv, RunInv, Removing, shared, faults' = 0, NEW p \in Proc, Handler(p)
    PROVE  NoChildren' /\ MainWorks' /\ DirsKept' /\ MountsKept'
  <1>0. /\ TypeOK /\ InLoop /\ Described(prog) /\ step \in [Proc -> Step] /\ idx \in [Proc -> Dir]
        /\ main \in [at: MainAt, time: 0 .. Times] /\ main.time \in Nat /\ Times \in Nat
        /\ Main \in Proc /\ Child \subseteq Proc /\ Main \notin Child /\ Host \notin Proc
        /\ Loops = Times /\ ~prog.each /\ prog.mounts
        /\ mounted \in [Proc \cup {Host} -> SUBSET Dir]
        /\ p = Main \/ p \in Child
    BY ProcFacts, ProgramsDescribed
    DEF TypeInv, TypeOK, Removing, Described, Loops, Main, Host, Proc, Child
  <1>1. faults = 0
    BY <1>0
    DEF Handler, Gate, Unshare, MakeDir, Mount, SendMessage, Umount, UmountOne, RemoveDir,
        ChildExits, Fault, TypeOK, files
  <1>2. NoChildren /\ MainWorks /\ DirsKept /\ MountsKept
    BY <1>1 DEF RunInv
  <1>3. p = Main
    BY <1>0, <1>2, HandlerSteps DEF NoChildren, Measured
  <1>4. Handler(Main)
    BY <1>3
  <1>5. step[Main] \notin {"none", "spin", "gone"}
    BY <1>0, <1>4, HandlerSteps DEF Measured
  <1>6. main.at = "inside" /\ step[Main] \in WorkSteps /\ idx[Main] = main.time
    BY <1>2, <1>5 DEF MainWorks
  <1>7. main.time \in 0 .. Times - 1
    <2>1. main.time < Times
      BY <1>0, <1>6 DEF InLoop
    <2>2. QED
      BY <1>0, <2>1
  <1>8. UNCHANGED <<prog, pass, idx>>
    BY <1>0, <1>4
    DEF Handler, Gate, Unshare, MakeDir, Mount, SendMessage, Umount, UmountOne, RemoveDir,
        ChildExits, env
  <1>9. Umounts' = Umounts /\ \A k : Through(k)' = Through(k)
    BY <1>8 DEF Umounts, Through
  <1>10. /\ After("unshare") = "mkdir" /\ After("mkdir") = "mount" /\ After("mount") = "back"
    BY <1>0, Successors DEF Removing, TypeOK
  <1>11. \A c \in Child : step'[c] = step[c]
    BY <1>0, <1>4, HandlerSteps
  <1>12. Space(Main) \in spaces \cup {Host} /\ Peers(Main) = spaces \cup {Host}
    BY DEF Space, Peers
  <1>20. CASE Unshare(Main)
    <2>1. /\ step[Main] = "unshare" /\ step' = [step EXCEPT ![Main] = "mkdir"]
          /\ mounted' = [mounted EXCEPT ![Main] = mounted[Space(Main)]]
          /\ spaces' = spaces \cup {Main} /\ dirs' = dirs /\ main' = main
      <3>1. ~Fault
        BY <1>1 DEF Fault
      <3>2. /\ mounted' = [mounted EXCEPT ![Main] = mounted[Space(Main)]]
            /\ spaces' = spaces \cup {Main}
        BY <1>20, <3>1 DEF Unshare
      <3>3. QED
        BY <1>10, <1>20, <3>2 DEF Unshare, Goto
    <2>2. step'[Main] = "mkdir"
      BY <1>0, <2>1
    <2>3. ~Umounts
      BY <1>6, <2>1 DEF WorkSteps
    <2>4. NoChildren' /\ MainWorks'
      BY <1>2, <1>6, <1>8, <1>9, <1>11, <2>1, <2>2, <2>3 DEF NoChildren, MainWorks, WorkSteps
    <2>5. DirsKept'
      <3>1. Done({"mount", "back"})' = Done({"mount", "back"})
        BY <2>1, <2>2 DEF Done
      <3>2. QED
        BY <1>2, <1>9, <2>1, <3>1 DEF DirsKept
    <2>6. MountsKept'
      <3>1. Done({"rmdir", "back"})' = Done({"rmdir", "back"})
        BY <2>1, <2>2 DEF Done
      <3>2. \A n \in spaces' \cup {Host} : mounted'[n] = Through(Done({"rmdir", "back"}))
        BY <1>0, <1>2, <1>12, <2>1 DEF MountsKept
      <3>3. QED
        BY <1>9, <3>1, <3>2 DEF MountsKept
    <2>7. QED
      BY <2>4, <2>5, <2>6
  <1>21. CASE MakeDir(Main)
    <2>1. step[Main] = "mkdir" /\ ~Umounts
      BY <1>6, <1>21 DEF MakeDir, WorkSteps
    <2>2. Done({"mount", "back"}) = main.time /\ Done({"rmdir", "back"}) = main.time
      BY <2>1 DEF Done
    <2>3. dirs = Through(main.time) /\ main.time \notin dirs
      BY <1>2, <1>7, <2>1, <2>2, ThroughNext DEF DirsKept
    <2>4. /\ step' = [step EXCEPT ![Main] = "mount"] /\ dirs' = dirs \cup {main.time}
          /\ main' = main /\ spaces' = spaces /\ mounted' = mounted
      BY <1>6, <1>10, <1>21, <2>3 DEF MakeDir, Goto
    <2>5. step'[Main] = "mount"
      BY <1>0, <2>4
    <2>6. NoChildren' /\ MainWorks'
      BY <1>2, <1>6, <1>8, <1>9, <1>11, <2>1, <2>4, <2>5 DEF NoChildren, MainWorks, WorkSteps
    <2>7. DirsKept'
      <3>1. Done({"mount", "back"})' = main.time + 1
        BY <2>4, <2>5 DEF Done
      <3>2. QED
        BY <1>7, <1>9, <2>1, <2>3, <2>4, <3>1, ThroughNext DEF DirsKept
    <2>8. MountsKept'
      <3>1. Done({"rmdir", "back"})' = main.time
        BY <2>4, <2>5 DEF Done
      <3>2. QED
        BY <1>2, <1>9, <2>2, <2>4, <3>1 DEF MountsKept
    <2>9. QED
      BY <2>6, <2>7, <2>8
  <1>22. CASE Mount(Main)
    <2>1. step[Main] = "mount" /\ ~Umounts
      BY <1>6, <1>22 DEF Mount, WorkSteps
    <2>2. Done({"mount", "back"}) = main.time + 1 /\ Done({"rmdir", "back"}) = main.time
      BY <2>1 DEF Done
    <2>3. /\ step' = [step EXCEPT ![Main] = "back"] /\ dirs' = dirs
          /\ main' = main /\ spaces' = spaces /\ mounted' = MountIn(Main, main.time)
      BY <1>0, <1>1, <1>6, <1>10, <1>22 DEF Mount, Goto, Fault
    <2>4. step'[Main] = "back"
      BY <1>0, <2>3
    <2>5. NoChildren' /\ MainWorks'
      BY <1>2, <1>6, <1>8, <1>9, <1>11, <2>1, <2>3, <2>4 DEF NoChildren, MainWorks, WorkSteps
    <2>6. Done({"mount", "back"})' = main.time + 1 /\ Done({"rmdir", "back"})' = main.time + 1
      BY <2>3, <2>4 DEF Done
    <2>7. DirsKept'
      BY <1>2, <1>9, <2>2, <2>3, <2>6 DEF DirsKept
    <2>8. MountsKept'
      <3>1. \A n \in spaces \cup {Host} : mounted'[n] = mounted[n] \cup {main.time}
        <4>1. \A n \in spaces \cup {Host} : n \in DOMAIN mounted
          BY <1>0, <1>2, <1>12 DEF NoChildren
        <4>2. QED
          BY <1>12, <2>3, <4>1 DEF MountIn
      <3>2. \A n \in spaces \cup {Host} : mounted'[n] = Through(main.time + 1)
        BY <1>2, <1>7, <2>1, <2>2, <3>1, ThroughNext DEF MountsKept
      <3>3. QED
        BY <1>9, <2>3, <2>6, <3>2 DEF MountsKept
    <2>9. QED
      BY <2>5, <2>7, <2>8
  <1>23. CASE UmountOne(Main)
    <2>1. step[Main] = "umount_one" /\ Umounts
      BY <1>6, <1>23 DEF UmountOne, WorkSteps
    <2>2. Done({"mount", "back"}) = main.time /\ Done({"rmdir", "back"}) = main.time
      BY <2>1 DEF Done
    <2>3. main.time \in mounted[Space(Main)]
      BY <1>2, <1>7, <1>12, <2>1, <2>2, ThroughNext DEF MountsKept
    <2>4. Removes(Main)
      BY <1>6, <2>3 DEF Removes, Removing
    <2>5. /\ step' = [step EXCEPT ![Main] = "rmdir"] /\ dirs' = dirs
          /\ main' = main /\ spaces' = spaces /\ mounted' = UmountIn(Main, main.time)
      BY <1>6, <1>23, <2>4 DEF UmountOne, Goto
    <2>6. step'[Main] = "rmdir"
      BY <1>0, <2>5
    <2>7. NoChildren' /\ MainWorks'
      BY <1>2, <1>6, <1>8, <1>9, <1>11, <2>1, <2>5, <2>6 DEF NoChildren, MainWorks, WorkSteps
    <2>8. Done({"mount", "back"})' = main.time /\ Done({"rmdir", "back"})' = main.time + 1
      BY <2>5, <2>6 DEF Done
    <2>9. DirsKept'
      BY <1>2, <1>9, <2>2, <2>5, <2>8 DEF DirsKept
    <2>10. MountsKept'
      <3>1. \A n \in spaces \cup {Host} : mounted'[n] = mounted[n] \ {main.time}
        <4>1. \A n \in spaces \cup {Host} : n \in DOMAIN mounted
          BY <1>0, <1>2, <1>12 DEF NoChildren
        <4>2. QED
          BY <1>12, <2>5, <4>1 DEF UmountIn
      <3>2. \A n \in spaces \cup {Host} : mounted'[n] = Through(main.time + 1)
        BY <1>2, <1>7, <2>1, <2>2, <3>1, ThroughNext DEF MountsKept
      <3>3. QED
        BY <1>9, <2>5, <2>8, <3>2 DEF MountsKept
    <2>11. QED
      BY <2>7, <2>9, <2>10
  <1>24. CASE RemoveDir(Main)
    <2>1. step[Main] = "rmdir" /\ Umounts
      BY <1>6, <1>24 DEF RemoveDir, WorkSteps
    <2>2. Done({"mount", "back"}) = main.time /\ Done({"rmdir", "back"}) = main.time + 1
      BY <2>1 DEF Done
    <2>3. /\ step' = [step EXCEPT ![Main] = "back"] /\ dirs' = dirs \ {main.time}
          /\ main' = main /\ spaces' = spaces /\ mounted' = mounted
      BY <1>6, <1>24 DEF RemoveDir, Goto
    <2>4. step'[Main] = "back"
      BY <1>0, <2>3
    <2>5. NoChildren' /\ MainWorks'
      BY <1>2, <1>6, <1>8, <1>9, <1>11, <2>1, <2>3, <2>4 DEF NoChildren, MainWorks, WorkSteps
    <2>6. Done({"mount", "back"})' = main.time + 1 /\ Done({"rmdir", "back"})' = main.time + 1
      BY <2>3, <2>4 DEF Done
    <2>7. DirsKept'
      BY <1>2, <1>7, <1>9, <2>1, <2>2, <2>3, <2>6, ThroughNext DEF DirsKept
    <2>8. MountsKept'
      BY <1>2, <1>9, <2>2, <2>3, <2>6 DEF MountsKept
    <2>9. QED
      BY <2>5, <2>7, <2>8
  <1>25. QED
    BY <1>4, <1>6, <1>20, <1>21, <1>22, <1>23, <1>24
    DEF Handler, WorkSteps, Gate, SendMessage, Umount, ChildExits

LEMMA RunStepInv ==
    ASSUME TypeInv, RunInv, [Next]_vars
    PROVE  RunInv'
  <1> SUFFICES ASSUME Removing', shared', faults' = 0
               PROVE  NoChildren' /\ MainWorks' /\ DirsKept' /\ MountsKept'
    BY DEF RunInv
  <1>0. UNCHANGED <<prog, shared>>
    BY DEF Next, vars, MainStep, StartChild, ForkFails, PipeFails, CallHandler, CloseWriteEnd,
           ReadPipe, LoopEnd, HandlerReturns, Wait, KillMain, Rerun, Kill, Handler, Gate, Unshare,
           MakeDir, Mount, SendMessage, Umount, UmountOne, RemoveDir, ChildExits, env
  <1>1. Removing /\ shared
    BY <1>0 DEF Removing
  <1>2. TypeOK /\ faults \in Nat
    BY ProcFacts DEF TypeInv, TypeOK
  <1>3. CASE MainStep
    BY <1>1, <1>3, RunMainStep
  <1>4. CASE KillMain
    BY <1>2, <1>4 DEF KillMain, Fault
  <1>5. CASE Rerun
    <2>1. NoChildren /\ MainWorks /\ DirsKept /\ MountsKept
      BY <1>1, <1>5 DEF Rerun, RunInv
    <2>2. main.at = "done" /\ step[Main] = "none" /\ main.time = Times
      BY <1>5, <2>1 DEF Rerun, Running, MainWorks
    <2>3. /\ main'.at = "loop" /\ main'.time = 0 /\ pass' = pass + 1
          /\ step' = [step EXCEPT ![Main] = "none"]
          /\ spaces' = spaces /\ mounted' = mounted /\ dirs' = dirs
      BY <1>5 DEF Rerun, ToLoop, files
    <2>4. step'[Main] = "none" /\ \A c \in Child : step'[c] = step[c]
      BY <1>2, <2>3, ProcFacts DEF TypeOK
    <2>5. \A past : "none" \notin past => Done(past) = Times /\ Done(past)' = 0
      BY <2>2, <2>3, <2>4 DEF Done
    <2>6. Umounts' = ~Umounts
      <3>1. pass \in Nat /\ prog.umount # {}
        BY <1>1, <1>2, ProcFacts DEF Removing, TypeOK
      <3>2. (pass + 1) % 2 = 0 <=> ~(pass % 2 = 0)
        BY <3>1
      <3>3. QED
        BY <1>0, <2>3, <3>1, <3>2 DEF Umounts
    <2>7. Through(Times) = Through(0)'
      <3>1. Dir = 0 .. Times - 1 /\ Times \in Nat
        BY ProcFacts DEF Dir
      <3>2. \A d \in Dir : d >= 0 /\ ~(d < 0) /\ d < Times /\ ~(d >= Times)
        BY <3>1
      <3>3. Through(0)' = IF Umounts' THEN {d \in Dir : d >= 0} ELSE {d \in Dir : d < 0}
        BY DEF Through
      <3>4. Through(Times) = IF Umounts THEN {d \in Dir : d >= Times} ELSE {d \in Dir : d < Times}
        BY DEF Through
      <3>5. QED
        BY <2>6, <3>2, <3>3, <3>4
    <2>8. NoChildren' /\ MainWorks'
      BY <2>1, <2>3, <2>4 DEF NoChildren, MainWorks
    <2>9. DirsKept'
      BY <2>1, <2>3, <2>5, <2>7 DEF DirsKept
    <2>10. MountsKept'
      BY <2>1, <2>3, <2>5, <2>7 DEF MountsKept
    <2>11. QED
      BY <2>8, <2>9, <2>10
  <1>6. ASSUME NEW p \in Proc, Handler(p)
        PROVE  NoChildren' /\ MainWorks' /\ DirsKept' /\ MountsKept'
    BY <1>1, <1>6, RunHandlerStep
  <1>7. ASSUME NEW c \in Child, Kill(c)
        PROVE  NoChildren' /\ MainWorks' /\ DirsKept' /\ MountsKept'
    <2>1. faults = 0 /\ step[c] # "none"
      BY <1>2, <1>7 DEF Kill, Fault, Alive
    <2>2. QED
      BY <1>1, <2>1 DEF RunInv, NoChildren
  <1>8. CASE UNCHANGED vars
    BY <1>1, <1>8
    DEF vars, RunInv, NoChildren, MainWorks, DirsKept, MountsKept, WorkSteps, Done, Through,
        Umounts
  <1>9. QED
    BY <1>3, <1>4, <1>5, <1>6, <1>7, <1>8 DEF Next

(* What main is to make is not made yet.                                     *)
LEMMA RunsAgain ==
    ASSUME TypeInv, RunInv
    PROVE  Rerunnable
  <1> SUFFICES ASSUME shared, faults = 0, "rmdir" \in prog.umount, prog.mounts,
                      NEW p \in Proc, step[p] = "mkdir"
               PROVE  idx[p] \notin dirs
    BY DEF Rerunnable
  <1>1. NoChildren /\ MainWorks /\ DirsKept
    BY DEF RunInv, Removing
  <1>2. p = Main
    BY <1>1 DEF NoChildren, Proc
  <1>3. main.at = "inside" /\ ~Umounts /\ idx[Main] = main.time /\ Done({"mount", "back"}) = main.time
    BY <1>1, <1>2 DEF MainWorks, WorkSteps, Done
  <1>4. main.time \in 0 .. Times - 1
    <2>1. main.time < Loops /\ main.time \in Nat /\ Loops \in 1 .. Times /\ Times \in Nat
      BY <1>3, LoopsBound, ProcFacts DEF TypeInv, TypeOK, InLoop
    <2>2. QED
      BY <2>1
  <1>5. QED
    BY <1>1, <1>2, <1>3, <1>4, ThroughNext DEF DirsKept

-----------------------------------------------------------------------------

LEMMA IInvHolds == Spec => []IInv
  <1>1. Init => IInv
    BY TypeInitInv, PipeInitInv, RunInitInv DEF IInv
  <1>2. IInv /\ [Next]_vars => IInv'
    BY TypeStepInv, PipeStepInv, RunStepInv DEF IInv
  <1>3. QED
    BY <1>1, <1>2, PTL DEF Spec

(* Type correctness of the benchmarks.                                       *)
THEOREM TypeCorrect == Spec => []TypeOK
  <1>1. IInv => TypeOK
    BY DEF IInv, TypeInv
  <1>2. QED
    BY <1>1, IInvHolds, PTL

(* The programs that wait for each child's message measure one process at a  *)
(* time, for any number of directories, runs and faults: the parent starts   *)
(* the next child only after it has read a message or the end of the pipe,   *)
(* and only the last child can still write to the pipe.                      *)
THEOREM MeasuredCorrect == Spec => []OneMeasured
  <1>1. IInv => OneMeasured
    BY MeasuredAlone DEF IInv
  <1>2. QED
    BY <1>1, IInvHolds, PTL

(* A program whose umount_one removes the directory, and whose mount can     *)
(* succeed, can be run again for any number of runs: a mounting run finds    *)
(* none of the directories it is to make, because the run before it removed  *)
(* them all.                                                                 *)
THEOREM RerunCorrect == Spec => []Rerunnable
  <1>1. IInv => Rerunnable
    BY RunsAgain DEF IInv
  <1>2. QED
    BY <1>1, IInvHolds, PTL
=============================================================================
