------------------------ MODULE SavedCmdlinesProofs ------------------------
(***************************************************************************)
(* Proofs about SavedCmdlines for any number of CPUs, pids and slots: its  *)
(* type, that its two maps are inverse, that a slot never holds the names  *)
(* of a pid that does not own it, that the ring forgets the oldest pid,    *)
(* and that a CPU asks for recordings until one is complete; and about     *)
(* SavedCmdlinesSeq, that a listing in chunks leaves out no entry that     *)
(* stays bound.                                                            *)
(***************************************************************************)
EXTENDS SavedCmdlinesSeq, FiniteSetTheorems, TLAPS

(* A CPU that holds the lock is saving a task that has a slot.  Without it   *)
(* SaveNames could write outside the ring.                                   *)
LockHeld ==
    lock \in Cpu =>
        /\ work[lock].on /\ work[lock].todo # << >>
        /\ Head(work[lock].todo) \in Held
        /\ map_pid_to_cmdline[Head(work[lock].todo)] # NoMap

IndInv == TypeOK /\ LockHeld /\ MapsInverse /\ OwnNames

(* The arithmetic of the ring: the next slot is a slot.                      *)
LEMMA NextSlotType ==
    ASSUME cmdline_num \in 1 .. MaxNum, cmdline_idx \in Slot
    PROVE  NextSlot \in Slot
  BY NumAssumption DEF Slot, NextSlot

LEMMA HeldArePids == Held \subseteq Pid /\ 0 \in Pid /\ 1 \in Pid
  BY PidAssumption DEF Held, Pid

(* Taking a task off a recorder's list keeps the recorders well typed.       *)
LEMMA SavedType ==
    ASSUME work \in [Cpu -> Work], NEW c \in Cpu, NEW p \in Pid,
           NEW ok \in BOOLEAN, Saving(c, p)
    PROVE  /\ Saved(c, p, ok) \in [Cpu -> Work]
           /\ \A d \in Cpu \ {c} : Saved(c, p, ok)[d] = work[d]
  <1>1. work[c] \in Work /\ work[c].todo \in Seq(Pid) /\ work[c].todo # << >>
    BY DEF Work, Saving
  <1>2. Tail(work[c].todo) \in Seq(Pid)
    BY <1>1
  <1>3. Saved(c, p, ok)[c] \in Work /\ DOMAIN Saved(c, p, ok) = Cpu
    BY <1>1, <1>2 DEF Saved, Work
  <1>4. \A d \in Cpu \ {c} : Saved(c, p, ok)[d] = work[d]
    BY DEF Saved
  <1>5. QED
    BY <1>3, <1>4 DEF Saved

LEMMA NamesType ==
    ASSUME TypeOK, NEW p \in Pid
    PROVE  /\ NamesOf(p) \in Names /\ AncestorsOf(p) \in Pid \X Pid \X Pid
           /\ [names |-> NamesOf(p), pids |-> AncestorsOf(p)] \in Save
  BY DEF TypeOK, NamesOf, AncestorsOf, Names, Save

LEMMA InitInv == Init => IndInv
  <1> SUFFICES ASSUME Init PROVE IndInv
    OBVIOUS
  <1>1. TypeOK
    BY PidAssumption, TreeAssumption, NumAssumption, ValueAssumption
       DEF Init, TypeOK, Slot, Work, Idle
  <1>2. LockHeld
    BY ValueAssumption DEF Init, LockHeld
  <1>3. MapsInverse /\ OwnNames
    BY DEF Init, MapsInverse, OwnNames, Slot
  <1>4. QED
    BY <1>1, <1>2, <1>3 DEF IndInv

(* A step that moves neither the ring, nor the lock, nor the lists of the    *)
(* recorders, nor the history keeps all of the invariant but the types.      *)
LEMMA RingUnchanged ==
    ASSUME IndInv, UNCHANGED <<ring, lock, last>>,
           lock \in Cpu => work'[lock] = work[lock]
    PROVE  LockHeld' /\ MapsInverse' /\ OwnNames'
  <1>1. LockHeld' /\ MapsInverse'
    BY DEF IndInv, LockHeld, MapsInverse, Slot, ring, maps
  <1>2. \A p \in Held : BeingNamed(p)' <=> BeingNamed(p)
    BY DEF BeingNamed, Saving
  <1>3. OwnNames'
    BY <1>2 DEF IndInv, OwnNames, ring, maps
  <1>4. QED
    BY <1>1, <1>3

LEMMA TaskStepInv == ASSUME IndInv, TaskStep PROVE IndInv'
  <1>1. UNCHANGED <<ring, lock, work, trace_taskinfo_save, last>>
    BY DEF TaskStep, Fork, Exec, Exit
  <1>2. parent' \in [Pid -> Pid] /\ comm' \in [Pid -> Comm] /\ taskSteps' \in Nat
    <2>1. ASSUME NEW p \in Pid, NEW q \in Pid, Fork(p, q)
          PROVE  parent' \in [Pid -> Pid] /\ comm' \in [Pid -> Comm] /\ taskSteps' \in Nat
      BY <2>1 DEF IndInv, TypeOK, Fork
    <2>2. ASSUME NEW p \in Pid, NEW name \in Comm, Exec(p, name)
          PROVE  parent' \in [Pid -> Pid] /\ comm' \in [Pid -> Comm] /\ taskSteps' \in Nat
      BY <2>2 DEF IndInv, TypeOK, Exec
    <2>3. ASSUME NEW p \in Pid, Exit(p)
          PROVE  parent' \in [Pid -> Pid] /\ comm' \in [Pid -> Comm] /\ taskSteps' \in Nat
      BY <2>3, HeldArePids DEF IndInv, TypeOK, Exit
    <2>4. QED
      BY <2>1, <2>2, <2>3 DEF TaskStep
  <1>3. TypeOK'
    BY <1>1, <1>2 DEF IndInv, TypeOK, ring, maps, Slot
  <1>4. QED
    BY <1>1, <1>3, RingUnchanged DEF IndInv

(* CommitEvent, RecordBegin, SaveSkip, RecordEnd: only the recorder moves,   *)
(* and a recorder that moves does not hold the lock.                         *)
LEMMA RecorderInv ==
    ASSUME IndInv, NEW c \in Cpu, UNCHANGED <<tasks, ring, lock, last>>, lock # c,
           work' \in [Cpu -> Work], \A d \in Cpu \ {c} : work'[d] = work[d],
           trace_taskinfo_save' \in [Cpu -> BOOLEAN]
    PROVE  IndInv'
  <1>1. TypeOK'
    BY DEF IndInv, TypeOK, tasks, ring, maps, Slot
  <1>2. QED
    BY <1>1, RingUnchanged DEF IndInv

LEMMA CommitEventInv == ASSUME IndInv, NEW c \in Cpu, CommitEvent(c) PROVE IndInv'
  <1>1. TypeOK'
    BY DEF IndInv, TypeOK, CommitEvent, tasks, ring, maps, Slot
  <1>2. UNCHANGED <<ring, lock, work, last>>
    BY DEF CommitEvent
  <1>3. QED
    BY <1>1, <1>2, RingUnchanged DEF IndInv

LEMMA RecordBeginInv ==
    ASSUME IndInv, NEW c \in Cpu, NEW ts \in Switched, RecordBegin(c, ts)
    PROVE  IndInv'
  <1>1. ts \in Seq(Pid) /\ {ts[i] : i \in DOMAIN ts} \subseteq Pid
    <2>1. CASE \E q \in Pid : ts = <<q>>
      BY <2>1
    <2>2. CASE \E q, r \in Pid : ts = <<q, r>>
      BY <2>2
    <2>3. QED
      BY <2>1, <2>2 DEF Switched
  <1>2. work' \in [Cpu -> Work] /\ \A d \in Cpu \ {c} : work'[d] = work[d]
    BY <1>1 DEF IndInv, TypeOK, RecordBegin, Work
  <1>3. lock # c /\ UNCHANGED <<tasks, ring, lock, trace_taskinfo_save, last>>
    BY DEF IndInv, LockHeld, RecordBegin
  <1>4. QED
    BY <1>2, <1>3, RecorderInv DEF IndInv, TypeOK

LEMMA SaveSkipInv ==
    ASSUME IndInv, NEW c \in Cpu, NEW p \in Pid, SaveSkip(c, p)
    PROVE  IndInv'
  <1>1. Saving(c, p) /\ lock # c /\ UNCHANGED <<tasks, ring, lock, trace_taskinfo_save, last>>
    BY DEF SaveSkip
  <1>2. PICK ok \in BOOLEAN : work' = Saved(c, p, ok)
    BY DEF SaveSkip
  <1>3. work' \in [Cpu -> Work] /\ \A d \in Cpu \ {c} : work'[d] = work[d]
    BY <1>1, <1>2, SavedType DEF IndInv, TypeOK
  <1>4. QED
    BY <1>1, <1>3, RecorderInv DEF IndInv, TypeOK

(* The slot a new pid takes: the pid that owned it loses it, every other pid *)
(* keeps its own.                                                            *)
LEMMA SaveBindInv ==
    ASSUME IndInv, NEW c \in Cpu, NEW p \in Pid, SaveBind(c, p)
    PROVE  IndInv'
  <1>1. /\ Saving(c, p) /\ p \in Held /\ lock = Free /\ lock' = c
        /\ UNCHANGED <<tasks, saved_cmdlines, work, trace_taskinfo_save, last>>
    BY DEF SaveBind
  <1>2. work'[c].on /\ work'[c].todo # << >> /\ Head(work'[c].todo) = p
    BY <1>1 DEF Saving, IndInv
  <1>3. \A q \in Held : ~BeingNamed(q) /\ (BeingNamed(q)' <=> q = p)
    BY <1>1, <1>2, ValueAssumption DEF BeingNamed, Saving
  <1>4. CASE map_pid_to_cmdline[p] # NoMap
    <2>1. UNCHANGED <<maps, recent>>
      BY <1>4 DEF SaveBind
    <2>2. TypeOK'
      BY <2>1, <1>1 DEF IndInv, TypeOK, tasks, maps, Slot
    <2>3. LockHeld' /\ MapsInverse'
      BY <2>1, <1>1, <1>2, <1>4 DEF IndInv, LockHeld, MapsInverse, maps, Slot
    <2>4. OwnNames'
      BY <2>1, <1>1, <1>3 DEF IndInv, OwnNames, maps
    <2>5. QED
      BY <2>2, <2>3, <2>4 DEF IndInv
  <1>5. CASE map_pid_to_cmdline[p] = NoMap
    <2> DEFINE s == NextSlot
    <2>1. /\ map_cmdline_to_pid' = [map_cmdline_to_pid EXCEPT ![s] = p]
          /\ map_pid_to_cmdline' = Bound(p, s)
          /\ ancestors' = [ancestors EXCEPT ![p] = AncestorsOf(p)]
          /\ cmdline_idx' = s /\ cmdline_num' = cmdline_num
          /\ recent' = Append(IF Len(recent) < MaxNum THEN recent ELSE Tail(recent), p)
      BY <1>5 DEF SaveBind
    <2>2. s \in Slot /\ Slot' = Slot
      BY <2>1, NextSlotType DEF IndInv, TypeOK, Slot
    <2> HIDE DEF s
    <2>3. recent' \in Seq(Held)
      <3>1. recent \in Seq(Held) /\ p \in Held
        BY <1>1 DEF IndInv, TypeOK
      <3>2. ~(Len(recent) < MaxNum) => Tail(recent) \in Seq(Held)
        BY <3>1, PidAssumption, NumAssumption
      <3>3. QED
        BY <2>1, <3>1, <3>2
    <2>4. \A q \in Held :
             map_pid_to_cmdline'[q] = IF q = p THEN s
                                      ELSE IF q = map_cmdline_to_pid[s] THEN NoMap
                                      ELSE map_pid_to_cmdline[q]
      BY <2>1 DEF Bound
    <2>5. TypeOK'
      <3>1. map_pid_to_cmdline' \in [Held -> Slot \cup {NoMap}]
        BY <2>1, <2>2 DEF Bound, IndInv, TypeOK
      <3>2. map_cmdline_to_pid' \in [Slot -> Held \cup {NoMap}]
        BY <2>1, <1>1 DEF IndInv, TypeOK
      <3>3. ancestors' \in [Held -> (Pid \X Pid \X Pid) \cup {NoMap}]
        BY <2>1, <1>1, NamesType DEF IndInv, TypeOK
      <3>4. QED
        BY <3>1, <3>2, <3>3, <2>1, <2>2, <2>3, <1>1 DEF IndInv, TypeOK, tasks
    <2>6. LockHeld'
      BY <2>2, <2>4, <1>1, <1>2, ValueAssumption DEF LockHeld, Slot
    <2>7. \A q \in Held \ {p} : map_pid_to_cmdline'[q] # NoMap =>
             /\ map_pid_to_cmdline'[q] = map_pid_to_cmdline[q]
             /\ map_pid_to_cmdline[q] \in Slot \ {s}
      BY <2>4, <2>2 DEF IndInv, TypeOK, MapsInverse
    <2>8. MapsInverse'
      <3>1. ASSUME NEW q \in Held, map_pid_to_cmdline'[q] # NoMap
            PROVE  map_cmdline_to_pid'[map_pid_to_cmdline'[q]] = q
        <4>1. CASE q = p
          BY <4>1, <2>1, <2>2, <2>4 DEF IndInv, TypeOK
        <4>2. CASE q # p
          BY <4>2, <3>1, <2>1, <2>7 DEF IndInv, TypeOK, MapsInverse
        <4>3. QED
          BY <4>1, <4>2
      <3>2. ASSUME NEW t \in Slot, map_cmdline_to_pid'[t] # NoMap
            PROVE  map_pid_to_cmdline'[map_cmdline_to_pid'[t]] = t
        <4>1. CASE t = s
          BY <4>1, <2>1, <2>4, <1>1 DEF IndInv, TypeOK
        <4>2. CASE t # s
          <5> DEFINE r == map_cmdline_to_pid[t]
          <5>1. map_cmdline_to_pid'[t] = r /\ r \in Held
            BY <4>2, <3>2, <2>1 DEF IndInv, TypeOK
          <5>2. map_pid_to_cmdline[r] = t
            BY <5>1, ValueAssumption, <3>2 DEF IndInv, MapsInverse
          <5>3. t # NoMap
            BY ValueAssumption DEF Slot
          <5>4. r # p
            BY <5>2, <5>3, <1>5
          <5>5. r # map_cmdline_to_pid[s]
            BY <5>1, <5>2, <4>2, <2>2, <3>2 DEF IndInv, MapsInverse
          <5>6. QED
            BY <5>1, <5>2, <5>4, <5>5, <2>4
        <4>3. QED
          BY <4>1, <4>2
      <3>3. QED
        BY <3>1, <3>2, <2>2 DEF MapsInverse
    <2>9. OwnNames'
      BY <2>7, <1>1, <1>3 DEF IndInv, OwnNames
    <2>10. QED
      BY <2>5, <2>6, <2>8, <2>9 DEF IndInv
  <1>6. QED
    BY <1>4, <1>5

LEMMA SaveNamesInv ==
    ASSUME IndInv, NEW c \in Cpu, NEW p \in Pid, SaveNames(c, p)
    PROVE  IndInv'
  <1> DEFINE s == map_pid_to_cmdline[p]
  <1>1. /\ Saving(c, p) /\ lock = c /\ lock' = Free
        /\ UNCHANGED <<tasks, maps, recent, trace_taskinfo_save>>
    BY DEF SaveNames
  <1>2. p \in Held /\ s \in Slot
    BY <1>1 DEF IndInv, TypeOK, LockHeld, Saving
  <1>3. work' \in [Cpu -> Work]
    BY <1>1, SavedType DEF SaveNames, IndInv, TypeOK
  <1>4. /\ saved_cmdlines' = [saved_cmdlines EXCEPT ![s] = NamesOf(p)]
        /\ last' = [last EXCEPT ![p] = [names |-> NamesOf(p), pids |-> AncestorsOf(p)]]
    BY DEF SaveNames
  <1>5. TypeOK'
    BY <1>1, <1>2, <1>3, <1>4, NamesType DEF IndInv, TypeOK, tasks, maps, Slot
  <1>6. LockHeld' /\ MapsInverse'
    BY <1>1, ValueAssumption DEF IndInv, LockHeld, MapsInverse, maps, Slot
  <1>7. OwnNames'
    <2> SUFFICES ASSUME NEW q \in Held, map_pid_to_cmdline[q] # NoMap
                 PROVE  /\ last'[q] # NoMap
                        /\ saved_cmdlines'[map_pid_to_cmdline[q]] = last'[q].names
      BY <1>1 DEF OwnNames, maps
    <2>1. CASE q = p
      BY <2>1, <1>2, <1>4, ValueAssumption, NamesType DEF IndInv, TypeOK
    <2>2. CASE q # p
      <3>1. ~BeingNamed(q)
        BY <2>2, <1>1 DEF BeingNamed, Saving
      <3>2. map_pid_to_cmdline[q] # s
        BY <2>2, <1>2 DEF IndInv, MapsInverse, TypeOK
      <3>3. last'[q] = last[q] /\ saved_cmdlines'[map_pid_to_cmdline[q]]
                                    = saved_cmdlines[map_pid_to_cmdline[q]]
        BY <2>2, <3>2, <1>2, <1>4 DEF IndInv, TypeOK
      <3>4. QED
        BY <3>1, <3>3 DEF IndInv, OwnNames
    <2>3. QED
      BY <2>1, <2>2
  <1>8. QED
    BY <1>5, <1>6, <1>7 DEF IndInv

LEMMA RecordEndInv == ASSUME IndInv, NEW c \in Cpu, RecordEnd(c) PROVE IndInv'
  <1>1. lock # c /\ UNCHANGED <<tasks, ring, lock, last>>
    BY DEF IndInv, LockHeld, RecordEnd
  <1>2. work' \in [Cpu -> Work] /\ \A d \in Cpu \ {c} : work'[d] = work[d]
    BY DEF IndInv, TypeOK, RecordEnd, Idle, Work
  <1>3. trace_taskinfo_save' \in [Cpu -> BOOLEAN]
    BY DEF IndInv, TypeOK, RecordEnd
  <1>4. QED
    BY <1>1, <1>2, <1>3, RecorderInv

LEMMA FindInv == ASSUME IndInv, FindLock \/ FindUnlock PROVE IndInv'
  <1>1. /\ lock \in {Free, Reader} /\ lock' \in {Free, Reader}
        /\ UNCHANGED <<tasks, ring, work, trace_taskinfo_save, last>>
    BY DEF FindLock, FindUnlock
  <1>2. TypeOK'
    BY <1>1 DEF IndInv, TypeOK, tasks, ring, maps, Slot
  <1>3. LockHeld' /\ MapsInverse'
    BY <1>1, ValueAssumption DEF IndInv, LockHeld, MapsInverse, ring, maps, Slot
  <1>4. \A p \in Held : ~BeingNamed(p) /\ ~BeingNamed(p)'
    BY <1>1, ValueAssumption DEF BeingNamed
  <1>5. OwnNames'
    BY <1>1, <1>4 DEF IndInv, OwnNames, ring, maps
  <1>6. QED
    BY <1>2, <1>3, <1>5 DEF IndInv

LEMMA ResizeInv == ASSUME IndInv, NEW n \in 1 .. MaxNum, Resize(n) PROVE IndInv'
  <1>1. TypeOK'
    BY NumAssumption DEF IndInv, TypeOK, Resize, Slot, EmptyMap, FirstIdx, tasks
  <1>2. LockHeld'
    BY ValueAssumption DEF IndInv, LockHeld, Resize, MayReplace
  <1>3. MapsInverse' /\ OwnNames'
    BY DEF MapsInverse, OwnNames, Resize, EmptyMap, Slot
  <1>4. QED
    BY <1>1, <1>2, <1>3 DEF IndInv

LEMMA StepInv == IndInv /\ [Next]_vars => IndInv'
  <1> SUFFICES ASSUME IndInv, [Next]_vars PROVE IndInv'
    OBVIOUS
  <1>1. CASE TaskStep
    BY <1>1, TaskStepInv
  <1>2. ASSUME NEW c \in Cpu, Record(c) PROVE IndInv'
    BY <1>2, CommitEventInv, RecordBeginInv, SaveSkipInv, SaveBindInv,
       SaveNamesInv, RecordEndInv DEF Record
  <1>3. CASE FindLock \/ FindUnlock
    BY <1>3, FindInv
  <1>4. ASSUME NEW n \in 1 .. MaxNum, Resize(n) PROVE IndInv'
    BY <1>4, ResizeInv
  <1>5. CASE UNCHANGED vars
    <2>1. TypeOK'
      BY <1>5 DEF IndInv, TypeOK, vars, tasks, ring, maps, Slot
    <2>2. QED
      BY <2>1, <1>5, RingUnchanged DEF IndInv, vars
  <1>6. QED
    BY <1>1, <1>2, <1>3, <1>4, <1>5 DEF Next

LEMMA Invariance == Spec => []IndInv
  BY InitInv, StepInv, PTL DEF Spec

(* The variables of the recorders and of the ring always have their types:   *)
(* no index leaves the ring, whatever sizes it takes.                        *)
THEOREM TypeCorrect == Spec => []TypeOK
  <1>1. IndInv => TypeOK
    BY DEF IndInv
  <1>2. QED
    BY <1>1, Invariance, PTL

(* A pid owns a slot exactly when the slot names the pid, through every      *)
(* eviction and every resize.                                                *)
THEOREM MapsCorrect == Spec => []MapsInverse
  <1>1. IndInv => MapsInverse
    BY DEF IndInv
  <1>2. QED
    BY <1>1, Invariance, PTL

(* No slot shows the names of another pid: what trace_save_cmdline's comment *)
(* on eviction promises, for any number of CPUs that record at once.         *)
THEOREM NamesCorrect == Spec => []OwnNames
  <1>1. IndInv => OwnNames
    BY DEF IndInv
  <1>2. QED
    BY <1>1, Invariance, PTL

(* A lookup under the lock finds the names of the task's own last save.      *)
THEOREM LookupCorrect == Spec => []LookupOwn
  <1>1. IndInv => LookupOwn
    <2> SUFFICES ASSUME IndInv, lock = Reader, NEW p \in Held, Find(p) # Unknown
                 PROVE  /\ last[p] # NoMap
                        /\ Find(p).comm = last[p].names.comm
                        /\ Find(p).p_comm = last[p].names.p_comm
      BY DEF LookupOwn
    <2>1. ~BeingNamed(p)
      BY ValueAssumption DEF BeingNamed
    <2>2. p # 0 /\ ~(p > PID_MAX) /\ map_pid_to_cmdline[p] # NoMap
      BY PidAssumption DEF Find, Held
    <2>3. last[p] # NoMap /\ saved_cmdlines[map_pid_to_cmdline[p]] = last[p].names
      BY <2>1, <2>2 DEF IndInv, OwnNames
    <2>4. QED
      BY <2>2, <2>3 DEF Find
  <1>2. QED
    BY <1>1, Invariance, PTL

(* Appending to the history, with its oldest entry dropped when it is full,  *)
(* moves every entry one place back from the end.                            *)
LEMMA AppendBounded ==
    ASSUME NEW seq \in Seq(Held), NEW p \in Held,
           NEW kept, kept = (IF Len(seq) < MaxNum THEN seq ELSE Tail(seq)),
           NEW k \in Nat, k < Len(Append(kept, p))
    PROVE  /\ k = 0 => Append(kept, p)[Len(Append(kept, p)) - k] = p
           /\ k > 0 => /\ k - 1 < Len(seq)
                       /\ Append(kept, p)[Len(Append(kept, p)) - k] = seq[Len(seq) - (k - 1)]
  <1>1. CASE Len(seq) < MaxNum
    BY <1>1
  <1>2. CASE ~(Len(seq) < MaxNum)
    <2>1. seq # << >> /\ Tail(seq) \in Seq(Held) /\ Len(Tail(seq)) = Len(seq) - 1
      BY <1>2, NumAssumption, PidAssumption
    <2>2. \A i \in 1 .. Len(seq) - 1 : Tail(seq)[i] = seq[i + 1]
      BY <2>1
    <2>3. /\ kept = Tail(seq) /\ Len(Append(kept, p)) = Len(seq)
          /\ Append(kept, p)[Len(seq)] = p
          /\ \A i \in 1 .. Len(seq) - 1 : Append(kept, p)[i] = kept[i]
      BY <1>2, <2>1
    <2>4. k > 0 => Len(seq) - k \in 1 .. Len(seq) - 1 /\ Len(seq) - k + 1 = Len(seq) - (k - 1)
      BY <2>3
    <2>5. QED
      BY <2>2, <2>3, <2>4
  <1>3. QED
    BY <1>1, <1>2

(* Walking back around a ring of n slots, one step more from the next slot.  *)
LEMMA RingWalk ==
    ASSUME NEW n \in Nat \ {0}, NEW i \in 0 .. n - 1, NEW k \in 1 .. n - 1
    PROVE  /\ (((i + 1) % n) - k) % n = (i - (k - 1)) % n
           /\ (i - (k - 1)) % n # (i + 1) % n
           /\ ((i + 1) % n) % n = (i + 1) % n
  <1>1. (i + 1) % n = IF i + 1 = n THEN 0 ELSE i + 1
    OBVIOUS
  <1>2. (i - (k - 1)) % n = IF k - 1 <= i THEN i - (k - 1) ELSE i - (k - 1) + n
    OBVIOUS
  <1>3. CASE i + 1 = n
    <2>1. (0 - k) % n = n - k
      OBVIOUS
    <2>2. QED
      BY <1>1, <1>2, <1>3, <2>1
  <1>4. CASE i + 1 # n
    <2>1. ((i + 1) - k) % n = IF k <= i + 1 THEN i + 1 - k ELSE i + 1 - k + n
      BY <1>4
    <2>2. QED
      BY <1>1, <1>2, <1>4, <2>1
  <1>5. QED
    BY <1>3, <1>4

LEMMA RecentStep == IndInv /\ RecentKept /\ [Next]_vars => RecentKept'
  <1> SUFFICES ASSUME IndInv, RecentKept, [Next]_vars PROVE RecentKept'
    OBVIOUS
  <1>1. CASE UNCHANGED <<maps, recent>>
    BY <1>1 DEF RecentKept, maps
  <1>2. ASSUME NEW n \in 1 .. MaxNum, Resize(n) PROVE RecentKept'
    BY <1>2 DEF Resize, RecentKept
  <1>3. ASSUME NEW c \in Cpu, NEW p \in Pid, SaveBind(c, p), map_pid_to_cmdline[p] = NoMap
        PROVE  RecentKept'
    <2> DEFINE kept == IF Len(recent) < MaxNum THEN recent ELSE Tail(recent)
    <2>1. /\ p \in Held /\ recent \in Seq(Held) /\ cmdline_num \in Nat \ {0}
          /\ cmdline_idx \in 0 .. cmdline_num - 1
      BY <1>3, NumAssumption, PidAssumption DEF SaveBind, IndInv, TypeOK, Slot
    <2>2. /\ cmdline_num' = cmdline_num /\ cmdline_idx' = NextSlot
          /\ map_pid_to_cmdline' = Bound(p, NextSlot)
          /\ recent' = Append(kept, p)
      BY <1>3 DEF SaveBind
    <2> HIDE DEF kept
    <2> SUFFICES ASSUME NEW k \in 0 .. cmdline_num - 1, k < Len(recent')
                 PROVE  map_pid_to_cmdline'[recent'[Len(recent') - k]]
                          = (NextSlot - k) % cmdline_num
      BY <2>2 DEF RecentKept
    <2>3. CASE k = 0
      <3>1. recent'[Len(recent') - k] = p
        BY <2>1, <2>2, <2>3, AppendBounded DEF kept
      <3>2. (NextSlot - k) % cmdline_num = NextSlot
        BY <2>1, <2>3 DEF NextSlot
      <3>3. QED
        BY <3>1, <3>2, <2>1, <2>2 DEF Bound
    <2>4. CASE k > 0
      <3> DEFINE q == recent[Len(recent) - (k - 1)]
      <3>1. k - 1 < Len(recent) /\ recent'[Len(recent') - k] = q
        BY <2>1, <2>2, <2>4, AppendBounded DEF kept
      <3>2. q \in Held
        BY <3>1, <2>1, <2>4
      <3>3. map_pid_to_cmdline[q] = (cmdline_idx - (k - 1)) % cmdline_num
        BY <3>1, <2>1, <2>4 DEF RecentKept
      <3>4. /\ (NextSlot - k) % cmdline_num = (cmdline_idx - (k - 1)) % cmdline_num
            /\ (cmdline_idx - (k - 1)) % cmdline_num # NextSlot
        <4>1. k \in 1 .. cmdline_num - 1
          BY <2>1, <2>4
        <4>2. QED
          BY <4>1, <2>1, RingWalk DEF NextSlot
      <3> HIDE DEF q
      <3>5. map_pid_to_cmdline[q] \in Slot /\ map_pid_to_cmdline[q] # NextSlot
        BY <3>3, <3>4, <2>1 DEF Slot
      <3>6. q # p
        BY <3>5, <1>3, ValueAssumption DEF Slot
      <3>7. q # map_cmdline_to_pid[NextSlot]
        <4>1. NextSlot \in Slot
          BY NextSlotType DEF IndInv, TypeOK
        <4>2. q # NoMap
          BY <3>2, ValueAssumption DEF Held
        <4>3. QED
          BY <4>1, <4>2, <3>5 DEF IndInv, MapsInverse
      <3>8. map_pid_to_cmdline'[q] = map_pid_to_cmdline[q]
        BY <3>2, <3>6, <3>7, <2>2 DEF Bound
      <3>9. QED
        BY <3>1, <3>3, <3>4, <3>8
    <2>5. QED
      BY <2>3, <2>4
  <1>4. QED
    <2>1. CASE TaskStep
      BY <2>1, <1>1 DEF TaskStep, Fork, Exec, Exit, ring
    <2>2. ASSUME NEW c \in Cpu, Record(c) PROVE RecentKept'
      BY <2>2, <1>1, <1>3 DEF Record, CommitEvent, RecordBegin, SaveSkip, SaveBind,
         SaveNames, RecordEnd, ring
    <2>3. CASE FindLock \/ FindUnlock \/ UNCHANGED vars
      BY <2>3, <1>1 DEF FindLock, FindUnlock, ring, vars
    <2>4. QED
      BY <2>1, <2>2, <2>3, <1>2 DEF Next

(* The ring forgets the pid bound longest ago and no other: the last         *)
(* cmdline_num pids bound keep consecutive slots back from cmdline_idx.      *)
THEOREM RecentCorrect == Spec => []RecentKept
  <1>1. Init => RecentKept
    BY DEF Init, RecentKept
  <1>2. QED
    BY <1>1, RecentStep, Invariance, PTL DEF Spec

-----------------------------------------------------------------------------
(* Retries.                                                                  *)

(* While no save of a recording has failed, what is not saved is still on    *)
(* the recorder's list.                                                      *)
Listed(ts) == {ts[i] : i \in DOMAIN ts}
Unsaved == \A c \in Cpu : work[c].on /\ work[c].done => work[c].unsaved \subseteq Listed(work[c].todo)

(* Only the head leaves a list when its tail is taken.                       *)
LEMMA TailLists ==
    ASSUME NEW ts \in Seq(Pid), ts # << >>
    PROVE  Listed(ts) \ {Head(ts)} \subseteq Listed(Tail(ts))
  <1>1. ASSUME NEW q \in Listed(ts), q # Head(ts) PROVE q \in Listed(Tail(ts))
    <2>1. PICK i \in 1 .. Len(ts) : q = ts[i]
      BY <1>1 DEF Listed
    <2>2. i # 1
      BY <1>1, <2>1
    <2>3. i - 1 \in 1 .. Len(Tail(ts)) /\ Tail(ts)[i - 1] = q
      BY <2>1, <2>2
    <2>4. DOMAIN Tail(ts) = 1 .. Len(Tail(ts))
      OBVIOUS
    <2>5. QED
      BY <2>3, <2>4 DEF Listed
  <1>2. QED
    BY <1>1

LEMMA SavedLists ==
    ASSUME TypeOK, Unsaved, NEW c \in Cpu, NEW p \in Pid, NEW ok \in BOOLEAN,
           Saving(c, p), work' = Saved(c, p, ok)
    PROVE  Unsaved'
  <1>1. work[c] \in Work /\ work[c].todo \in Seq(Pid) /\ work[c].todo # << >>
        /\ work[c].on /\ Head(work[c].todo) = p
    BY DEF TypeOK, Work, Saving
  <1>2. \A d \in Cpu \ {c} : work'[d] = work[d]
    BY DEF Saved, TypeOK
  <1>3. work'[c] = [on |-> TRUE, todo |-> Tail(work[c].todo), done |-> work[c].done /\ ok,
                    unsaved |-> IF ok THEN work[c].unsaved \ {p} ELSE work[c].unsaved]
    BY DEF Saved, TypeOK
  <1>4. ASSUME work'[c].done PROVE work'[c].unsaved \subseteq Listed(work'[c].todo)
    <2>1. work[c].done /\ ok
      <3>1. work'[c].done = (work[c].done /\ ok)
        BY <1>3
      <3>2. QED
        BY <1>4, <3>1, Zenon
    <2>2. work[c].unsaved \subseteq Listed(work[c].todo)
      BY <1>1, <2>1 DEF Unsaved
    <2>3. work'[c].unsaved = work[c].unsaved \ {p} /\ work'[c].todo = Tail(work[c].todo)
      BY <1>3, <2>1
    <2>4. Listed(work[c].todo) \ {p} \subseteq Listed(Tail(work[c].todo))
      BY <1>1, TailLists
    <2>5. QED
      BY <2>2, <2>3, <2>4
  <1>5. QED
    BY <1>2, <1>4 DEF Unsaved

LEMMA UnsavedStep == IndInv /\ Unsaved /\ [Next]_vars => Unsaved'
  <1> SUFFICES ASSUME IndInv, Unsaved, [Next]_vars PROVE Unsaved'
    OBVIOUS
  <1>1. CASE work' = work
    BY <1>1 DEF Unsaved
  <1>2. ASSUME NEW c \in Cpu, Record(c) PROVE Unsaved'
    <2>1. ASSUME NEW ts \in Switched, RecordBegin(c, ts) PROVE Unsaved'
      <3>1. /\ work'[c] = [on |-> TRUE, todo |-> ts, done |-> TRUE, unsaved |-> Listed(ts)]
            /\ \A d \in Cpu \ {c} : work'[d] = work[d]
        BY <2>1 DEF RecordBegin, Listed, IndInv, TypeOK
      <3>2. QED
        BY <3>1 DEF Unsaved
    <2>2. ASSUME NEW p \in Pid, SaveSkip(c, p) \/ SaveNames(c, p) PROVE Unsaved'
      <3>1. Saving(c, p) /\ \E ok \in BOOLEAN : work' = Saved(c, p, ok)
        BY <2>2 DEF SaveSkip, SaveNames
      <3>2. QED
        BY <3>1, SavedLists DEF IndInv
    <2>3. CASE RecordEnd(c)
      <3>1. work'[c] = Idle /\ \A d \in Cpu \ {c} : work'[d] = work[d]
        BY <2>3 DEF RecordEnd, IndInv, TypeOK
      <3>2. QED
        BY <3>1 DEF Unsaved, Idle
    <2>4. QED
      BY <1>1, <1>2, <2>1, <2>2, <2>3 DEF Record, CommitEvent, SaveBind
  <1>3. QED
    BY <1>1, <1>2
    DEF Next, TaskStep, Fork, Exec, Exit, FindLock, FindUnlock, Resize, vars

(* tracing_record_taskinfo, tracing_record_taskinfo_sched_switch: the flag   *)
(* that asks for recordings is cleared only when every task of the recording *)
(* was saved, whoever held the lock meanwhile.                               *)
THEOREM RetryCorrect == Spec => RetryUntilSaved
  <1>1. Init => Unsaved
    BY DEF Init, Unsaved, Idle
  <1>2. IndInv /\ Unsaved /\ [Next]_vars =>
          [\A c \in Cpu : trace_taskinfo_save[c] /\ ~trace_taskinfo_save'[c] =>
              work[c].unsaved = {}]_vars
    <2> SUFFICES ASSUME IndInv, Unsaved, Next, NEW c \in Cpu,
                        trace_taskinfo_save[c], ~trace_taskinfo_save'[c]
                 PROVE  work[c].unsaved = {}
      OBVIOUS
    <2>1. PICK d \in Cpu : CommitEvent(d) \/ RecordEnd(d)
      BY DEF Next, TaskStep, Fork, Exec, Exit, FindLock, FindUnlock, Resize, Record,
             RecordBegin, SaveSkip, SaveBind, SaveNames
    <2>2. RecordEnd(c)
      BY <2>1 DEF CommitEvent, RecordEnd, IndInv, TypeOK
    <2>3. work[c].on /\ work[c].todo = << >> /\ work[c].done
      <3>1. work[c].on /\ work[c].todo = << >>
            /\ trace_taskinfo_save'[c] = (trace_taskinfo_save[c] /\ ~work[c].done)
        BY <2>2 DEF RecordEnd, IndInv, TypeOK
      <3>2. QED
        BY <3>1
    <2>4. QED
      BY <2>3 DEF Unsaved, Listed
  <1>3. QED
    BY <1>1, <1>2, UnsavedStep, Invariance, PTL DEF Spec, RetryUntilSaved

-----------------------------------------------------------------------------
(* The listing.                                                              *)

(* The number of occupied slots in front of s: the position of s in a chunk. *)
Rank(s) == Cardinality({t \in Occupied : t < s})

(* An entry that stayed bound was printed or is still ahead.  Between two    *)
(* chunks "ahead" is told by the rank, which can only grow while nothing is  *)
(* resized; inside a chunk by the slot, and the lock keeps the ring still.   *)
Ahead ==
    /\ reader.at = "between" => \A e \in stay : e \in reader.shown \/ Rank(e[1]) >= reader.pos
    /\ reader.at \in {"none", "eof"} => stay \subseteq reader.shown
    /\ reader.at \in {"first", "more"} =>
         IF reader.ptr = NoSlot THEN stay \subseteq reader.shown
         ELSE /\ reader.ptr \in Occupied /\ Rank(reader.ptr) = reader.pos
              /\ \A e \in stay : e \in reader.shown \/ e[1] >= reader.ptr

ReaderType ==
    /\ reader \in [at: {"closed", "between", "none", "first", "more", "eof"}, pos: Nat,
                   ptr: Nat \cup {NoSlot}, shown: SUBSET (Nat \X Held)]
    /\ InChunk => lock = Reader
    /\ reader.at = "none" => reader.ptr = NoSlot

SeqInv == IndInv /\ ReaderType /\ stay \subseteq Bindings /\ Ahead

(* A finite set of numbers has an element of every rank below its size.      *)
LEMMA OfRank ==
    ASSUME NEW S \in SUBSET Nat, IsFiniteSet(S), NEW k \in Nat, k < Cardinality(S)
    PROVE  \E s \in S : Cardinality({t \in S : t < s}) = k
  <1> DEFINE n == Cardinality(S)
             before(s) == {t \in S : t < s}
             f == [s \in S |-> Cardinality(before(s))]
  <1>1. n \in Nat /\ n - 1 \in Nat
    BY FS_CardinalityType
  <1>2. ASSUME NEW s \in S
        PROVE  IsFiniteSet(before(s)) /\ Cardinality(before(s)) \in Nat
    BY FS_Subset, FS_CardinalityType
  <1>3. ASSUME NEW s \in S PROVE Cardinality(before(s)) \in 0 .. n - 1
    <2>1. IsFiniteSet(S \ {s}) /\ Cardinality(S \ {s}) = n - 1
      BY FS_RemoveElement
    <2>2. before(s) \subseteq S \ {s}
      OBVIOUS
    <2>3. Cardinality(before(s)) <= n - 1
      BY <2>1, <2>2, FS_Subset
    <2>4. QED
      BY <1>1, <1>2, <2>3
  <1>4. ASSUME NEW s \in S, NEW u \in S, s < u PROVE Cardinality(before(s)) # Cardinality(before(u))
    <2>1. Cardinality(before(s) \cup {s}) = Cardinality(before(s)) + 1
      BY <1>2, FS_AddElement
    <2>2. before(s) \cup {s} \subseteq before(u)
      <3>1. \A t \in S : t < s => t < u
        BY <1>4
      <3>2. QED
        BY <1>4, <3>1
    <2>3. Cardinality(before(s) \cup {s}) <= Cardinality(before(u))
      BY <1>2, <2>2, FS_Subset
    <2>4. QED
      BY <1>2, <2>1, <2>3
  <1> HIDE DEF before, n
  <1>5. f \in [S -> 0 .. n - 1]
    BY <1>3
  <1>6. \A s, u \in S : f[s] = f[u] => s = u
    <2>1. \A s, u \in S : s = u \/ s < u \/ u < s
      OBVIOUS
    <2>2. QED
      BY <2>1, <1>4
  <1>7. f \in Injection(S, 0 .. n - 1)
    BY <1>5, <1>6 DEF Injection, IsInjective
  <1>8. IsFiniteSet(0 .. n - 1) /\ Cardinality(0 .. n - 1) = n
    BY <1>1, FS_Interval
  <1> HIDE DEF f
  <1>9. f \in Surjection(S, 0 .. n - 1)
    BY <1>7, <1>8, FS_Injection DEF n
  <1>10. k \in 0 .. n - 1
    BY <1>1 DEF n
  <1>11. PICK s \in S : f[s] = k
    BY <1>9, <1>10 DEF Surjection
  <1>12. QED
    BY <1>11 DEF f, before

LEMMA SlotsFinite ==
    ASSUME TypeOK
    PROVE  /\ Slot \subseteq Nat /\ IsFiniteSet(Slot)
           /\ Occupied \subseteq Slot /\ IsFiniteSet(Occupied) /\ Cardinality(Occupied) \in Nat
           /\ From(0) = Occupied
           /\ \A s : From(s) \subseteq Occupied /\ IsFiniteSet(From(s))
           /\ \A s : Rank(s) \in Nat /\ Rank(s) <= Cardinality(Occupied)
  <1>1. cmdline_num \in Nat \ {0}
    BY NumAssumption DEF TypeOK
  <1>2. Slot \subseteq Nat /\ IsFiniteSet(Slot)
    BY <1>1, FS_Interval DEF Slot
  <1>3. Occupied \subseteq Slot /\ IsFiniteSet(Occupied)
    BY <1>2, FS_Subset DEF Occupied
  <1>4. Cardinality(Occupied) \in Nat
    BY <1>3, FS_CardinalityType
  <1>5. From(0) = Occupied
    <2>1. \A t \in Occupied : t \in Nat /\ t >= 0
      BY <1>2, <1>3
    <2>2. QED
      BY <2>1 DEF From
  <1>6. ASSUME NEW s PROVE From(s) \subseteq Occupied /\ IsFiniteSet(From(s))
    <2>1. From(s) \subseteq Occupied
      BY DEF From
    <2>2. QED
      BY <1>3, <2>1, FS_Subset
  <1>7. ASSUME NEW s PROVE Rank(s) \in Nat /\ Rank(s) <= Cardinality(Occupied)
    <2>1. {t \in Occupied : t < s} \in SUBSET Occupied
      OBVIOUS
    <2>2. QED
      BY <1>3, <2>1, FS_Subset, FS_CardinalityType DEF Rank
  <1>8. QED
    BY <1>2, <1>3, <1>4, <1>5, <1>6, <1>7

(* The ranks of occupied slots: below their number, in the slots' order.     *)
LEMMA RankOrder ==
    ASSUME TypeOK, NEW s \in Occupied
    PROVE  /\ Rank(s) < Cardinality(Occupied)
           /\ \A t \in Nat : t <= s => Rank(t) <= Rank(s)
  <1>0. Slot \subseteq Nat /\ Occupied \subseteq Slot /\ IsFiniteSet(Occupied) /\ Cardinality(Occupied) \in Nat
    BY SlotsFinite
  <1>1. IsFiniteSet(Occupied \ {s}) /\ Cardinality(Occupied \ {s}) = Cardinality(Occupied) - 1
    BY <1>0, FS_RemoveElement
  <1>a. \A t \in Occupied : t \in Nat
    BY <1>0
  <1>2. {t \in Occupied : t < s} \in SUBSET (Occupied \ {s})
    BY <1>a
  <1>b. Cardinality({t \in Occupied : t < s}) <= Cardinality(Occupied \ {s})
    BY <1>1, <1>2, FS_Subset
  <1>3. Rank(s) <= Cardinality(Occupied) - 1 /\ Rank(s) \in Nat
    BY <1>1, <1>b, SlotsFinite DEF Rank
  <1>4. ASSUME NEW t \in Nat, t <= s PROVE Rank(t) <= Rank(s)
    <2>1. {x \in Occupied : x < t} \in SUBSET {x \in Occupied : x < s}
      <3>1. \A x \in Occupied : x < t => x < s
        BY <1>a, <1>4
      <3>2. QED
        BY <3>1
    <2>2. IsFiniteSet({x \in Occupied : x < s})
      BY <1>0, FS_Subset
    <2>3. QED
      BY <2>1, <2>2, FS_Subset DEF Rank
  <1>5. QED
    BY <1>0, <1>3, <1>4

(* saved_cmdlines_next finds the next occupied slot, one rank further.       *)
LEMMA NextIs ==
    ASSUME TypeOK, NEW s \in Occupied
    PROVE  \/ NextOccupied(s + 1) = NoSlot /\ \A t \in Occupied : t <= s
           \/ /\ NextOccupied(s + 1) \in Occupied /\ Rank(NextOccupied(s + 1)) = Rank(s) + 1
              /\ \A t \in Occupied : t <= s \/ t >= NextOccupied(s + 1)
  <1>0. /\ Slot \subseteq Nat /\ Occupied \subseteq Slot /\ IsFiniteSet(Occupied) /\ Cardinality(Occupied) \in Nat
        /\ IsFiniteSet(From(s + 1)) /\ From(s + 1) \subseteq Nat
    BY SlotsFinite
  <1>1. CASE From(s + 1) = {}
    <2>1. NextOccupied(s + 1) = NoSlot
      BY <1>1 DEF NextOccupied
    <2>2. \A t \in Occupied : t <= s
      BY <1>0, <1>1 DEF From
    <2>3. QED
      BY <2>1, <2>2
  <1>2. CASE From(s + 1) # {}
    <2> DEFINE m == NextOccupied(s + 1)
               F == From(s + 1)
    <2>1. Cardinality(F) \in Nat /\ Cardinality(F) # 0
      BY <1>0, <1>2, FS_CardinalityType, FS_EmptySet
    <2>2. PICK u \in F : Cardinality({t \in F : t < u}) = 0
      <3> HIDE DEF F
      <3>1. 0 < Cardinality(F)
        BY <2>1
      <3>2. QED
        BY <1>0, <3>1, OfRank DEF F
    <2>3. \A t \in F : u <= t
      <3>1. IsFiniteSet({t \in F : t < u})
        BY <1>0, FS_Subset
      <3>2. {t \in F : t < u} = {}
        BY <2>2, <3>1, FS_EmptySet
      <3>3. QED
        BY <1>0, <2>2, <3>2
    <2>4. m \in F /\ \A t \in F : m <= t
      BY <1>2, <2>2, <2>3 DEF NextOccupied, Min
    <2> HIDE DEF m
    <2>5. m \in Occupied /\ m >= s + 1 /\ \A t \in Occupied : t <= s \/ t >= m
      BY <1>0, <2>4 DEF From
    <2>6. {t \in Occupied : t < m} = {t \in Occupied : t < s} \cup {s}
      <3>1. \A t \in Occupied : t \in Nat
        BY <1>0
      <3>2. \A t \in Occupied : t < m <=> t < s \/ t = s
        BY <2>5, <3>1
      <3>3. QED
        BY <3>2
    <2>7. Rank(m) = Rank(s) + 1
      <3>1. IsFiniteSet({t \in Occupied : t < s}) /\ s \notin {t \in Occupied : t < s}
        BY <1>0, FS_Subset
      <3>2. QED
        BY <2>6, <3>1, FS_AddElement DEF Rank
    <2>8. QED
      BY <2>5, <2>7 DEF m
  <1>3. QED
    BY <1>1, <1>2

(* saved_cmdlines_start walks to the slot of rank pos.                       *)
LEMMA StartIs ==
    ASSUME TypeOK, NEW pos \in Nat
    PROVE  \/ StartAt(pos) = NoSlot /\ \A s \in Occupied : Rank(s) < pos
           \/ StartAt(pos) \in Occupied /\ Rank(StartAt(pos)) = pos
  <1>0. /\ Slot \subseteq Nat /\ Occupied \subseteq Slot /\ IsFiniteSet(Occupied) /\ Cardinality(Occupied) \in Nat
        /\ From(0) = Occupied
    BY SlotsFinite
  <1>1. CASE pos >= Cardinality(Occupied)
    <2>1. StartAt(pos) = NoSlot
      BY <1>0, <1>1 DEF StartAt
    <2>2. \A s \in Occupied : Rank(s) < pos
      BY <1>0, <1>1, RankOrder, SlotsFinite
    <2>3. QED
      BY <2>1, <2>2
  <1>2. CASE ~ (pos >= Cardinality(Occupied))
    <2>1. PICK s \in Occupied : Cardinality({t \in Occupied : t < s}) = pos
      BY <1>0, <1>2, OfRank
    <2>2. StartAt(pos) = CHOOSE u \in Occupied : Cardinality({t \in Occupied : t < u}) = pos
      BY <1>0, <1>2 DEF StartAt
    <2>3. QED
      BY <2>1, <2>2 DEF Rank
  <1>3. QED
    BY <1>1, <1>2

(* A chunk: while the reader holds the lock only its walk moves.             *)
LEMMA ListInv ==
    ASSUME SeqInv, OpenList \/ ListStart \/ ListShow \/ ListStop \/ CloseList
    PROVE  ReaderType' /\ stay' \subseteq Bindings' /\ Ahead'
  <1>0. /\ TypeOK /\ ReaderType /\ stay \subseteq Bindings /\ Ahead
        /\ Slot \subseteq Nat /\ Occupied \subseteq Slot /\ \A t \in Occupied : t \in Nat
    BY SlotsFinite DEF SeqInv, IndInv
  <1>1. UNCHANGED <<map_cmdline_to_pid, cmdline_num>>
    BY DEF OpenList, ListStart, ListShow, ListStop, CloseList, FindLock, FindUnlock, vars, ring, maps
  <1>2. Occupied' = Occupied /\ Bindings' = Bindings
    BY <1>1 DEF Occupied, Bindings, Slot
  <1>3. \A s : Rank(s)' = Rank(s)
    BY <1>2 DEF Rank
  <1>4. \A e \in stay : e = <<e[1], e[2]>> /\ e[1] \in Occupied /\ e[2] = map_cmdline_to_pid[e[1]]
    BY <1>0 DEF Bindings
  <1>5. CASE OpenList
    <2>1. reader' = [Closed EXCEPT !.at = "between"] /\ stay' = Bindings
      BY <1>5 DEF OpenList
    <2>2. reader'.at = "between" /\ reader'.pos = 0 /\ ReaderType'
      BY <2>1 DEF Closed, ReaderType, InChunk
    <2>3. \A e \in stay' : Rank(e[1])' >= 0
      BY <1>0, <1>3, <2>1, SlotsFinite DEF Bindings
    <2>4. QED
      BY <1>2, <2>1, <2>2, <2>3 DEF Ahead
  <1>6. CASE ListStart
    <2>1. /\ reader.at = "between" /\ lock' = Reader /\ stay' = stay
          /\ reader' = [reader EXCEPT !.ptr = StartAt(reader.pos),
                            !.at = IF StartAt(reader.pos) = NoSlot THEN "none" ELSE "first"]
      BY <1>6 DEF ListStart, FindLock
    <2>2. StartAt(reader.pos) \in Nat \cup {NoSlot} /\ reader.pos \in Nat
      BY <1>0, StartIs DEF ReaderType
    <2>3. ReaderType'
      BY <1>0, <2>1, <2>2 DEF ReaderType, InChunk
    <2>4. \A e \in stay : e \in reader.shown \/ Rank(e[1]) >= reader.pos
      BY <1>0, <2>1 DEF Ahead
    <2>4a. \A t \in Occupied : t # NoSlot
      BY <1>0, SlotAssumption
    <2>4b. \A t \in Occupied : Rank(t) \in Nat
      BY SlotsFinite, <1>0
    <2>5. reader'.shown = reader.shown /\ reader'.pos = reader.pos /\ reader'.ptr = StartAt(reader.pos)
          /\ reader'.at = IF StartAt(reader.pos) = NoSlot THEN "none" ELSE "first"
      BY <1>0, <2>1 DEF ReaderType
    <2>6. CASE StartAt(reader.pos) = NoSlot
      <3>1. \A s \in Occupied : Rank(s) < reader.pos
        BY <1>0, <2>2, <2>4a, <2>6, StartIs
      <3>2. stay \subseteq reader.shown
        <4>1. ASSUME NEW e \in stay, e \notin reader.shown PROVE FALSE
          <5>1. Rank(e[1]) >= reader.pos
            BY <2>4, <4>1
          <5>2. e[1] \in Occupied
            BY <1>4
          <5>3. Rank(e[1]) < reader.pos /\ Rank(e[1]) \in Nat
            BY <2>4b, <3>1, <5>2
          <5>4. QED
            BY <2>2, <5>1, <5>3
        <4>2. QED
          BY <4>1
      <3>3. QED
        BY <1>0, <1>2, <2>1, <2>3, <2>5, <2>6, <3>2 DEF Ahead
    <2>7. CASE StartAt(reader.pos) # NoSlot
      <3> DEFINE s == StartAt(reader.pos)
      <3>1. s \in Occupied /\ Rank(s) = reader.pos
        BY <1>0, <2>2, <2>7, StartIs
      <3>2. ASSUME NEW e \in stay, ~ (e[1] >= s) PROVE e \in reader.shown
        <4>0. s \in Nat /\ e[1] \in Nat /\ \A t \in Occupied : t \in Nat
          BY <1>0, <1>4, <3>1
        <4>1. e[1] \in Occupied /\ e[1] < s
          BY <1>4, <3>2, <4>0
        <4>2. {t \in Occupied : t < s} = {t \in Occupied : t < e[1]} \cup {e[1]} \cup {t \in Occupied : e[1] < t /\ t < s}
          <5>1. \A t \in Occupied : t < s <=> t < e[1] \/ t = e[1] \/ (e[1] < t /\ t < s)
            BY <4>0, <4>1
          <5>2. QED
            BY <4>1, <5>1
        <4>3. Rank(e[1]) < Rank(s)
          <5>1. IsFiniteSet({t \in Occupied : t < e[1]}) /\ IsFiniteSet({t \in Occupied : t < s})
            BY <1>0, SlotsFinite, FS_Subset
          <5>2. e[1] \notin {t \in Occupied : t < e[1]}
            BY <4>0
          <5>3. Cardinality({t \in Occupied : t < e[1]} \cup {e[1]}) = Rank(e[1]) + 1
            BY <5>1, <5>2, FS_AddElement DEF Rank
          <5>4. Cardinality({t \in Occupied : t < e[1]} \cup {e[1]}) <= Rank(s)
            BY <4>2, <5>1, FS_Subset DEF Rank
          <5>5. QED
            BY <1>0, <5>3, <5>4, SlotsFinite
        <4>4. QED
          BY <1>0, <2>2, <2>4, <3>1, <4>3, SlotsFinite
      <3> HIDE DEF s
      <3>3. reader'.at = "first" /\ reader'.ptr = s
        BY <2>5, <2>7 DEF s
      <3>4. s # NoSlot
        BY <2>7 DEF s
      <3>5. QED
        BY <1>0, <1>2, <1>3, <2>1, <2>3, <2>5, <3>1, <3>2, <3>3, <3>4 DEF Ahead
    <2>8. QED
      BY <2>6, <2>7
  <1>7. CASE ListShow
    <2> DEFINE p == reader.ptr
               q == NextOccupied(p + 1)
    <2>1. /\ InChunk /\ p # NoSlot /\ stay' = stay /\ lock' = lock
          /\ reader' = [reader EXCEPT !.at = "more", !.pos = @ + 1, !.ptr = q,
                            !.shown = @ \cup {<<p, map_cmdline_to_pid[p]>>}]
      BY <1>7 DEF ListShow, vars
    <2>2. reader.at \in {"first", "more"}
      BY <1>0, <2>1 DEF InChunk, ReaderType
    <2>3. /\ p \in Occupied /\ Rank(p) = reader.pos
          /\ \A e \in stay : e \in reader.shown \/ e[1] >= p
      BY <1>0, <2>1, <2>2 DEF Ahead
    <2>4. \/ q = NoSlot /\ \A t \in Occupied : t <= p
          \/ /\ q \in Occupied /\ Rank(q) = Rank(p) + 1
             /\ \A t \in Occupied : t <= p \/ t >= q
      BY <1>0, <2>3, NextIs
    <2>5. <<p, map_cmdline_to_pid[p]>> \in Nat \X Held
      BY <1>0, <2>3 DEF Occupied, TypeOK
    <2> HIDE DEF q, p
    <2>6. /\ reader'.at = "more" /\ reader'.pos = reader.pos + 1 /\ reader'.ptr = q
          /\ reader'.shown = reader.shown \cup {<<p, map_cmdline_to_pid[p]>>}
      BY <1>0, <2>1 DEF ReaderType
    <2>7. ReaderType'
      <3>1. q \in Nat \cup {NoSlot}
        BY <1>0, <2>4
      <3>2. reader.shown \in SUBSET (Nat \X Held) /\ reader.pos \in Nat
        BY <1>0 DEF ReaderType
      <3>3. reader.shown \cup {<<p, map_cmdline_to_pid[p]>>} \in SUBSET (Nat \X Held)
        BY <2>5, <3>2
      <3>4. lock = Reader
        BY <1>0, <2>1 DEF ReaderType
      <3>5. reader' \in [at: {"closed", "between", "none", "first", "more", "eof"}, pos: Nat,
                         ptr: Nat \cup {NoSlot}, shown: SUBSET (Nat \X Held)]
        <4> DEFINE sh == reader.shown \cup {<<p, map_cmdline_to_pid[p]>>}
                   po == reader.pos + 1
        <4>1. sh \in SUBSET (Nat \X Held) /\ po \in Nat
          BY <3>2, <3>3
        <4>2. reader' = [reader EXCEPT !.at = "more", !.pos = po, !.ptr = q, !.shown = sh]
          BY <2>1
        <4>3. reader \in [at: {"closed", "between", "none", "first", "more", "eof"}, pos: Nat,
                          ptr: Nat \cup {NoSlot}, shown: SUBSET (Nat \X Held)]
          BY <1>0 DEF ReaderType
        <4> HIDE DEF sh, po
        <4>4. QED
          BY <3>1, <4>1, <4>2, <4>3
      <3>6. QED
        BY <2>1, <2>6, <3>4, <3>5 DEF ReaderType
    <2>8. ASSUME NEW e \in stay, e[1] = p PROVE e \in reader'.shown
      BY <1>4, <2>6, <2>8
    <2>9. \A e \in stay : e \in reader'.shown \/ e[1] > p
      BY <1>0, <1>4, <2>3, <2>6, <2>8
    <2>10. CASE q = NoSlot /\ \A t \in Occupied : t <= p
      <3>1. stay \subseteq reader'.shown
        BY <1>0, <1>4, <2>3, <2>9, <2>10
      <3>2. QED
        BY <1>0, <1>2, <2>1, <2>6, <2>7, <2>10, <3>1 DEF Ahead
    <2>11. CASE /\ q \in Occupied /\ Rank(q) = Rank(p) + 1
                /\ \A t \in Occupied : t <= p \/ t >= q
      <3>1. \A e \in stay : e \in reader'.shown \/ e[1] >= q
        BY <1>0, <1>4, <2>3, <2>9, <2>11
      <3>2. q # NoSlot
        BY <1>0, <2>11, SlotAssumption
      <3>3. QED
        BY <1>0, <1>2, <1>3, <2>1, <2>3, <2>6, <2>7, <2>11, <3>1, <3>2 DEF Ahead
    <2>12. QED
      BY <2>4, <2>10, <2>11
  <1>8. CASE ListStop
    <2>1. /\ reader.at \in {"none", "more"} /\ stay' = stay
          /\ reader' = [reader EXCEPT !.at = IF @ = "none" THEN "eof" ELSE "between", !.ptr = NoSlot]
      BY <1>8 DEF ListStop
    <2>2. /\ reader'.at = (IF reader.at = "none" THEN "eof" ELSE "between")
          /\ reader'.pos = reader.pos /\ reader'.shown = reader.shown
      BY <1>0, <2>1 DEF ReaderType
    <2>3. ReaderType'
      BY <1>0, <2>1 DEF ReaderType, InChunk
    <2>4. CASE reader.at = "none"
      BY <1>0, <1>2, <2>1, <2>2, <2>3, <2>4 DEF Ahead
    <2>5. CASE reader.at = "more"
      <3>1. \A e \in stay : e \in reader.shown \/ Rank(e[1]) >= reader.pos
        <4>1. CASE reader.ptr = NoSlot
          BY <1>0, <2>5, <4>1 DEF Ahead
        <4>2. CASE reader.ptr # NoSlot
          <5>1. /\ reader.ptr \in Occupied /\ Rank(reader.ptr) = reader.pos
                /\ \A e \in stay : e \in reader.shown \/ e[1] >= reader.ptr
            BY <1>0, <2>5, <4>2 DEF Ahead
          <5>2. \A e \in stay : e[1] >= reader.ptr => Rank(e[1]) >= Rank(reader.ptr)
            <6>1. ASSUME NEW e \in stay, e[1] >= reader.ptr
                  PROVE  Rank(e[1]) >= Rank(reader.ptr)
              <7>1. e[1] \in Occupied /\ reader.ptr \in Nat /\ reader.ptr <= e[1]
                BY <1>0, <1>4, <5>1, <6>1
              <7>2. Rank(reader.ptr) <= Rank(e[1])
                BY <1>0, <7>1, RankOrder
              <7>3. QED
                BY <1>0, <7>2, SlotsFinite
            <6>2. QED
              BY <6>1
          <5>3. QED
            BY <5>1, <5>2
        <4>3. QED
          BY <4>1, <4>2
      <3>2. QED
        BY <1>0, <1>2, <1>3, <2>1, <2>2, <2>3, <2>5, <3>1 DEF Ahead
    <2>6. QED
      BY <2>1, <2>4, <2>5
  <1>9. CASE CloseList
    <2>1. reader' = Closed /\ stay' = {}
      BY <1>9 DEF CloseList
    <2>2. QED
      BY <2>1 DEF Closed, ReaderType, InChunk, Ahead
  <1>10. QED
    BY <1>5, <1>6, <1>7, <1>8, <1>9

(* Between two chunks slots are taken, never given up, unless the ring is    *)
(* replaced, and then nothing stays bound.                                   *)
LEMMA RingStepInv ==
    ASSUME SeqInv, RingStep, IndInv'
    PROVE  ReaderType' /\ stay' \subseteq Bindings' /\ Ahead'
  <1>0. /\ TypeOK /\ TypeOK' /\ ReaderType /\ stay \subseteq Bindings /\ Ahead
        /\ Slot \subseteq Nat /\ Occupied \subseteq Slot /\ \A t \in Occupied : t \in Nat
    BY SlotsFinite DEF SeqInv, IndInv
  <1>1. /\ reader' = reader
        /\ stay' = {e \in stay : e[1] < cmdline_num' /\ map_cmdline_to_pid'[e[1]] = e[2]}
    BY DEF RingStep
  <1>2. \A e \in stay : /\ e = <<e[1], e[2]>> /\ e[1] \in Occupied /\ e[1] \in Nat
                        /\ e[2] = map_cmdline_to_pid[e[1]] /\ e[2] # NoMap
    BY <1>0 DEF Bindings, Occupied
  <1>2a. IsFiniteSet(Occupied')
    <2>1. cmdline_num' \in Nat
      BY <1>0, NumAssumption DEF TypeOK
    <2>2. IsFiniteSet(0 .. cmdline_num' - 1)
      BY <2>1, FS_Interval
    <2>3. Occupied' \subseteq 0 .. cmdline_num' - 1
      BY DEF Occupied, Slot
    <2>4. QED
      BY <2>2, <2>3, FS_Subset
  <1>3. stay' \subseteq Bindings'
    <2>1. ASSUME NEW e \in stay' PROVE e \in Bindings'
      <3>1. /\ e = <<e[1], e[2]>> /\ e[1] \in Nat /\ e[1] < cmdline_num' /\ map_cmdline_to_pid'[e[1]] = e[2]
            /\ e[2] # NoMap
        BY <1>1, <1>2
      <3>2. cmdline_num' \in Nat
        BY <1>0, NumAssumption DEF TypeOK
      <3>3. e[1] \in Slot'
        BY <3>1, <3>2 DEF Slot
      <3>4. e[1] \in Occupied'
        BY <3>1, <3>3 DEF Occupied
      <3>5. QED
        BY <3>1, <3>4 DEF Bindings
    <2>2. QED
      BY <2>1
  <1>4. ASSUME UNCHANGED <<cmdline_num, map_cmdline_to_pid, lock>>
        PROVE  ReaderType' /\ Ahead'
    <2>1. Occupied' = Occupied
      BY <1>4 DEF Occupied, Slot
    <2>2. \A s : Rank(s)' = Rank(s)
      BY <2>1 DEF Rank
    <2>3. stay' \subseteq stay
      BY <1>1
    <2>4. ReaderType'
      BY <1>0, <1>1, <1>4 DEF ReaderType, InChunk
    <2>5. QED
      BY <1>0, <1>1, <2>1, <2>2, <2>3, <2>4 DEF Ahead
  <1>5. ASSUME lock = Free, Occupied \subseteq Occupied' \/ stay' = {}
        PROVE  ReaderType' /\ Ahead'
    <2>1. ~ InChunk
      BY <1>0, <1>5, ValueAssumption DEF ReaderType
    <2>2. ReaderType'
      BY <1>0, <1>1, <2>1 DEF ReaderType, InChunk
    <2>3. ASSUME NEW s, Occupied \subseteq Occupied' PROVE Rank(s)' >= Rank(s)
      <3>1. IsFiniteSet(Occupied')
        BY <1>2a
      <3>2. IsFiniteSet({t \in Occupied' : t < s})
        BY <3>1, FS_Subset
      <3>3. {t \in Occupied : t < s} \in SUBSET {t \in Occupied' : t < s}
        BY <2>3
      <3>4. Cardinality({t \in Occupied : t < s}) <= Cardinality({t \in Occupied' : t < s})
        BY <3>2, <3>3, FS_Subset
      <3>5. IsFiniteSet({t \in Occupied : t < s})
        BY <3>2, <3>3, FS_Subset
      <3>6. QED
        BY <3>2, <3>4, <3>5, FS_CardinalityType DEF Rank
    <2>4. reader.at = "between" => \A e \in stay' : e \in reader.shown \/ Rank(e[1])' >= reader.pos
      <3>1. CASE stay' = {}
        BY <3>1
      <3>2. CASE Occupied \subseteq Occupied'
        <4>1. ASSUME reader.at = "between", NEW e \in stay', e \notin reader.shown
              PROVE  Rank(e[1])' >= reader.pos
          <5>1. Rank(e[1]) >= reader.pos
            BY <1>0, <1>1, <4>1 DEF Ahead
          <5>2. Rank(e[1])' >= Rank(e[1])
            BY <2>3, <3>2
          <5>3. Rank(e[1]) \in Nat /\ reader.pos \in Nat
            BY <1>0, SlotsFinite DEF ReaderType
          <5>4. Rank(e[1])' \in Nat
            <6>1. IsFiniteSet({t \in Occupied' : t < e[1]})
              BY <1>2a, FS_Subset
            <6>2. QED
              BY <6>1, FS_CardinalityType DEF Rank
          <5>5. QED
            BY <5>1, <5>2, <5>3, <5>4
        <4>2. QED
          BY <4>1
      <3>3. QED
        BY <1>5, <3>1, <3>2
    <2>5. reader.at \notin {"none", "first", "more"}
      BY <2>1 DEF InChunk
    <2>6. QED
      BY <1>0, <1>1, <2>2, <2>4, <2>5 DEF Ahead
  <1>6. CASE TaskStep
    BY <1>3, <1>4, <1>6 DEF TaskStep, Fork, Exec, Exit, ring, maps
  <1>7. ASSUME NEW n \in 1 .. MaxNum, Resize(n) PROVE ReaderType' /\ Ahead'
    <2>1. lock = Free /\ map_cmdline_to_pid' = [s \in 0 .. n - 1 |-> NoMap] /\ cmdline_num' = n
      BY <1>7 DEF Resize, MayReplace
    <2>2. ASSUME NEW e \in stay' PROVE FALSE
      <3>1. e[1] \in Nat /\ e[1] < n /\ map_cmdline_to_pid'[e[1]] = e[2] /\ e[2] # NoMap
        BY <1>1, <1>2, <2>1, <2>2
      <3>2. e[1] \in 0 .. n - 1
        BY <3>1
      <3>3. QED
        BY <2>1, <3>1, <3>2
    <2>3. QED
      BY <1>5, <2>1, <2>2
  <1>8. ASSUME NEW c \in Cpu, Record(c) PROVE ReaderType' /\ Ahead'
    <2>1. ASSUME NEW p \in Pid, SaveBind(c, p) PROVE ReaderType' /\ Ahead'
      <3>1. lock = Free /\ cmdline_num' = cmdline_num
        BY <2>1 DEF SaveBind, maps
      <3>2. \/ map_cmdline_to_pid' = map_cmdline_to_pid
            \/ map_cmdline_to_pid' = [map_cmdline_to_pid EXCEPT ![NextSlot] = p]
        BY <2>1 DEF SaveBind, maps
      <3>3. p # NoMap
        BY <2>1, ValueAssumption DEF SaveBind, Held
      <3>4. Occupied \subseteq Occupied'
        BY <1>0, <3>1, <3>2, <3>3 DEF Occupied, Slot, TypeOK
      <3>5. QED
        BY <1>5, <3>1, <3>4
    <2>2. ASSUME NEW p \in Pid, SaveNames(c, p) PROVE ReaderType' /\ Ahead'
      <3>1. lock = c /\ lock' = Free /\ UNCHANGED <<cmdline_num, map_cmdline_to_pid>>
        BY <2>2 DEF SaveNames, maps
      <3>2. ~ InChunk
        BY <1>0, <3>1, ValueAssumption DEF ReaderType
      <3>3. Occupied' = Occupied
        BY <3>1 DEF Occupied, Slot
      <3>4. \A s : Rank(s)' = Rank(s)
        BY <3>3 DEF Rank
      <3>5. ReaderType'
        BY <1>0, <1>1, <3>2 DEF ReaderType, InChunk
      <3>6. QED
        BY <1>0, <1>1, <3>3, <3>4, <3>5 DEF Ahead
    <2>3. CASE UNCHANGED <<cmdline_num, map_cmdline_to_pid, lock>>
      BY <1>4, <2>3
    <2>4. QED
      BY <1>8, <2>1, <2>2, <2>3 DEF Record, CommitEvent, RecordBegin, SaveSkip, RecordEnd, ring, maps
  <1>9. QED
    BY <1>3, <1>6, <1>7, <1>8 DEF RingStep

(* The composed system is the ring with a reader beside it.                  *)
LEMMA SeqStep == [SeqNext]_seqVars => [Next]_vars
  <1>1. RingStep => Next
    BY DEF RingStep, Next
  <1>2. ListStart \/ ListStop => Next
    BY DEF ListStart, ListStop, Next
  <1>3. OpenList \/ ListShow \/ CloseList \/ UNCHANGED seqVars => UNCHANGED vars
    BY DEF OpenList, ListShow, CloseList, seqVars
  <1>4. QED
    BY <1>1, <1>2, <1>3 DEF SeqNext

LEMMA SeqInitInv == SeqInit => SeqInv
  <1> SUFFICES ASSUME SeqInit PROVE SeqInv
    OBVIOUS
  <1>1. IndInv
    BY InitInv DEF SeqInit
  <1>2. ReaderType /\ stay \subseteq Bindings /\ Ahead
    BY DEF SeqInit, Closed, ReaderType, InChunk, Ahead
  <1>3. QED
    BY <1>1, <1>2 DEF SeqInv

LEMMA SeqStepInv == SeqInv /\ [SeqNext]_seqVars => SeqInv'
  <1> SUFFICES ASSUME SeqInv, [SeqNext]_seqVars PROVE SeqInv'
    OBVIOUS
  <1>1. IndInv'
    BY SeqStep, StepInv DEF SeqInv
  <1>2. CASE SeqNext
    BY <1>1, <1>2, ListInv, RingStepInv DEF SeqNext, SeqInv
  <1>3. CASE UNCHANGED seqVars
    <2>1. UNCHANGED <<reader, stay, lock, cmdline_num, map_cmdline_to_pid>>
      BY <1>3 DEF seqVars, vars, ring, maps
    <2>2. Occupied' = Occupied /\ Bindings' = Bindings
      BY <2>1 DEF Occupied, Bindings, Slot
    <2>3. \A s : Rank(s)' = Rank(s)
      BY <2>2 DEF Rank
    <2>4. QED
      BY <1>1, <2>1, <2>2, <2>3 DEF SeqInv, ReaderType, InChunk, Ahead
  <1>4. QED
    BY <1>2, <1>3

(* The composition keeps what was proved of the ring alone.                  *)
THEOREM SeqImplements == SeqSpec => Spec
  BY SeqStep, PTL DEF SeqSpec, SeqInit, Spec

(* saved_cmdlines_start, _next, _show, _stop: a listing read to its end has  *)
(* printed every entry that stayed bound, for any size of ring and chunk and *)
(* whatever is recorded or resized between chunks.                           *)
THEOREM ListingCorrect == SeqSpec => []ListingComplete
  <1>1. SeqInv => ListingComplete
    BY DEF SeqInv, Ahead, ListingComplete
  <1>2. QED
    BY <1>1, SeqInitInv, SeqStepInv, PTL DEF SeqSpec
=============================================================================
