------------------------- MODULE TraceReadersProofs -------------------------
(***************************************************************************)
(* Proofs about TraceReaders for any readers, CPUs and sizes of a buffer:  *)
(* the locks leave each CPU to one reader, and where no splice of          *)
(* trace_pipe shares a CPU with another reader, the entry that is printed  *)
(* is the one that is consumed, so that the readers implement TraceQueue.  *)
(***************************************************************************)
EXTENDS TraceReaders, SequenceTheorems, WellFoundedInduction, TLAPS

SafeSpec == Init /\ [][Next]_vars

(* splice finds its entry before it has the lock: it needs its CPUs alone.   *)
FileCpus(f, r) == IF f[r].cpu = All THEN Cpu ELSE {f[r].cpu}
SpliceAlone == \A f \in OpenFiles : \A r, s \in Reader :
    r # s /\ f[r].call = "splice" => FileCpus(f, r) \cap FileCpus(f, s) = {}

(* The types, with the sequences that TypeOK describes by their elements.    *)
PlainType ==
    /\ files \in OpenFiles
    /\ recorded \in 0 .. MaxEvents
    /\ reader_page \in [Cpu -> BOOLEAN]
    /\ tracing_on \in BOOLEAN /\ switches \in 0 .. MaxSwitches
    /\ all_cpu_access_lock \in [writer: Reader \cup {Nobody}, readers: SUBSET Reader]
    /\ cpu_access_lock \in [Cpu -> Reader \cup {Nobody}]
    /\ iter \in [Reader -> IterState]
SeqType ==
    /\ buffer \in [Cpu -> Seq(1 .. recorded)]
    /\ out \in [Reader -> Seq(1 .. recorded)]
    /\ \A c \in Cpu : Len(buffer[c]) <= Cap
TypeInv == PlainType /\ SeqType

(* Where each kind of reader can be.                                         *)
States(call) ==
    CASE call = "read"   -> {"idle", "wait", "sleep", "check", "eof", "down", "mutex",
                             "find", "print", "consume", "unlock"}
      [] call = "splice" -> {"idle", "wait", "sleep", "first", "down", "mutex",
                             "print", "consume", "next", "unlock"}
      [] OTHER           -> {"idle", "sleep", "down", "mutex", "take", "unlock"}
CallsOK == \A r \in Reader : iter[r].at \in States(files[r].call)

(* What is printed was recorded: splice has an entry when it takes the lock. *)
EntriesKnown == \A r \in Reader :
    /\ iter[r].ent <= recorded
    /\ \/ iter[r].at = "print"
       \/ files[r].call = "splice" /\ iter[r].at \in {"down", "mutex"}
       => iter[r].ent # 0

(* A reader between trace_access_lock and trace_access_unlock.               *)
Inside(r) == iter[r].at \in {"find", "print", "consume", "next", "take", "unlock"}
LocksHeld ==
    /\ \A r \in Reader : Inside(r) =>
         IF files[r].cpu = All THEN all_cpu_access_lock.writer = r
         ELSE cpu_access_lock[files[r].cpu] = r
    /\ \A r \in Reader : Inside(r) /\ files[r].cpu # All => r \in all_cpu_access_lock.readers
    /\ \A r \in Reader : iter[r].at = "mutex" => files[r].cpu # All /\ r \in all_cpu_access_lock.readers
    /\ all_cpu_access_lock.writer # Nobody => all_cpu_access_lock.readers = {}

SafeInv == TypeInv /\ CallsOK /\ EntriesKnown /\ LocksHeld

(* The entry of a reader is the oldest of its CPU, on the reader page.       *)
HasEntry(r) ==
    \/ iter[r].at \in {"print", "consume"}
    \/ files[r].call = "splice" /\ iter[r].ent # 0 /\ iter[r].at # "next"
EntryHeld(r) ==
    LET c == iter[r].cpu IN
    /\ c \in CpusOf(r) /\ reader_page[c]
    /\ buffer[c] # << >> /\ iter[r].ent = Head(buffer[c])
EntriesHeld == \A r \in Reader : HasEntry(r) => EntryHeld(r)

IndInv == SafeInv /\ EntriesHeld

-----------------------------------------------------------------------------
(* Sequences: what Room and the readers do to a buffer.                      *)

LEMMA RemoveAtSeq ==
    ASSUME NEW S, NEW s \in Seq(S), NEW i \in 1 .. Len(s)
    PROVE  /\ RemoveAt(s, i) \in Seq(S)
           /\ Len(RemoveAt(s, i)) = Len(s) - 1
           /\ \A j \in 1 .. Len(s) - 1 : RemoveAt(s, i)[j] = IF j < i THEN s[j] ELSE s[j + 1]
<1> DEFINE a == SubSeq(s, 1, i - 1)
           b == SubSeq(s, i + 1, Len(s))
<1>1. Len(s) \in Nat
  BY LenProperties
<1>2. \A j \in 1 .. Len(s) : s[j] \in S
  BY ElementOfSeq
<1>3. /\ a \in Seq(S)
      /\ Len(a) = i - 1
      /\ \A j \in 1 .. i - 1 : a[j] = s[j]
  BY <1>1, <1>2, SubSeqProperties, SMTT(30)
<1>4. /\ b \in Seq(S)
      /\ Len(b) = Len(s) - i
      /\ \A j \in 1 .. Len(s) - i : b[j] = s[i + j]
  BY <1>1, <1>2, SubSeqProperties, SMTT(30)
<1>5. RemoveAt(s, i) = a \o b
  BY DEF RemoveAt
<1> HIDE DEF a, b
<1>6. /\ a \o b \in Seq(S)
      /\ Len(a \o b) = Len(a) + Len(b)
      /\ \A j \in 1 .. Len(a) + Len(b) : (a \o b)[j] = IF j <= Len(a) THEN a[j] ELSE b[j - Len(a)]
  BY <1>3, <1>4, ConcatProperties
<1>7. Len(a) + Len(b) = Len(s) - 1
  BY <1>1, <1>3, <1>4
<1>8. ASSUME NEW j \in 1 .. Len(s) - 1
      PROVE  (a \o b)[j] = IF j < i THEN s[j] ELSE s[j + 1]
  <2>1. CASE j < i
    BY <2>1, <1>1, <1>3, <1>6, <1>7
  <2>2. CASE ~ (j < i)
    <3>1. (a \o b)[j] = b[j - (i - 1)]
      BY <2>2, <1>1, <1>3, <1>6, <1>7
    <3>2. j - (i - 1) \in 1 .. Len(s) - i /\ i + (j - (i - 1)) = j + 1
      BY <2>2, <1>1
    <3> QED BY <3>1, <3>2, <1>4, <2>2
  <2> QED BY <2>1, <2>2
<1> QED BY <1>5, <1>6, <1>7, <1>8

LEMMA OldestRemoved ==
    ASSUME NEW S, NEW s \in Seq(S), s # << >>
    PROVE  RemoveAt(s, 1) = Tail(s)
<1>1. Len(s) \in Nat \ {0}
  BY EmptySeq
<1>2. /\ RemoveAt(s, 1) \in Seq(S)
      /\ Len(RemoveAt(s, 1)) = Len(s) - 1
      /\ \A j \in 1 .. Len(s) - 1 : RemoveAt(s, 1)[j] = s[j + 1]
  <2>1. 1 \in 1 .. Len(s)
    BY <1>1
  <2>2. /\ RemoveAt(s, 1) \in Seq(S)
        /\ Len(RemoveAt(s, 1)) = Len(s) - 1
        /\ \A j \in 1 .. Len(s) - 1 : RemoveAt(s, 1)[j] = IF j < 1 THEN s[j] ELSE s[j + 1]
    BY <2>1, RemoveAtSeq
  <2> QED BY <2>2, <1>1
<1>3. /\ Tail(s) \in Seq(S)
      /\ Len(Tail(s)) = Len(s) - 1
      /\ \A j \in 1 .. Len(Tail(s)) : Tail(s)[j] = s[j + 1]
  BY HeadTailProperties
<1> QED BY <1>1, <1>2, <1>3, SeqEqual

(* The second of at least two entries goes: the first stays.                 *)
LEMMA SecondRemoved ==
    ASSUME NEW S, NEW s \in Seq(S), Len(s) > 1
    PROVE  /\ RemoveAt(s, 2) \in Seq(S)
           /\ Len(RemoveAt(s, 2)) = Len(s) - 1
           /\ RemoveAt(s, 2) # << >>
           /\ Head(RemoveAt(s, 2)) = Head(s)
           /\ Tail(RemoveAt(s, 2)) = RemoveAt(Tail(s), 1)
<1>1. Len(s) \in Nat /\ 2 \in 1 .. Len(s)
  BY LenProperties
<1>2. /\ RemoveAt(s, 2) \in Seq(S)
      /\ Len(RemoveAt(s, 2)) = Len(s) - 1
      /\ \A j \in 1 .. Len(s) - 1 : RemoveAt(s, 2)[j] = IF j < 2 THEN s[j] ELSE s[j + 1]
  BY <1>1, RemoveAtSeq
<1> DEFINE u == RemoveAt(s, 2)
           t == Tail(s)
<1>3. s # << >>
  BY <1>1, EmptySeq
<1>4. /\ t \in Seq(S)
      /\ Len(t) = Len(s) - 1
      /\ \A j \in 1 .. Len(t) : t[j] = s[j + 1]
  BY <1>3, HeadTailProperties
<1> HIDE DEF u, t
<1>5. u \in Seq(S) /\ Len(u) = Len(s) - 1
  BY <1>2 DEF u
<1>6. u # << >>
  BY <1>1, <1>5, EmptySeq
<1>7. u[1] = s[1]
  BY <1>1, <1>2 DEF u
<1>8. Head(u) = Head(s)
  BY <1>7
<1>9. /\ Tail(u) \in Seq(S)
      /\ Len(Tail(u)) = Len(u) - 1
      /\ \A j \in 1 .. Len(Tail(u)) : Tail(u)[j] = u[j + 1]
  BY <1>5, <1>6, HeadTailProperties
<1>10. 1 \in 1 .. Len(t)
  BY <1>1, <1>4
<1>11. /\ RemoveAt(t, 1) \in Seq(S)
       /\ Len(RemoveAt(t, 1)) = Len(t) - 1
       /\ \A j \in 1 .. Len(t) - 1 : RemoveAt(t, 1)[j] = IF j < 1 THEN t[j] ELSE t[j + 1]
  BY <1>4, <1>10, RemoveAtSeq
<1>12. ASSUME NEW j \in 1 .. Len(Tail(u))
       PROVE  Tail(u)[j] = RemoveAt(t, 1)[j]
  <2>1. j \in 1 .. Len(s) - 2
    BY <1>1, <1>5, <1>9
  <2>2. Tail(u)[j] = u[j + 1] /\ u[j + 1] = s[j + 2]
    BY <2>1, <1>1, <1>2, <1>9 DEF u
  <2>3. RemoveAt(t, 1)[j] = t[j + 1] /\ t[j + 1] = s[j + 2]
    BY <2>1, <1>1, <1>4, <1>11
  <2> QED BY <2>2, <2>3
<1>13. Len(Tail(u)) = Len(RemoveAt(t, 1))
  BY <1>4, <1>5, <1>9, <1>11
<1>14. Tail(u) = RemoveAt(t, 1)
  BY <1>9, <1>11, <1>12, <1>13, SeqEqual
<1> QED BY <1>2, <1>6, <1>8, <1>14 DEF u, t

(* Of some CPUs with an entry, one has the oldest.                           *)
LEMMA OldestIn ==
    ASSUME NEW C \in SUBSET Cpu, C # {}, \A c \in C : buffer[c] # << >>, SeqType, recorded \in Nat
    PROVE  Oldest(C) \in C
<1> DEFINE heads == {Head(buffer[c]) : c \in C}
           before == {ss \in Nat \X Nat : ss[1] < ss[2]}
<1>1. \A c \in C : Head(buffer[c]) \in Nat
  <2> TAKE c \in C
  <2>1. buffer[c] \in Seq(1 .. recorded)
    BY DEF SeqType
  <2>2. Head(buffer[c]) \in 1 .. recorded
    BY <2>1, HeadTailProperties
  <2> QED BY <2>2
<1>2. heads \subseteq Nat /\ heads # {}
  BY <1>1
<1>3. IsWellFoundedOn(before, Nat)
  BY NatLessThanWellFounded DEF OpToRel
<1> HIDE DEF before
<1>4. \E x \in heads : \A y \in heads : ~ (<<y, x>> \in before)
  BY <1>2, <1>3, WFMin
<1>5. PICK c \in C : \A d \in C : ~ (<<Head(buffer[d]), Head(buffer[c])>> \in before)
  BY <1>4
<1>6. \A d \in C : Head(buffer[c]) <= Head(buffer[d])
  <2> TAKE d \in C
  <2>1. Head(buffer[d]) \in Nat /\ Head(buffer[c]) \in Nat
    BY <1>1
  <2>2. ~ (<<Head(buffer[d]), Head(buffer[c])>> \in before)
    BY <1>5
  <2>3. ~ (Head(buffer[d]) < Head(buffer[c]))
    BY <2>1, <2>2 DEF before
  <2> QED BY <2>1, <2>3
<1> QED BY <1>6 DEF Oldest

-----------------------------------------------------------------------------
(* Types.                                                                    *)

Places == {"idle", "wait", "sleep", "check", "first", "down", "mutex", "find", "print",
           "consume", "next", "take", "unlock", "eof"}

LEMMA InitType == Init => TypeInv
<1> SUFFICES ASSUME Init PROVE TypeInv
  OBVIOUS
<1>1. \A r \in Reader : files[r].cpu \in Cpu \cup {All}
  BY FileAssumption DEF Init
<1>2. PlainType
  <2>1. iter \in [Reader -> IterState]
    BY <1>1, BoundAssumption DEF Init, IterState
  <2> QED BY <2>1, BoundAssumption DEF Init, PlainType
<1>3. SeqType
  <2>1. << >> \in Seq(1 .. recorded) /\ Len(<< >>) = 0
    BY EmptySeq
  <2> QED BY <2>1, BoundAssumption DEF Init, SeqType
<1> QED BY <1>2, <1>3 DEF TypeInv

LEMMA CpuOfFile ==
    ASSUME TypeInv, NEW r \in Reader
    PROVE  /\ files[r].cpu \in Cpu \cup {All}
           /\ files[r].call \in {"read", "splice", "raw", "pages"}
           /\ files[r].call \in {"raw", "pages"} => files[r].cpu \in Cpu
           /\ CpusOf(r) \subseteq Cpu
<1>1. files \in OpenFiles
  BY DEF TypeInv, PlainType
<1>2. files \in [Reader -> [cpu: Cpu \cup {All}, call: {"read", "splice", "raw", "pages"}]]
  BY <1>1, FileAssumption
<1>3. files[r].call \in {"raw", "pages"} => files[r].cpu \in Cpu
  BY <1>1, FileAssumption
<1> QED BY <1>2, <1>3 DEF CpusOf

LEMMA IterType ==
    ASSUME TypeInv, NEW r \in Reader
    PROVE  /\ iter[r] \in IterState
           /\ iter[r].at \in Places /\ iter[r].ent \in 0 .. MaxEvents
           /\ iter[r].cpu \in Cpu \cup {All}
           /\ iter[r].pos \in BOOLEAN /\ iter[r].got \in BOOLEAN
<1>1. iter[r] \in IterState
  BY DEF TypeInv, PlainType
<1> QED BY <1>1 DEF IterState, Places

LEMMA GotoType ==
    ASSUME TypeInv, NEW r \in Reader, NEW at \in Places, Goto(r, at)
    PROVE  iter' \in [Reader -> IterState]
<1>1. iter \in [Reader -> IterState]
  BY DEF TypeInv, PlainType
<1>2. [iter[r] EXCEPT !.at = at] \in IterState
  BY <1>1 DEF IterState, Places
<1> QED BY <1>1, <1>2 DEF Goto

LEMMA KeptType ==
    ASSUME TypeInv, iter' \in [Reader -> IterState], UNCHANGED <<files, recorded, buffer, out>>,
           reader_page' \in [Cpu -> BOOLEAN],
           tracing_on' \in BOOLEAN, switches' \in 0 .. MaxSwitches,
           all_cpu_access_lock' \in [writer: Reader \cup {Nobody}, readers: SUBSET Reader],
           cpu_access_lock' \in [Cpu -> Reader \cup {Nobody}]
    PROVE  TypeInv'
<1>1. PlainType'
  BY DEF TypeInv, PlainType
<1>2. SeqType'
  BY DEF TypeInv, SeqType
<1> QED BY <1>1, <1>2 DEF TypeInv

LEMMA BufferType ==
    ASSUME TypeInv, NEW c \in Cpu
    PROVE  /\ buffer[c] \in Seq(1 .. recorded)
           /\ Len(buffer[c]) \in Nat /\ Len(buffer[c]) <= Cap
           /\ recorded \in Nat
<1>1. buffer[c] \in Seq(1 .. recorded) /\ Len(buffer[c]) <= Cap
  BY DEF TypeInv, SeqType
<1>2. Len(buffer[c]) \in Nat
  BY <1>1, LenProperties
<1>3. recorded \in Nat
  BY BoundAssumption DEF TypeInv, PlainType
<1> QED BY <1>1, <1>2, <1>3

(* What Room leaves of a buffer, for the event that is recorded.             *)
LEMMA RoomType ==
    ASSUME TypeInv, NEW c \in Cpu
    PROVE  /\ Room(c) \in Seq(1 .. recorded)
           /\ Len(Room(c)) \in Nat /\ Len(Room(c)) <= Cap - 1
<1>1. /\ buffer[c] \in Seq(1 .. recorded)
      /\ Len(buffer[c]) \in Nat /\ Len(buffer[c]) <= Cap
  BY BufferType
<1>2. CASE Len(buffer[c]) < Cap
  BY <1>1, <1>2, BoundAssumption DEF Room
<1>3. CASE ~ (Len(buffer[c]) < Cap)
  <2>1. PICK i \in {1, 2} : Room(c) = RemoveAt(buffer[c], i)
    BY <1>3 DEF Room
  <2>2. i \in 1 .. Len(buffer[c])
    BY <1>1, <1>3, BoundAssumption
  <2>3. RemoveAt(buffer[c], i) \in Seq(1 .. recorded) /\ Len(RemoveAt(buffer[c], i)) = Len(buffer[c]) - 1
    BY <1>1, <2>2, RemoveAtSeq
  <2> QED BY <1>1, <1>3, <2>1, <2>3, BoundAssumption
<1> QED BY <1>2, <1>3

LEMMA RecordType ==
    ASSUME TypeInv, NEW c \in Cpu, Record(c)
    PROVE  TypeInv'
<1>1. recorded \in Nat /\ recorded' = recorded + 1 /\ recorded' \in 0 .. MaxEvents
  BY BoundAssumption DEF TypeInv, PlainType, Record
<1>2. PlainType'
  BY <1>1 DEF TypeInv, PlainType, Record, locks
<1>3. 1 .. recorded \subseteq 1 .. recorded' /\ recorded + 1 \in 1 .. recorded'
  BY <1>1
<1>4. Room(c) \in Seq(1 .. recorded') /\ Len(Room(c)) \in Nat /\ Len(Room(c)) <= Cap - 1
  BY <1>3, RoomType, SeqMonotonic
<1>5. /\ Append(Room(c), recorded + 1) \in Seq(1 .. recorded')
      /\ Len(Append(Room(c), recorded + 1)) = Len(Room(c)) + 1
  BY <1>3, <1>4, AppendProperties
<1>6. Len(Append(Room(c), recorded + 1)) <= Cap
  BY <1>4, <1>5, BoundAssumption
<1>7. \A d \in Cpu : buffer[d] \in Seq(1 .. recorded') /\ Len(buffer[d]) <= Cap
  BY <1>3, BufferType, SeqMonotonic
<1>8. buffer' = [buffer EXCEPT ![c] = Append(Room(c), recorded + 1)] /\ out' = out
  BY DEF Record
<1>9. buffer \in [Cpu -> Seq(1 .. recorded)] /\ out \in [Reader -> Seq(1 .. recorded)]
  BY DEF TypeInv, SeqType
<1>10. buffer' \in [Cpu -> Seq(1 .. recorded')] /\ \A d \in Cpu : Len(buffer'[d]) <= Cap
  BY <1>5, <1>6, <1>7, <1>8, <1>9
<1>11. out' \in [Reader -> Seq(1 .. recorded')]
  <2>1. \A r \in Reader : out[r] \in Seq(1 .. recorded')
    BY <1>3, <1>9, SeqMonotonic
  <2> QED BY <1>8, <1>9, <2>1
<1>12. SeqType'
  BY <1>10, <1>11 DEF SeqType
<1> QED BY <1>2, <1>12 DEF TypeInv

(* trace_find_next_entry_inc.                                                *)
LEMMA FindNextType ==
    ASSUME TypeInv, NEW r \in Reader, NEW at \in Places, NEW none \in Places, FindNext(r, at, none)
    PROVE  iter' \in [Reader -> IterState] /\ reader_page' \in [Cpu -> BOOLEAN]
<1> DEFINE C == {c \in CpusOf(r) : buffer[c] # << >>}
<1>1. /\ iter \in [Reader -> IterState] /\ reader_page \in [Cpu -> BOOLEAN]
      /\ recorded \in 0 .. MaxEvents
  BY DEF TypeInv, PlainType
<1>2. CASE C = {}
  <2>1. [iter[r] EXCEPT !.ent = 0, !.at = none] \in IterState
    <3>1. iter[r] \in IterState /\ 0 \in 0 .. MaxEvents
      BY <1>1, BoundAssumption
    <3> QED BY <3>1 DEF IterState, Places
  <2>2. iter' = [iter EXCEPT ![r] = [iter[r] EXCEPT !.ent = 0, !.at = none]]
    BY <1>1, <1>2 DEF FindNext
  <2> QED BY <1>1, <1>2, <2>1, <2>2 DEF FindNext
<1>3. CASE C # {}
  <2>1. C \in SUBSET Cpu /\ \A c \in C : buffer[c] # << >>
    BY CpuOfFile
  <2>2. SeqType /\ recorded \in Nat
    BY <1>1, BoundAssumption DEF TypeInv
  <2> HIDE DEF C
  <2>3. PICK o \in C : o = Oldest(C)
    BY <1>3, <2>1, <2>2, OldestIn
  <2>4. Head(buffer[o]) \in 1 .. recorded
    BY <2>1, <2>2, BufferType, HeadTailProperties
  <2>5. [iter[r] EXCEPT !.ent = Head(buffer[o]), !.cpu = o, !.at = at] \in IterState
    <3>1. iter[r] \in IterState /\ o \in Cpu \cup {All}
      BY <1>1, <2>1
    <3>2. Head(buffer[o]) \in 0 .. MaxEvents
      BY <1>1, <2>4, BoundAssumption
    <3> QED BY <3>1, <3>2 DEF IterState, Places
  <2>6. iter' = [iter EXCEPT ![r] = [iter[r] EXCEPT !.ent = Head(buffer[o]), !.cpu = o, !.at = at]]
    BY <1>1, <1>3, <2>3 DEF FindNext, C
  <2>7. reader_page' = Peeked(C)
    BY <1>3 DEF FindNext, C
  <2>8. reader_page' \in [Cpu -> BOOLEAN]
    BY <2>7 DEF Peeked
  <2> QED BY <1>1, <2>5, <2>6, <2>8
<1> QED BY <1>2, <1>3

LEMMA ConsumeType ==
    ASSUME TypeInv, NEW r \in Reader, Consume(r)
    PROVE  TypeInv'
<1>1. iter' \in [Reader -> IterState]
  <2>1. PICK at \in Places : Goto(r, at)
    BY DEF Consume, Places
  <2> QED BY <2>1, GotoType
<1>2. /\ UNCHANGED <<files, recorded, tracing_on, switches, locks, out>>
      /\ reader_page' = [reader_page EXCEPT ![iter[r].cpu] = FALSE]
      /\ buffer' = [buffer EXCEPT ![iter[r].cpu] =
                      IF buffer[iter[r].cpu] = << >> THEN buffer[iter[r].cpu] ELSE Tail(buffer[iter[r].cpu])]
  BY DEF Consume
<1>3. PlainType'
  BY <1>1, <1>2 DEF TypeInv, PlainType, locks
<1>4. buffer \in [Cpu -> Seq(1 .. recorded)] /\ out \in [Reader -> Seq(1 .. recorded)]
  BY DEF TypeInv, SeqType
<1>5. \A c \in Cpu : /\ (IF buffer[c] = << >> THEN buffer[c] ELSE Tail(buffer[c])) \in Seq(1 .. recorded)
                     /\ Len(IF buffer[c] = << >> THEN buffer[c] ELSE Tail(buffer[c])) <= Cap
  <2> TAKE c \in Cpu
  <2>1. buffer[c] \in Seq(1 .. recorded) /\ Len(buffer[c]) \in Nat /\ Len(buffer[c]) <= Cap
    BY BufferType
  <2>2. CASE buffer[c] # << >>
    <3>1. Tail(buffer[c]) \in Seq(1 .. recorded) /\ Len(Tail(buffer[c])) = Len(buffer[c]) - 1
      BY <2>1, <2>2, HeadTailProperties
    <3> QED BY <2>1, <2>2, <3>1, BoundAssumption
  <2> QED BY <2>1, <2>2
<1>6. buffer' \in [Cpu -> Seq(1 .. recorded)]
  BY <1>2, <1>4, <1>5
<1>7. \A c \in Cpu : Len(buffer'[c]) <= Cap
  <2> TAKE c \in Cpu
  <2>1. CASE c = iter[r].cpu
    BY <2>1, <1>2, <1>4, <1>5
  <2>2. CASE c # iter[r].cpu
    BY <2>2, <1>2, <1>4, BufferType
  <2> QED BY <2>1, <2>2
<1>8. SeqType'
  BY <1>2, <1>4, <1>6, <1>7 DEF SeqType
<1> QED BY <1>3, <1>8 DEF TypeInv

(* A page: the n oldest events of the CPU leave its buffer.                  *)
LEMMA PageType ==
    ASSUME TypeInv, NEW c \in Cpu, NEW n \in 1 .. Len(buffer[c])
    PROVE  /\ SubSeq(buffer[c], 1, n) \in Seq(1 .. recorded)
           /\ SubSeq(buffer[c], n + 1, Len(buffer[c])) \in Seq(1 .. recorded)
           /\ Len(SubSeq(buffer[c], n + 1, Len(buffer[c]))) <= Cap
<1>1. buffer[c] \in Seq(1 .. recorded) /\ Len(buffer[c]) \in Nat /\ Len(buffer[c]) <= Cap
  BY BufferType
<1>2. \A j \in 1 .. Len(buffer[c]) : buffer[c][j] \in 1 .. recorded
  BY <1>1, ElementOfSeq
<1>3. SubSeq(buffer[c], 1, n) \in Seq(1 .. recorded)
  <2>1. \A j \in 1 .. n : buffer[c][j] \in 1 .. recorded
    BY <1>1, <1>2
  <2> QED BY <2>1, <1>1, SubSeqProperties
<1>4. /\ SubSeq(buffer[c], n + 1, Len(buffer[c])) \in Seq(1 .. recorded)
      /\ Len(SubSeq(buffer[c], n + 1, Len(buffer[c]))) = Len(buffer[c]) - n
  <2>1. \A j \in n + 1 .. Len(buffer[c]) : buffer[c][j] \in 1 .. recorded
    BY <1>1, <1>2
  <2> DEFINE k == n + 1
  <2>2. k \in Int /\ Len(buffer[c]) \in Int
    BY <1>1
  <2>3. /\ SubSeq(buffer[c], k, Len(buffer[c])) \in Seq(1 .. recorded)
        /\ Len(SubSeq(buffer[c], k, Len(buffer[c]))) =
             IF k <= Len(buffer[c]) THEN Len(buffer[c]) - k + 1 ELSE 0
    BY <2>1, <2>2, SubSeqProperties
  <2> QED BY <2>3, <1>1
<1> QED BY <1>1, <1>3, <1>4, BoundAssumption

LEMMA GivenType ==
    ASSUME TypeInv, NEW r \in Reader, files[r].call \in {"raw", "pages"},
           NEW n \in 1 .. Len(buffer[files[r].cpu]), Given(r, n),
           UNCHANGED <<files, recorded, tracing_on, switches, locks>>
    PROVE  TypeInv'
<1> DEFINE c == files[r].cpu
<1>1. c \in Cpu
  BY CpuOfFile
<1>2. /\ buffer' = [buffer EXCEPT ![c] = SubSeq(buffer[c], n + 1, Len(buffer[c]))]
      /\ out' = [out EXCEPT ![r] = out[r] \o SubSeq(buffer[c], 1, n)]
      /\ reader_page' = [reader_page EXCEPT ![c] = FALSE]
      /\ iter' = [iter EXCEPT ![r] = [iter[r] EXCEPT !.at = "unlock", !.got = TRUE]]
  BY DEF Given, TypeInv, PlainType
<1>3. iter' \in [Reader -> IterState]
  <2>1. [iter[r] EXCEPT !.at = "unlock", !.got = TRUE] \in IterState
    BY IterType DEF IterState
  <2> QED BY <1>2, <2>1 DEF TypeInv, PlainType
<1>4. PlainType'
  BY <1>1, <1>2, <1>3 DEF TypeInv, PlainType, locks
<1>5. buffer \in [Cpu -> Seq(1 .. recorded)] /\ out \in [Reader -> Seq(1 .. recorded)]
  BY DEF TypeInv, SeqType
<1>6. /\ SubSeq(buffer[c], 1, n) \in Seq(1 .. recorded)
      /\ SubSeq(buffer[c], n + 1, Len(buffer[c])) \in Seq(1 .. recorded)
      /\ Len(SubSeq(buffer[c], n + 1, Len(buffer[c]))) <= Cap
  BY <1>1, PageType
<1>7. out[r] \o SubSeq(buffer[c], 1, n) \in Seq(1 .. recorded)
  BY <1>5, <1>6, ConcatProperties
<1> HIDE DEF c
<1>8. buffer' \in [Cpu -> Seq(1 .. recorded)] /\ out' \in [Reader -> Seq(1 .. recorded)]
  BY <1>2, <1>5, <1>6, <1>7
<1>9. \A d \in Cpu : Len(buffer'[d]) <= Cap
  <2> TAKE d \in Cpu
  <2>1. CASE d = c
    BY <2>1, <1>2, <1>5, <1>6
  <2>2. CASE d # c
    BY <2>2, <1>2, <1>5, BufferType
  <2> QED BY <2>1, <2>2
<1>10. SeqType'
  BY <1>8, <1>9 DEF SeqType
<1> QED BY <1>4, <1>10 DEF TypeInv

LEMMA PrintType ==
    ASSUME TypeInv, EntriesKnown, NEW r \in Reader, PrintLine(r)
    PROVE  TypeInv'
<1>1. UNCHANGED <<files, trace, tracing_on, switches, locks>>
  BY DEF PrintLine
<1>2. CASE Goto(r, "unlock") /\ UNCHANGED out
  <2>1. iter' \in [Reader -> IterState]
    BY <1>2, GotoType DEF Places
  <2> QED BY <1>1, <1>2, <2>1, KeptType DEF trace, locks, TypeInv, PlainType
<1>3. CASE /\ iter[r].at = "print"
           /\ out' = [out EXCEPT ![r] = Append(out[r], iter[r].ent)]
           /\ iter' = [iter EXCEPT ![r].at = "consume", ![r].got = TRUE]
  <2>1. iter[r].ent \in 1 .. recorded
    <3>1. recorded \in Nat /\ iter[r].ent \in 0 .. MaxEvents /\ MaxEvents \in Nat
      BY IterType, BoundAssumption DEF TypeInv, PlainType
    <3>2. iter[r].ent # 0 /\ iter[r].ent <= recorded
      BY <1>3 DEF EntriesKnown
    <3> QED BY <3>1, <3>2
  <2>2. out \in [Reader -> Seq(1 .. recorded)]
    BY DEF TypeInv, SeqType
  <2>3. Append(out[r], iter[r].ent) \in Seq(1 .. recorded)
    BY <2>1, <2>2, AppendProperties
  <2>4. out' \in [Reader -> Seq(1 .. recorded)]
    BY <1>3, <2>2, <2>3
  <2>5. [iter[r] EXCEPT !.at = "consume", !.got = TRUE] \in IterState
    BY IterType DEF IterState
  <2>6. iter' = [iter EXCEPT ![r] = [iter[r] EXCEPT !.at = "consume", !.got = TRUE]]
    BY <1>3 DEF TypeInv, PlainType
  <2>7. iter' \in [Reader -> IterState]
    BY <2>5, <2>6 DEF TypeInv, PlainType
  <2>8. SeqType'
    BY <1>1, <2>4 DEF TypeInv, SeqType, trace
  <2>9. PlainType'
    BY <1>1, <2>7 DEF TypeInv, PlainType, trace, locks
  <2> QED BY <2>8, <2>9 DEF TypeInv
<1> QED BY <1>2, <1>3 DEF PrintLine

LEMMA TypeNext ==
    ASSUME TypeInv, EntriesKnown, [Next]_vars
    PROVE  TypeInv'
<1> USE DEF trace, locks
<1>1. ASSUME NEW c \in Cpu, Record(c) PROVE TypeInv'
  BY <1>1, RecordType
<1>2. CASE Switch
  <2>1. iter' \in [Reader -> IterState] /\ tracing_on' \in BOOLEAN /\ switches' \in 0 .. MaxSwitches
    BY <1>2, BoundAssumption DEF Switch, TypeInv, PlainType
  <2>2. UNCHANGED <<files, trace, locks, out>>
    BY <1>2 DEF Switch
  <2> QED BY <2>1, <2>2, KeptType DEF TypeInv, PlainType
<1>3. ASSUME NEW r \in Reader, Call(r) PROVE TypeInv'
  <2>1. PICK at \in {"down", "wait"} : iter' = [iter EXCEPT ![r].at = at, ![r].got = FALSE]
    BY <1>3 DEF Call
  <2>2. [iter[r] EXCEPT !.at = at, !.got = FALSE] \in IterState
    BY IterType DEF IterState
  <2>3. iter' = [iter EXCEPT ![r] = [iter[r] EXCEPT !.at = at, !.got = FALSE]]
    BY <2>1 DEF TypeInv, PlainType
  <2>4. iter' \in [Reader -> IterState]
    BY <2>2, <2>3 DEF TypeInv, PlainType
  <2> QED BY <1>3, <2>4, KeptType DEF Call, TypeInv, PlainType
<1>4. ASSUME NEW r \in Reader, NEW at \in Places, Goto(r, at),
             UNCHANGED <<files, trace, tracing_on, switches, locks, out>>
      PROVE  TypeInv'
  <2>1. iter' \in [Reader -> IterState]
    BY <1>4, GotoType
  <2> QED BY <1>4, <2>1, KeptType DEF TypeInv, PlainType
<1>5. ASSUME NEW r \in Reader, Wake(r) \/ Signal(r) \/ WaitPipe(r) PROVE TypeInv'
  <2>1. \E at \in Places : Goto(r, at)
    BY <1>5 DEF Wake, Signal, WaitPipe, Places
  <2>2. UNCHANGED <<files, trace, tracing_on, switches, locks, out>>
    BY <1>5 DEF Wake, Signal, WaitPipe
  <2> QED BY <1>4, <2>1, <2>2
<1>6. ASSUME NEW r \in Reader, CheckEmpty(r) PROVE TypeInv'
  <2>1. UNCHANGED <<files, trace, tracing_on, switches, locks, out>>
    BY <1>6 DEF CheckEmpty
  <2>2. CASE Goto(r, "eof")
    BY <1>4, <2>1, <2>2 DEF Places
  <2>3. CASE iter' = [iter EXCEPT ![r].at = "down", ![r].ent = 0, ![r].pos = TRUE]
    <3>1. [iter[r] EXCEPT !.at = "down", !.ent = 0, !.pos = TRUE] \in IterState
      <4>1. iter[r] \in IterState /\ 0 \in 0 .. MaxEvents
        BY IterType, BoundAssumption
      <4> QED BY <4>1 DEF IterState
    <3>2. iter' = [iter EXCEPT ![r] = [iter[r] EXCEPT !.at = "down", !.ent = 0, !.pos = TRUE]]
      BY <2>3 DEF TypeInv, PlainType
    <3>3. iter' \in [Reader -> IterState]
      BY <3>1, <3>2 DEF TypeInv, PlainType
    <3> QED BY <2>1, <3>3, KeptType DEF TypeInv, PlainType
  <2> QED BY <1>6, <2>2, <2>3 DEF CheckEmpty
<1>7. ASSUME NEW r \in Reader, LockAll(r) \/ LockShared(r) \/ LockCpu(r) \/ Unlock(r) PROVE TypeInv'
  <2>1. \E at \in Places : Goto(r, at)
    BY <1>7 DEF LockAll, LockShared, LockCpu, Unlock, AfterLock, Places
  <2>2. iter' \in [Reader -> IterState]
    BY <2>1, GotoType
  <2>3. UNCHANGED <<files, trace, tracing_on, switches, out>>
    BY <1>7 DEF LockAll, LockShared, LockCpu, Unlock
  <2>4. all_cpu_access_lock' \in [writer: Reader \cup {Nobody}, readers: SUBSET Reader]
    <3>1. all_cpu_access_lock \in [writer: Reader \cup {Nobody}, readers: SUBSET Reader]
      BY DEF TypeInv, PlainType
    <3>2. \E w \in {all_cpu_access_lock.writer, r, Nobody} :
             all_cpu_access_lock' = [all_cpu_access_lock EXCEPT !.writer = w]
             \/ all_cpu_access_lock' = [all_cpu_access_lock EXCEPT !.readers = all_cpu_access_lock.readers \cup {r}]
             \/ all_cpu_access_lock' = [all_cpu_access_lock EXCEPT !.readers = all_cpu_access_lock.readers \ {r}]
      BY <1>7, <3>1 DEF LockAll, LockShared, LockCpu, Unlock, UpRead
    <3> QED BY <3>1, <3>2
  <2>5. cpu_access_lock' \in [Cpu -> Reader \cup {Nobody}]
    <3>1. cpu_access_lock \in [Cpu -> Reader \cup {Nobody}]
      BY DEF TypeInv, PlainType
    <3>2. \/ cpu_access_lock' = cpu_access_lock
          \/ cpu_access_lock' = [cpu_access_lock EXCEPT ![files[r].cpu] = r]
          \/ cpu_access_lock' = [cpu_access_lock EXCEPT ![files[r].cpu] = Nobody]
      BY <1>7 DEF LockAll, LockShared, LockCpu, Unlock
    <3> QED BY <3>1, <3>2
  <2> QED BY <2>2, <2>3, <2>4, <2>5, KeptType DEF TypeInv, PlainType
<1>8. ASSUME NEW r \in Reader, NEW at \in Places, NEW none \in Places, FindNext(r, at, none),
             UNCHANGED <<files, recorded, buffer, tracing_on, switches, locks, out>>
      PROVE  TypeInv'
  <2>1. iter' \in [Reader -> IterState] /\ reader_page' \in [Cpu -> BOOLEAN]
    BY <1>8, FindNextType
  <2> QED BY <1>8, <2>1, KeptType DEF TypeInv, PlainType
<1>9. ASSUME NEW r \in Reader, Find(r) \/ FindAfter(r) PROVE TypeInv'
  <2>1. FindNext(r, "print", "unlock")
    BY <1>9 DEF Find, FindAfter
  <2>2. UNCHANGED <<files, recorded, buffer, tracing_on, switches, locks, out>>
    BY <1>9 DEF Find, FindAfter
  <2>3. "print" \in Places /\ "unlock" \in Places
    BY DEF Places
  <2> QED BY <1>8, <2>1, <2>2, <2>3
<1>10. ASSUME NEW r \in Reader, FindFirst(r) PROVE TypeInv'
  <2>1. UNCHANGED <<files, recorded, buffer, tracing_on, switches, locks, out>>
    BY <1>10 DEF FindFirst
  <2>2. "down" \in Places /\ "idle" \in Places
    BY DEF Places
  <2>3. CASE Goto(r, "down") /\ UNCHANGED reader_page
    BY <1>4, <2>1, <2>2, <2>3
  <2>4. CASE FindNext(r, "down", "idle")
    BY <1>8, <2>1, <2>2, <2>4
  <2> QED BY <1>10, <2>3, <2>4 DEF FindFirst
<1>11. ASSUME NEW r \in Reader, PrintLine(r) PROVE TypeInv'
  BY <1>11, PrintType
<1>12. ASSUME NEW r \in Reader, Consume(r) PROVE TypeInv'
  BY <1>12, ConsumeType
<1>13. ASSUME NEW r \in Reader, TakePage(r) \/ TakePages(r) PROVE TypeInv'
  <2>1. UNCHANGED <<files, recorded, tracing_on, switches, locks>>
    BY <1>13 DEF TakePage, TakePages
  <2>2. files[r].call \in {"raw", "pages"}
    BY <1>13 DEF TakePage, TakePages
  <2>3. CASE NothingGiven(r)
    <3>1. Goto(r, "unlock") /\ UNCHANGED <<buffer, reader_page, out>>
      BY <2>3 DEF NothingGiven
    <3>2. "unlock" \in Places
      BY DEF Places
    <3> QED BY <1>4, <2>1, <3>1, <3>2
  <2>4. ASSUME NEW n \in 1 .. Len(buffer[files[r].cpu]), Given(r, n) PROVE TypeInv'
    BY <2>1, <2>2, <2>4, GivenType
  <2> QED BY <1>13, <2>3, <2>4 DEF TakePage, TakePages
<1>14. CASE UNCHANGED vars
  BY <1>14 DEF vars, TypeInv, PlainType, SeqType
<1> QED BY <1>1, <1>2, <1>3, <1>5, <1>6, <1>7, <1>9, <1>10, <1>11, <1>12, <1>13, <1>14 DEF Next, Step

-----------------------------------------------------------------------------
(* Where the readers are, and the entries they have.                         *)

(* What an action does to the reader that takes it; the others stay.         *)
Moves(r) == /\ files' = files /\ recorded' = recorded
            /\ iter' = [iter EXCEPT ![r] = iter'[r]]

LEMMA StepMoves ==
    ASSUME TypeInv, [Next]_vars
    PROVE  \/ \E r \in Reader : Moves(r) /\ (Call(r) \/ Wake(r) \/ Signal(r) \/ LockAll(r) \/ LockShared(r)
                                             \/ LockCpu(r) \/ Step(r))
           \/ \E c \in Cpu : Record(c)
           \/ UNCHANGED <<files, recorded, buffer, reader_page, locks, iter, out>>
<1> USE DEF trace, locks
<1>0. iter \in [Reader -> IterState]
  BY DEF TypeInv, PlainType
<1>1. ASSUME NEW r \in Reader,
             Call(r) \/ Wake(r) \/ Signal(r) \/ LockAll(r) \/ LockShared(r) \/ LockCpu(r)
      PROVE  Moves(r)
  BY <1>0, <1>1 DEF Moves, Call, Wake, Signal, LockAll, LockShared, LockCpu, Goto
<1>2. ASSUME NEW r \in Reader, Step(r) PROVE Moves(r)
  <2>1. ASSUME NEW at, Goto(r, at) PROVE iter' = [iter EXCEPT ![r] = iter'[r]]
    BY <1>0, <2>1 DEF Goto
  <2>2. ASSUME NEW at, NEW none, FindNext(r, at, none) PROVE iter' = [iter EXCEPT ![r] = iter'[r]]
    BY <1>0, <2>2 DEF FindNext
  <2>3. CASE WaitPipe(r) \/ CheckEmpty(r) \/ Unlock(r)
    BY <1>0, <2>1, <2>3 DEF Moves, WaitPipe, CheckEmpty, Unlock
  <2>4. CASE Find(r) \/ FindFirst(r) \/ FindAfter(r)
    BY <2>1, <2>2, <2>4 DEF Moves, Find, FindFirst, FindAfter
  <2>5. CASE PrintLine(r) \/ Consume(r)
    BY <1>0, <2>1, <2>5 DEF Moves, PrintLine, Consume
  <2>6. CASE TakePage(r) \/ TakePages(r)
    BY <1>0, <2>1, <2>6 DEF Moves, TakePage, TakePages, Given, NothingGiven
  <2> QED BY <1>2, <2>3, <2>4, <2>5, <2>6 DEF Step
<1> QED BY <1>1, <1>2 DEF Next, Switch, vars

LEMMA CallsNext ==
    ASSUME TypeInv, CallsOK, [Next]_vars
    PROVE  CallsOK'
<1>1. ASSUME NEW r \in Reader, Moves(r), iter'[r].at \in States(files[r].call)
      PROVE  CallsOK'
  BY <1>1 DEF Moves, CallsOK, TypeInv, PlainType
<1>2. ASSUME NEW r \in Reader, Moves(r),
             Call(r) \/ Wake(r) \/ Signal(r) \/ LockAll(r) \/ LockShared(r) \/ LockCpu(r) \/ Step(r)
      PROVE  iter'[r].at \in States(files[r].call)
  <2> DEFINE call == files[r].call
  <2>1. /\ call \in {"read", "splice", "raw", "pages"}
        /\ iter[r].at \in States(call)
        /\ iter \in [Reader -> IterState]
    BY <1>2, CpuOfFile DEF CallsOK, TypeInv, PlainType
  <2>2. iter[r] \in IterState
    BY <2>1
  <2>3. ASSUME NEW at, Goto(r, at) PROVE iter'[r].at = at
    BY <2>1, <2>3 DEF Goto, IterState
  <2>4. ASSUME NEW at, NEW none, FindNext(r, at, none) PROVE iter'[r].at \in {at, none}
    <3>1. ASSUME NEW e, NEW c, iter' = [iter EXCEPT ![r].ent = e, ![r].cpu = c, ![r].at = at]
          PROVE  iter'[r].at = at
      BY <2>1, <2>2, <3>1 DEF IterState
    <3>2. ASSUME iter' = [iter EXCEPT ![r].ent = 0, ![r].at = none]
          PROVE  iter'[r].at = none
      BY <2>1, <2>2, <3>2 DEF IterState
    <3> QED BY <2>4, <3>1, <3>2 DEF FindNext
  <2> HIDE DEF call
  <2>5. CASE Call(r)
    BY <2>1, <2>5 DEF Call, Raw, States, call, IterState
  <2>6. CASE Wake(r) \/ Signal(r)
    BY <2>1, <2>3, <2>6 DEF Wake, Signal, Raw, States, call
  <2>7. CASE LockAll(r) \/ LockShared(r) \/ LockCpu(r)
    BY <2>1, <2>3, <2>7 DEF LockAll, LockShared, LockCpu, AfterLock, States, call
  <2>8. CASE WaitPipe(r)
    BY <2>1, <2>3, <2>8 DEF WaitPipe, States, call
  <2>9. CASE CheckEmpty(r)
    BY <2>1, <2>3, <2>9 DEF CheckEmpty, States, call, IterState
  <2>10. CASE Unlock(r)
    BY <2>1, <2>3, <2>10 DEF Unlock, States, call
  <2>11. CASE Find(r) \/ FindAfter(r)
    <3>1. iter'[r].at \in {"print", "unlock"}
      BY <2>4, <2>11 DEF Find, FindAfter
    <3>2. iter[r].at \in {"find", "next"}
      BY <2>11 DEF Find, FindAfter
    <3>3. call \in {"read", "splice"}
      BY <2>1, <3>2 DEF States
    <3> QED BY <3>1, <3>3 DEF States, call
  <2>12. CASE FindFirst(r)
    <3>1. iter'[r].at \in {"down", "idle"}
      BY <2>3, <2>4, <2>12 DEF FindFirst
    <3> QED BY <2>1, <3>1 DEF States, call
  <2>13. CASE PrintLine(r)
    <3>1. iter'[r].at \in {"consume", "unlock"}
      BY <2>1, <2>3, <2>13 DEF PrintLine, IterState
    <3>2. call \in {"read", "splice"}
      BY <2>1, <2>13 DEF PrintLine, States
    <3> QED BY <3>1, <3>2 DEF States, call
  <2>14. CASE Consume(r)
    BY <2>1, <2>3, <2>14 DEF Consume, States, call
  <2>15. CASE TakePage(r) \/ TakePages(r)
    <3>1. iter'[r].at = "unlock"
      BY <2>1, <2>3, <2>15 DEF TakePage, TakePages, Given, NothingGiven, IterState
    <3> QED BY <2>1, <2>15, <3>1 DEF TakePage, TakePages, States
  <2> QED BY <1>2, <2>5, <2>6, <2>7, <2>8, <2>9, <2>10, <2>11, <2>12, <2>13, <2>14, <2>15 DEF Step, call
<1>3. ASSUME NEW c \in Cpu, Record(c) PROVE CallsOK'
  BY <1>3 DEF Record, CallsOK
<1>4. CASE UNCHANGED <<files, recorded, buffer, reader_page, locks, iter, out>>
  BY <1>4 DEF CallsOK
<1> QED BY <1>1, <1>2, <1>3, <1>4, StepMoves

(* The oldest entry is found, and its page is the reader's.                  *)
LEMMA FindNextEntry ==
    ASSUME TypeInv, NEW r \in Reader, NEW at, NEW none, FindNext(r, at, none)
    PROVE  /\ \/ iter'[r].at = none /\ iter'[r].ent = 0
              \/ \E o \in CpusOf(r) :
                    /\ o \in Cpu /\ buffer[o] # << >> /\ reader_page'[o]
                    /\ iter'[r].at = at /\ iter'[r].cpu = o
                    /\ iter'[r].ent = Head(buffer[o]) /\ Head(buffer[o]) \in 1 .. recorded
           /\ \A c \in Cpu : reader_page[c] => reader_page'[c]
<1> DEFINE C == {c \in CpusOf(r) : buffer[c] # << >>}
<1>1. /\ iter \in [Reader -> IterState] /\ reader_page \in [Cpu -> BOOLEAN]
      /\ recorded \in 0 .. MaxEvents /\ iter[r] \in IterState
  BY DEF TypeInv, PlainType
<1>2. CASE C = {}
  <2>1. iter' = [iter EXCEPT ![r].ent = 0, ![r].at = none] /\ reader_page' = reader_page
    BY <1>2 DEF FindNext
  <2> QED BY <1>1, <2>1 DEF IterState
<1>3. CASE C # {}
  <2>1. C \in SUBSET Cpu /\ \A c \in C : buffer[c] # << >>
    BY CpuOfFile
  <2>2. SeqType /\ recorded \in Nat
    BY <1>1, BoundAssumption DEF TypeInv
  <2>3. iter' = [iter EXCEPT ![r].ent = Head(buffer[Oldest(C)]), ![r].cpu = Oldest(C), ![r].at = at]
        /\ reader_page' = Peeked(C)
    BY <1>3 DEF FindNext
  <2>4. C \subseteq CpusOf(r)
    OBVIOUS
  <2> HIDE DEF C
  <2>5. PICK o \in C : o = Oldest(C)
    BY <1>3, <2>1, <2>2, OldestIn
  <2>6. Head(buffer[o]) \in 1 .. recorded
    BY <2>1, <2>2, BufferType, HeadTailProperties
  <2>7. iter' = [iter EXCEPT ![r].ent = Head(buffer[o]), ![r].cpu = o, ![r].at = at]
    BY <2>3, <2>5
  <2>8. iter'[r].at = at /\ iter'[r].cpu = o /\ iter'[r].ent = Head(buffer[o])
    BY <1>1, <2>7 DEF IterState
  <2>9. reader_page'[o] /\ \A c \in Cpu : reader_page[c] => reader_page'[c]
    BY <2>1, <2>3 DEF Peeked
  <2> QED BY <2>1, <2>4, <2>6, <2>8, <2>9
<1> QED BY <1>2, <1>3

(* Only looking for an entry, and reading anew, changes the entry.           *)
LEMMA EntryKept ==
    ASSUME TypeInv, NEW r \in Reader,
           Call(r) \/ Wake(r) \/ Signal(r) \/ LockAll(r) \/ LockShared(r) \/ LockCpu(r) \/ WaitPipe(r)
             \/ Unlock(r) \/ PrintLine(r) \/ Consume(r) \/ TakePage(r) \/ TakePages(r)
    PROVE  iter'[r].ent = iter[r].ent /\ iter'[r].cpu = iter[r].cpu
<1>1. iter \in [Reader -> IterState] /\ iter[r] \in IterState
  BY DEF TypeInv, PlainType
<1>2. ASSUME NEW at, Goto(r, at) PROVE iter'[r].ent = iter[r].ent /\ iter'[r].cpu = iter[r].cpu
  BY <1>1, <1>2 DEF Goto, IterState
<1>3. ASSUME NEW at, NEW got, iter' = [iter EXCEPT ![r].at = at, ![r].got = got]
      PROVE  iter'[r].ent = iter[r].ent /\ iter'[r].cpu = iter[r].cpu
  BY <1>1, <1>3 DEF IterState
<1>4. CASE Wake(r) \/ Signal(r) \/ LockAll(r) \/ LockShared(r) \/ LockCpu(r) \/ WaitPipe(r)
  BY <1>2, <1>4 DEF Wake, Signal, LockAll, LockShared, LockCpu, WaitPipe
<1>5. CASE Call(r) \/ Unlock(r) \/ PrintLine(r) \/ Consume(r) \/ TakePage(r) \/ TakePages(r)
  BY <1>2, <1>3, <1>5 DEF Call, Unlock, PrintLine, Consume, TakePage, TakePages, Given, NothingGiven
<1> QED BY <1>4, <1>5

(* Where the actions that keep the entry lead.                               *)
LEMMA PlaceAfter ==
    ASSUME TypeInv, CallsOK, NEW r \in Reader
    PROVE  /\ Call(r) \/ Wake(r) => /\ iter'[r].at \in {"wait", "down"}
                                    /\ files[r].call = "splice" => iter'[r].at = "wait"
           /\ WaitPipe(r) \/ Signal(r) => iter'[r].at \in {"first", "check", "idle", "sleep"}
           /\ LockAll(r) => iter[r].at = "down" /\ files[r].cpu = All /\ iter'[r].at = AfterLock(r)
           /\ LockShared(r) => iter[r].at = "down" /\ files[r].cpu # All /\ iter'[r].at = "mutex"
           /\ LockCpu(r) => iter[r].at = "mutex" /\ iter'[r].at = AfterLock(r)
           /\ Unlock(r) => iter[r].at = "unlock" /\ iter'[r].at \in {"idle", "wait", "sleep"}
           /\ PrintLine(r) => iter[r].at = "print" /\ iter'[r].at \in {"consume", "unlock"}
           /\ Consume(r) => iter[r].at = "consume" /\ iter'[r].at \in {"find", "next", "unlock"}
           /\ TakePage(r) \/ TakePages(r) => iter[r].at = "take" /\ iter'[r].at = "unlock"
<1>1. iter \in [Reader -> IterState] /\ iter[r] \in IterState
  BY DEF TypeInv, PlainType
<1>2. ASSUME NEW at, Goto(r, at) PROVE iter'[r].at = at
  BY <1>1, <1>2 DEF Goto, IterState
<1>3. ASSUME NEW at, NEW got, iter' = [iter EXCEPT ![r].at = at, ![r].got = got]
      PROVE  iter'[r].at = at
  BY <1>1, <1>3 DEF IterState
<1>4. Call(r) \/ Wake(r) => /\ iter'[r].at \in {"wait", "down"}
                            /\ files[r].call = "splice" => iter'[r].at = "wait"
  BY <1>2, <1>3 DEF Call, Wake, Raw
<1>5. WaitPipe(r) \/ Signal(r) => iter'[r].at \in {"first", "check", "idle", "sleep"}
  BY <1>2 DEF WaitPipe, Signal
<1>6. LockAll(r) => iter[r].at = "down" /\ files[r].cpu = All /\ iter'[r].at = AfterLock(r)
  BY <1>2 DEF LockAll
<1>7. LockShared(r) => iter[r].at = "down" /\ files[r].cpu # All /\ iter'[r].at = "mutex"
  BY <1>2 DEF LockShared
<1>8. LockCpu(r) => iter[r].at = "mutex" /\ iter'[r].at = AfterLock(r)
  BY <1>2 DEF LockCpu
<1>9. Unlock(r) => iter[r].at = "unlock" /\ iter'[r].at \in {"idle", "wait", "sleep"}
  BY <1>2 DEF Unlock
<1>10. PrintLine(r) => iter[r].at = "print" /\ iter'[r].at \in {"consume", "unlock"}
  BY <1>2, <1>3 DEF PrintLine
<1>11. Consume(r) => iter[r].at = "consume" /\ iter'[r].at \in {"find", "next", "unlock"}
  BY <1>2 DEF Consume
<1>12. TakePage(r) \/ TakePages(r) => iter[r].at = "take" /\ iter'[r].at = "unlock"
  BY <1>2, <1>3 DEF TakePage, TakePages, Given, NothingGiven
<1> QED BY <1>4, <1>5, <1>6, <1>7, <1>8, <1>9, <1>10, <1>11, <1>12

LEMMA KnownNext ==
    ASSUME TypeInv, CallsOK, EntriesKnown, [Next]_vars
    PROVE  EntriesKnown'
<1>1. ASSUME NEW r \in Reader, Moves(r), iter'[r].ent <= recorded,
             \/ iter'[r].at = "print"
             \/ files[r].call = "splice" /\ iter'[r].at \in {"down", "mutex"}
             => iter'[r].ent # 0
      PROVE  EntriesKnown'
  BY <1>1 DEF Moves, EntriesKnown, TypeInv, PlainType
<1>2. ASSUME NEW r \in Reader, Moves(r),
             Call(r) \/ Wake(r) \/ Signal(r) \/ LockAll(r) \/ LockShared(r) \/ LockCpu(r) \/ Step(r)
      PROVE  /\ iter'[r].ent <= recorded
             /\ \/ iter'[r].at = "print"
                \/ files[r].call = "splice" /\ iter'[r].at \in {"down", "mutex"}
                => iter'[r].ent # 0
  <2>1. /\ iter[r].ent <= recorded
        /\ \/ iter[r].at = "print"
           \/ files[r].call = "splice" /\ iter[r].at \in {"down", "mutex"}
           => iter[r].ent # 0
    BY DEF EntriesKnown
  <2>2. recorded \in Nat
    BY BoundAssumption DEF TypeInv, PlainType
  <2>3. CASE Call(r) \/ Wake(r) \/ WaitPipe(r) \/ Signal(r) \/ Unlock(r) \/ PrintLine(r) \/ Consume(r)
             \/ TakePage(r) \/ TakePages(r)
    <3>1. iter'[r].ent = iter[r].ent
      BY <2>3, EntryKept
    <3>2. ~ (\/ iter'[r].at = "print"
             \/ files[r].call = "splice" /\ iter'[r].at \in {"down", "mutex"})
      BY <2>3, PlaceAfter
    <3> QED BY <2>1, <3>1, <3>2
  <2>4. CASE LockAll(r) \/ LockShared(r) \/ LockCpu(r)
    <3>1. iter'[r].ent = iter[r].ent
      BY <2>4, EntryKept
    <3>2. iter[r].at \in {"down", "mutex"} /\ iter'[r].at \in {"mutex", AfterLock(r)}
      BY <2>4, PlaceAfter
    <3>3. AfterLock(r) = "print" => files[r].call = "splice"
      BY DEF AfterLock
    <3> QED BY <2>1, <3>1, <3>2, <3>3
  <2>5. CASE CheckEmpty(r)
    <3>1. iter \in [Reader -> IterState] /\ iter[r] \in IterState
      BY DEF TypeInv, PlainType
    <3>2. files[r].call \in {"read", "splice", "raw", "pages"} /\ iter[r].at \in States(files[r].call)
      BY CpuOfFile DEF CallsOK
    <3>3. iter[r].at = "check"
      BY <2>5 DEF CheckEmpty
    <3>4. files[r].call = "read"
      BY <3>2, <3>3 DEF States
    <3>5. iter'[r].at \in {"eof", "down"} /\ iter'[r].ent \in {0, iter[r].ent}
      BY <2>5, <3>1 DEF CheckEmpty, Goto, IterState
    <3> QED BY <2>1, <2>2, <3>4, <3>5
  <2>6. ASSUME NEW at, NEW none \in {"unlock", "idle"}, FindNext(r, at, none)
        PROVE  /\ iter'[r].ent <= recorded
               /\ iter'[r].at \in {"print", "down", "mutex"} => iter'[r].ent # 0
    <3>1. \/ iter'[r].at = none /\ iter'[r].ent = 0
          \/ iter'[r].ent \in 1 .. recorded
      BY <2>6, FindNextEntry
    <3> QED BY <2>2, <3>1
  <2>7. CASE Find(r) \/ FindAfter(r)
    BY <2>6, <2>7 DEF Find, FindAfter
  <2>8. CASE FindFirst(r)
    <3>1. CASE iter[r].ent # 0 /\ Goto(r, "down")
      <4>1. iter'[r].ent = iter[r].ent /\ iter'[r].at = "down"
        BY <3>1 DEF Goto, TypeInv, PlainType, IterState
      <4> QED BY <2>1, <3>1, <4>1
    <3>2. CASE FindNext(r, "down", "idle")
      BY <2>6, <3>2
    <3> QED BY <2>8, <3>1, <3>2 DEF FindFirst
  <2> QED BY <1>2, <2>3, <2>4, <2>5, <2>7, <2>8 DEF Step
<1>3. ASSUME NEW c \in Cpu, Record(c) PROVE EntriesKnown'
  <2>1. recorded \in Nat /\ \A r \in Reader : iter[r].ent \in Nat
    BY BoundAssumption, IterType DEF TypeInv, PlainType
  <2> QED BY <1>3, <2>1 DEF Record, EntriesKnown
<1>4. CASE UNCHANGED <<files, recorded, buffer, reader_page, locks, iter, out>>
  BY <1>4 DEF EntriesKnown
<1> QED BY <1>1, <1>2, <1>3, <1>4, StepMoves

-----------------------------------------------------------------------------
(* The locks.                                                                *)

CallsMoves(r) ==
    Call(r) \/ Wake(r) \/ Signal(r) \/ WaitPipe(r) \/ CheckEmpty(r) \/ Find(r) \/ FindFirst(r)
      \/ PrintLine(r) \/ Consume(r) \/ FindAfter(r) \/ TakePage(r) \/ TakePages(r)

(* A step that takes no lock and gives none back leads nobody inside.        *)
LEMMA NoLockStep ==
    ASSUME TypeInv, CallsOK, NEW r \in Reader, CallsMoves(r)
    PROVE  /\ UNCHANGED <<all_cpu_access_lock, cpu_access_lock>>
           /\ Inside(r)' => Inside(r)
           /\ iter'[r].at # "mutex"
<1>1. UNCHANGED <<all_cpu_access_lock, cpu_access_lock>>
  BY DEF CallsMoves, Call, Wake, Signal, WaitPipe, CheckEmpty, Find, FindFirst, PrintLine, Consume,
         FindAfter, TakePage, TakePages, locks
<1>2. CASE Call(r) \/ Wake(r) \/ Signal(r) \/ WaitPipe(r) \/ PrintLine(r) \/ Consume(r)
           \/ TakePage(r) \/ TakePages(r)
  BY <1>1, <1>2, PlaceAfter DEF Inside
<1>3. CASE CheckEmpty(r)
  <2>1. iter'[r].at \in {"eof", "down"}
    BY <1>3 DEF CheckEmpty, Goto, TypeInv, PlainType, IterState
  <2> QED BY <1>1, <2>1 DEF Inside
<1>4. CASE Find(r) \/ FindAfter(r)
  <2>1. iter'[r].at \in {"print", "unlock"}
    BY <1>4, FindNextEntry DEF Find, FindAfter
  <2>2. iter[r].at \in {"find", "next"}
    BY <1>4 DEF Find, FindAfter
  <2> QED BY <1>1, <2>1, <2>2 DEF Inside
<1>5. CASE FindFirst(r)
  <2>1. CASE Goto(r, "down")
    <3>1. iter'[r].at = "down"
      BY <2>1 DEF Goto, TypeInv, PlainType, IterState
    <3> QED BY <1>1, <3>1 DEF Inside
  <2>2. CASE FindNext(r, "down", "idle")
    <3>1. iter'[r].at \in {"down", "idle"}
      BY <2>2, FindNextEntry
    <3> QED BY <1>1, <3>1 DEF Inside
  <2> QED BY <1>5, <2>1, <2>2 DEF FindFirst
<1> QED BY <1>2, <1>3, <1>4, <1>5 DEF CallsMoves

LEMMA LocksNext ==
    ASSUME TypeInv, CallsOK, LocksHeld, [Next]_vars
    PROVE  LocksHeld'
<1> DEFINE lock == all_cpu_access_lock
<1>1. /\ iter \in [Reader -> IterState]
      /\ lock \in [writer: Reader \cup {Nobody}, readers: SUBSET Reader]
      /\ cpu_access_lock \in [Cpu -> Reader \cup {Nobody}]
  BY DEF TypeInv, PlainType
<1>2. ASSUME NEW r \in Reader, Moves(r), CallsMoves(r) PROVE LocksHeld'
  <2>1. /\ UNCHANGED <<all_cpu_access_lock, cpu_access_lock, files>>
        /\ Inside(r)' => Inside(r)
        /\ iter'[r].at # "mutex"
    BY <1>2, NoLockStep DEF Moves
  <2>2. \A s \in Reader \ {r} : iter'[s] = iter[s]
    BY <1>1, <1>2 DEF Moves
  <2>3. \A s \in Reader : (Inside(s)' => Inside(s)) /\ (iter'[s].at = "mutex" => iter[s].at = "mutex")
    BY <2>1, <2>2 DEF Inside
  <2> QED BY <2>1, <2>3 DEF LocksHeld
<1>3. ASSUME NEW r \in Reader, Moves(r), LockAll(r) PROVE LocksHeld'
  <2>1. /\ lock.writer = Nobody /\ lock.readers = {}
        /\ lock'.writer = r /\ lock'.readers = {}
        /\ UNCHANGED <<cpu_access_lock, files>> /\ files[r].cpu = All
    BY <1>1, <1>3 DEF LockAll, DownWriteFree
  <2>2. \A s \in Reader : ~Inside(s) /\ iter[s].at # "mutex"
    BY <2>1, ReaderAssumption DEF LocksHeld
  <2>3. \A s \in Reader \ {r} : iter'[s] = iter[s]
    BY <1>1, <1>3 DEF Moves
  <2>4. iter'[r].at # "mutex"
    BY <1>3, PlaceAfter DEF AfterLock
  <2>5. \A s \in Reader : (Inside(s)' => s = r) /\ iter'[s].at # "mutex"
    BY <2>2, <2>3, <2>4 DEF Inside
  <2> QED BY <2>1, <2>5 DEF LocksHeld
<1>4. ASSUME NEW r \in Reader, Moves(r), LockShared(r) PROVE LocksHeld'
  <2>1. /\ lock'.writer = lock.writer /\ lock.writer = Nobody
        /\ lock'.readers = lock.readers \cup {r}
        /\ UNCHANGED <<cpu_access_lock, files>> /\ files[r].cpu # All
    BY <1>1, <1>4 DEF LockShared
  <2>2. iter'[r].at = "mutex"
    BY <1>4, PlaceAfter
  <2>3. \A s \in Reader \ {r} : iter'[s] = iter[s]
    BY <1>1, <1>4 DEF Moves
  <2>4. \A s \in Reader : /\ Inside(s)' => Inside(s) /\ s # r
                          /\ iter'[s].at = "mutex" => s = r \/ iter[s].at = "mutex"
    BY <2>2, <2>3 DEF Inside
  <2> QED BY <2>1, <2>4 DEF LocksHeld
<1>5. ASSUME NEW r \in Reader, Moves(r), LockCpu(r) PROVE LocksHeld'
  <2>1. /\ cpu_access_lock[files[r].cpu] = Nobody
        /\ cpu_access_lock' = [cpu_access_lock EXCEPT ![files[r].cpu] = r]
        /\ UNCHANGED <<all_cpu_access_lock, files>>
        /\ iter[r].at = "mutex" /\ iter'[r].at = AfterLock(r)
    BY <1>5, PlaceAfter DEF LockCpu, Moves
  <2>2. files[r].cpu # All /\ r \in lock.readers /\ files[r].cpu \in Cpu
    BY <2>1, CpuOfFile DEF LocksHeld
  <2>3. \A s \in Reader \ {r} : iter'[s] = iter[s]
    BY <1>1, <1>5 DEF Moves
  <2>4. \A s \in Reader : Inside(s) /\ files[s].cpu # All => cpu_access_lock[files[s].cpu] = s
    BY DEF LocksHeld
  <2>5. \A s \in Reader : Inside(s) => files[s].cpu # files[r].cpu
    BY <2>1, <2>2, <2>4, ReaderAssumption
  <2>6. iter'[r].at # "mutex"
    BY <2>1 DEF AfterLock
  <2>7. \A s \in Reader : /\ Inside(s)' => s = r \/ Inside(s)
                          /\ iter'[s].at = "mutex" => iter[s].at = "mutex"
    BY <2>3, <2>6 DEF Inside
  <2>8. cpu_access_lock'[files[r].cpu] = r
    BY <1>1, <2>1, <2>2
  <2>9. \A s \in Reader : Inside(s) => cpu_access_lock'[files[s].cpu] = cpu_access_lock[files[s].cpu]
    BY <1>1, <2>1, <2>5
  <2> QED BY <2>1, <2>2, <2>7, <2>8, <2>9 DEF LocksHeld
<1>6. ASSUME NEW r \in Reader, Moves(r), Unlock(r) PROVE LocksHeld'
  <2>1. iter[r].at = "unlock" /\ iter'[r].at \in {"idle", "wait", "sleep"} /\ UNCHANGED files
    BY <1>6, PlaceAfter DEF Moves
  <2>2. Inside(r)
    BY <2>1 DEF Inside
  <2>3. \A s \in Reader \ {r} : iter'[s] = iter[s]
    BY <1>1, <1>6 DEF Moves
  <2>4. \A s \in Reader : /\ Inside(s)' => Inside(s) /\ s # r
                          /\ iter'[s].at = "mutex" => iter[s].at = "mutex" /\ s # r
    BY <2>1, <2>3 DEF Inside
  <2>5. CASE files[r].cpu = All
    <3>1. lock'.writer = Nobody /\ lock'.readers = lock.readers /\ UNCHANGED cpu_access_lock
      BY <1>1, <1>6, <2>5 DEF Unlock
    <3>2. lock.writer = r
      BY <2>2, <2>5 DEF LocksHeld
    <3> QED BY <2>1, <2>4, <3>1, <3>2 DEF LocksHeld
  <2>6. CASE files[r].cpu # All
    <3>1. /\ lock'.writer = lock.writer /\ lock'.readers = lock.readers \ {r}
          /\ cpu_access_lock' = [cpu_access_lock EXCEPT ![files[r].cpu] = Nobody]
      BY <1>1, <1>6, <2>6 DEF Unlock, UpRead
    <3>2. \A s \in Reader \ {r} : Inside(s) => files[s].cpu # files[r].cpu
      BY <2>2, <2>6 DEF LocksHeld
    <3>3. \A s \in Reader \ {r} : Inside(s) => cpu_access_lock'[files[s].cpu] = cpu_access_lock[files[s].cpu]
      BY <1>1, <3>1, <3>2
    <3> QED BY <2>1, <2>4, <3>1, <3>3 DEF LocksHeld
  <2> QED BY <2>5, <2>6
<1>7. ASSUME NEW c \in Cpu, Record(c) PROVE LocksHeld'
  BY <1>7 DEF Record, LocksHeld, Inside, locks
<1>8. CASE UNCHANGED <<files, recorded, buffer, reader_page, locks, iter, out>>
  BY <1>8 DEF LocksHeld, Inside, locks
<1> QED BY <1>2, <1>3, <1>4, <1>5, <1>6, <1>7, <1>8, StepMoves DEF Step, CallsMoves

LEMMA InitSafe == Init => SafeInv
<1> SUFFICES ASSUME Init PROVE SafeInv
  OBVIOUS
<1>1. TypeInv
  BY InitType
<1>2. \A r \in Reader : iter[r].at = "idle" /\ iter[r].ent = 0
  BY DEF Init
<1>3. CallsOK
  BY <1>2 DEF CallsOK, States
<1>4. EntriesKnown
  BY <1>2, BoundAssumption DEF Init, EntriesKnown
<1>5. LocksHeld
  BY <1>2 DEF Init, LocksHeld, Inside
<1> QED BY <1>1, <1>3, <1>4, <1>5 DEF SafeInv

LEMMA SafeNext == SafeInv /\ [Next]_vars => SafeInv'
  BY TypeNext, CallsNext, KnownNext, LocksNext DEF SafeInv

LEMMA SafeCorrect == SafeSpec => []SafeInv
  BY InitSafe, SafeNext, PTL DEF SafeSpec

(* TypeOK: the state keeps its types; in particular a buffer holds at most   *)
(* Cap events, and what is buffered or given to a reader was recorded.       *)
THEOREM TypeCorrect == Spec => []TypeOK
<1>1. SafeInv => TypeOK
  <2> SUFFICES ASSUME SafeInv PROVE TypeOK
    OBVIOUS
  <2>1. PlainType /\ SeqType
    BY DEF SafeInv, TypeInv
  <2>2. ASSUME NEW s \in Seq(1 .. recorded) PROVE \A i \in DOMAIN s : s[i] \in 1 .. recorded
    BY LenProperties, ElementOfSeq
  <2>3. \A c \in Cpu : Len(buffer[c]) <= Cap /\ \A i \in DOMAIN buffer[c] : buffer[c][i] \in 1 .. recorded
    BY <2>1, <2>2 DEF SeqType
  <2>4. \A r \in Reader : \A i \in DOMAIN out[r] : out[r][i] \in 1 .. recorded
    BY <2>1, <2>2 DEF SeqType
  <2> QED BY <2>1, <2>3, <2>4 DEF TypeOK, PlainType
<1>2. Spec => SafeSpec
  BY DEF Spec, SafeSpec
<1> QED BY <1>1, <1>2, SafeCorrect, PTL

-----------------------------------------------------------------------------
(* The entries.                                                              *)

(* Two readers inside share no CPU.                                          *)
LEMMA Exclusive ==
    ASSUME SafeInv, NEW r \in Reader, NEW s \in Reader, Inside(r), Inside(s),
           NEW c \in CpusOf(r) \cap CpusOf(s)
    PROVE  r = s
<1> DEFINE lock == all_cpu_access_lock
<1>1. ASSUME NEW p \in Reader, Inside(p)
      PROVE  /\ files[p].cpu = All => lock.writer = p
             /\ files[p].cpu # All => cpu_access_lock[files[p].cpu] = p /\ p \in lock.readers
  BY <1>1 DEF SafeInv, LocksHeld
<1>2. lock.writer # Nobody => lock.readers = {}
  BY DEF SafeInv, LocksHeld
<1>3. CASE files[r].cpu = All \/ files[s].cpu = All
  BY <1>1, <1>2, <1>3, ReaderAssumption
<1>4. CASE files[r].cpu # All /\ files[s].cpu # All
  <2>1. files[r].cpu = c /\ files[s].cpu = c
    BY <1>4 DEF CpusOf
  <2> QED BY <1>1, <1>4, <2>1
<1> QED BY <1>3, <1>4

(* Nobody else has an entry of the CPUs of a reader that is inside.          *)
LEMMA Alone ==
    ASSUME SpliceAlone, IndInv, NEW r \in Reader, NEW s \in Reader, r # s,
           Inside(r), HasEntry(s), NEW c \in CpusOf(r)
    PROVE  iter[s].cpu # c
<1> SUFFICES ASSUME iter[s].cpu = c PROVE FALSE
  OBVIOUS
<1>1. c \in CpusOf(s)
  BY DEF IndInv, EntriesHeld, EntryHeld
<1>2. CASE iter[s].at \in {"print", "consume"}
  <2>1. Inside(s)
    BY <1>2 DEF Inside
  <2> QED BY <1>1, <2>1, Exclusive DEF IndInv
<1>3. CASE files[s].call = "splice"
  <2>1. files \in OpenFiles
    BY DEF IndInv, SafeInv, TypeInv, PlainType
  <2>2. FileCpus(files, s) \cap FileCpus(files, r) = {}
    BY <1>3, <2>1 DEF SpliceAlone
  <2> QED BY <1>1, <2>2 DEF FileCpus, CpusOf
<1> QED BY <1>2, <1>3 DEF HasEntry

(* Room spares the entry on the reader page.                                 *)
LEMMA RoomSpares ==
    ASSUME TypeInv, NEW c \in Cpu, reader_page[c], buffer[c] # << >>
    PROVE  Room(c) # << >> /\ Head(Room(c)) = Head(buffer[c])
<1>1. buffer[c] \in Seq(1 .. recorded) /\ Len(buffer[c]) \in Nat
  BY BufferType
<1>2. CASE Len(buffer[c]) < Cap
  BY <1>2 DEF Room
<1>3. CASE ~ (Len(buffer[c]) < Cap)
  <2>1. Len(buffer[c]) > 1
    BY <1>1, <1>3, BoundAssumption
  <2>2. Room(c) = RemoveAt(buffer[c], 2)
    BY <1>3 DEF Room
  <2> QED BY <1>1, <2>1, <2>2, SecondRemoved
<1> QED BY <1>2, <1>3

LEMMA RecordEntries ==
    ASSUME IndInv, NEW c \in Cpu, Record(c)
    PROVE  EntriesHeld'
<1>1. TypeInv /\ EntriesHeld
  BY DEF IndInv, SafeInv
<1>2. /\ UNCHANGED <<files, reader_page, iter>>
      /\ buffer' = [buffer EXCEPT ![c] = Append(Room(c), recorded + 1)]
  BY DEF Record
<1>3. buffer \in [Cpu -> Seq(1 .. recorded)]
  BY <1>1 DEF TypeInv, SeqType
<1>4. SUFFICES ASSUME NEW r \in Reader, HasEntry(r) PROVE EntryHeld(r)'
  BY <1>2 DEF EntriesHeld, HasEntry
<1> DEFINE d == iter[r].cpu
<1>5. d \in CpusOf(r) /\ d \in Cpu /\ reader_page[d] /\ buffer[d] # << >> /\ iter[r].ent = Head(buffer[d])
  BY <1>1, <1>4, CpuOfFile DEF EntriesHeld, EntryHeld
<1>6. buffer'[d] # << >> /\ Head(buffer'[d]) = Head(buffer[d])
  <2>1. CASE d = c
    <3>1. Room(c) # << >> /\ Head(Room(c)) = Head(buffer[c])
      BY <1>1, <1>5, <2>1, RoomSpares
    <3>2. Room(c) \in Seq(1 .. recorded)
      BY <1>1, RoomType
    <3>3. buffer'[c] = Append(Room(c), recorded + 1)
      BY <1>2, <1>3
    <3>4. Head(Append(Room(c), recorded + 1)) = Head(Room(c))
      BY <3>1, <3>2, HeadTailAppend
    <3>5. Append(Room(c), recorded + 1) # << >>
      BY <3>2
    <3> QED BY <2>1, <3>1, <3>3, <3>4, <3>5
  <2>2. CASE d # c
    BY <1>2, <1>3, <1>5, <2>2
  <2> QED BY <2>1, <2>2
<1> QED BY <1>2, <1>5, <1>6 DEF EntryHeld, CpusOf

(* The readers that do not move keep their entry.                            *)
LEMMA OthersEntries ==
    ASSUME SpliceAlone, IndInv, NEW r \in Reader, NEW s \in Reader, s # r, Moves(r),
           LockAll(r) \/ LockShared(r) \/ LockCpu(r) \/ Unlock(r) \/ CallsMoves(r), HasEntry(s)'
    PROVE  EntryHeld(s)'
<1>0. TypeInv /\ CallsOK /\ EntriesHeld
  BY DEF IndInv, SafeInv
<1>1. iter'[s] = iter[s] /\ files' = files
  BY <1>0 DEF Moves, TypeInv, PlainType
<1>2. HasEntry(s)
  BY <1>1 DEF HasEntry
<1> DEFINE d == iter[s].cpu
<1>3. d \in CpusOf(s) /\ d \in Cpu /\ reader_page[d] /\ buffer[d] # << >> /\ iter[s].ent = Head(buffer[d])
  BY <1>0, <1>2, CpuOfFile DEF EntriesHeld, EntryHeld
<1>4. SUFFICES reader_page'[d] /\ buffer'[d] = buffer[d]
  BY <1>1, <1>3 DEF EntryHeld, CpusOf
<1>5. CASE LockAll(r) \/ LockShared(r) \/ LockCpu(r) \/ Unlock(r) \/ Call(r) \/ Wake(r) \/ Signal(r)
           \/ WaitPipe(r) \/ CheckEmpty(r) \/ PrintLine(r)
  BY <1>3, <1>5 DEF LockAll, LockShared, LockCpu, Unlock, Call, Wake, Signal, WaitPipe, CheckEmpty,
                    PrintLine, trace
<1>6. ASSUME NEW at, NEW none, FindNext(r, at, none) PROVE reader_page'[d]
  BY <1>0, <1>3, <1>6, FindNextEntry
<1>7. CASE Find(r) \/ FindAfter(r) \/ FindFirst(r)
  BY <1>3, <1>6, <1>7 DEF Find, FindAfter, FindFirst
<1>8. buffer \in [Cpu -> Seq(1 .. recorded)] /\ reader_page \in [Cpu -> BOOLEAN]
  BY <1>0 DEF TypeInv, PlainType, SeqType
<1>9. CASE Consume(r)
  <2>1. HasEntry(r) /\ Inside(r)
    BY <1>9 DEF Consume, HasEntry, Inside
  <2>2. iter[r].cpu \in CpusOf(r)
    BY <1>0, <2>1 DEF EntriesHeld, EntryHeld
  <2>3. d # iter[r].cpu
    BY <1>2, <2>1, <2>2, Alone
  <2> QED BY <1>3, <1>8, <1>9, <2>3 DEF Consume
<1>10. CASE TakePage(r) \/ TakePages(r)
  <2>1. Inside(r) /\ files[r].call \in {"raw", "pages"}
    BY <1>10 DEF TakePage, TakePages, Inside
  <2>2. files[r].cpu \in CpusOf(r)
    BY <1>0, <2>1, CpuOfFile, CpuAssumption DEF CpusOf
  <2>3. d # files[r].cpu
    BY <1>2, <2>1, <2>2, Alone
  <2> QED BY <1>3, <1>8, <1>10, <2>3 DEF TakePage, TakePages, Given, NothingGiven
<1> QED BY <1>5, <1>7, <1>9, <1>10 DEF CallsMoves

(* The reader that moves has the entry that it had, or one it has found.     *)
LEMMA OwnEntry ==
    ASSUME IndInv, NEW r \in Reader, Moves(r),
           LockAll(r) \/ LockShared(r) \/ LockCpu(r) \/ Unlock(r) \/ CallsMoves(r), HasEntry(r)'
    PROVE  EntryHeld(r)'
<1>0. TypeInv /\ CallsOK /\ EntriesHeld /\ EntriesKnown
  BY DEF IndInv, SafeInv
<1>1. files' = files /\ CpusOf(r)' = CpusOf(r)
  BY DEF Moves, CpusOf
<1>2. /\ \/ iter'[r].at \in {"print", "consume"}
         \/ files[r].call = "splice" /\ iter'[r].ent # 0 /\ iter'[r].at # "next"
      /\ iter[r].at \in States(files[r].call)
  BY <1>0, <1>1 DEF HasEntry, CallsOK
<1>3. ASSUME HasEntry(r), UNCHANGED <<buffer, reader_page>>, iter'[r].ent = iter[r].ent,
             iter'[r].cpu = iter[r].cpu
      PROVE  EntryHeld(r)'
  BY <1>0, <1>1, <1>3 DEF EntriesHeld, EntryHeld
<1>4. CASE LockAll(r) \/ LockShared(r) \/ LockCpu(r) \/ Unlock(r) \/ Call(r) \/ Wake(r) \/ Signal(r)
           \/ WaitPipe(r) \/ PrintLine(r)
  <2>1. UNCHANGED <<buffer, reader_page>>
    BY <1>4 DEF LockAll, LockShared, LockCpu, Unlock, Call, Wake, Signal, WaitPipe, PrintLine, trace
  <2>2. iter'[r].ent = iter[r].ent /\ iter'[r].cpu = iter[r].cpu
    BY <1>0, <1>4, EntryKept
  <2>3. iter[r].at # "next"
    BY <1>4 DEF LockAll, LockShared, LockCpu, Unlock, Call, Wake, Signal, WaitPipe, PrintLine
  <2>4. CASE LockAll(r) \/ LockShared(r) \/ LockCpu(r)
    <3>1. iter[r].at \in {"down", "mutex"} /\ iter'[r].at \in {"mutex", AfterLock(r)}
      BY <1>0, <2>4, PlaceAfter
    <3>2. iter'[r].at \in {"print", "consume"} => files[r].call = "splice"
      BY <3>1 DEF AfterLock
    <3>3. files[r].call = "splice"
      BY <1>2, <3>2
    <3>4. HasEntry(r)
      BY <1>0, <2>3, <3>1, <3>3 DEF EntriesKnown, HasEntry
    <3> QED BY <1>3, <2>1, <2>2, <3>4
  <2>5. CASE PrintLine(r)
    <3>1. HasEntry(r)
      BY <2>5 DEF PrintLine, HasEntry
    <3> QED BY <1>3, <2>1, <2>2, <3>1
  <2>6. CASE Unlock(r) \/ Call(r) \/ Wake(r) \/ Signal(r) \/ WaitPipe(r)
    <3>1. iter'[r].at \notin {"print", "consume"}
      BY <1>0, <2>6, PlaceAfter
    <3>2. HasEntry(r)
      BY <1>2, <2>2, <2>3, <3>1 DEF HasEntry
    <3> QED BY <1>3, <2>1, <2>2, <3>2
  <2> QED BY <1>4, <2>4, <2>5, <2>6
<1>5. CASE CheckEmpty(r)
  <2>1. iter[r].at = "check"
    BY <1>5 DEF CheckEmpty
  <2>2. files[r].call # "splice"
    BY <1>2, <2>1 DEF States
  <2>3. iter'[r].at \in {"eof", "down"}
    BY <1>0, <1>5 DEF CheckEmpty, Goto, TypeInv, PlainType, IterState
  <2> QED BY <1>2, <2>2, <2>3
<1>6. ASSUME NEW at, NEW none \in {"unlock", "idle"}, FindNext(r, at, none), UNCHANGED buffer
      PROVE  EntryHeld(r)'
  <2>1. \/ iter'[r].at = none /\ iter'[r].ent = 0
        \/ \E o \in CpusOf(r) : /\ buffer[o] # << >> /\ reader_page'[o]
                                /\ iter'[r].cpu = o /\ iter'[r].ent = Head(buffer[o])
    BY <1>0, <1>6, FindNextEntry
  <2>2. ~ (iter'[r].at = none /\ iter'[r].ent = 0)
    BY <1>2
  <2> QED BY <1>1, <1>6, <2>1, <2>2 DEF EntryHeld
<1>7. CASE Find(r) \/ FindAfter(r)
  BY <1>6, <1>7 DEF Find, FindAfter
<1>8. CASE FindFirst(r)
  <2>1. UNCHANGED buffer
    BY <1>8 DEF FindFirst
  <2>2. CASE iter[r].ent # 0 /\ Goto(r, "down") /\ UNCHANGED reader_page
    <3>1. iter'[r].ent = iter[r].ent /\ iter'[r].cpu = iter[r].cpu /\ iter'[r].at = "down"
      BY <1>0, <2>2 DEF Goto, TypeInv, PlainType, IterState
    <3>2. iter[r].at = "first"
      BY <1>8 DEF FindFirst
    <3>3. HasEntry(r)
      BY <1>2, <3>1, <3>2, <2>2 DEF HasEntry
    <3> QED BY <1>3, <2>1, <2>2, <3>1, <3>3
  <2>3. CASE FindNext(r, "down", "idle")
    BY <1>6, <2>1, <2>3
  <2> QED BY <1>8, <2>2, <2>3 DEF FindFirst
<1>9. CASE Consume(r)
  <2>1. iter'[r].at \in {"find", "next", "unlock"}
    BY <1>0, <1>9, PlaceAfter
  <2>2. files[r].call = "splice" => iter'[r].at = "next"
    BY <1>0, <1>9 DEF Consume, Goto, TypeInv, PlainType, IterState
  <2> QED BY <1>2, <2>1, <2>2
<1>10. CASE TakePage(r) \/ TakePages(r)
  <2>1. files[r].call # "splice" /\ iter'[r].at = "unlock"
    BY <1>0, <1>10, PlaceAfter DEF TakePage, TakePages
  <2> QED BY <1>2, <2>1
<1> QED BY <1>4, <1>5, <1>7, <1>8, <1>9, <1>10 DEF CallsMoves

LEMMA InitInd == Init => IndInv
<1> SUFFICES ASSUME Init PROVE IndInv
  OBVIOUS
<1>1. \A r \in Reader : ~ HasEntry(r)
  BY DEF Init, HasEntry
<1> QED BY <1>1, InitSafe DEF IndInv, EntriesHeld

LEMMA IndNext ==
    ASSUME SpliceAlone, IndInv, [Next]_vars
    PROVE  IndInv'
<1>1. SafeInv /\ TypeInv
  BY DEF IndInv, SafeInv
<1>2. SafeInv'
  BY <1>1, SafeNext
<1>3. ASSUME NEW r \in Reader, Moves(r),
             Call(r) \/ Wake(r) \/ Signal(r) \/ LockAll(r) \/ LockShared(r) \/ LockCpu(r) \/ Step(r)
      PROVE  EntriesHeld'
  <2>1. LockAll(r) \/ LockShared(r) \/ LockCpu(r) \/ Unlock(r) \/ CallsMoves(r)
    BY <1>3 DEF Step, CallsMoves
  <2>2. \A s \in Reader : HasEntry(s)' => EntryHeld(s)'
    BY <1>3, <2>1, OwnEntry, OthersEntries
  <2> QED BY <2>2 DEF EntriesHeld
<1>4. ASSUME NEW c \in Cpu, Record(c) PROVE EntriesHeld'
  BY <1>4, RecordEntries
<1>5. ASSUME UNCHANGED <<files, recorded, buffer, reader_page, locks, iter, out>> PROVE EntriesHeld'
  BY <1>5 DEF IndInv, EntriesHeld, HasEntry, EntryHeld, CpusOf
<1>6. EntriesHeld'
  BY <1>1, <1>3, <1>4, <1>5, StepMoves
<1> QED BY <1>2, <1>6 DEF IndInv

LEMMA IndCorrect == ASSUME SpliceAlone PROVE SafeSpec => []IndInv
<1>1. IndInv /\ [Next]_vars => IndInv'
  BY IndNext
<1> QED BY <1>1, InitInd, PTL DEF SafeSpec

(* EntryValid: where no splice of trace_pipe shares its CPU, the entry that  *)
(* a reader prints is still the oldest of its CPU when it is consumed.       *)
THEOREM EntryCorrect == ASSUME SpliceAlone PROVE Spec => []EntryValid
<1>1. IndInv => EntryValid
  BY DEF IndInv, EntriesHeld, HasEntry, EntryHeld, EntryValid
<1>2. Spec => SafeSpec
  BY DEF Spec, SafeSpec
<1> QED BY <1>1, <1>2, IndCorrect, PTL

-----------------------------------------------------------------------------
(* The readers implement TraceQueue.                                         *)

LEMMA PendingAt ==
    ASSUME NEW c \in Cpu
    PROVE  Pending[c] = IF Printed(c) /\ buffer[c] # << >> THEN Tail(buffer[c]) ELSE buffer[c]
  BY DEF Pending

(* Who prints or takes pages of a CPU has no printed entry of it beside him. *)
LEMMA NothingPrinted ==
    ASSUME IndInv, NEW r \in Reader, Inside(r), iter[r].at # "consume", NEW c \in CpusOf(r)
    PROVE  ~ Printed(c)
<1> SUFFICES ASSUME NEW s \in Reader, iter[s].at = "consume", iter[s].cpu = c PROVE FALSE
  BY DEF Printed
<1>1. c \in CpusOf(s)
  BY DEF IndInv, EntriesHeld, HasEntry, EntryHeld
<1>2. Inside(s)
  BY DEF Inside
<1>3. r = s
  BY <1>1, <1>2, Exclusive DEF IndInv
<1> QED BY <1>3

(* A step that prints and consumes nothing and leaves the buffers is none of *)
(* the queue's.                                                              *)
LEMMA PendingKept ==
    ASSUME buffer' = buffer, \A c \in Cpu : Printed(c)' <=> Printed(c)
    PROVE  Pending' = Pending
  BY DEF Pending

LEMMA RecordQueue ==
    ASSUME IndInv, NEW c \in Cpu, Record(c)
    PROVE  Queue!Record(c) \/ Queue!Overwrite(c)
<1> DEFINE b == buffer[c]
           n == recorded + 1
<1>1. TypeInv /\ EntriesHeld
  BY DEF IndInv, SafeInv
<1>2. /\ recorded' = n /\ out' = out /\ iter' = iter
      /\ buffer' = [buffer EXCEPT ![c] = Append(Room(c), n)]
  BY DEF Record
<1>3. buffer \in [Cpu -> Seq(1 .. recorded)]
  BY <1>1 DEF TypeInv, SeqType
<1>4. /\ b \in Seq(1 .. recorded) /\ Len(b) \in Nat /\ Len(b) <= Cap
      /\ Room(c) \in Seq(1 .. recorded)
  BY <1>1, BufferType, RoomType
<1>5. \A d \in Cpu : Printed(d)' <=> Printed(d)
  BY <1>2 DEF Printed
<1>6. Append(Room(c), n) # << >>
  <2>1. recorded \in Nat /\ 1 .. recorded \subseteq Nat /\ n \in Nat
    BY <1>1, BoundAssumption DEF TypeInv, PlainType
  <2>2. Room(c) \in Seq(Nat)
    BY <1>4, <2>1, SeqMonotonic
  <2> HIDE DEF n
  <2> QED BY <2>1, <2>2, AppendProperties
<1>7. \A d \in Cpu : buffer'[d] = IF d = c THEN Append(Room(c), n) ELSE buffer[d]
  BY <1>2, <1>3
<1> DEFINE rest == IF Printed(c) THEN Append(Tail(Room(c)), n) ELSE Append(Room(c), n)
<1>8. Pending' = [Pending EXCEPT ![c] = rest]
  <2>1. Printed(c) => Tail(Append(Room(c), n)) = Append(Tail(Room(c)), n)
    <3> SUFFICES ASSUME Printed(c) PROVE Tail(Append(Room(c), n)) = Append(Tail(Room(c)), n)
      OBVIOUS
    <3>1. reader_page[c] /\ buffer[c] # << >>
      BY <1>1 DEF Printed, EntriesHeld, HasEntry, EntryHeld
    <3>2. Room(c) # << >>
      BY <1>1, <3>1, RoomSpares
    <3> QED BY <1>4, <3>2, HeadTailAppend
  <2>2. Pending' = [d \in Cpu |-> IF Printed(d) /\ buffer'[d] # << >> THEN Tail(buffer'[d]) ELSE buffer'[d]]
    BY <1>5 DEF Pending
  <2>3. \A d \in Cpu : Pending'[d] = IF d = c THEN rest ELSE Pending[d]
    BY <1>6, <1>7, <2>1, <2>2, PendingAt
  <2>4. DOMAIN Pending' = Cpu /\ Pending' = [d \in Cpu |-> Pending'[d]]
    BY <2>2
  <2>5. Pending = [d \in Cpu |-> Pending[d]]
    BY DEF Pending
  <2> HIDE DEF rest
  <2> QED BY <2>3, <2>4, <2>5
<1>9. CASE Len(b) < Cap
  <2>1. Room(c) = b
    BY <1>9 DEF Room
  <2>2. rest = Append(Pending[c], n)
    <3>1. CASE Printed(c)
      <4>1. b # << >>
        BY <1>1, <3>1 DEF Printed, EntriesHeld, HasEntry, EntryHeld
      <4> QED BY <2>1, <3>1, <4>1, PendingAt
    <3>2. CASE ~ Printed(c)
      BY <2>1, <3>2, PendingAt
    <3> QED BY <3>1, <3>2
  <2> HIDE DEF rest
  <2>3. Pending' = [Pending EXCEPT ![c] = Append(Pending[c], n)]
    BY <1>8, <2>2
  <2>4. Queue!Record(c)
    BY <1>2, <2>3 DEF Queue!Record
  <2> QED BY <2>4
<1>10. CASE ~ (Len(b) < Cap)
  <2>1. Len(b) > 1 /\ b # << >>
    BY <1>4, <1>10, BoundAssumption
  <2>2. \E i \in 1 .. Len(Pending[c]) : rest = Append(RemoveAt(Pending[c], i), n)
    <3>1. CASE Printed(c)
      <4>1. reader_page[c]
        BY <1>1, <3>1 DEF Printed, EntriesHeld, HasEntry, EntryHeld
      <4>2. Room(c) = RemoveAt(b, 2)
        BY <1>10, <4>1 DEF Room
      <4>3. Tail(RemoveAt(b, 2)) = RemoveAt(Tail(b), 1)
        BY <1>4, <2>1, SecondRemoved
      <4>4. Pending[c] = Tail(b)
        BY <2>1, <3>1, PendingAt
      <4>5. Len(Tail(b)) = Len(b) - 1
        BY <1>4, <2>1, HeadTailProperties
      <4>6. 1 \in 1 .. Len(Tail(b))
        BY <1>4, <2>1, <4>5
      <4>7. rest = Append(RemoveAt(Tail(b), 1), n)
        BY <3>1, <4>2, <4>3
      <4> HIDE DEF rest
      <4> QED BY <4>4, <4>6, <4>7
    <3>2. CASE ~ Printed(c)
      <4>1. Pending[c] = b
        BY <3>2, PendingAt
      <4>2. PICK i \in {1, 2} : Room(c) = RemoveAt(b, i)
        BY <1>10 DEF Room
      <4>3. i \in 1 .. Len(b)
        BY <1>4, <2>1
      <4> QED BY <3>2, <4>1, <4>2, <4>3
    <3> QED BY <3>1, <3>2
  <2> HIDE DEF rest
  <2>3. PICK i \in 1 .. Len(Pending[c]) : rest = Append(RemoveAt(Pending[c], i), n)
    BY <2>2
  <2>4. Pending' = [Pending EXCEPT ![c] = Append(RemoveAt(Pending[c], i), n)]
    BY <1>8, <2>3
  <2>5. \E j \in 1 .. Len(Pending[c]) :
           Pending' = [Pending EXCEPT ![c] = Append(Queue!RemoveAt(@, j), recorded + 1)]
    BY <2>4 DEF Queue!RemoveAt, RemoveAt
  <2>6. recorded' = recorded + 1 /\ UNCHANGED out
    BY <1>2
  <2> HIDE DEF n, b
  <2> QED BY <2>5, <2>6 DEF Queue!Overwrite
<1> QED BY <1>9, <1>10

LEMMA PrintQueue ==
    ASSUME SpliceAlone, IndInv, NEW r \in Reader, Moves(r), PrintLine(r)
    PROVE  \/ UNCHANGED <<recorded, Pending, out>>
           \/ \E c \in Cpu : \E n \in 1 .. Len(Pending[c]) : Queue!Deliver(r, c, n)
<1>1. TypeInv /\ EntriesHeld /\ IndInv'
  <2>1. [Next]_vars
    BY DEF Next, Step
  <2> QED BY <2>1, IndNext DEF IndInv, SafeInv
<1>2. /\ iter \in [Reader -> IterState] /\ iter[r] \in IterState
      /\ buffer \in [Cpu -> Seq(1 .. recorded)] /\ out \in [Reader -> Seq(1 .. recorded)]
  BY <1>1 DEF TypeInv, PlainType, SeqType
<1>3. buffer' = buffer /\ recorded' = recorded /\ iter[r].at = "print"
  BY DEF PrintLine, trace
<1>4. \A s \in Reader \ {r} : iter'[s] = iter[s]
  BY <1>2 DEF Moves
<1> DEFINE c == iter[r].cpu
<1>5. c \in CpusOf(r) /\ c \in Cpu /\ buffer[c] # << >> /\ iter[r].ent = Head(buffer[c])
  BY <1>1, <1>3, CpuOfFile DEF EntriesHeld, HasEntry, EntryHeld
<1>6. ~ Printed(c)
  BY <1>3, <1>5, NothingPrinted DEF Inside
<1>7. iter'[r].cpu = c
  BY <1>1, EntryKept
<1>8. CASE Goto(r, "unlock") /\ UNCHANGED out
  <2>1. iter'[r].at = "unlock"
    BY <1>2, <1>8 DEF Goto, IterState
  <2>2. \A d \in Cpu : Printed(d)' <=> Printed(d)
    BY <1>3, <1>4, <2>1 DEF Printed
  <2> QED BY <1>3, <1>8, <2>2, PendingKept
<1>9. CASE /\ out' = [out EXCEPT ![r] = Append(out[r], iter[r].ent)]
           /\ iter' = [iter EXCEPT ![r].at = "consume", ![r].got = TRUE]
  <2>1. iter'[r].at = "consume"
    BY <1>2, <1>9 DEF IterState
  <2>2. \A d \in Cpu : Printed(d)' <=> Printed(d) \/ d = c
    BY <1>3, <1>4, <1>7, <2>1 DEF Printed
  <2> DEFINE b == buffer[c]
  <2>3. b \in Seq(1 .. recorded) /\ b # << >> /\ Len(b) \in Nat \ {0}
    BY <1>2, <1>5, EmptySeq
  <2>4. Pending[c] = b
    BY <1>5, <1>6, PendingAt
  <2>5. SubSeq(b, 1, 1) = <<Head(b)>>
    <3>1. /\ SubSeq(b, 1, 1) \in Seq(1 .. recorded)
          /\ Len(SubSeq(b, 1, 1)) = 1
          /\ SubSeq(b, 1, 1)[1] = b[1]
      <4>1. b[1] \in 1 .. recorded
        <5>1. 1 \in 1 .. Len(b)
          BY <2>3
        <5> QED BY <2>3, <5>1, ElementOfSeq
      <4>2. \A i \in 1 .. 1 : b[i] \in 1 .. recorded
        BY <4>1
      <4>3. /\ SubSeq(b, 1, 1) \in Seq(1 .. recorded)
            /\ Len(SubSeq(b, 1, 1)) = IF 1 <= 1 THEN 1 - 1 + 1 ELSE 0
            /\ \A i \in 1 .. 1 - 1 + 1 : SubSeq(b, 1, 1)[i] = b[1 + i - 1]
        BY <4>2, SubSeqProperties
      <4> QED BY <4>3
    <3> DEFINE one == SubSeq(b, 1, 1)
    <3>2. <<b[1]>> \in Seq(1 .. recorded) /\ Len(<<b[1]>>) = 1 /\ <<b[1]>>[1] = b[1]
      <4>1. b[1] \in 1 .. recorded
        BY <3>1, ElementOfSeq
      <4> QED BY <4>1
    <3> HIDE DEF b
    <3>3. \A i \in 1 .. Len(one) : one[i] = <<b[1]>>[i]
      BY <3>1, <3>2
    <3>4. one = <<b[1]>>
      <4> HIDE DEF one
      <4> QED BY <3>1, <3>2, <3>3, SeqEqual DEF one
    <3> QED BY <3>4
  <2>6. SubSeq(b, 1 + 1, Len(b)) = Tail(b)
    BY <2>3, TailIsSubSeq
  <2>7. Append(out[r], Head(b)) = out[r] \o SubSeq(b, 1, 1)
    <3>1. Head(b) \in 1 .. recorded
      BY <2>3, HeadTailProperties
    <3> QED BY <1>2, <2>5, <3>1, AppendIsConcat
  <2>8. out' = [out EXCEPT ![r] = @ \o SubSeq(Pending[c], 1, 1)]
    BY <1>2, <1>5, <1>9, <2>4, <2>7
  <2>9. Pending' = [Pending EXCEPT ![c] = SubSeq(@, 1 + 1, Len(@))]
    <3>1. Pending' = [d \in Cpu |-> IF (Printed(d) \/ d = c) /\ buffer[d] # << >> THEN Tail(buffer[d])
                                    ELSE buffer[d]]
      BY <1>3, <2>2 DEF Pending
    <3>2. \A d \in Cpu : Pending'[d] = IF d = c THEN SubSeq(Pending[c], 1 + 1, Len(Pending[c])) ELSE Pending[d]
      BY <1>5, <2>4, <2>6, <3>1, PendingAt
    <3>3. Pending' = [d \in Cpu |-> Pending'[d]]
      BY <3>1
    <3>4. Pending = [d \in Cpu |-> Pending[d]]
      BY DEF Pending
    <3> QED BY <3>2, <3>3, <3>4
  <2>10. 1 \in 1 .. Len(Pending[c])
    BY <2>3, <2>4
  <2>11. Queue!Deliver(r, c, 1)
    BY <1>3, <2>8, <2>9 DEF Queue!Deliver
  <2> QED BY <1>5, <2>10, <2>11
<1> QED BY <1>8, <1>9 DEF PrintLine

LEMMA ConsumeQueue ==
    ASSUME IndInv, NEW r \in Reader, Moves(r), Consume(r)
    PROVE  UNCHANGED <<recorded, Pending, out>>
<1>1. TypeInv /\ EntriesHeld /\ CallsOK
  BY DEF IndInv, SafeInv
<1>2. iter \in [Reader -> IterState] /\ buffer \in [Cpu -> Seq(1 .. recorded)]
  BY <1>1 DEF TypeInv, PlainType, SeqType
<1> DEFINE c == iter[r].cpu
<1>3. iter[r].at = "consume" /\ iter'[r].at # "consume"
  BY <1>1, PlaceAfter
<1>4. c \in CpusOf(r) /\ c \in Cpu /\ buffer[c] # << >>
  BY <1>1, <1>3, CpuOfFile DEF EntriesHeld, HasEntry, EntryHeld
<1>5. \A s \in Reader \ {r} : iter'[s] = iter[s]
  BY <1>2 DEF Moves
<1>6. \A s \in Reader \ {r} : iter[s].at = "consume" => iter[s].cpu # c
  <2> SUFFICES ASSUME NEW s \in Reader \ {r}, iter[s].at = "consume", iter[s].cpu = c PROVE FALSE
    OBVIOUS
  <2>1. c \in CpusOf(s)
    BY <1>1 DEF EntriesHeld, HasEntry, EntryHeld
  <2>2. Inside(r) /\ Inside(s)
    BY <1>3 DEF Inside
  <2> QED BY <1>4, <2>1, <2>2, Exclusive DEF IndInv
<1>7. Printed(c) /\ \A d \in Cpu : Printed(d)' <=> Printed(d) /\ d # c
  BY <1>3, <1>5, <1>6 DEF Printed
<1>8. /\ buffer' = [buffer EXCEPT ![c] = IF buffer[c] = << >> THEN buffer[c] ELSE Tail(buffer[c])]
      /\ recorded' = recorded /\ out' = out
  BY DEF Consume
<1>9. \A d \in Cpu : buffer'[d] = IF d = c THEN Tail(buffer[c]) ELSE buffer[d]
  BY <1>2, <1>4, <1>8
<1>10. Pending' = [d \in Cpu |-> IF (Printed(d) /\ d # c) /\ buffer'[d] # << >> THEN Tail(buffer'[d]) ELSE buffer'[d]]
  BY <1>7 DEF Pending
<1>11. \A d \in Cpu : Pending'[d] = Pending[d]
  BY <1>4, <1>7, <1>9, <1>10, PendingAt
<1>12. Pending' = [d \in Cpu |-> Pending'[d]]
  BY <1>10
<1>13. Pending = [d \in Cpu |-> Pending[d]]
  BY DEF Pending
<1>14. Pending' = Pending
  BY <1>11, <1>12, <1>13
<1> QED BY <1>8, <1>14

LEMMA GivenQueue ==
    ASSUME IndInv, NEW r \in Reader, Moves(r), TakePage(r) \/ TakePages(r)
    PROVE  \/ UNCHANGED <<recorded, Pending, out>>
           \/ \E c \in Cpu : \E n \in 1 .. Len(Pending[c]) : Queue!Deliver(r, c, n)
<1>1. TypeInv /\ CallsOK
  BY DEF IndInv, SafeInv
<1>2. iter \in [Reader -> IterState] /\ buffer \in [Cpu -> Seq(1 .. recorded)]
  BY <1>1 DEF TypeInv, PlainType, SeqType
<1>3. iter[r].at = "take" /\ iter'[r].at = "unlock" /\ recorded' = recorded
  BY <1>1, PlaceAfter DEF Moves
<1>4. \A s \in Reader \ {r} : iter'[s] = iter[s]
  BY <1>2 DEF Moves
<1>5. \A d \in Cpu : Printed(d)' <=> Printed(d)
  BY <1>3, <1>4 DEF Printed
<1>6. CASE NothingGiven(r)
  BY <1>3, <1>5, <1>6, PendingKept DEF NothingGiven
<1> DEFINE c == files[r].cpu
<1>7. ASSUME NEW n \in 1 .. Len(buffer[c]), Given(r, n)
      PROVE  c \in Cpu /\ n \in 1 .. Len(Pending[c]) /\ Queue!Deliver(r, c, n)
  <2>1. c \in Cpu /\ c \in CpusOf(r)
    BY <1>1, CpuOfFile, CpuAssumption DEF TakePage, TakePages, CpusOf
  <2>2. Pending[c] = buffer[c]
    BY <1>3, <2>1, NothingPrinted, PendingAt DEF Inside
  <2>3. out' = [out EXCEPT ![r] = @ \o SubSeq(Pending[c], 1, n)]
    BY <1>7, <2>2 DEF Given
  <2>4. \A d \in Cpu : buffer'[d] = IF d = c THEN SubSeq(buffer[c], n + 1, Len(buffer[c])) ELSE buffer[d]
    BY <1>2, <1>7, <2>1 DEF Given
  <2>5. ~ Printed(c)
    BY <1>3, <2>1, NothingPrinted DEF Inside
  <2>6. Pending' = [Pending EXCEPT ![c] = SubSeq(@, n + 1, Len(@))]
    <3>1. Pending' = [d \in Cpu |-> IF Printed(d) /\ buffer'[d] # << >> THEN Tail(buffer'[d]) ELSE buffer'[d]]
      BY <1>5 DEF Pending
    <3> DEFINE rest == SubSeq(Pending[c], n + 1, Len(Pending[c]))
    <3>2. \A d \in Cpu : Pending'[d] = IF d = c THEN rest ELSE Pending[d]
      BY <2>2, <2>4, <2>5, <3>1, PendingAt
    <3>3. Pending' = [d \in Cpu |-> Pending'[d]]
      BY <3>1
    <3>4. Pending = [d \in Cpu |-> Pending[d]]
      BY DEF Pending
    <3>5. Pending' = [Pending EXCEPT ![c] = rest]
      <4> HIDE DEF rest
      <4> QED BY <3>2, <3>3, <3>4
    <3> QED BY <3>5
  <2>7. Queue!Deliver(r, c, n)
    BY <1>3, <2>3, <2>6 DEF Queue!Deliver
  <2> QED BY <2>1, <2>2, <2>7
<1> QED BY <1>6, <1>7 DEF TakePage, TakePages

(* The other steps of a reader print nothing and leave the buffers.          *)
LEMMA QuietStep ==
    ASSUME IndInv, NEW r \in Reader, Moves(r),
           \/ Call(r) \/ Wake(r) \/ Signal(r) \/ LockAll(r) \/ LockShared(r) \/ LockCpu(r)
           \/ WaitPipe(r) \/ CheckEmpty(r) \/ Unlock(r) \/ Find(r) \/ FindFirst(r) \/ FindAfter(r)
    PROVE  UNCHANGED <<recorded, Pending, out>>
<1>1. TypeInv /\ CallsOK
  BY DEF IndInv, SafeInv
<1>2. iter \in [Reader -> IterState] /\ iter[r] \in IterState
  BY <1>1 DEF TypeInv, PlainType
<1>3. buffer' = buffer /\ recorded' = recorded /\ out' = out
  BY DEF Call, Wake, Signal, LockAll, LockShared, LockCpu, WaitPipe, CheckEmpty, Unlock, Find, FindFirst,
         FindAfter, trace
<1>4. iter[r].at # "consume"
  BY DEF Call, Wake, Signal, LockAll, LockShared, LockCpu, WaitPipe, CheckEmpty, Unlock, Find, FindFirst,
         FindAfter
<1>5. iter'[r].at # "consume"
  <2>1. CASE Call(r) \/ Wake(r) \/ Signal(r) \/ LockAll(r) \/ LockShared(r) \/ LockCpu(r) \/ WaitPipe(r)
             \/ Unlock(r)
    BY <1>1, <2>1, PlaceAfter DEF AfterLock
  <2>2. CASE CheckEmpty(r)
    BY <1>2, <2>2 DEF CheckEmpty, Goto, IterState
  <2>3. CASE Find(r) \/ FindAfter(r)
    BY <1>1, <2>3, FindNextEntry DEF Find, FindAfter
  <2>4. CASE FindFirst(r)
    <3>1. CASE Goto(r, "down")
      BY <1>2, <3>1 DEF Goto, IterState
    <3>2. CASE FindNext(r, "down", "idle")
      BY <1>1, <3>2, FindNextEntry
    <3> QED BY <2>4, <3>1, <3>2 DEF FindFirst
  <2> QED BY <2>1, <2>2, <2>3, <2>4
<1>6. \A s \in Reader \ {r} : iter'[s] = iter[s]
  BY <1>2 DEF Moves
<1>7. \A d \in Cpu : Printed(d)' <=> Printed(d)
  BY <1>4, <1>5, <1>6 DEF Printed
<1> QED BY <1>3, <1>7, PendingKept

LEMMA QueueInit == Init => Queue!Init
<1> SUFFICES ASSUME Init PROVE Queue!Init
  OBVIOUS
<1>1. Pending = [c \in Cpu |-> << >>]
  BY DEF Init, Pending
<1> QED BY <1>1 DEF Init, Queue!Init

LEMMA QueueNext ==
    ASSUME SpliceAlone, IndInv, [Next]_vars
    PROVE  [Queue!Next]_(Queue!vars)
<1>1. TypeInv
  BY DEF IndInv, SafeInv
<1>2. ASSUME NEW r \in Reader, Moves(r),
             Call(r) \/ Wake(r) \/ Signal(r) \/ LockAll(r) \/ LockShared(r) \/ LockCpu(r) \/ Step(r)
      PROVE  \/ UNCHANGED <<recorded, Pending, out>>
             \/ \E c \in Cpu : \E n \in 1 .. Len(Pending[c]) : Queue!Deliver(r, c, n)
  BY <1>2, PrintQueue, ConsumeQueue, GivenQueue, QuietStep DEF Step
<1>3. ASSUME NEW c \in Cpu, Record(c) PROVE Queue!Record(c) \/ Queue!Overwrite(c)
  BY <1>3, RecordQueue
<1>4. ASSUME UNCHANGED <<files, recorded, buffer, reader_page, locks, iter, out>>
      PROVE  UNCHANGED <<recorded, Pending, out>>
  <2>1. \A d \in Cpu : Printed(d)' <=> Printed(d)
    BY <1>4 DEF Printed
  <2> QED BY <1>4, <2>1, PendingKept
<1>5. \/ UNCHANGED <<recorded, Pending, out>>
      \/ \E r \in Reader, c \in Cpu : \E n \in 1 .. Len(Pending[c]) : Queue!Deliver(r, c, n)
      \/ \E c \in Cpu : Queue!Record(c) \/ Queue!Overwrite(c)
  BY <1>1, <1>2, <1>3, <1>4, StepMoves
<1> QED BY <1>5 DEF Queue!Next, Queue!vars

(* DeliversQueue: the readers implement TraceQueue.  An event goes to one    *)
(* reader, once and in order, unless it is overwritten before, whatever the  *)
(* interleaving of readers of all CPUs, readers of one and writers.          *)
THEOREM QueueCorrect == ASSUME SpliceAlone PROVE Spec => DeliversQueue
<1>1. IndInv /\ [Next]_vars => [Queue!Next]_(Queue!vars)
  BY QueueNext
<1>2. Spec => SafeSpec
  BY DEF Spec, SafeSpec
<1>3. SafeSpec => []IndInv
  BY IndCorrect
<1>4. SafeSpec => Queue!Spec
  BY <1>1, <1>3, QueueInit, PTL DEF SafeSpec, Queue!Spec
<1> QED BY <1>2, <1>4, PTL DEF DeliversQueue
=============================================================================
