-------------------------- MODULE UeventDumpProofs --------------------------
(***************************************************************************)
(* Proofs about UeventDump for any size of the socket and any number of    *)
(* runs, messages of other devices and failing calls: what a walk writes   *)
(* and what it has ahead of it are always the same devices, and a message  *)
(* of the kernel is in one of three places until it is dumped.             *)
(***************************************************************************)
EXTENDS UeventDump, SequenceTheorems, TLAPS

(* What an activation of do_coldboot has ahead of it, and the whole walk.    *)
RestAhead(rest) == UNION {Below[e] : e \in {d \in Range(rest) : Walks(d)}}
FrameAhead(f) == (IF f.fresh THEN HasUevent \cap {f.dir} ELSE {}) \cup RestAhead(f.rest)
Ahead == (UNION {CallAhead(c) : c \in Range(todo)}) \cup (UNION {FrameAhead(f) : f \in Range(stack)})

(* A walk writes to what it has to, unless a call fails, and nothing else.   *)
Goal == IF prog = "dump" THEN HasUevent ELSE HasUevent \ Withheld
Covered == written \cup missed \cup Ahead = Goal

(* The types, with the sequences that TypeOK describes by their elements.    *)
ListCall  == [call: {"coldboot", "write_file_uevent"}, path: Dir \cup Link]
Frame     == [dir: Dir, fresh: BOOLEAN, rest: Seq(Dir \cup Link)]
FileEntry == [run: Nat, dev: Dir \cup {"none"}, no: Nat]
TypeInv ==
    /\ prog \in {"dump", "trigger"} /\ run \in 1 .. MaxRuns
    /\ at \in {"start", "open", "init", "walk", "receive", "mark", "exit"}
    /\ todo \in Seq(ListCall) /\ stack \in Seq(Frame)
    /\ queue \in Seq(Message) /\ Len(queue) <= QueueCap /\ overrun \in BOOLEAN
    /\ files \in Seq(Seq(FileEntry))
    /\ uevent_index \in 0 .. Len(files) /\ uevent_stop_dump \in BOOLEAN
    /\ folder \in BOOLEAN /\ marker \in BOOLEAN /\ calm \in BOOLEAN
    /\ sent \in Nat /\ gone \subseteq 1 .. sent
    /\ others \in 0 .. MaxOther /\ faults \in 0 .. MaxFaults

(* The trigger only walks, the dump asks for no single file; nothing is left *)
(* to walk where the walk has ended; who walks has found no marker.          *)
Places ==
    /\ prog = "trigger" => at \in {"walk", "exit"}
    /\ prog = "dump" => \A c \in Range(todo) : c.call = "coldboot"
    /\ at = "mark" \/ (prog = "trigger" /\ at = "exit") => todo = << >> /\ stack = << >>
    /\ uevent_stop_dump => at = "exit"
    /\ at \in {"walk", "receive", "mark"} => ~marker

(* The messages of the kernel are queued in order, behind those dumped.      *)
Kernels == {m \in Range(queue) : m.kind # "user"}
QueueInOrder ==
    /\ \A m \in Kernels : m.no \in 1 .. sent
    /\ \A i, j \in DOMAIN queue :
         queue[i].kind # "user" /\ queue[j].kind # "user" /\ i < j => queue[i].no < queue[j].no
Behind(i, f) ==
    /\ f.run <= run
    /\ f.run = run => i <= uevent_index /\ f.no <= sent /\ \A m \in Kernels : f.no < m.no
RunInOrder == \A i \in DOMAIN files : \A k \in DOMAIN files[i] : Behind(i, files[i][k])

(* As long as nothing odd happened, the answer to a write is in a file, or   *)
(* in the socket that the program is reading.                                *)
Devices == {e.dev : e \in Contents}
Answers == {m.dev : m \in Range(queue)}
WrittenKept ==
    prog = "dump" /\ calm =>
        /\ ~overrun /\ Range(queue) = Kernels /\ missed = {}
        /\ written \subseteq Devices \cup Answers
        /\ at # "receive" => written \subseteq Devices

IInv == /\ TypeInv /\ Places /\ Covered /\ QueueInOrder /\ RunInOrder
        /\ Accounted /\ FilesInOrder /\ WrittenKept /\ MarkerComplete

-----------------------------------------------------------------------------
(* The devices.                                                              *)

LEMMA Directories ==
    /\ Dir = {"class", "class_block", "block", "devices", "cpu", "ata2", "host1", "sda",
              "queue", "sda1"}
    /\ Link = {"link_sda", "link_sda1", "subsystem"}
    /\ Dir \cap Link = {}
  BY DEF Dir, Link, Entries, Target

(* The directories below one, and what is in it all.                         *)
LEMMA EntriesOf ==
    /\ Range(Entries["class"]) = {"class_block"}
    /\ Range(Entries["class_block"]) = {"link_sda", "link_sda1"}
    /\ Range(Entries["block"]) = {"link_sda"}
    /\ Range(Entries["devices"]) = {"cpu", "ata2"}
    /\ Range(Entries["ata2"]) = {"host1"}
    /\ Range(Entries["host1"]) = {"sda"}
    /\ Range(Entries["sda"]) = {"queue", "subsystem", "sda1"}
    /\ \A d \in {"cpu", "queue", "sda1"} : Range(Entries[d]) = {}
<1>1. Range(<< >>) = {}
  BY DEF Range
<1>2. \A a : Range(<<a>>) = {a}
  BY DEF Range
<1>3. \A a, b : Range(<<a, b>>) = {a, b}
  BY DEF Range
<1>4. \A a, b, c : Range(<<a, b, c>>) = {a, b, c}
  BY DEF Range
<1>5. \A d \in {"cpu", "queue", "sda1"} : Range(Entries[d]) = {}
  BY <1>1 DEF Entries
<1>6. Range(Entries["class"]) = {"class_block"}
  BY <1>2 DEF Entries
<1>7. Range(Entries["block"]) = {"link_sda"}
  BY <1>2 DEF Entries
<1>8. Range(Entries["ata2"]) = {"host1"}
  BY <1>2 DEF Entries
<1>9. Range(Entries["host1"]) = {"sda"}
  BY <1>2 DEF Entries
<1>10. Range(Entries["class_block"]) = {"link_sda", "link_sda1"}
  BY <1>3 DEF Entries
<1>11. Range(Entries["devices"]) = {"cpu", "ata2"}
  BY <1>3 DEF Entries
<1>12. Range(Entries["sda"]) = {"queue", "subsystem", "sda1"}
  BY <1>4 DEF Entries
<1> QED BY <1>5, <1>6, <1>7, <1>8, <1>9, <1>10, <1>11, <1>12

LEMMA EntriesType == \A d \in Dir : Entries[d] \in Seq(Dir \cup Link)
<1> DEFINE S == Dir \cup Link
<1>1. << >> \in Seq(S)
  BY EmptySeq
<1>2. \A a \in S : <<a>> \in Seq(S)
  OBVIOUS
<1>3. \A a, b \in S : <<a, b>> \in Seq(S)
  OBVIOUS
<1>4. \A a, b, c \in S : <<a, b, c>> \in Seq(S)
  OBVIOUS
<1> HIDE DEF S
<1>5. S = {"class", "class_block", "block", "devices", "cpu", "ata2", "host1", "sda", "queue",
           "sda1", "link_sda", "link_sda1", "subsystem"}
  BY Directories DEF S
<1>6. /\ Entries["cpu"] \in Seq(S)
      /\ Entries["queue"] \in Seq(S) /\ Entries["sda1"] \in Seq(S)
  BY <1>1 DEF Entries
<1>7. Entries["class"] \in Seq(S) /\ Entries["block"] \in Seq(S)
  BY <1>2, <1>5 DEF Entries
<1>8. Entries["ata2"] \in Seq(S) /\ Entries["host1"] \in Seq(S)
  BY <1>2, <1>5 DEF Entries
<1>9. Entries["class_block"] \in Seq(S) /\ Entries["devices"] \in Seq(S)
  BY <1>3, <1>5 DEF Entries
<1>10. Entries["sda"] \in Seq(S)
  BY <1>4, <1>5 DEF Entries
<1> QED BY <1>6, <1>7, <1>8, <1>9, <1>10, Directories DEF S

(* Below is what it says.                                                    *)
LEMMA BelowWalks == \A d \in Dir : Below[d] = (HasUevent \cap {d}) \cup RestAhead(Entries[d])
<1> USE EntriesOf, Directories DEF RestAhead, Walks, Below, HasUevent
<1>1. ASSUME NEW d \in {"cpu", "queue", "sda1"}
      PROVE  Below[d] = (HasUevent \cap {d}) \cup RestAhead(Entries[d])
  <2>1. RestAhead(Entries[d]) = {}
    OBVIOUS
  <2>2. Below[d] = HasUevent \cap {d}
    <3>1. CASE d = "cpu"
      BY <3>1
    <3>3. CASE d = "queue"
      BY <3>3
    <3>4. CASE d = "sda1"
      BY <3>4
    <3> QED BY <3>1, <3>3, <3>4
  <2> QED BY <2>1, <2>2
<1>2. Below["class"] = (HasUevent \cap {"class"}) \cup RestAhead(Entries["class"])
  OBVIOUS
<1>3. Below["class_block"] = (HasUevent \cap {"class_block"}) \cup RestAhead(Entries["class_block"])
  OBVIOUS
<1>4. Below["block"] = (HasUevent \cap {"block"}) \cup RestAhead(Entries["block"])
  OBVIOUS
<1>5. Below["devices"] = (HasUevent \cap {"devices"}) \cup RestAhead(Entries["devices"])
  OBVIOUS
<1>6. Below["ata2"] = (HasUevent \cap {"ata2"}) \cup RestAhead(Entries["ata2"])
  OBVIOUS
<1>7. Below["host1"] = (HasUevent \cap {"host1"}) \cup RestAhead(Entries["host1"])
  OBVIOUS
<1>8. Below["sda"] = (HasUevent \cap {"sda"}) \cup RestAhead(Entries["sda"])
  OBVIOUS
<1> HIDE DEF RestAhead, Walks, Below, HasUevent
<1> QED BY <1>1, <1>2, <1>3, <1>4, <1>5, <1>6, <1>7, <1>8, Directories

(* Where the lists lead.                                                     *)
LEMMA ListsAhead ==
    /\ UNION {CallAhead(c) : c \in Range(DumpList)} = HasUevent
    /\ UNION {CallAhead(c) : c \in Range(TriggerList)} = HasUevent \ Withheld
<1> DEFINE cold(p) == [call |-> "coldboot", path |-> p]
           file == [call |-> "write_file_uevent", path |-> "host1"]
<1>1. Range(DumpList) = {cold("class"), cold("block"), cold("devices")}
  BY DEF Range, DumpList, Coldboot
<1>2. Range(TriggerList) = {cold("block"), cold("class"), cold("cpu"), cold("queue"), cold("subsystem"), file}
  BY DEF Range, TriggerList, Coldboot
<1>3. \A p \in Dir : CallAhead(cold(p)) = Below[p]
  BY Directories DEF CallAhead, Opened
<1>4. CallAhead(cold("subsystem")) = {}
  BY Directories DEF CallAhead, Opened, Target, Below
<1>5. CallAhead(file) = {"host1"}
  BY Directories DEF CallAhead, Opened
<1> HIDE DEF cold, file
<1>6. UNION {CallAhead(c) : c \in Range(DumpList)} = Below["class"] \cup Below["block"] \cup Below["devices"]
  BY <1>1, <1>3, Directories
<1>7. UNION {CallAhead(c) : c \in Range(TriggerList)}
        = Below["block"] \cup Below["class"] \cup Below["cpu"] \cup Below["queue"] \cup {"host1"}
  BY <1>2, <1>3, <1>4, <1>5, Directories
<1> QED BY <1>6, <1>7 DEF Below, HasUevent, Withheld

-----------------------------------------------------------------------------
(* Sequences.                                                                *)

LEMMA RangeOfTail ==
    ASSUME NEW S, NEW s \in Seq(S), s # << >>
    PROVE  /\ Head(s) \in S /\ Tail(s) \in Seq(S)
           /\ Range(s) = {Head(s)} \cup Range(Tail(s))
<1>1. Len(s) \in Nat \ {0}
  BY EmptySeq
<1>2. /\ Head(s) \in S /\ Tail(s) \in Seq(S) /\ Len(Tail(s)) = Len(s) - 1
      /\ \A i \in 1 .. Len(Tail(s)) : Tail(s)[i] = s[i + 1]
  BY HeadTailProperties
<1>3. Range(s) = {s[i] : i \in 1 .. Len(s)} /\ Range(Tail(s)) = {Tail(s)[i] : i \in 1 .. Len(Tail(s))}
  BY <1>2, RangeEquality
<1>4. Head(s) = s[1]
  OBVIOUS
<1>5. \A i \in 1 .. Len(s) : s[i] \in {Head(s)} \cup Range(Tail(s))
  <2> TAKE i \in 1 .. Len(s)
  <2>1. CASE i = 1
    BY <2>1, <1>4
  <2>2. CASE i # 1
    <3>1. i - 1 \in 1 .. Len(Tail(s)) /\ (i - 1) + 1 = i
      BY <1>1, <1>2, <2>2
    <3>2. Tail(s)[i - 1] = s[i]
      BY <1>2, <3>1
    <3> QED BY <1>3, <3>1, <3>2
  <2> QED BY <2>1, <2>2
<1>6. \A i \in 1 .. Len(Tail(s)) : Tail(s)[i] \in Range(s)
  BY <1>1, <1>2, <1>3
<1>7. Head(s) \in Range(s)
  BY <1>1, <1>3, <1>4
<1> QED BY <1>2, <1>3, <1>5, <1>6, <1>7

LEMMA RangeOfCons ==
    ASSUME NEW S, NEW s \in Seq(S), NEW e \in S
    PROVE  /\ <<e>> \o s \in Seq(S)
           /\ Range(<<e>> \o s) = {e} \cup Range(s)
<1>1. <<e>> \in Seq(S)
  OBVIOUS
<1>2. Range(<<e>>) = {e}
  BY DEF Range
<1>3. <<e>> \o s \in Seq(S)
  BY <1>1, ConcatProperties
<1>4. Range(<<e>> \o s) = Range(<<e>>) \cup Range(s)
  BY <1>1, RangeConcatenation
<1> QED BY <1>2, <1>3, <1>4

LEMMA RangeOfAppend ==
    ASSUME NEW S, NEW s \in Seq(S), NEW e \in S
    PROVE  /\ Append(s, e) \in Seq(S)
           /\ Range(Append(s, e)) = Range(s) \cup {e}
<1>1. <<e>> \in Seq(S)
  OBVIOUS
<1>2. Range(<<e>>) = {e}
  BY DEF Range
<1>3. Append(s, e) = s \o <<e>>
  BY AppendIsConcat
<1>4. Append(s, e) \in Seq(S)
  BY AppendProperties
<1>5. Range(s \o <<e>>) = Range(s) \cup Range(<<e>>)
  BY <1>1, RangeConcatenation
<1> QED BY <1>2, <1>3, <1>4, <1>5

(* The innermost activation changes.                                         *)
LEMMA RangeOfTop ==
    ASSUME NEW S, NEW s \in Seq(S), s # << >>, NEW e \in S
    PROVE  /\ [s EXCEPT ![1] = e] \in Seq(S)
           /\ Range([s EXCEPT ![1] = e]) = {e} \cup Range(Tail(s))
<1> DEFINE t == [s EXCEPT ![1] = e]
<1>1. Len(s) \in Nat \ {0}
  BY EmptySeq
<1>2. 1 \in 1 .. Len(s)
  BY <1>1
<1>3. /\ t \in Seq(S) /\ Len(t) = Len(s)
      /\ \A j \in 1 .. Len(s) : t[j] = IF j = 1 THEN e ELSE s[j]
  BY <1>2, ExceptSeq
<1> HIDE DEF t
<1>4. t # << >> /\ Head(t) = e
  BY <1>2, <1>3, EmptySeq
<1>5. Range(t) = {e} \cup Range(Tail(t))
  BY <1>3, <1>4, RangeOfTail
<1>6. Tail(t) = Tail(s)
  <2>1. /\ Tail(t) \in Seq(S) /\ Len(Tail(t)) = Len(t) - 1
        /\ \A i \in 1 .. Len(Tail(t)) : Tail(t)[i] = t[i + 1]
    BY <1>3, <1>4, HeadTailProperties
  <2>2. /\ Tail(s) \in Seq(S) /\ Len(Tail(s)) = Len(s) - 1
        /\ \A i \in 1 .. Len(Tail(s)) : Tail(s)[i] = s[i + 1]
    BY HeadTailProperties
  <2>3. \A i \in 1 .. Len(Tail(t)) : Tail(t)[i] = Tail(s)[i]
    BY <1>1, <1>3, <2>1, <2>2
  <2> QED BY <1>3, <2>1, <2>2, <2>3, SeqEqual
<1> QED BY <1>3, <1>5, <1>6 DEF t

-----------------------------------------------------------------------------
(* What the steps do to the queue and to the files.                          *)

LEMMA QueueType ==
    ASSUME TypeInv
    PROVE  /\ queue \in Seq(Message) /\ Len(queue) \in Nat /\ DOMAIN queue = 1 .. Len(queue)
           /\ files \in Seq(Seq(FileEntry)) /\ Len(files) \in Nat /\ DOMAIN files = 1 .. Len(files)
           /\ uevent_index \in Nat /\ run \in Nat /\ sent \in Nat
<1>1. queue \in Seq(Message) /\ files \in Seq(Seq(FileEntry)) /\ run \in Nat /\ sent \in Nat
  BY BoundAssumption DEF TypeInv
<1>2. Len(queue) \in Nat /\ DOMAIN queue = 1 .. Len(queue)
  BY <1>1, LenProperties
<1>3. Len(files) \in Nat /\ DOMAIN files = 1 .. Len(files)
  BY <1>1, LenProperties
<1>4. uevent_index \in Nat
  BY <1>3 DEF TypeInv
<1> QED BY <1>1, <1>2, <1>3, <1>4

(* A message of the kernel is queued, or there is no room for it.            *)
Queued(m) == queue' = Append(queue, m) /\ Len(queue) < QueueCap /\ UNCHANGED <<overrun, gone, calm>>
NoRoom == /\ queue' = queue /\ overrun' = TRUE
          /\ gone' = gone \cup {sent + 1} /\ calm' = FALSE

LEMMA ArriveIs ==
    ASSUME TypeInv, NEW kind \in {"add", "other", "big"}, NEW dev \in Dir \cup {"none"}, Arrive(kind, dev)
    PROVE  /\ sent' = sent + 1
           /\ [kind |-> kind, dev |-> dev, no |-> sent + 1] \in Message
           /\ Queued([kind |-> kind, dev |-> dev, no |-> sent + 1]) \/ NoRoom
<1>1. sent \in Nat
  BY DEF TypeInv
<1>2. [kind |-> kind, dev |-> dev, no |-> sent + 1] \in Message
  BY <1>1 DEF Message
<1> QED BY <1>2 DEF Arrive, Queued, NoRoom

(* The five outcomes of a recvmsg that got the message m.                    *)
Foreign(m) == m.kind = "user" /\ at' = "walk" /\ UNCHANGED <<files, uevent_index, gone, calm, faults>>
Passed(m) == /\ m.kind # "user" /\ (m.kind = "big" \/ uevent_stop_dump)
             /\ gone' = (IF m.kind = "big" THEN gone \cup {m.no} ELSE gone) /\ calm' = FALSE
             /\ UNCHANGED <<at, files, uevent_index, faults>>
Saved(m) == /\ m.kind # "user" /\ uevent_index' = uevent_index + 1 /\ files' = Appended(m)
            /\ UNCHANGED <<at, gone, calm, faults>>
Cut(m) == /\ m.kind # "user" /\ uevent_index' = uevent_index + 1 /\ Fault
          /\ files' = Appended(Part(m)) /\ gone' = gone \cup {m.no} /\ calm' = FALSE /\ UNCHANGED at
Lost(m) == /\ m.kind # "user" /\ uevent_index' = uevent_index + 1 /\ Fault
           /\ files' = (IF uevent_index < Len(files) THEN files ELSE Append(files, << >>))
           /\ gone' = gone \cup {m.no} /\ calm' = FALSE /\ UNCHANGED at

LEMMA ReceiveIs ==
    ASSUME TypeInv, Receive
    PROVE  /\ at = "receive" /\ ~overrun /\ queue # << >> /\ queue' = Tail(queue)
           /\ Head(queue) \in Message
           /\ LET m == Head(queue) IN Foreign(m) \/ Passed(m) \/ Saved(m) \/ Cut(m) \/ Lost(m)
<1>1. at = "receive" /\ ~overrun /\ queue # << >> /\ queue' = Tail(queue)
  BY DEF Receive
<1>2. Head(queue) \in Message
  BY <1>1, QueueType, HeadTailProperties
<1>3. ASSUME NEW m \in Message, m = Head(queue)
      PROVE  Foreign(m) \/ Passed(m) \/ Saved(m) \/ Cut(m) \/ Lost(m)
  <2>1. CASE m.kind = "user"
    BY <1>3, <2>1 DEF Receive, Goto, Foreign
  <2>2. CASE m.kind # "user" /\ PassedOver(m)
    BY <1>3, <2>2 DEF Receive, Passed, PassedOver
  <2>3. CASE m.kind # "user" /\ ~ PassedOver(m)
    BY <1>3, <2>3 DEF Receive, Saved, Cut, Lost, NextIndex
  <2> QED BY <2>1, <2>2, <2>3
<1> QED BY <1>1, <1>2, <1>3

(* The entry goes to the end of the file of its number; nothing else changes *)
(* and no file is skipped.                                                   *)
LEMMA AppendedIs ==
    ASSUME TypeInv, NEW m \in Message, NEW F, F = Appended(m), NEW n, n = uevent_index + 1,
           NEW e, e = [run |-> run, dev |-> m.dev, no |-> m.no]
    PROVE  /\ e \in FileEntry /\ F \in Seq(Seq(FileEntry)) /\ n \in 0 .. Len(F)
           /\ \A i \in DOMAIN files : \A k \in DOMAIN files[i] :
                 i \in DOMAIN F /\ k \in DOMAIN F[i] /\ F[i][k] = files[i][k]
           /\ \E l : /\ n \in DOMAIN F /\ l \in DOMAIN F[n] /\ F[n][l] = e
                     /\ \A i \in DOMAIN F : \A k \in DOMAIN F[i] :
                           <<i, k>> # <<n, l>> => i \in DOMAIN files /\ k \in DOMAIN files[i]
<1> DEFINE old == IF uevent_index < Len(files) THEN files[n] ELSE << >>
<1>1. /\ files \in Seq(Seq(FileEntry)) /\ Len(files) \in Nat /\ DOMAIN files = 1 .. Len(files)
      /\ uevent_index \in Nat /\ run \in Nat /\ uevent_index <= Len(files)
  BY QueueType DEF TypeInv
<1>2. e \in FileEntry
  BY <1>1 DEF Message, FileEntry
<1>3. old \in Seq(FileEntry)
  <2>1. CASE uevent_index < Len(files)
    <3>1. n \in 1 .. Len(files)
      BY <1>1, <2>1
    <3> QED BY <1>1, <2>1, <3>1, ElementOfSeq
  <2>2. CASE ~ (uevent_index < Len(files))
    BY <2>2, EmptySeq
  <2> QED BY <2>1, <2>2
<1> DEFINE new == Append(old, e)
           l == Len(old) + 1
<1>4. Len(old) \in Nat /\ DOMAIN old = 1 .. Len(old)
  BY <1>3, LenProperties
<1>5. /\ new \in Seq(FileEntry) /\ Len(new) = l
      /\ \A k \in 1 .. Len(old) : new[k] = old[k]
      /\ new[l] = e
  BY <1>2, <1>3, AppendProperties
<1>6. DOMAIN new = 1 .. l
  BY <1>5, LenProperties
<1>7. F = IF uevent_index < Len(files) THEN [files EXCEPT ![n] = new] ELSE Append(files, new)
  BY DEF Appended
<1> HIDE DEF new
<1>8. CASE uevent_index < Len(files)
  <2>1. n \in 1 .. Len(files)
    BY <1>1, <1>8
  <2>2. /\ F \in Seq(Seq(FileEntry)) /\ Len(F) = Len(files)
        /\ \A j \in 1 .. Len(files) : F[j] = IF j = n THEN new ELSE files[j]
    BY <1>1, <1>5, <1>7, <1>8, <2>1, ExceptSeq
  <2>3. DOMAIN F = 1 .. Len(files) /\ n \in 0 .. Len(F)
    BY <1>1, <2>1, <2>2, LenProperties
  <2>4. old = files[n]
    BY <1>8
  <2> HIDE DEF old
  <2>5. ASSUME NEW i \in DOMAIN files, NEW k \in DOMAIN files[i]
        PROVE  k \in DOMAIN F[i] /\ F[i][k] = files[i][k]
    <3>1. CASE i # n
      BY <1>1, <2>2, <3>1
    <3>2. CASE i = n
      <4>1. F[i] = new /\ files[i] = old
        BY <2>1, <2>2, <2>4, <3>2
      <4>2. k \in 1 .. Len(old) /\ k \in 1 .. l
        BY <1>4, <4>1
      <4> QED BY <1>5, <1>6, <4>1, <4>2
    <3> QED BY <3>1, <3>2
  <2>6. n \in DOMAIN F /\ l \in DOMAIN F[n] /\ F[n][l] = e
    BY <1>4, <1>5, <1>6, <2>1, <2>2, <2>3
  <2>7. ASSUME NEW i \in DOMAIN F, NEW k \in DOMAIN F[i], <<i, k>> # <<n, l>>
        PROVE  i \in DOMAIN files /\ k \in DOMAIN files[i]
    <3>1. i \in DOMAIN files
      BY <1>1, <2>3
    <3>2. CASE i # n
      BY <1>1, <2>2, <3>1, <3>2
    <3>3. CASE i = n
      <4>1. F[i] = new /\ files[i] = old
        BY <2>1, <2>2, <2>4, <3>3
      <4>2. k \in 1 .. l /\ k # l
        BY <1>6, <2>7, <3>3, <4>1
      <4>3. k \in 1 .. Len(old)
        BY <1>4, <4>2
      <4> QED BY <1>4, <3>1, <4>1, <4>3
    <3> QED BY <3>2, <3>3, <3>1
  <2> QED BY <1>1, <1>2, <2>2, <2>3, <2>5, <2>6, <2>7
<1>9. CASE ~ (uevent_index < Len(files))
  <2>1. n = Len(files) + 1
    BY <1>1, <1>9
  <2>2. /\ F \in Seq(Seq(FileEntry)) /\ Len(F) = Len(files) + 1
        /\ \A j \in 1 .. Len(files) : F[j] = files[j]
        /\ F[n] = new
    BY <1>1, <1>5, <1>7, <1>9, <2>1, AppendProperties
  <2>3. DOMAIN F = 1 .. Len(files) + 1 /\ n \in 0 .. Len(F)
    BY <1>1, <2>1, <2>2, LenProperties
  <2>4. l = 1 /\ DOMAIN new = {1}
    BY <1>4, <1>6, <1>9
  <2> HIDE DEF old, l
  <2>5. \A i \in DOMAIN files : i \in DOMAIN F /\ F[i] = files[i]
    BY <1>1, <2>2, <2>3
  <2>6. n \in DOMAIN F /\ l \in DOMAIN F[n] /\ F[n][l] = e
    BY <1>1, <1>5, <2>1, <2>2, <2>3, <2>4
  <2>7. \A i \in DOMAIN F : \A k \in DOMAIN F[i] :
          <<i, k>> # <<n, l>> => i \in DOMAIN files /\ k \in DOMAIN files[i]
    BY <1>1, <2>1, <2>2, <2>3, <2>4
  <2> QED BY <1>2, <2>2, <2>3, <2>5, <2>6, <2>7
<1> QED BY <1>8, <1>9

LEMMA PartIs ==
    ASSUME NEW m \in Message
    PROVE  /\ Part(m) \in Message /\ Part(m).no = m.no
           /\ [run |-> run, dev |-> Part(m).dev, no |-> Part(m).no]
                = [run |-> run, dev |-> Part(m).dev, no |-> m.no]
  BY DEF Part, Message

(* A file that cannot be opened is empty or as it was.                       *)
LEMMA LostIs ==
    ASSUME TypeInv, NEW F, F = IF uevent_index < Len(files) THEN files ELSE Append(files, << >>)
    PROVE  /\ F \in Seq(Seq(FileEntry)) /\ uevent_index + 1 \in 0 .. Len(F)
           /\ \A i \in DOMAIN files : i \in DOMAIN F /\ F[i] = files[i]
           /\ \A i \in DOMAIN F : \A k \in DOMAIN F[i] : i \in DOMAIN files /\ F[i] = files[i]
<1>1. /\ files \in Seq(Seq(FileEntry)) /\ Len(files) \in Nat /\ DOMAIN files = 1 .. Len(files)
      /\ uevent_index \in Nat /\ uevent_index <= Len(files)
  BY QueueType DEF TypeInv
<1>2. CASE uevent_index < Len(files)
  BY <1>1, <1>2
<1>3. CASE ~ (uevent_index < Len(files))
  <2>1. << >> \in Seq(FileEntry) /\ DOMAIN << >> = {}
    BY EmptySeq
  <2>2. /\ F \in Seq(Seq(FileEntry)) /\ Len(F) = Len(files) + 1
        /\ \A j \in 1 .. Len(files) : F[j] = files[j]
        /\ F[Len(files) + 1] = << >>
    BY <1>1, <1>3, <2>1, AppendProperties
  <2>3. DOMAIN F = 1 .. Len(files) + 1
    BY <2>2, LenProperties
  <2> QED BY <1>1, <1>3, <2>1, <2>2, <2>3
<1> QED BY <1>2, <1>3

-----------------------------------------------------------------------------
(* Types.                                                                    *)

LEMMA ListsType == DumpList \in Seq(ListCall) /\ TriggerList \in Seq(ListCall)
<1> DEFINE cold(p) == [call |-> "coldboot", path |-> p]
           file == [call |-> "write_file_uevent", path |-> "host1"]
<1>1. \A p \in Dir \cup Link : cold(p) \in ListCall
  BY DEF ListCall
<1>2. /\ cold("class") \in ListCall /\ cold("block") \in ListCall /\ cold("devices") \in ListCall
      /\ cold("cpu") \in ListCall /\ cold("queue") \in ListCall /\ cold("subsystem") \in ListCall
  BY <1>1, Directories
<1>3. file \in ListCall
  BY Directories DEF ListCall
<1>4. DumpList = <<cold("class"), cold("block"), cold("devices")>>
  BY DEF DumpList, Coldboot
<1>5. Coldboot(<<"block", "class", "cpu", "queue", "subsystem">>)
        = <<cold("block"), cold("class"), cold("cpu"), cold("queue"), cold("subsystem")>>
  BY DEF Coldboot
<1>6. TriggerList = <<cold("block"), cold("class"), cold("cpu"), cold("queue"), cold("subsystem")>> \o <<file>>
  BY <1>5 DEF TriggerList
<1> HIDE DEF cold, file
<1>7. <<cold("block"), cold("class"), cold("cpu"), cold("queue"), cold("subsystem")>> \in Seq(ListCall)
  BY <1>2
<1>8. <<file>> \in Seq(ListCall)
  BY <1>3
<1>9. TriggerList \in Seq(ListCall)
  BY <1>6, <1>7, <1>8, ConcatProperties
<1>10. DumpList \in Seq(ListCall)
  BY <1>2, <1>4
<1> QED BY <1>9, <1>10

LEMMA InitType == Init => TypeInv
<1> SUFFICES ASSUME Init PROVE TypeInv
  OBVIOUS
<1>1. /\ << >> \in Seq(Frame) /\ << >> \in Seq(Message) /\ << >> \in Seq(Seq(FileEntry))
      /\ Len(<< >>) = 0
  BY EmptySeq
<1>2. todo \in Seq(ListCall)
  BY ListsType DEF Init
<1>3. run \in 1 .. MaxRuns /\ sent \in Nat /\ gone \subseteq 1 .. sent
  BY BoundAssumption DEF Init
<1>4. others \in 0 .. MaxOther /\ faults \in 0 .. MaxFaults /\ Len(queue) <= QueueCap
  BY <1>1, BoundAssumption DEF Init
<1>5. uevent_index \in 0 .. Len(files)
  BY <1>1 DEF Init
<1>6. /\ prog \in {"dump", "trigger"}
      /\ at \in {"start", "open", "init", "walk", "receive", "mark", "exit"}
  BY DEF Init
<1>7. /\ overrun \in BOOLEAN /\ uevent_stop_dump \in BOOLEAN /\ folder \in BOOLEAN
      /\ marker \in BOOLEAN /\ calm \in BOOLEAN
  BY DEF Init
<1>8. stack \in Seq(Frame) /\ queue \in Seq(Message) /\ files \in Seq(Seq(FileEntry))
  BY <1>1 DEF Init
<1> QED BY <1>2, <1>3, <1>4, <1>5, <1>6, <1>7, <1>8 DEF TypeInv

LEMMA FaultType ==
    ASSUME TypeInv, Fault
    PROVE  faults' \in 0 .. MaxFaults
  BY BoundAssumption DEF TypeInv, Fault

LEMMA QueuedType ==
    ASSUME TypeInv, NEW m \in Message, Len(queue) < QueueCap
    PROVE  Append(queue, m) \in Seq(Message) /\ Len(Append(queue, m)) <= QueueCap
<1>1. queue \in Seq(Message) /\ Len(queue) \in Nat
  BY QueueType
<1>2. Append(queue, m) \in Seq(Message) /\ Len(Append(queue, m)) = Len(queue) + 1
  BY <1>1, AppendProperties
<1> QED BY <1>1, <1>2, BoundAssumption

LEMMA ArriveType ==
    ASSUME TypeInv, NEW kind \in {"add", "other", "big"}, NEW dev \in Dir \cup {"none"}, Arrive(kind, dev)
    PROVE  /\ queue' \in Seq(Message) /\ Len(queue') <= QueueCap /\ overrun' \in BOOLEAN
           /\ sent' \in Nat /\ gone' \subseteq 1 .. sent' /\ calm' \in BOOLEAN
<1> DEFINE m == [kind |-> kind, dev |-> dev, no |-> sent + 1]
<1>1. sent' = sent + 1 /\ m \in Message /\ (Queued(m) \/ NoRoom)
  BY ArriveIs
<1> HIDE DEF m
<1>2. sent \in Nat /\ gone \subseteq 1 .. sent /\ overrun \in BOOLEAN /\ calm \in BOOLEAN
  BY DEF TypeInv
<1>3. sent' \in Nat /\ gone \subseteq 1 .. sent' /\ sent + 1 \in 1 .. sent'
  BY <1>1, <1>2
<1>4. CASE Queued(m)
  <2>1. queue' = Append(queue, m) /\ Len(queue) < QueueCap /\ UNCHANGED <<overrun, gone, calm>>
    BY <1>4 DEF Queued
  <2> QED BY <1>1, <1>2, <1>3, <2>1, QueuedType
<1>5. CASE NoRoom
  BY <1>2, <1>3, <1>5 DEF NoRoom, TypeInv
<1> QED BY <1>1, <1>4, <1>5

LEMMA WalkType ==
    ASSUME TypeInv, NextInList \/ NextEntry \/ WriteAdd
    PROVE  todo' \in Seq(ListCall) /\ stack' \in Seq(Frame)
<1>0. todo \in Seq(ListCall) /\ stack \in Seq(Frame)
  BY DEF TypeInv
<1>1. \A d \in Dir : Enter(d) \in Frame
  BY EntriesType DEF Enter, Frame
<1>2. \A p \in Dir \cup Link : Opened(p) \in Dir
  BY Directories DEF Opened, Target
<1>3. CASE NextInList
  <2>1. CASE todo = << >>
    BY <1>0, <1>3, <2>1 DEF NextInList
  <2>2. CASE todo # << >>
    <3>1. Head(todo) \in ListCall /\ Tail(todo) \in Seq(ListCall)
      BY <1>0, <2>2, HeadTailProperties
    <3>2. Enter(Opened(Head(todo).path)) \in Frame
      BY <1>1, <1>2, <3>1 DEF ListCall
    <3>3. <<Enter(Opened(Head(todo).path))>> \in Seq(Frame)
      BY <3>2
    <3>4. todo' = Tail(todo) /\ stack' \in {stack, <<Enter(Opened(Head(todo).path))>>}
      BY <1>3, <2>2 DEF NextInList
    <3> QED BY <1>0, <3>1, <3>3, <3>4
  <2> QED BY <2>1, <2>2
<1>4. CASE NextEntry
  <2> DEFINE top == Head(stack)
             e == Head(top.rest)
             popped == [top EXCEPT !.rest = Tail(top.rest)]
             back == [stack EXCEPT ![1] = popped]
  <2>1. stack # << >> /\ todo' = todo
    BY <1>4 DEF NextEntry
  <2>2. top \in Frame /\ Tail(stack) \in Seq(Frame)
    BY <1>0, <2>1, HeadTailProperties
  <2>3. CASE top.rest = << >>
    BY <1>0, <1>4, <2>1, <2>2, <2>3 DEF NextEntry
  <2>4. CASE top.rest # << >>
    <3>1. top.rest \in Seq(Dir \cup Link)
      BY <2>2 DEF Frame
    <3>2. e \in Dir \cup Link /\ Tail(top.rest) \in Seq(Dir \cup Link)
      BY <2>4, <3>1, HeadTailProperties
    <3>3. popped \in Frame
      BY <2>2, <3>2 DEF Frame
    <3>4. back \in Seq(Frame)
      BY <1>0, <2>1, <3>3, RangeOfTop
    <3>5. <<Enter(Opened(e))>> \o back \in Seq(Frame)
      BY <1>1, <1>2, <3>2, <3>4, RangeOfCons
    <3>6. back = [stack EXCEPT ![1].rest = Tail(@)]
      <4>1. top = stack[1]
        OBVIOUS
      <4> QED BY <1>0, <2>1, <4>1
    <3>7. stack' \in {<<Enter(Opened(e))>> \o back, back}
      BY <1>4, <2>4, <3>6 DEF NextEntry
    <3> QED BY <1>0, <2>1, <3>4, <3>5, <3>7
  <2> QED BY <2>3, <2>4
<1>5. CASE WriteAdd
  <2>1. stack # << >> /\ todo' = todo /\ stack' = [stack EXCEPT ![1].fresh = FALSE]
    BY <1>5 DEF WriteAdd
  <2>2. Head(stack) \in Frame
    BY <1>0, <2>1, HeadTailProperties
  <2>3. [Head(stack) EXCEPT !.fresh = FALSE] \in Frame
    BY <2>2 DEF Frame
  <2>4. stack' = [stack EXCEPT ![1] = [Head(stack) EXCEPT !.fresh = FALSE]]
    BY <1>0, <2>1
  <2> QED BY <1>0, <2>1, <2>3, <2>4, RangeOfTop
<1> QED BY <1>3, <1>4, <1>5

LEMMA TypeNext ==
    ASSUME TypeInv, QueueInOrder, [Next]_vars
    PROVE  TypeInv'
<1> USE DEF socket, counters, disk, history, Goto
<1>1. CASE MakeFolder \/ OpenSocket
  <2>1. faults' \in 0 .. MaxFaults
    BY <1>1, FaultType DEF MakeFolder, OpenSocket, TypeInv
  <2>2. at' \in {"open", "init", "exit"} /\ folder' \in BOOLEAN
    BY <1>1 DEF MakeFolder, OpenSocket, TypeInv
  <2>3. UNCHANGED <<prog, run, todo, stack, socket, counters, marker, files, history, others>>
    BY <1>1 DEF MakeFolder, OpenSocket
  <2> QED BY <2>1, <2>2, <2>3 DEF TypeInv
<1>2. CASE CheckMarker \/ MakeMarker
  <2>1. faults' \in 0 .. MaxFaults
    BY <1>2, FaultType DEF CheckMarker, MakeMarker, TypeInv
  <2> QED BY <1>2, <2>1 DEF CheckMarker, MakeMarker, TypeInv
<1>a. ASSUME NEW ds, Misses(ds) PROVE faults' \in 0 .. MaxFaults /\ calm' \in BOOLEAN
  BY <1>a, FaultType DEF Misses
<1>b. ASSUME Succeeds PROVE faults' \in 0 .. MaxFaults /\ calm' \in BOOLEAN
  BY <1>b DEF Succeeds, TypeInv
<1>3. CASE NextInList \/ NextEntry
  <2>1. todo' \in Seq(ListCall) /\ stack' \in Seq(Frame)
    BY <1>3, WalkType
  <2>2. /\ UNCHANGED <<prog, run, socket, counters, disk, sent, gone, others>>
        /\ at' \in {at, "mark", "exit"}
    BY <1>3 DEF NextInList, NextEntry
  <2>3. Succeeds \/ \E ds : Misses(ds)
    BY <1>3 DEF NextInList, NextEntry
  <2> QED BY <1>a, <1>b, <2>1, <2>2, <2>3 DEF TypeInv
<1>4. CASE WriteAdd
  <2>1. todo' \in Seq(ListCall) /\ stack' \in Seq(Frame)
    BY <1>4, WalkType
  <2>2. UNCHANGED <<prog, run, counters, disk, others>> /\ at' \in {at, "receive"}
    BY <1>4 DEF WriteAdd
  <2>3. CASE UNCHANGED <<socket, sent, gone, calm, faults>>
    BY <2>1, <2>2, <2>3 DEF TypeInv
  <2>5. CASE (\E ds : Misses(ds)) /\ UNCHANGED <<socket, sent, gone>>
    BY <1>a, <2>1, <2>2, <2>5 DEF TypeInv
  <2>4. CASE Arrive("add", Head(stack).dir) /\ UNCHANGED faults
    <3>1. Head(stack).dir \in Dir
      <4>1. stack \in Seq(Frame) /\ stack # << >>
        BY <1>4 DEF TypeInv, WriteAdd
      <4>2. Head(stack) \in Frame
        BY <4>1, HeadTailProperties
      <4> QED BY <4>2 DEF Frame
    <3>2. /\ queue' \in Seq(Message) /\ Len(queue') <= QueueCap /\ overrun' \in BOOLEAN
          /\ sent' \in Nat /\ gone' \subseteq 1 .. sent' /\ calm' \in BOOLEAN
      BY <2>4, <3>1, ArriveType
    <3> QED BY <2>1, <2>2, <2>4, <3>2 DEF TypeInv
  <2> QED BY <1>4, <2>3, <2>4, <2>5 DEF WriteAdd
<1>5. CASE ReceiveFails
  BY <1>5 DEF ReceiveFails, TypeInv
<1>6. CASE Receive
  <2> DEFINE m == Head(queue)
  <2>1. /\ queue # << >> /\ queue' = Tail(queue) /\ m \in Message
        /\ Foreign(m) \/ Passed(m) \/ Saved(m) \/ Cut(m) \/ Lost(m)
    BY <1>6, ReceiveIs
  <2>2. /\ Tail(queue) \in Seq(Message) /\ Len(Tail(queue)) = Len(queue) - 1
        /\ Len(queue) \in Nat
    BY <2>1, QueueType, HeadTailProperties
  <2>3. queue' \in Seq(Message) /\ Len(queue') <= QueueCap
    BY <2>1, <2>2, BoundAssumption DEF TypeInv
  <2>4. /\ UNCHANGED <<prog, run, todo, stack, overrun, uevent_stop_dump, folder, marker, written, missed,
                       sent, others>>
    BY <1>6 DEF Receive
  <2>5. /\ at' \in {"start", "open", "init", "walk", "receive", "mark", "exit"}
        /\ calm' \in BOOLEAN /\ faults' \in 0 .. MaxFaults
    <3>1. CASE Foreign(m) \/ Passed(m) \/ Saved(m)
      BY <3>1 DEF TypeInv, Foreign, Passed, Saved
    <3>2. CASE Cut(m) \/ Lost(m)
      BY <3>2, FaultType DEF TypeInv, Cut, Lost
    <3> QED BY <2>1, <3>1, <3>2
  <2>6. /\ files' \in Seq(Seq(FileEntry)) /\ uevent_index' \in 0 .. Len(files')
    <3>1. CASE Foreign(m) \/ Passed(m)
      BY <3>1 DEF TypeInv, Foreign, Passed
    <3>2. CASE Saved(m) \/ Cut(m)
      <4> HIDE DEF m
      <4>1. PICK x \in Message : files' = Appended(x) /\ uevent_index' = uevent_index + 1
        BY <2>1, <3>2, PartIs DEF Saved, Cut
      <4> DEFINE F == Appended(x)
                 n == uevent_index + 1
                 e == [run |-> run, dev |-> x.dev, no |-> x.no]
      <4>2. F \in Seq(Seq(FileEntry)) /\ n \in 0 .. Len(F)
        BY AppendedIs
      <4> QED BY <4>1, <4>2
    <3>3. CASE Lost(m)
      BY <3>3, LostIs DEF Lost
    <3> QED BY <2>1, <3>1, <3>2, <3>3
  <2>7. gone' \subseteq 1 .. sent
    <3>1. gone \subseteq 1 .. sent
      BY DEF TypeInv
    <3>2. m \in Range(queue)
      BY <2>1, QueueType, RangeOfTail
    <3>3. m.kind # "user" => m.no \in 1 .. sent
      BY <3>2 DEF QueueInOrder, Kernels
    <3> HIDE DEF m
    <3>4. gone' \subseteq gone \cup {m.no}
      BY <2>1 DEF Foreign, Passed, Saved, Cut, Lost
    <3>5. m.kind = "user" => gone' = gone
      BY <2>1 DEF Foreign, Passed, Saved, Cut, Lost
    <3> QED BY <3>1, <3>3, <3>4, <3>5
  <2> HIDE DEF m
  <2> QED BY <2>3, <2>4, <2>5, <2>6, <2>7 DEF TypeInv
<1>7. CASE Restart
  <2>1. /\ << >> \in Seq(Frame) /\ << >> \in Seq(Message) /\ Len(<< >>) = 0
    BY EmptySeq
  <2>2. run' \in 1 .. MaxRuns /\ 0 \in 0 .. Len(files)
    BY <1>7, QueueType, BoundAssumption DEF Restart, TypeInv
  <2>3. calm' \in BOOLEAN /\ marker' \in BOOLEAN
    BY <1>7 DEF Restart, TypeInv
  <2>4. todo' \in Seq(ListCall) /\ stack' \in Seq(Frame) /\ queue' \in Seq(Message) /\ Len(queue') <= QueueCap
    BY <1>7, <2>1, ListsType, BoundAssumption DEF Restart
  <2>5. sent' \in Nat /\ gone' \subseteq 1 .. sent' /\ uevent_index' = 0 /\ at' = "start"
        /\ overrun' = FALSE /\ uevent_stop_dump' = FALSE
    BY <1>7 DEF Restart
  <2>6. UNCHANGED <<prog, folder, files, others, faults>>
    BY <1>7 DEF Restart
  <2> QED BY <2>2, <2>3, <2>4, <2>5, <2>6 DEF TypeInv
<1>8. CASE UserSends
  <2> DEFINE m == [kind |-> "user", dev |-> "none", no |-> 0]
  <2>1. m \in Message
    BY DEF Message
  <2> HIDE DEF m
  <2>2. queue' \in Seq(Message) /\ Len(queue') <= QueueCap /\ overrun' \in BOOLEAN
    <3>1. CASE Len(queue) < QueueCap
      BY <1>8, <2>1, <3>1, QueuedType DEF UserSends, m, TypeInv
    <3>2. CASE ~ (Len(queue) < QueueCap)
      BY <1>8, <3>2 DEF UserSends, TypeInv
    <3> QED BY <3>1, <3>2
  <2>3. others' \in 0 .. MaxOther
    BY <1>8, BoundAssumption DEF UserSends, TypeInv
  <2> QED BY <1>8, <2>2, <2>3 DEF UserSends, TypeInv
<1>9. ASSUME NEW kind \in {"other", "big"}, OtherDevice(kind) PROVE TypeInv'
  <2>1. /\ queue' \in Seq(Message) /\ Len(queue') <= QueueCap /\ overrun' \in BOOLEAN
        /\ sent' \in Nat /\ gone' \subseteq 1 .. sent' /\ calm' \in BOOLEAN
    BY <1>9, ArriveType DEF OtherDevice
  <2>2. others' \in 0 .. MaxOther
    BY <1>9, BoundAssumption DEF OtherDevice, TypeInv
  <2> QED BY <1>9, <2>1, <2>2 DEF OtherDevice, TypeInv
<1>10. CASE UNCHANGED vars
  BY <1>10 DEF vars, TypeInv
<1> QED BY <1>1, <1>2, <1>3, <1>4, <1>5, <1>6, <1>7, <1>8, <1>9, <1>10 DEF Next, Program

-----------------------------------------------------------------------------
(* The walk.                                                                 *)

LEMMA InitCovered == Init => Covered
<1> SUFFICES ASSUME Init PROVE Covered
  OBVIOUS
<1>1. UNION {FrameAhead(f) : f \in Range(stack)} = {}
  BY DEF Init, Range
<1>2. prog = "dump" => Ahead = HasUevent
  BY <1>1, ListsAhead DEF Init, Ahead
<1>3. prog # "dump" => Ahead = HasUevent \ Withheld
  BY <1>1, ListsAhead DEF Init, Ahead
<1> QED BY <1>2, <1>3 DEF Init, Covered, Goal

LEMMA WalkCovered ==
    ASSUME TypeInv, Covered, NextInList \/ NextEntry \/ WriteAdd
    PROVE  Covered'
<1> DEFINE A == UNION {CallAhead(c) : c \in Range(todo)}
           B == UNION {FrameAhead(f) : f \in Range(stack)}
<1>0. /\ todo \in Seq(ListCall) /\ stack \in Seq(Frame)
      /\ todo' \in Seq(ListCall) /\ stack' \in Seq(Frame)
  BY WalkType DEF TypeInv
<1>1. prog' = prog
  BY DEF NextInList, NextEntry, WriteAdd
<1>a. Ahead = A \cup B /\ Ahead' = A' \cup B'
  BY DEF Ahead
<1>b. Goal' = Goal /\ written \cup missed \cup Ahead = Goal
  BY <1>1 DEF Goal, Covered
<1> HIDE DEF A, B
<1>2. SUFFICES written' \cup missed' \cup A' \cup B' = written \cup missed \cup A \cup B
  <2>1. written' \cup missed' \cup Ahead' = Goal'
    BY <1>a, <1>b, <1>2
  <2> QED BY <2>1 DEF Covered
<1> USE DEF A, B
<1>3. \A d \in Dir : FrameAhead(Enter(d)) = Below[d]
  BY BelowWalks DEF FrameAhead, Enter
<1>4. \A p \in Dir \cup Link : Opened(p) \in Dir
  BY Directories DEF Opened, Target
<1>5. Range(<< >>) = {} /\ \A f : Range(<<f>>) = {f}
  BY DEF Range
<1>6. CASE NextInList
  <2>1. CASE todo = << >>
    BY <1>6, <2>1 DEF NextInList, Succeeds
  <2>2. CASE todo # << >>
    <3> DEFINE c == Head(todo)
    <3>1. c \in ListCall /\ Tail(todo) \in Seq(ListCall) /\ Range(todo) = {c} \cup Range(Tail(todo))
      BY <1>0, <2>2, RangeOfTail
    <3>2. todo' = Tail(todo) /\ stack = << >>
      BY <1>6, <2>2 DEF NextInList
    <3>3. B = {} /\ A = CallAhead(c) \cup A'
      BY <1>5, <3>1, <3>2
    <3>4. CASE c.call = "coldboot" /\ stack' = <<Enter(Opened(c.path))>> /\ UNCHANGED <<written, missed>>
      <4>2. Opened(c.path) \in Dir
        BY <1>4, <3>1 DEF ListCall
      <4>3. B' = Below[Opened(c.path)]
        BY <1>3, <1>5, <3>4, <4>2
      <4>4. CallAhead(c) = Below[Opened(c.path)]
        BY <3>4 DEF CallAhead
      <4> HIDE DEF A, B, c
      <4> QED BY <3>3, <3>4, <4>3, <4>4
    <3>5. CASE /\ c.call = "write_file_uevent" /\ written' = written \cup {Opened(c.path)}
               /\ UNCHANGED <<stack, missed>>
      <4>2. B' = B
        BY <3>5
      <4>3. CallAhead(c) = {Opened(c.path)}
        BY <3>5 DEF CallAhead
      <4> HIDE DEF A, B, c
      <4> QED BY <3>3, <3>5, <4>2, <4>3
    <3>6. CASE missed' = missed \cup CallAhead(c) /\ UNCHANGED <<stack, written>>
      <4>2. B' = B
        BY <3>6
      <4> HIDE DEF A, B, c
      <4> QED BY <3>3, <3>6, <4>2
    <3> QED BY <1>6, <2>2, <3>4, <3>5, <3>6 DEF NextInList, Succeeds, Misses
  <2> QED BY <2>1, <2>2
<1> DEFINE top == Head(stack)
<1>7. ASSUME stack # << >>
      PROVE  /\ top \in Frame /\ Tail(stack) \in Seq(Frame) /\ top = stack[1]
             /\ Range(stack) = {top} \cup Range(Tail(stack))
  <2>1. top = stack[1]
    OBVIOUS
  <2> HIDE DEF top
  <2>2. Head(stack) \in Frame /\ Tail(stack) \in Seq(Frame) /\ Range(stack) = {Head(stack)} \cup Range(Tail(stack))
    BY <1>0, <1>7, RangeOfTail
  <2> QED BY <2>1, <2>2 DEF top
<1>8. CASE NextEntry
  <2>1. stack # << >> /\ ~top.fresh /\ todo' = todo /\ written' = written
    BY <1>8 DEF NextEntry
  <2>2. FrameAhead(top) = RestAhead(top.rest)
    BY <2>1 DEF FrameAhead
  <2>3. SUFFICES missed' \cup B' = missed \cup B
    BY <2>1, <2>3
  <2>4. CASE top.rest = << >>
    <3>1. stack' = Tail(stack) /\ missed' = missed
      BY <1>8, <2>4 DEF NextEntry, Succeeds
    <3>2. RestAhead(top.rest) = {}
      BY <1>5, <2>4 DEF RestAhead
    <3> HIDE DEF top
    <3> QED BY <1>7, <2>1, <2>2, <3>1, <3>2
  <2>5. CASE top.rest # << >>
    <3> DEFINE e == Head(top.rest)
               popped == [top EXCEPT !.rest = Tail(top.rest)]
               back == [stack EXCEPT ![1] = popped]
    <3>1. top.rest \in Seq(Dir \cup Link)
      BY <1>7, <2>1 DEF Frame
    <3>2. /\ e \in Dir \cup Link /\ Tail(top.rest) \in Seq(Dir \cup Link)
          /\ Range(top.rest) = {e} \cup Range(Tail(top.rest))
      BY <2>5, <3>1, RangeOfTail
    <3>3. popped \in Frame /\ popped.fresh = FALSE /\ popped.rest = Tail(top.rest)
      BY <1>7, <2>1, <3>2 DEF Frame
    <3>4. FrameAhead(popped) = RestAhead(Tail(top.rest))
      BY <3>3 DEF FrameAhead
    <3>5. back \in Seq(Frame) /\ Range(back) = {popped} \cup Range(Tail(stack))
      BY <1>0, <2>1, <3>3, RangeOfTop
    <3>6. back = [stack EXCEPT ![1].rest = Tail(@)]
      BY <1>0, <1>7, <2>1
    <3>7. \/ Walks(e) /\ stack' = <<Enter(Opened(e))>> \o back /\ missed' = missed
          \/ Walks(e) /\ stack' = back /\ missed' = missed \cup Below[Opened(e)]
          \/ ~Walks(e) /\ stack' = back /\ missed' = missed
      BY <1>8, <2>5, <3>6 DEF NextEntry, Succeeds, Misses
    <3>8. CASE Walks(e)
      <4>1. e \in Dir /\ Opened(e) = e
        BY <3>2, <3>8 DEF Walks, Opened
      <4>2. Enter(e) \in Frame
        BY <4>1, EntriesType DEF Enter, Frame
      <4>3. Range(<<Enter(e)>> \o back) = {Enter(e)} \cup Range(back)
        BY <3>5, <4>2, RangeOfCons
      <4>4. RestAhead(top.rest) = Below[e] \cup RestAhead(Tail(top.rest))
        BY <3>2, <3>8 DEF RestAhead
      <4>5. FrameAhead(Enter(e)) = Below[e]
        BY <1>3, <4>1
      <4> HIDE DEF top, e, popped, back
      <4>6. FrameAhead(top) = Below[e] \cup FrameAhead(popped)
        BY <2>2, <3>4, <4>4
      <4>7. B = Below[e] \cup UNION {FrameAhead(f) : f \in Range(back)}
        BY <1>7, <2>1, <3>5, <4>6
      <4>8. CASE stack' = <<Enter(e)>> \o back /\ missed' = missed
        BY <4>3, <4>5, <4>7, <4>8
      <4>9. CASE stack' = back /\ missed' = missed \cup Below[e]
        <5>1. B' = UNION {FrameAhead(f) : f \in Range(back)}
          BY <4>9
        <5> HIDE DEF B
        <5> QED BY <4>7, <4>9, <5>1
      <4> QED BY <3>7, <3>8, <4>1, <4>8, <4>9
    <3>9. CASE ~ Walks(e)
      <4>1. RestAhead(top.rest) = RestAhead(Tail(top.rest))
        BY <3>2, <3>9 DEF RestAhead
      <4> HIDE DEF top, e, popped, back
      <4>2. FrameAhead(top) = FrameAhead(popped)
        BY <2>2, <3>4, <4>1
      <4>3. stack' = back /\ missed' = missed
        BY <3>7, <3>9
      <4> QED BY <1>7, <2>1, <3>5, <4>2, <4>3
    <3> QED BY <3>8, <3>9
  <2> QED BY <2>4, <2>5
<1>9. CASE WriteAdd
  <2> DEFINE entered == [top EXCEPT !.fresh = FALSE]
  <2>1. stack # << >> /\ top.fresh /\ todo' = todo
    BY <1>9 DEF WriteAdd
  <2>2. stack' = [stack EXCEPT ![1] = entered]
    BY <1>0, <1>7, <1>9, <2>1 DEF WriteAdd
  <2>3. /\ entered \in Frame /\ entered.fresh = FALSE /\ entered.rest = top.rest
    BY <1>7, <2>1 DEF Frame
  <2>4. Range(stack') = {entered} \cup Range(Tail(stack))
    BY <1>0, <2>1, <2>2, <2>3, RangeOfTop
  <2>5. FrameAhead(top) = (HasUevent \cap {top.dir}) \cup FrameAhead(entered)
    BY <2>1, <2>3 DEF FrameAhead
  <2>6. written' \cup missed' = written \cup missed \cup (HasUevent \cap {top.dir})
    <3>1. CASE top.dir \notin HasUevent
      BY <1>9, <3>1 DEF WriteAdd, history
    <3>2. CASE top.dir \in HasUevent
      <4>1. \/ written' = written \cup {top.dir} /\ missed' = missed
            \/ written' = written /\ missed' = missed \cup {top.dir}
        BY <1>9, <3>2 DEF WriteAdd, Misses
      <4> QED BY <3>2, <4>1
    <3> QED BY <3>1, <3>2
  <2>7. A' = A
    BY <2>1
  <2> HIDE DEF top, entered, A
  <2>8. B = FrameAhead(top) \cup UNION {FrameAhead(f) : f \in Range(Tail(stack))}
    BY <1>7, <2>1
  <2>9. B' = FrameAhead(entered) \cup UNION {FrameAhead(f) : f \in Range(Tail(stack))}
    BY <2>4
  <2> HIDE DEF B
  <2> QED BY <2>5, <2>6, <2>7, <2>8, <2>9
<1> QED BY <1>6, <1>8, <1>9

LEMMA CoveredNext ==
    ASSUME TypeInv, Covered, [Next]_vars
    PROVE  Covered'
<1>1. CASE NextInList \/ NextEntry \/ WriteAdd
  BY <1>1, WalkCovered
<1>2. CASE Restart
  <2>1. prog' = "dump" /\ written' = {} /\ missed' = {} /\ todo' = DumpList /\ stack' = << >>
    BY <1>2 DEF Restart
  <2>2. Range(stack') = {}
    BY <2>1 DEF Range
  <2> QED BY <2>1, <2>2, ListsAhead DEF Covered, Goal, Ahead
<1>3. CASE UNCHANGED <<prog, todo, stack, written, missed>>
  BY <1>3 DEF Covered, Goal, Ahead
<1>4. ASSUME NEW kind, OtherDevice(kind) PROVE UNCHANGED <<prog, todo, stack, written, missed>>
  BY <1>4 DEF OtherDevice
<1>5. \/ NextInList \/ NextEntry \/ WriteAdd \/ Restart
      \/ UNCHANGED <<prog, todo, stack, written, missed>>
  BY <1>4 DEF Next, Program, MakeFolder, OpenSocket, CheckMarker, MakeMarker, ReceiveFails, Receive,
              UserSends, vars, history
<1> QED BY <1>1, <1>2, <1>3, <1>5

-----------------------------------------------------------------------------
(* Where the program is.                                                     *)

LEMMA InitPlaces == Init => Places
<1> SUFFICES ASSUME Init PROVE Places
  OBVIOUS
<1>1. \A c \in Range(DumpList) : c.call = "coldboot"
  BY DEF Range, DumpList, Coldboot
<1> QED BY <1>1 DEF Init, Places

LEMMA PlacesNext ==
    ASSUME TypeInv, Places, [Next]_vars
    PROVE  Places'
<1> USE DEF socket, counters, disk, history, Goto
<1>1. CASE MakeFolder \/ OpenSocket \/ CheckMarker \/ MakeMarker \/ ReceiveFails
  <2>1. UNCHANGED <<prog, todo, stack>>
    BY <1>1 DEF MakeFolder, OpenSocket, CheckMarker, MakeMarker, ReceiveFails
  <2>2. CASE MakeFolder \/ OpenSocket \/ ReceiveFails
    BY <2>1, <2>2 DEF MakeFolder, OpenSocket, ReceiveFails, Places
  <2>3. CASE CheckMarker
    BY <2>1, <2>3 DEF CheckMarker, MarksAt, Places, TypeInv
  <2>4. CASE MakeMarker
    BY <2>1, <2>4 DEF MakeMarker, MarksAt, Places
  <2> QED BY <1>1, <2>2, <2>3, <2>4
<1>2. CASE NextInList
  <2>1. /\ at = "walk" /\ stack = << >> /\ UNCHANGED <<prog, uevent_stop_dump, marker>>
        /\ at' \in {at, "mark", "exit"} /\ (at' = "mark" => prog = "dump")
        /\ (at' # at => todo = << >> /\ todo' = todo /\ stack' = stack)
    BY <1>2 DEF NextInList
  <2>2. \A c \in Range(todo') : c \in Range(todo)
    <3>1. CASE todo = << >>
      BY <1>2, <3>1 DEF NextInList
    <3>2. CASE todo # << >>
      <4>1. todo' = Tail(todo)
        BY <1>2, <3>2 DEF NextInList
      <4>2. todo \in Seq(ListCall)
        BY DEF TypeInv
      <4> QED BY <3>2, <4>1, <4>2, RangeOfTail
    <3> QED BY <3>1, <3>2
  <2> QED BY <2>1, <2>2 DEF Places
<1>3. CASE WriteAdd \/ NextEntry
  <2>1. /\ at = "walk" /\ UNCHANGED <<prog, todo, uevent_stop_dump, marker>>
        /\ at' = at \/ (at' = "receive" /\ prog = "dump")
    BY <1>3 DEF WriteAdd, NextEntry
  <2> QED BY <2>1 DEF Places
<1>4. CASE Receive
  <2>1. at = "receive" /\ at' \in {at, "walk"}
    BY <1>4, ReceiveIs DEF Foreign, Passed, Saved, Cut, Lost
  <2> QED BY <1>4, <2>1 DEF Receive, Places
<1>5. CASE Restart
  <2>1. \A c \in Range(DumpList) : c.call = "coldboot"
    BY DEF Range, DumpList, Coldboot
  <2> QED BY <1>5, <2>1 DEF Restart, Places
<1>6. CASE UNCHANGED <<prog, at, todo, stack, uevent_stop_dump, marker>>
  BY <1>6 DEF Places
<1>7. ASSUME NEW kind, OtherDevice(kind) PROVE UNCHANGED <<prog, at, todo, stack, uevent_stop_dump, marker>>
  BY <1>7 DEF OtherDevice
<1>8. UserSends \/ UNCHANGED vars => UNCHANGED <<prog, at, todo, stack, uevent_stop_dump, marker>>
  BY DEF UserSends, vars
<1> QED BY <1>1, <1>2, <1>3, <1>4, <1>5, <1>6, <1>7, <1>8 DEF Next, Program

-----------------------------------------------------------------------------
(* The queue.                                                                *)

LEMMA OrderOfAppend ==
    ASSUME TypeInv, QueueInOrder, NEW m \in Message, queue' = Append(queue, m),
           IF m.kind = "user" THEN sent' = sent ELSE m.no = sent + 1 /\ sent' = sent + 1
    PROVE  /\ QueueInOrder'
           /\ Range(queue') = Range(queue) \cup {m}
           /\ Kernels' = IF m.kind = "user" THEN Kernels ELSE Kernels \cup {m}
<1>1. /\ queue \in Seq(Message) /\ Len(queue) \in Nat /\ DOMAIN queue = 1 .. Len(queue) /\ sent \in Nat
  BY QueueType
<1>2. /\ queue' \in Seq(Message) /\ Len(queue') = Len(queue) + 1
      /\ \A i \in 1 .. Len(queue) : queue'[i] = queue[i]
      /\ queue'[Len(queue) + 1] = m
  BY <1>1, AppendProperties
<1>3. DOMAIN queue' = 1 .. Len(queue) + 1
  BY <1>2, LenProperties
<1>4. Range(queue') = Range(queue) \cup {m}
  BY <1>1, RangeOfAppend
<1>5. Kernels' = IF m.kind = "user" THEN Kernels ELSE Kernels \cup {m}
  BY <1>4 DEF Kernels
<1>6. \A k \in Kernels' : k.no \in 1 .. sent'
  <2>1. \A k \in Kernels : k.no \in 1 .. sent
    BY DEF QueueInOrder
  <2> QED BY <1>1, <1>5, <2>1
<1>7. ASSUME NEW i \in DOMAIN queue', NEW j \in DOMAIN queue',
             queue'[i].kind # "user", queue'[j].kind # "user", i < j
      PROVE  queue'[i].no < queue'[j].no
  <2>1. i \in 1 .. Len(queue) /\ queue'[i] = queue[i]
    BY <1>1, <1>2, <1>3, <1>7
  <2>2. CASE j \in 1 .. Len(queue)
    BY <1>1, <1>2, <1>7, <2>1, <2>2 DEF QueueInOrder
  <2>3. CASE j = Len(queue) + 1
    <3>1. queue[i] \in Kernels
      BY <1>1, <1>7, <2>1 DEF Kernels, Range
    <3>2. queue[i].no \in 1 .. sent
      BY <3>1 DEF QueueInOrder
    <3>3. m.no = sent + 1
      BY <1>2, <1>7, <2>3
    <3> QED BY <1>1, <1>2, <2>1, <2>3, <3>2, <3>3
  <2> QED BY <1>1, <1>3, <2>2, <2>3
<1> QED BY <1>4, <1>5, <1>6, <1>7 DEF QueueInOrder

LEMMA OrderOfTail ==
    ASSUME TypeInv, QueueInOrder, queue # << >>, queue' = Tail(queue), sent' = sent,
           NEW m, m = Head(queue)
    PROVE  /\ QueueInOrder'
           /\ Range(queue) = {m} \cup Range(queue')
           /\ Kernels = IF m.kind = "user" THEN Kernels' ELSE {m} \cup Kernels'
           /\ m.kind # "user" => /\ m \in Kernels /\ m.no \in 1 .. sent
                                 /\ \A k \in Kernels' : m.no < k.no
<1>1. /\ queue \in Seq(Message) /\ Len(queue) \in Nat /\ DOMAIN queue = 1 .. Len(queue) /\ sent \in Nat
  BY QueueType
<1>2. Len(queue) # 0
  BY <1>1, EmptySeq
<1>3. /\ queue' \in Seq(Message) /\ Len(queue') = Len(queue) - 1
      /\ \A i \in 1 .. Len(queue') : queue'[i] = queue[i + 1]
  BY <1>1, HeadTailProperties
<1>4. DOMAIN queue' = 1 .. Len(queue) - 1
  BY <1>3, LenProperties
<1>5. Range(queue) = {m} \cup Range(queue')
  BY <1>1, RangeOfTail
<1>6. Kernels = IF m.kind = "user" THEN Kernels' ELSE {m} \cup Kernels'
  BY <1>5 DEF Kernels
<1>7. \A k \in Kernels : k.no \in 1 .. sent
  BY DEF QueueInOrder
<1>8. \A k \in Kernels' : k.no \in 1 .. sent'
  BY <1>6, <1>7
<1>9. ASSUME NEW i \in DOMAIN queue', NEW j \in DOMAIN queue',
             queue'[i].kind # "user", queue'[j].kind # "user", i < j
      PROVE  queue'[i].no < queue'[j].no
  <2>1. /\ queue'[i] = queue[i + 1] /\ queue'[j] = queue[j + 1] /\ i + 1 < j + 1
        /\ i + 1 \in DOMAIN queue /\ j + 1 \in DOMAIN queue
    BY <1>1, <1>3, <1>4, <1>9
  <2> QED BY <1>9, <2>1 DEF QueueInOrder
<1>10. ASSUME m.kind # "user"
       PROVE  m \in Kernels /\ m.no \in 1 .. sent /\ \A k \in Kernels' : m.no < k.no
  <2>1. m \in Kernels
    BY <1>6, <1>10
  <2>2. m = queue[1] /\ 1 \in DOMAIN queue
    BY <1>1, <1>2
  <2>3. ASSUME NEW k \in Kernels' PROVE m.no < k.no
    <3>1. PICK i \in DOMAIN queue' : k = queue'[i]
      BY <2>3 DEF Kernels, Range
    <3>2. k = queue[i + 1] /\ i + 1 \in DOMAIN queue /\ 1 < i + 1
      BY <1>1, <1>3, <1>4, <3>1
    <3>3. k.kind # "user"
      BY <2>3 DEF Kernels
    <3> QED BY <1>10, <2>2, <3>2, <3>3 DEF QueueInOrder
  <2> QED BY <1>7, <2>1, <2>3
<1> QED BY <1>5, <1>6, <1>8, <1>9, <1>10 DEF QueueInOrder

(* What a step is to the messages: one of the kernel arrives and is queued   *)
(* or lost, one of a user is queued, one is received, or it is none of this. *)
Same == UNCHANGED <<run, uevent_index, files>>
KernelQueued == \E m \in Message : /\ m.kind # "user" /\ m.no = sent + 1 /\ sent' = sent + 1
                                   /\ Queued(m) /\ Same
KernelLost == NoRoom /\ sent' = sent + 1 /\ Same
UserQueued == \E m \in Message : /\ m.kind = "user" /\ queue' = Append(queue, m)
                                 /\ UNCHANGED <<sent, gone>> /\ Same
Silent == UNCHANGED <<queue, sent, gone>> /\ Same

LEMMA SocketSteps ==
    ASSUME TypeInv, [Next]_vars
    PROVE  KernelQueued \/ KernelLost \/ UserQueued \/ Silent \/ Receive \/ Restart
<1> USE DEF socket, counters, disk, history
<1>1. CASE MakeFolder \/ OpenSocket \/ CheckMarker \/ MakeMarker
  BY <1>1 DEF MakeFolder, OpenSocket, CheckMarker, MakeMarker, Silent, Same
<1>2. CASE NextInList \/ NextEntry \/ ReceiveFails
  BY <1>2 DEF NextInList, NextEntry, ReceiveFails, Silent, Same
<1>3. ASSUME NEW kind \in {"add", "other", "big"}, NEW dev \in Dir \cup {"none"}, Arrive(kind, dev), Same
      PROVE  KernelQueued \/ KernelLost
  <2> DEFINE m == [kind |-> kind, dev |-> dev, no |-> sent + 1]
  <2>1. sent' = sent + 1 /\ m \in Message /\ (Queued(m) \/ NoRoom)
    BY <1>3, ArriveIs
  <2>2. m.kind # "user" /\ m.no = sent + 1
    BY <1>3
  <2> HIDE DEF m
  <2> QED BY <1>3, <2>1, <2>2 DEF KernelQueued, KernelLost
<1>4. CASE WriteAdd
  <2>1. Same
    BY <1>4 DEF WriteAdd, Same
  <2>2. Head(stack).dir \in Dir
    <3>1. stack \in Seq(Frame) /\ stack # << >>
      BY <1>4 DEF TypeInv, WriteAdd
    <3>2. Head(stack) \in Frame
      BY <3>1, HeadTailProperties
    <3> QED BY <3>2 DEF Frame
  <2>3. Arrive("add", Head(stack).dir) \/ UNCHANGED <<queue, sent, gone>>
    BY <1>4 DEF WriteAdd
  <2> QED BY <1>3, <2>1, <2>2, <2>3 DEF Silent
<1>5. ASSUME NEW kind \in {"other", "big"}, OtherDevice(kind) PROVE KernelQueued \/ KernelLost
  <2>1. Arrive(kind, "none") /\ Same
    BY <1>5 DEF OtherDevice, Same
  <2> QED BY <1>3, <2>1
<1>6. CASE UserSends
  <2> DEFINE m == [kind |-> "user", dev |-> "none", no |-> 0]
  <2>1. m \in Message /\ m.kind = "user"
    BY DEF Message
  <2>2. UNCHANGED <<sent, gone>> /\ Same
    BY <1>6 DEF UserSends, Same
  <2>3. queue' \in {Append(queue, m), queue}
    BY <1>6 DEF UserSends
  <2> HIDE DEF m
  <2> QED BY <2>1, <2>2, <2>3 DEF UserQueued, Silent
<1>7. CASE UNCHANGED vars
  BY <1>7 DEF vars, Silent, Same
<1> QED BY <1>1, <1>2, <1>4, <1>5, <1>6, <1>7 DEF Next, Program

LEMMA QueueNext ==
    ASSUME TypeInv, QueueInOrder, [Next]_vars
    PROVE  QueueInOrder'
<1>1. CASE KernelQueued
  BY <1>1, OrderOfAppend DEF KernelQueued, Queued
<1>2. CASE KernelLost
  <2>1. queue' = queue /\ sent' = sent + 1 /\ sent \in Nat
    BY <1>2 DEF KernelLost, NoRoom, TypeInv
  <2>2. Kernels' = Kernels
    BY <2>1 DEF Kernels
  <2> QED BY <2>1, <2>2 DEF QueueInOrder
<1>3. CASE UserQueued
  BY <1>3, OrderOfAppend DEF UserQueued
<1>4. CASE Silent
  BY <1>4 DEF Silent, QueueInOrder, Kernels
<1>5. CASE Receive
  <2>1. queue # << >> /\ queue' = Tail(queue) /\ sent' = sent
    BY <1>5 DEF Receive
  <2> QED BY <2>1, OrderOfTail
<1>6. CASE Restart
  <2>1. queue' = << >>
    BY <1>6 DEF Restart
  <2>2. DOMAIN queue' = {} /\ Range(queue') = {}
    BY <2>1 DEF Range
  <2> QED BY <2>2 DEF QueueInOrder, Kernels
<1> QED BY <1>1, <1>2, <1>3, <1>4, <1>5, <1>6, SocketSteps

-----------------------------------------------------------------------------
(* The files.                                                                *)

LEMMA ContentsAre ==
    ASSUME NEW f
    PROVE  f \in Contents <=> \E i \in DOMAIN files : \E k \in DOMAIN files[i] : f = files[i][k]
  BY DEF Contents, Range

LEMMA FilesType ==
    ASSUME TypeInv, NEW i \in DOMAIN files, NEW k \in DOMAIN files[i]
    PROVE  i \in Nat /\ files[i][k].run \in Nat /\ files[i][k].no \in Nat
<1>1. files[i] \in Seq(FileEntry) /\ i \in Nat
  <2>1. files \in Seq(Seq(FileEntry)) /\ i \in 1 .. Len(files)
    BY QueueType
  <2> QED BY <2>1, ElementOfSeq
<1>2. DOMAIN files[i] = 1 .. Len(files[i])
  BY <1>1, LenProperties
<1>3. files[i][k] \in FileEntry
  BY <1>1, <1>2, ElementOfSeq
<1> QED BY <1>1, <1>3 DEF FileEntry

(* Receiving a message adds an entry for it, whole or in part, or nothing.    *)
LEMMA ContentsNext ==
    ASSUME TypeInv, Receive, NEW m \in Message, m = Head(queue)
    PROVE  /\ Saved(m) => Contents' = Contents \cup {[run |-> run, dev |-> m.dev, no |-> m.no]}
           /\ Cut(m) => Contents' = Contents \cup {[run |-> run, dev |-> Part(m).dev, no |-> m.no]}
           /\ ~ Saved(m) /\ ~ Cut(m) => Contents' = Contents
<1>0. \A f : f \in Contents' <=> \E i \in DOMAIN files' : \E k \in DOMAIN files'[i] : f = files'[i][k]
  BY DEF Contents, Range
<1>1. ASSUME NEW x \in Message, files' = Appended(x)
      PROVE  Contents' = Contents \cup {[run |-> run, dev |-> x.dev, no |-> x.no]}
  <2> DEFINE n == uevent_index + 1
             e == [run |-> run, dev |-> x.dev, no |-> x.no]
  <2> HIDE DEF n, e
  <2>2. /\ \A i \in DOMAIN files : \A k \in DOMAIN files[i] :
              i \in DOMAIN files' /\ k \in DOMAIN files'[i] /\ files'[i][k] = files[i][k]
        /\ \E l : /\ n \in DOMAIN files' /\ l \in DOMAIN files'[n] /\ files'[n][l] = e
                  /\ \A i \in DOMAIN files' : \A k \in DOMAIN files'[i] :
                        <<i, k>> # <<n, l>> => i \in DOMAIN files /\ k \in DOMAIN files[i]
    BY <1>1, AppendedIs DEF n, e
  <2>3. Contents' = Contents \cup {e}
    BY <1>0, <2>2, ContentsAre
  <2> QED BY <2>3 DEF e
<1>2. CASE Saved(m)
  <2>1. files' = Appended(m)
    BY <1>2 DEF Saved
  <2>2. ~ Cut(m)
    BY <1>2 DEF Saved, Cut, Fault, TypeInv
  <2> QED BY <1>1, <1>2, <2>1, <2>2
<1>3. CASE Cut(m)
  <2>1. files' = Appended(Part(m)) /\ Part(m) \in Message
    BY <1>3, PartIs DEF Cut
  <2>2. Contents' = Contents \cup {[run |-> run, dev |-> Part(m).dev, no |-> m.no]}
    BY <1>1, <2>1, PartIs
  <2>3. ~ Saved(m)
    BY <1>3 DEF Saved, Cut, Fault, TypeInv
  <2> QED BY <1>3, <2>2, <2>3
<1>4. CASE ~ Saved(m) /\ ~ Cut(m)
  <2>1. Foreign(m) \/ Passed(m) \/ Lost(m)
    BY <1>4, ReceiveIs
  <2>2. CASE Foreign(m) \/ Passed(m)
    BY <1>4, <2>2 DEF Foreign, Passed, Contents
  <2>3. CASE Lost(m)
    <3>1. /\ \A i \in DOMAIN files : i \in DOMAIN files' /\ files'[i] = files[i]
          /\ \A i \in DOMAIN files' : \A k \in DOMAIN files'[i] : i \in DOMAIN files /\ files'[i] = files[i]
      BY <2>3, LostIs DEF Lost
    <3>2. Contents' = Contents
      BY <1>0, <3>1, ContentsAre
    <3> QED BY <1>4, <3>2
  <2> QED BY <2>1, <2>2, <2>3
<1> QED BY <1>2, <1>3, <1>4

(* A message that is received comes after all that this run has dumped, and  *)
(* goes into a file that this run has not written to.                        *)
LEMMA RunOrderNext ==
    ASSUME TypeInv, Places, QueueInOrder, RunInOrder, FilesInOrder, [Next]_vars
    PROVE  RunInOrder' /\ FilesInOrder'
<1>0. run \in Nat /\ sent \in Nat /\ uevent_index \in Nat
  BY QueueType
<1>1. CASE KernelQueued
  <2>1. PICK m \in Message : m.kind # "user" /\ m.no = sent + 1 /\ sent' = sent + 1 /\ Queued(m) /\ Same
    BY <1>1 DEF KernelQueued
  <2>2. Kernels' = Kernels \cup {m}
    BY <2>1, OrderOfAppend DEF Queued
  <2>3. UNCHANGED <<run, uevent_index, files>>
    BY <2>1 DEF Same
  <2>4. ASSUME NEW i \in DOMAIN files, NEW k \in DOMAIN files[i] PROVE Behind(i, files[i][k])'
    <3>1. Behind(i, files[i][k])
      BY <2>4 DEF RunInOrder
    <3>2. files[i][k].no \in Nat
      BY <2>4, FilesType
    <3> QED BY <1>0, <2>1, <2>2, <2>3, <3>1, <3>2 DEF Behind
  <2> QED BY <2>3, <2>4 DEF RunInOrder, FilesInOrder
<1>2. CASE KernelLost \/ UserQueued \/ Silent
  <2>1. Kernels' = Kernels /\ (sent' = sent \/ sent' = sent + 1) /\ UNCHANGED <<run, uevent_index, files>>
    <3>1. CASE KernelLost
      BY <3>1 DEF KernelLost, NoRoom, Kernels, Same
    <3>2. CASE UserQueued
      BY <3>2, OrderOfAppend DEF UserQueued, Same
    <3>3. CASE Silent
      BY <3>3 DEF Silent, Same, Kernels
    <3> QED BY <1>2, <3>1, <3>2, <3>3
  <2>2. ASSUME NEW i \in DOMAIN files, NEW k \in DOMAIN files[i] PROVE Behind(i, files[i][k])'
    <3>1. Behind(i, files[i][k])
      BY <2>2 DEF RunInOrder
    <3>2. files[i][k].no \in Nat
      BY <2>2, FilesType
    <3> QED BY <1>0, <2>1, <3>1, <3>2 DEF Behind
  <2> QED BY <2>1, <2>2 DEF RunInOrder, FilesInOrder
<1>3. CASE Restart
  <2>1. run' = run + 1 /\ files' = files
    BY <1>3 DEF Restart
  <2>2. ASSUME NEW i \in DOMAIN files, NEW k \in DOMAIN files[i] PROVE Behind(i, files[i][k])'
    <3>1. files[i][k].run <= run
      BY <2>2 DEF RunInOrder, Behind
    <3>2. files[i][k].run \in Nat
      BY <2>2, FilesType
    <3> QED BY <1>0, <2>1, <3>1, <3>2 DEF Behind
  <2> QED BY <2>1, <2>2 DEF RunInOrder, FilesInOrder
<1>4. CASE Receive
  <2> DEFINE m == Head(queue)
  <2>0. m \in Message /\ (Foreign(m) \/ Passed(m) \/ Saved(m) \/ Cut(m) \/ Lost(m))
    BY <1>4, ReceiveIs
  <2>1. queue # << >> /\ queue' = Tail(queue) /\ UNCHANGED <<run, sent>>
    BY <1>4 DEF Receive
  <2> HIDE DEF m
  <2>2. /\ Kernels' \subseteq Kernels
        /\ m.kind # "user" => m \in Kernels /\ m.no \in 1 .. sent /\ \A x \in Kernels' : m.no < x.no
    BY <2>1, OrderOfTail DEF m
  <2>3. uevent_index' \in {uevent_index, uevent_index + 1}
    BY <2>0 DEF Foreign, Passed, Saved, Cut, Lost
  <2>4. ASSUME NEW i \in DOMAIN files, NEW k \in DOMAIN files[i], NEW f, f = files[i][k]
        PROVE  i \in Nat /\ f.no \in Nat /\ Behind(i, f)'
    <3>1. Behind(i, f)
      BY <2>4 DEF RunInOrder
    <3>2. i \in Nat /\ f.no \in Nat
      BY <2>4, FilesType
    <3> QED BY <1>0, <2>1, <2>2, <2>3, <3>1, <3>2 DEF Behind
  <2>5. CASE Foreign(m) \/ Passed(m) \/ Lost(m)
    <3>1. /\ \A i \in DOMAIN files' : \A k \in DOMAIN files'[i] : i \in DOMAIN files /\ files'[i] = files[i]
      <4>1. CASE Foreign(m) \/ Passed(m)
        BY <4>1 DEF Foreign, Passed
      <4>2. CASE Lost(m)
        BY <4>2, LostIs DEF Lost
      <4> QED BY <2>5, <4>1, <4>2
    <3>2. RunInOrder'
      BY <2>4, <3>1 DEF RunInOrder
    <3>3. FilesInOrder'
      BY <3>1 DEF FilesInOrder
    <3> QED BY <3>2, <3>3
  <2>6. CASE Saved(m) \/ Cut(m)
    <3>x. PICK w \in {m, Part(m)} : files' = Appended(w)
      BY <2>6 DEF Saved, Cut
    <3>y. w \in Message /\ w.no = m.no
      BY <2>0, <3>x, PartIs
    <3>n. PICK n : n = uevent_index + 1
      OBVIOUS
    <3>e. PICK e : e = [run |-> run, dev |-> w.dev, no |-> w.no]
      OBVIOUS
    <3>1. files' = Appended(w) /\ m.kind # "user" /\ uevent_index' = n
      BY <2>6, <3>n, <3>x DEF Saved, Cut
    <3>2. n \in Nat /\ e.run = run /\ e.no = m.no /\ n > uevent_index
      BY <1>0, <3>n, <3>e, <3>y
    <3>3. \A i \in DOMAIN files : \A k \in DOMAIN files[i] :
              i \in DOMAIN files' /\ k \in DOMAIN files'[i] /\ files'[i][k] = files[i][k]
      BY <3>y, <3>1, <3>n, <3>e, AppendedIs
    <3>4. PICK l : /\ n \in DOMAIN files' /\ l \in DOMAIN files'[n] /\ files'[n][l] = e
                   /\ \A i \in DOMAIN files' : \A k \in DOMAIN files'[i] :
                         <<i, k>> # <<n, l>> => i \in DOMAIN files /\ k \in DOMAIN files[i]
      BY <3>y, <3>1, <3>n, <3>e, AppendedIs
    <3>5. m \in Kernels /\ m.no \in 1 .. sent /\ \A x \in Kernels' : m.no < x.no
      BY <2>2, <3>1
    <3>6. ASSUME NEW i \in DOMAIN files, NEW k \in DOMAIN files[i], files[i][k].run = run
          PROVE  i < n /\ files[i][k].no < e.no
      <4>1. i <= uevent_index /\ \A x \in Kernels : files[i][k].no < x.no
        BY <3>6 DEF RunInOrder, Behind
      <4> QED BY <1>0, <2>4, <3>2, <3>5, <4>1
    <3>7. RunInOrder'
      <4> SUFFICES ASSUME NEW i \in DOMAIN files', NEW k \in DOMAIN files'[i], NEW f, f = files'[i][k]
                   PROVE  Behind(i, f)'
        BY DEF RunInOrder, Behind
      <4>1. CASE <<i, k>> = <<n, l>>
        <5>1. f = e /\ i = n
          BY <3>4, <4>1
        <5>2. Behind(n, e)'
          BY <1>0, <2>1, <3>1, <3>2, <3>5 DEF Behind
        <5> QED BY <5>1, <5>2
      <4>2. CASE <<i, k>> # <<n, l>>
        <5>1. i \in DOMAIN files /\ k \in DOMAIN files[i] /\ files'[i][k] = files[i][k]
          BY <3>3, <3>4, <4>2
        <5> QED BY <2>4, <5>1
      <4> QED BY <4>1, <4>2
    <3>8. FilesInOrder'
      <4> DEFINE Ordered(i, k, j, h) ==
                   /\ files'[i][k].run = files'[j][h].run /\ <<i, k>> # <<j, h>>
                   => \/ i < j /\ files'[i][k].no < files'[j][h].no
                      \/ j < i /\ files'[j][h].no < files'[i][k].no
      <4> SUFFICES ASSUME NEW i \in DOMAIN files', NEW j \in DOMAIN files',
                          NEW k \in DOMAIN files'[i], NEW h \in DOMAIN files'[j]
                   PROVE  Ordered(i, k, j, h)
        BY DEF FilesInOrder
      <4>1. CASE <<i, k>> = <<n, l>> /\ <<j, h>> = <<n, l>>
        BY <4>1
      <4>2. CASE <<i, k>> = <<n, l>> /\ <<j, h>> # <<n, l>>
        <5>1. files'[i][k] = e /\ i = n
          BY <3>4, <4>2
        <5>2. j \in DOMAIN files /\ h \in DOMAIN files[j] /\ files'[j][h] = files[j][h]
          BY <3>3, <3>4, <4>2
        <5> QED BY <3>2, <3>6, <5>1, <5>2
      <4>3. CASE <<i, k>> # <<n, l>> /\ <<j, h>> = <<n, l>>
        <5>1. files'[j][h] = e /\ j = n
          BY <3>4, <4>3
        <5>2. i \in DOMAIN files /\ k \in DOMAIN files[i] /\ files'[i][k] = files[i][k]
          BY <3>3, <3>4, <4>3
        <5> QED BY <3>2, <3>6, <5>1, <5>2
      <4>4. CASE <<i, k>> # <<n, l>> /\ <<j, h>> # <<n, l>>
        <5>1. /\ i \in DOMAIN files /\ k \in DOMAIN files[i] /\ files'[i][k] = files[i][k]
              /\ j \in DOMAIN files /\ h \in DOMAIN files[j] /\ files'[j][h] = files[j][h]
          BY <3>3, <3>4, <4>4
        <5> QED BY <5>1 DEF FilesInOrder
      <4> QED BY <4>1, <4>2, <4>3, <4>4
    <3> QED BY <3>7, <3>8
  <2> QED BY <2>0, <2>5, <2>6
<1> QED BY <1>1, <1>2, <1>3, <1>4, SocketSteps

-----------------------------------------------------------------------------
(* Where the messages of a run are.                                          *)

Dumped == {e.no : e \in {f \in Contents : f.run = run}}
Known == 1 .. sent = Dumped \cup {m.no : m \in Kernels} \cup gone

LEMMA AccountedIs == Accounted <=> Known
<1>1. {queue[i].no : i \in {j \in DOMAIN queue : queue[j].kind # "user"}} = {m.no : m \in Kernels}
  BY DEF Kernels, Range
<1> QED BY <1>1 DEF Accounted, Known, Dumped

LEMMA KnownNext ==
    ASSUME TypeInv, Places, QueueInOrder, RunInOrder, Known, [Next]_vars
    PROVE  Known'
<1> DEFINE K == {m.no : m \in Kernels}
<1>0. sent \in Nat /\ run \in Nat /\ 1 .. (sent + 1) = (1 .. sent) \cup {sent + 1}
  BY QueueType
<1>1. ASSUME Same PROVE Dumped' = Dumped
  BY <1>1 DEF Same, Dumped, Contents
<1>2. CASE KernelQueued
  <2>1. PICK m \in Message : m.kind # "user" /\ m.no = sent + 1 /\ sent' = sent + 1 /\ Queued(m) /\ Same
    BY <1>2 DEF KernelQueued
  <2>2. Kernels' = Kernels \cup {m} /\ gone' = gone
    BY <2>1, OrderOfAppend DEF Queued
  <2>3. K' = K \cup {sent + 1}
    BY <2>1, <2>2
  <2>4. 1 .. sent' = (1 .. sent) \cup {sent + 1}
    BY <1>0, <2>1
  <2> HIDE DEF K
  <2>5. 1 .. sent = Dumped \cup K \cup gone
    BY DEF Known, K
  <2>6. 1 .. sent' = Dumped' \cup K' \cup gone'
    BY <1>1, <2>1, <2>2, <2>3, <2>4, <2>5
  <2> QED BY <2>6 DEF Known, K
<1>3. CASE KernelLost
  <2>1. gone' = gone \cup {sent + 1} /\ sent' = sent + 1 /\ queue' = queue /\ Same
    BY <1>3 DEF KernelLost, NoRoom
  <2>2. Kernels' = Kernels
    BY <2>1 DEF Kernels
  <2>3. K' = K
    BY <2>2
  <2>4. 1 .. sent' = (1 .. sent) \cup {sent + 1}
    BY <1>0, <2>1
  <2> HIDE DEF K
  <2>5. 1 .. sent = Dumped \cup K \cup gone
    BY DEF Known, K
  <2>6. 1 .. sent' = Dumped' \cup K' \cup gone'
    BY <1>1, <2>1, <2>3, <2>4, <2>5
  <2> QED BY <2>6 DEF Known, K
<1>4. CASE UserQueued \/ Silent
  <2>1. Kernels' = Kernels /\ sent' = sent /\ gone' = gone /\ Same
    <3>1. CASE UserQueued
      BY <3>1, OrderOfAppend DEF UserQueued
    <3>2. CASE Silent
      BY <3>2 DEF Silent, Kernels
    <3> QED BY <1>4, <3>1, <3>2
  <2> QED BY <1>1, <2>1 DEF Known
<1>5. CASE Receive
  <2> DEFINE m == Head(queue)
  <2>0. m \in Message /\ (Foreign(m) \/ Passed(m) \/ Saved(m) \/ Cut(m) \/ Lost(m))
    BY <1>5, ReceiveIs
  <2>1. queue # << >> /\ queue' = Tail(queue) /\ run' = run /\ sent' = sent /\ ~uevent_stop_dump
    BY <1>5 DEF Receive, Places
  <2> HIDE DEF m
  <2>2. Kernels = IF m.kind = "user" THEN Kernels' ELSE {m} \cup Kernels'
    BY <2>1, OrderOfTail DEF m
  <2>3. \E d : Saved(m) \/ Cut(m) => Contents' = Contents \cup {[run |-> run, dev |-> d, no |-> m.no]}
    BY <1>5, <2>0, ContentsNext DEF m
  <2>a. ~ Saved(m) /\ ~ Cut(m) => Contents' = Contents
    BY <1>5, <2>0, ContentsNext DEF m
  <2>4. /\ m.kind = "user" => K = K'
        /\ m.kind # "user" => K = {m.no} \cup K'
    BY <2>2
  <2>5. /\ Saved(m) \/ Cut(m) => Dumped' = Dumped \cup {m.no}
        /\ ~ Saved(m) /\ ~ Cut(m) => Dumped' = Dumped
    <3>1. PICK d : Saved(m) \/ Cut(m) => Contents' = Contents \cup {[run |-> run, dev |-> d, no |-> m.no]}
      BY <2>3
    <3>b. PICK e : e = [run |-> run, dev |-> d, no |-> m.no]
      OBVIOUS
    <3>2. e.run = run /\ e.no = m.no
      BY <3>b
    <3>3. Saved(m) \/ Cut(m) => Contents' = Contents \cup {e}
      BY <3>1, <3>b
    <3>4. Saved(m) \/ Cut(m) => Dumped' = Dumped \cup {m.no}
      BY <2>1, <3>2, <3>3 DEF Dumped
    <3>5. ~ Saved(m) /\ ~ Cut(m) => Dumped' = Dumped
      BY <2>1, <2>a DEF Dumped
    <3> QED BY <3>4, <3>5
  <2>6. \/ m.kind = "user" /\ gone' = gone /\ ~ Saved(m) /\ ~ Cut(m)
        \/ m.kind # "user" /\ gone' = gone \cup {m.no} /\ ~ Saved(m) /\ ~ Cut(m)
        \/ m.kind # "user" /\ gone' = gone /\ (Saved(m) \/ Cut(m))
        \/ m.kind # "user" /\ gone' = gone \cup {m.no} /\ (Saved(m) \/ Cut(m))
    BY <2>0, <2>1 DEF Foreign, Passed, Saved, Cut, Lost
  <2> HIDE DEF K
  <2>7. 1 .. sent = Dumped \cup K \cup gone
    BY DEF Known, K
  <2>8. 1 .. sent = Dumped' \cup K' \cup gone'
    BY <2>4, <2>5, <2>6, <2>7
  <2> QED BY <2>1, <2>8 DEF Known, K
<1>6. CASE Restart
  <2>1. run' = run + 1 /\ files' = files /\ queue' = << >> /\ sent' = 0 /\ gone' = {}
    BY <1>6 DEF Restart
  <2>2. Kernels' = {}
    BY <2>1 DEF Kernels, Range
  <2>3. ASSUME NEW f \in Contents PROVE f.run # run'
    <3>1. PICK i \in DOMAIN files : \E k \in DOMAIN files[i] : f = files[i][k]
      BY <2>3, ContentsAre
    <3>a. PICK k \in DOMAIN files[i] : f = files[i][k]
      BY <3>1
    <3>2. f.run <= run /\ f.run \in Nat
      BY <3>a, FilesType DEF RunInOrder, Behind
    <3> QED BY <1>0, <2>1, <3>2
  <2>4. Dumped' = {}
    BY <2>1, <2>3 DEF Dumped, Contents
  <2>5. 1 .. sent' = {}
    BY <2>1
  <2> QED BY <2>1, <2>2, <2>4, <2>5 DEF Known
<1> QED BY <1>2, <1>3, <1>4, <1>5, <1>6, SocketSteps

(* The answers to the writes, and the marker.                                *)
LEMMA WrittenNext ==
    ASSUME TypeInv, Places, Covered, QueueInOrder, WrittenKept, MarkerComplete, [Next]_vars
    PROVE  WrittenKept' /\ MarkerComplete'
<1> SUFFICES ASSUME prog' = "dump", calm'
             PROVE  /\ ~overrun' /\ Range(queue') = Kernels' /\ missed' = {}
                    /\ written' \subseteq Devices' \cup Answers'
                    /\ at' # "receive" => written' \subseteq Devices'
                    /\ marker' => HasUevent \subseteq Devices'
  BY DEF WrittenKept, MarkerComplete, Devices
<1> USE DEF socket, counters, disk, history, Goto
<1>0. ASSUME prog = "dump", calm
      PROVE  /\ ~overrun /\ Range(queue) = Kernels /\ missed = {}
             /\ written \subseteq Devices \cup Answers
             /\ at # "receive" => written \subseteq Devices
             /\ marker => HasUevent \subseteq Devices
  BY <1>0 DEF WrittenKept, MarkerComplete, Devices
<1>a. ASSUME UNCHANGED files PROVE Devices' = Devices
  BY <1>a DEF Devices, Contents
<1>b. ASSUME UNCHANGED queue PROVE Range(queue') = Range(queue) /\ Kernels' = Kernels /\ Answers' = Answers
  BY <1>b DEF Kernels, Answers
<1>1. CASE MakeFolder \/ OpenSocket \/ CheckMarker
  <2>1. /\ UNCHANGED <<prog, calm, overrun, queue, written, missed, files, marker>>
        /\ at # "receive"
    BY <1>1 DEF MakeFolder, OpenSocket, CheckMarker, MarksAt, TypeInv
  <2> QED BY <1>0, <1>a, <1>b, <2>1
<1>2. CASE MakeMarker
  <2>1. at = "mark" /\ UNCHANGED <<prog, calm, overrun, queue, written, missed, files>>
    BY <1>2 DEF MakeMarker
  <2>2. todo = << >> /\ stack = << >>
    BY <2>1 DEF Places
  <2>3. Ahead = {}
    BY <2>2 DEF Ahead, Range
  <2>4. written = HasUevent
    BY <1>0, <2>1, <2>3 DEF Covered, Goal
  <2> QED BY <1>0, <1>a, <1>b, <2>1, <2>4
<1>3. CASE NextInList \/ NextEntry
  <2>0. calm' = calm /\ missed' = missed
    BY <1>3 DEF NextInList, NextEntry, Succeeds, Misses
  <2>1. /\ at = "walk" /\ UNCHANGED <<prog, calm, missed, overrun, queue, files, marker>>
    BY <1>3, <2>0 DEF NextInList, NextEntry
  <2>2. written' = written
    <3>1. CASE NextEntry
      BY <3>1 DEF NextEntry
    <3>2. CASE NextInList
      <4>1. CASE todo = << >>
        BY <3>2, <4>1 DEF NextInList
      <4>2. CASE todo # << >>
        <5>1. todo \in Seq(ListCall)
          BY DEF TypeInv
        <5>2. Head(todo) \in Range(todo)
          BY <4>2, <5>1, RangeOfTail
        <5>3. Head(todo).call = "coldboot"
          BY <2>1, <5>2 DEF Places
        <5> QED BY <3>2, <4>2, <5>3 DEF NextInList
      <4> QED BY <4>1, <4>2
    <3> QED BY <1>3, <3>1, <3>2
  <2> QED BY <1>0, <1>a, <1>b, <2>1, <2>2
<1>4. CASE WriteAdd
  <2> DEFINE d == Head(stack).dir
  <2>1. at = "walk" /\ UNCHANGED <<prog, files, marker>>
    BY <1>4 DEF WriteAdd
  <2>2. CASE d \notin HasUevent
    <3>1. UNCHANGED <<calm, overrun, queue, written, missed>> /\ at' = at
      BY <1>4, <2>2 DEF WriteAdd
    <3> QED BY <1>0, <1>a, <1>b, <2>1, <3>1
  <2>3. CASE d \in HasUevent
    <3>1. written' = written \cup {d} /\ missed' = missed /\ at' = "receive" /\ Arrive("add", d)
      BY <1>4, <2>1, <2>3 DEF WriteAdd, Misses
    <3>2. d \in Dir
      BY <2>3, Directories DEF HasUevent
    <3>3. PICK m \in Message : m = [kind |-> "add", dev |-> d, no |-> sent + 1]
      BY <3>1, <3>2, ArriveIs
    <3>4. sent' = sent + 1 /\ (Queued(m) \/ NoRoom) /\ m.kind # "user" /\ m.no = sent + 1 /\ m.dev = d
      BY <3>1, <3>2, <3>3, ArriveIs
    <3> HIDE DEF d
    <3>5. Queued(m) /\ calm
      BY <3>4 DEF Queued, NoRoom
    <3>6. Range(queue') = Range(queue) \cup {m} /\ Kernels' = Kernels \cup {m}
      BY <3>4, <3>5, OrderOfAppend DEF Queued
    <3>7. Answers' = Answers \cup {d}
      BY <3>4, <3>6 DEF Answers
    <3>8. overrun' = overrun
      BY <3>5 DEF Queued
    <3> QED BY <1>0, <1>a, <2>1, <3>1, <3>5, <3>6, <3>7, <3>8
  <2> QED BY <2>2, <2>3
<1>5. CASE ReceiveFails
  <2>1. /\ at = "receive" /\ overrun' = FALSE /\ (overrun \/ queue = << >>)
        /\ UNCHANGED <<prog, calm, queue, written, missed, files, marker>>
    BY <1>5 DEF ReceiveFails, LoopOver
  <2>2. queue = << >>
    BY <1>0, <2>1
  <2>3. Answers = {}
    BY <2>2 DEF Answers, Range
  <2> QED BY <1>0, <1>a, <1>b, <2>1, <2>3
<1>6. CASE Receive
  <2> DEFINE m == Head(queue)
  <2>0. m \in Message /\ (Foreign(m) \/ Passed(m) \/ Saved(m) \/ Cut(m) \/ Lost(m))
    BY <1>6, ReceiveIs
  <2>1. /\ at = "receive" /\ queue # << >> /\ queue' = Tail(queue)
        /\ UNCHANGED <<prog, overrun, sent, written, missed, marker>>
    BY <1>6 DEF Receive
  <2> HIDE DEF m
  <2>2. /\ Range(queue) = {m} \cup Range(queue')
        /\ Kernels = IF m.kind = "user" THEN Kernels' ELSE {m} \cup Kernels'
    BY <2>1, OrderOfTail DEF m
  <2>3. calm
    BY <2>0 DEF Foreign, Passed, Saved, Cut, Lost
  <2>4. m \in Kernels
    BY <1>0, <2>1, <2>2, <2>3
  <2>5. m.kind # "user"
    BY <2>4 DEF Kernels
  <2>6. Saved(m)
    BY <2>0, <2>5 DEF Foreign, Passed, Cut, Lost
  <2>7. Devices' = Devices \cup {m.dev}
    <3>1. PICK e : e = [run |-> run, dev |-> m.dev, no |-> m.no]
      OBVIOUS
    <3>2. Contents' = Contents \cup {e}
      BY <1>6, <2>0, <2>6, <3>1, ContentsNext DEF m
    <3>3. e.dev = m.dev
      BY <3>1
    <3> QED BY <3>2, <3>3 DEF Devices
  <2>8. Answers = {m.dev} \cup Answers'
    BY <2>2 DEF Answers
  <2>9. Range(queue') = Kernels'
    <3>1. \A x \in Range(queue') : x \in Kernels
      BY <1>0, <2>1, <2>2, <2>3
    <3> QED BY <3>1 DEF Kernels
  <2>10. at' = at
    BY <2>6 DEF Saved
  <2> QED BY <1>0, <2>1, <2>3, <2>7, <2>8, <2>9, <2>10
<1>7. CASE Restart
  <2>1. /\ prog = "dump" /\ written' = {} /\ missed' = {} /\ queue' = << >> /\ overrun' = FALSE /\ files' = files
    BY <1>7 DEF Restart
  <2>3. marker' => marker /\ calm
    <3>1. marker' \in {marker, FALSE} /\ calm' = (calm \/ ~marker')
      BY <1>7 DEF Restart
    <3>2. calm \in BOOLEAN /\ marker \in BOOLEAN
      BY DEF TypeInv
    <3>3. CASE marker' = FALSE
      BY <3>3
    <3>4. CASE marker' = marker
      BY Zenon, <3>1, <3>2, <3>4
    <3> QED BY <3>1, <3>3, <3>4
  <2>2. Range(queue') = {} /\ Kernels' = {}
    BY <2>1 DEF Kernels, Range
  <2> QED BY <1>0, <1>a, <2>1, <2>2, <2>3
<1>8. CASE UserSends
  BY <1>8 DEF UserSends
<1>9. ASSUME NEW kind \in {"other", "big"}, OtherDevice(kind)
      PROVE  /\ ~overrun' /\ Range(queue') = Kernels' /\ missed' = {}
             /\ written' \subseteq Devices' \cup Answers'
             /\ at' # "receive" => written' \subseteq Devices'
             /\ marker' => HasUevent \subseteq Devices'
  <2>1. Arrive(kind, "none") /\ UNCHANGED <<prog, at, files, written, missed, marker>>
    BY <1>9 DEF OtherDevice
  <2>2. PICK m \in Message : m = [kind |-> kind, dev |-> "none", no |-> sent + 1]
    BY <2>1, ArriveIs
  <2>3. sent' = sent + 1 /\ (Queued(m) \/ NoRoom) /\ m.kind # "user" /\ m.no = sent + 1
    BY <2>1, <2>2, ArriveIs
  <2>4. Queued(m) /\ calm
    BY <2>3 DEF Queued, NoRoom
  <2>5. Range(queue') = Range(queue) \cup {m} /\ Kernels' = Kernels \cup {m}
    BY <2>3, <2>4, OrderOfAppend DEF Queued
  <2>6. Answers \subseteq Answers'
    BY <2>5 DEF Answers
  <2>7. overrun' = overrun
    BY <2>4 DEF Queued
  <2> QED BY <1>0, <1>a, <2>1, <2>4, <2>5, <2>6, <2>7
<1>10. CASE UNCHANGED vars
  <2>1. UNCHANGED <<prog, at, calm, overrun, queue, written, missed, files, marker>>
    BY <1>10 DEF vars
  <2> QED BY <1>0, <1>a, <1>b, <2>1
<1> QED BY <1>1, <1>2, <1>3, <1>4, <1>5, <1>6, <1>7, <1>8, <1>9, <1>10 DEF Next, Program

-----------------------------------------------------------------------------
(* The inductive invariant.                                                  *)

LEMMA InitInd == Init => IInv
<1> SUFFICES ASSUME Init PROVE IInv
  OBVIOUS
<1>1. TypeInv /\ Covered /\ Places
  BY InitType, InitCovered, InitPlaces
<1>2. queue = << >> /\ files = << >> /\ sent = 0 /\ gone = {} /\ written = {} /\ missed = {} /\ ~overrun /\ ~marker
  BY DEF Init
<1>3. Range(queue) = {} /\ DOMAIN queue = {} /\ DOMAIN files = {} /\ Contents = {}
  BY <1>2 DEF Range, Contents
<1>4. Kernels = {}
  BY <1>3 DEF Kernels
<1>5. Known
  BY <1>2, <1>3, <1>4 DEF Known, Dumped
<1>6. QueueInOrder /\ RunInOrder /\ FilesInOrder
  BY <1>3, <1>4 DEF QueueInOrder, RunInOrder, FilesInOrder
<1>7. WrittenKept /\ MarkerComplete
  BY <1>2, <1>3, <1>4 DEF WrittenKept, MarkerComplete
<1> QED BY <1>1, <1>5, <1>6, <1>7, AccountedIs DEF IInv

LEMMA IndNext == IInv /\ [Next]_vars => IInv'
<1> SUFFICES ASSUME IInv, [Next]_vars PROVE IInv'
  OBVIOUS
<1> USE DEF IInv
<1>1. TypeInv' /\ Places' /\ Covered'
  BY TypeNext, PlacesNext, CoveredNext
<1>2. QueueInOrder' /\ RunInOrder' /\ FilesInOrder'
  BY QueueNext, RunOrderNext
<1>3. Known'
  BY AccountedIs, KnownNext
<1>4. Accounted'
  <2>1. {queue'[i].no : i \in {j \in DOMAIN queue' : queue'[j].kind # "user"}} = {m.no : m \in Kernels'}
    BY DEF Kernels, Range
  <2> QED BY <1>3, <2>1 DEF Accounted, Known, Dumped
<1>5. WrittenKept' /\ MarkerComplete'
  BY WrittenNext
<1> QED BY <1>1, <1>2, <1>4, <1>5

LEMMA Invariance == Spec => []IInv
  BY InitInd, IndNext, PTL DEF Spec

(* Type correctness; the writes go to devices that have a uevent file.       *)
THEOREM TypeCorrect == Spec => []TypeOK
<1>1. IInv => TypeOK
  <2> SUFFICES ASSUME IInv PROVE TypeOK
    OBVIOUS
  <2>1. TypeInv /\ Covered
    BY DEF IInv
  <2>2. written \subseteq HasUevent /\ missed \subseteq HasUevent
    BY <2>1 DEF Covered, Goal
  <2>3. \A i \in DOMAIN stack : stack[i].dir \in Dir /\ stack[i].fresh \in BOOLEAN
    <3>1. stack \in Seq(Frame)
      BY <2>1 DEF TypeInv
    <3>2. \A i \in DOMAIN stack : stack[i] \in Frame
      BY <3>1, LenProperties, ElementOfSeq
    <3> QED BY <3>2 DEF Frame
  <2>4. \A i \in DOMAIN queue : queue[i] \in Message
    BY <2>1, QueueType, ElementOfSeq
  <2> QED BY <2>1, <2>2, <2>3, <2>4 DEF TypeInv, TypeOK
<1> QED BY <1>1, Invariance, PTL

(* A message of the kernel is dumped, queued, or lost for a reason that the  *)
(* code knows; a foreign message that ends handle_device_fd's loop loses     *)
(* none.                                                                     *)
THEOREM AccountedCorrect == Spec => []Accounted
<1>1. IInv => Accounted
  BY DEF IInv
<1> QED BY <1>1, Invariance, PTL

(* write_uevent_dump's files of one run hold a message each, in the order in *)
(* which the kernel sent them, whatever earlier runs left in them.           *)
THEOREM OrderCorrect == Spec => []FilesInOrder
<1>1. IInv => FilesInOrder
  BY DEF IInv
<1> QED BY <1>1, Invariance, PTL

(* DUMP_DONE means a complete dump: however many runs were interrupted, the  *)
(* undisturbed run that made it has every device's answer in a file.         *)
THEOREM MarkerCorrect == Spec => []MarkerComplete
<1>1. IInv => MarkerComplete
  BY DEF IInv
<1> QED BY <1>1, Invariance, PTL

(* The trigger writes to all devices but those it leaves out and those that  *)
(* a failed call kept it from; links do not lead it to the former, and a     *)
(* failure costs it only the devices at or below the place where it          *)
(* happened.                                                                 *)
THEOREM TriggerCorrect == Spec => []TriggerExact
<1>1. IInv => TriggerExact
  <2> SUFFICES ASSUME IInv, prog = "trigger"
               PROVE  /\ (written \cup missed) \cap Withheld = {}
                      /\ at = "exit" => written \cup missed = HasUevent \ Withheld
    BY DEF TriggerExact
  <2>1. written \cup missed \cup Ahead = HasUevent \ Withheld
    BY DEF IInv, Covered, Goal
  <2>2. ASSUME at = "exit" PROVE Ahead = {}
    <3>1. todo = << >> /\ stack = << >>
      BY <2>2 DEF IInv, Places
    <3> QED BY <3>1 DEF Ahead, Range
  <2> QED BY <2>1, <2>2
<1> QED BY <1>1, Invariance, PTL
=============================================================================
