------------------------ MODULE BufferedEventProofs ------------------------
(***************************************************************************)
(* Proofs about BufferedEvent for any set of CPUs and any nesting: while   *)
(* the task that takes the pages away stays on its CPU between its two     *)
(* rounds of calls, the count of a page covers its users, so only one      *)
(* event writes to a page and a called CPU's page is freed unused.         *)
(***************************************************************************)
EXTENDS BufferedEvent, FiniteSetTheorems, SequenceTheorems, TLAPS

(* The events of a stack that hold a count, and those that write to the page *)
(* that the pointer still names.                                             *)
Users(s)   == {i \in DOMAIN s : s[i].at \in {"writes", "declined"}}
Writing(s) == {i \in DOMAIN s : s[i].at = "writes"}
Writers(s) == {i \in DOMAIN s : s[i].at = "writes" /\ ~s[i].stale}

(* The calls leave out the CPU that makes them.                              *)
CallsOthers == task.at = "count" => task.todo \subseteq Called(task.on)

(* Only the page that is about to be cleared is freed.                       *)
FreedListed ==
    \A c \in Cpu : trace_buffered_event[c] = "freed" => task.at = "free" /\ c \in task.todo

(* A CPU that was called and idle once afterwards has no writer: a count of  *)
(* the task lets no event be the first user.                                 *)
IdleOnce(c) == task.at = "free" \/ (task.at = "sync" /\ c \notin task.todo)
Drained == \A c \in Called(task.on) : IdleOnce(c) => Writing(events[c]) = {}

(* CountCovers and OneWriter in terms of the stacks.                         *)
Extra(c)  == IF c \in Counted THEN 1 ELSE 0
Covers(c) == trace_buffered_event_cnt[c] >= Cardinality(Users(events[c])) + Extra(c)
Single(c) == \A i, j \in Writers(events[c]) : i = j

IndInv == /\ TypeOK /\ CallsOthers /\ FreedListed /\ Drained
          /\ \A c \in Cpu : Covers(c) /\ Single(c)

-----------------------------------------------------------------------------
(* Stacks of events: what a push, a pop, a new head and the clearing of the  *)
(* page do to the users and to the writers.                                  *)

Plus1(S) == {i + 1 : i \in S}

LEMMA ShiftCardinality ==
    ASSUME NEW S \in SUBSET Int, IsFiniteSet(S)
    PROVE  IsFiniteSet(Plus1(S)) /\ Cardinality(Plus1(S)) = Cardinality(S)
  <1> DEFINE f == [i \in S |-> i + 1]
  <1>1. f \in [S -> Plus1(S)]
    BY DEF Plus1
  <1>2. \A x, y \in S : f[x] = f[y] => x = y
    OBVIOUS
  <1>3. \A y \in Plus1(S) : \E x \in S : f[x] = y
    BY DEF Plus1
  <1>4. f \in Bijection(S, Plus1(S))
    BY <1>1, <1>2, <1>3 DEF Bijection, Injection, Surjection, IsInjective
  <1>5. ExistsBijection(S, Plus1(S))
    BY <1>4 DEF ExistsBijection
  <1>6. QED
    BY <1>5, FS_Bijection

LEMMA UsersFinite ==
    ASSUME NEW s \in Seq(Event)
    PROVE  /\ Users(s) \in SUBSET Int /\ IsFiniteSet(Users(s))
           /\ Cardinality(Users(s)) \in Nat
           /\ Writing(s) \subseteq Users(s) /\ Writers(s) \subseteq Writing(s)
  <1>1. Users(s) \subseteq 1 .. Len(s)
    BY DEF Users
  <1>2. IsFiniteSet(1 .. Len(s)) /\ Len(s) \in Nat
    BY FS_Interval, LenProperties
  <1>3. IsFiniteSet(Users(s))
    BY <1>1, <1>2, FS_Subset
  <1>4. QED
    BY <1>1, <1>3, FS_CardinalityType DEF Users, Writing, Writers

LEMMA PushEvent ==
    ASSUME NEW s \in Seq(Event), NEW t, t = <<[at |-> "read", stale |-> FALSE]>> \o s
    PROVE  /\ t \in Seq(Event) /\ t # << >>
           /\ Users(t) = Plus1(Users(s))
           /\ Writing(t) = Plus1(Writing(s))
           /\ Writers(t) = Plus1(Writers(s))
  <1> DEFINE e == [at |-> "read", stale |-> FALSE]
  <1>1. e \in Event /\ <<e>> \in Seq(Event) /\ Len(<<e>>) = 1
    BY DEF Event
  <1>2. /\ t \in Seq(Event) /\ Len(t) = 1 + Len(s)
        /\ \A i \in 1 .. 1 + Len(s) : t[i] = IF i <= 1 THEN <<e>>[i] ELSE s[i - 1]
    BY <1>1, ConcatProperties
  <1>3. DOMAIN t = 1 .. 1 + Len(s) /\ DOMAIN s = 1 .. Len(s) /\ Len(s) \in Nat
    BY <1>2, LenProperties
  <1>4. t[1] = e /\ \A i \in 1 .. Len(s) : t[i + 1] = s[i]
    BY <1>2, <1>3
  <1>5. \A i \in DOMAIN t : i = 1 \/ (i - 1 \in DOMAIN s /\ (i - 1) + 1 = i)
    BY <1>3
  <1>6. \A i \in DOMAIN s : i + 1 \in DOMAIN t
    BY <1>3
  <1>7. t # << >>
    BY <1>2, <1>3
  <1>8. Users(t) = Plus1(Users(s))
    BY <1>3, <1>4, <1>5, <1>6 DEF Users, Plus1
  <1>9. Writing(t) = Plus1(Writing(s))
    BY <1>3, <1>4, <1>5, <1>6 DEF Writing, Plus1
  <1>10. Writers(t) = Plus1(Writers(s))
    BY <1>3, <1>4, <1>5, <1>6 DEF Writers, Plus1
  <1>11. QED
    BY <1>2, <1>7, <1>8, <1>9, <1>10

LEMMA PopEvent ==
    ASSUME NEW s \in Seq(Event), s # << >>, Head(s).at \in {"writes", "declined"}
    PROVE  /\ Tail(s) \in Seq(Event)
           /\ Cardinality(Users(s)) = Cardinality(Users(Tail(s))) + 1
           /\ Writing(s) = {} => Writing(Tail(s)) = {}
           /\ \A i \in Writers(Tail(s)) : i \in Int /\ i + 1 \in Writers(s)
  <1> DEFINE t == Tail(s)
  <1>1. /\ t \in Seq(Event) /\ Len(t) = Len(s) - 1 /\ Len(s) \in Nat /\ Len(s) > 0
        /\ \A i \in 1 .. Len(t) : t[i] = s[i + 1]
    BY HeadTailProperties, EmptySeq, LenProperties
  <1>2. DOMAIN t = 1 .. Len(s) - 1 /\ DOMAIN s = 1 .. Len(s) /\ s[1] = Head(s)
    BY <1>1, LenProperties
  <1>3. \A i \in DOMAIN s : i = 1 \/ (i - 1 \in DOMAIN t /\ (i - 1) + 1 = i)
    BY <1>1, <1>2
  <1>4. \A i \in DOMAIN t : i + 1 \in DOMAIN s /\ t[i] = s[i + 1] /\ i \in Int
    BY <1>1, <1>2
  <1>5. Users(s) = Plus1(Users(t)) \cup {1}
    BY <1>1, <1>2, <1>3, <1>4 DEF Users, Plus1
  <1>6. 1 \notin Plus1(Users(t))
    BY <1>1, <1>2 DEF Users, Plus1
  <1>7. Cardinality(Users(s)) = Cardinality(Users(t)) + 1
    <2>1. /\ Users(t) \in SUBSET Int /\ IsFiniteSet(Users(t)) /\ Cardinality(Users(t)) \in Nat
      BY <1>1, UsersFinite
    <2>2. IsFiniteSet(Plus1(Users(t))) /\ Cardinality(Plus1(Users(t))) = Cardinality(Users(t))
      BY <2>1, ShiftCardinality
    <2>3. Cardinality(Plus1(Users(t)) \cup {1}) = Cardinality(Plus1(Users(t))) + 1
      BY <2>2, <1>6, FS_AddElement
    <2>4. QED
      BY <1>5, <2>2, <2>3
  <1>8. Writing(s) = {} => Writing(t) = {}
    BY <1>4 DEF Writing
  <1>9. \A i \in Writers(t) : i \in Int /\ i + 1 \in Writers(s)
    BY <1>4 DEF Writers
  <1>10. QED
    BY <1>1, <1>7, <1>8, <1>9

LEMMA CountedEvent ==
    ASSUME NEW s \in Seq(Event), s # << >>, Head(s).at = "read",
           NEW at \in {"writes", "declined"}, NEW t, t = [s EXCEPT ![1].at = at]
    PROVE  /\ t \in Seq(Event)
           /\ Cardinality(Users(t)) = Cardinality(Users(s)) + 1
           /\ at = "declined" => Writing(t) = Writing(s) /\ Writers(t) = Writers(s)
           /\ Users(s) = {} => Writers(t) \subseteq {1}
  <1>1. s[1] = Head(s) /\ 1 \in 1 .. Len(s) /\ DOMAIN s = 1 .. Len(s) /\ s[1] \in Event
    BY EmptySeq, LenProperties, ElementOfSeq
  <1>2. t = [s EXCEPT ![1] = [s[1] EXCEPT !.at = at]] /\ [s[1] EXCEPT !.at = at] \in Event
    BY <1>1 DEF Event
  <1>3. t \in Seq(Event) /\ Len(t) = Len(s)
    BY <1>1, <1>2, ExceptSeq
  <1>4. DOMAIN t = DOMAIN s /\ \A i \in DOMAIN s : i # 1 => t[i] = s[i]
    BY <1>1, <1>2
  <1>5. t[1].at = at /\ t[1].stale = s[1].stale
    BY <1>1, <1>2 DEF Event
  <1>6. Users(t) = Users(s) \cup {1} /\ 1 \notin Users(s)
    BY <1>1, <1>4, <1>5 DEF Users
  <1>7. Cardinality(Users(t)) = Cardinality(Users(s)) + 1
    BY <1>6, UsersFinite, FS_AddElement
  <1>8. at = "declined" => Writing(t) = Writing(s) /\ Writers(t) = Writers(s)
    BY <1>1, <1>4, <1>5 DEF Writing, Writers
  <1>9. Users(s) = {} => Writers(t) \subseteq {1}
    BY <1>6, <1>3, UsersFinite
  <1>10. QED
    BY <1>3, <1>7, <1>8, <1>9

LEMMA StaleEvents ==
    ASSUME NEW s \in Seq(Event), NEW t,
           t = [i \in DOMAIN s |-> [s[i] EXCEPT !.stale = TRUE]]
    PROVE  /\ t \in Seq(Event) /\ Users(t) = Users(s) /\ Writing(t) = Writing(s)
           /\ Writers(t) = {}
  <1>1. DOMAIN s = 1 .. Len(s) /\ Len(s) \in Nat /\ \A i \in 1 .. Len(s) : s[i] \in Event
    BY LenProperties, ElementOfSeq
  <1>2. \A i \in DOMAIN s : t[i] \in Event /\ t[i].at = s[i].at /\ t[i].stale = TRUE
    BY <1>1 DEF Event
  <1>3. t \in [1 .. Len(s) -> Event] /\ DOMAIN t = DOMAIN s
    BY <1>1, <1>2
  <1>4. t \in Seq(Event)
    BY <1>1, <1>3, SeqDef
  <1>5. QED
    BY <1>2, <1>3, <1>4 DEF Users, Writing, Writers

-----------------------------------------------------------------------------
(* The invariant.                                                            *)

LEMMA InitInvariant == Init => IndInv
  <1> SUFFICES ASSUME Init PROVE IndInv
    OBVIOUS
  <1>1. TypeOK
    BY EmptySeq DEF Init, TypeOK, Task
  <1>2. CallsOthers /\ FreedListed
    BY DEF Init, CallsOthers, FreedListed
  <1>3. \A c \in Cpu : Users(events[c]) = {} /\ Writing(events[c]) = {} /\ Writers(events[c]) = {}
    BY EmptySeq DEF Init, Users, Writing, Writers
  <1>4. \A c \in Cpu : Cardinality(Users(events[c])) = 0
    BY <1>3, FS_EmptySet
  <1>5. Counted = {}
    BY DEF Init, Counted
  <1>6. \A c \in Cpu : Covers(c) /\ Single(c)
    BY <1>3, <1>4, <1>5 DEF Init, Covers, Single, Extra
  <1>7. Drained
    BY <1>3 DEF Drained, Called
  <1>8. QED
    BY <1>1, <1>2, <1>6, <1>7 DEF IndInv

(* synchronize_sched notes a CPU that is idle.                               *)
LEMMA IdledTask ==
    ASSUME TypeOK, NEW c \in Cpu, NEW es
    PROVE  LET t == Idled(c, es) IN
           /\ t \in Task /\ t.at = task.at /\ t.on = task.on /\ t.todo \subseteq task.todo
           /\ \A d \in Cpu : d # c => (d \in t.todo <=> d \in task.todo)
           /\ t.todo # task.todo => t.at = "sync" /\ es = << >>
  BY DEF TypeOK, Task, Idled

(* The types alone need no count, and do not depend on where the task runs.  *)
LEMMA StepType == ASSUME TypeOK, [Next]_vars PROVE TypeOK'
  <1> USE DEF TypeOK
  <1>1. ASSUME NEW c \in Cpu, ReadPage(c) PROVE TypeOK'
    BY <1>1, PushEvent DEF ReadPage
  <1>2. ASSUME NEW c \in Cpu, CountPage(c) PROVE TypeOK'
    <2>1. PICK at \in {"writes", "declined"} : events' = [events EXCEPT ![c][1].at = at]
      BY <1>2 DEF CountPage
    <2>2. [events[c] EXCEPT ![1].at = at] \in Seq(Event)
      BY <1>2, CountedEvent DEF CountPage, Innermost
    <2>3. events' = [events EXCEPT ![c] = [events[c] EXCEPT ![1].at = at]]
      BY <2>1
    <2>4. events' \in [Cpu -> Seq(Event)]
      BY <2>2, <2>3
    <2>5. trace_buffered_event_cnt' \in [Cpu -> Int]
      BY <1>2 DEF CountPage, Count
    <2>6. QED
      BY <1>2, <2>4, <2>5 DEF CountPage
  <1>3. ASSUME NEW c \in Cpu, Decline(c) \/ CommitPage(c) PROVE TypeOK'
    <2>1. Tail(events[c]) \in Seq(Event)
      BY <1>3, PopEvent DEF Decline, CommitPage, Innermost
    <2>2. task' \in Task
      BY <1>3, IdledTask DEF Decline, CommitPage
    <2>3. trace_buffered_event_cnt' \in [Cpu -> Int]
      BY <1>3 DEF Decline, CommitPage, Count
    <2>4. QED
      BY <1>3, <2>1, <2>2, <2>3 DEF Decline, CommitPage
  <1>4. CASE Enable
    <2>1. task' \in Task
      BY <1>4 DEF Enable, Task
    <2>2. QED
      BY <1>4, <2>1 DEF Enable
  <1>5. ASSUME NEW c \in Cpu, AllocPage(c) PROVE TypeOK'
    <2>1. task' \in Task
      BY <1>5 DEF AllocPage, Done, Task
    <2>2. QED
      BY <1>5, <2>1 DEF AllocPage
  <1>6. CASE AllocFailed \/ Disable
    BY <1>6 DEF AllocFailed, Disable, DisableLast, IsCounted, Called, Task
  <1>7. ASSUME NEW c \in Cpu, CountCall(c) \/ UncountCall(c) PROVE TypeOK'
    <2>1. trace_buffered_event_cnt' \in [Cpu -> Int]
      BY <1>7 DEF CountCall, UncountCall, Count
    <2>2. task' \in Task
      BY <1>7 DEF CountCall, UncountCall, Done, Task
    <2>3. QED
      BY <1>7, <2>1, <2>2 DEF CountCall, UncountCall
  <1>8. CASE Synchronize \/ Synchronized \/ Disabled
    BY <1>8 DEF Synchronize, Synchronized, Disabled, InFlight, Task
  <1>9. ASSUME NEW c \in Cpu, FreePage(c) PROVE TypeOK'
    BY <1>9 DEF FreePage
  <1>10. ASSUME NEW c \in Cpu, ClearPage(c) PROVE TypeOK'
    <2>1. [i \in DOMAIN events[c] |-> [events[c][i] EXCEPT !.stale = TRUE]] \in Seq(Event)
      BY StaleEvents
    <2>2. task' \in Task
      BY <1>10 DEF ClearPage, SecondCpu, Called, Done, Task
    <2>3. QED
      BY <1>10, <2>1, <2>2 DEF ClearPage
  <1>11. CASE UNCHANGED vars
    BY <1>11 DEF vars
  <1>12. QED
    BY <1>1, <1>2, <1>3, <1>4, <1>5, <1>6, <1>7, <1>8, <1>9, <1>10, <1>11
       DEF Next, EventStep, TaskStep

(* A step of the events on CPU c, seen from the whole: what it must show of  *)
(* the new stack and the new count of its own CPU.                           *)
LEMMA EventStepKeeps ==
    ASSUME IndInv, NEW c \in Cpu, NEW t \in Seq(Event), NEW n \in Int,
           events' = [events EXCEPT ![c] = t],
           trace_buffered_event_cnt' = [trace_buffered_event_cnt EXCEPT ![c] = n],
           task' = task \/ task' = Idled(c, t),
           UNCHANGED <<filters, trace_buffered_event_ref, trace_buffered_event>>,
           n >= Cardinality(Users(t)) + Extra(c),
           \A i, j \in Writers(t) : i = j,
           c \in Called(task.on) /\ IdleOnce(c) => Writing(t) = {}
    PROVE  IndInv'
  <1> USE DEF IndInv
  <1>1. /\ task' \in Task /\ task'.at = task.at /\ task'.on = task.on
        /\ \A d \in Cpu : d # c => (d \in task'.todo <=> d \in task.todo)
        /\ task'.todo # task.todo => task'.at = "sync" /\ t = << >>
        /\ task'.todo \subseteq task.todo
    BY IdledTask DEF TypeOK
  <1>2. TypeOK'
    BY <1>1 DEF TypeOK
  <1>3. events'[c] = t /\ \A d \in Cpu : d # c => events'[d] = events[d]
    BY DEF TypeOK
  <1>4. /\ trace_buffered_event_cnt'[c] = n
        /\ \A d \in Cpu : d # c => trace_buffered_event_cnt'[d] = trace_buffered_event_cnt[d]
    BY DEF TypeOK
  <1>5. CallsOthers' /\ FreedListed'
    BY <1>1 DEF CallsOthers, FreedListed, Called
  <1>6. Counted' = Counted
    BY <1>1 DEF Counted, Called
  <1>7. \A d \in Cpu : (Covers(d) /\ Single(d))'
    BY <1>3, <1>4, <1>6 DEF Covers, Single, Extra
  <1>8. Drained'
    <2> SUFFICES ASSUME NEW d \in Called(task.on), IdleOnce(d)'
                 PROVE  Writing(events'[d]) = {}
      BY <1>1 DEF Drained, Called
    <2>1. CASE d # c
      BY <2>1, <1>1, <1>3 DEF Drained, IdleOnce, Called
    <2>2. CASE d = c /\ task'.todo = task.todo
      BY <2>2, <1>1, <1>3 DEF IdleOnce
    <2>3. CASE d = c /\ task'.todo # task.todo
      BY <2>3, <1>1, <1>3, EmptySeq DEF Writing
    <2>4. QED
      BY <2>1, <2>2, <2>3
  <1>9. QED
    BY <1>2, <1>5, <1>7, <1>8

LEMMA ReadPageKeeps ==
    ASSUME IndInv, NEW c \in Cpu, ReadPage(c)
    PROVE  IndInv'
  <1> DEFINE s == events[c]
             t == <<[at |-> "read", stale |-> FALSE]>> \o s
             n == trace_buffered_event_cnt[c]
  <1>1. s \in Seq(Event) /\ n \in Int /\ Covers(c) /\ Single(c)
    BY DEF IndInv, TypeOK
  <1>2. /\ t \in Seq(Event) /\ Users(t) = Plus1(Users(s)) /\ Writing(t) = Plus1(Writing(s))
        /\ Writers(t) = Plus1(Writers(s))
    BY <1>1, PushEvent
  <1>3. n >= Cardinality(Users(t)) + Extra(c)
    BY <1>1, <1>2, UsersFinite, ShiftCardinality DEF Covers
  <1>4. \A i, j \in Writers(t) : i = j
    BY <1>1, <1>2 DEF Single, Plus1
  <1>5. c \in Called(task.on) /\ IdleOnce(c) => Writing(t) = {}
    BY <1>2 DEF IndInv, Drained, Plus1
  <1>6. /\ events' = [events EXCEPT ![c] = t]
        /\ trace_buffered_event_cnt' = [trace_buffered_event_cnt EXCEPT ![c] = n]
        /\ task' = task
        /\ UNCHANGED <<filters, trace_buffered_event_ref, trace_buffered_event>>
    BY DEF ReadPage, IndInv, TypeOK
  <1>7. QED
    BY <1>1, <1>2, <1>3, <1>4, <1>5, <1>6, EventStepKeeps

(* The first user of a page finds a count of zero: nobody else uses the      *)
(* page, and the task has not counted the CPU.                               *)
LEMMA CountPageKeeps ==
    ASSUME IndInv, NEW c \in Cpu, CountPage(c)
    PROVE  IndInv'
  <1> DEFINE s == events[c]
             n == trace_buffered_event_cnt[c] + 1
             at == IF n = 1 THEN "writes" ELSE "declined"
             t == [s EXCEPT ![1].at = at]
  <1>1. s \in Seq(Event) /\ n \in Int /\ Covers(c) /\ Single(c)
    BY DEF IndInv, TypeOK
  <1>2. s # << >> /\ Head(s).at = "read"
    BY DEF CountPage, Innermost
  <1>3. trace_buffered_event_cnt' = [trace_buffered_event_cnt EXCEPT ![c] = n]
    BY DEF CountPage, Count, IndInv, TypeOK
  <1>4. events' = [events EXCEPT ![c] = t]
    BY <1>3 DEF CountPage, FirstUser, IndInv, TypeOK
  <1>5. /\ t \in Seq(Event) /\ Cardinality(Users(t)) = Cardinality(Users(s)) + 1
        /\ at = "declined" => Writing(t) = Writing(s) /\ Writers(t) = Writers(s)
        /\ Users(s) = {} => Writers(t) \subseteq {1}
    BY <1>1, <1>2, CountedEvent
  <1>6. n >= Cardinality(Users(t)) + Extra(c)
    <2>1. Cardinality(Users(s)) \in Nat /\ Extra(c) \in Nat
      BY <1>1, UsersFinite DEF Extra
    <2>2. trace_buffered_event_cnt[c] >= Cardinality(Users(s)) + Extra(c)
      BY <1>1 DEF Covers
    <2>3. trace_buffered_event_cnt[c] \in Int
      BY DEF IndInv, TypeOK
    <2>4. QED
      BY <1>5, <2>1, <2>2, <2>3
  <1>7. n = 1 => Users(s) = {} /\ c \notin Counted
    <2>1. ASSUME n = 1 PROVE Cardinality(Users(s)) = 0 /\ c \notin Counted
      BY <2>1, <1>1, UsersFinite DEF Covers, Extra, IndInv, TypeOK
    <2>2. QED
      BY <2>1, <1>1, UsersFinite, FS_EmptySet
  <1>8. \A i, j \in Writers(t) : i = j
    BY <1>1, <1>5, <1>7 DEF Single
  <1>9. c \in Called(task.on) /\ IdleOnce(c) => Writing(t) = {}
    BY <1>5, <1>7 DEF IdleOnce, Counted, IndInv, Drained
  <1>10. task' = task /\ UNCHANGED <<filters, trace_buffered_event_ref, trace_buffered_event>>
    BY DEF CountPage
  <1>11. QED
    BY <1>1, <1>3, <1>4, <1>5, <1>6, <1>8, <1>9, <1>10, EventStepKeeps

(* An event leaves: the count is taken back at most once.                    *)
LEMMA LeaveKeeps ==
    ASSUME IndInv, NEW c \in Cpu, Decline(c) \/ CommitPage(c)
    PROVE  IndInv'
  <1> DEFINE s == events[c]
             t == Tail(s)
  <1>1. s \in Seq(Event) /\ Covers(c) /\ Single(c) /\ trace_buffered_event_cnt[c] \in Int
    BY DEF IndInv, TypeOK
  <1>2. s # << >> /\ Head(s).at \in {"writes", "declined"}
    BY DEF Decline, CommitPage, Innermost
  <1>3. PICK n \in {trace_buffered_event_cnt[c], trace_buffered_event_cnt[c] - 1} :
          trace_buffered_event_cnt' = [trace_buffered_event_cnt EXCEPT ![c] = n]
    BY DEF Decline, CommitPage, Count, IndInv, TypeOK
  <1>4. events' = [events EXCEPT ![c] = t] /\ task' = Idled(c, t)
    BY DEF Decline, CommitPage, IndInv, TypeOK
  <1>5. /\ t \in Seq(Event) /\ Cardinality(Users(s)) = Cardinality(Users(t)) + 1
        /\ Writing(s) = {} => Writing(t) = {}
        /\ \A i \in Writers(t) : i \in Int /\ i + 1 \in Writers(s)
    BY <1>1, <1>2, PopEvent
  <1>6. n \in Int /\ n >= Cardinality(Users(t)) + Extra(c)
    <2>1. Cardinality(Users(t)) \in Nat /\ Extra(c) \in Nat
      BY <1>5, UsersFinite DEF Extra
    <2>2. trace_buffered_event_cnt[c] >= Cardinality(Users(s)) + Extra(c)
      BY <1>1 DEF Covers
    <2>3. QED
      BY <1>1, <1>3, <1>5, <2>1, <2>2
  <1>7. \A i, j \in Writers(t) : i = j
    <2> SUFFICES ASSUME NEW i \in Writers(t), NEW j \in Writers(t) PROVE i = j
      OBVIOUS
    <2>1. i + 1 = j + 1
      BY <1>1, <1>5 DEF Single
    <2>2. QED
      BY <2>1, <1>5
  <1>8. c \in Called(task.on) /\ IdleOnce(c) => Writing(t) = {}
    BY <1>5 DEF IndInv, Drained
  <1>9. UNCHANGED <<filters, trace_buffered_event_ref, trace_buffered_event>>
    BY DEF Decline, CommitPage
  <1>10. QED
    BY <1>1, <1>3, <1>4, <1>5, <1>6, <1>7, <1>8, <1>9, EventStepKeeps

-----------------------------------------------------------------------------
(* The steps of the task.  A step that leaves the events alone keeps the     *)
(* counts above their users if it counts no more CPUs than it called.        *)
LEMMA CoversKept ==
    ASSUME IndInv, events' = events,
           \A c \in Cpu : \/ /\ trace_buffered_event_cnt'[c] = trace_buffered_event_cnt[c]
                             /\ c \in Counted' => c \in Counted
                          \/ /\ trace_buffered_event_cnt'[c] = trace_buffered_event_cnt[c] + 1
                             /\ c \notin Counted
                          \/ /\ trace_buffered_event_cnt'[c] = trace_buffered_event_cnt[c] - 1
                             /\ c \in Counted /\ c \notin Counted'
    PROVE  \A c \in Cpu : (Covers(c) /\ Single(c))'
  <1> SUFFICES ASSUME NEW c \in Cpu PROVE (Covers(c) /\ Single(c))'
    OBVIOUS
  <1>1. /\ trace_buffered_event_cnt[c] \in Int /\ Cardinality(Users(events[c])) \in Nat
        /\ Covers(c) /\ Single(c)
    BY UsersFinite DEF IndInv, TypeOK
  <1>2. QED
    BY <1>1 DEF Covers, Single, Extra

LEMMA AllocKeeps ==
    ASSUME IndInv, Enable \/ (\E c \in Cpu : AllocPage(c))
    PROVE  IndInv'
  <1>1. TypeOK'
    BY StepType DEF IndInv, Next, TaskStep
  <1>2. events' = events /\ trace_buffered_event_cnt' = trace_buffered_event_cnt
    BY DEF Enable, AllocPage
  <1>3. task.at \in {"idle", "alloc"} /\ task'.at \in {"idle", "alloc"}
    BY DEF Enable, AllocPage, Done, IndInv, TypeOK, Task
  <1>4. Counted' = {}
    BY <1>3 DEF Counted
  <1>5. CallsOthers' /\ Drained'
    BY <1>3 DEF CallsOthers, Drained, IdleOnce
  <1>6. FreedListed'
    BY <1>3 DEF FreedListed, IndInv, TypeOK, Enable, AllocPage
  <1>7. \A c \in Cpu : (Covers(c) /\ Single(c))'
    BY <1>2, <1>4, CoversKept
  <1>8. QED
    BY <1>1, <1>5, <1>6, <1>7 DEF IndInv

LEMMA DisableKeeps ==
    ASSUME IndInv, Disable \/ AllocFailed
    PROVE  IndInv'
  <1>1. TypeOK'
    BY StepType DEF IndInv, Next, TaskStep
  <1>2. /\ events' = events /\ trace_buffered_event_cnt' = trace_buffered_event_cnt
        /\ trace_buffered_event' = trace_buffered_event
    BY DEF Disable, AllocFailed
  <1>3. /\ task.at \in {"idle", "alloc"}
        /\ task' = task \/ (task'.at = "count" /\ task'.todo = Called(task'.on))
    BY DEF Disable, AllocFailed, DisableLast
  <1>4. Counted' = {}
    BY <1>3 DEF Counted
  <1>5. CallsOthers' /\ Drained'
    BY <1>3 DEF CallsOthers, Drained, IdleOnce
  <1>6. FreedListed'
    BY <1>2, <1>3 DEF FreedListed, IndInv
  <1>7. \A c \in Cpu : (Covers(c) /\ Single(c))'
    BY <1>2, <1>4, CoversKept
  <1>8. QED
    BY <1>1, <1>5, <1>6, <1>7 DEF IndInv

LEMMA CallKeeps ==
    ASSUME IndInv, NEW c \in Cpu, CountCall(c) \/ UncountCall(c)
    PROVE  IndInv'
  <1>1. TypeOK'
    BY StepType DEF IndInv, Next, TaskStep
  <1>2. events' = events /\ trace_buffered_event' = trace_buffered_event
    BY DEF CountCall, UncountCall
  <1>3. /\ task.at \in {"count", "uncount"} /\ c \in task.todo
        /\ task'.at = task.at /\ task'.on = task.on /\ task'.todo = task.todo \ {c}
    BY DEF CountCall, UncountCall, Done, IndInv, TypeOK, Task
  <1>4. CallsOthers' /\ Drained' /\ FreedListed'
    BY <1>2, <1>3 DEF CallsOthers, Drained, IdleOnce, FreedListed, Called, IndInv
  <1>5. \A d \in Cpu \ {c} : /\ trace_buffered_event_cnt'[d] = trace_buffered_event_cnt[d]
                             /\ d \in Counted' => d \in Counted
    BY <1>3 DEF CountCall, UncountCall, Count, Counted, IndInv, TypeOK, Called
  <1>6. task.at = "count" =>
          trace_buffered_event_cnt'[c] = trace_buffered_event_cnt[c] + 1 /\ c \notin Counted
    BY <1>3 DEF CountCall, UncountCall, Count, Counted, IndInv, TypeOK
  <1>7. task.at = "uncount" =>
          /\ trace_buffered_event_cnt'[c] = trace_buffered_event_cnt[c] - 1
          /\ c \in Counted /\ c \notin Counted'
    BY <1>3 DEF CountCall, UncountCall, Count, Counted, IndInv, TypeOK
  <1>8. \A d \in Cpu : (Covers(d) /\ Single(d))'
    BY <1>2, <1>3, <1>5, <1>6, <1>7, CoversKept
  <1>9. QED
    BY <1>1, <1>4, <1>8 DEF IndInv

(* synchronize_sched waits for the CPUs with an event in flight, so those it *)
(* does not wait for have no writer.                                         *)
LEMMA SynchronizeKeeps ==
    ASSUME IndInv, Synchronize \/ Synchronized \/ Disabled
    PROVE  IndInv'
  <1>1. TypeOK'
    BY StepType DEF IndInv, Next, TaskStep
  <1>2. /\ events' = events /\ trace_buffered_event' = trace_buffered_event
        /\ trace_buffered_event_cnt' = trace_buffered_event_cnt
    BY DEF Synchronize, Synchronized, Disabled
  <1>3. task.at \in {"count", "sync", "uncount"} /\ task.todo = {}
    BY DEF Synchronize, Synchronized, Disabled
  <1>4. task'.on = task.on /\ task'.at \in {"sync", "free", "idle"}
    BY DEF Synchronize, Synchronized, Disabled, IndInv, TypeOK, Task
  <1>5. CallsOthers' /\ FreedListed'
    BY <1>2, <1>3, <1>4 DEF CallsOthers, FreedListed, IndInv
  <1>6. Counted' = Counted
    BY <1>3 DEF Synchronize, Synchronized, Disabled, Counted, IndInv, TypeOK, Task, Called
  <1>7. \A c \in Cpu : (Covers(c) /\ Single(c))'
    BY <1>2, <1>6, CoversKept
  <1>8. Drained'
    <2>1. CASE Synchronize
      <3>1. \A c \in Cpu : c \notin task'.todo => events[c] = << >>
        BY <2>1 DEF Synchronize, InFlight, IndInv, TypeOK, Task
      <3>2. task'.at = "sync"
        BY <2>1 DEF Synchronize, IndInv, TypeOK, Task
      <3>3. QED
        BY <1>2, <1>4, <3>1, <3>2, EmptySeq DEF Drained, IdleOnce, Writing, Called
    <2>2. CASE Synchronized
      BY <2>2, <1>2, <1>3, <1>4 DEF Synchronized, Drained, IdleOnce, Called, IndInv
    <2>3. CASE Disabled
      BY <2>3, <1>4 DEF Disabled, Drained, IdleOnce, IndInv, TypeOK, Task
    <2>4. QED
      BY <2>1, <2>2, <2>3
  <1>9. QED
    BY <1>1, <1>5, <1>7, <1>8 DEF IndInv

LEMMA FreePageKeeps ==
    ASSUME IndInv, NEW c \in Cpu, FreePage(c)
    PROVE  IndInv'
  <1>1. TypeOK'
    BY StepType DEF IndInv, Next, TaskStep
  <1>2. CallsOthers' /\ FreedListed' /\ Drained'
    BY DEF IndInv, TypeOK, FreePage, CallsOthers, FreedListed, Drained, IdleOnce
  <1>3. \A d \in Cpu : (Covers(d) /\ Single(d))'
    BY CoversKept DEF FreePage, Counted
  <1>4. QED
    BY <1>1, <1>2, <1>3 DEF IndInv

(* The last page is cleared by a task that goes on to uncount the CPUs that  *)
(* it counted: here the task must still be on the CPU it called from.        *)
LEMMA ClearPageKeeps ==
    ASSUME ~Migrates, IndInv, NEW c \in Cpu, ClearPage(c)
    PROVE  IndInv'
  <1> DEFINE s == events[c]
             t == [i \in DOMAIN s |-> [s[i] EXCEPT !.stale = TRUE]]
  <1>1. s \in Seq(Event) /\ events' = [events EXCEPT ![c] = t]
    BY DEF ClearPage, IndInv, TypeOK
  <1>2. t \in Seq(Event) /\ Users(t) = Users(s) /\ Writing(t) = Writing(s) /\ Writers(t) = {}
    BY <1>1, StaleEvents
  <1>3. events'[c] = t /\ \A d \in Cpu : d # c => events'[d] = events[d]
    BY <1>1 DEF IndInv, TypeOK
  <1>4. /\ task.at = "free" /\ c \in task.todo
        /\ \/ task.todo # {c} /\ task' = Done(c)
           \/ task.todo = {c} /\ task' = [at |-> "uncount", todo |-> Called(task.on), on |-> task.on]
    BY DEF ClearPage, SecondCpu
  <1>4a. /\ task'.on = task.on
         /\ \/ task'.at = "free" /\ task'.todo = task.todo \ {c}
            \/ task'.at = "uncount" /\ task.todo = {c} /\ task'.todo = Called(task.on)
    BY <1>4 DEF Done, IndInv, TypeOK, Task
  <1>5. Counted' = Counted
    BY <1>4, <1>4a DEF Counted
  <1>6. TypeOK'
    BY StepType DEF IndInv, Next, TaskStep
  <1>7. CallsOthers'
    BY <1>4a DEF CallsOthers
  <1>8. FreedListed'
    BY <1>4 DEF ClearPage, FreedListed, Done, IndInv, TypeOK, Task
  <1>9. Drained'
    BY <1>2, <1>3, <1>4, <1>4a DEF Drained, IdleOnce, IndInv, Called
  <1>10. \A d \in Cpu : (Covers(d) /\ Single(d))'
    BY <1>2, <1>3, <1>5 DEF ClearPage, IndInv, Covers, Single, Extra
  <1>11. QED
    BY <1>6, <1>7, <1>8, <1>9, <1>10 DEF IndInv

LEMMA StepInvariant == ASSUME ~Migrates, IndInv, [Next]_vars PROVE IndInv'
  <1>1. CASE \E c \in Cpu : EventStep(c)
    BY <1>1, ReadPageKeeps, CountPageKeeps, LeaveKeeps DEF EventStep
  <1>2. CASE TaskStep
    <2>1. CASE Enable \/ \E c \in Cpu : AllocPage(c)
      BY <2>1, AllocKeeps
    <2>2. CASE Disable \/ AllocFailed
      BY <2>2, DisableKeeps
    <2>3. CASE Synchronize \/ Synchronized \/ Disabled
      BY <2>3, SynchronizeKeeps
    <2>4. CASE \E c \in Cpu : CountCall(c) \/ UncountCall(c)
      BY <2>4, CallKeeps
    <2>5. CASE \E c \in Cpu : FreePage(c)
      BY <2>5, FreePageKeeps
    <2>6. CASE \E c \in Cpu : ClearPage(c)
      BY <2>6, ClearPageKeeps
    <2>7. QED
      BY <1>2, <2>1, <2>2, <2>3, <2>4, <2>5, <2>6 DEF TaskStep
  <1>3. CASE UNCHANGED vars
    BY <1>3 DEF vars, IndInv, TypeOK, CallsOthers, FreedListed, Drained, IdleOnce, Covers,
                Single, Extra, Counted
  <1>4. QED
    BY <1>1, <1>2, <1>3 DEF Next

-----------------------------------------------------------------------------
(* What the invariant says of the pages.                                     *)

LEMMA InvariantImplies ==
    ASSUME IndInv
    PROVE  OneWriter /\ CountCovers /\ FreedUnusedCalled
  <1>1. \A c \in Cpu : /\ At(c, "writes") \cup At(c, "declined") = Users(events[c])
                       /\ At(c, "writes") = Writing(events[c])
                       /\ {i \in At(c, "writes") : ~events[c][i].stale} = Writers(events[c])
    BY DEF At, Users, Writing, Writers
  <1>2. CountCovers
    BY <1>1 DEF IndInv, Covers, Extra, CountCovers
  <1>3. OneWriter
    <2> SUFFICES ASSUME NEW c \in Cpu PROVE Cardinality(Writers(events[c])) <= 1
      BY <1>1 DEF OneWriter
    <2>1. \A i, j \in Writers(events[c]) : i = j
      BY DEF IndInv, Single
    <2>2. Writers(events[c]) = {} \/ \E i : Writers(events[c]) = {i}
      BY <2>1
    <2>3. CASE Writers(events[c]) = {}
      BY <2>3, FS_EmptySet
    <2>4. CASE \E i : Writers(events[c]) = {i}
      <3>1. PICK i : Writers(events[c]) = {i}
        BY <2>4
      <3>2. Cardinality({i}) = 1
        BY FS_Singleton
      <3>3. QED
        BY <3>1, <3>2
    <2>5. QED
      BY <2>2, <2>3, <2>4
  <1>4. FreedUnusedCalled
    BY <1>1 DEF IndInv, FreedListed, Drained, IdleOnce, Called, FreedUnusedCalled
  <1>5. QED
    BY <1>2, <1>3, <1>4

LEMMA Invariance == ASSUME ~Migrates PROVE Spec => []IndInv
  <1>1. Init => IndInv
    BY InitInvariant
  <1>2. IndInv /\ [Next]_vars => IndInv'
    BY StepInvariant
  <1>3. QED
    BY <1>1, <1>2, PTL DEF Spec

-----------------------------------------------------------------------------
(* The results.  The first one does not depend on where the task runs.       *)

(* The stacks, the counts and the calls keep their types, wherever the task  *)
(* makes its calls from.                                                     *)
THEOREM TypeCorrect == Spec => []TypeOK
  <1>1. Init => TypeOK
    BY InitInvariant DEF IndInv
  <1>2. TypeOK /\ [Next]_vars => TypeOK'
    BY StepType
  <1>3. QED
    BY <1>1, <1>2, PTL DEF Spec

(* trace_event_buffer_lock_reserve: of the events nested on a CPU only the   *)
(* one that counted first writes to the page, also while a disable counts    *)
(* and uncounts the CPUs around it.                                          *)
THEOREM WriterCorrect == ASSUME ~Migrates PROVE Spec => []OneWriter
  BY Invariance, InvariantImplies, PTL

(* trace_buffered_event_cnt is at least the events that use the page and the *)
(* disable that takes it away.                                               *)
THEOREM CountCorrect == ASSUME ~Migrates PROVE Spec => []CountCovers
  BY Invariance, InvariantImplies, PTL

(* trace_buffered_event_disable: on every CPU but the one that made the      *)
(* calls, no event writes to a page that was freed.                          *)
THEOREM FreeCorrect == ASSUME ~Migrates PROVE Spec => []FreedUnusedCalled
  BY Invariance, InvariantImplies, PTL
=============================================================================
