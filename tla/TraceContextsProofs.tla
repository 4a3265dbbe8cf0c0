------------------------- MODULE TraceContextsProofs -------------------------
(***************************************************************************)
(* Proofs about TraceContexts for a stack of any depth and any number of   *)
(* buffers: the list function is refused exactly inside itself, and a      *)
(* trace_printk copies what it formatted.  Every step changes the top of   *)
(* the stack only, so the invariant says of each activity what the ones    *)
(* below it left, which is what they find again when it has returned.      *)
(***************************************************************************)
EXTENDS TraceContexts, FiniteSetTheorems, TLAPS

Run == {"list", "callback", "printk"}
FrameState == [ctx : Ctx, run : Run,
               at : {"test", "set", "body", "unset", "refused", "get", "index", "fill", "commit"},
               bit : Nat, val : SUBSET Nat, idx : Nat]

StackType ==
    /\ stack \in Seq(FrameState)
    /\ \A i \in 1 .. Len(stack) :
         stack[i].run = "printk" <=> stack[i].at \in {"get", "index", "fill", "commit"}
    /\ percpu_buffer \in BOOLEAN
    /\ nesting \in 0 .. MaxNesting
    /\ buffer \in [0 .. MaxNesting -> Nat]

(* The recursion bit of a context in a kind of run, and those that the first *)
(* n activities have set.                                                    *)
Bit(e) == (3 - e.ctx) + Start[e.run]
Sets(e) == e.run # "printk" /\ e.at \in {"body", "unset"} /\ e.bit # 0
Bits(n) == {stack[j].bit : j \in {k \in 1 .. n : Sets(stack[k])}}

(* The buffers that the first n activities have taken.                       *)
Takes(e) == e.at \in {"index", "fill", "commit"}
Taken(n) == {j \in 1 .. n : Takes(stack[j])}

(* An activity runs in the context of the one below, which called it, or in  *)
(* a higher one.                                                             *)
Nested(i) == \A j \in 1 .. i - 1 :
    /\ stack[j].ctx <= stack[i].ctx
    /\ stack[j].ctx = stack[i].ctx => stack[j].at \in {"body", "fill"}

(* The bit that it has checked, and the bits it will write.                  *)
Checked(i) ==
    LET e == stack[i] IN
    /\ e.at \in {"test", "refused"} => e.bit = 0
    /\ e.at \in {"set", "unset"} => e.bit = Bit(e)
    /\ e.at = "body" => e.bit = Bit(e) \/ (e.bit = 0 /\ e.run = "callback")
    /\ e.at \in {"set", "body", "unset"} => e.bit \notin Bits(i - 1)
    /\ e.at = "set" => e.val = Bits(i - 1) \cup {e.bit}
    /\ e.at = "unset" => e.val = Bits(i - 1)
    /\ e.at = "refused" => Inside(i) # {}
    /\ e.run = "list" /\ e.at \in {"set", "body"} => Inside(i) = {}

(* Its buffer is the one above those taken below.                            *)
Indexed(i) == stack[i].at \in {"fill", "commit"} => stack[i].idx = Cardinality(Taken(i))

ActivityOK(i) == Nested(i) /\ Checked(i) /\ Indexed(i)

IndInv ==
    /\ StackType
    /\ \A i \in 1 .. Len(stack) : ActivityOK(i)
    /\ trace_recursion = Bits(Len(stack))
    /\ nesting = Cardinality(Taken(Len(stack)))
    /\ PrintkIntact

-----------------------------------------------------------------------------
(* Bits and buffers of the first n activities.                               *)

LEMMA BitsNext ==
    ASSUME NEW n \in Nat \ {0}
    PROVE  Bits(n) = Bits(n - 1) \cup (IF Sets(stack[n]) THEN {stack[n].bit} ELSE {})
  <1>1. 1 .. n = (1 .. n - 1) \cup {n}
    OBVIOUS
  <1>2. QED
    BY <1>1 DEF Bits

LEMMA TakenFinite ==
    ASSUME NEW n \in Nat
    PROVE  IsFiniteSet(Taken(n)) /\ Cardinality(Taken(n)) \in Nat
  <1>1. IsFiniteSet(1 .. n)
    BY FS_Interval
  <1>2. Taken(n) \subseteq 1 .. n
    BY DEF Taken
  <1>3. QED
    BY <1>1, <1>2, FS_Subset, FS_CardinalityType

LEMMA TakenNext ==
    ASSUME NEW n \in Nat \ {0}
    PROVE  Cardinality(Taken(n)) = Cardinality(Taken(n - 1)) + (IF Takes(stack[n]) THEN 1 ELSE 0)
  <1>1. 1 .. n = (1 .. n - 1) \cup {n} /\ n \notin 1 .. n - 1 /\ n - 1 \in Nat
    OBVIOUS
  <1>2. IsFiniteSet(Taken(n - 1)) /\ Cardinality(Taken(n - 1)) \in Nat
    BY <1>1, TakenFinite
  <1>3. CASE Takes(stack[n])
    <2>1. Taken(n) = Taken(n - 1) \cup {n} /\ n \notin Taken(n - 1)
      BY <1>1, <1>3 DEF Taken
    <2>2. Cardinality(Taken(n - 1) \cup {n}) = Cardinality(Taken(n - 1)) + 1
      BY <1>2, <2>1, FS_AddElement
    <2>3. QED
      BY <1>3, <2>1, <2>2
  <1>4. CASE ~Takes(stack[n])
    <2>1. Taken(n) = Taken(n - 1)
      BY <1>1, <1>4 DEF Taken
    <2>2. QED
      BY <1>2, <1>4, <2>1
  <1>5. QED
    BY <1>3, <1>4

(* An activity that has taken a buffer has more below it than those below.   *)
LEMMA TakenLess ==
    ASSUME NEW n \in Nat, NEW i \in 1 .. n - 1, Takes(stack[n])
    PROVE  Cardinality(Taken(i)) < Cardinality(Taken(n))
  <1>1. IsFiniteSet(Taken(n)) /\ Cardinality(Taken(n)) \in Nat
    BY TakenFinite
  <1>2. Taken(i) \subseteq Taken(n) /\ n \in Taken(n) /\ n \notin Taken(i)
    BY DEF Taken
  <1>3. /\ Cardinality(Taken(i)) <= Cardinality(Taken(n))
        /\ Cardinality(Taken(i)) = Cardinality(Taken(n)) => Taken(n) = Taken(i)
    BY <1>1, <1>2, FS_Subset
  <1>4. Cardinality(Taken(i)) \in Nat
    BY TakenFinite
  <1>5. QED
    BY <1>1, <1>2, <1>3, <1>4

(* What a step leaves alone at the bottom of the stack stays as it was.      *)
LEMMA Bottom ==
    ASSUME NEW k \in Nat, \A i \in 1 .. k : stack'[i] = stack[i]
    PROVE  /\ \A n \in 0 .. k : Bits(n)' = Bits(n) /\ Taken(n)' = Taken(n)
           /\ \A i \in 1 .. k : ActivityOK(i) => ActivityOK(i)'
           /\ \A i \in 1 .. k + 1 : Inside(i)' =
                {j \in 1 .. i - 1 : /\ stack[j].ctx = stack'[i].ctx /\ stack[j].run = stack'[i].run
                                    /\ stack[j].at = "body"}
  <1>1. ASSUME NEW n \in 0 .. k PROVE Bits(n)' = Bits(n) /\ Taken(n)' = Taken(n)
    <2>1. \A j \in 1 .. n : stack'[j] = stack[j]
      OBVIOUS
    <2>2. QED
      BY <2>1 DEF Bits, Taken
  <1>2. ASSUME NEW i \in 1 .. k + 1
        PROVE  Inside(i)' =
                {j \in 1 .. i - 1 : /\ stack[j].ctx = stack'[i].ctx /\ stack[j].run = stack'[i].run
                                    /\ stack[j].at = "body"}
    BY DEF Inside
  <1>3. ASSUME NEW i \in 1 .. k, ActivityOK(i) PROVE ActivityOK(i)'
    <2>1. stack'[i] = stack[i] /\ \A j \in 1 .. i - 1 : stack'[j] = stack[j]
      OBVIOUS
    <2>2. Bits(i - 1)' = Bits(i - 1) /\ Taken(i)' = Taken(i)
      BY <1>1
    <2>3. Inside(i)' = Inside(i)
      BY <2>1 DEF Inside
    <2>4. Nested(i)'
      BY <1>3, <2>1 DEF ActivityOK, Nested
    <2>5. Checked(i)'
      BY <1>3, <2>1, <2>2, <2>3 DEF ActivityOK, Checked, Bit
    <2>6. Indexed(i)'
      BY <1>3, <2>1, <2>2 DEF ActivityOK, Indexed
    <2>7. QED
      BY <2>4, <2>5, <2>6 DEF ActivityOK
  <1>4. QED
    BY <1>1, <1>2, <1>3

-----------------------------------------------------------------------------
(* The three ways in which the stack changes.                                *)

LEMMA Pushed ==
    ASSUME IndInv, NEW n \in Nat, n = Len(stack), NEW e \in FrameState, e.bit = 0,
           e.at = IF e.run = "printk" THEN "get" ELSE "test",
           \A j \in 1 .. Len(stack) :
             /\ stack[j].ctx <= e.ctx
             /\ stack[j].ctx = e.ctx => stack[j].at \in {"body", "fill"},
           stack' = Append(stack, e),
           UNCHANGED <<trace_recursion, percpu_buffer, nesting, buffer>>
    PROVE  IndInv'
  <1> USE DEF IndInv
  <1>1. /\ n \in Nat /\ stack' \in Seq(FrameState) /\ Len(stack') = n + 1 /\ stack'[n + 1] = e
        /\ \A i \in 1 .. n : stack'[i] = stack[i]
    BY DEF StackType
  <1>2. StackType'
    <2>1. \A i \in 1 .. n + 1 : i \in 1 .. n \/ i = n + 1
      BY <1>1
    <2>2. \A i \in 1 .. n + 1 :
            stack'[i].run = "printk" <=> stack'[i].at \in {"get", "index", "fill", "commit"}
      BY <1>1, <2>1 DEF StackType
    <2>3. QED
      BY <1>1, <2>2 DEF StackType
  <1>3. /\ Bits(n)' = Bits(n) /\ Taken(n)' = Taken(n)
        /\ \A i \in 1 .. n : ActivityOK(i)'
    BY <1>1, Bottom
  <1>4. ActivityOK(n + 1)'
    <2>1. Nested(n + 1)'
      BY <1>1 DEF Nested
    <2>2. Checked(n + 1)' /\ Indexed(n + 1)'
      BY <1>1 DEF Checked, Indexed
    <2>3. QED
      BY <2>1, <2>2 DEF ActivityOK
  <1>5. Bits(n + 1)' = Bits(n) /\ Cardinality(Taken(n + 1)') = Cardinality(Taken(n))
    <2>1. ~Sets(stack'[n + 1]) /\ ~Takes(stack'[n + 1])
      BY <1>1 DEF Sets, Takes
    <2>2. Bits(n + 1)' = Bits(n)'
      <3>1. \A k \in 1 .. n + 1 : Sets(stack'[k]) => k \in 1 .. n
        BY <1>1, <2>1
      <3>2. QED
        BY <1>1, <3>1 DEF Bits
    <2>3. Taken(n + 1)' = Taken(n)'
      <3>1. \A k \in 1 .. n + 1 : Takes(stack'[k]) => k \in 1 .. n
        BY <1>1, <2>1
      <3>2. QED
        BY <1>1, <3>1 DEF Taken
    <2>4. QED
      BY <1>3, <2>2, <2>3
  <1>6. PrintkIntact'
    <2>1. DOMAIN stack = 1 .. n /\ DOMAIN stack' = 1 .. n + 1
      BY <1>1 DEF StackType
    <2>2. \A i \in 1 .. n + 1 : i \in 1 .. n \/ i = n + 1
      BY <1>1
    <2>3. QED
      BY <1>1, <2>1, <2>2 DEF PrintkIntact
  <1>7. \A i \in 1 .. n + 1 : ActivityOK(i)'
    BY <1>1, <1>3, <1>4
  <1>8. QED
    BY <1>1, <1>2, <1>5, <1>6, <1>7

LEMMA Popped ==
    ASSUME IndInv, NEW n \in Nat \ {0}, n = Len(stack), stack' = Front(stack)
    PROVE  /\ stack' \in Seq(FrameState) /\ Len(stack') = n - 1
           /\ \A i \in 1 .. n - 1 : stack'[i] = stack[i] /\ ActivityOK(i)'
           /\ \A i \in 1 .. n - 1 :
                stack'[i].run = "printk" <=> stack'[i].at \in {"get", "index", "fill", "commit"}
           /\ Bits(n - 1)' = Bits(n - 1) /\ Taken(n - 1)' = Taken(n - 1)
  <1>1. n \in Nat \ {0} /\ stack \in Seq(FrameState)
    BY DEF IndInv, StackType
  <1>2. /\ stack' \in Seq(FrameState) /\ Len(stack') = n - 1
        /\ \A i \in 1 .. n - 1 : stack'[i] = stack[i]
    BY <1>1 DEF Front
  <1>3. /\ Bits(n - 1)' = Bits(n - 1) /\ Taken(n - 1)' = Taken(n - 1)
        /\ \A i \in 1 .. n - 1 : ActivityOK(i)'
    BY <1>1, <1>2, Bottom DEF IndInv
  <1>4. QED
    BY <1>1, <1>2, <1>3 DEF IndInv, StackType

LEMMA Replaced ==
    ASSUME IndInv, NEW n \in Nat \ {0}, n = Len(stack), NEW e \in FrameState, e.ctx = Top.ctx, e.run = Top.run,
           e.run = "printk" <=> e.at \in {"get", "index", "fill", "commit"},
           stack' = [stack EXCEPT ![Len(stack)] = e]
    PROVE  /\ Top = stack[n] /\ Top \in FrameState
           /\ stack' \in Seq(FrameState) /\ Len(stack') = n /\ stack'[n] = e
           /\ \A i \in 1 .. n - 1 : stack'[i] = stack[i] /\ ActivityOK(i)'
           /\ \A i \in 1 .. n :
                stack'[i].run = "printk" <=> stack'[i].at \in {"get", "index", "fill", "commit"}
           /\ Bits(n - 1)' = Bits(n - 1) /\ Taken(n - 1)' = Taken(n - 1)
           /\ Inside(n)' = Inside(n) /\ Nested(n)'
           /\ Bits(n)' = Bits(n - 1) \cup (IF Sets(e) THEN {e.bit} ELSE {})
           /\ Cardinality(Taken(n)') = Cardinality(Taken(n - 1)) + (IF Takes(e) THEN 1 ELSE 0)
  <1>1. n \in Nat \ {0} /\ stack \in Seq(FrameState) /\ Top = stack[n] /\ Top \in FrameState
    BY DEF IndInv, StackType, Top, Last
  <1>2. /\ stack' \in Seq(FrameState) /\ Len(stack') = n /\ stack'[n] = e
        /\ \A i \in 1 .. n - 1 : stack'[i] = stack[i]
    BY <1>1
  <1>3. \A i \in 1 .. n : i \in 1 .. n - 1 \/ i = n
    BY <1>1
  <1>4. /\ Bits(n - 1)' = Bits(n - 1) /\ Taken(n - 1)' = Taken(n - 1)
        /\ \A i \in 1 .. n - 1 : ActivityOK(i)'
    <2>1. n - 1 \in Nat /\ \A i \in 1 .. n - 1 : ActivityOK(i)
      BY <1>1 DEF IndInv
    <2>2. /\ \A m \in 0 .. n - 1 : Bits(m)' = Bits(m) /\ Taken(m)' = Taken(m)
          /\ \A i \in 1 .. n - 1 : ActivityOK(i) => ActivityOK(i)'
      BY <1>2, <2>1, Bottom
    <2>3. n - 1 \in 0 .. n - 1
      OBVIOUS
    <2>4. QED
      BY <2>1, <2>2, <2>3
  <1>5. Inside(n)' = Inside(n)
    BY <1>1, <1>2 DEF Inside
  <1>6. Nested(n)'
    <2>1. Nested(n)
      BY <1>1 DEF IndInv, ActivityOK
    <2>2. QED
      BY <1>1, <1>2, <2>1 DEF Nested
  <1>7. Bits(n)' = Bits(n - 1) \cup (IF Sets(e) THEN {e.bit} ELSE {})
    <2>1. (Bits(n) = Bits(n - 1) \cup (IF Sets(stack[n]) THEN {stack[n].bit} ELSE {}))'
      BY <1>1, <1>2, <1>3 DEF Bits
    <2>2. QED
      BY <1>2, <1>4, <2>1
  <1>8. Cardinality(Taken(n)') = Cardinality(Taken(n - 1)) + (IF Takes(e) THEN 1 ELSE 0)
    <2>1. IsFiniteSet(Taken(n - 1)) /\ Cardinality(Taken(n - 1)) \in Nat /\ n \notin Taken(n - 1)
      BY <1>1, TakenFinite DEF Taken
    <2>2. Taken(n)' = Taken(n - 1)' \cup (IF Takes(e) THEN {n} ELSE {})
      BY <1>1, <1>2, <1>3 DEF Taken
    <2>3. Cardinality(Taken(n - 1) \cup {n}) = Cardinality(Taken(n - 1)) + 1
      BY <2>1, FS_AddElement
    <2>4. CASE Takes(e)
      BY <1>4, <2>2, <2>3, <2>4
    <2>5. CASE ~Takes(e)
      BY <1>4, <2>1, <2>2, <2>5
    <2>6. QED
      BY <2>4, <2>5
  <1>9. QED
    BY <1>1, <1>2, <1>3, <1>4, <1>5, <1>6, <1>7, <1>8 DEF IndInv, StackType

-----------------------------------------------------------------------------
(* Contexts and bits.                                                        *)

LEMMA TopType ==
    ASSUME IndInv, stack # << >>
    PROVE  \E n \in Nat \ {0} :
             /\ n = Len(stack) /\ Top = stack[n] /\ Top \in FrameState
             /\ ActivityOK(n)
             /\ Top.run = "printk" <=> Top.at \in {"get", "index", "fill", "commit"}
  <1>1. Len(stack) \in Nat \ {0} /\ stack \in Seq(FrameState)
    BY DEF IndInv, StackType
  <1>2. QED
    BY <1>1 DEF IndInv, StackType, Top, Last

(* The context bit is that of the activity that runs, the highest of all.    *)
LEMMA ContextBit ==
    ASSUME IndInv, NEW n \in Nat \ {0}, n = Len(stack)
    PROVE  trace_get_context_bit = 3 - stack[n].ctx
  <1>1. stack \in Seq(FrameState) /\ Nested(n)
    BY DEF IndInv, StackType, ActivityOK
  <1>2. \A i \in 1 .. n : stack[i].ctx \in 0 .. 3 /\ stack[i].ctx <= stack[n].ctx
    <2>1. \A i \in 1 .. n : stack[i] \in FrameState
      BY <1>1
    <2>2. \A i \in 1 .. n : i \in 1 .. n - 1 \/ i = n
      OBVIOUS
    <2>3. QED
      BY <1>1, <2>1, <2>2 DEF Nested, FrameState, Ctx
  <1>3. DOMAIN stack = 1 .. n /\ n \in 1 .. n
    BY <1>1
  <1>4. /\ in_nmi => stack[n].ctx = 3
        /\ stack[n].ctx = 3 => in_nmi
    BY <1>2, <1>3 DEF in_nmi
  <1>5. /\ in_irq => stack[n].ctx \in {2, 3}
        /\ stack[n].ctx = 2 => in_irq
    BY <1>2, <1>3 DEF in_irq
  <1>6. /\ in_softirq => stack[n].ctx \in {1, 2, 3}
        /\ stack[n].ctx = 1 => in_softirq
    BY <1>2, <1>3 DEF in_softirq
  <1>7. stack[n].ctx \in {0, 1, 2, 3}
    BY <1>2, <1>3
  <1>8. CASE stack[n].ctx = 3
    BY <1>4, <1>8 DEF trace_get_context_bit
  <1>9. CASE stack[n].ctx = 2
    BY <1>4, <1>5, <1>9 DEF trace_get_context_bit
  <1>10. CASE stack[n].ctx = 1
    BY <1>4, <1>5, <1>6, <1>10 DEF trace_get_context_bit
  <1>11. CASE stack[n].ctx = 0
    BY <1>4, <1>5, <1>6, <1>11 DEF trace_get_context_bit
  <1>12. QED
    BY <1>7, <1>8, <1>9, <1>10, <1>11

(* A bit tells the context and the kind of run that set it.                  *)
LEMMA BitTells ==
    ASSUME NEW e \in FrameState, e.run \in {"list", "callback"}
    PROVE  /\ Bit(e) \in TRACE_LIST_MAX
           /\ e.run = "list" => Bit(e) \in 8 .. 11
           /\ e.run = "callback" => Bit(e) \in 4 .. 7
           /\ \A d \in FrameState : d.run \in {"list", "callback"} /\ Bit(d) = Bit(e)
                => d.ctx = e.ctx /\ d.run = e.run
  <1>1. \A d \in FrameState : d.run \in {"list", "callback"} =>
          /\ d.ctx \in 0 .. 3
          /\ d.run = "list" => Bit(d) = 11 - d.ctx
          /\ d.run = "callback" => Bit(d) = 7 - d.ctx
    BY DEF FrameState, Ctx, Bit, Start, TRACE_LIST_START, TRACE_FTRACE_START
  <1>2. /\ e.run = "list" => Bit(e) \in 8 .. 11
        /\ e.run = "callback" => Bit(e) \in 4 .. 7
    BY <1>1
  <1>3. \A x : x \in 4 .. 7 \/ x \in 8 .. 11 => x \in TRACE_LIST_MAX
    BY DEF TRACE_LIST_MAX, TRACE_FTRACE_MAX, TRACE_LIST_START, TRACE_FTRACE_START
  <1>4. \A d \in FrameState : d.run \in {"list", "callback"} /\ Bit(d) = Bit(e)
          => d.ctx = e.ctx /\ d.run = e.run
    BY <1>1
  <1>5. QED
    BY <1>2, <1>3, <1>4

(* Every bit that is set is that of an activity of its context below.        *)
LEMMA BitsOf ==
    ASSUME IndInv, NEW n \in 0 .. Len(stack), NEW x \in Bits(n)
    PROVE  \E j \in 1 .. n :
             /\ stack[j] \in FrameState /\ stack[j].run \in {"list", "callback"}
             /\ stack[j].at \in {"body", "unset"}
             /\ x = stack[j].bit /\ x = Bit(stack[j]) /\ x \in TRACE_LIST_MAX
  <1>1. PICK j \in 1 .. n : Sets(stack[j]) /\ x = stack[j].bit
    BY DEF Bits
  <1>2. j \in 1 .. Len(stack) /\ stack[j] \in FrameState
    BY DEF IndInv, StackType
  <1>3. stack[j].run \in {"list", "callback"} /\ x = Bit(stack[j])
    BY <1>1, <1>2 DEF IndInv, ActivityOK, Checked, Sets, FrameState, Run
  <1>4. QED
    BY <1>1, <1>2, <1>3, BitTells DEF Sets

-----------------------------------------------------------------------------
(* What is left to show of a step that changes the top or removes it.        *)

LEMMA PoppedInv ==
    ASSUME IndInv, NEW n \in Nat \ {0}, n = Len(stack), stack' = Front(stack),
           trace_recursion' = Bits(n - 1), nesting' = Cardinality(Taken(n - 1)),
           nesting' \in 0 .. MaxNesting, percpu_buffer' \in BOOLEAN,
           buffer' \in [0 .. MaxNesting -> Nat],
           \A i \in 1 .. n - 1 : stack[i].at = "commit" => buffer'[stack[i].idx] = i
    PROVE  IndInv'
  <1>1. /\ stack' \in Seq(FrameState) /\ Len(stack') = n - 1
        /\ \A i \in 1 .. n - 1 : stack'[i] = stack[i] /\ ActivityOK(i)'
        /\ \A i \in 1 .. n - 1 :
             stack'[i].run = "printk" <=> stack'[i].at \in {"get", "index", "fill", "commit"}
        /\ Bits(n - 1)' = Bits(n - 1) /\ Taken(n - 1)' = Taken(n - 1)
    BY Popped
  <1>2. StackType'
    BY <1>1 DEF StackType
  <1>3. PrintkIntact'
    <2>1. DOMAIN stack' = 1 .. n - 1
      BY <1>1
    <2>2. QED
      BY <1>1, <2>1 DEF PrintkIntact
  <1>4. PICK m \in Nat : m = n - 1
    OBVIOUS
  <1>5. trace_recursion' = Bits(m)' /\ nesting' = Cardinality(Taken(m)') /\ Len(stack') = m
    BY <1>1, <1>4
  <1>6. QED
    BY <1>1, <1>2, <1>3, <1>4, <1>5 DEF IndInv

LEMMA ReplacedInv ==
    ASSUME IndInv, NEW n \in Nat \ {0}, n = Len(stack), NEW e \in FrameState,
           e.ctx = Top.ctx, e.run = Top.run,
           e.run = "printk" <=> e.at \in {"get", "index", "fill", "commit"},
           stack' = [stack EXCEPT ![Len(stack)] = e],
           Checked(n)', Indexed(n)', trace_recursion' = Bits(n)', nesting' = Cardinality(Taken(n)'),
           nesting' \in 0 .. MaxNesting, percpu_buffer' \in BOOLEAN,
           buffer' \in [0 .. MaxNesting -> Nat], e.at = "commit" => buffer'[e.idx] = n,
           \A i \in 1 .. n - 1 : stack[i].at = "commit" => buffer'[stack[i].idx] = i
    PROVE  IndInv'
  <1>1. /\ stack' \in Seq(FrameState) /\ Len(stack') = n /\ stack'[n] = e /\ Nested(n)'
        /\ \A i \in 1 .. n - 1 : stack'[i] = stack[i] /\ ActivityOK(i)'
        /\ \A i \in 1 .. n :
             stack'[i].run = "printk" <=> stack'[i].at \in {"get", "index", "fill", "commit"}
    BY Replaced
  <1>2. \A i \in 1 .. n : i \in 1 .. n - 1 \/ i = n
    OBVIOUS
  <1>3. StackType'
    BY <1>1 DEF StackType
  <1>4. PrintkIntact'
    <2>1. DOMAIN stack' = 1 .. n
      BY <1>1
    <2>2. QED
      BY <1>1, <1>2, <2>1 DEF PrintkIntact
  <1>5. \A i \in 1 .. n : ActivityOK(i)'
    BY <1>1, <1>2 DEF ActivityOK
  <1>6. QED
    BY <1>1, <1>3, <1>4, <1>5 DEF IndInv

(* What the invariant says of the top.                                       *)
LEMMA TopHolds ==
    ASSUME IndInv, NEW n \in Nat \ {0}, n = Len(stack)
    PROVE  /\ Top = stack[n] /\ Top \in FrameState /\ Nested(n) /\ Checked(n) /\ Indexed(n)
           /\ Top.run = "printk" <=> Top.at \in {"get", "index", "fill", "commit"}
           /\ trace_recursion = Bits(n - 1) \cup (IF Sets(Top) THEN {Top.bit} ELSE {})
           /\ nesting = Cardinality(Taken(n - 1)) + (IF Takes(Top) THEN 1 ELSE 0)
           /\ nesting \in 0 .. MaxNesting /\ Cardinality(Taken(n - 1)) \in Nat
           /\ buffer \in [0 .. MaxNesting -> Nat] /\ percpu_buffer \in BOOLEAN
           /\ \A i \in 1 .. n : stack[i].at = "commit" => buffer[stack[i].idx] = i
  <1>1. Top = stack[n] /\ n \in 1 .. Len(stack) /\ stack \in Seq(FrameState)
    BY DEF IndInv, StackType, Top, Last
  <1>2. /\ Top \in FrameState /\ Nested(n) /\ Checked(n) /\ Indexed(n)
        /\ Top.run = "printk" <=> Top.at \in {"get", "index", "fill", "commit"}
    BY <1>1 DEF IndInv, StackType, ActivityOK
  <1>3. trace_recursion = Bits(n - 1) \cup (IF Sets(Top) THEN {Top.bit} ELSE {})
    BY <1>1, BitsNext DEF IndInv
  <1>4. nesting = Cardinality(Taken(n - 1)) + (IF Takes(Top) THEN 1 ELSE 0)
    BY <1>1, TakenNext DEF IndInv
  <1>5. Cardinality(Taken(n - 1)) \in Nat
    BY TakenFinite
  <1>6. \A i \in 1 .. n : stack[i].at = "commit" => buffer[stack[i].idx] = i
    BY <1>1 DEF IndInv, PrintkIntact
  <1>7. QED
    BY <1>1, <1>2, <1>3, <1>4, <1>5, <1>6 DEF IndInv, StackType

-----------------------------------------------------------------------------
(* The steps.                                                                *)

LEMMA InterruptStep ==
    ASSUME IndInv, NEW ctx \in Ctx, NEW run \in Run, Interrupt(ctx, run)
    PROVE  IndInv'
  <1>1. PICK n \in Nat : n = Len(stack) /\ stack \in Seq(FrameState)
    BY DEF IndInv, StackType
  <1>2. PICK e : e = Frame(ctx, run)
    OBVIOUS
  <1>3. /\ e \in FrameState /\ e.bit = 0 /\ e.ctx = ctx
        /\ e.at = IF e.run = "printk" THEN "get" ELSE "test"
    BY <1>2 DEF Frame, FrameState, Run
  <1>4. ASSUME NEW j \in 1 .. n PROVE stack[j].ctx < ctx
    <2>1. n # 0 /\ stack # << >> /\ stack[n].ctx < ctx
      BY <1>1 DEF Interrupt, Top, Last
    <2>2. Nested(n)
      BY <1>1, <2>1 DEF IndInv, ActivityOK
    <2>3. stack[j].ctx \in Int /\ stack[n].ctx \in Int /\ ctx \in Int
      <3>1. stack[j] \in FrameState /\ stack[n] \in FrameState
        BY <1>1, <2>1
      <3>2. QED
        BY <3>1 DEF FrameState, Ctx
    <2>4. j \in 1 .. n - 1 \/ j = n
      OBVIOUS
    <2>5. QED
      BY <2>1, <2>2, <2>3, <2>4 DEF Nested
  <1>5. \A j \in 1 .. Len(stack) :
          /\ stack[j].ctx <= e.ctx
          /\ stack[j].ctx = e.ctx => stack[j].at \in {"body", "fill"}
    <2>1. \A j \in 1 .. n : stack[j].ctx \in Int /\ ctx \in Int
      <3>1. \A j \in 1 .. n : stack[j] \in FrameState
        BY <1>1
      <3>2. QED
        BY <3>1 DEF FrameState, Ctx
    <2>2. QED
      BY <1>1, <1>3, <1>4, <2>1
  <1>6. stack' = Append(stack, e) /\ UNCHANGED <<trace_recursion, percpu_buffer, nesting, buffer>>
    BY <1>2 DEF Interrupt
  <1>7. QED
    BY <1>1, <1>3, <1>5, <1>6, Pushed

LEMMA CallStep ==
    ASSUME IndInv, NEW run \in {"list", "callback"}, Call(run)
    PROVE  IndInv'
  <1>1. stack # << >> /\ Top.at \in {"body", "fill"}
    BY DEF Call, Runs
  <1>2. PICK n \in Nat \ {0} : n = Len(stack) /\ Top = stack[n] /\ Top \in FrameState /\ ActivityOK(n)
    BY <1>1, TopType
  <1>3. PICK e : e = Frame(Top.ctx, run)
    OBVIOUS
  <1>4. /\ e \in FrameState /\ e.bit = 0 /\ e.ctx = Top.ctx
        /\ e.run # "printk" /\ e.at = "test"
    BY <1>2, <1>3 DEF Frame, FrameState, Run
  <1>5. \A j \in 1 .. Len(stack) :
          /\ stack[j].ctx <= e.ctx
          /\ stack[j].ctx = e.ctx => stack[j].at \in {"body", "fill"}
    <2>1. \A j \in 1 .. n : j \in 1 .. n - 1 \/ j = n
      OBVIOUS
    <2>2. Top.ctx \in Int
      BY <1>2 DEF FrameState, Ctx
    <2>3. QED
      BY <1>1, <1>2, <1>4, <2>1, <2>2 DEF ActivityOK, Nested
  <1>6. stack' = Append(stack, e) /\ UNCHANGED <<trace_recursion, percpu_buffer, nesting, buffer>>
    BY <1>3 DEF Call
  <1>7. QED
    BY <1>2, <1>4, <1>5, <1>6, Pushed

(* Below an activity that checks nothing is missing: the list function is    *)
(* refused exactly when it runs in its context.                              *)
LEMMA RefusedInside ==
    ASSUME IndInv, NEW n \in Nat \ {0}, n = Len(stack), stack[n].run \in {"list", "callback"},
           Bit(stack[n]) \in Bits(n - 1)
    PROVE  Inside(n) # {}
  <1>1. n - 1 \in 0 .. Len(stack) /\ stack[n] \in FrameState /\ Nested(n)
    BY TopHolds
  <1>2. PICK j \in 1 .. n - 1 :
          /\ stack[j] \in FrameState /\ stack[j].run \in {"list", "callback"}
          /\ stack[j].at \in {"body", "unset"} /\ Bit(stack[n]) = Bit(stack[j])
    BY <1>1, BitsOf
  <1>3. stack[j].ctx = stack[n].ctx /\ stack[j].run = stack[n].run
    BY <1>1, <1>2, BitTells
  <1>4. stack[j].at = "body"
    BY <1>1, <1>2, <1>3 DEF Nested
  <1>5. j \in Inside(n)
    BY <1>3, <1>4 DEF Inside
  <1>6. QED
    BY <1>5

LEMMA ListOutside ==
    ASSUME IndInv, NEW n \in Nat \ {0}, n = Len(stack), stack[n].run = "list",
           Bit(stack[n]) \notin Bits(n - 1)
    PROVE  Inside(n) = {}
  <1> SUFFICES ASSUME NEW j \in Inside(n) PROVE FALSE
    OBVIOUS
  <1>1. /\ j \in 1 .. n - 1 /\ stack[j].ctx = stack[n].ctx /\ stack[j].run = "list"
        /\ stack[j].at = "body"
    BY DEF Inside
  <1>2. Bit(stack[j]) = Bit(stack[n])
    BY <1>1 DEF Bit
  <1>3. stack[j] \in FrameState /\ stack[j].bit = Bit(stack[j])
    BY <1>1 DEF IndInv, StackType, ActivityOK, Checked
  <1>4. stack[j].bit # 0
    <2>1. Bit(stack[j]) \in 8 .. 11
      BY <1>1, <1>3, BitTells
    <2>2. QED
      BY <1>3, <2>1
  <1>5. Sets(stack[j])
    BY <1>1, <1>4 DEF Sets
  <1>6. stack[j].bit \in Bits(n - 1)
    BY <1>1, <1>5 DEF Bits
  <1>7. QED
    BY <1>2, <1>3, <1>6

(* A check is skipped only by a callback.                                    *)
LEMMA NoneAboveList ==
    ASSUME IndInv
    PROVE  trace_recursion \subseteq TRACE_LIST_MAX
  <1>1. Len(stack) \in 0 .. Len(stack)
    BY DEF IndInv, StackType
  <1>2. QED
    BY <1>1, BitsOf DEF IndInv

LEMMA TestStep ==
    ASSUME IndInv, Test
    PROVE  IndInv'
  <1> DEFINE bit == trace_get_context_bit + Start[Top.run]
  <1>1. stack # << >> /\ Top.run \in {"list", "callback"} /\ Top.at = "test"
        /\ UNCHANGED <<trace_recursion, percpu_buffer, nesting, buffer>>
    BY DEF Test, Runs
  <1>2. PICK n \in Nat \ {0} : n = Len(stack)
    BY <1>1, TopType
  <1>3. /\ Top = stack[n] /\ Top \in FrameState /\ Nested(n) /\ Checked(n)
        /\ trace_recursion = Bits(n - 1) /\ nesting = Cardinality(Taken(n - 1))
        /\ nesting \in 0 .. MaxNesting /\ buffer \in [0 .. MaxNesting -> Nat]
        /\ percpu_buffer \in BOOLEAN
        /\ \A i \in 1 .. n : stack[i].at = "commit" => buffer[stack[i].idx] = i
    <2>1. Top.run # "printk" /\ ~Sets(Top) /\ ~Takes(Top)
      BY <1>1 DEF Sets, Takes
    <2>2. Cardinality(Taken(n - 1)) \in Nat
      BY TakenFinite
    <2>3. /\ Top = stack[n] /\ Top \in FrameState /\ Nested(n) /\ Checked(n)
          /\ trace_recursion = Bits(n - 1) /\ nesting = Cardinality(Taken(n - 1))
      <3>1. /\ Top = stack[n] /\ Top \in FrameState /\ Nested(n) /\ Checked(n)
            /\ trace_recursion = Bits(n - 1) \cup (IF Sets(Top) THEN {Top.bit} ELSE {})
            /\ nesting = Cardinality(Taken(n - 1)) + (IF Takes(Top) THEN 1 ELSE 0)
        BY <1>2, TopHolds
      <3>2. trace_recursion = Bits(n - 1)
        BY <2>1, <3>1
      <3>3. nesting = Cardinality(Taken(n - 1))
        BY <2>1, <2>2, <3>1
      <3>4. QED
        BY <3>1, <3>2, <3>3
    <2>4. QED
      BY <1>2, <2>3, TopHolds
  <1>4. Top.bit = 0
    BY <1>1, <1>3 DEF Checked
  <1>5. bit = Bit(Top) /\ bit \in TRACE_LIST_MAX
    BY <1>1, <1>2, <1>3, ContextBit, BitTells DEF Bit
  <1>6. bit \in Nat /\ bit # 0 /\ trace_recursion \subseteq Nat /\ 0 \notin trace_recursion
    BY <1>5, NoneAboveList DEF TRACE_LIST_MAX, TRACE_FTRACE_MAX, TRACE_LIST_START, TRACE_FTRACE_START
  <1>7. PICK e \in FrameState :
          /\ stack' = [stack EXCEPT ![Len(stack)] = e]
          /\ e.ctx = Top.ctx /\ e.run = Top.run
          /\ \/ e.at = "body" /\ e.bit = 0 /\ ~(trace_recursion \subseteq CheckMax(Top.run))
             \/ e.at = "refused" /\ e.bit = 0 /\ bit \in trace_recursion
             \/ /\ e.at = "set" /\ e.bit = bit /\ bit \notin trace_recursion
                /\ e.val = trace_recursion \cup {bit}
    <2>1. CASE ~(trace_recursion \subseteq CheckMax(Top.run))
      <3>1. stack' = [stack EXCEPT ![Len(stack)] = [Top EXCEPT !.at = "body"]]
        BY <1>2, <1>3, <2>1 DEF Test
      <3>2. [Top EXCEPT !.at = "body"] \in FrameState
        BY <1>3 DEF FrameState
      <3>3. QED
        BY <1>3, <1>4, <2>1, <3>1, <3>2 DEF FrameState
    <2>2. CASE trace_recursion \subseteq CheckMax(Top.run) /\ bit \in trace_recursion
      <3>1. stack' = [stack EXCEPT ![Len(stack)] = [Top EXCEPT !.at = "refused"]]
        BY <1>2, <1>3, <2>2 DEF Test
      <3>2. [Top EXCEPT !.at = "refused"] \in FrameState
        BY <1>3 DEF FrameState
      <3>3. QED
        BY <1>3, <1>4, <2>2, <3>1, <3>2 DEF FrameState
    <2>3. CASE trace_recursion \subseteq CheckMax(Top.run) /\ bit \notin trace_recursion
      <3> DEFINE e == [Top EXCEPT !.at = "set", !.bit = bit, !.val = trace_recursion \cup {bit}]
      <3>1. stack' = [stack EXCEPT ![Len(stack)] = e]
        BY <1>2, <1>3, <2>3 DEF Test
      <3>2. e \in FrameState
        BY <1>3, <1>6 DEF FrameState
      <3>3. QED
        BY <1>3, <2>3, <3>1, <3>2 DEF FrameState
    <2>4. QED
      BY <2>1, <2>2, <2>3
  <1>8. e.run = "printk" <=> e.at \in {"get", "index", "fill", "commit"}
    BY <1>1, <1>7
  <1>8a. e.ctx = Top.ctx /\ e.run = Top.run /\ stack' = [stack EXCEPT ![Len(stack)] = e]
    BY <1>7
  <1>9. /\ stack'[n] = e /\ Bits(n - 1)' = Bits(n - 1) /\ Inside(n)' = Inside(n)
        /\ Bits(n)' = Bits(n - 1) \cup (IF Sets(e) THEN {e.bit} ELSE {})
        /\ Cardinality(Taken(n)') = Cardinality(Taken(n - 1)) + (IF Takes(e) THEN 1 ELSE 0)
    BY <1>2, <1>8, <1>8a, Replaced
  <1>10. /\ trace_recursion' = Bits(n)' /\ nesting' = Cardinality(Taken(n)')
    <2>1. ~Sets(e) /\ ~Takes(e)
      BY <1>7 DEF Sets, Takes
    <2>2. QED
      BY <1>1, <1>3, <1>9, <2>1
  <1>11. Checked(n)'
    <2>1. CASE e.at = "body"
      <3>1. e.run = "callback" /\ e.bit = 0
        BY <1>1, <1>7, <2>1, NoneAboveList DEF CheckMax
      <3>2. QED
        BY <1>3, <1>6, <1>9, <2>1, <3>1 DEF Checked
    <2>2. CASE e.at = "refused"
      <3>1. Inside(n) # {}
        BY <1>1, <1>2, <1>3, <1>5, <1>7, <2>2, RefusedInside
      <3>2. QED
        BY <1>7, <1>9, <2>2, <3>1 DEF Checked
    <2>3. CASE e.at = "set"
      <3>1. e.bit = Bit(e) /\ e.bit \notin Bits(n - 1) /\ e.val = Bits(n - 1) \cup {e.bit}
        BY <1>3, <1>5, <1>7, <2>3 DEF Bit
      <3>2. e.run = "list" => Inside(n) = {}
        BY <1>2, <1>3, <1>5, <1>7, <2>3, ListOutside
      <3>3. QED
        BY <1>9, <2>3, <3>1, <3>2 DEF Checked, Bit
    <2>4. QED
      BY <1>7, <2>1, <2>2, <2>3
  <1>12. Indexed(n)'
    BY <1>7, <1>9 DEF Indexed
  <1>13. /\ nesting' \in 0 .. MaxNesting /\ percpu_buffer' \in BOOLEAN
         /\ buffer' \in [0 .. MaxNesting -> Nat] /\ e.at # "commit"
         /\ \A i \in 1 .. n - 1 : stack[i].at = "commit" => buffer'[stack[i].idx] = i
    BY <1>1, <1>3, <1>7
  <1>14. QED
    BY <1>2, <1>8, <1>8a, <1>10, <1>11, <1>12, <1>13, ReplacedInv

(* The steps that change the recursion bits, and what they leave alone.      *)
LEMMA RecursionTop ==
    ASSUME IndInv, NEW n \in Nat \ {0}, n = Len(stack), Top.run \in {"list", "callback"},
           UNCHANGED <<percpu_buffer, nesting, buffer>>
    PROVE  /\ Top = stack[n] /\ Top \in FrameState /\ Checked(n) /\ ~Takes(Top)
           /\ nesting' = Cardinality(Taken(n - 1))
           /\ nesting' \in 0 .. MaxNesting /\ buffer' \in [0 .. MaxNesting -> Nat]
           /\ percpu_buffer' \in BOOLEAN
           /\ \A i \in 1 .. n - 1 : stack[i].at = "commit" => buffer'[stack[i].idx] = i
  <1>1. /\ Top = stack[n] /\ Top \in FrameState /\ Checked(n)
        /\ Top.run = "printk" <=> Top.at \in {"get", "index", "fill", "commit"}
        /\ nesting = Cardinality(Taken(n - 1)) + (IF Takes(Top) THEN 1 ELSE 0)
        /\ nesting \in 0 .. MaxNesting /\ Cardinality(Taken(n - 1)) \in Nat
        /\ buffer \in [0 .. MaxNesting -> Nat] /\ percpu_buffer \in BOOLEAN
        /\ \A i \in 1 .. n : stack[i].at = "commit" => buffer[stack[i].idx] = i
    BY TopHolds
  <1>2. ~Takes(Top)
    BY <1>1 DEF Takes
  <1>3. nesting = Cardinality(Taken(n - 1))
    BY <1>1, <1>2
  <1>4. QED
    BY <1>1, <1>2, <1>3

LEMMA SetStep ==
    ASSUME IndInv, Set
    PROVE  IndInv'
  <1>1. /\ stack # << >> /\ Top.run \in {"list", "callback"} /\ Top.at = "set"
        /\ trace_recursion' = Top.val /\ UNCHANGED <<percpu_buffer, nesting, buffer>>
    BY DEF Set, Runs
  <1>2. PICK n \in Nat \ {0} : n = Len(stack)
    BY <1>1, TopType
  <1>3. /\ Top = stack[n] /\ Top \in FrameState /\ Checked(n)
        /\ nesting' = Cardinality(Taken(n - 1))
        /\ nesting' \in 0 .. MaxNesting /\ buffer' \in [0 .. MaxNesting -> Nat]
        /\ percpu_buffer' \in BOOLEAN
        /\ \A i \in 1 .. n - 1 : stack[i].at = "commit" => buffer'[stack[i].idx] = i
    BY <1>1, <1>2, RecursionTop
  <1>4. PICK e \in FrameState : e = [Top EXCEPT !.at = "body"]
    BY <1>3 DEF FrameState
  <1>4a. e.ctx = Top.ctx /\ e.run = Top.run
    BY <1>3, <1>4 DEF FrameState
  <1>5. /\ e \in FrameState /\ e.at = "body" /\ e.ctx = Top.ctx /\ e.run = Top.run
        /\ e.bit = Top.bit
    BY <1>3, <1>4 DEF FrameState
  <1>6. stack' = [stack EXCEPT ![Len(stack)] = e]
    BY <1>2, <1>3, <1>4 DEF Set, Goto
  <1>7. e.run = "printk" <=> e.at \in {"get", "index", "fill", "commit"}
    BY <1>1, <1>5
  <1>8. /\ stack'[n] = e /\ Bits(n - 1)' = Bits(n - 1) /\ Inside(n)' = Inside(n)
        /\ Bits(n)' = Bits(n - 1) \cup (IF Sets(e) THEN {e.bit} ELSE {})
        /\ Cardinality(Taken(n)') = Cardinality(Taken(n - 1)) + (IF Takes(e) THEN 1 ELSE 0)
    BY <1>2, <1>4a, <1>6, <1>7, Replaced
  <1>9. /\ Top.bit = Bit(Top) /\ Top.bit \notin Bits(n - 1)
        /\ Top.val = Bits(n - 1) \cup {Top.bit} /\ (Top.run = "list" => Inside(n) = {})
    BY <1>1, <1>3 DEF Checked
  <1>10. Bit(e) = Bit(Top) /\ Bit(Top) # 0
    <2>1. Bit(Top) \in 8 .. 11 \/ Bit(Top) \in 4 .. 7
      BY <1>1, <1>3, BitTells
    <2>2. QED
      BY <1>5, <2>1 DEF Bit
  <1>11. Sets(e) /\ ~Takes(e)
    BY <1>1, <1>5, <1>9, <1>10 DEF Sets, Takes
  <1>12. trace_recursion' = Bits(n)'
    BY <1>1, <1>5, <1>8, <1>9, <1>11
  <1>13. nesting' = Cardinality(Taken(n)')
    <2>1. Cardinality(Taken(n - 1)) \in Nat
      BY TakenFinite
    <2>2. QED
      BY <1>3, <1>8, <1>11, <2>1
  <1>14. Checked(n)' /\ Indexed(n)'
    BY <1>5, <1>8, <1>9, <1>10 DEF Checked, Indexed
  <1>15. e.at # "commit"
    BY <1>5
  <1>16. QED
    BY <1>2, <1>3, <1>5, <1>6, <1>7, <1>12, <1>13, <1>14, <1>15, ReplacedInv

(* An activity returns with its bit cleared or without one.                  *)
LEMMA ReturnsClean ==
    ASSUME IndInv, NEW n \in Nat \ {0}, n = Len(stack), Top.run \in {"list", "callback"},
           UNCHANGED <<percpu_buffer, nesting, buffer>>, stack' = Front(stack),
           trace_recursion' = Bits(n - 1)
    PROVE  IndInv'
  <1>1. /\ nesting' = Cardinality(Taken(n - 1))
        /\ nesting' \in 0 .. MaxNesting /\ buffer' \in [0 .. MaxNesting -> Nat]
        /\ percpu_buffer' \in BOOLEAN
        /\ \A i \in 1 .. n - 1 : stack[i].at = "commit" => buffer'[stack[i].idx] = i
    BY RecursionTop
  <1>2. QED
    BY <1>1, PoppedInv

LEMMA UnsetStep ==
    ASSUME IndInv, Unset
    PROVE  IndInv'
  <1>1. /\ stack # << >> /\ Top.run \in {"list", "callback"} /\ Top.at = "unset"
        /\ trace_recursion' = Top.val /\ UNCHANGED <<percpu_buffer, nesting, buffer>>
        /\ stack' = Front(stack)
    BY DEF Unset, Runs, Return
  <1>2. PICK n \in Nat \ {0} : n = Len(stack)
    BY <1>1, TopType
  <1>3. Top = stack[n] /\ Checked(n)
    BY <1>1, <1>2, RecursionTop
  <1>4. trace_recursion' = Bits(n - 1)
    BY <1>1, <1>3 DEF Checked
  <1>5. QED
    BY <1>1, <1>2, <1>4, ReturnsClean

LEMMA RefuseStep ==
    ASSUME IndInv, Refuse
    PROVE  IndInv'
  <1>1. /\ stack # << >> /\ Top.run \in {"list", "callback"} /\ Top.at = "refused"
        /\ trace_recursion' = trace_recursion /\ UNCHANGED <<percpu_buffer, nesting, buffer>>
        /\ stack' = Front(stack)
    BY DEF Refuse, Runs, Return
  <1>2. PICK n \in Nat \ {0} : n = Len(stack)
    BY <1>1, TopType
  <1>3. trace_recursion = Bits(n - 1) \cup (IF Sets(Top) THEN {Top.bit} ELSE {})
    BY <1>2, TopHolds
  <1>4. ~Sets(Top)
    BY <1>1 DEF Sets
  <1>5. trace_recursion' = Bits(n - 1)
    BY <1>1, <1>3, <1>4
  <1>6. QED
    BY <1>1, <1>2, <1>5, ReturnsClean

LEMMA ClearStep ==
    ASSUME IndInv, Clear
    PROVE  IndInv'
  <1>1. /\ stack # << >> /\ Top.run \in {"list", "callback"} /\ Top.at = "body"
        /\ trace_recursion' = trace_recursion /\ UNCHANGED <<percpu_buffer, nesting, buffer>>
    BY DEF Clear, Runs
  <1>2. PICK n \in Nat \ {0} : n = Len(stack)
    BY <1>1, TopType
  <1>3. trace_recursion = Bits(n - 1) \cup (IF Sets(Top) THEN {Top.bit} ELSE {})
    BY <1>2, TopHolds
  <1>4. CASE Top.bit = 0
    <2>1. ~Sets(Top) /\ stack' = Front(stack)
      BY <1>4 DEF Clear, Sets, Return
    <2>2. trace_recursion' = Bits(n - 1)
      BY <1>1, <1>3, <2>1
    <2>3. QED
      BY <1>1, <1>2, <2>1, <2>2, ReturnsClean
  <1>5. CASE Top.bit # 0
    <2>1. /\ Top = stack[n] /\ Top \in FrameState /\ Checked(n)
          /\ nesting' = Cardinality(Taken(n - 1))
          /\ nesting' \in 0 .. MaxNesting /\ buffer' \in [0 .. MaxNesting -> Nat]
          /\ percpu_buffer' \in BOOLEAN
          /\ \A i \in 1 .. n - 1 : stack[i].at = "commit" => buffer'[stack[i].idx] = i
      BY <1>1, <1>2, RecursionTop
    <2>2. Sets(Top) /\ trace_recursion = Bits(n - 1) \cup {Top.bit}
      BY <1>1, <1>3, <1>5 DEF Sets
    <2>3. Top.bit = Bit(Top) /\ Top.bit \notin Bits(n - 1)
      BY <1>1, <1>5, <2>1 DEF Checked
    <2>4. trace_recursion \ {Top.bit} = Bits(n - 1)
      BY <2>2, <2>3
    <2>5. trace_recursion \ {Top.bit} \in SUBSET Nat
      BY NoneAboveList DEF TRACE_LIST_MAX, TRACE_FTRACE_MAX, TRACE_LIST_START, TRACE_FTRACE_START
    <2>6. PICK e \in FrameState : e = [Top EXCEPT !.val = trace_recursion \ {Top.bit}, !.at = "unset"]
      BY <2>1, <2>5 DEF FrameState
    <2>6a. e.ctx = Top.ctx /\ e.run = Top.run
      BY <2>1, <2>6 DEF FrameState
    <2>7. /\ e \in FrameState /\ e.at = "unset" /\ e.ctx = Top.ctx /\ e.run = Top.run
          /\ e.bit = Top.bit /\ e.val = Bits(n - 1)
      BY <2>1, <2>4, <2>6 DEF FrameState
    <2>8. stack' = [stack EXCEPT ![Len(stack)] = e]
      BY <1>2, <1>5, <2>1, <2>6 DEF Clear
    <2>9. e.run = "printk" <=> e.at \in {"get", "index", "fill", "commit"}
      BY <1>1, <2>7
    <2>10. /\ stack'[n] = e /\ Bits(n - 1)' = Bits(n - 1) /\ Inside(n)' = Inside(n)
           /\ Bits(n)' = Bits(n - 1) \cup (IF Sets(e) THEN {e.bit} ELSE {})
           /\ Cardinality(Taken(n)') = Cardinality(Taken(n - 1)) + (IF Takes(e) THEN 1 ELSE 0)
      BY <1>2, <2>6a, <2>8, <2>9, Replaced
    <2>11. Sets(e) /\ ~Takes(e)
      BY <1>1, <1>5, <2>7 DEF Sets, Takes
    <2>12. trace_recursion' = Bits(n)'
      BY <1>1, <2>2, <2>7, <2>10, <2>11
    <2>13. nesting' = Cardinality(Taken(n)')
      <3>1. Cardinality(Taken(n - 1)) \in Nat
        BY TakenFinite
      <3>2. QED
        BY <2>1, <2>10, <2>11, <3>1
    <2>14. Checked(n)' /\ Indexed(n)'
      BY <2>3, <2>7, <2>10 DEF Checked, Indexed, Bit
    <2>15. e.at # "commit"
      BY <2>7
    <2>16. QED
      BY <1>2, <2>1, <2>7, <2>8, <2>9, <2>12, <2>13, <2>14, <2>15, ReplacedInv
  <1>6. QED
    BY <1>4, <1>5

(* The steps of trace_printk, which leave the recursion bits alone.          *)
LEMMA PrintkTop ==
    ASSUME IndInv, NEW n \in Nat \ {0}, n = Len(stack), Top.run = "printk"
    PROVE  /\ Top = stack[n] /\ Top \in FrameState /\ Indexed(n)
           /\ Top.at \in {"get", "index", "fill", "commit"}
           /\ trace_recursion = Bits(n - 1)
           /\ nesting = Cardinality(Taken(n - 1)) + (IF Takes(Top) THEN 1 ELSE 0)
           /\ nesting \in 0 .. MaxNesting /\ Cardinality(Taken(n - 1)) \in Nat
           /\ buffer \in [0 .. MaxNesting -> Nat] /\ percpu_buffer \in BOOLEAN
           /\ \A i \in 1 .. n : stack[i].at = "commit" => buffer[stack[i].idx] = i
  <1>1. /\ Top = stack[n] /\ Top \in FrameState /\ Indexed(n)
        /\ Top.run = "printk" <=> Top.at \in {"get", "index", "fill", "commit"}
        /\ trace_recursion = Bits(n - 1) \cup (IF Sets(Top) THEN {Top.bit} ELSE {})
        /\ nesting = Cardinality(Taken(n - 1)) + (IF Takes(Top) THEN 1 ELSE 0)
        /\ nesting \in 0 .. MaxNesting /\ Cardinality(Taken(n - 1)) \in Nat
        /\ buffer \in [0 .. MaxNesting -> Nat] /\ percpu_buffer \in BOOLEAN
        /\ \A i \in 1 .. n : stack[i].at = "commit" => buffer[stack[i].idx] = i
    BY TopHolds
  <1>2. ~Sets(Top)
    BY DEF Sets
  <1>3. trace_recursion = Bits(n - 1)
    BY <1>1, <1>2
  <1>4. QED
    BY <1>1, <1>3

(* A trace_printk moves on: the bits that are set stay those below.          *)
LEMMA PrintkMoves ==
    ASSUME IndInv, NEW n \in Nat \ {0}, n = Len(stack), NEW e \in FrameState,
           Top.run = "printk", e.ctx = Top.ctx, e.run = Top.run,
           e.at \in {"get", "index", "fill", "commit"},
           stack' = [stack EXCEPT ![Len(stack)] = e],
           UNCHANGED <<trace_recursion, percpu_buffer>>,
           nesting' = Cardinality(Taken(n - 1)) + (IF Takes(e) THEN 1 ELSE 0),
           nesting' \in 0 .. MaxNesting,
           e.at \in {"fill", "commit"} => e.idx = nesting',
           buffer' \in [0 .. MaxNesting -> Nat], e.at = "commit" => buffer'[e.idx] = n,
           \A i \in 1 .. n - 1 : stack[i].at = "commit" => buffer'[stack[i].idx] = i
    PROVE  IndInv'
  <1>1. trace_recursion = Bits(n - 1) /\ percpu_buffer \in BOOLEAN
    BY PrintkTop
  <1>2. e.run = "printk" <=> e.at \in {"get", "index", "fill", "commit"}
    OBVIOUS
  <1>3. /\ stack'[n] = e
        /\ Bits(n)' = Bits(n - 1) \cup (IF Sets(e) THEN {e.bit} ELSE {})
        /\ Cardinality(Taken(n)') = Cardinality(Taken(n - 1)) + (IF Takes(e) THEN 1 ELSE 0)
    BY <1>2, Replaced
  <1>4. trace_recursion' = Bits(n)' /\ nesting' = Cardinality(Taken(n)')
    <2>1. ~Sets(e)
      BY DEF Sets
    <2>2. QED
      BY <1>1, <1>3, <2>1
  <1>5. Checked(n)' /\ Indexed(n)'
    <2>1. Checked(n)'
      BY <1>3 DEF Checked
    <2>2. Indexed(n)'
      BY <1>3, <1>4 DEF Indexed
    <2>3. QED
      BY <2>1, <2>2
  <1>6. percpu_buffer' \in BOOLEAN
    BY <1>1
  <1>7. QED
    BY <1>2, <1>4, <1>5, <1>6, ReplacedInv

LEMMA GetBufStep ==
    ASSUME IndInv, GetBuf
    PROVE  IndInv'
  <1>1. /\ stack # << >> /\ Top.run = "printk" /\ Top.at = "get"
        /\ UNCHANGED <<trace_recursion, percpu_buffer, buffer>>
    BY DEF GetBuf, Runs
  <1>2. PICK n \in Nat \ {0} : n = Len(stack)
    BY <1>1, TopType
  <1>3. ~Takes(Top)
    BY <1>1 DEF Takes
  <1>4. /\ Top = stack[n] /\ Top \in FrameState
        /\ trace_recursion = Bits(n - 1)
        /\ nesting = Cardinality(Taken(n - 1)) /\ nesting \in 0 .. MaxNesting
        /\ buffer \in [0 .. MaxNesting -> Nat] /\ percpu_buffer \in BOOLEAN
        /\ \A i \in 1 .. n - 1 : stack[i].at = "commit" => buffer[stack[i].idx] = i
    <2>1. /\ Cardinality(Taken(n - 1)) \in Nat
          /\ nesting = Cardinality(Taken(n - 1)) + (IF Takes(Top) THEN 1 ELSE 0)
      BY <1>1, <1>2, PrintkTop
    <2>2. nesting = Cardinality(Taken(n - 1))
      BY <1>3, <2>1
    <2>3. QED
      BY <1>1, <1>2, <2>2, PrintkTop
  <1>5. CASE ~percpu_buffer \/ nesting >= MaxNesting
    <2>1. /\ stack' = Front(stack) /\ trace_recursion' = Bits(n - 1)
          /\ nesting' = Cardinality(Taken(n - 1)) /\ nesting' \in 0 .. MaxNesting
          /\ percpu_buffer' \in BOOLEAN /\ buffer' \in [0 .. MaxNesting -> Nat]
          /\ \A i \in 1 .. n - 1 : stack[i].at = "commit" => buffer'[stack[i].idx] = i
      BY <1>1, <1>4, <1>5 DEF GetBuf, Return
    <2>2. QED
      BY <1>2, <2>1, PoppedInv
  <1>6. CASE percpu_buffer /\ nesting < MaxNesting
    <2>1. PICK e \in FrameState : e = [Top EXCEPT !.at = "index"]
      BY <1>4 DEF FrameState
    <2>2. e.ctx = Top.ctx /\ e.run = Top.run /\ e.at = "index"
      BY <1>4, <2>1 DEF FrameState
    <2>3. ~(nesting >= MaxNesting)
      BY <1>4, <1>6, BoundAssumption
    <2>4. stack' = [stack EXCEPT ![Len(stack)] = e] /\ nesting' = nesting + 1
      BY <1>2, <1>4, <1>6, <2>1, <2>3 DEF GetBuf, Goto, NestingUp
    <2>5. Takes(e)
      BY <2>2 DEF Takes
    <2>6. /\ nesting' = Cardinality(Taken(n - 1)) + (IF Takes(e) THEN 1 ELSE 0)
          /\ nesting' \in 0 .. MaxNesting
      BY <1>4, <1>6, <2>4, <2>5, BoundAssumption
    <2>7. /\ buffer' \in [0 .. MaxNesting -> Nat]
          /\ \A i \in 1 .. n - 1 : stack[i].at = "commit" => buffer'[stack[i].idx] = i
      BY <1>1, <1>4
    <2>8. e.at \in {"get", "index", "fill", "commit"} /\ e.at \notin {"fill", "commit"}
      BY <2>2
    <2>9. QED
      BY <1>1, <1>2, <2>2, <2>4, <2>6, <2>7, <2>8, PrintkMoves
  <1>7. QED
    BY <1>4, <1>5, <1>6, BoundAssumption

LEMMA BufIndexStep ==
    ASSUME IndInv, BufIndex
    PROVE  IndInv'
  <1>1. /\ stack # << >> /\ Top.run = "printk" /\ Top.at = "index"
        /\ UNCHANGED <<trace_recursion, percpu_buffer, nesting, buffer>>
    BY DEF BufIndex, Runs
  <1>2. PICK n \in Nat \ {0} : n = Len(stack)
    BY <1>1, TopType
  <1>3. /\ Top = stack[n] /\ Top \in FrameState
        /\ nesting = Cardinality(Taken(n - 1)) + (IF Takes(Top) THEN 1 ELSE 0)
        /\ nesting \in 0 .. MaxNesting
        /\ buffer \in [0 .. MaxNesting -> Nat]
        /\ \A i \in 1 .. n : stack[i].at = "commit" => buffer[stack[i].idx] = i
    BY <1>1, <1>2, PrintkTop
  <1>4. nesting \in Nat
    BY <1>3
  <1>5. PICK e \in FrameState : e = [Top EXCEPT !.idx = nesting, !.at = "fill"]
    BY <1>3, <1>4 DEF FrameState
  <1>6. e.ctx = Top.ctx /\ e.run = Top.run /\ e.at = "fill" /\ e.idx = nesting
    BY <1>3, <1>5 DEF FrameState
  <1>7. stack' = [stack EXCEPT ![Len(stack)] = e]
    BY <1>2, <1>3, <1>5 DEF BufIndex
  <1>8. Takes(Top) /\ Takes(e)
    BY <1>1, <1>6 DEF Takes
  <1>9. /\ nesting' = Cardinality(Taken(n - 1)) + (IF Takes(e) THEN 1 ELSE 0)
        /\ nesting' \in 0 .. MaxNesting /\ e.idx = nesting'
        /\ e.at \in {"get", "index", "fill", "commit"} /\ e.at # "commit"
        /\ buffer' \in [0 .. MaxNesting -> Nat]
        /\ \A i \in 1 .. n - 1 : stack[i].at = "commit" => buffer'[stack[i].idx] = i
    BY <1>1, <1>3, <1>6, <1>8
  <1>10. QED
    BY <1>1, <1>2, <1>6, <1>7, <1>9, PrintkMoves

(* No trace_printk below writes to the buffer of the top.                    *)
LEMMA OwnBuffer ==
    ASSUME IndInv, NEW n \in Nat \ {0}, n = Len(stack), Top.run = "printk",
           Top.at \in {"fill", "commit"}
    PROVE  /\ Top.idx = nesting /\ nesting \in 0 .. MaxNesting
           /\ \A i \in 1 .. n - 1 : stack[i].at = "commit" => stack[i].idx # Top.idx
  <1>1. Top = stack[n] /\ Indexed(n) /\ nesting \in 0 .. MaxNesting
    BY PrintkTop
  <1>2. Takes(stack[n])
    BY <1>1 DEF Takes
  <1>3. Top.idx = Cardinality(Taken(n)) /\ nesting = Cardinality(Taken(n))
    BY <1>1 DEF Indexed, IndInv
  <1>4. ASSUME NEW i \in 1 .. n - 1, stack[i].at = "commit" PROVE stack[i].idx # Top.idx
    <2>1. Indexed(i)
      BY DEF IndInv, ActivityOK
    <2>2. stack[i].idx = Cardinality(Taken(i))
      BY <1>4, <2>1 DEF Indexed
    <2>3. Cardinality(Taken(i)) < Cardinality(Taken(n))
      BY <1>2, TakenLess
    <2>4. Cardinality(Taken(i)) \in Nat /\ Cardinality(Taken(n)) \in Nat
      BY TakenFinite
    <2>5. QED
      BY <1>3, <2>2, <2>3, <2>4
  <1>5. QED
    BY <1>1, <1>3, <1>4

LEMMA FillStep ==
    ASSUME IndInv, Fill
    PROVE  IndInv'
  <1>1. /\ stack # << >> /\ Top.run = "printk" /\ Top.at = "fill"
        /\ UNCHANGED <<trace_recursion, percpu_buffer, nesting>>
    BY DEF Fill, Runs
  <1>2. PICK n \in Nat \ {0} : n = Len(stack)
    BY <1>1, TopType
  <1>3. /\ Top = stack[n] /\ Top \in FrameState
        /\ nesting = Cardinality(Taken(n - 1)) + (IF Takes(Top) THEN 1 ELSE 0)
        /\ nesting \in 0 .. MaxNesting
        /\ buffer \in [0 .. MaxNesting -> Nat]
        /\ \A i \in 1 .. n : stack[i].at = "commit" => buffer[stack[i].idx] = i
    BY <1>1, <1>2, PrintkTop
  <1>4. /\ Top.idx = nesting
        /\ \A i \in 1 .. n - 1 : stack[i].at = "commit" => stack[i].idx # Top.idx
    BY <1>1, <1>2, OwnBuffer
  <1>5. PICK e \in FrameState : e = [Top EXCEPT !.at = "commit"]
    BY <1>3 DEF FrameState
  <1>6. e.ctx = Top.ctx /\ e.run = Top.run /\ e.at = "commit" /\ e.idx = Top.idx
    BY <1>3, <1>5 DEF FrameState
  <1>7. /\ stack' = [stack EXCEPT ![Len(stack)] = e]
        /\ buffer' = [buffer EXCEPT ![Top.idx] = n]
    BY <1>2, <1>3, <1>5 DEF Fill, Goto
  <1>8. Takes(Top) /\ Takes(e)
    BY <1>1, <1>6 DEF Takes
  <1>9. /\ buffer' \in [0 .. MaxNesting -> Nat] /\ buffer'[e.idx] = n
        /\ \A i \in 1 .. n - 1 : stack[i].at = "commit" => buffer'[stack[i].idx] = i
    BY <1>3, <1>4, <1>6, <1>7
  <1>10. /\ nesting' = Cardinality(Taken(n - 1)) + (IF Takes(e) THEN 1 ELSE 0)
         /\ nesting' \in 0 .. MaxNesting /\ e.idx = nesting'
         /\ e.at \in {"get", "index", "fill", "commit"}
    BY <1>1, <1>3, <1>4, <1>6, <1>8
  <1>11. QED
    BY <1>1, <1>2, <1>6, <1>7, <1>9, <1>10, PrintkMoves

LEMMA CommitStep ==
    ASSUME IndInv, CommitAndPut
    PROVE  IndInv'
  <1>1. /\ stack # << >> /\ Top.run = "printk" /\ Top.at = "commit"
        /\ UNCHANGED <<trace_recursion, percpu_buffer>>
        /\ stack' = Front(stack) /\ nesting' = nesting - 1
        /\ buffer' = [buffer EXCEPT ![Top.idx] = 0]
    BY DEF CommitAndPut, Runs, Return
  <1>2. PICK n \in Nat \ {0} : n = Len(stack)
    BY <1>1, TopType
  <1>3. /\ trace_recursion = Bits(n - 1) /\ percpu_buffer \in BOOLEAN
        /\ nesting = Cardinality(Taken(n - 1)) + (IF Takes(Top) THEN 1 ELSE 0)
        /\ nesting \in 0 .. MaxNesting /\ Cardinality(Taken(n - 1)) \in Nat
        /\ buffer \in [0 .. MaxNesting -> Nat]
        /\ \A i \in 1 .. n : stack[i].at = "commit" => buffer[stack[i].idx] = i
    BY <1>1, <1>2, PrintkTop
  <1>4. /\ Top.idx = nesting
        /\ \A i \in 1 .. n - 1 : stack[i].at = "commit" => stack[i].idx # Top.idx
    BY <1>1, <1>2, OwnBuffer
  <1>5. Takes(Top)
    BY <1>1 DEF Takes
  <1>6. nesting' = Cardinality(Taken(n - 1)) /\ nesting' \in 0 .. MaxNesting
    BY <1>1, <1>3, <1>5, BoundAssumption
  <1>7. /\ buffer' \in [0 .. MaxNesting -> Nat]
        /\ \A i \in 1 .. n - 1 : stack[i].at = "commit" => buffer'[stack[i].idx] = i
    BY <1>1, <1>3, <1>4
  <1>8. trace_recursion' = Bits(n - 1) /\ percpu_buffer' \in BOOLEAN
    BY <1>1, <1>3
  <1>9. QED
    BY <1>1, <1>2, <1>6, <1>7, <1>8, PoppedInv

-----------------------------------------------------------------------------

LEMMA InitInvariant == Init => IndInv
  <1> SUFFICES ASSUME Init PROVE IndInv
    OBVIOUS
  <1>1. stack = << >> /\ Len(stack) = 0 /\ DOMAIN stack = {} /\ 1 .. 0 = {}
    BY DEF Init
  <1>2. Bits(0) = {} /\ Taken(0) = {}
    BY <1>1 DEF Bits, Taken
  <1>3. Cardinality({}) = 0
    BY FS_EmptySet
  <1>4. StackType
    BY <1>1, BoundAssumption DEF Init, StackType
  <1>5. QED
    BY <1>1, <1>2, <1>3, <1>4 DEF Init, IndInv, PrintkIntact

(* Nothing that the invariant speaks of changes.                             *)
LEMMA Stutters ==
    ASSUME IndInv, UNCHANGED <<stack, trace_recursion, nesting, buffer>>,
           percpu_buffer' \in BOOLEAN
    PROVE  IndInv'
  <1>1. StackType' /\ PrintkIntact'
    BY DEF IndInv, StackType, PrintkIntact
  <1>2. PICK n \in Nat : n = Len(stack) /\ n = Len(stack')
    BY DEF IndInv, StackType
  <1>3. /\ \A m \in 0 .. n : Bits(m)' = Bits(m) /\ Taken(m)' = Taken(m)
        /\ \A i \in 1 .. n : ActivityOK(i) => ActivityOK(i)'
    BY <1>2, Bottom
  <1>4. QED
    BY <1>1, <1>2, <1>3 DEF IndInv

LEMMA StepInvariant == IndInv /\ [Next]_vars => IndInv'
  <1> SUFFICES ASSUME IndInv, [Next]_vars PROVE IndInv'
    OBVIOUS
  <1>1. CASE \E ctx \in Ctx, run \in {"list", "callback", "printk"} : Interrupt(ctx, run)
    BY <1>1, InterruptStep DEF Run
  <1>2. CASE \E run \in {"list", "callback"} : Call(run)
    BY <1>2, CallStep
  <1>3. CASE Test \/ Set \/ Clear \/ Unset \/ Refuse
    BY <1>3, TestStep, SetStep, ClearStep, UnsetStep, RefuseStep
  <1>4. CASE InitBuffers
    BY <1>4, Stutters DEF InitBuffers
  <1>5. CASE GetBuf \/ BufIndex \/ Fill \/ CommitAndPut
    BY <1>5, GetBufStep, BufIndexStep, FillStep, CommitStep
  <1>6. CASE UNCHANGED vars
    BY <1>6, Stutters DEF vars, IndInv, StackType
  <1>7. QED
    BY <1>1, <1>2, <1>3, <1>4, <1>5, <1>6 DEF Next

LEMMA Invariance == Spec => []IndInv
  BY InitInvariant, StepInvariant, PTL DEF Spec

(* trace_test_and_set_recursion, trace_clear_recursion: the list function is *)
(* refused only inside itself in the same context, and never enters twice.   *)
THEOREM RecursionCorrect == Spec => []RefusedExactly
  <1>1. IndInv => RefusedExactly
    <2> SUFFICES ASSUME IndInv PROVE RefusedExactly
      OBVIOUS
    <2>1. DOMAIN stack = 1 .. Len(stack)
      BY DEF IndInv, StackType
    <2>2. \A i \in 1 .. Len(stack) : Checked(i)
      BY DEF IndInv, ActivityOK
    <2>3. QED
      BY <2>1, <2>2 DEF RefusedExactly, Checked
  <1>2. QED
    BY <1>1, Invariance, PTL

(* get_trace_buf, put_trace_buf: what a trace_printk copies to its event is  *)
(* what it formatted, for any depth of interrupts.                           *)
THEOREM PrintkCorrect == Spec => []PrintkIntact
  <1>1. IndInv => PrintkIntact
    BY DEF IndInv
  <1>2. QED
    BY <1>1, Invariance, PTL
=============================================================================
