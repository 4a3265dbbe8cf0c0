--------------------------- MODULE TraceContexts ----------------------------
(***************************************************************************)
(* What one CPU does to trace from nested contexts, a task that a softirq, *)
(* an interrupt and an NMI can interrupt at any step: the recursion bits   *)
(* of function tracing (linux/ftrace/trace/trace.h) and the per-CPU        *)
(* buffers of trace_printk (linux/ftrace/trace/trace.c).  Neither takes a  *)
(* lock; both rely on an interrupt giving back what it took.               *)
(***************************************************************************)
EXTENDS Integers, Sequences, SequencesExt, FiniteSets

CONSTANTS
    MaxDepth,   \* bound: activities on the stack
    MaxNesting  \* buffers of a CPU, 4 in the code

ASSUME BoundAssumption == MaxDepth \in Nat \ {0} /\ MaxNesting \in Nat \ {0}

VARIABLES
    stack,           \* what runs and what it interrupted or was called from
    trace_recursion, \* the bits of current->trace_recursion that are set
    percpu_buffer,   \* whether trace_percpu_buffer is allocated
    nesting,         \* its nesting on this CPU
    buffer           \* who wrote each buffer last, its place on the stack; 0 for nobody

vars == <<stack, trace_recursion, percpu_buffer, nesting, buffer>>

(* A context's level: 0 for tasks, 1 for softirqs and for what a task does   *)
(* with bottom halves disabled, 2 for interrupts, 3 for NMIs.  The kernel    *)
(* counts both kinds of level 1 in one place, so that in_interrupt() is true *)
(* for both, and no softirq comes while a task has them disabled.            *)
Ctx == 0 .. 3

TRACE_FTRACE_START == 4
TRACE_LIST_START   == 8
TRACE_FTRACE_MAX   == TRACE_FTRACE_START .. TRACE_FTRACE_START + 3
TRACE_LIST_MAX     == TRACE_FTRACE_MAX \cup (TRACE_LIST_START .. TRACE_LIST_START + 3)

(* The list function goes through the callbacks of a traced function.  A     *)
(* callback also runs by itself.  Each checks for recursion with its bits.   *)
Start == [list |-> TRACE_LIST_START, callback |-> TRACE_FTRACE_START]

(* Mutant: the list function's check is skipped like a callback's.           *)
MaxOfCallbacks(run) == TRACE_FTRACE_MAX
CheckMax(run) == IF run = "list" THEN TRACE_LIST_MAX ELSE TRACE_FTRACE_MAX

(* bit: the recursion bit taken, 0 for none.  val: trace_recursion as it was *)
(* read.  idx: the buffer of a trace_printk.                                 *)
Frame(ctx, run) == [ctx |-> ctx, run |-> run, at |-> IF run = "printk" THEN "get" ELSE "test",
                    bit |-> 0, val |-> {}, idx |-> 0]

Init ==
    /\ stack = << >>
    /\ trace_recursion = {}
    /\ percpu_buffer \in BOOLEAN
    /\ nesting = 0
    /\ buffer = [i \in 0 .. MaxNesting |-> 0]

Top  == Last(stack)
Runs(run, at) == stack # << >> /\ Top.run \in run /\ Top.at = at
Goto(at) == stack' = [stack EXCEPT ![Len(stack)].at = at]
Return   == stack' = Front(stack)

-----------------------------------------------------------------------------
(* An interrupt of a higher level comes between any two steps, and its       *)
(* handler calls a traced function or trace_printk; or the task disables     *)
(* bottom halves, which raises its level to 1, and calls one.                *)
Interrupt(ctx, run) ==
    /\ Len(stack) < MaxDepth
    /\ IF stack = << >> THEN TRUE ELSE Top.ctx < ctx
    /\ stack' = Append(stack, Frame(ctx, run))
    /\ UNCHANGED <<trace_recursion, percpu_buffer, nesting, buffer>>

(* The list function calls a callback; a callback, or the formatting of a    *)
(* trace_printk, calls a function that is traced itself.                     *)
Call(run) ==
    /\ Len(stack) < MaxDepth
    /\ \/ Runs({"list"}, "body") /\ run = "callback"
       \/ Runs({"callback"}, "body") /\ run \in {"list", "callback"}
       \/ Runs({"printk"}, "fill") /\ run \in {"list", "callback"}
    /\ stack' = Append(stack, Frame(Top.ctx, run))
    /\ UNCHANGED <<trace_recursion, percpu_buffer, nesting, buffer>>

-----------------------------------------------------------------------------
(* trace_test_and_set_recursion and trace_clear_recursion.                   *)

in_nmi     == \E i \in DOMAIN stack : stack[i].ctx = 3
in_irq     == \E i \in DOMAIN stack : stack[i].ctx = 2
in_softirq == \E i \in DOMAIN stack : stack[i].ctx = 1

(* Mutant: interrupts are asked for before NMIs.                             *)
context_bit_irq_first == CASE in_irq -> 1 [] ~in_irq /\ in_nmi -> 0
                           [] ~in_irq /\ ~in_nmi /\ in_softirq -> 2 [] OTHER -> 3
trace_get_context_bit == CASE in_nmi -> 0
                           [] ~in_nmi /\ in_irq -> 1
                           [] ~in_nmi /\ ~in_irq /\ in_softirq -> 2
                           [] OTHER -> 3

(* "A previous recursion check was made": a bit above those of this check    *)
(* is set, and the check is skipped.                                         *)
Test ==
    LET val == trace_recursion
        bit == trace_get_context_bit + Start[Top.run]
    IN /\ Runs({"list", "callback"}, "test")
       /\ stack' = [stack EXCEPT ![Len(stack)] =
            IF ~(val \subseteq CheckMax(Top.run)) THEN [@ EXCEPT !.at = "body"]
            ELSE IF bit \in val THEN [@ EXCEPT !.at = "refused"]
            ELSE [@ EXCEPT !.at = "set", !.bit = bit, !.val = val \cup {bit}]]
       /\ UNCHANGED <<trace_recursion, percpu_buffer, nesting, buffer>>

Set ==
    /\ Runs({"list", "callback"}, "set")
    /\ trace_recursion' = Top.val
    /\ Goto("body")
    /\ UNCHANGED <<percpu_buffer, nesting, buffer>>

(* The body is over.  Nothing is cleared when the check was skipped.         *)
Clear ==
    /\ Runs({"list", "callback"}, "body")
    /\ IF Top.bit = 0 THEN Return
       ELSE stack' = [stack EXCEPT ![Len(stack)].val = trace_recursion \ {Top.bit},
                                   ![Len(stack)].at = "unset"]
    /\ UNCHANGED <<trace_recursion, percpu_buffer, nesting, buffer>>

Unset ==
    /\ Runs({"list", "callback"}, "unset")
    /\ trace_recursion' = Top.val
    /\ Return
    /\ UNCHANGED <<percpu_buffer, nesting, buffer>>

Refuse ==
    /\ Runs({"list", "callback"}, "refused")
    /\ Return
    /\ UNCHANGED <<trace_recursion, percpu_buffer, nesting, buffer>>

-----------------------------------------------------------------------------
(* trace_vbprintk and __trace_array_vprintk.                                 *)

(* trace_printk_init_buffers.                                                *)
InitBuffers ==
    /\ ~percpu_buffer /\ percpu_buffer' = TRUE
    /\ UNCHANGED <<stack, trace_recursion, nesting, buffer>>

(* Mutant: the nesting is not counted.                                       *)
NestingKept == nesting
NestingUp   == nesting + 1

(* get_trace_buf: nothing is printed without a buffer or when all are taken. *)
GetBuf ==
    /\ Runs({"printk"}, "get")
    /\ IF ~percpu_buffer \/ nesting >= MaxNesting
       THEN Return /\ UNCHANGED nesting
       ELSE nesting' = NestingUp /\ Goto("index")
    /\ UNCHANGED <<trace_recursion, percpu_buffer, buffer>>

(* &buffer->buffer[buffer->nesting][0], after the increment.                 *)
BufIndex ==
    /\ Runs({"printk"}, "index")
    /\ stack' = [stack EXCEPT ![Len(stack)].idx = nesting, ![Len(stack)].at = "fill"]
    /\ UNCHANGED <<trace_recursion, percpu_buffer, nesting, buffer>>

(* The message is formatted into the buffer.                                 *)
Fill ==
    /\ Runs({"printk"}, "fill")
    /\ buffer' = [buffer EXCEPT ![Top.idx] = Len(stack)]
    /\ Goto("commit")
    /\ UNCHANGED <<trace_recursion, percpu_buffer, nesting>>

(* It is copied to the event that was reserved, unless there was no room for *)
(* one.  put_trace_buf gives the buffer back.                                *)
CommitAndPut ==
    /\ Runs({"printk"}, "commit")
    /\ nesting' = nesting - 1
    /\ buffer' = [buffer EXCEPT ![Top.idx] = 0]
    /\ Return
    /\ UNCHANGED <<trace_recursion, percpu_buffer>>

-----------------------------------------------------------------------------
Next ==
    \/ \E ctx \in Ctx, run \in {"list", "callback", "printk"} : Interrupt(ctx, run)
    \/ \E run \in {"list", "callback"} : Call(run)
    \/ Test \/ Set \/ Clear \/ Unset \/ Refuse
    \/ InitBuffers \/ GetBuf \/ BufIndex \/ Fill \/ CommitAndPut

Spec == Init /\ [][Next]_vars

-----------------------------------------------------------------------------
(* The list function is refused exactly when it already runs in the same     *)
(* context: an interrupt's events are not lost to a task that was tracing,   *)
(* and no context goes through the list twice.  A callback is only refused   *)
(* inside another of its context.                                            *)
Inside(i) == {j \in 1 .. i - 1 : /\ stack[j].ctx = stack[i].ctx /\ stack[j].run = stack[i].run
                                 /\ stack[j].at = "body"}
RefusedExactly == \A i \in DOMAIN stack :
    /\ stack[i].at = "refused" => Inside(i) # {}
    /\ stack[i].run = "list" /\ stack[i].at \in {"set", "body"} => Inside(i) = {}

(* What a trace_printk copies to its event is what it formatted, whatever    *)
(* interrupts printed in between.                                            *)
PrintkIntact == \A i \in DOMAIN stack : stack[i].at = "commit" => buffer[stack[i].idx] = i

(* A trace_printk writes to one of the buffers, which are numbered from 0:   *)
(* "if we're nested too deeply, then this returns NULL" (get_trace_buf).     *)
IndexInBuffer == \A i \in DOMAIN stack : stack[i].idx < MaxNesting

(* "The recursion that we are protecting against will go through the same    *)
(* steps again" (trace.h): a callback is not entered again in its context.   *)
(* It does not hold: the bit that makes a callback skip its check may be of  *)
(* another context, or of a list function that the recursion bypasses.       *)
CallbackOnce == \A i \in DOMAIN stack :
    stack[i].run = "callback" /\ stack[i].at \in {"set", "body"} => Inside(i) = {}
=============================================================================
