----------------------------- MODULE TraceQueue -----------------------------
(***************************************************************************)
(* What the consuming readers of a trace promise: every event recorded on  *)
(* a CPU is handed to one reader, once, in the order of recording, unless  *)
(* the producer overwrites it first.  TraceReaders implements this.        *)
(***************************************************************************)
EXTENDS Naturals, Sequences, SequencesExt

CONSTANTS Reader, Cpu

VARIABLES
    recorded,   \* number of events recorded; event n is the nth
    pending,    \* per CPU, the events that nobody has got yet
    delivered   \* per reader, what it was given

vars == <<recorded, pending, delivered>>

Init ==
    /\ recorded = 0
    /\ pending = [c \in Cpu |-> << >>]
    /\ delivered = [r \in Reader |-> << >>]

Record(c) ==
    /\ recorded' = recorded + 1
    /\ pending' = [pending EXCEPT ![c] = Append(@, recorded + 1)]
    /\ UNCHANGED delivered

(* The producer finds the buffer full: one of the events is lost.            *)
Overwrite(c) ==
    /\ recorded' = recorded + 1
    /\ \E i \in 1 .. Len(pending[c]) :
          pending' = [pending EXCEPT ![c] = Append(RemoveAt(@, i), recorded + 1)]
    /\ UNCHANGED delivered

(* A reader is given the n oldest events of a CPU.                           *)
Deliver(r, c, n) ==
    /\ delivered' = [delivered EXCEPT ![r] = @ \o SubSeq(pending[c], 1, n)]
    /\ pending' = [pending EXCEPT ![c] = SubSeq(@, n + 1, Len(@))]
    /\ UNCHANGED recorded

Next ==
    \/ \E c \in Cpu : Record(c) \/ Overwrite(c)
    \/ \E r \in Reader, c \in Cpu : \E n \in 1 .. Len(pending[c]) : Deliver(r, c, n)

Spec == Init /\ [][Next]_vars
=============================================================================
