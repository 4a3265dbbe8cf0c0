-------------------------- MODULE SavedCmdlinesSeq --------------------------
(***************************************************************************)
(* A reader of the file saved_cmdlines, composed with the recorders of     *)
(* SavedCmdlines.  The seq_file layer copies the listing out in chunks:    *)
(* every chunk takes trace_cmdline_lock in saved_cmdlines_start, walks the *)
(* slots from the position reached so far, and drops the lock in           *)
(* saved_cmdlines_stop.  Between two chunks the ring moves on.             *)
(***************************************************************************)
EXTENDS SavedCmdlines, FiniteSets, FiniteSetsExt

CONSTANT NoSlot         \* the NULL that ends a walk over the slots

ASSUME SlotAssumption == NoSlot \notin Int

VARIABLES
    reader,             \* what the reader does and where it is
    stay                \* history: <<slot, pid>> bound ever since the file was opened

seqVars == <<vars, reader, stay>>

(* at: the file is closed; between two chunks; inside a chunk whose walk     *)
(* found no slot ("none"), a first one or more; or read to its end.  pos     *)
(* counts the entries shown, ptr is the walk's slot, and (history) shown     *)
(* holds the <<slot, pid>> pairs that were printed.                          *)
Closed == [at |-> "closed", pos |-> 0, ptr |-> NoSlot, shown |-> {}]

Occupied == {s \in Slot : map_cmdline_to_pid[s] # NoMap}

(* Mutant: the walk leaves slot 0 out, which the ring fills last.            *)
FromSkipsFirst(s) == {t \in Occupied : t >= s /\ t # 0}
From(s) == {t \in Occupied : t >= s}

(* saved_cmdlines_next: the next occupied slot at or after s.                *)
NextOccupied(s) == IF From(s) = {} THEN NoSlot ELSE Min(From(s))

(* saved_cmdlines_start walks over the first pos occupied slots again.       *)
StartAt(pos) ==
    IF pos >= Cardinality(From(0)) THEN NoSlot
    ELSE CHOOSE s \in From(0) : Cardinality({t \in From(0) : t < s}) = pos

SeqInit == Init /\ reader = Closed /\ stay = {}

Bindings == {<<s, map_cmdline_to_pid[s]>> : s \in Occupied}

OpenList ==
    /\ reader.at = "closed"
    /\ reader' = [Closed EXCEPT !.at = "between"]
    /\ stay' = Bindings
    /\ UNCHANGED vars

InChunk == reader.at \in {"none", "first", "more"}

(* A chunk starts at the entry after those shown so far.                     *)
ListStart ==
    /\ reader.at = "between"
    /\ FindLock
    /\ reader' = [reader EXCEPT !.ptr = StartAt(reader.pos),
                      !.at = IF StartAt(reader.pos) = NoSlot THEN "none" ELSE "first"]
    /\ UNCHANGED stay

(* saved_cmdlines_show, then saved_cmdlines_next.                            *)
ListShow ==
    /\ InChunk /\ reader.ptr # NoSlot
    /\ reader' = [reader EXCEPT !.at = "more", !.pos = @ + 1,
                      !.ptr = NextOccupied(reader.ptr + 1),
                      !.shown = @ \cup {<<reader.ptr, map_cmdline_to_pid[reader.ptr]>>}]
    /\ UNCHANGED <<vars, stay>>

(* saved_cmdlines_stop, when the chunk is full or the walk is over; only a   *)
(* chunk that shows nothing tells the reader of the end.                     *)
ListStop ==
    /\ reader.at \in {"none", "more"}
    /\ FindUnlock
    /\ reader' = [reader EXCEPT !.at = IF @ = "none" THEN "eof" ELSE "between",
                      !.ptr = NoSlot]
    /\ UNCHANGED stay

CloseList ==
    /\ reader.at \in {"between", "eof"}
    /\ reader' = Closed /\ stay' = {}
    /\ UNCHANGED vars

(* A step of the recorders, of the task tree or of a resize.                 *)
RingStep ==
    /\ \/ TaskStep
       \/ \E c \in Cpu : Record(c)
       \/ \E n \in 1 .. MaxNum : Resize(n)
    /\ stay' = {e \in stay : e[1] < cmdline_num' /\ map_cmdline_to_pid'[e[1]] = e[2]}
    /\ UNCHANGED reader

SeqNext ==
    \/ RingStep
    \/ OpenList
    \/ ListStart
    \/ ListShow
    \/ ListStop
    \/ CloseList

SeqSpec == SeqInit /\ [][SeqNext]_seqVars

-----------------------------------------------------------------------------

(* A listing read to its end has printed every entry that was bound before   *)
(* it was opened and stayed bound until now, whatever was bound, evicted or  *)
(* resized between its chunks.                                               *)
ListingComplete == reader.at = "eof" => stay \subseteq reader.shown
=============================================================================
