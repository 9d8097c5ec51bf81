----------------------------- MODULE EventChannel -----------------------------
(***************************************************************************)
(* What the library promises to whoever consumes its event queue: the      *)
(* reports of the run loop arrive in the order they were made, and a gap   *)
(* in the numbering of the reports is always announced by an overflow      *)
(* event.  EventQueue implements it with a bounded queue that is cleared   *)
(* when it is full.                                                        *)
(***************************************************************************)
EXTENDS Naturals

VARIABLES
    reported,   \* how many reports the run loop has made
    last        \* the event the consumer took last: its kind and its report

vars == <<reported, last>>

Overflows == {"os_overflow", "queue_overflow"}
Forced == {"failure", "termination"}
Plain == {"change", "unknown"} \cup Forced

Init ==
    /\ reported = 0
    /\ last = [kind |-> "start", id |-> 0]

Report == reported' = reported + 1 /\ UNCHANGED last

(* The next report arrives, nothing was lost since the last one.           *)
DeliverNext ==
    /\ last.id < reported
    /\ \E kind \in Plain : last' = [kind |-> kind, id |-> last.id + 1]
    /\ UNCHANGED reported

(* An overflow arrives: it stands for every report since the last event.   *)
DeliverOverflow ==
    /\ \E id \in last.id + 1 .. reported, kind \in Overflows :
          last' = [kind |-> kind, id |-> id]
    /\ UNCHANGED reported

(* A failure or the termination still arrives when its own report is the   *)
(* one that found the queue full.                                          *)
DeliverForced ==
    /\ last.kind = "queue_overflow"
    /\ \E kind \in Forced : last' = [kind |-> kind, id |-> last.id]
    /\ UNCHANGED reported

Next == Report \/ DeliverNext \/ DeliverOverflow \/ DeliverForced

(* A report is not held back for ever: it arrives, or an overflow does.    *)
Spec == Init /\ [][Next]_vars /\ WF_vars(DeliverNext \/ DeliverOverflow)
===============================================================================
