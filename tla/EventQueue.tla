------------------------------ MODULE EventQueue ------------------------------
(***************************************************************************)
(* The callback of AbstractFileEventFunctions.java between the run loop,   *)
(* which reports events, and the user's thread, which takes them from a    *)
(* BlockingQueue.  Every call on the queue is atomic, the callback is not: *)
(* between two of its calls the consumer may take events.  Only the run    *)
(* loop's thread reports, one report at a time.                            *)
(*                                                                         *)
(* An event carries the number of the report it was made for, so that what *)
(* the consumer has not seen can be told from what it has.                 *)
(***************************************************************************)
EXTENDS Naturals, Sequences

CONSTANTS
    Capacity,    \* of the BlockingQueue the user passes to newWatcher
    Paths,       \* the paths events are about
    NoPath,      \* Java's null path
    MaxReports   \* bound of a run: how many reports the run loop makes

(* A BlockingQueue has room for an element; the javadoc of newWatcher asks *)
(* for two, which only the theorems and runs that need it assume.          *)
ASSUME CapacityAssumption == Capacity \in Nat \ {0}
ASSUME PathsAssumption == NoPath \notin Paths

VARIABLES
    queue,   \* the BlockingQueue
    pc,      \* the next call the callback makes on it
    call,    \* the event the callback in progress was called for
    n,       \* how many reports have been made
    last     \* the event the consumer took last

vars == <<queue, pc, call, n, last>>

Overflows == {"os_overflow", "queue_overflow"}
Forced == {"failure", "termination"}
Kinds == {"change", "unknown"} \cup Forced \cup Overflows

Events == [kind : Kinds, path : Paths \cup {NoPath}, id : Nat]
Event(kind, path, id) == [kind |-> kind, path |-> path, id |-> id]
Start == Event("start", NoPath, 0)

Init ==
    /\ queue = <<>>
    /\ pc = "idle"
    /\ call = Start
    /\ n = 0
    /\ last = Start

-------------------------------------------------------------------------------
(* The run loop's thread.                                                  *)

Report(kind, path, step) ==
    /\ pc = "idle"
    /\ n < MaxReports
    /\ n' = n + 1
    /\ call' = Event(kind, path, n + 1)
    /\ pc' = step
    /\ UNCHANGED <<queue, last>>

ReportChangeEvent == \E path \in Paths : Report("change", path, "offer")
ReportUnknownEvent == \E path \in Paths : Report("unknown", path, "offer")
ReportFailure == Report("failure", NoPath, "offer")
ReportTermination == Report("termination", NoPath, "offer")

(* The operating system lost events: signalOverflow without an offer.      *)
ReportOverflow ==
    \E path \in Paths \cup {NoPath} : Report("os_overflow", path, "clear")

(* The thread ends when reportTermination returns.                         *)
Return == IF call.kind = "termination" THEN "done" ELSE "idle"

(* Fault: an unbounded add instead of an offer.                            *)
AddUnbounded(event) == queue' = Append(queue, event)

(* BlockingQueue.offer: the event is refused when the queue is full.       *)
Offer(event) ==
    queue' = IF Len(queue) < Capacity THEN Append(queue, event) ELSE queue

(* Fault: a refused event is ignored.                                      *)
QueueEventIgnored ==
    /\ pc = "offer"
    /\ Offer(call)
    /\ pc' = Return
    /\ UNCHANGED <<call, n, last>>

QueueEvent ==
    /\ pc = "offer"
    /\ Offer(call)
    /\ pc' = IF Len(queue) < Capacity THEN Return ELSE "clear"
    /\ UNCHANGED <<call, n, last>>

(* Fault: room is made for one event only.                                 *)
RemoveOldest ==
    /\ pc = "clear"
    /\ queue' = IF queue = <<>> THEN <<>> ELSE Tail(queue)
    /\ pc' = "offerOverflow"
    /\ UNCHANGED <<call, n, last>>

ClearQueue ==
    /\ pc = "clear"
    /\ queue' = <<>>
    /\ pc' = "offerOverflow"
    /\ UNCHANGED <<call, n, last>>

(* An overflow of the operating system has the path it was reported with,  *)
(* one of the event queue has none.                                        *)
OverflowEvent ==
    IF call.kind = "os_overflow"
    THEN call
    ELSE Event("queue_overflow", NoPath, call.id)

(* Fault: reportTermination without deliverOnOverflow.                     *)
SignalOverflowOfFailures ==
    /\ pc = "offerOverflow"
    /\ Offer(OverflowEvent)
    /\ pc' = IF call.kind = "failure" THEN "offerForced" ELSE Return
    /\ UNCHANGED <<call, n, last>>

SignalOverflow ==
    /\ pc = "offerOverflow"
    /\ Offer(OverflowEvent)
    /\ pc' = IF call.kind \in Forced THEN "offerForced" ELSE Return
    /\ UNCHANGED <<call, n, last>>

(* deliverOnOverflow: the offer may fail, which is only logged.            *)
ForceQueueEvent ==
    /\ pc = "offerForced"
    /\ Offer(call)
    /\ pc' = Return
    /\ UNCHANGED <<call, n, last>>

(* The user's thread: take() or poll().                                    *)
Take ==
    /\ queue # <<>>
    /\ last' = Head(queue)
    /\ queue' = Tail(queue)
    /\ UNCHANGED <<pc, call, n>>

Callback == QueueEvent \/ ClearQueue \/ SignalOverflow \/ ForceQueueEvent

Next ==
    \/ ReportChangeEvent
    \/ ReportUnknownEvent
    \/ ReportOverflow
    \/ ReportFailure
    \/ ReportTermination
    \/ QueueEvent
    \/ ClearQueue
    \/ SignalOverflow
    \/ ForceQueueEvent
    \/ Take

(* The callback never blocks, and the consumer keeps consuming.            *)
Fairness == WF_vars(Callback) /\ WF_vars(Take)

Spec == Init /\ [][Next]_vars
FairSpec == Spec /\ Fairness

-------------------------------------------------------------------------------
Steps == {"idle", "offer", "clear", "offerOverflow", "offerForced", "done"}

(* The variables have their types, and the queue respects its capacity.    *)
TypeOK ==
    /\ queue \in Seq(Events)
    /\ Len(queue) <= Capacity
    /\ pc \in Steps
    /\ call \in Events \cup {Start}
    /\ pc # "idle" => call \in Events
    /\ n \in Nat
    /\ last \in Events \cup {Start}

(* The event before position i of the queue, as the consumer sees it.      *)
Previous(i) == IF i = 1 THEN last ELSE queue[i - 1]
Final == IF queue = <<>> THEN last ELSE queue[Len(queue)]

(* No event vanishes without an overflow that tells of it: event follows   *)
(* previous in the numbering, or is an overflow, or is the failure or      *)
(* termination whose own report overflowed the queue.                      *)
Follows(previous, event) ==
    \/ event.kind \notin Overflows /\ event.id = previous.id + 1
    \/ event.kind \in Overflows /\ event.id > previous.id
    \/ /\ event.kind \in Forced
       /\ previous.kind = "queue_overflow"
       /\ event.id = previous.id

(* What the queue holds is, with what was taken before it, a record        *)
(* without silent gaps.                                                    *)
NoSilentGap == \A i \in 1 .. Len(queue) : Follows(Previous(i), queue[i])

(* When no callback is in progress the record reaches the last report:     *)
(* an event that was dropped last is announced by an overflow that is      *)
(* still in the queue or was taken.                                        *)
RecordIsUpToDate == pc \in {"idle", "done"} => Final.id = n

(* Every event of the record belongs to a report before report k.          *)
RecordedBefore(k) ==
    last.id < k /\ \A i \in 1 .. Len(queue) : queue[i].id < k

(* The order in which the callback clears and offers around the consumer:  *)
(* the report in progress is the last one, the queue is empty or holds     *)
(* just the overflow when the callback forces an event.                    *)
CallbackInProgress ==
    /\ call.id = n
    /\ RecordedBefore(n + 1)
    /\ pc \in {"offer", "clear", "offerOverflow"} => RecordedBefore(n)
    /\ pc = "offer" => call.kind \notin Overflows
    /\ pc = "offer" => n = Final.id + 1
    /\ pc = "offerOverflow" => queue = <<>>
    /\ pc = "offerForced" =>
          /\ call.kind \in Forced
          /\ Final = Event("queue_overflow", NoPath, n)
          /\ Len(queue) <= 1

(* The strengthening under which NoSilentGap is inductive.                 *)
Chain == NoSilentGap /\ RecordIsUpToDate /\ CallbackInProgress

(* forceQueueEvent's expectation: "there is enough space because we just   *)
(* cleared the queue".                                                     *)
ForcedOffersSucceed ==
    pc \in {"offerOverflow", "offerForced"} => Len(queue) < Capacity

(* The termination event, once reported, is in the queue or was taken last:*)
(* it is the last event the consumer ever sees, whatever overflowed.       *)
TerminationIsFinal == pc = "done" => Final.kind = "termination"

(* The consumer learns that the watcher terminated.                        *)
TerminationArrives == call.kind = "termination" ~> last.kind = "termination"

(* The abstract specification this one implements.                         *)
Channel == INSTANCE EventChannel
    WITH reported <- n, last <- [kind |-> last.kind, id |-> last.id]
ChannelSpec == Channel!Spec
===============================================================================
