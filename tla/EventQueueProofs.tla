--------------------------- MODULE EventQueueProofs ---------------------------
(***************************************************************************)
(* Theorems about EventQueue, for every capacity, set of paths and number  *)
(* of reports.                                                             *)
(***************************************************************************)
EXTENDS EventQueue, TLAPS

IInv == TypeOK /\ Chain

(* Appending an event that follows the final one keeps the record gapless. *)
LEMMA AppendKeepsRecord ==
    ASSUME TypeOK, NoSilentGap, NEW event \in Events,
           Follows(Final, event), queue' = Append(queue, event), last' = last
    PROVE  NoSilentGap' /\ Final' = event
<1> USE DEF TypeOK
<1>1. /\ Len(queue') = Len(queue) + 1
      /\ \A i \in 1 .. Len(queue) : queue'[i] = queue[i]
      /\ queue'[Len(queue) + 1] = event
      /\ queue' # <<>>
  OBVIOUS
<1>2. Final' = event
  BY <1>1 DEF Final
<1>3. ASSUME NEW i \in 1 .. Len(queue')
      PROVE  Follows(Previous(i)', queue'[i])
  <2>1. CASE i = Len(queue) + 1
    <3>1. Previous(i)' = Final
      BY <1>1, <2>1 DEF Previous, Final
    <3> QED
      BY <1>1, <2>1, <3>1
  <2>2. CASE i <= Len(queue)
    <3>1. i \in 1 .. Len(queue)
      BY <1>1, <2>2
    <3>2. Previous(i)' = Previous(i)
      BY <1>1, <3>1 DEF Previous
    <3> QED
      BY <1>1, <3>1, <3>2 DEF NoSilentGap
  <2> QED
    BY <1>1, <2>1, <2>2
<1> QED
  BY <1>2, <1>3 DEF NoSilentGap, Previous, Follows

(* Taking the head of the queue moves it from the record's queued part to  *)
(* its taken part.                                                         *)
LEMMA TakeKeepsRecord ==
    ASSUME TypeOK, NoSilentGap, queue # <<>>,
           last' = Head(queue), queue' = Tail(queue)
    PROVE  NoSilentGap' /\ Final' = Final /\ Follows(last, last')
<1> USE DEF TypeOK
<1>1. /\ Len(queue) \in Nat \ {0}
      /\ Len(queue') = Len(queue) - 1
      /\ \A i \in 1 .. Len(queue') : queue'[i] = queue[i + 1]
      /\ last' = queue[1]
  OBVIOUS
<1>2. Follows(last, last')
  BY <1>1 DEF NoSilentGap, Previous
<1>3. Final' = Final
  <2>1. CASE Len(queue) = 1
    BY <1>1, <2>1 DEF Final
  <2>2. CASE Len(queue) # 1
    <3>0. Len(queue') \in Nat \ {0}
      BY <1>1, <2>2
    <3>1. queue' # <<>> /\ Len(queue') \in 1 .. Len(queue')
      <4>1. \A q : Len(q) \in Nat \ {0} => q # <<>> /\ Len(q) \in 1 .. Len(q)
        OBVIOUS
      <4> QED
        BY <3>0, <4>1, Zenon
    <3>2. queue'[Len(queue')] = queue[Len(queue)]
      BY <1>1, <3>1
    <3> QED
      BY <3>1, <3>2 DEF Final
  <2> QED
    BY <2>1, <2>2
<1>4. ASSUME NEW i \in 1 .. Len(queue')
      PROVE  Follows(Previous(i)', queue'[i])
  <2>1. /\ i + 1 \in 1 .. Len(queue)
        /\ queue'[i] = queue[i + 1]
    BY <1>1
  <2>2. Previous(i)' = Previous(i + 1)
    BY <1>1 DEF Previous
  <2> QED
    BY <2>1, <2>2 DEF NoSilentGap
<1> QED
  BY <1>2, <1>3, <1>4 DEF NoSilentGap, Previous, Follows
-------------------------------------------------------------------------------
(* The events of the record are numbered.                                  *)
LEMMA RecordedIds ==
    ASSUME TypeOK
    PROVE  last.id \in Nat /\ \A i \in 1 .. Len(queue) : queue[i].id \in Nat
<1>1. last \in Events \cup {Start} /\ \A i \in 1 .. Len(queue) : queue[i] \in Events
  BY DEF TypeOK
<1>2. \A event \in Events \cup {Start} : event.id \in Nat
  BY DEF Events, Start, Event
<1> QED
  BY <1>1, <1>2

(* A report starts the callback on an up-to-date record.                   *)
LEMMA ReportKeepsIInv ==
    ASSUME IInv, NEW kind \in Kinds, NEW path \in Paths \cup {NoPath},
           NEW step \in {"offer", "clear"},
           step = "offer" => kind \notin Overflows,
           Report(kind, path, step)
    PROVE  IInv'
<1> USE DEF IInv, TypeOK, Chain
<1>1. TypeOK'
  BY DEF Report, Event, Events, Steps
<1>2. Final' = Final /\ NoSilentGap'
  BY DEF Report, Final, NoSilentGap, Previous, Follows
<1>3. RecordIsUpToDate'
  BY DEF Report, RecordIsUpToDate
<1>4. CallbackInProgress'
  <2>1. Final.id = n /\ RecordedBefore(n + 1)
    BY DEF Report, RecordIsUpToDate, CallbackInProgress
  <2>2. n' = n + 1 /\ queue' = queue /\ last' = last
    BY DEF Report
  <2>3. RecordedBefore(n)' /\ RecordedBefore(n + 1)'
    <3>1. last.id \in Nat /\ \A i \in 1 .. Len(queue) : queue[i].id \in Nat
      BY RecordedIds
    <3>2. last.id < n + 1 /\ \A i \in 1 .. Len(queue) : queue[i].id < n + 1
      BY <2>1 DEF RecordedBefore
    <3> QED
      BY <2>2, <3>1, <3>2 DEF RecordedBefore
  <2> QED
    BY <1>2, <2>1, <2>2, <2>3 DEF Report, Event, CallbackInProgress
<1> QED
  BY <1>1, <1>2, <1>3, <1>4

(* Every step of the callback and of the consumer preserves the types and  *)
(* the record without silent gaps.                                         *)
THEOREM IInvIsInductive ==
    IInv /\ [Next]_vars => IInv'
<1> SUFFICES ASSUME IInv, [Next]_vars
             PROVE  IInv'
  OBVIOUS
<1>1. CASE ReportChangeEvent
  BY <1>1, ReportKeepsIInv DEF ReportChangeEvent, Kinds, Overflows
<1>2. CASE ReportUnknownEvent
  BY <1>2, ReportKeepsIInv DEF ReportUnknownEvent, Kinds, Overflows
<1>3. CASE ReportOverflow
  BY <1>3, ReportKeepsIInv DEF ReportOverflow, Kinds, Overflows
<1>4. CASE ReportFailure
  BY <1>4, ReportKeepsIInv DEF ReportFailure, Kinds, Overflows, Forced
<1>5. CASE ReportTermination
  BY <1>5, ReportKeepsIInv DEF ReportTermination, Kinds, Overflows, Forced
<1> USE DEF IInv, TypeOK, Chain
<1>6. CASE QueueEvent
  <2>0. call \in Events
    BY <1>6 DEF QueueEvent
  <2>1. CASE Len(queue) < Capacity
    <3>1. queue' = Append(queue, call) /\ last' = last /\ pc' = Return
      BY <1>6, <2>1 DEF QueueEvent, Offer
    <3>2. Follows(Final, call)
      BY <1>6 DEF QueueEvent, CallbackInProgress, Follows, Events
    <3>3. NoSilentGap' /\ Final' = call
      BY <2>0, <3>1, <3>2, AppendKeepsRecord
    <3>4. TypeOK'
      BY <1>6, <2>0, <2>1, <3>1, CapacityAssumption DEF QueueEvent, Return, Steps
    <3>5. RecordedBefore(n + 1)'
      BY <1>6, <3>1 DEF QueueEvent, CallbackInProgress, RecordedBefore, Events
    <3> QED
      BY <1>6, <3>1, <3>3, <3>4, <3>5
      DEF QueueEvent, Return, RecordIsUpToDate, CallbackInProgress
  <2>2. CASE ~(Len(queue) < Capacity)
    <3>1. queue' = queue /\ last' = last /\ pc' = "clear"
      BY <1>6, <2>2 DEF QueueEvent, Offer
    <3>2. Final' = Final /\ NoSilentGap'
      BY <3>1 DEF Final, NoSilentGap, Previous, Follows
    <3>3. RecordedBefore(n)' /\ RecordedBefore(n + 1)'
      BY <1>6, <3>1 DEF QueueEvent, CallbackInProgress, RecordedBefore
    <3> QED
      BY <1>6, <3>1, <3>2, <3>3
      DEF QueueEvent, Steps, RecordIsUpToDate, CallbackInProgress
  <2> QED
    BY <2>1, <2>2
<1>7. CASE ClearQueue
  <2>1. queue' = <<>> /\ last' = last /\ pc' = "offerOverflow"
    BY <1>7 DEF ClearQueue
  <2>2. Len(queue') = 0
    BY <2>1
  <2>3. RecordedBefore(n)' /\ RecordedBefore(n + 1)'
    BY <1>7, <2>1, <2>2 DEF ClearQueue, CallbackInProgress, RecordedBefore
  <2> QED
    BY <1>7, <2>1, <2>2, <2>3, CapacityAssumption
    DEF ClearQueue, Steps, NoSilentGap, RecordIsUpToDate, CallbackInProgress
<1>8. CASE SignalOverflow
  <2>0. call \in Events
    BY <1>8 DEF SignalOverflow
  <2> DEFINE event == OverflowEvent
  <2>1. /\ queue = <<>>
        /\ Len(queue) = 0
        /\ RecordedBefore(n)
        /\ call.id = n
    BY <1>8 DEF SignalOverflow, CallbackInProgress
  <2>2. /\ event \in Events
        /\ event.id = n
        /\ event.kind \in Overflows
        /\ call.kind \in Forced => event = Event("queue_overflow", NoPath, n)
    BY <2>0, <2>1 DEF OverflowEvent, Event, Events, Kinds, Overflows, Forced
  <2>3. queue' = Append(queue, event) /\ last' = last /\ n' = n
    BY <1>8, <2>1, CapacityAssumption DEF SignalOverflow, Offer
  <2>4. Follows(Final, event)
    BY <2>1, <2>2 DEF Follows, Final, RecordedBefore, Events
  <2> HIDE DEF event
  <2>5. NoSilentGap' /\ Final' = event
    BY <2>2, <2>3, <2>4, AppendKeepsRecord
  <2>6. Len(queue') = 1 /\ queue'[1] = event
    BY <2>1, <2>3
  <2>7. TypeOK'
    BY <1>8, <2>2, <2>3, <2>6, CapacityAssumption
    DEF SignalOverflow, Return, Steps
  <2>8. RecordedBefore(n + 1)'
    BY <2>1, <2>2, <2>3, <2>6, RecordedIds DEF RecordedBefore
  <2> QED
    BY <1>8, <2>1, <2>2, <2>3, <2>5, <2>6, <2>7, <2>8
    DEF SignalOverflow, Return, RecordIsUpToDate, CallbackInProgress
<1>9. CASE ForceQueueEvent
  <2>0. call \in Events
    BY <1>9 DEF ForceQueueEvent
  <2>1. /\ call.id = n
        /\ call.kind \in Forced
        /\ Final = Event("queue_overflow", NoPath, n)
        /\ RecordedBefore(n + 1)
        /\ n' = n /\ call' = call /\ last' = last /\ pc' = Return
    BY <1>9 DEF ForceQueueEvent, CallbackInProgress
  <2>2. Follows(Final, call)
    BY <2>1 DEF Follows, Event
  <2>3. CASE Len(queue) < Capacity
    <3>1. queue' = Append(queue, call)
      BY <1>9, <2>3 DEF ForceQueueEvent, Offer
    <3>2. NoSilentGap' /\ Final' = call
      BY <2>0, <2>1, <2>2, <3>1, AppendKeepsRecord
    <3>3. RecordedBefore(n + 1)'
      BY <2>1, <3>1 DEF RecordedBefore, Events
    <3>4. TypeOK'
      BY <2>0, <2>1, <2>3, <3>1, CapacityAssumption DEF Return, Steps
    <3> QED
      BY <2>1, <3>2, <3>3, <3>4
      DEF Return, RecordIsUpToDate, CallbackInProgress
  <2>4. CASE ~(Len(queue) < Capacity)
    <3>1. queue' = queue
      BY <1>9, <2>4 DEF ForceQueueEvent, Offer
    <3>2. Final' = Final /\ NoSilentGap' /\ RecordedBefore(n + 1)'
      BY <2>1, <3>1 DEF Final, NoSilentGap, Previous, Follows, RecordedBefore
    <3>3. TypeOK'
      BY <2>0, <2>1, <3>1 DEF Return, Steps
    <3> QED
      BY <2>1, <3>2, <3>3
      DEF Event, Return, RecordIsUpToDate, CallbackInProgress
  <2> QED
    BY <2>3, <2>4
<1>10. CASE Take
  <2>1. NoSilentGap' /\ Final' = Final
    BY <1>10, TakeKeepsRecord DEF Take
  <2>2. /\ Len(queue') = Len(queue) - 1
        /\ \A i \in 1 .. Len(queue') : queue'[i] = queue[i + 1]
        /\ last' = queue[1]
        /\ Len(queue) \in Nat \ {0}
        /\ n' = n /\ call' = call /\ pc' = pc
    BY <1>10 DEF Take
  <2>3. TypeOK'
    BY <1>10, <2>2, CapacityAssumption DEF Take
  <2>4. ASSUME NEW k \in Nat, RecordedBefore(k)
        PROVE  RecordedBefore(k)'
    BY <2>2, <2>4 DEF RecordedBefore
  <2>5. CallbackInProgress'
    <3>1. n \in Nat /\ n + 1 \in Nat
      OBVIOUS
    <3>2. pc # "offerOverflow"
      BY <1>10 DEF Take, CallbackInProgress
    <3> QED
      BY <2>1, <2>2, <2>4, <3>1, <3>2 DEF CallbackInProgress
  <2> QED
    BY <2>1, <2>2, <2>3, <2>5 DEF RecordIsUpToDate
<1>11. CASE UNCHANGED vars
  BY <1>11 DEF vars, NoSilentGap, Previous, Final, Follows, RecordIsUpToDate,
               CallbackInProgress, RecordedBefore
<1> QED
  BY <1>1, <1>2, <1>3, <1>4, <1>5, <1>6, <1>7, <1>8, <1>9, <1>10, <1>11
  DEF Next

(* The empty queue and the start event are a record without gaps.          *)
LEMMA InitIInv == Init => IInv
<1> SUFFICES ASSUME Init PROVE IInv
  OBVIOUS
<1>1. Len(queue) = 0 /\ queue = <<>>
  BY DEF Init
<1>2. Start.id = 0 /\ Start.kind \notin Overflows
  BY DEF Start, Event, Overflows
<1>3. TypeOK
  BY <1>1, <1>2, CapacityAssumption DEF Init, TypeOK, Steps
<1>4. Chain
  BY <1>1, <1>2 DEF Init, Chain, NoSilentGap, RecordIsUpToDate,
                    CallbackInProgress, RecordedBefore, Final
<1> QED
  BY <1>3, <1>4 DEF IInv

(* The queue and the callback keep to their types, and the queue to its    *)
(* capacity.                                                               *)
THEOREM TypeCorrect == Spec => []TypeOK
<1>1. Spec => []IInv
  BY InitIInv, IInvIsInductive, PTL DEF Spec
<1> QED
  BY <1>1, PTL DEF IInv

(* queueEvent and signalOverflow leave no gap in the events of the queue   *)
(* that no overflow announces, for a queue of any capacity.                *)
THEOREM ChainHolds == Spec => []Chain
<1>1. Spec => []IInv
  BY InitIInv, IInvIsInductive, PTL DEF Spec
<1> QED
  BY <1>1, PTL DEF IInv

(* The consumer sees every report in order, or an overflow in its place.   *)
NothingLostSilently == [][last' # last => Follows(last, last')]_vars

(* What the consumer takes next follows what it took last: whatever        *)
(* queueEvent dropped in between is announced by an overflow event.        *)
THEOREM NothingIsLostSilently == Spec => NothingLostSilently
<1>1. IInv /\ [Next]_vars => [last' # last => Follows(last, last')]_vars
  <2> SUFFICES ASSUME IInv, Next, last' # last
               PROVE  Follows(last, last')
    BY DEF vars
  <2>1. Take
    BY DEF Next, ReportChangeEvent, ReportUnknownEvent, ReportOverflow,
           ReportFailure, ReportTermination, Report, QueueEvent, ClearQueue,
           SignalOverflow, ForceQueueEvent
  <2> QED
    BY <2>1, TakeKeepsRecord DEF IInv, Chain, Take
<1>2. Spec => []IInv
  BY InitIInv, IInvIsInductive, PTL DEF Spec
<1> QED
  BY <1>1, <1>2, PTL DEF Spec, NothingLostSilently

(* With the two elements the javadoc of newWatcher asks for, the offers of *)
(* forceQueueEvent are never refused, whatever the consumer does.          *)
THEOREM ForcedOffersAlwaysSucceed ==
    ASSUME Capacity >= 2
    PROVE  Spec => []ForcedOffersSucceed
<1>1. Capacity >= 2
  OBVIOUS
<1>2. IInv => ForcedOffersSucceed
  <2> SUFFICES ASSUME IInv, pc \in {"offerOverflow", "offerForced"}
               PROVE  Len(queue) < Capacity
    BY DEF ForcedOffersSucceed
  <2>1. Len(queue) \in Nat /\ Capacity \in Nat
    BY CapacityAssumption DEF IInv, TypeOK
  <2>2. Len(queue) <= 1
    BY DEF IInv, TypeOK, Chain, CallbackInProgress
  <2> QED
    BY <1>1, <2>1, <2>2
<1>3. Spec => []IInv
  BY InitIInv, IInvIsInductive, PTL DEF Spec
<1> QED
  BY <1>2, <1>3, PTL

(* The termination event is the last the consumer ever sees: what was in   *)
(* the queue before, or an overflow, never replaces it.                    *)
THEOREM TerminationIsLast ==
    ASSUME Capacity >= 2
    PROVE  Spec => []TerminationIsFinal
<1>1. Capacity >= 2
  OBVIOUS
<1>2. Init => TerminationIsFinal
  BY DEF Init, TerminationIsFinal
<1>3. IInv /\ TerminationIsFinal /\ [Next]_vars => TerminationIsFinal'
  <2> SUFFICES ASSUME IInv, TerminationIsFinal, [Next]_vars, pc' = "done"
               PROVE  Final'.kind = "termination"
    BY DEF TerminationIsFinal
  <2>1. CASE QueueEvent
    <3>1. Len(queue) < Capacity /\ call.kind = "termination"
      BY <2>1 DEF QueueEvent, Return
    <3>2. Final' = call
      <4>1. queue' = Append(queue, call) /\ queue \in Seq(Events)
        BY <2>1, <3>1 DEF QueueEvent, Offer, IInv, TypeOK
      <4>2. call \in Events
        BY <2>1 DEF QueueEvent, IInv, TypeOK
      <4> QED
        BY <4>1, <4>2 DEF Final
    <3> QED
      BY <3>1, <3>2
  <2>2. CASE ForceQueueEvent
    <3>1. call.kind = "termination" /\ call \in Events
      BY <2>2 DEF ForceQueueEvent, Return, IInv, TypeOK
    <3>2. Len(queue) <= 1 /\ queue \in Seq(Events)
      BY <2>2 DEF ForceQueueEvent, IInv, TypeOK, Chain, CallbackInProgress
    <3>3. queue' = Append(queue, call)
      BY <1>1, <2>2, <3>2, CapacityAssumption DEF ForceQueueEvent, Offer
    <3>4. Final' = call
      BY <3>1, <3>2, <3>3 DEF Final
    <3> QED
      BY <3>1, <3>4
  <2>3. CASE Take
    <3>1. Final' = Final
      BY <2>3, TakeKeepsRecord DEF Take, IInv, Chain
    <3> QED
      BY <2>3, <3>1 DEF Take, TerminationIsFinal
  <2>4. CASE SignalOverflow
    BY <2>4 DEF SignalOverflow, Return, Forced
  <2>5. CASE ClearQueue
    BY <2>5 DEF ClearQueue
  <2>6. CASE UNCHANGED vars
    BY <2>6 DEF vars, Final, TerminationIsFinal
  <2>7. ASSUME NEW kind, NEW path, NEW step \in {"offer", "clear"},
               Report(kind, path, step)
        PROVE  FALSE
    BY <2>7 DEF Report
  <2> QED
    BY <2>1, <2>2, <2>3, <2>4, <2>5, <2>6, <2>7
    DEF Next, ReportChangeEvent, ReportUnknownEvent, ReportOverflow,
        ReportFailure, ReportTermination
<1>4. Spec => []IInv
  BY InitIInv, IInvIsInductive, PTL DEF Spec
<1> QED
  BY <1>2, <1>3, <1>4, PTL DEF Spec

(* The bounded queue with its clearing implements the channel: every step  *)
(* of the callback and the consumer is a report, a delivery or a stutter.  *)
THEOREM ImplementsChannel == Spec => Channel!Init /\ [][Channel!Next]_(Channel!vars)
<1> DEFINE seen == [kind |-> last.kind, id |-> last.id]
<1>1. Init => Channel!Init
  BY DEF Init, Start, Event, Channel!Init
<1>2. IInv /\ [Next]_vars => [Channel!Next]_(Channel!vars)
  <2> SUFFICES ASSUME IInv, [Next]_vars
               PROVE  [Channel!Next]_(Channel!vars)
    OBVIOUS
  <2>1. ASSUME NEW kind, NEW path, NEW step, Report(kind, path, step)
        PROVE  Channel!Next
    BY <2>1 DEF Report, Channel!Next, Channel!Report
  <2>2. CASE Take
    <3>1. Follows(last, last') /\ n' = n
      BY <2>2, TakeKeepsRecord DEF Take, IInv, Chain
    <3>2. last' \in Events /\ last'.id < n + 1
      <4>1. queue # <<>> /\ last' = Head(queue) /\ queue \in Seq(Events)
        BY <2>2 DEF Take, IInv, TypeOK
      <4>2. last' = queue[1] /\ 1 \in 1 .. Len(queue)
        BY <4>1
      <4>3. RecordedBefore(n + 1)
        BY DEF IInv, Chain, CallbackInProgress
      <4> QED
        BY <4>1, <4>2, <4>3 DEF RecordedBefore
    <3>3. /\ last'.kind \in Kinds /\ last'.id \in Nat /\ last.id \in Nat
          /\ n \in Nat
      BY <3>2, RecordedIds DEF Events, IInv, TypeOK
    <3>4. CASE last'.kind \notin Overflows /\ last'.id = last.id + 1
      <4>1. seen' = [kind |-> last'.kind, id |-> last.id + 1]
        BY <3>4
      <4>2. last.id < n /\ last'.kind \in Channel!Plain
        BY <3>2, <3>3, <3>4
        DEF Kinds, Overflows, Forced, Channel!Plain, Channel!Forced
      <4> QED
        BY <3>1, <4>1, <4>2 DEF Channel!Next, Channel!DeliverNext
    <3>5. CASE last'.kind \in Overflows /\ last'.id > last.id
      <4>1. last'.id \in last.id + 1 .. n /\ last'.kind \in Channel!Overflows
        BY <3>2, <3>3, <3>5 DEF Overflows, Channel!Overflows
      <4> QED
        BY <3>1, <4>1 DEF Channel!Next, Channel!DeliverOverflow
    <3>6. CASE /\ last'.kind \in Forced
               /\ last.kind = "queue_overflow"
               /\ last'.id = last.id
      <4>1. last'.kind \in Channel!Forced
        BY <3>6 DEF Forced, Channel!Forced
      <4> QED
        BY <3>1, <3>6, <4>1 DEF Channel!Next, Channel!DeliverForced
    <3> QED
      BY <3>1, <3>4, <3>5, <3>6 DEF Follows
  <2>3. CASE QueueEvent \/ ClearQueue \/ SignalOverflow \/ ForceQueueEvent
    BY <2>3 DEF QueueEvent, ClearQueue, SignalOverflow, ForceQueueEvent,
                Channel!vars
  <2>4. CASE UNCHANGED vars
    BY <2>4 DEF vars, Channel!vars
  <2> QED
    BY <2>1, <2>2, <2>3, <2>4
    DEF Next, ReportChangeEvent, ReportUnknownEvent, ReportOverflow,
        ReportFailure, ReportTermination
<1>3. Spec => []IInv
  BY InitIInv, IInvIsInductive, PTL DEF Spec
<1> QED
  BY <1>1, <1>2, <1>3, PTL DEF Spec
===============================================================================
