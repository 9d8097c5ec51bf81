--------------------------- MODULE AppleOrderProofs ---------------------------
(***************************************************************************)
(* The order of events in AppleServer: on their way from a stream through  *)
(* the dispatch queue, the callback and the blocking queue to the user,    *)
(* those of a path never overtake each other, although the stream of the   *)
(* path may be another one meanwhile.                                      *)
(***************************************************************************)
EXTENDS AppleServerProofs

Before(S, T) == \A e \in S, f \in T : e.path = f.path => e.change <= f.change

Sorted(q) ==
    \A i, j \in 1 .. Len(q) : i < j => Before({q[i]} \cap Events, {q[j]} \cap Events)

SortedBatches(d) ==
    /\ \A i \in 1 .. Len(d) : Sorted(d[i])
    /\ \A i, j \in 1 .. Len(d) : i < j => Before(EventsOf(d[i]), EventsOf(d[j]))

PlacesInOrder ==
    /\ Before(ItemEvents,
              QueueEvents \cup CallbackEvents \cup DispatchEvents \cup LatentEvents)
    /\ Before(QueueEvents, CallbackEvents \cup DispatchEvents \cup LatentEvents)
    /\ Before(CallbackEvents, DispatchEvents \cup LatentEvents)
    /\ Before(DispatchEvents, LatentEvents)

Flow ==
    /\ Sorted(queue) /\ Sorted(callback.batch) /\ SortedBatches(dispatch)
    /\ \A p \in Paths : Sorted(latent[p]) /\ \A e \in EventsOf(latent[p]) : e.path = p
    /\ PlacesInOrder
    /\ \A e \in AllEvents : told[e.path] <= e.change /\ e.change <= changes
    /\ \A p \in Paths : told[p] <= changes

-------------------------------------------------------------------------------
(* Sequences of events.                                                    *)

LEMMA EmptyOrder == EventsOf(<<>>) = {} /\ Sorted(<<>>)
BY EmptySeq DEF EventsOf, Sorted

LEMMA GrownEvents ==
    ASSUME NEW q, NEW r, NEW x, Len(q) \in Nat, Len(r) = Len(q) + 1,
           \A i \in 1 .. Len(q) : r[i] = q[i],
           r[Len(q) + 1] = x
    PROVE  EventsOf(r) = EventsOf(q) \cup ({x} \cap Events)
<1>1. Len(q) + 1 \in 1 .. Len(r) /\ \A i \in 1 .. Len(q) : i \in 1 .. Len(r)
  OBVIOUS
<1>2. ASSUME NEW i \in 1 .. Len(r)
      PROVE  \/ i \in 1 .. Len(q) /\ r[i] = q[i]
             \/ r[i] = x
  OBVIOUS
<1> QED
  BY <1>1, <1>2 DEF EventsOf

LEMMA AppendOrder ==
    ASSUME NEW S, NEW q \in Seq(S), NEW x \in S
    PROVE  /\ EventsOf(Append(q, x)) = EventsOf(q) \cup ({x} \cap Events)
           /\ Sorted(q) /\ Before(EventsOf(q), {x} \cap Events) => Sorted(Append(q, x))
<1> DEFINE r == Append(q, x)
<1>1. /\ Len(q) \in Nat /\ Len(r) = Len(q) + 1
      /\ \A i \in 1 .. Len(q) : r[i] = q[i]
      /\ r[Len(q) + 1] = x
  BY AppendProperties, LenProperties
<1> HIDE DEF r
<1>2. ASSUME NEW i \in 1 .. Len(r)
      PROVE  \/ i \in 1 .. Len(q) /\ r[i] = q[i]
             \/ i = Len(q) + 1 /\ r[i] = x
  BY <1>1
<1>3. EventsOf(r) = EventsOf(q) \cup ({x} \cap Events)
  BY <1>1, GrownEvents
<1>4. ASSUME Sorted(q), Before(EventsOf(q), {x} \cap Events) PROVE Sorted(r)
  <2> SUFFICES ASSUME NEW i \in 1 .. Len(r), NEW j \in 1 .. Len(r), i < j
               PROVE  Before({r[i]} \cap Events, {r[j]} \cap Events)
    BY DEF Sorted
  <2>1. i \in 1 .. Len(q) /\ r[i] = q[i]
    BY <1>1
  <2>2. CASE j \in 1 .. Len(q) /\ r[j] = q[j]
    BY <1>4, <2>1, <2>2 DEF Sorted
  <2>3. CASE r[j] = x
    <3>1. {r[i]} \cap Events \subseteq EventsOf(q)
      BY <2>1 DEF EventsOf
    <3> QED
      BY <1>4, <2>3, <3>1 DEF Before
  <2> QED
    BY <1>2, <2>2, <2>3
<1> QED
  BY <1>3, <1>4 DEF r

LEMMA TailOrder ==
    ASSUME NEW S, NEW q \in Seq(S), q # <<>>
    PROVE  /\ EventsOf(q) = ({Head(q)} \cap Events) \cup EventsOf(Tail(q))
           /\ Sorted(q) => /\ Sorted(Tail(q))
                           /\ Before({Head(q)} \cap Events, EventsOf(Tail(q)))
<1> DEFINE r == Tail(q)
<1>1. /\ Len(q) \in Nat \ {0} /\ Len(r) = Len(q) - 1
      /\ \A i \in 1 .. Len(r) : r[i] = q[i + 1]
      /\ Head(q) = q[1]
  BY HeadTailProperties, LenProperties, EmptySeq
<1> HIDE DEF r
<1>2. ASSUME NEW i \in 1 .. Len(q), i # 1
      PROVE  i - 1 \in 1 .. Len(r) /\ r[i - 1] = q[i]
  BY <1>1, <1>2
<1>3. ASSUME NEW i \in 1 .. Len(r)
      PROVE  i + 1 \in 1 .. Len(q) /\ q[i + 1] = r[i] /\ 1 < i + 1
  BY <1>1
<1>4. 1 \in 1 .. Len(q)
  BY <1>1
<1>5. EventsOf(q) = ({Head(q)} \cap Events) \cup EventsOf(r)
  <2>1. ASSUME NEW e \in EventsOf(q) PROVE e \in ({Head(q)} \cap Events) \cup EventsOf(r)
    BY <1>1, <1>2, <2>1 DEF EventsOf
  <2>2. ASSUME NEW e \in ({Head(q)} \cap Events) \cup EventsOf(r) PROVE e \in EventsOf(q)
    BY <1>1, <1>3, <1>4, <2>2 DEF EventsOf
  <2> QED
    BY <2>1, <2>2
<1>6. ASSUME Sorted(q)
      PROVE  Sorted(r) /\ Before({Head(q)} \cap Events, EventsOf(r))
  <2>1. ASSUME NEW i \in 1 .. Len(r), NEW j \in 1 .. Len(r), i < j
        PROVE  Before({r[i]} \cap Events, {r[j]} \cap Events)
    <3>1. i + 1 < j + 1
      BY <2>1
    <3> QED
      BY <1>3, <1>6, <3>1 DEF Sorted
  <2>2. ASSUME NEW i \in 1 .. Len(r)
        PROVE  Before({Head(q)} \cap Events, {r[i]} \cap Events)
    BY <1>1, <1>3, <1>4, <1>6 DEF Sorted
  <2> QED
    BY <2>1, <2>2 DEF Sorted, Before, EventsOf
<1> QED
  BY <1>5, <1>6 DEF r

LEMMA AppendBatch ==
    ASSUME NEW d \in Seq(Seq(Events)), NEW b \in Seq(Events),
           SortedBatches(d), Sorted(b), Before(BatchEvents(d), EventsOf(b))
    PROVE  /\ BatchEvents(Append(d, b)) = BatchEvents(d) \cup EventsOf(b)
           /\ SortedBatches(Append(d, b))
<1> DEFINE r == Append(d, b)
<1>1. /\ Len(d) \in Nat /\ Len(r) = Len(d) + 1
      /\ \A i \in 1 .. Len(d) : r[i] = d[i]
      /\ r[Len(d) + 1] = b
  BY AppendProperties, LenProperties
<1> HIDE DEF r
<1>2. ASSUME NEW i \in 1 .. Len(r)
      PROVE  \/ i \in 1 .. Len(d) /\ r[i] = d[i]
             \/ i = Len(d) + 1 /\ r[i] = b
  BY <1>1
<1>3. \A i \in 1 .. Len(d) : i \in 1 .. Len(r)
  BY <1>1
<1>4. Len(d) + 1 \in 1 .. Len(r)
  BY <1>1
<1>5. BatchEvents(r) = BatchEvents(d) \cup EventsOf(b)
  BY <1>1, <1>2, <1>3, <1>4 DEF BatchEvents
<1>6. \A i \in 1 .. Len(r) : Sorted(r[i])
  BY <1>2 DEF SortedBatches
<1>7. ASSUME NEW i \in 1 .. Len(r), NEW j \in 1 .. Len(r), i < j
      PROVE  Before(EventsOf(r[i]), EventsOf(r[j]))
  <2>1. i \in 1 .. Len(d) /\ r[i] = d[i]
    BY <1>1, <1>7
  <2>2. CASE j \in 1 .. Len(d) /\ r[j] = d[j]
    BY <1>7, <2>1, <2>2 DEF SortedBatches
  <2>3. CASE r[j] = b
    <3>1. EventsOf(r[i]) \subseteq BatchEvents(d)
      BY <2>1 DEF BatchEvents
    <3> QED
      BY <2>3, <3>1 DEF Before
  <2> QED
    BY <1>2, <2>2, <2>3
<1> QED
  BY <1>5, <1>6, <1>7 DEF SortedBatches, r

LEMMA TailBatches ==
    ASSUME NEW d \in Seq(Seq(Events)), d # <<>>
    PROVE  BatchEvents(d) = EventsOf(Head(d)) \cup BatchEvents(Tail(d))
<1> DEFINE r == Tail(d)
<1>1. /\ Len(d) \in Nat \ {0} /\ Len(r) = Len(d) - 1
      /\ \A i \in 1 .. Len(r) : r[i] = d[i + 1]
      /\ Head(d) = d[1]
  BY HeadTailProperties, LenProperties, EmptySeq
<1> HIDE DEF r
<1>2. ASSUME NEW i \in 1 .. Len(d), i # 1
      PROVE  i - 1 \in 1 .. Len(r) /\ r[i - 1] = d[i]
  BY <1>1, <1>2
<1>3. ASSUME NEW i \in 1 .. Len(r)
      PROVE  i + 1 \in 1 .. Len(d) /\ d[i + 1] = r[i] /\ 1 < i + 1
  BY <1>1
<1>4. 1 \in 1 .. Len(d)
  BY <1>1
<1>5. BatchEvents(d) = EventsOf(Head(d)) \cup BatchEvents(r)
  <2>1. ASSUME NEW e \in BatchEvents(d) PROVE e \in EventsOf(Head(d)) \cup BatchEvents(r)
    <3>1. PICK i \in 1 .. Len(d) : e \in EventsOf(d[i])
      BY <2>1 DEF BatchEvents
    <3>2. CASE i = 1
      BY <1>1, <3>1, <3>2
    <3>3. CASE i # 1
      BY <1>2, <3>1, <3>3 DEF BatchEvents
    <3> QED
      BY <3>2, <3>3
  <2>2. ASSUME NEW e \in BatchEvents(r) PROVE e \in BatchEvents(d)
    BY <1>3, <2>2 DEF BatchEvents
  <2>3. EventsOf(Head(d)) \subseteq BatchEvents(d)
    BY <1>1, <1>4 DEF BatchEvents
  <2> QED
    BY <2>1, <2>2, <2>3
<1> QED
  BY <1>5 DEF r

LEMMA TailBatch ==
    ASSUME NEW d \in Seq(Seq(Events)), d # <<>>, SortedBatches(d)
    PROVE  /\ BatchEvents(d) = EventsOf(Head(d)) \cup BatchEvents(Tail(d))
           /\ Sorted(Head(d)) /\ SortedBatches(Tail(d))
           /\ Before(EventsOf(Head(d)), BatchEvents(Tail(d)))
<1> DEFINE r == Tail(d)
<1>1. /\ Len(d) \in Nat \ {0} /\ Len(r) = Len(d) - 1
      /\ \A i \in 1 .. Len(r) : r[i] = d[i + 1]
      /\ Head(d) = d[1]
  BY HeadTailProperties, LenProperties, EmptySeq
<1> HIDE DEF r
<1>2. ASSUME NEW i \in 1 .. Len(d), i # 1
      PROVE  i - 1 \in 1 .. Len(r) /\ r[i - 1] = d[i]
  BY <1>1, <1>2
<1>3. ASSUME NEW i \in 1 .. Len(r)
      PROVE  i + 1 \in 1 .. Len(d) /\ d[i + 1] = r[i] /\ 1 < i + 1
  BY <1>1
<1>4. 1 \in 1 .. Len(d)
  BY <1>1
<1>5. BatchEvents(d) = EventsOf(Head(d)) \cup BatchEvents(r)
  BY TailBatches DEF r
<1>6. Sorted(Head(d)) /\ \A i \in 1 .. Len(r) : Sorted(r[i])
  BY <1>1, <1>3, <1>4 DEF SortedBatches
<1>7. ASSUME NEW i \in 1 .. Len(r), NEW j \in 1 .. Len(r), i < j
      PROVE  Before(EventsOf(r[i]), EventsOf(r[j]))
  <2>1. i + 1 < j + 1
    BY <1>7
  <2> QED
    BY <1>3, <2>1 DEF SortedBatches
<1>8. ASSUME NEW i \in 1 .. Len(r) PROVE Before(EventsOf(Head(d)), EventsOf(r[i]))
  BY <1>1, <1>3, <1>4 DEF SortedBatches
<1>9. Before(EventsOf(Head(d)), BatchEvents(r))
  BY <1>8 DEF Before, BatchEvents
<1> QED
  BY <1>5, <1>6, <1>7, <1>9 DEF SortedBatches, r

LEMMA CoalesceOrder ==
    ASSUME NEW q \in Seq(Events), q # <<>>, Sorted(q), NEW e \in Events,
           \A x \in EventsOf(q) : x.change <= e.change
    PROVE  LET r == [q EXCEPT ![Len(q)] = e]
           IN  Sorted(r) /\ EventsOf(r) \subseteq EventsOf(q) \cup {e}
<1> DEFINE r == [q EXCEPT ![Len(q)] = e]
<1>1. /\ Len(q) \in Nat \ {0} /\ Len(r) = Len(q)
      /\ \A i \in 1 .. Len(q) : r[i] = IF i = Len(q) THEN e ELSE q[i]
  BY EmptySeq, LenProperties
<1> HIDE DEF r
<1>2. ASSUME NEW i \in 1 .. Len(r), NEW j \in 1 .. Len(r), i < j
      PROVE  Before({r[i]} \cap Events, {r[j]} \cap Events)
  <2>1. r[i] = q[i] /\ i \in 1 .. Len(q) /\ j \in 1 .. Len(q)
    BY <1>1, <1>2
  <2>2. CASE j = Len(q)
    <3>1. {q[i]} \cap Events \subseteq EventsOf(q)
      BY <2>1 DEF EventsOf
    <3> QED
      BY <1>1, <2>1, <2>2, <3>1 DEF Before
  <2>3. CASE j # Len(q)
    BY <1>1, <1>2, <2>1, <2>3 DEF Sorted
  <2> QED
    BY <2>2, <2>3
<1>3. EventsOf(r) \subseteq EventsOf(q) \cup {e}
  BY <1>1 DEF EventsOf
<1> QED
  BY <1>2, <1>3 DEF Sorted, r

-------------------------------------------------------------------------------
(* The steps.                                                              *)

(* Events that vanish leave the others in order.                           *)
LEMMA FlowShrinks ==
    ASSUME Flow,
           Sorted(queue'), Sorted(callback'.batch), SortedBatches(dispatch'),
           \A p \in Paths : /\ Sorted(latent'[p])
                            /\ EventsOf(latent'[p]) \subseteq EventsOf(latent[p]),
           ItemEvents' \subseteq ItemEvents,
           QueueEvents' \subseteq QueueEvents,
           CallbackEvents' \subseteq CallbackEvents,
           DispatchEvents' \subseteq DispatchEvents,
           told' = told, changes' = changes
    PROVE  Flow'
<1>1. LatentEvents' \subseteq LatentEvents
  BY DEF LatentEvents
<1>2. PlacesInOrder'
  BY <1>1 DEF Flow, PlacesInOrder, Before
<1>3. AllEvents' \subseteq AllEvents
  BY <1>1 DEF AllEvents
<1> QED
  BY <1>2, <1>3 DEF Flow

LEMMA FlowStays ==
    ASSUME Flow, UNCHANGED <<queue, callback, dispatch, latent, item, told, changes>>
    PROVE  Flow'
<1>1. /\ Sorted(queue) /\ Sorted(callback.batch) /\ SortedBatches(dispatch)
      /\ \A p \in Paths : Sorted(latent[p])
  BY DEF Flow
<1>2. /\ ItemEvents' = ItemEvents /\ QueueEvents' = QueueEvents
      /\ CallbackEvents' = CallbackEvents /\ DispatchEvents' = DispatchEvents
  BY DEF ItemEvents, QueueEvents, CallbackEvents, DispatchEvents
<1> QED
  BY <1>1, <1>2, FlowShrinks

LEMMA ChangeInOrder ==
    ASSUME TypeOK, Flow, FileSystem
    PROVE  Flow'
<1>1. PICK path \in watchPoints : Change(path)
  BY DEF FileSystem
<1>2. /\ path \in Paths /\ changes \in Nat /\ changes' = changes + 1
      /\ UNCHANGED <<dispatch, callback, queue, item, told>>
      /\ latent \in [Paths -> Seq(Events)]
  BY <1>1, ChangesAssumption DEF Change, FileSystem, loopVars, TypeOK
<1>3. PICK flags \in Raised :
         \/ latent' = [latent EXCEPT ![path] =
                          Append(@, Event(path, flags, changes + 1))]
         \/ /\ latent[path] # <<>>
            /\ latent' = [latent EXCEPT ![path][Len(latent[path])] =
                             Coalesced(@, flags, changes + 1)]
  BY <1>1 DEF Change
<1>4. flags \in SUBSET STRING /\ changes + 1 \in Nat
  <2>1. flags \in SUBSET STRING
    BY RaisedAssumption
  <2>2. changes + 1 \in Nat
    BY <1>2
  <2> QED
    BY <2>1, <2>2
<1>5. \A x \in EventsOf(latent[path]) :
         x \in Events /\ x.path = path /\ x.change \in Nat /\ x.change <= changes
  <2>1. EventsOf(latent[path]) \subseteq LatentEvents
    BY <1>2 DEF LatentEvents
  <2> QED
    BY <1>2, <2>1 DEF Flow, AllEvents, EventsOf, Events
<1>6. \E s, e : /\ latent' = [latent EXCEPT ![path] = s]
                /\ Sorted(s) /\ EventsOf(s) \subseteq EventsOf(latent[path]) \cup {e}
                /\ e.path = path /\ e.change = changes + 1
  <2> DEFINE q == latent[path]
  <2>1. q \in Seq(Events) /\ Sorted(q)
    BY <1>2 DEF Flow
  <2>2. CASE latent' = [latent EXCEPT ![path] = Append(@, Event(path, flags, changes + 1))]
    <3> DEFINE e == Event(path, flags, changes + 1)
    <3>1. e \in Events /\ e.path = path /\ e.change = changes + 1
      BY <1>2, <1>4, EventIsTyped DEF Event
    <3> HIDE DEF e
    <3>2. Before(EventsOf(q), {e} \cap Events)
      BY <1>2, <1>5, <3>1 DEF Before
    <3>3. Sorted(Append(q, e)) /\ EventsOf(Append(q, e)) \subseteq EventsOf(q) \cup {e}
      BY <2>1, <3>1, <3>2, AppendOrder
    <3>4. latent' = [latent EXCEPT ![path] = Append(q, e)]
      BY <2>2 DEF e
    <3> QED
      BY <3>1, <3>3, <3>4
  <2>3. CASE /\ latent[path] # <<>>
             /\ latent' = [latent EXCEPT ![path][Len(latent[path])] =
                              Coalesced(@, flags, changes + 1)]
    <3> DEFINE last == q[Len(q)]
               e == Coalesced(last, flags, changes + 1)
    <3>1. Len(q) \in 1 .. Len(q) /\ last \in Events
      BY <2>1, <2>3, EmptySeq, LenProperties, ElementOfSeq
    <3>2. last.path = path
      BY <1>5, <3>1 DEF EventsOf
    <3> HIDE DEF last
    <3>3. e \in Events /\ e.path = path /\ e.change = changes + 1
      BY <1>4, <3>1, <3>2, CoalescedIsTyped DEF Coalesced, Event
    <3>4. latent' = [latent EXCEPT ![path] = [q EXCEPT ![Len(q)] = e]]
      BY <2>3 DEF last
    <3> HIDE DEF e
    <3>5. \A x \in EventsOf(q) : x.change <= e.change
      BY <1>2, <1>5, <3>3
    <3> HIDE DEF q
    <3>6. LET r == [q EXCEPT ![Len(q)] = e]
          IN  Sorted(r) /\ EventsOf(r) \subseteq EventsOf(q) \cup {e}
      BY <2>1, <2>3, <3>3, <3>5, CoalesceOrder DEF q
    <3> QED
      BY <3>3, <3>4, <3>6 DEF q
  <2> QED
    BY <1>3, <2>2, <2>3
<1>7. PICK s, e : /\ latent' = [latent EXCEPT ![path] = s]
                  /\ Sorted(s) /\ EventsOf(s) \subseteq EventsOf(latent[path]) \cup {e}
                  /\ e.path = path /\ e.change = changes + 1
  BY <1>6
<1>8. \A p \in Paths : latent'[p] = IF p = path THEN s ELSE latent[p]
  BY <1>2, <1>7
<1>9. \A p \in Paths : Sorted(latent'[p]) /\ \A x \in EventsOf(latent'[p]) : x.path = p
  BY <1>5, <1>7, <1>8 DEF Flow
<1>10. LatentEvents' \subseteq LatentEvents \cup {e}
  BY <1>7, <1>8 DEF LatentEvents
<1>11. /\ ItemEvents' = ItemEvents /\ QueueEvents' = QueueEvents
       /\ CallbackEvents' = CallbackEvents /\ DispatchEvents' = DispatchEvents
  BY <1>2 DEF ItemEvents, QueueEvents, CallbackEvents, DispatchEvents
<1>12. \A x \in AllEvents : x.change \in Nat /\ x.change <= changes /\ x.change <= changes + 1
  <2>1. AllEvents \subseteq Events
    BY DEF AllEvents, ItemEvents, QueueEvents, CallbackEvents, DispatchEvents,
           BatchEvents, LatentEvents, EventsOf
  <2> QED
    BY <1>2, <2>1 DEF Flow, Events
<1>13. PlacesInOrder'
  BY <1>7, <1>10, <1>11, <1>12 DEF Flow, PlacesInOrder, Before, AllEvents
<1>14. \A p \in Paths : told[p] \in Nat /\ told[p] <= changes + 1
  BY <1>2 DEF Flow, TypeOK
<1>15. \A x \in AllEvents' : told[x.path] <= x.change /\ x.change <= changes + 1
  <2>1. AllEvents' \subseteq AllEvents \cup {e}
    BY <1>10, <1>11 DEF AllEvents
  <2>2. told[e.path] <= e.change /\ e.change <= changes + 1
    BY <1>2, <1>7, <1>14
  <2> QED
    BY <1>12, <2>1, <2>2 DEF Flow
<1> QED
  BY <1>2, <1>9, <1>13, <1>14, <1>15 DEF Flow

LEMMA SystemInOrder ==
    ASSUME TypeOK, Flow, SystemStep
    PROVE  Flow'
<1>1. UNCHANGED <<callback, queue, item, told, changes>>
  BY DEF SystemStep, loopVars, Schedule, Skip
<1>2. /\ ItemEvents' = ItemEvents /\ QueueEvents' = QueueEvents
      /\ CallbackEvents' = CallbackEvents
      /\ Sorted(queue') /\ Sorted(callback'.batch)
  BY <1>1 DEF Flow, ItemEvents, QueueEvents, CallbackEvents
<1>3. ASSUME NEW path \in watchPoints, Schedule(path) PROVE Flow'
  <2>1. /\ path \in Paths /\ latent[path] \in Seq(Events) /\ dispatch \in Seq(Seq(Events))
        /\ dispatch' = Append(dispatch, latent[path])
        /\ \A p \in Paths : latent'[p] = IF p = path THEN <<>> ELSE latent[p]
    BY <1>3 DEF Schedule, TypeOK
  <2>2. /\ Sorted(latent[path]) /\ EventsOf(latent[path]) \subseteq LatentEvents
        /\ \A x \in EventsOf(latent[path]) : x.path = path
    BY <2>1 DEF Flow, LatentEvents
  <2>3. Before(DispatchEvents, EventsOf(latent[path]))
    BY <2>2 DEF Flow, PlacesInOrder, Before
  <2>4. /\ DispatchEvents' = DispatchEvents \cup EventsOf(latent[path])
        /\ SortedBatches(dispatch')
    BY <2>1, <2>2, <2>3, AppendBatch DEF Flow, DispatchEvents
  <2>5. \A p \in Paths : Sorted(latent'[p]) /\ \A x \in EventsOf(latent'[p]) : x.path = p
    BY <2>1, EmptyOrder DEF Flow
  <2>6. \A x \in LatentEvents' : x \in LatentEvents /\ x.path # path
    <3>1. ASSUME NEW x \in LatentEvents' PROVE x \in LatentEvents /\ x.path # path
      <4>1. PICK p \in Paths : x \in EventsOf(latent'[p])
        BY <3>1 DEF LatentEvents
      <4>2. p # path /\ x \in EventsOf(latent[p])
        BY <2>1, <4>1, EmptyOrder
      <4> QED
        BY <4>2 DEF LatentEvents, Flow
    <3> QED
      BY <3>1
  <2>7. PlacesInOrder'
    BY <1>2, <2>2, <2>4, <2>6 DEF Flow, PlacesInOrder, Before
  <2>8. AllEvents' \subseteq AllEvents
    BY <1>2, <2>2, <2>4, <2>6 DEF AllEvents
  <2> QED
    BY <1>1, <1>2, <2>4, <2>5, <2>7, <2>8 DEF Flow
<1>4. CASE Skip
  <2>1. SortedBatches(dispatch') /\ DispatchEvents' \subseteq DispatchEvents
    BY <1>4, TailBatch DEF Skip, Flow, TypeOK, DispatchEvents
  <2> QED
    BY <1>1, <1>2, <1>4, <2>1, FlowShrinks DEF Skip, Flow
<1> QED
  BY <1>3, <1>4 DEF SystemStep

LEMMA CallbackInOrder ==
    ASSUME TypeOK, Flow, CallbackStep
    PROVE  Flow'
<1>1. UNCHANGED <<changes, latent, item, told>>
  BY DEF CallbackStep, StartCallback, EnqueueFileEvent, EnqueueErrorEvent, NotifyEvent,
         systemVars
<1>2. /\ ItemEvents' = ItemEvents /\ LatentEvents' = LatentEvents
      /\ \A p \in Paths : Sorted(latent'[p]) /\ \A e \in EventsOf(latent'[p]) : e.path = p
  BY <1>1 DEF Flow, ItemEvents, LatentEvents
<1>3. /\ callback.batch \in Seq(Events) /\ queue \in Seq(Items)
      /\ dispatch \in Seq(Seq(Events))
      /\ Sorted(callback.batch) /\ Sorted(queue) /\ SortedBatches(dispatch)
  BY DEF TypeOK, Flow
<1>4. CASE StartCallback
  <2>1. /\ callback'.batch = Head(dispatch) /\ dispatch' = Tail(dispatch) /\ queue' = queue
        /\ dispatch # <<>>
    BY <1>4 DEF StartCallback
  <2>2. /\ DispatchEvents = CallbackEvents' \cup DispatchEvents'
        /\ Sorted(callback'.batch) /\ SortedBatches(dispatch')
        /\ Before(CallbackEvents', DispatchEvents')
    BY <1>3, <2>1, TailBatch DEF DispatchEvents, CallbackEvents
  <2>3. QueueEvents' = QueueEvents
    BY <2>1 DEF QueueEvents
  <2>4. PlacesInOrder'
    BY <1>2, <2>2, <2>3 DEF Flow, PlacesInOrder, Before
  <2>5. AllEvents' \subseteq AllEvents
    BY <1>2, <2>2, <2>3 DEF AllEvents
  <2> QED
    BY <1>1, <1>2, <1>3, <2>1, <2>2, <2>4, <2>5 DEF Flow
<1>5. CASE EnqueueFileEvent
  <2> DEFINE e == Head(callback.batch)
  <2>1. /\ queue' = Append(queue, e) /\ callback'.batch = Tail(callback.batch)
        /\ dispatch' = dispatch /\ callback.batch # <<>>
    BY <1>5 DEF EnqueueFileEvent, Push, systemVars, TypeOK
  <2>2. e \in Events /\ e \in Items
    BY <1>3, <2>1, HeadTailProperties DEF Items
  <2>3. /\ CallbackEvents = {e} \cup CallbackEvents'
        /\ Sorted(callback'.batch) /\ Before({e}, CallbackEvents')
    <3>1. {e} \cap Events = {e}
      BY <2>2
    <3> HIDE DEF e
    <3> QED
      BY <1>3, <2>1, <3>1, TailOrder DEF CallbackEvents, e
  <2>4. Before(QueueEvents, {e})
    BY <2>3 DEF Flow, PlacesInOrder, Before
  <2>5. QueueEvents' = QueueEvents \cup {e} /\ Sorted(queue')
    <3>1. {e} \cap Events = {e}
      BY <2>2
    <3> HIDE DEF e
    <3> QED
      BY <1>3, <2>1, <2>2, <2>4, <3>1, AppendOrder DEF QueueEvents
  <2> HIDE DEF e
  <2>6. DispatchEvents' = DispatchEvents
    BY <2>1 DEF DispatchEvents
  <2>7. PlacesInOrder'
    BY <1>2, <2>3, <2>5, <2>6 DEF Flow, PlacesInOrder, Before
  <2>8. AllEvents' \subseteq AllEvents
    BY <1>2, <2>3, <2>5, <2>6 DEF AllEvents
  <2> QED
    BY <1>1, <1>2, <1>3, <2>1, <2>3, <2>5, <2>7, <2>8 DEF Flow
<1>6. CASE EnqueueErrorEvent
  <2>1. /\ queue' = Append(queue, ErrorEvent) /\ callback'.batch = <<>>
        /\ dispatch' = dispatch
    BY <1>6 DEF EnqueueErrorEvent, Push, systemVars
  <2>2. ErrorEvent \in Items /\ {ErrorEvent} \cap Events = {}
    BY ItemsAssumption DEF Items
  <2>3. QueueEvents' = QueueEvents /\ Sorted(queue')
    <3>1. Before(EventsOf(queue), {ErrorEvent} \cap Events)
      BY <2>2 DEF Before
    <3>2. EventsOf(queue') = EventsOf(queue) \cup ({ErrorEvent} \cap Events)
      BY <1>3, <2>1, <2>2, AppendOrder
    <3>3. Sorted(queue')
      BY <1>3, <2>1, <2>2, <3>1, AppendOrder
    <3> QED
      BY <2>2, <3>2, <3>3 DEF QueueEvents
  <2>4. CallbackEvents' = {} /\ Sorted(callback'.batch)
    BY <2>1, EmptyOrder DEF CallbackEvents
  <2>5. DispatchEvents' = DispatchEvents /\ SortedBatches(dispatch')
    BY <1>3, <2>1 DEF DispatchEvents
  <2> QED
    BY <1>1, <1>2, <2>3, <2>4, <2>5, FlowShrinks
<1>7. CASE NotifyEvent
  <2>1. queue' = queue /\ dispatch' = dispatch
    BY <1>7 DEF NotifyEvent, systemVars
  <2>2. callback'.batch = callback.batch
    BY <1>7 DEF NotifyEvent, NextEvent, NoCallback, TypeOK
  <2>3. /\ QueueEvents' = QueueEvents /\ CallbackEvents' = CallbackEvents
        /\ DispatchEvents' = DispatchEvents
    BY <2>1, <2>2 DEF QueueEvents, CallbackEvents, DispatchEvents
  <2>4. Sorted(queue') /\ Sorted(callback'.batch) /\ SortedBatches(dispatch')
    BY <1>3, <2>1, <2>2
  <2> QED
    BY <1>1, <1>2, <2>3, <2>4, FlowShrinks
<1> QED
  BY <1>4, <1>5, <1>6, <1>7 DEF CallbackStep

LEMMA RunLoopInOrder ==
    ASSUME TypeOK, Flow, RunLoopStep
    PROVE  Flow' /\ \A p \in Paths : told'[p] >= told[p]
<1>1. UNCHANGED <<changes, latent, dispatch, callback>>
  BY DEF RunLoopStep, systemVars
<1>2. /\ LatentEvents' = LatentEvents /\ CallbackEvents' = CallbackEvents
      /\ DispatchEvents' = DispatchEvents
      /\ Sorted(callback'.batch) /\ SortedBatches(dispatch')
      /\ \A p \in Paths : Sorted(latent'[p]) /\ \A e \in EventsOf(latent'[p]) : e.path = p
  BY <1>1 DEF Flow, CallbackEvents, LatentEvents, DispatchEvents
<1>3. queue \in Seq(Items) /\ Sorted(queue) /\ told \in [Paths -> Nat]
  BY DEF TypeOK, Flow
<1>4. CASE Dequeue
  <2>1. item' = Head(queue) /\ queue' = Tail(queue) /\ queue # <<>> /\ told' = told
    BY <1>4 DEF Dequeue
  <2>2. /\ QueueEvents = ItemEvents' \cup QueueEvents'
        /\ Sorted(queue') /\ Before(ItemEvents', QueueEvents')
    BY <1>3, <2>1, TailOrder DEF QueueEvents, ItemEvents
  <2>3. PlacesInOrder'
    BY <1>2, <2>2 DEF Flow, PlacesInOrder, Before
  <2>4. AllEvents' \subseteq AllEvents
    BY <1>2, <2>2 DEF AllEvents
  <2> QED
    BY <1>1, <1>2, <1>3, <2>1, <2>2, <2>3, <2>4 DEF Flow
<1>5. CASE Wait
  BY <1>1, <1>3, <1>5, FlowStays DEF Wait
<1>6. CASE Handle
  <2>1. queue' = queue /\ ItemEvents' = {}
    BY <1>6, ItemsAssumption DEF Handle, HandleEvent, HandleError, HandleFails, ItemEvents
  <2>2. QueueEvents' = QueueEvents /\ Sorted(queue')
    BY <1>3, <2>1 DEF QueueEvents
  <2>3. CASE told' = told
    BY <1>1, <1>2, <1>3, <2>1, <2>2, <2>3, FlowShrinks
  <2>4. CASE told' # told
    <3>1. HandleEvent /\ told' = [told EXCEPT ![item.path] = item.change]
      BY <1>6, <2>4 DEF Handle, HandleEvent, HandleError, HandleFails
    <3>2. item \in Events /\ item.path \in Paths
      BY <1>6, <3>1 DEF Handle, HandleEvent, TypeOK, Events
    <3>3. item \in ItemEvents /\ item \in AllEvents
      BY <3>2 DEF ItemEvents, AllEvents
    <3>4. \A p \in Paths : told'[p] = IF p = item.path THEN item.change ELSE told[p]
      BY <1>3, <3>1
    <3>5. \A p \in Paths : told'[p] >= told[p] /\ told'[p] <= changes
      <4>1. told[item.path] <= item.change /\ item.change <= changes
        BY <3>3 DEF Flow
      <4>2. \A p \in Paths : told[p] \in Nat /\ told[p] <= changes
        BY <1>3 DEF Flow
      <4> QED
        BY <3>2, <3>4, <4>1, <4>2
    <3>6. PlacesInOrder'
      BY <1>2, <2>1, <2>2 DEF Flow, PlacesInOrder, Before
    <3>7. AllEvents' = QueueEvents \cup CallbackEvents \cup DispatchEvents \cup LatentEvents
      BY <1>2, <2>1, <2>2 DEF AllEvents
    <3>8. AllEvents' \subseteq AllEvents /\ AllEvents \subseteq Events
      BY <3>7 DEF AllEvents, ItemEvents, QueueEvents, CallbackEvents, DispatchEvents,
                  BatchEvents, LatentEvents, EventsOf
    <3>9. ASSUME NEW e \in AllEvents' PROVE told'[e.path] <= e.change /\ e.change <= changes
      <4>1. e \in AllEvents /\ e.path \in Paths
        BY <3>8, <3>9 DEF Events
      <4>2. told[e.path] <= e.change /\ e.change <= changes
        BY <4>1 DEF Flow
      <4>3. item.path = e.path => item.change <= e.change
        BY <3>3, <3>7, <3>9 DEF Flow, PlacesInOrder, Before
      <4> QED
        BY <3>4, <4>1, <4>2, <4>3
    <3> QED
      BY <1>1, <1>2, <2>2, <3>5, <3>6, <3>9 DEF Flow
  <2> QED
    BY <2>3, <2>4
<1> QED
  BY <1>4, <1>5, <1>6 DEF RunLoopStep

(* Stopping streams takes events away.                                     *)
LEMMA StoppedBatches ==
    ASSUME TypeOK, NEW paths \in SUBSET Paths, Stop(paths)
    PROVE  /\ Len(dispatch) \in Nat
           /\ dispatch' \in Seq(Seq(Events)) /\ Len(dispatch') = Len(dispatch)
           /\ \A i \in 1 .. Len(dispatch) :
                 \/ dispatch'[i] = dispatch[i]
                 \/ /\ dispatch'[i] = <<>>
                    /\ \E path \in paths : Delivers(dispatch[i], path)
<1>1. dispatch \in Seq(Seq(Events)) /\ dispatch' \in Seq(Seq(Events))
  BY StopTyped DEF TypeOK
<1>2. DOMAIN dispatch = 1 .. Len(dispatch) /\ DOMAIN dispatch' = 1 .. Len(dispatch')
      /\ Len(dispatch) \in Nat /\ Len(dispatch') \in Nat
  BY <1>1, LenProperties
<1>3. CASE UNCHANGED dispatch
  BY <1>1, <1>2, <1>3
<1>4. CASE dispatch' = [i \in DOMAIN dispatch |->
                           IF \E path \in paths : Delivers(dispatch[i], path)
                           THEN <<>> ELSE dispatch[i]]
  <2>1. Len(dispatch') = Len(dispatch)
    BY <1>2, <1>4
  <2> QED
    BY <1>1, <1>2, <1>4, <2>1
<1> QED
  BY <1>1, <1>3, <1>4 DEF Stop

LEMMA StopInOrder ==
    ASSUME TypeOK, Flow, NEW paths \in SUBSET Paths, Stop(paths),
           UNCHANGED <<callback, queue, item, told>>
    PROVE  Flow'
<1>1. /\ Len(dispatch) \in Nat
      /\ dispatch' \in Seq(Seq(Events)) /\ Len(dispatch') = Len(dispatch)
      /\ \A i \in 1 .. Len(dispatch) : dispatch'[i] \in {dispatch[i], <<>>}
  BY StoppedBatches
<1>2. /\ \A i \in 1 .. Len(dispatch) :
            /\ Sorted(dispatch'[i])
            /\ EventsOf(dispatch'[i]) \subseteq EventsOf(dispatch[i])
      /\ \A i, j \in 1 .. Len(dispatch) : i < j =>
            Before(EventsOf(dispatch'[i]), EventsOf(dispatch'[j]))
  <2>1. \A i \in 1 .. Len(dispatch) :
           /\ Sorted(dispatch'[i])
           /\ EventsOf(dispatch'[i]) \subseteq EventsOf(dispatch[i])
    BY <1>1, EmptyOrder DEF Flow, SortedBatches
  <2>2. \A i, j \in 1 .. Len(dispatch) : i < j =>
           Before(EventsOf(dispatch[i]), EventsOf(dispatch[j]))
    BY DEF Flow, SortedBatches
  <2> QED
    BY <2>1, <2>2 DEF Before
<1>3. SortedBatches(dispatch') /\ DispatchEvents' \subseteq DispatchEvents
  BY <1>1, <1>2 DEF SortedBatches, DispatchEvents, BatchEvents
<1>4. \A p \in Paths : /\ Sorted(latent'[p])
                       /\ EventsOf(latent'[p]) \subseteq EventsOf(latent[p])
  BY EmptyOrder DEF Stop, Flow
<1>5. /\ ItemEvents' = ItemEvents /\ QueueEvents' = QueueEvents
      /\ CallbackEvents' = CallbackEvents /\ Sorted(queue') /\ Sorted(callback'.batch)
  BY DEF Flow, ItemEvents, QueueEvents, CallbackEvents
<1>6. changes' = changes
  BY DEF Stop
<1> QED
  BY <1>3, <1>4, <1>5, <1>6, FlowShrinks

LEMMA CallInOrder ==
    ASSUME TypeOK, Flow, CallStep \/ Delete
    PROVE  Flow'
<1>1. UNCHANGED <<callback, item, told>>
  BY DEF CallStep, Delete
<1>2. CASE /\ CallStep
           /\ RegisterFails \/ Register \/ UnregisterNothing \/ Return \/ DispatchSync
              \/ NotifyPill
  BY <1>1, <1>2, FlowStays
  DEF RegisterFails, Register, UnregisterNothing, Return, DispatchSync, NotifyPill,
      InList, systemVars
<1>3. CASE CallStep /\ Unregister
  <2>1. Path \in Paths
    BY <1>3, HeadTailProperties DEF Unregister, InList, Path, TypeOK
  <2> QED
    BY <1>1, <1>3, <2>1, StopInOrder DEF Unregister, InList
<1>4. CASE CallStep /\ ClearWatchPoints
  <2>1. CASE watchPoints = {}
    BY <1>1, <1>4, <2>1, FlowStays DEF ClearWatchPoints, systemVars
  <2>2. CASE watchPoints # {}
    <3>1. PICK path \in watchPoints : Stop({path})
      BY <1>4, <2>2 DEF ClearWatchPoints
    <3>2. {path} \in SUBSET Paths /\ queue' = queue
      BY <1>4 DEF ClearWatchPoints, TypeOK
    <3> QED
      BY <1>1, <3>1, <3>2, StopInOrder
  <2> QED
    BY <2>1, <2>2
<1>5. CASE CallStep /\ EnqueuePill
  <2>1. queue' = Append(queue, PoisonPill) /\ UNCHANGED <<changes, latent, dispatch>>
    BY <1>5 DEF EnqueuePill, Push, systemVars
  <2>2. PoisonPill \in Items /\ {PoisonPill} \cap Events = {}
    BY ItemsAssumption DEF Items
  <2>3. queue \in Seq(Items) /\ Sorted(queue)
    BY DEF TypeOK, Flow
  <2>4. QueueEvents' = QueueEvents /\ Sorted(queue')
    <3>1. Before(EventsOf(queue), {PoisonPill} \cap Events)
      BY <2>2 DEF Before
    <3>2. EventsOf(queue') = EventsOf(queue) \cup ({PoisonPill} \cap Events)
      BY <2>1, <2>2, <2>3, AppendOrder
    <3>3. Sorted(queue')
      BY <2>1, <2>2, <2>3, <3>1, AppendOrder
    <3> QED
      BY <2>2, <3>2, <3>3 DEF QueueEvents
  <2>5. /\ ItemEvents' = ItemEvents /\ CallbackEvents' = CallbackEvents
        /\ DispatchEvents' = DispatchEvents
        /\ Sorted(callback'.batch) /\ SortedBatches(dispatch')
        /\ \A p \in Paths : Sorted(latent'[p])
    BY <1>1, <2>1 DEF Flow, ItemEvents, CallbackEvents, DispatchEvents
  <2> QED
    BY <1>1, <2>1, <2>4, <2>5, FlowShrinks
<1>6. CASE Delete
  <2>1. Stop(watchPoints) /\ watchPoints \in SUBSET Paths /\ queue' = queue
    BY <1>6 DEF Delete, AwaitTermination, TypeOK
  <2> QED
    BY <1>1, <2>1, StopInOrder
<1> QED
  BY <1>2, <1>3, <1>4, <1>5, <1>6 DEF CallStep

-------------------------------------------------------------------------------
LEMMA FlowInit == Init => Flow
<1> SUFFICES ASSUME Init PROVE Flow
  OBVIOUS
<1>1. /\ queue = <<>> /\ callback.batch = <<>> /\ dispatch = <<>>
      /\ changes = 0 /\ item = NoItem
      /\ \A p \in Paths : latent[p] = <<>> /\ told[p] = 0
  BY DEF Init, SystemInit, NoCallback
<1>2. /\ ItemEvents = {} /\ QueueEvents = {} /\ CallbackEvents = {}
      /\ DispatchEvents = {} /\ LatentEvents = {}
  BY <1>1, EmptyOrder, EmptySeq, ItemsAssumption
  DEF ItemEvents, QueueEvents, CallbackEvents, DispatchEvents, BatchEvents, LatentEvents
<1>3. SortedBatches(dispatch)
  BY <1>1, EmptySeq DEF SortedBatches
<1> QED
  BY <1>1, <1>2, <1>3, EmptyOrder DEF Flow, PlacesInOrder, Before, AllEvents

LEMMA FlowNext ==
    TypeOK /\ Flow /\ [Next]_vars => Flow' /\ \A p \in Paths : told'[p] >= told[p]
<1> SUFFICES ASSUME TypeOK, Flow, [Next]_vars
             PROVE  Flow' /\ \A p \in Paths : told'[p] >= told[p]
  OBVIOUS
<1>1. CASE RunLoopStep
  BY <1>1, RunLoopInOrder
<1>2. CASE ~RunLoopStep
  <2>1. told' = told
    BY <1>2 DEF Next, FileSystem, SystemStep, CallbackStep, SpuriousWakeup,
                StartWatching, StopWatching, Shutdown, Begin, CallStep, Delete,
                loopVars, vars
  <2>2. Flow'
    <3>1. CASE SpuriousWakeup \/ StartWatching \/ StopWatching \/ Shutdown \/ UNCHANGED vars
      BY <3>1, FlowStays
      DEF SpuriousWakeup, StartWatching, StopWatching, Shutdown, Begin, systemVars,
          loopVars, vars
    <3> QED
      BY <1>2, <3>1, ChangeInOrder, SystemInOrder, CallbackInOrder, CallInOrder DEF Next
  <2>3. \A p \in Paths : told[p] \in Nat
    BY DEF TypeOK
  <2> QED
    BY <2>1, <2>2, <2>3
<1> QED
  BY <1>1, <1>2

(* The user is told of the changes of a path in the order they happened    *)
(* in, whatever is coalesced or dropped on the way, and although a path    *)
(* that was unwatched and watched again has another stream.                *)
THEOREM EventsStayInOrder == Spec => EventsInOrder
BY FlowInit, FlowNext, TypeCorrect, PTL DEF Spec, EventsInOrder

-------------------------------------------------------------------------------
(* Nothing is lost on the way.                                             *)

(* A batch is of one stream, and what was handled is not kept.             *)
OfOnePath(batch) == \A e, f \in EventsOf(batch) : e.path = f.path

Tidy ==
    /\ \A i \in 1 .. Len(dispatch) : OfOnePath(dispatch[i])
    /\ loop \in {"dequeue", "wait"} => item = NoItem

ErrorPending ==
    failed \/ item = ErrorEvent \/ \E i \in 1 .. Len(queue) : queue[i] = ErrorEvent

Reportable(e) == ~(e.flags \subseteq IGNORED_FLAGS)

(* The events of a path that are not to be ignored stay, come into a later *)
(* event, or are told of.                                                  *)
Stays(p) ==
    \A e \in AllEvents : e.path = p /\ Reportable(e) =>
       \/ \E f \in AllEvents' : f.path = p /\ Reportable(f) /\ f.change >= e.change
       \/ told'[p] >= e.change
       \/ ErrorPending'

LEMMA EventsAreTyped == AllEvents \subseteq Events /\ AllEvents' \subseteq Events
BY DEF AllEvents, ItemEvents, QueueEvents, CallbackEvents, DispatchEvents,
       BatchEvents, LatentEvents, EventsOf

LEMMA KeptStays ==
    ASSUME NEW p \in Paths, \A e \in AllEvents : e.path = p => e \in AllEvents'
    PROVE  Stays(p)
<1>1. \A e \in AllEvents : e.change \in Nat
  BY EventsAreTyped DEF Events
<1>2. \A e \in AllEvents : e.change >= e.change
  BY <1>1
<1> QED
  BY <1>2 DEF Stays

LEMMA StaysDue ==
    ASSUME NEW p \in Paths, NEW n \in Nat, Stays(p),
           told \in [Paths -> Nat], told' \in [Paths -> Nat], told'[p] >= told[p],
           ErrorPending => ErrorPending',
           OnItsWay(p, n) \/ Answered(p, n)
    PROVE  (OnItsWay(p, n) \/ Answered(p, n))'
<1>1. CASE ErrorPending
  BY <1>1 DEF ErrorPending, Answered
<1>2. CASE told[p] >= n
  <2>1. told'[p] >= n
    BY <1>2
  <2> QED
    BY <2>1 DEF Answered
<1>3. CASE OnItsWay(p, n)
  <2>1. PICK e \in AllEvents : e.path = p /\ e.change >= n /\ Reportable(e)
    BY <1>3 DEF OnItsWay, Reportable
  <2>2. e.change \in Nat
    BY EventsAreTyped DEF Events
  <2>3. CASE ErrorPending'
    BY <2>3 DEF ErrorPending, Answered
  <2>4. CASE told'[p] >= e.change
    <3>1. told'[p] >= n
      BY <2>1, <2>2, <2>4
    <3> QED
      BY <3>1 DEF Answered
  <2>5. ASSUME NEW f \in AllEvents', f.path = p, Reportable(f), f.change >= e.change
        PROVE  (OnItsWay(p, n))'
    <3>1. f.change \in Nat
      BY EventsAreTyped DEF Events
    <3>2. f.change >= n
      BY <2>1, <2>2, <2>5, <3>1
    <3> QED
      BY <2>5, <3>2 DEF OnItsWay, Reportable
  <2> QED
    BY <2>1, <2>3, <2>4, <2>5 DEF Stays
<1> QED
  BY <1>1, <1>2, <1>3 DEF Answered, ErrorPending

(* A failure that is to be reported is.                                    *)
LEMMA ErrorStays ==
    ASSUME TypeOK, Tidy, [Next]_vars, ErrorPending
    PROVE  ErrorPending'
<1>1. queue \in Seq(Items)
  BY DEF TypeOK
<1>2. ASSUME NEW x \in Items, queue' = Append(queue, x),
             failed' = failed, item' = item
      PROVE  ErrorPending'
  BY <1>1, <1>2, PushedLast DEF ErrorPending
<1>3. ASSUME UNCHANGED <<queue, failed, item>> PROVE ErrorPending'
  BY <1>3 DEF ErrorPending
<1>4. CASE FileSystem \/ SystemStep \/ SpuriousWakeup \/ StartWatching \/ StopWatching
           \/ Shutdown \/ Delete \/ UNCHANGED vars
  BY <1>3, <1>4 DEF FileSystem, SystemStep, SpuriousWakeup, StartWatching, StopWatching,
                    Shutdown, Begin, Delete, AwaitTermination, loopVars, vars
<1>5. CASE CallbackStep
  <2>1. CASE EnqueueFileEvent
    <3>1. callback.batch \in Seq(Events) /\ callback.batch # <<>>
      BY <2>1 DEF EnqueueFileEvent, TypeOK
    <3>2. Head(callback.batch) \in Items
      BY <3>1, HeadTailProperties DEF Items
    <3> QED
      BY <1>2, <1>5, <2>1, <3>2 DEF CallbackStep, EnqueueFileEvent, Push
  <2>2. CASE EnqueueErrorEvent
    BY <1>2, <1>5, <2>2 DEF CallbackStep, EnqueueErrorEvent, Push, Items
  <2>3. CASE StartCallback \/ NotifyEvent
    BY <1>3, <1>5, <2>3 DEF CallbackStep, StartCallback, NotifyEvent
  <2> QED
    BY <1>5, <2>1, <2>2, <2>3 DEF CallbackStep
<1>6. CASE CallStep
  <2>1. failed' = failed /\ item' = item
    BY <1>6 DEF CallStep
  <2>2. CASE EnqueuePill
    BY <1>2, <2>1, <2>2 DEF EnqueuePill, Push, Items
  <2>3. CASE ~EnqueuePill
    BY <1>3, <1>6, <2>1, <2>3
    DEF CallStep, RegisterFails, Register, Unregister, UnregisterNothing, Return,
        ClearWatchPoints, DispatchSync, NotifyPill, InList
  <2> QED
    BY <2>2, <2>3
<1>7. CASE RunLoopStep /\ Dequeue
  <2>1. /\ item # ErrorEvent /\ queue # <<>> /\ item' = Head(queue)
        /\ queue' = Tail(queue) /\ failed' = failed
    BY <1>7, ItemsAssumption DEF Dequeue, Tidy
  <2>2. ASSUME NEW i \in 1 .. Len(queue), queue[i] = ErrorEvent PROVE ErrorPending'
    <3>1. CASE i = 1
      BY <1>1, <2>1, <2>2, <3>1, HeadTailProperties DEF ErrorPending
    <3>2. CASE i # 1
      <4>1. i - 1 \in 1 .. Len(Tail(queue)) /\ i - 1 + 1 = i
        BY <1>1, <2>1, <3>2, Dequeued, LenProperties
      <4>2. Tail(queue)[i - 1] = queue[i]
        BY <1>1, <2>1, <4>1, Dequeued
      <4> QED
        BY <2>1, <2>2, <4>1, <4>2 DEF ErrorPending
    <3> QED
      BY <3>1, <3>2
  <2> QED
    BY <2>1, <2>2 DEF ErrorPending
<1>8. CASE RunLoopStep /\ Wait
  BY <1>3, <1>8 DEF Wait
<1>9. CASE RunLoopStep /\ Handle
  BY <1>9 DEF Handle, HandleEvent, HandleError, HandleFails, ErrorPending
<1> QED
  BY <1>4, <1>5, <1>6, <1>7, <1>8, <1>9 DEF Next, RunLoopStep

LEMMA TidyInit == Init => Tidy
BY EmptySeq DEF Init, SystemInit, Tidy

LEMMA TidyNext ==
    ASSUME TypeOK, Flow, Tidy, [Next]_vars
    PROVE  Tidy'
<1>1. loop' \in {"dequeue", "wait"} => item' = NoItem
  <2>1. CASE UNCHANGED <<loop, item>>
    BY <2>1 DEF Tidy
  <2>2. CASE RunLoopStep
    BY <2>2 DEF RunLoopStep, Dequeue, Wait, Handle, Tidy
  <2>3. CASE CallbackStep \/ CallStep \/ Delete \/ SpuriousWakeup
    <3>1. item' = item /\ (loop' \in {"dequeue", "wait"} => loop \in {"dequeue", "wait"})
      BY <2>3
      DEF CallbackStep, StartCallback, EnqueueFileEvent, EnqueueErrorEvent, NotifyEvent,
          CallStep, RegisterFails, Register, Unregister, UnregisterNothing, Return,
          ClearWatchPoints, DispatchSync, EnqueuePill, NotifyPill, InList, NotifyOne,
          Delete, AwaitTermination, SpuriousWakeup
    <3> QED
      BY <3>1 DEF Tidy
  <2>4. CASE FileSystem \/ SystemStep \/ StartWatching \/ StopWatching \/ Shutdown
             \/ UNCHANGED vars
    BY <2>1, <2>4 DEF FileSystem, SystemStep, StartWatching, StopWatching, Shutdown, Begin,
                      loopVars, vars
  <2> QED
    BY <2>2, <2>3, <2>4 DEF Next
<1> DEFINE Goal == \A i \in 1 .. Len(dispatch') : OfOnePath(dispatch'[i])
<1>2. ASSUME UNCHANGED dispatch PROVE Goal
  BY <1>2 DEF Tidy
<1>3. dispatch \in Seq(Seq(Events))
  BY DEF TypeOK
<1>4. ASSUME dispatch # <<>>, dispatch' = Tail(dispatch) PROVE Goal
  <2>1. \A i \in 1 .. Len(dispatch') :
           i + 1 \in 1 .. Len(dispatch) /\ dispatch'[i] = dispatch[i + 1]
    BY <1>3, <1>4, HeadTailProperties, LenProperties, EmptySeq
  <2> QED
    BY <2>1 DEF Tidy
<1>5. ASSUME NEW path \in watchPoints, Schedule(path) PROVE Goal
  <2>1. /\ path \in Paths /\ latent[path] \in Seq(Events)
        /\ dispatch' = Append(dispatch, latent[path])
    BY <1>5 DEF Schedule, TypeOK
  <2>2. OfOnePath(latent[path])
    BY <2>1 DEF Flow, OfOnePath
  <2>3. \A i \in 1 .. Len(dispatch') :
           \/ i \in 1 .. Len(dispatch) /\ dispatch'[i] = dispatch[i]
           \/ dispatch'[i] = latent[path]
    BY <1>3, <2>1, AppendProperties, LenProperties
  <2> QED
    BY <2>2, <2>3 DEF Tidy
<1>6. ASSUME NEW paths \in SUBSET Paths, Stop(paths) PROVE Goal
  BY <1>6, StoppedBatches, EmptyOrder DEF Tidy, OfOnePath
<1> HIDE DEF Goal
<1>7. ASSUME SystemStep PROVE Goal
  BY <1>4, <1>5, <1>7 DEF SystemStep, Skip
<1>8. ASSUME CallbackStep PROVE Goal
  BY <1>2, <1>4, <1>8 DEF CallbackStep, StartCallback, EnqueueFileEvent, EnqueueErrorEvent,
                          NotifyEvent, systemVars
<1>9. ASSUME CallStep \/ Delete PROVE Goal
  <2>1. \/ UNCHANGED dispatch
        \/ \E paths \in SUBSET Paths : Stop(paths)
    <3>1. CASE Delete
      BY <3>1 DEF Delete, AwaitTermination, TypeOK
    <3>2. CASE Unregister
      BY <3>2 DEF Unregister, TypeOK
    <3>3. CASE ClearWatchPoints
      BY <3>3 DEF ClearWatchPoints, systemVars, TypeOK
    <3> QED
      BY <1>9, <3>1, <3>2, <3>3
      DEF CallStep, RegisterFails, Register, UnregisterNothing, Return, DispatchSync,
          EnqueuePill, NotifyPill, systemVars
  <2> QED
    BY <1>2, <1>6, <2>1
<1>10. ASSUME \/ FileSystem \/ RunLoopStep \/ SpuriousWakeup \/ StartWatching
              \/ StopWatching \/ Shutdown \/ UNCHANGED vars
       PROVE  Goal
  BY <1>2, <1>10 DEF FileSystem, Change, RunLoopStep, SpuriousWakeup, StartWatching,
                     StopWatching, Shutdown, Begin, systemVars, vars
<1>11. Goal
  BY <1>7, <1>8, <1>9, <1>10 DEF Next
<1> QED
  BY <1>1, <1>11 DEF Tidy, Goal

LEMMA ChangeStays ==
    ASSUME TypeOK, Flow, FileSystem, NEW p \in Paths
    PROVE  Stays(p)
<1>1. PICK path \in watchPoints : Change(path)
  BY DEF FileSystem
<1>2. /\ path \in Paths /\ changes \in Nat
      /\ UNCHANGED <<dispatch, callback, queue, item>>
      /\ latent \in [Paths -> Seq(Events)]
  BY <1>1, ChangesAssumption DEF Change, FileSystem, loopVars, TypeOK
<1>3. PICK flags \in Raised :
         \/ latent' = [latent EXCEPT ![path] =
                          Append(@, Event(path, flags, changes + 1))]
         \/ /\ latent[path] # <<>>
            /\ latent' = [latent EXCEPT ![path][Len(latent[path])] =
                             Coalesced(@, flags, changes + 1)]
  BY <1>1 DEF Change
<1>4. flags \in SUBSET STRING /\ changes + 1 \in Nat
  <2>1. flags \in SUBSET STRING
    BY RaisedAssumption
  <2>2. changes + 1 \in Nat
    BY <1>2
  <2> QED
    BY <2>1, <2>2
<1>5. /\ ItemEvents' = ItemEvents /\ QueueEvents' = QueueEvents
      /\ CallbackEvents' = CallbackEvents /\ DispatchEvents' = DispatchEvents
  BY <1>2 DEF ItemEvents, QueueEvents, CallbackEvents, DispatchEvents
<1> DEFINE q == latent[path]
<1>6. q \in Seq(Events) /\ Len(q) \in Nat
  BY <1>2, LenProperties
<1>7. CASE latent' = [latent EXCEPT ![path] = Append(@, Event(path, flags, changes + 1))]
  <2> DEFINE e == Event(path, flags, changes + 1)
             r == Append(q, e)
  <2>1. e \in Events
    BY <1>2, <1>4, EventIsTyped
  <2> HIDE DEF e
  <2>2. EventsOf(q) \subseteq EventsOf(r)
    <3>1. /\ Len(r) = Len(q) + 1
          /\ \A i \in 1 .. Len(q) : r[i] = q[i]
          /\ r[Len(q) + 1] = e
      BY <1>6, <2>1, AppendProperties
    <3> HIDE DEF r, q
    <3> QED
      BY <1>6, <3>1, GrownEvents
  <2>3. latent' = [latent EXCEPT ![path] = r]
    BY <1>7 DEF e
  <2> HIDE DEF r
  <2>4. \A x \in Paths : EventsOf(latent[x]) \subseteq EventsOf(latent'[x])
    BY <1>2, <2>2, <2>3
  <2>5. AllEvents \subseteq AllEvents'
    BY <1>5, <2>4 DEF AllEvents, LatentEvents
  <2> QED
    BY <2>5, KeptStays
<1>8. CASE /\ q # <<>>
           /\ latent' = [latent EXCEPT ![path][Len(q)] = Coalesced(@, flags, changes + 1)]
  <2> DEFINE last == q[Len(q)]
             next == Coalesced(last, flags, changes + 1)
             r == [q EXCEPT ![Len(q)] = next]
  <2>1. Len(q) \in 1 .. Len(q) /\ last \in Events
    BY <1>6, <1>8, EmptySeq, LenProperties, ElementOfSeq
  <2>2. next \in Events
    <3> HIDE DEF q, last
    <3> QED
      BY <1>4, <2>1, CoalescedIsTyped DEF last
  <2>3. /\ next.path = last.path /\ next.change = changes + 1
        /\ Reportable(last) => Reportable(next)
    BY DEF Coalesced, Event, Reportable
  <2>4. last \in AllEvents
    BY <1>2, <2>1 DEF AllEvents, LatentEvents, EventsOf
  <2>5. last.change <= changes /\ last.change \in Nat
    BY <2>1, <2>4 DEF Flow, Events
  <2> HIDE DEF last, next
  <2>6. latent' = [latent EXCEPT ![path] = r]
    BY <1>8 DEF next, last
  <2>7. /\ Len(r) = Len(q) /\ r[Len(q)] = next
        /\ \A i \in 1 .. Len(q) : i # Len(q) => r[i] = q[i]
    BY <1>6, <2>1, LenProperties
  <2> HIDE DEF r
  <2>8. EventsOf(q) \subseteq EventsOf(r) \cup {last} /\ next \in EventsOf(r)
    BY <2>1, <2>2, <2>7 DEF EventsOf, last
  <2>9. LatentEvents \subseteq LatentEvents' \cup {last} /\ next \in LatentEvents'
    <3>1. \A x \in Paths : latent'[x] = IF x = path THEN r ELSE latent[x]
      BY <1>2, <2>6
    <3> QED
      BY <1>2, <2>8, <3>1 DEF LatentEvents
  <2>10. AllEvents \subseteq AllEvents' \cup {last} /\ next \in AllEvents'
    BY <1>5, <2>9 DEF AllEvents
  <2>11. \A e \in AllEvents : e.change >= e.change
    BY EventsAreTyped DEF Events
  <2>12. next.change >= last.change
    BY <1>2, <2>3, <2>5
  <2> QED
    BY <2>3, <2>10, <2>11, <2>12 DEF Stays
<1> QED
  BY <1>3, <1>7, <1>8

LEMMA SystemStays ==
    ASSUME TypeOK, SystemStep, NEW p \in Paths
    PROVE  Stays(p)
<1>1. /\ ItemEvents' = ItemEvents /\ QueueEvents' = QueueEvents
      /\ CallbackEvents' = CallbackEvents
  BY DEF SystemStep, loopVars, ItemEvents, QueueEvents, CallbackEvents
<1>2. DispatchEvents \cup LatentEvents \subseteq DispatchEvents' \cup LatentEvents'
  <2>1. ASSUME NEW path \in watchPoints, Schedule(path)
        PROVE  DispatchEvents \cup LatentEvents \subseteq DispatchEvents' \cup LatentEvents'
    <3>1. /\ path \in Paths /\ dispatch \in Seq(Seq(Events))
          /\ latent[path] \in Seq(Events)
          /\ dispatch' = Append(dispatch, latent[path])
          /\ \A r \in Paths : latent'[r] = IF r = path THEN <<>> ELSE latent[r]
      BY <2>1 DEF Schedule, TypeOK
    <3>2. /\ \A i \in 1 .. Len(dispatch) :
                i \in 1 .. Len(dispatch') /\ dispatch'[i] = dispatch[i]
          /\ Len(dispatch) + 1 \in 1 .. Len(dispatch')
          /\ dispatch'[Len(dispatch) + 1] = latent[path]
      BY <3>1, AppendProperties, LenProperties
    <3>3. DispatchEvents \cup EventsOf(latent[path]) \subseteq DispatchEvents'
      BY <3>2 DEF DispatchEvents, BatchEvents
    <3> QED
      BY <3>1, <3>3 DEF LatentEvents
  <2>2. CASE Skip
    <3>1. DispatchEvents \subseteq DispatchEvents'
      BY <2>2, TailBatches, EmptyOrder DEF Skip, TypeOK, DispatchEvents
    <3> QED
      BY <2>2, <3>1 DEF Skip, LatentEvents
  <2> QED
    BY <2>1, <2>2 DEF SystemStep
<1> QED
  BY <1>1, <1>2, KeptStays DEF AllEvents

LEMMA CallbackStays ==
    ASSUME TypeOK, CallbackStep, NEW p \in Paths
    PROVE  Stays(p)
<1>1. ItemEvents' = ItemEvents /\ LatentEvents' = LatentEvents
  BY DEF CallbackStep, StartCallback, EnqueueFileEvent, EnqueueErrorEvent, NotifyEvent,
         systemVars, ItemEvents, LatentEvents
<1>2. /\ callback.batch \in Seq(Events) /\ queue \in Seq(Items)
      /\ dispatch \in Seq(Seq(Events))
  BY DEF TypeOK
<1>3. CASE StartCallback
  <2>1. CallbackEvents = {} /\ QueueEvents' = QueueEvents
    BY <1>3, EmptyOrder DEF StartCallback, NoCallback, CallbackEvents, QueueEvents
  <2>2. DispatchEvents \subseteq CallbackEvents' \cup DispatchEvents'
    <3>1. /\ callback'.batch = Head(dispatch) /\ dispatch' = Tail(dispatch)
          /\ dispatch # <<>>
      BY <1>3 DEF StartCallback
    <3> QED
      BY <1>2, <3>1, TailBatches DEF DispatchEvents, CallbackEvents
  <2> QED
    BY <1>1, <2>1, <2>2, KeptStays DEF AllEvents
<1>4. CASE EnqueueFileEvent
  <2> DEFINE e == Head(callback.batch)
  <2>1. /\ queue' = Append(queue, e) /\ callback'.batch = Tail(callback.batch)
        /\ dispatch' = dispatch /\ callback.batch # <<>>
    BY <1>4 DEF EnqueueFileEvent, Push, systemVars, TypeOK
  <2>2. e \in Events /\ e \in Items
    BY <1>2, <2>1, HeadTailProperties DEF Items
  <2>3. {e} \cap Events = {e}
    BY <2>2
  <2> HIDE DEF e
  <2>4. CallbackEvents = {e} \cup CallbackEvents'
    <3>1. EventsOf(callback.batch)
             = ({Head(callback.batch)} \cap Events) \cup EventsOf(Tail(callback.batch))
      <4>1. callback.batch \in Seq(Events) /\ callback.batch # <<>>
        BY <1>2, <2>1
      <4> QED
        BY <4>1, TailOrder, Zenon
    <3> QED
      BY <2>1, <2>3, <3>1 DEF CallbackEvents, e
  <2>5. QueueEvents' = QueueEvents \cup {e}
    <3>1. /\ Len(queue) \in Nat /\ Len(queue') = Len(queue) + 1
          /\ \A i \in 1 .. Len(queue) : queue'[i] = queue[i]
          /\ queue'[Len(queue) + 1] = e
      BY <1>2, <2>1, <2>2, AppendProperties, LenProperties
    <3> QED
      BY <2>3, <3>1, GrownEvents DEF QueueEvents
  <2>6. DispatchEvents' = DispatchEvents
    BY <2>1 DEF DispatchEvents
  <2> QED
    BY <1>1, <2>4, <2>5, <2>6, KeptStays DEF AllEvents
<1>5. CASE EnqueueErrorEvent
  <2>1. queue' = Append(queue, ErrorEvent) /\ ErrorEvent \in Items
    BY <1>5 DEF EnqueueErrorEvent, Push, Items
  <2>2. ErrorPending'
    BY <1>2, <2>1, PushedLast DEF ErrorPending
  <2> QED
    BY <2>2 DEF Stays
<1>6. CASE NotifyEvent
  <2>1. UNCHANGED <<queue, dispatch>> /\ callback'.batch = callback.batch
    BY <1>6 DEF NotifyEvent, NextEvent, NoCallback, systemVars, TypeOK
  <2>2. /\ QueueEvents' = QueueEvents /\ CallbackEvents' = CallbackEvents
        /\ DispatchEvents' = DispatchEvents
    BY <2>1 DEF QueueEvents, CallbackEvents, DispatchEvents
  <2> QED
    BY <1>1, <2>2, KeptStays DEF AllEvents
<1> QED
  BY <1>3, <1>4, <1>5, <1>6 DEF CallbackStep

LEMMA ChangeIsReported ==
    ASSUME NEW flags, ~(flags \subseteq IGNORED_FLAGS)
    PROVE  ReportOf(flags) # "none"
BY DEF ReportOf, ChangeType

LEMMA RunLoopStays ==
    ASSUME TypeOK, Tidy, RunLoopStep, NEW p \in Paths
    PROVE  Stays(p)
<1>1. /\ LatentEvents' = LatentEvents /\ CallbackEvents' = CallbackEvents
      /\ DispatchEvents' = DispatchEvents
  BY DEF RunLoopStep, systemVars, CallbackEvents, LatentEvents, DispatchEvents
<1>2. queue \in Seq(Items) /\ told \in [Paths -> Nat]
  BY DEF TypeOK
<1>3. CASE Dequeue
  <2>1. item' = Head(queue) /\ queue' = Tail(queue) /\ queue # <<>> /\ ItemEvents = {}
    BY <1>3, ItemsAssumption DEF Dequeue, Tidy, ItemEvents
  <2>2. QueueEvents = ItemEvents' \cup QueueEvents'
    BY <1>2, <2>1, TailOrder DEF QueueEvents, ItemEvents
  <2> QED
    BY <1>1, <2>1, <2>2, KeptStays DEF AllEvents
<1>4. CASE Wait
  <2>1. ItemEvents' = ItemEvents /\ QueueEvents' = QueueEvents
    BY <1>4 DEF Wait, ItemEvents, QueueEvents
  <2> QED
    BY <1>1, <2>1, KeptStays DEF AllEvents
<1>5. CASE Handle /\ (HandleError \/ HandleFails)
  BY <1>5 DEF HandleError, HandleFails, Stays, ErrorPending
<1>6. CASE Handle /\ HandleEvent
  <2>1. item \in Events /\ QueueEvents' = QueueEvents
    BY <1>6 DEF Handle, HandleEvent, TypeOK, QueueEvents
  <2>2. AllEvents \subseteq AllEvents' \cup {item}
    BY <1>1, <2>1 DEF AllEvents, ItemEvents
  <2>3. \A e \in AllEvents : e.change >= e.change
    BY EventsAreTyped DEF Events
  <2>4. ASSUME item.path = p, Reportable(item) PROVE told'[p] >= item.change
    <3>1. told' = [told EXCEPT ![p] = item.change]
      BY <1>6, <2>4, ChangeIsReported DEF HandleEvent, Reportable
    <3>2. item.change >= item.change
      BY <2>1 DEF Events
    <3> QED
      BY <1>2, <3>1, <3>2
  <2> QED
    BY <2>2, <2>3, <2>4 DEF Stays
<1> QED
  BY <1>3, <1>4, <1>5, <1>6 DEF RunLoopStep, Handle

LEMMA StopStays ==
    ASSUME TypeOK, Flow, Tidy, NEW paths \in SUBSET Paths, Stop(paths),
           UNCHANGED <<callback, item>>, QueueEvents' = QueueEvents,
           NEW p \in Paths \ paths
    PROVE  Stays(p)
<1>1. ItemEvents' = ItemEvents /\ CallbackEvents' = CallbackEvents
  BY DEF ItemEvents, CallbackEvents
<1>2. ASSUME NEW e \in LatentEvents, e.path = p PROVE e \in LatentEvents'
  <2>1. e \in EventsOf(latent[p])
    BY <1>2 DEF LatentEvents, Flow
  <2>2. latent'[p] = latent[p]
    BY DEF Stop
  <2> QED
    BY <2>1, <2>2 DEF LatentEvents
<1>3. ASSUME NEW e \in DispatchEvents, e.path = p PROVE e \in DispatchEvents'
  <2>1. PICK i \in 1 .. Len(dispatch) : e \in EventsOf(dispatch[i])
    BY <1>3 DEF DispatchEvents, BatchEvents
  <2>2. dispatch'[i] = dispatch[i]
    <3> SUFFICES ASSUME NEW path \in paths, Delivers(dispatch[i], path) PROVE FALSE
      BY StoppedBatches
    <3>1. dispatch[i] \in Seq(Events) /\ dispatch[i] # <<>>
      BY <2>1, ElementOfSeq DEF Delivers, TypeOK
    <3>2. Head(dispatch[i]) \in EventsOf(dispatch[i])
      BY <3>1, TailOrder, HeadTailProperties
    <3> QED
      BY <1>3, <2>1, <3>2 DEF Delivers, Tidy, OfOnePath
  <2>3. i \in 1 .. Len(dispatch')
    BY StoppedBatches
  <2> QED
    BY <2>1, <2>2, <2>3 DEF DispatchEvents, BatchEvents
<1> QED
  BY <1>1, <1>2, <1>3, KeptStays DEF AllEvents

LEMMA CallStays ==
    ASSUME TypeOK, Flow, Tidy, CallStep \/ Delete, NEW p \in Paths
    PROVE  Stays(p) \/ p \notin watchPoints'
<1>1. UNCHANGED <<callback, item, told>>
  BY DEF CallStep, Delete
<1>2. QueueEvents \subseteq QueueEvents' /\ (UNCHANGED queue => QueueEvents' = QueueEvents)
  <2>1. CASE UNCHANGED queue
    BY <2>1 DEF QueueEvents
  <2>2. CASE EnqueuePill
    <3>1. queue \in Seq(Items) /\ queue' = Append(queue, PoisonPill) /\ PoisonPill \in Items
      BY <2>2 DEF EnqueuePill, Push, TypeOK, Items
    <3>2. /\ Len(queue) \in Nat /\ Len(queue') = Len(queue) + 1
          /\ \A i \in 1 .. Len(queue) : queue'[i] = queue[i]
          /\ queue'[Len(queue) + 1] = PoisonPill
      BY <3>1, AppendProperties, LenProperties
    <3>3. QueueEvents' = QueueEvents \cup ({PoisonPill} \cap Events)
      BY <3>2, GrownEvents DEF QueueEvents
    <3> QED
      BY <3>3 DEF QueueEvents
  <2> QED
    BY <2>1, <2>2
    DEF CallStep, Delete, RegisterFails, Register, Unregister, UnregisterNothing, Return,
        ClearWatchPoints, DispatchSync, NotifyPill, AwaitTermination, InList
<1>3. CASE UNCHANGED <<latent, dispatch>>
  <2>1. /\ ItemEvents' = ItemEvents /\ CallbackEvents' = CallbackEvents
        /\ DispatchEvents' = DispatchEvents /\ LatentEvents' = LatentEvents
    BY <1>1, <1>3 DEF ItemEvents, CallbackEvents, DispatchEvents, LatentEvents
  <2> QED
    BY <1>2, <2>1, KeptStays DEF AllEvents
<1>4. ASSUME NEW paths \in SUBSET Paths, Stop(paths), UNCHANGED queue,
             watchPoints' \cap paths = {}
      PROVE  Stays(p) \/ p \notin watchPoints'
  BY <1>1, <1>2, <1>4, StopStays
<1>5. CASE Unregister
  <2>1. Path \in watchPoints /\ {Path} \in SUBSET Paths
    BY <1>5 DEF Unregister, TypeOK
  <2> QED
    BY <1>4, <1>5, <2>1 DEF Unregister, InList
<1>6. CASE ClearWatchPoints
  <2>1. CASE watchPoints = {}
    BY <1>3, <1>6, <2>1 DEF ClearWatchPoints, systemVars
  <2>2. CASE watchPoints # {}
    <3>1. PICK path \in watchPoints : watchPoints' = watchPoints \ {path} /\ Stop({path})
      BY <1>6, <2>2 DEF ClearWatchPoints
    <3>2. {path} \in SUBSET Paths /\ queue' = queue
      BY <1>6 DEF ClearWatchPoints, TypeOK
    <3> QED
      BY <1>4, <3>1, <3>2
  <2> QED
    BY <2>1, <2>2
<1>7. CASE Delete
  BY <1>7 DEF Delete, AwaitTermination
<1>8. CASE CallStep /\ (RegisterFails \/ Register \/ UnregisterNothing \/ Return
                        \/ DispatchSync \/ EnqueuePill \/ NotifyPill)
  BY <1>3, <1>8
  DEF RegisterFails, Register, UnregisterNothing, Return, DispatchSync, EnqueuePill,
      NotifyPill, systemVars
<1> QED
  BY <1>5, <1>6, <1>7, <1>8 DEF CallStep

LEMMA StepStays ==
    ASSUME TypeOK, Flow, Tidy, [Next]_vars, NEW p \in Paths
    PROVE  Stays(p) \/ p \notin watchPoints'
<1>1. CASE SpuriousWakeup \/ StartWatching \/ StopWatching \/ Shutdown \/ UNCHANGED vars
  <2>1. UNCHANGED <<latent, dispatch, callback, queue, item>>
    BY <1>1 DEF SpuriousWakeup, StartWatching, StopWatching, Shutdown, Begin, systemVars,
                loopVars, vars
  <2>2. /\ ItemEvents' = ItemEvents /\ CallbackEvents' = CallbackEvents
        /\ DispatchEvents' = DispatchEvents /\ LatentEvents' = LatentEvents
        /\ QueueEvents' = QueueEvents
    BY <2>1 DEF ItemEvents, CallbackEvents, DispatchEvents, LatentEvents, QueueEvents
  <2> QED
    BY <2>2, KeptStays DEF AllEvents
<1> QED
  BY <1>1, ChangeStays, SystemStays, CallbackStays, RunLoopStays, CallStays DEF Next

(* No step takes away a change that is on its way to the user: what the    *)
(* streams coalesce, the dispatch queue batches, a callback enqueues and   *)
(* the run loop handles is told of or replaced by a reported failure, as   *)
(* long as its path is watched.                                            *)
THEOREM ChangesStayDueHolds == Spec => ChangesStayDue
<1> DEFINE Due(p, n) == OnItsWay(p, n) \/ Answered(p, n)
           Step == \A p \in Paths, n \in 1 .. Changes :
                      Due(p, n) => (Due(p, n))' \/ p \notin watchPoints'
<1>1. TypeOK /\ Flow /\ Tidy /\ [Next]_vars => Tidy'
  BY TidyNext
<1>2. TypeOK /\ TypeOK' /\ Flow /\ Tidy /\ [Next]_vars => Step
  <2> SUFFICES ASSUME TypeOK, TypeOK', Flow, Tidy, [Next]_vars,
                      NEW p \in Paths, NEW n \in 1 .. Changes, Due(p, n),
                      p \in watchPoints'
               PROVE  (Due(p, n))'
    OBVIOUS
  <2>1. Stays(p)
    BY StepStays
  <2>2. told \in [Paths -> Nat] /\ told' \in [Paths -> Nat] /\ told'[p] >= told[p]
    BY FlowNext DEF TypeOK
  <2>3. ErrorPending => ErrorPending'
    BY ErrorStays
  <2>4. n \in Nat
    BY ChangesAssumption
  <2> QED
    BY <2>1, <2>2, <2>3, <2>4, StaysDue
<1> QED
  BY <1>1, <1>2, FlowInit, FlowNext, TidyInit, TypeCorrect, PTL DEF Spec, ChangesStayDue
===============================================================================
