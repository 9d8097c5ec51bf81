--------------------------- MODULE AppleServerProofs ---------------------------
(***************************************************************************)
(* Theorems about AppleServer: types, the poison pill, the callbacks, and  *)
(* what coalescing does to the flags of an event.                          *)
(***************************************************************************)
EXTENDS AppleServer, SequenceTheorems, TLAPS

(* What shutdown() has reached: before it is called and until the dispatch *)
(* queue was waited for there is no pill and the run loop does not end in  *)
(* an orderly way; from then on nothing delivers events any more.          *)
Progress ==
    /\ call.stage \in {"start", "stop"} => ~shutdown
    /\ call.stage \in {"clear", "sync", "pill", "notify"} => shutdown
    /\ call.stage = "sync" => watchPoints = {}
    /\ shutdown /\ call.stage \notin {"clear", "sync"} => Quiet
    /\ ~shutdown \/ call.stage \in {"clear", "sync", "pill"} =>
          /\ \A i \in 1 .. Len(queue) : queue[i] # PoisonPill
          /\ loop # "ended"
    /\ \A i \in 1 .. Len(queue) : queue[i] = PoisonPill => i = Len(queue)
    /\ loop = "ended" => queue = <<>>
    /\ deleted => call.stage = "idle"
    /\ dangling => deleted /\ ~shutdown

Inv == TypeOK /\ Progress

-------------------------------------------------------------------------------
(* Types.                                                                  *)

LEMMA EventIsTyped ==
    ASSUME NEW path \in Paths, NEW flags \in SUBSET STRING, NEW change \in Nat
    PROVE  Event(path, flags, change) \in Events
BY DEF Event, Events

LEMMA CoalescedIsTyped ==
    ASSUME NEW event \in Events, NEW flags \in SUBSET STRING, NEW change \in Nat
    PROVE  Coalesced(event, flags, change) \in Events
<1>1. event.path \in Paths /\ event.flags \cup flags \in SUBSET STRING
  BY DEF Events
<1> QED
  BY <1>1, EventIsTyped DEF Coalesced

LEMMA TypeOKInit == Init => TypeOK
<1> SUFFICES ASSUME Init PROVE TypeOK
  OBVIOUS
<1>1. /\ changes \in 0 .. Changes
      /\ calls \in 0 .. Calls
  BY ChangesAssumption, CallsAssumption DEF Init, SystemInit
<1>2. /\ latent \in [Paths -> Seq(Events)]
      /\ dispatch \in Seq(Seq(Events))
      /\ queue \in Seq(Items)
  BY EmptySeq DEF Init, SystemInit
<1>3. /\ callback \in [stage : {"none", "push", "notify"}, batch : Seq(Events)]
      /\ call \in [stage : {"idle", "start", "stop", "clear", "sync", "pill", "notify"},
                   todo : Seq(Paths)]
  BY EmptySeq DEF Init, NoCallback, NoCall
<1> QED
  BY <1>1, <1>2, <1>3 DEF Init, TypeOK, NoCallback

LEMMA ChangeTyped ==
    ASSUME TypeOK, FileSystem
    PROVE  TypeOK'
<1> USE DEF TypeOK, FileSystem, loopVars, userVars
<1>1. PICK path \in watchPoints : Change(path)
  OBVIOUS
<1>2. /\ path \in Paths
      /\ changes + 1 \in 0 .. Changes
      /\ changes' = changes + 1
      /\ UNCHANGED dispatch
  BY <1>1, ChangesAssumption DEF Change
<1>3. PICK flags \in Raised :
         \/ latent' = [latent EXCEPT ![path] =
                          Append(@, Event(path, flags, changes + 1))]
         \/ /\ latent[path] # <<>>
            /\ latent' = [latent EXCEPT ![path][Len(latent[path])] =
                             Coalesced(@, flags, changes + 1)]
  BY <1>1 DEF Change
<1>4. flags \in SUBSET STRING
  BY <1>3, RaisedAssumption
<1>5. latent' \in [Paths -> Seq(Events)]
  <2>1. CASE latent' = [latent EXCEPT ![path] =
                           Append(@, Event(path, flags, changes + 1))]
    <3>1. Append(latent[path], Event(path, flags, changes + 1)) \in Seq(Events)
      BY <1>2, <1>4, EventIsTyped, AppendProperties
    <3> QED
      BY <2>1, <3>1, <1>2
  <2>2. CASE /\ latent[path] # <<>>
             /\ latent' = [latent EXCEPT ![path][Len(latent[path])] =
                              Coalesced(@, flags, changes + 1)]
    <3> DEFINE s == latent[path]
    <3>1. s \in Seq(Events) /\ Len(s) \in 1 .. Len(s)
      BY <2>2, <1>2, EmptySeq, LenProperties
    <3>2. s[Len(s)] \in Events
      BY <3>1, ElementOfSeq
    <3>3. Coalesced(s[Len(s)], flags, changes + 1) \in Events
      <4>1. changes + 1 \in Nat
        BY <1>2, ChangesAssumption
      <4> HIDE DEF s, TypeOK
      <4> QED
        BY <3>2, <4>1, <1>4, CoalescedIsTyped
    <3>4. [s EXCEPT ![Len(s)] = Coalesced(s[Len(s)], flags, changes + 1)] \in Seq(Events)
      BY <3>1, <3>3, ExceptSeq
    <3> QED
      BY <2>2, <3>4, <1>2
  <2> QED
    BY <1>3, <2>1, <2>2
<1> QED
  BY <1>2, <1>5

LEMMA SystemTyped ==
    ASSUME TypeOK, SystemStep
    PROVE  TypeOK'
<1> USE DEF TypeOK, SystemStep, loopVars, userVars
<1>1. CASE \E path \in watchPoints : Schedule(path)
  <2>1. PICK path \in watchPoints : Schedule(path)
    BY <1>1
  <2>2. dispatch' \in Seq(Seq(Events)) /\ latent' \in [Paths -> Seq(Events)]
    BY <2>1, AppendProperties, EmptySeq DEF Schedule
  <2> QED
    BY <2>1, <2>2 DEF Schedule
<1>2. CASE Skip
  <2>1. dispatch' \in Seq(Seq(Events))
    BY <1>2, HeadTailProperties DEF Skip
  <2> QED
    BY <1>2, <2>1 DEF Skip
<1> QED
  BY <1>1, <1>2

LEMMA StopTyped ==
    ASSUME TypeOK, NEW paths \in SUBSET Paths, Stop(paths)
    PROVE  /\ changes' \in 0 .. Changes
           /\ latent' \in [Paths -> Seq(Events)]
           /\ dispatch' \in Seq(Seq(Events))
           /\ dispatch = <<>> => dispatch' = <<>>
<1> USE DEF Stop, TypeOK
<1>1. latent' \in [Paths -> Seq(Events)]
  BY EmptySeq
<1> DEFINE Kept == [i \in DOMAIN dispatch |->
                      IF \E path \in paths : Delivers(dispatch[i], path)
                      THEN <<>> ELSE dispatch[i]]
<1>2. Kept \in Seq(Seq(Events))
  <2>1. DOMAIN dispatch = 1 .. Len(dispatch) /\ Len(dispatch) \in Nat
    BY LenProperties
  <2>2. \A i \in 1 .. Len(dispatch) : dispatch[i] \in Seq(Events)
    BY ElementOfSeq
  <2>3. Kept \in [1 .. Len(dispatch) -> Seq(Events)]
    BY <2>1, <2>2, EmptySeq
  <2> QED
    BY <2>1, <2>3
<1>3. dispatch = <<>> => Kept = <<>>
  <2>1. dispatch = <<>> => DOMAIN Kept = 1 .. 0
    BY EmptySeq
  <2> QED
    BY <1>2, <2>1, EmptySeq, LenProperties
<1> QED
  BY <1>1, <1>2, <1>3

LEMMA CallbackTyped ==
    ASSUME TypeOK, CallbackStep
    PROVE  TypeOK'
<1> USE DEF TypeOK, CallbackStep, loopVars, userVars, systemVars
<1>1. dangling' \in BOOLEAN
  OBVIOUS
<1>2. CASE StartCallback
  <2>1. /\ Head(dispatch) \in Seq(Events) \ {<<>>}
        /\ dispatch' \in Seq(Seq(Events))
    BY <1>2, HeadTailProperties DEF StartCallback
  <2> QED
    BY <1>1, <1>2, <2>1 DEF StartCallback
<1>3. CASE EnqueueFileEvent
  <2>1. /\ Head(callback.batch) \in Items
        /\ Tail(callback.batch) \in Seq(Events)
    BY <1>3, HeadTailProperties DEF EnqueueFileEvent, Items
  <2>2. queue' \in Seq(Items)
    BY <1>3, <2>1, AppendProperties DEF EnqueueFileEvent, Push
  <2> QED
    BY <1>1, <1>3, <2>1, <2>2 DEF EnqueueFileEvent
<1>4. CASE EnqueueErrorEvent
  <2>1. queue' \in Seq(Items)
    BY <1>4, AppendProperties DEF EnqueueErrorEvent, Push, Items
  <2> QED
    BY <1>1, <1>4, <2>1, EmptySeq DEF EnqueueErrorEvent
<1>5. CASE NotifyEvent
  <2>1. /\ callback' \in [stage : {"none", "push", "notify"}, batch : Seq(Events)]
        /\ callback'.stage = "push" => callback'.batch # <<>>
        /\ callback'.stage = "none" => callback'.batch = <<>>
    BY <1>5, EmptySeq DEF NotifyEvent, NextEvent, NoCallback
  <2> QED
    BY <1>1, <1>5, <2>1 DEF NotifyEvent, NotifyOne
<1> QED
  BY <1>2, <1>3, <1>4, <1>5

LEMMA RunLoopTyped ==
    ASSUME TypeOK, RunLoopStep
    PROVE  TypeOK'
<1> USE DEF TypeOK, RunLoopStep, loopVars, userVars, systemVars
<1>1. CASE Dequeue
  <2>1. /\ Head(queue) \in Items
        /\ queue' \in Seq(Items)
    BY <1>1, HeadTailProperties DEF Dequeue
  <2> QED
    BY <1>1, <2>1 DEF Dequeue, Items
<1>2. CASE Wait
  BY <1>2 DEF Wait
<1>3. CASE Handle
  <2>1. CASE HandleEvent
    <3>1. item.change \in Nat
      BY <1>3, <2>1 DEF Handle, HandleEvent, Events
    <3>2. told' \in [Paths -> Nat]
      BY <2>1, <3>1 DEF HandleEvent
    <3> QED
      BY <1>3, <2>1, <3>2 DEF Handle, HandleEvent
  <2>2. CASE HandleError
    BY <1>3, <2>2 DEF Handle, HandleError
  <2>3. CASE HandleFails
    BY <1>3, <2>3 DEF Handle, HandleFails
  <2> QED
    BY <1>3, <2>1, <2>2, <2>3 DEF Handle
<1> QED
  BY <1>1, <1>2, <1>3

LEMMA BeginTyped ==
    ASSUME TypeOK, StartWatching \/ StopWatching \/ Shutdown
    PROVE  TypeOK'
<1> USE DEF TypeOK, Begin, loopVars, userVars, systemVars
<1>1. CASE StartWatching
  <2>1. calls' \in 0 .. Calls
    BY <1>1, CallsAssumption DEF StartWatching, Counted
  <2> QED
    BY <1>1, <2>1, RequestsAssumption DEF StartWatching, Counted
<1>2. CASE StopWatching
  <2>1. calls' \in 0 .. Calls
    BY <1>2, CallsAssumption DEF StopWatching, Counted
  <2> QED
    BY <1>2, <2>1, RequestsAssumption DEF StopWatching, Counted
<1>3. CASE Shutdown
  BY <1>3, EmptySeq DEF Shutdown
<1> QED
  BY <1>1, <1>2, <1>3

(* A step of a call moves on in its list of paths, or to another stage.    *)
LEMMA CallTyped ==
    ASSUME TypeOK, CallStep
    PROVE  TypeOK'
<1> USE DEF TypeOK, CallStep, systemVars, At, InList, Path, NextPath
<1>1. NoCall \in [stage : {"idle"}, todo : Seq(Paths)]
  BY EmptySeq DEF NoCall
<1>2. call.todo # <<>> => Head(call.todo) \in Paths /\ Tail(call.todo) \in Seq(Paths)
  BY HeadTailProperties
<1>3. CASE RegisterFails
  BY <1>1, <1>3 DEF RegisterFails
<1>4. CASE Register
  BY <1>2, <1>4 DEF Register
<1>5. CASE Unregister
  <2>1. Stop({Head(call.todo)}) /\ {Head(call.todo)} \in SUBSET Paths
    BY <1>2, <1>5 DEF Unregister
  <2>2. /\ changes' \in 0 .. Changes
        /\ latent' \in [Paths -> Seq(Events)]
        /\ dispatch' \in Seq(Seq(Events))
    BY <2>1, StopTyped
  <2> QED
    BY <1>2, <1>5, <2>2 DEF Unregister
<1>6. CASE UnregisterNothing
  BY <1>2, <1>6 DEF UnregisterNothing
<1>7. CASE Return
  BY <1>1, <1>7 DEF Return
<1>8. CASE ClearWatchPoints
  <2>1. CASE watchPoints = {}
    BY <1>8, <2>1 DEF ClearWatchPoints
  <2>2. CASE watchPoints # {}
    <3>1. PICK path \in watchPoints : watchPoints' = watchPoints \ {path} /\ Stop({path})
      BY <1>8, <2>2 DEF ClearWatchPoints
    <3>2. /\ changes' \in 0 .. Changes
          /\ latent' \in [Paths -> Seq(Events)]
          /\ dispatch' \in Seq(Seq(Events))
      BY <3>1, StopTyped
    <3> QED
      BY <1>8, <2>2, <3>1, <3>2 DEF ClearWatchPoints
  <2> QED
    BY <2>1, <2>2
<1>9. CASE DispatchSync
  BY <1>9 DEF DispatchSync
<1>10. CASE EnqueuePill
  <2>1. queue' \in Seq(Items)
    BY <1>10, AppendProperties DEF EnqueuePill, Push, Items
  <2> QED
    BY <1>10, <2>1 DEF EnqueuePill
<1>11. CASE NotifyPill
  BY <1>1, <1>11 DEF NotifyPill, NotifyOne
<1> QED
  BY <1>3, <1>4, <1>5, <1>6, <1>7, <1>8, <1>9, <1>10, <1>11

LEMMA DeleteTyped ==
    ASSUME TypeOK, Delete
    PROVE  TypeOK'
<1>1. /\ changes' \in 0 .. Changes
      /\ latent' \in [Paths -> Seq(Events)]
      /\ dispatch' \in Seq(Seq(Events))
  BY StopTyped DEF Delete, AwaitTermination, TypeOK
<1> QED
  BY <1>1 DEF TypeOK, Delete, AwaitTermination

LEMMA TypeOKNext == TypeOK /\ [Next]_vars => TypeOK'
<1> SUFFICES ASSUME TypeOK, [Next]_vars PROVE TypeOK'
  OBVIOUS
<1>1. CASE SpuriousWakeup
  BY <1>1 DEF TypeOK, SpuriousWakeup, userVars, systemVars
<1>2. CASE UNCHANGED vars
  BY <1>2 DEF TypeOK, vars, loopVars, userVars, systemVars
<1> QED
  BY <1>1, <1>2, ChangeTyped, SystemTyped, CallbackTyped, RunLoopTyped, BeginTyped,
     CallTyped, DeleteTyped DEF Next

(* Every variable of the macOS server keeps its type.                      *)
THEOREM TypeCorrect == Spec => []TypeOK
BY TypeOKInit, TypeOKNext, PTL DEF Spec

-------------------------------------------------------------------------------
(* The poison pill and the callbacks.                                      *)

(* A push puts its item last; a dequeue takes an item away.                *)
LEMMA PushedLast ==
    ASSUME NEW q \in Seq(Items), NEW x \in Items
    PROVE  LET r == Append(q, x)
           IN  /\ Len(r) = Len(q) + 1
               /\ \A i \in 1 .. Len(r) : r[i] = IF i = Len(r) THEN x ELSE q[i]
BY AppendProperties, LenProperties

LEMMA Dequeued ==
    ASSUME NEW q \in Seq(Items), q # <<>>
    PROVE  /\ Tail(q) \in Seq(Items)
           /\ Len(Tail(q)) = Len(q) - 1
           /\ \A i \in 1 .. Len(Tail(q)) : Tail(q)[i] = q[i + 1]
           /\ Head(q) = q[1]
           /\ Len(q) \in Nat \ {0}
BY HeadTailProperties, LenProperties, EmptySeq

LEMMA ProgressInit == Init => Progress
BY EmptySeq, LenProperties
   DEF Init, SystemInit, Progress, Quiet, NoCall, NoCallback

LEMMA CallbackProgress ==
    ASSUME TypeOK, Progress, CallbackStep
    PROVE  Progress'
<1> USE DEF CallbackStep, userVars
<1>1. ~Quiet
  BY DEF Quiet, StartCallback, EnqueueFileEvent, EnqueueErrorEvent, NotifyEvent, NoCallback
<1>2. /\ ~shutdown \/ call.stage \in {"clear", "sync"}
      /\ \A i \in 1 .. Len(queue) : queue[i] # PoisonPill
      /\ loop # "ended"
      /\ deleted => ~shutdown
  BY <1>1 DEF Progress
<1>3. \A i \in 1 .. Len(queue') : queue'[i] # PoisonPill
  <2>1. ASSUME NEW x \in Items \ {PoisonPill}, Push(x)
        PROVE  \A i \in 1 .. Len(queue') : queue'[i] # PoisonPill
    BY <1>2, <2>1, PushedLast DEF Push, TypeOK
  <2>2. CASE EnqueueFileEvent
    <3>1. Head(callback.batch) \in Items \ {PoisonPill}
      BY <2>2, HeadTailProperties, ItemsAssumption DEF EnqueueFileEvent, TypeOK, Items
    <3> QED
      BY <2>1, <2>2, <3>1 DEF EnqueueFileEvent
  <2>3. CASE EnqueueErrorEvent
    BY <2>1, <2>3, ItemsAssumption DEF EnqueueErrorEvent, Items
  <2>4. CASE StartCallback \/ NotifyEvent
    BY <1>2, <2>4 DEF StartCallback, NotifyEvent
  <2> QED
    BY <2>2, <2>3, <2>4
<1>4. loop' # "ended"
  BY <1>2 DEF StartCallback, EnqueueFileEvent, EnqueueErrorEvent, NotifyEvent, NotifyOne
<1> QED
  BY <1>2, <1>3, <1>4 DEF Progress

LEMMA RunLoopProgress ==
    ASSUME TypeOK, Progress, RunLoopStep
    PROVE  Progress'
<1> USE DEF RunLoopStep, userVars, systemVars
<1>1. Quiet' = Quiet
  BY DEF Quiet
<1>2. CASE Dequeue
  <2>1. /\ queue \in Seq(Items) /\ queue # <<>> /\ queue' = Tail(queue)
        /\ item' = Head(queue)
        /\ loop' = IF item' = PoisonPill THEN "ended" ELSE "handle"
    BY <1>2 DEF Dequeue, TypeOK
  <2>2. ASSUME NEW i \in 1 .. Len(queue')
        PROVE  i + 1 \in 1 .. Len(queue) /\ queue'[i] = queue[i + 1]
    BY <2>1, Dequeued
  <2>3. \A i \in 1 .. Len(queue') : queue'[i] = PoisonPill => i = Len(queue')
    BY <2>1, <2>2, Dequeued DEF Progress
  <2>4. loop' = "ended" => queue' = <<>>
    <3>1. 1 \in 1 .. Len(queue) /\ Head(queue) = queue[1]
      BY <2>1, Dequeued
    <3>2. loop' = "ended" => Len(queue) = 1
      BY <2>1, <3>1 DEF Progress
    <3> QED
      BY <2>1, <3>2, Dequeued, EmptySeq
  <2>5. ASSUME \A i \in 1 .. Len(queue) : queue[i] # PoisonPill
        PROVE  /\ \A i \in 1 .. Len(queue') : queue'[i] # PoisonPill
               /\ loop' # "ended"
    BY <2>1, <2>2, <2>5, Dequeued
  <2> QED
    BY <1>1, <2>3, <2>4, <2>5 DEF Progress
<1>3. CASE Wait
  BY <1>1, <1>3 DEF Wait, Progress
<1>4. CASE Handle
  BY <1>1, <1>4 DEF Handle, HandleEvent, HandleError, HandleFails, Progress
<1> QED
  BY <1>2, <1>3, <1>4

(* Nothing is put into the dispatch queue for a path that is not watched.  *)
LEMMA EnvironmentProgress ==
    ASSUME TypeOK, Progress, FileSystem \/ SystemStep
    PROVE  Progress'
<1> USE DEF loopVars, userVars
<1>1. Quiet => Quiet'
  BY HeadTailProperties DEF FileSystem, SystemStep, Change, Schedule, Skip, Quiet
<1>2. UNCHANGED <<watchPoints, call, shutdown, queue, loop, deleted, dangling>>
  BY DEF FileSystem, SystemStep
<1> QED
  BY <1>1, <1>2 DEF Progress

LEMMA BeginProgress ==
    ASSUME TypeOK, Progress, StartWatching \/ StopWatching \/ Shutdown
    PROVE  Progress'
<1> USE DEF Begin, loopVars, systemVars
<1>1. /\ ~shutdown /\ ~deleted
      /\ UNCHANGED <<queue, loop, deleted, dangling>>
      /\ \/ call'.stage \in {"start", "stop"} /\ ~shutdown'
         \/ call'.stage = "clear" /\ shutdown'
  BY DEF StartWatching, StopWatching, Shutdown, Counted
<1> QED
  BY <1>1 DEF Progress

(* A call before shutdown() moves no pill.                                 *)
LEMMA WatchProgress ==
    ASSUME TypeOK, Progress, CallStep,
           RegisterFails \/ Register \/ Unregister \/ UnregisterNothing \/ Return
    PROVE  Progress'
<1> USE DEF CallStep, systemVars, At, InList, NextPath
<1>1. /\ UNCHANGED <<queue, loop, deleted, dangling, shutdown>>
      /\ call.stage \in {"start", "stop"}
      /\ call'.stage \in {"start", "stop", "idle"}
  BY DEF RegisterFails, Register, Unregister, UnregisterNothing, Return, NoCall, TypeOK
<1> QED
  BY <1>1 DEF Progress

(* shutdown(): when the watch points are gone and the dispatch queue was   *)
(* waited for, nothing is left that could put events into the queue.       *)
LEMMA ShutdownProgress ==
    ASSUME TypeOK, Progress, CallStep,
           ClearWatchPoints \/ DispatchSync \/ EnqueuePill \/ NotifyPill
    PROVE  Progress'
<1> USE DEF CallStep, systemVars, At
<1>1. CASE ClearWatchPoints
  <2>1. /\ UNCHANGED <<queue, loop, deleted, dangling, shutdown>>
        /\ call.stage = "clear" /\ call'.stage \in {"clear", "sync"}
    BY <1>1 DEF ClearWatchPoints, TypeOK
  <2>2. call'.stage = "sync" => watchPoints' = {}
    BY <1>1, <2>1 DEF ClearWatchPoints
  <2> QED
    BY <2>1, <2>2 DEF Progress
<1>2. CASE DispatchSync
  <2>1. /\ UNCHANGED <<queue, loop, deleted, dangling, shutdown>>
        /\ call.stage = "sync" /\ call'.stage = "pill"
    BY <1>2 DEF DispatchSync, TypeOK
  <2>2. Quiet'
    BY <1>2 DEF DispatchSync, Progress, Quiet
  <2> QED
    BY <2>1, <2>2 DEF Progress
<1>3. CASE EnqueuePill
  <2>1. /\ UNCHANGED <<loop, deleted, dangling, shutdown>>
        /\ call.stage = "pill" /\ call'.stage = "notify"
        /\ queue' = Append(queue, PoisonPill)
    BY <1>3 DEF EnqueuePill, Push, TypeOK
  <2>2. Quiet' = Quiet
    BY <1>3 DEF EnqueuePill, Quiet
  <2>3. \A i \in 1 .. Len(queue') : queue'[i] = PoisonPill => i = Len(queue')
    <3>1. PoisonPill \in Items /\ queue \in Seq(Items)
      BY DEF Items, TypeOK
    <3>2. \A i \in 1 .. Len(queue) : queue[i] # PoisonPill
      BY <2>1 DEF Progress
    <3> QED
      BY <2>1, <3>1, <3>2, PushedLast, LenProperties
  <2> QED
    BY <2>1, <2>2, <2>3 DEF Progress
<1>4. CASE NotifyPill
  <2>1. /\ UNCHANGED <<queue, deleted, dangling, shutdown>>
        /\ call.stage = "notify" /\ call' = NoCall
        /\ loop' = "ended" => loop = "ended"
    BY <1>4 DEF NotifyPill, NotifyOne
  <2>2. Quiet' = Quiet
    BY <1>4 DEF NotifyPill, Quiet
  <2> QED
    BY <2>1, <2>2 DEF Progress, NoCall
<1> QED
  BY <1>1, <1>2, <1>3, <1>4

LEMMA DeleteProgress ==
    ASSUME TypeOK, Progress, Delete
    PROVE  Progress'
<1>1. Quiet => Quiet'
  BY StopTyped DEF Delete, AwaitTermination, Quiet, TypeOK
<1> QED
  BY <1>1 DEF Progress, Delete, AwaitTermination, NoCall

LEMMA ProgressNext == Inv /\ [Next]_vars => Progress'
<1> SUFFICES ASSUME TypeOK, Progress, [Next]_vars PROVE Progress'
  BY DEF Inv
<1>1. CASE CallStep
  BY <1>1, WatchProgress, ShutdownProgress DEF CallStep
<1>2. CASE SpuriousWakeup
  BY <1>2 DEF SpuriousWakeup, Progress, Quiet, userVars, systemVars
<1>3. CASE UNCHANGED vars
  BY <1>3 DEF Progress, Quiet, vars, loopVars, userVars, systemVars
<1> QED
  BY <1>1, <1>2, <1>3, EnvironmentProgress, CallbackProgress, RunLoopProgress,
     BeginProgress, DeleteProgress DEF Next

LEMMA InvHolds == Spec => []Inv
<1>1. Init => Inv
  BY TypeOKInit, ProgressInit DEF Inv
<1>2. Inv /\ [Next]_vars => Inv'
  BY TypeOKNext, ProgressNext DEF Inv
<1> QED
  BY <1>1, <1>2, PTL DEF Spec

(* Nothing follows the poison pill, and nothing can: every event that a    *)
(* callback was given before shutdown() is handled before the run loop     *)
(* ends.                                                                   *)
THEOREM PillIsLastHolds == Spec => []PillIsLast
<1>1. Inv => PillIsLast
  <2> SUFFICES ASSUME TypeOK, Progress PROVE PillIsLast
    BY DEF Inv
  <2>1. ASSUME NEW i \in 1 .. Len(queue), queue[i] = PoisonPill
        PROVE  i = Len(queue) /\ Quiet
    BY <2>1 DEF Progress
  <2>2. loop = "ended" => queue = <<>> /\ Quiet
    BY DEF Progress
  <2> QED
    BY <2>1, <2>2 DEF PillIsLast
<1> QED
  BY <1>1, InvHolds, PTL

(* After shutdown() no callback uses the server that was deleted.          *)
THEOREM CallbacksFindServerHolds == Spec => []CallbacksFindServer
<1>1. Inv => CallbacksFindServer
  BY DEF Inv, Progress, CallbacksFindServer
<1> QED
  BY <1>1, InvHolds, PTL

-------------------------------------------------------------------------------
(* The run loop and those who wake it up.                                  *)

PillQueued == \E i \in 1 .. Len(queue) : queue[i] = PoisonPill

LEMMA PillStays ==
    ASSUME TypeOK, NEW x \in Items, queue' = Append(queue, x)
    PROVE  /\ PillQueued => PillQueued'
           /\ x = PoisonPill => PillQueued'
<1>1. queue \in Seq(Items) /\ Len(queue) \in Nat
  BY LenProperties DEF TypeOK
<1>2. /\ Len(queue') = Len(queue) + 1 /\ queue'[Len(queue')] = x
      /\ \A i \in 1 .. Len(queue) : queue'[i] = queue[i]
  BY <1>1, AppendProperties
<1>3. Len(queue') \in 1 .. Len(queue') /\ \A i \in 1 .. Len(queue) : i \in 1 .. Len(queue')
  BY <1>1, <1>2
<1> QED
  BY <1>2, <1>3 DEF PillQueued

LEMMA CallbackReaches ==
    ASSUME TypeOK, RunLoopIsReached, CallbackStep
    PROVE  RunLoopIsReached'
<1> USE DEF CallbackStep, userVars
<1>1. CASE StartCallback \/ NotifyEvent
  <2>1. UNCHANGED <<shutdown, call, queue>>
    BY <1>1 DEF StartCallback, NotifyEvent
  <2>2. \/ loop' = loop /\ callback.stage # "notify"
        \/ loop' # "wait" /\ (loop \in {"ended", "failed"} => loop' = loop)
    BY <1>1 DEF StartCallback, NotifyEvent, NotifyOne, NoCallback
  <2> QED
    BY <2>1, <2>2 DEF RunLoopIsReached
<1>2. CASE EnqueueFileEvent \/ EnqueueErrorEvent
  <2>1. callback'.stage = "notify" /\ loop' = loop
    BY <1>2 DEF EnqueueFileEvent, EnqueueErrorEvent
  <2>2. PillQueued => PillQueued'
    <3>1. CASE EnqueueFileEvent
      <4>1. Head(callback.batch) \in Items
        BY <3>1, HeadTailProperties DEF EnqueueFileEvent, TypeOK, Items
      <4> QED
        BY <3>1, <4>1, PillStays DEF EnqueueFileEvent, Push
    <3>2. CASE EnqueueErrorEvent
      BY <3>2, PillStays DEF EnqueueErrorEvent, Push, Items
    <3> QED
      BY <1>2, <3>1, <3>2
  <2> QED
    BY <2>1, <2>2 DEF PillQueued, RunLoopIsReached
<1> QED
  BY <1>1, <1>2

LEMMA RunLoopReaches ==
    ASSUME TypeOK, RunLoopIsReached, RunLoopStep
    PROVE  RunLoopIsReached'
<1> USE DEF RunLoopStep, userVars
<1>1. CASE Dequeue
  <2>1. loop' # "wait"
    BY <1>1 DEF Dequeue
  <2>2. ASSUME NEW i \in 1 .. Len(queue), queue[i] = PoisonPill
        PROVE  loop' = "ended" \/ PillQueued'
    <3>1. queue \in Seq(Items) /\ queue # <<>> /\ queue' = Tail(queue)
      BY <1>1 DEF Dequeue, TypeOK
    <3>2. CASE i = 1
      BY <1>1, <2>2, <3>1, <3>2, Dequeued DEF Dequeue
    <3>3. CASE i # 1
      <4>1. i - 1 \in 1 .. Len(queue') /\ i - 1 + 1 = i
        BY <3>1, <3>3, Dequeued
      <4>2. queue'[i - 1] = queue[i]
        BY <3>1, <4>1, Dequeued
      <4> QED
        BY <2>2, <4>1, <4>2 DEF PillQueued
    <3> QED
      BY <3>2, <3>3
  <2>3. loop = "dequeue" /\ UNCHANGED <<call, shutdown>>
    BY <1>1 DEF Dequeue
  <2> QED
    BY <2>1, <2>2, <2>3 DEF RunLoopIsReached, PillQueued
<1>2. CASE Wait
  BY <1>2 DEF Wait, RunLoopIsReached
<1>3. CASE Handle
  BY <1>3 DEF Handle, HandleEvent, HandleError, HandleFails, RunLoopIsReached
<1> QED
  BY <1>1, <1>2, <1>3

LEMMA CallReaches ==
    ASSUME TypeOK, RunLoopIsReached, CallStep
    PROVE  RunLoopIsReached'
<1> USE DEF CallStep
<1>1. CASE EnqueuePill
  <2>1. PillQueued'
    BY <1>1, PillStays DEF EnqueuePill, Push, Items
  <2> QED
    BY <1>1, <2>1 DEF EnqueuePill, RunLoopIsReached, PillQueued, TypeOK
<1>2. CASE NotifyPill
  BY <1>2 DEF NotifyPill, NotifyOne, At, RunLoopIsReached
<1>3. CASE RegisterFails \/ Register \/ Unregister \/ UnregisterNothing \/ Return
  BY <1>3
  DEF RegisterFails, Register, Unregister, UnregisterNothing, Return, InList, At, NextPath,
      NoCall, TypeOK, RunLoopIsReached
<1>4. CASE ClearWatchPoints \/ DispatchSync
  BY <1>4 DEF ClearWatchPoints, DispatchSync, At, TypeOK, RunLoopIsReached
<1> QED
  BY <1>1, <1>2, <1>3, <1>4

(* No wakeup of the run loop is lost: when it waits although there is an   *)
(* item, whoever pushed it has not notified yet.  After shutdown() the     *)
(* poison pill is on its way until the run loop has ended.                 *)
THEOREM RunLoopIsReachedHolds == Spec => []RunLoopIsReached
<1>1. Init => RunLoopIsReached
  BY DEF Init, RunLoopIsReached
<1>2. TypeOK /\ RunLoopIsReached /\ [Next]_vars => RunLoopIsReached'
  <2> SUFFICES ASSUME TypeOK, RunLoopIsReached, [Next]_vars PROVE RunLoopIsReached'
    OBVIOUS
  <2>1. CASE FileSystem \/ SystemStep \/ SpuriousWakeup \/ UNCHANGED vars
    BY <2>1 DEF FileSystem, SystemStep, SpuriousWakeup, RunLoopIsReached, vars, loopVars,
                userVars
  <2>2. CASE StartWatching \/ StopWatching \/ Shutdown
    BY <2>2 DEF StartWatching, StopWatching, Shutdown, Counted, Begin, NoCall,
                RunLoopIsReached, loopVars
  <2>3. CASE Delete
    BY <2>3 DEF Delete, AwaitTermination, RunLoopIsReached
  <2> QED
    BY <2>1, <2>2, <2>3, CallbackReaches, RunLoopReaches, CallReaches DEF Next
<1> QED
  BY <1>1, <1>2, TypeCorrect, PTL DEF Spec

-------------------------------------------------------------------------------
(* Coalescing.                                                             *)

(* An event that is reported for what its flags say is still reported when *)
(* the flags of another change are added to them: not ignored, an overflow *)
(* if it was one, and never as unknown for the flags that came in.         *)
THEOREM CoalescedIsReported ==
    ASSUME NEW flags, NEW more
    PROVE  LET both == flags \cup more
           IN  /\ ReportOf(flags) # "none" => ReportOf(both) # "none"
               /\ ReportOf(flags) = "overflow" => ReportOf(both) = "overflow"
               /\ ReportOf(flags) \notin {"none", "unknown"} => ReportOf(both) # "unknown"
<1> DEFINE both == flags \cup more
<1>1. flags \subseteq both
  OBVIOUS
<1> HIDE DEF both
<1>2. ~(flags \subseteq IGNORED_FLAGS) => ~(both \subseteq IGNORED_FLAGS)
  BY <1>1
<1>3. ChangeType(flags) # "unknown" => ChangeType(both) # "unknown"
  <2>1. ASSUME ChangeType(both) = "unknown"
        PROVE  /\ both \cap InvalidatingFlags = {} /\ both \cap MetadataFlags = {}
               /\ both \cap {"ItemRenamed", "ItemModified", "ItemRemoved", "ItemCreated"} = {}
    BY <2>1 DEF ChangeType
  <2>2. ASSUME /\ flags \cap InvalidatingFlags = {} /\ flags \cap MetadataFlags = {}
               /\ flags \cap {"ItemRenamed", "ItemModified", "ItemRemoved", "ItemCreated"} = {}
        PROVE  ChangeType(flags) = "unknown"
    BY <2>2 DEF ChangeType
  <2> QED
    BY <1>1, <2>1, <2>2
<1>4. ReportOf(flags) # "none" => ~(flags \subseteq IGNORED_FLAGS)
  BY DEF ReportOf
<1>5. \A f : ChangeType(f) \notin {"none", "overflow"}
  BY DEF ChangeType
<1>6. ReportOf(flags) # "none" => ReportOf(both) # "none"
  BY <1>2, <1>4, <1>5 DEF ReportOf
<1>7. ReportOf(flags) = "overflow" => ReportOf(both) = "overflow"
  BY <1>1, <1>2, <1>4, <1>5 DEF ReportOf
<1>8. ReportOf(flags) \notin {"none", "unknown"} => ReportOf(both) # "unknown"
  BY <1>1, <1>3, <1>4, <1>5 DEF ReportOf
<1> QED
  BY <1>6, <1>7, <1>8 DEF both
===============================================================================
