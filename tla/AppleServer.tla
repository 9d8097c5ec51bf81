------------------------------ MODULE AppleServer ------------------------------
(***************************************************************************)
(* The server of apple_fsnotifier.cpp.  The callbacks of its streams are   *)
(* executed by a dispatch queue, whose thread is unknown to the JVM: they  *)
(* put the events into a BlockingQueue, and the run loop's thread takes    *)
(* them out and reports them.  The user's thread creates and destroys the  *)
(* streams.  A poison pill in the BlockingQueue ends the run loop, and     *)
(* whoever awaits its termination deletes the server.                      *)
(*                                                                         *)
(* There is one user: a FileWatcher is not to be shared by threads.        *)
(***************************************************************************)
EXTENDS FSEvents

CONSTANTS
    ErrorEvent, PoisonPill,   \* the items of the queue that are no FileEvent
    NoItem,
    Requests,   \* the lists of paths the user passes to a call
    Calls       \* bound: how many calls the user makes

ASSUME ItemsAssumption ==
    /\ ErrorEvent # PoisonPill /\ ErrorEvent # NoItem /\ PoisonPill # NoItem
    /\ \A x \in {ErrorEvent, PoisonPill, NoItem} : x \notin Events
ASSUME RequestsAssumption == Requests \subseteq Seq(Paths)
ASSUME CallsAssumption == Calls \in Nat

VARIABLES
    watchPoints,  \* Server::watchPoints, each with its running stream
    callback,     \* the batch whose callback the dispatch queue executes
    queue,        \* Server::eventQueue
    loop,         \* where the run loop is
    item,         \* what it took out of the queue last
    deleted,      \* the server was deleted
    dangling,     \* a callback used the deleted server
    call,         \* the call of the user
    calls,        \* calls left
    shutdown,     \* Java's flag
    told,         \* history: the last change the user was told of, by path
    failed        \* history: a failure was reported, or ended the run loop

loopVars == <<loop, item, told, failed>>
userVars == <<watchPoints, deleted, call, calls, shutdown>>
vars == <<systemVars, callback, queue, dangling, loopVars, userVars>>

NoCallback == [stage |-> "none", batch |-> <<>>]
NoCall == [stage |-> "idle", todo |-> <<>>]

Init ==
    /\ SystemInit
    /\ watchPoints = {}
    /\ callback = NoCallback
    /\ queue = <<>>
    /\ loop = "dequeue"
    /\ item = NoItem
    /\ deleted = FALSE
    /\ dangling = FALSE
    /\ call = NoCall
    /\ calls = Calls
    /\ shutdown = FALSE
    /\ told = [p \in Paths |-> 0]
    /\ failed = FALSE

FileSystem ==
    /\ \E path \in watchPoints : Change(path)
    /\ UNCHANGED <<callback, queue, dangling, loopVars, userVars>>

-------------------------------------------------------------------------------
(* BlockingQueue: enqueue pushes under the lock, and notifies when it has  *)
(* released it.  dequeue tests for an item before it waits and whenever it *)
(* wakes up; while it tests, it has the lock.                              *)

(* Fault: the new item is pushed to the front.                             *)
PushFront(x) == queue' = <<x>> \o queue

Push(x) == queue' = Append(queue, x)

(* Fault: nobody is notified.                                              *)
NotifyNobody == UNCHANGED loop

NotifyOne == loop' = IF loop = "wait" THEN "dequeue" ELSE loop

Dequeue ==
    /\ loop = "dequeue"
    /\ queue # <<>>
    /\ item' = Head(queue)
    /\ queue' = Tail(queue)
    /\ loop' = IF item' = PoisonPill THEN "ended" ELSE "handle"
    /\ UNCHANGED <<told, failed>>

Wait ==
    /\ loop = "dequeue"
    /\ queue = <<>>
    /\ loop' = "wait"
    /\ UNCHANGED <<queue, item, told, failed>>

-------------------------------------------------------------------------------
(* The dispatch queue.                                                     *)

SystemStep ==
    /\ \/ \E path \in watchPoints : Schedule(path)
       \/ callback = NoCallback /\ Skip
    /\ UNCHANGED <<callback, queue, dangling, loopVars, userVars>>

(* handleEventsCallback, with the server the stream was created for.       *)
StartCallback ==
    /\ callback = NoCallback
    /\ dispatch # <<>>
    /\ Head(dispatch) # <<>>
    /\ callback' = [stage |-> "push", batch |-> Head(dispatch)]
    /\ dispatch' = Tail(dispatch)
    /\ UNCHANGED <<changes, latent, queue, loop>>

EnqueueFileEvent ==
    /\ callback.stage = "push"
    /\ Push(Head(callback.batch))
    /\ callback' = [stage |-> "notify", batch |-> Tail(callback.batch)]
    /\ UNCHANGED <<systemVars, loop>>

(* An exception while an event is enqueued takes the place of the rest of  *)
(* its batch.                                                              *)
EnqueueErrorEvent ==
    /\ callback.stage = "push"
    /\ Push(ErrorEvent)
    /\ callback' = [stage |-> "notify", batch |-> <<>>]
    /\ UNCHANGED <<systemVars, loop>>

(* Fault: the loop over the events goes on behind the last one.            *)
NextEventAlways == callback' = [callback EXCEPT !.stage = "push"]

NextEvent ==
    callback' = IF callback.batch = <<>> THEN NoCallback
                ELSE [callback EXCEPT !.stage = "push"]

NotifyEvent ==
    /\ callback.stage = "notify"
    /\ NotifyOne
    /\ NextEvent
    /\ UNCHANGED <<systemVars, queue>>

CallbackStep ==
    /\ StartCallback \/ EnqueueFileEvent \/ EnqueueErrorEvent \/ NotifyEvent
    /\ dangling' = (dangling \/ deleted)
    /\ UNCHANGED <<item, told, failed, userVars>>

-------------------------------------------------------------------------------
(* The run loop.                                                           *)

IGNORED_FLAGS == {"UserDropped", "KernelDropped", "EventIdsWrapped", "HistoryDone",
                  "ItemIsFile", "ItemIsDir", "ItemIsSymlink", "OwnEvent",
                  "ItemIsHardlink", "ItemIsLastHardlink", "ItemCloned"}
InvalidatingFlags == {"RootChanged", "Mount", "Unmount"}
MetadataFlags == {"ItemInodeMetaMod", "ItemFinderInfoMod", "ItemChangeOwner",
                  "ItemXattrMod"}

(* The change of a set of flags, and of those of coalesced events.         *)
ChangeType(flags) ==
    IF flags \cap InvalidatingFlags # {} THEN "INVALIDATED"
    ELSE IF {"ItemRenamed", "ItemCreated"} \subseteq flags THEN "REMOVED"
    ELSE IF "ItemRenamed" \in flags THEN "CREATED"
    ELSE IF "ItemModified" \in flags THEN "MODIFIED"
    ELSE IF "ItemRemoved" \in flags THEN "REMOVED"
    ELSE IF flags \cap MetadataFlags # {} THEN "MODIFIED"
    ELSE IF "ItemCreated" \in flags THEN "CREATED"
    ELSE "unknown"

(* Fault: an event with any ignored flag is ignored.                       *)
ReportOfPure(flags) ==
    IF flags \cap IGNORED_FLAGS # {} THEN "none"
    ELSE IF "MustScanSubDirs" \in flags THEN "overflow"
    ELSE ChangeType(flags)

(* What handleEvent reports for an event.                                  *)
ReportOf(flags) ==
    IF flags \subseteq IGNORED_FLAGS THEN "none"
    ELSE IF "MustScanSubDirs" \in flags THEN "overflow"
    ELSE ChangeType(flags)

HandleEvent ==
    /\ item \notin {ErrorEvent, NoItem}
    /\ told' = IF ReportOf(item.flags) = "none" THEN told
               ELSE [told EXCEPT ![item.path] = item.change]
    /\ loop' = "dequeue"
    /\ UNCHANGED <<queue, failed>>

(* reportFailure.                                                          *)
HandleError ==
    /\ item = ErrorEvent
    /\ failed' = TRUE
    /\ loop' = "dequeue"
    /\ UNCHANGED <<queue, told>>

(* Nothing catches what handleEvent throws, for a path that cannot be      *)
(* decoded or when the logger throws: the run loop ends, with the streams  *)
(* still running.                                                          *)
HandleFails ==
    /\ failed' = TRUE
    /\ loop' = "failed"
    /\ UNCHANGED <<queue, told>>

Handle ==
    /\ loop = "handle"
    /\ HandleEvent \/ HandleError \/ HandleFails
    /\ item' = NoItem

RunLoopStep ==
    /\ Dequeue \/ Wait \/ Handle
    /\ UNCHANGED <<systemVars, callback, dangling, userVars>>

(* The condition variable wakes up for no reason.                          *)
SpuriousWakeup ==
    /\ loop = "wait"
    /\ loop' = "dequeue"
    /\ UNCHANGED <<systemVars, callback, queue, dangling, item, told, failed, userVars>>

-------------------------------------------------------------------------------
(* The user.                                                               *)

Begin(stage, todo) ==
    /\ call = NoCall
    /\ ~shutdown
    /\ ~deleted
    /\ call' = [stage |-> stage, todo |-> todo]
    /\ UNCHANGED <<systemVars, callback, queue, dangling, loopVars, watchPoints, deleted>>

Counted == calls > 0 /\ calls' = calls - 1 /\ UNCHANGED shutdown

StartWatching == Counted /\ \E todo \in Requests : Begin("start", todo)
StopWatching == Counted /\ \E todo \in Requests : Begin("stop", todo)
Shutdown == shutdown' = TRUE /\ Begin("clear", <<>>) /\ UNCHANGED calls

At(stage) == call.stage = stage /\ UNCHANGED <<deleted, dangling>>
InList(stage) == At(stage) /\ call.todo # <<>> /\ UNCHANGED <<queue, loop>>
Path == Head(call.todo)
NextPath == call' = [call EXCEPT !.todo = Tail(@)]

(* "Already watching path", or the constructor of WatchPoint throws and    *)
(* leaves no stream: registerPaths ends there.                             *)
RegisterFails ==
    /\ InList("start")
    /\ call' = NoCall
    /\ UNCHANGED <<systemVars, watchPoints>>

Register ==
    /\ InList("start")
    /\ Path \notin watchPoints
    /\ watchPoints' = watchPoints \cup {Path}
    /\ NextPath
    /\ UNCHANGED systemVars

(* Erasing a watch point destroys it, which stops its stream.              *)
Unregister ==
    /\ InList("stop")
    /\ Path \in watchPoints
    /\ watchPoints' = watchPoints \ {Path}
    /\ Stop({Path})
    /\ NextPath

UnregisterNothing ==
    /\ InList("stop")
    /\ Path \notin watchPoints
    /\ NextPath
    /\ UNCHANGED <<systemVars, watchPoints>>

Return ==
    /\ At("start") \/ At("stop")
    /\ call.todo = <<>>
    /\ call' = NoCall
    /\ UNCHANGED <<systemVars, watchPoints, queue, loop>>

(* shutdownRunLoop: the watch points are destroyed one after the other ... *)
ClearWatchPoints ==
    /\ At("clear")
    /\ IF watchPoints = {}
       THEN call' = [call EXCEPT !.stage = "sync"] /\ UNCHANGED <<systemVars, watchPoints>>
       ELSE /\ \E path \in watchPoints : watchPoints' = watchPoints \ {path} /\ Stop({path})
            /\ UNCHANGED call
    /\ UNCHANGED <<queue, loop>>

(* Fault: the dispatch queue is not waited for.                            *)
DispatchAsync ==
    /\ At("sync")
    /\ call' = [call EXCEPT !.stage = "pill"]
    /\ UNCHANGED <<systemVars, watchPoints, queue, loop>>

(* ... then the dispatch queue executes nothing after everything that was  *)
(* before it ...                                                           *)
DispatchSync ==
    /\ At("sync")
    /\ dispatch = <<>>
    /\ callback = NoCallback
    /\ call' = [call EXCEPT !.stage = "pill"]
    /\ UNCHANGED <<systemVars, watchPoints, queue, loop>>

(* ... and the poison pill is enqueued.                                    *)
EnqueuePill ==
    /\ At("pill")
    /\ Push(PoisonPill)
    /\ call' = [call EXCEPT !.stage = "notify"]
    /\ UNCHANGED <<systemVars, watchPoints, loop>>

NotifyPill ==
    /\ At("notify")
    /\ NotifyOne
    /\ call' = NoCall
    /\ UNCHANGED <<systemVars, watchPoints, queue>>

(* A successful awaitTermination deletes the server, whose destructor      *)
(* does not wait for the dispatch queue.                                   *)
AwaitTermination ==
    /\ call = NoCall
    /\ ~deleted
    /\ loop \in {"ended", "failed"}
    /\ deleted' = TRUE
    /\ watchPoints' = {}
    /\ Stop(watchPoints)
    /\ UNCHANGED <<call, dangling, queue, loop>>

CallStep ==
    /\ \/ RegisterFails
       \/ Register
       \/ Unregister
       \/ UnregisterNothing
       \/ Return
       \/ ClearWatchPoints
       \/ DispatchSync
       \/ EnqueuePill
       \/ NotifyPill
    /\ UNCHANGED <<callback, item, told, failed, calls, shutdown>>

Delete ==
    /\ AwaitTermination
    /\ UNCHANGED <<callback, item, told, failed, calls, shutdown>>

-------------------------------------------------------------------------------
Next ==
    \/ FileSystem
    \/ SystemStep
    \/ CallbackStep
    \/ RunLoopStep
    \/ SpuriousWakeup
    \/ StartWatching
    \/ StopWatching
    \/ Shutdown
    \/ CallStep
    \/ Delete

Spec == Init /\ [][Next]_vars

(* Latencies end, and the dispatch queue, the run loop's thread and a call *)
(* that was begun go on.                                                   *)
Fairness ==
    /\ WF_vars(SystemStep)
    /\ WF_vars(CallbackStep)
    /\ WF_vars(RunLoopStep)
    /\ WF_vars(CallStep)

FairSpec == Spec /\ Fairness

-------------------------------------------------------------------------------
Items == {ErrorEvent, PoisonPill} \cup Events

(* The variables have their types.                                         *)
TypeOK ==
    /\ changes \in 0 .. Changes
    /\ latent \in [Paths -> Seq(Events)]
    /\ dispatch \in Seq(Seq(Events))
    /\ watchPoints \subseteq Paths
    /\ callback \in [stage : {"none", "push", "notify"}, batch : Seq(Events)]
    /\ callback.stage = "push" => callback.batch # <<>>
    /\ callback.stage = "none" => callback.batch = <<>>
    /\ queue \in Seq(Items)
    /\ loop \in {"dequeue", "wait", "handle", "ended", "failed"}
    /\ item \in Items \cup {NoItem}
    /\ loop = "handle" => item \in {ErrorEvent} \cup Events
    /\ deleted \in BOOLEAN
    /\ dangling \in BOOLEAN
    /\ call \in [stage : {"idle", "start", "stop", "clear", "sync", "pill", "notify"},
                 todo : Seq(Paths)]
    /\ calls \in 0 .. Calls
    /\ shutdown \in BOOLEAN
    /\ told \in [Paths -> Nat]
    /\ failed \in BOOLEAN

(* No stream runs, no batch waits and no callback is executed.             *)
Quiet == watchPoints = {} /\ dispatch = <<>> /\ callback = NoCallback

(* The poison pill is the last thing that ever gets into the queue: every  *)
(* event a callback was given before shutdown() is handled before the run  *)
(* loop ends, and none comes later.                                        *)
PillIsLast ==
    /\ \A i \in 1 .. Len(queue) : queue[i] = PoisonPill => i = Len(queue) /\ Quiet
    /\ loop = "ended" => queue = <<>> /\ Quiet

(* "Without it we might get events after the server has been destroyed":   *)
(* no callback uses a deleted server, provided that shutdown() was called. *)
(* (A run loop that failed lets awaitTermination succeed without it.)      *)
CallbacksFindServer == dangling => ~shutdown

(* Changes of a path are told in the order they happened in, across its    *)
(* streams.                                                                *)
EventsInOrder == [][\A p \in Paths : told'[p] >= told[p]]_vars

(* The places events are in, the next one to be handled first.             *)
EventsOf(q) == {q[i] : i \in 1 .. Len(q)} \cap Events
BatchEvents(d) == UNION {EventsOf(d[i]) : i \in 1 .. Len(d)}
ItemEvents == {item} \cap Events
QueueEvents == EventsOf(queue)
CallbackEvents == EventsOf(callback.batch)
DispatchEvents == BatchEvents(dispatch)
LatentEvents == UNION {EventsOf(latent[p]) : p \in Paths}
AllEvents ==
    ItemEvents \cup QueueEvents \cup CallbackEvents \cup DispatchEvents \cup LatentEvents

(* Change n of a path is on its way to the user, maybe with later ones, or *)
(* he was told of it, or of a failure, or will be.                         *)
OnItsWay(p, n) ==
    \E e \in AllEvents :
        e.path = p /\ e.change >= n /\ ~(e.flags \subseteq IGNORED_FLAGS)
Answered(p, n) ==
    \/ told[p] >= n
    \/ failed
    \/ item = ErrorEvent
    \/ \E i \in 1 .. Len(queue) : queue[i] = ErrorEvent

(* No step of a stream, the dispatch queue, a callback or the run loop     *)
(* takes away a change that was on its way, whatever it is coalesced with, *)
(* as long as its path stays watched; nor does one take back an answer.    *)
ChangesStayDue ==
    [][\A p \in Paths, n \in 1 .. Changes :
          OnItsWay(p, n) \/ Answered(p, n) =>
             (OnItsWay(p, n) \/ Answered(p, n))' \/ p \notin watchPoints']_vars

(* A run loop that waits for what is in the queue is about to be notified, *)
(* and after shutdown() the poison pill is there or still to come.         *)
RunLoopIsReached ==
    /\ loop = "wait" /\ queue # <<>> =>
          callback.stage = "notify" \/ call.stage = "notify"
    /\ shutdown => \/ loop \in {"ended", "failed"}
                   \/ call.stage \in {"clear", "sync", "pill"}
                   \/ \E i \in 1 .. Len(queue) : queue[i] = PoisonPill

(* Change n waits in the stream of a path, with something to report.       *)
Owed(p, n) ==
    \E i \in 1 .. Len(latent[p]) :
        /\ latent[p][i].change = n
        /\ ~(latent[p][i].flags \subseteq IGNORED_FLAGS)

(* A change under a watched path is told, with others it was coalesced     *)
(* with or by an overflow, unless the path is not watched any more or a    *)
(* failure is reported.                                                    *)
ChangesAreTold ==
    \A p \in Paths, n \in 1 .. Changes :
       Owed(p, n) ~> told[p] >= n \/ p \notin watchPoints \/ failed

(* The run loop ends when it was told to: the pill wakes it up.            *)
ShutdownCompletes == shutdown ~> loop \in {"ended", "failed"}
===============================================================================
