----------------------------- MODULE LinuxServer -----------------------------
(***************************************************************************)
(* The inotify server of linux_fsnotifier.cpp: its watch points and its    *)
(* two maps of watch descriptors, the run loop that reads inotify events   *)
(* in batches and handles them under mutationMutex, the calls of the users *)
(* that register and unregister paths under the same mutex, and            *)
(* stopWatchingMovedPaths, which takes no lock.  The file system and the   *)
(* kernel's half of inotify are the environment.                           *)
(***************************************************************************)
EXTENDS Inotify

CONSTANTS
    NoPath,
    Users,         \* threads that call the watcher
    RunLoop,       \* the run loop's thread, as the owner of the mutex
    Free,          \* no owner
    Requests,      \* the lists of paths users pass to a call
    BufferSize,    \* how many events fit into the buffer of a read
    Modulus,       \* the width of the unsigned counter "available"
    Calls          \* bound: how many calls the users make

ASSUME PathsAssumption == NoPath \notin Paths /\ Requests \subseteq Seq(Paths)
ASSUME ThreadsAssumption ==
    RunLoop \notin Users /\ Free \notin Users /\ RunLoop # Free
ASSUME SizesAssumption ==
    BufferSize \in Nat \ {0} /\ Modulus \in Nat \ {0} /\ Calls \in Nat

VARIABLES
    watchPoints,  \* Server::watchPoints
    watchRoots,   \* Server::watchRoots
    recent,       \* Server::recentlyUnregisteredWatchRoots
    mutex,        \* the owner of mutationMutex
    loop,         \* where the run loop is
    batch,        \* the events of the buffer it has not handled
    available,    \* handleEvents's count of what is left to read
    shutdown,     \* shutdown() was called: Java's flag and the eventfd
    call,         \* the call of each user
    calls,        \* calls left
    reported      \* the reports the last step made to the Java callback

mapVars == <<watchPoints, watchRoots, recent>>
loopVars == <<loop, batch, available>>
userVars == <<call, calls, shutdown>>
vars == <<fsVars, kernelVars, mapVars, mutex, loopVars, userVars, reported>>

Report(kind, path, wd) == [kind |-> kind, path |-> path, wd |-> wd]
Silent == reported' = {}

Absent == [status |-> "ABSENT", wd |-> NoWd, inode |-> NoInode]
Registered(path) == watchPoints[path] # Absent

NoCall ==
    [op |-> "none", stage |-> "idle", todo |-> <<>>, inode |-> NoInode,
     wd |-> NoWd, dropped |-> {}, away |-> {}]

Init ==
    /\ InotifyInit
    /\ watchPoints = [p \in Paths |-> Absent]
    /\ watchRoots = [wd \in Wds |-> NoPath]
    /\ recent = [wd \in Wds |-> NoPath]
    /\ mutex = Free
    /\ loop = "poll"
    /\ batch = <<>>
    /\ available = 0
    /\ shutdown = FALSE
    /\ call = [u \in Users |-> NoCall]
    /\ calls = Calls
    /\ reported = {}

-------------------------------------------------------------------------------
(* The environment takes a step; what stopWatchingMovedPaths must find is  *)
(* only what is not back in its place.                                     *)

(* The directory a path is listening to is not where the path leads.       *)
Away(path) ==
    /\ watchPoints[path].status = "LISTENING"
    /\ watches[watchPoints[path].wd] \notin {NoInode, Target(path)}

FileSystem ==
    /\ UNCHANGED <<mapVars, mutex, loopVars, calls, shutdown>>
    /\ Silent
    /\ call' = [u \in Users |->
          [call[u] EXCEPT !.away = {p \in @ : Away(p)'}]]

-------------------------------------------------------------------------------
(* The run loop.                                                           *)

LoopOnly == UNCHANGED <<fsVars, userVars>>

(* poll finds the eventfd first, whatever else is there.                   *)
PollShutdown ==
    /\ loop = "poll"
    /\ shutdown
    /\ loop' = "exited"
    /\ Silent
    /\ LoopOnly
    /\ UNCHANGED <<kernelVars, mapVars, mutex, batch, available>>

(* An interrupted poll throws, and nothing in the run loop catches that.   *)
PollFails ==
    /\ loop = "poll"
    /\ loop' = "failed"
    /\ Silent
    /\ LoopOnly
    /\ UNCHANGED <<kernelVars, mapVars, mutex, batch, available>>

PollEvents ==
    /\ loop = "poll"
    /\ ~shutdown
    /\ kq # <<>>
    /\ loop' = "read"
    /\ available' = Len(kq) % Modulus
    /\ Silent
    /\ LoopOnly
    /\ UNCHANGED <<kernelVars, mapVars, mutex, batch>>

(* Fault: the count is signed.                                             *)
RemainingSigned(size) == available - size

(* The read may return more than was available before: the unsigned count  *)
(* then wraps around.                                                      *)
Remaining(size) == (available + Modulus - (size % Modulus)) % Modulus

(* One read of at most a buffer of events.                                 *)
ReadEvents ==
    /\ loop = "read"
    /\ available > 0
    /\ kq # <<>>
    /\ LET size == IF Len(kq) < BufferSize THEN Len(kq) ELSE BufferSize IN
          /\ batch' = SubSeq(kq, 1, size)
          /\ kq' = SubSeq(kq, size + 1, Len(kq))
          /\ available' = Remaining(size)
    /\ loop' = "lock"
    /\ Silent
    /\ LoopOnly
    /\ UNCHANGED <<watches, nextWd, lost, mapVars, mutex>>

(* Fault: the inotify instance is not IN_NONBLOCK.                         *)
ReadDoneBlocking ==
    /\ loop = "read"
    /\ available = 0
    /\ loop' = "poll"
    /\ Silent
    /\ LoopOnly
    /\ UNCHANGED <<kernelVars, mapVars, mutex, batch, available>>

(* Nothing is available, or read fails with EAGAIN.                        *)
ReadDone ==
    /\ loop = "read"
    /\ available = 0 \/ kq = <<>>
    /\ loop' = "poll"
    /\ Silent
    /\ LoopOnly
    /\ UNCHANGED <<kernelVars, mapVars, mutex, batch, available>>

LockEvents ==
    /\ loop = "lock"
    /\ mutex = Free
    /\ mutex' = RunLoop
    /\ loop' = "handle"
    /\ Silent
    /\ LoopOnly
    /\ UNCHANGED <<kernelVars, mapVars, batch, available>>

UnlockEvents ==
    /\ loop = "handle"
    /\ batch = <<>>
    /\ mutex' = Free
    /\ loop' = "read"
    /\ Silent
    /\ LoopOnly
    /\ UNCHANGED <<kernelVars, mapVars, batch, available>>

-------------------------------------------------------------------------------
(* handleEvent, one action for each way through it.                        *)

Event == Head(batch)
(* Fault: recently unregistered roots count as roots.                      *)
EventPathOrRecent ==
    IF watchRoots[Event.wd] # NoPath THEN watchRoots[Event.wd]
    ELSE recent[Event.wd]

EventPath == watchRoots[Event.wd]

HandleNext ==
    /\ loop = "handle"
    /\ batch # <<>>
    /\ LoopOnly
    /\ UNCHANGED <<watches, nextWd, kq>>

(* Fault: the index skips the rest of the buffer.                          *)
HandledAsLast == batch' = <<>> /\ UNCHANGED <<lost, mutex, loop, available>>

Handled ==
    batch' = Tail(batch) /\ UNCHANGED <<lost, mutex, loop, available>>

HandleUnmount ==
    /\ HandleNext
    /\ Event.kind = "unmount"
    /\ Handled
    /\ Silent
    /\ UNCHANGED mapVars

(* reportOverflow for every watch point.                                   *)
HandleQueueOverflow ==
    /\ HandleNext
    /\ Event.kind = "q_overflow"
    /\ Handled
    /\ reported' = {Report("overflow", p, NoWd) : p \in {q \in Paths : Registered(q)}}
    /\ UNCHANGED mapVars

HasWd == Event.kind \notin {"unmount", "q_overflow"}

(* Fault: any event, not just IN_IGNORED, ends the grace period.           *)
HandleUnregisteredOnce ==
    /\ HandleNext
    /\ HasWd
    /\ EventPath = NoPath
    /\ recent' = [recent EXCEPT ![Event.wd] = NoPath]
    /\ Handled
    /\ Silent
    /\ UNCHANGED <<watchPoints, watchRoots>>

(* The watch descriptor was unregistered not long ago, or is unknown.      *)
HandleUnregistered ==
    /\ HandleNext
    /\ HasWd
    /\ EventPath = NoPath
    /\ recent' = IF Event.kind = "ignored"
                 THEN [recent EXCEPT ![Event.wd] = NoPath]
                 ELSE recent
    /\ Handled
    /\ Silent
    /\ UNCHANGED <<watchPoints, watchRoots>>

(* Fault: only the watch point is erased, not the root.                    *)
HandleIgnoredHalf ==
    /\ HandleNext
    /\ HasWd
    /\ EventPath # NoPath
    /\ Event.kind = "ignored"
    /\ watchPoints' = [watchPoints EXCEPT ![EventPath] = Absent]
    /\ Handled
    /\ Silent
    /\ UNCHANGED <<watchRoots, recent>>

HandleIgnored ==
    /\ HandleNext
    /\ HasWd
    /\ EventPath # NoPath
    /\ Event.kind = "ignored"
    /\ watchRoots' = [watchRoots EXCEPT ![Event.wd] = NoPath]
    /\ watchPoints' = [watchPoints EXCEPT ![EventPath] = Absent]
    /\ Handled
    /\ Silent
    /\ UNCHANGED recent

HandleNotListening ==
    /\ HandleNext
    /\ HasWd
    /\ EventPath # NoPath
    /\ Event.kind # "ignored"
    /\ watchPoints[EventPath].status # "LISTENING"
    /\ Handled
    /\ Silent
    /\ UNCHANGED mapVars

(* shouldTerminate is set by this thread just before it leaves the loop,   *)
(* so the check of it never stops an event here.                           *)
Reportable ==
    /\ HandleNext
    /\ HasWd
    /\ EventPath # NoPath
    /\ Event.kind # "ignored"
    /\ watchPoints[EventPath].status = "LISTENING"

(* The name is no valid UTF-8: the exception leaves handleEvents, the rest *)
(* of the buffer is never handled.                                         *)
HandleBadName ==
    /\ Reportable
    /\ Event.kind = "bad_name"
    /\ batch' = <<>>
    /\ lost' = lost \cup
          {batch[i].wd : i \in {j \in DOMAIN batch : batch[j].kind = "ignored"}}
    /\ mutex' = Free
    /\ loop' = "poll"
    /\ reported' = {Report("failure", NoPath, NoWd)}
    /\ UNCHANGED <<available, mapVars>>

(* Created, removed or modified; IN_MOVE_SELF is none of them.             *)
HandleChange ==
    /\ Reportable
    /\ Event.kind \in {"change", "delete_self", "move_self"}
    /\ reported' =
          {Report(IF Event.kind = "move_self" THEN "unknown" ELSE "change",
                  EventPath, Event.wd)}
    /\ Handled
    /\ UNCHANGED mapVars

HandleEvent ==
    \/ HandleUnmount
    \/ HandleQueueOverflow
    \/ HandleUnregistered
    \/ HandleIgnored
    \/ HandleNotListening
    \/ HandleBadName
    \/ HandleChange

-------------------------------------------------------------------------------
(* The users' calls.                                                       *)

UserOnly == Silent /\ UNCHANGED <<fsVars, loopVars>>

At(u, op, stage) == call[u].op = op /\ call[u].stage = stage
Path(u) == Head(call[u].todo)

Begin(u, op, stage, todo) ==
    /\ call[u].stage = "idle"
    /\ calls > 0
    /\ calls' = calls - 1
    /\ call' = [call EXCEPT ![u] =
          [NoCall EXCEPT !.op = op, !.stage = stage, !.todo = todo,
                         !.away = IF op # "moved" THEN {} ELSE
              {p \in {todo[i] : i \in DOMAIN todo} : Away(p)}]]
    /\ UserOnly
    /\ UNCHANGED <<kernelVars, mapVars, mutex, shutdown>>

(* ensureOpen, then the native call that waits for the mutex.              *)
StartWatching(u) ==
    ~shutdown /\ \E todo \in Requests : Begin(u, "start", "lock", todo)
StopWatching(u) ==
    ~shutdown /\ \E todo \in Requests : Begin(u, "stop", "lock", todo)

(* stopWatchingMovedPaths checks nothing and takes no lock.                *)
StopWatchingMovedPaths(u) ==
    \E todo \in Requests : Begin(u, "moved", "next", todo)

Shutdown(u) ==
    /\ call[u].stage = "idle"
    /\ ~shutdown
    /\ shutdown' = TRUE
    /\ UserOnly
    /\ UNCHANGED <<kernelVars, mapVars, mutex, call, calls>>

(* Fault: a call that does not take mutationMutex before it writes.        *)
LockNothing(u) ==
    /\ call[u].stage = "lock"
    /\ call' = [call EXCEPT ![u].stage = "next"]
    /\ UserOnly
    /\ UNCHANGED <<kernelVars, mapVars, mutex, calls, shutdown>>

Lock(u) ==
    /\ call[u].stage = "lock"
    /\ mutex = Free
    /\ mutex' = u
    /\ call' = [call EXCEPT ![u].stage = "next"]
    /\ UserOnly
    /\ UNCHANGED <<kernelVars, mapVars, calls, shutdown>>

(* The call throws or returns, which releases the mutex.                   *)
Leave(u) ==
    /\ call' = [call EXCEPT ![u] = NoCall]
    /\ mutex' = IF mutex = u THEN Free ELSE mutex

Return(u) ==
    /\ call[u].stage = "next"
    /\ call[u].todo = <<>>
    /\ Leave(u)
    /\ UserOnly
    /\ UNCHANGED <<kernelVars, mapVars, calls, shutdown>>

(* registerPath: the path must be new, and lstat find something there.     *)
RegisterStat(u) ==
    /\ At(u, "start", "next")
    /\ call[u].todo # <<>>
    /\ IF Registered(Path(u)) \/ Lstat(Path(u)) = NoInode
       THEN Leave(u)
       ELSE /\ call' = [call EXCEPT ![u].stage = "add",
                                    ![u].inode = Lstat(Path(u))]
            /\ UNCHANGED mutex
    /\ UserOnly
    /\ UNCHANGED <<kernelVars, mapVars, calls, shutdown>>

Advance(u) ==
    call' = [call EXCEPT ![u].stage = "next", ![u].todo = Tail(@),
                         ![u].inode = NoInode, ![u].wd = NoWd]

(* inotify_add_watch, which follows links, gives the inode a new watch     *)
(* descriptor.                                                             *)
RegisterAdd(u) ==
    /\ At(u, "start", "add")
    /\ Target(Path(u)) # NoInode
    /\ Watching(Target(Path(u))) = {}
    /\ AddWatch(Target(Path(u)))
    /\ watchPoints' = [watchPoints EXCEPT ![Path(u)] =
          [status |-> "LISTENING", wd |-> nextWd, inode |-> call[u].inode]]
    /\ watchRoots' = [watchRoots EXCEPT ![nextWd] = Path(u)]
    /\ Advance(u)
    /\ UserOnly
    /\ UNCHANGED <<recent, mutex, calls, shutdown>>

(* It returns the watch descriptor an inode already has; when that one is  *)
(* not a root any more, the new watch point takes it over.                 *)
RegisterAgain(u) ==
    /\ At(u, "start", "add")
    /\ Target(Path(u)) # NoInode
    /\ \E wd \in Watching(Target(Path(u))) :
          IF watchRoots[wd] # NoPath
          THEN Leave(u) /\ UNCHANGED <<watchPoints, watchRoots>>
          ELSE /\ watchPoints' = [watchPoints EXCEPT ![Path(u)] =
                     [status |-> "LISTENING", wd |-> wd,
                      inode |-> call[u].inode]]
               /\ watchRoots' = [watchRoots EXCEPT ![wd] = Path(u)]
               /\ Advance(u)
               /\ UNCHANGED mutex
    /\ UserOnly
    /\ UNCHANGED <<kernelVars, recent, calls, shutdown>>

(* inotify_add_watch fails: the directory is gone, or there is no room for *)
(* another watch.                                                          *)
RegisterFails(u) ==
    /\ At(u, "start", "add")
    /\ Leave(u)
    /\ UserOnly
    /\ UNCHANGED <<kernelVars, mapVars, calls, shutdown>>

(* unregisterPath of a path that is watched.                               *)
Unregister(u) ==
    /\ At(u, "stop", "next")
    /\ call[u].todo # <<>>
    /\ LET path == Path(u)  wd == watchPoints[path].wd IN
          /\ watchPoints[path].status = "LISTENING"
          /\ RmWatch(wd)
          /\ recent' = [recent EXCEPT ![wd] = IF @ = NoPath THEN path ELSE @]
          /\ watchRoots' = [watchRoots EXCEPT ![wd] = NoPath]
          /\ watchPoints' = [watchPoints EXCEPT ![path] = Absent]
          /\ Advance(u)
    /\ UserOnly
    /\ UNCHANGED <<nextWd, mutex, calls, shutdown>>

(* ... and of one that is not, or that was cancelled before.               *)
UnregisterNothing(u) ==
    /\ At(u, "stop", "next")
    /\ call[u].todo # <<>>
    /\ watchPoints[Path(u)].status # "LISTENING"
    /\ Advance(u)
    /\ UserOnly
    /\ UNCHANGED <<kernelVars, mapVars, mutex, calls, shutdown>>

(* stopWatchingMovedPaths: the path is dropped when it is not listening.   *)
MovedFind(u) ==
    /\ At(u, "moved", "next")
    /\ call[u].todo # <<>>
    /\ LET entry == watchPoints[Path(u)] IN
          call' = IF entry.status = "LISTENING"
                  THEN [call EXCEPT ![u].stage = "found", ![u].wd = entry.wd]
                  ELSE [call EXCEPT ![u].dropped = @ \cup {Path(u)},
                                    ![u].todo = Tail(@)]
    /\ UserOnly
    /\ UNCHANGED <<kernelVars, mapVars, mutex, calls, shutdown>>

(* The lookup takes no lock.  While the thread that holds mutationMutex    *)
(* changes the map it is a data race, and what the call does from then on  *)
(* is undefined.                                                           *)
MovedFindRaces(u) ==
    /\ At(u, "moved", "next")
    /\ call[u].todo # <<>>
    /\ mutex # Free
    /\ call' = [call EXCEPT ![u] = [NoCall EXCEPT !.stage = "undefined"]]
    /\ UserOnly
    /\ UNCHANGED <<kernelVars, mapVars, mutex, calls, shutdown>>

(* The reference to the watch point dangles when the run loop or another   *)
(* user erased it.                                                         *)
Dangling(u) == watchPoints[Path(u)].wd # call[u].wd

(* Fault: lstat's success is enough to keep the path.                      *)
MovedKeepExisting(u) ==
    /\ At(u, "moved", "found")
    /\ Dangling(u) \/ Lstat(Path(u)) # NoInode
    /\ Advance(u)
    /\ UserOnly
    /\ UNCHANGED <<kernelVars, mapVars, mutex, calls, shutdown>>

(* lstat tells that the directory is in place, and the path is kept.       *)
MovedKeep(u) ==
    /\ At(u, "moved", "found")
    /\ \/ Dangling(u)
       \/ Lstat(Path(u)) = watchPoints[Path(u)].inode
    /\ Advance(u)
    /\ UserOnly
    /\ UNCHANGED <<kernelVars, mapVars, mutex, calls, shutdown>>

(* lstat fails or finds another inode: the path is dropped, and cancel     *)
(* sets the status before it removes the kernel's watch.  What a dangling  *)
(* reference leads to has no such effect: the kernel does not use a watch  *)
(* descriptor twice.                                                       *)
MovedDrop(u) ==
    /\ At(u, "moved", "found")
    /\ \/ Dangling(u)
       \/ Lstat(Path(u)) # watchPoints[Path(u)].inode
    /\ IF Dangling(u) \/ watchPoints[Path(u)].status = "CANCELLED"
       THEN /\ call' = [call EXCEPT ![u].stage = "next", ![u].todo = Tail(@),
                                    ![u].wd = NoWd,
                                    ![u].dropped = @ \cup {Path(u)}]
            /\ UNCHANGED watchPoints
       ELSE /\ call' = [call EXCEPT ![u].stage = "remove",
                                    ![u].dropped = @ \cup {Path(u)}]
            /\ watchPoints' =
                  [watchPoints EXCEPT ![Path(u)].status = "CANCELLED"]
    /\ UserOnly
    /\ UNCHANGED <<kernelVars, watchRoots, recent, mutex, calls, shutdown>>

(* Fault: cancel only sets the status.                                     *)
MovedRemoveNothing(u) ==
    /\ At(u, "moved", "remove")
    /\ Advance(u)
    /\ UserOnly
    /\ UNCHANGED <<kernelVars, mapVars, mutex, calls, shutdown>>

MovedRemove(u) ==
    /\ At(u, "moved", "remove")
    /\ RmWatch(call[u].wd)
    /\ Advance(u)
    /\ UserOnly
    /\ UNCHANGED <<nextWd, mapVars, mutex, calls, shutdown>>

UserStep(u) ==
    \/ Lock(u)
    \/ Return(u)
    \/ RegisterStat(u)
    \/ RegisterAdd(u)
    \/ RegisterAgain(u)
    \/ RegisterFails(u)
    \/ Unregister(u)
    \/ UnregisterNothing(u)
    \/ MovedFind(u)
    \/ MovedFindRaces(u)
    \/ MovedKeep(u)
    \/ MovedDrop(u)
    \/ MovedRemove(u)

-------------------------------------------------------------------------------
RunLoopStep ==
    \/ PollShutdown
    \/ PollEvents
    \/ ReadEvents
    \/ ReadDone
    \/ LockEvents
    \/ UnlockEvents
    \/ HandleEvent

Next ==
    \/ CreateDir /\ FileSystem
    \/ RemoveDir /\ FileSystem
    \/ MoveDirAway /\ FileSystem
    \/ MoveDirIn /\ FileSystem
    \/ ChangeContent /\ FileSystem
    \/ RunLoopStep
    \/ PollFails
    \/ \E u \in Users :
          \/ StartWatching(u)
          \/ StopWatching(u)
          \/ StopWatchingMovedPaths(u)
          \/ Shutdown(u)
          \/ UserStep(u)

Spec == Init /\ [][Next]_vars

(* The run loop's thread runs, and a call that was begun goes on.          *)
Fairness == WF_vars(RunLoopStep) /\ \A u \in Users : WF_vars(UserStep(u))
FairSpec == Spec /\ Fairness

-------------------------------------------------------------------------------
Files == Inodes \cup Links \cup {NoInode}

WatchPoint ==
    [status : {"LISTENING", "CANCELLED"}, wd : Wds, inode : Files] \cup {Absent}

Calling == [op : {"none", "start", "stop", "moved"},
            stage : {"idle", "lock", "next", "add", "found", "remove",
                     "undefined"},
            todo : Seq(Paths), inode : Files, wd : Wds \cup {NoWd},
            dropped : SUBSET Paths, away : SUBSET Paths]

(* A call between two of its steps is busy with the first path of its list.*)
Busy(u) ==
    /\ call[u].stage \in {"add", "found", "remove"} => call[u].todo # <<>>
    /\ call[u].stage = "lock" => call[u].op \in {"start", "stop"}
    /\ call[u].stage = "add" => call[u].op = "start"
    /\ call[u].stage \in {"found", "remove"} =>
          call[u].op = "moved" /\ call[u].wd \in Wds

(* The variables have their types.                                         *)
TypeOK ==
    /\ InotifyTypeOK
    /\ batch \in Seq(Messages)
    /\ watchPoints \in [Paths -> WatchPoint]
    /\ watchRoots \in [Wds -> Paths \cup {NoPath}]
    /\ recent \in [Wds -> Paths \cup {NoPath}]
    /\ mutex \in Users \cup {RunLoop, Free}
    /\ loop \in {"poll", "read", "lock", "handle", "exited", "failed"}
    /\ available \in 0 .. Modulus - 1
    /\ shutdown \in BOOLEAN
    /\ call \in [Users -> Calling]
    /\ \A u \in Users : Busy(u)
    /\ calls \in 0 .. Calls
    /\ reported \subseteq
          [kind : {"change", "unknown", "overflow", "failure"},
           path : Paths \cup {NoPath}, wd : Wds \cup {NoWd}]

(* handleEvent and the registering calls exclude each other, and no way    *)
(* out of them, not even an exception, leaves mutationMutex locked.        *)
MutualExclusion ==
    /\ mutex = RunLoop <=> loop = "handle"
    /\ \A u \in Users : mutex = u <=>
          /\ call[u].op \in {"start", "stop"}
          /\ call[u].stage \in {"next", "add"}

(* watchPoints and watchRoots are inverse to each other, so that           *)
(* watchPoints.at(path) in handleEvent finds an entry, and a watch         *)
(* descriptor is a root or recently unregistered, never both.              *)
MapsAgree ==
    /\ \A p \in Paths : Registered(p) =>
          /\ watchPoints[p].wd \in Wds
          /\ watchRoots[watchPoints[p].wd] = p
    /\ \A wd \in Wds : watchRoots[wd] # NoPath =>
          /\ Registered(watchRoots[wd])
          /\ watchPoints[watchRoots[wd]].wd = wd
          /\ recent[wd] = NoPath

(* stopWatchingMovedPaths is about to remove the kernel's watch.           *)
Removing(wd) == \E u \in Users : At(u, "moved", "remove") /\ call[u].wd = wd

(* Every watch the kernel has belongs to a registered path that listens to *)
(* it: no failed or partial registration, no removal and no race with      *)
(* stopWatchingMovedPaths leaves a watch nobody can remove.                *)
NoLeakedWatch ==
    \A wd \in Wds : watches[wd] # NoInode =>
       /\ watchRoots[wd] # NoPath
       /\ watchPoints[watchRoots[wd]].status = "LISTENING" \/ Removing(wd)

Pending(msg) == Has(kq, msg) \/ Has(batch, msg)

(* What the maps remember of a watch the kernel has removed is on its way  *)
(* out: the IN_IGNORED that erases it is still to be handled, unless it    *)
(* was lost.                                                               *)
RetirementPending ==
    \A wd \in Wds : watches[wd] = NoInode =>
       \/ watchRoots[wd] = NoPath /\ recent[wd] = NoPath
       \/ Pending(Msg("ignored", wd))
       \/ wd \in lost

(* The kernel gives out a watch descriptor once.                           *)
FreshDescriptors ==
    \A wd \in Wds : wd >= nextWd =>
       /\ watches[wd] = NoInode
       /\ watchRoots[wd] = NoPath
       /\ recent[wd] = NoPath
       /\ \A kind \in WatchKinds : ~Pending(Msg(kind, wd))

(* IN_IGNORED is sent when the kernel has removed the watch.               *)
IgnoredIsDead ==
    \A wd \in Wds : Pending(Msg("ignored", wd)) => watches[wd] = NoInode

(* Between registerPath's check of watchPoints and its insertion nobody    *)
(* else inserts the path.                                                  *)
AddingIsNew ==
    \A u \in Users : At(u, "start", "add") =>
       ~Registered(Path(u))

(* The buffer is only read into when all of it was handled.                *)
BatchIsHandled == loop \notin {"lock", "handle"} => batch = <<>>

(* What the proofs of these invariants carry from step to step.            *)
Inductive ==
    /\ MutualExclusion
    /\ MapsAgree
    /\ NoLeakedWatch
    /\ RetirementPending
    /\ FreshDescriptors
    /\ IgnoredIsDead
    /\ AddingIsNew
    /\ BatchIsHandled

(* No event comes for a watch descriptor the maps do not know any more:    *)
(* handleEvent never logs an "unknown watch descriptor".                   *)
NoUnknownDescriptor ==
    \A wd \in Wds : (\E kind \in WatchKinds : Pending(Msg(kind, wd))) =>
       watchRoots[wd] # NoPath \/ recent[wd] # NoPath

(* A change is reported for a path under the watch descriptor of its       *)
(* current registration: not after stopWatching took the path away, and    *)
(* not from a directory it named in an earlier registration.               *)
NoStaleReport ==
    \A r \in reported : r.kind \in {"change", "unknown"} =>
       watchPoints[r.path].wd = r.wd

(* With one user: a path stopWatchingMovedPaths says it dropped is not     *)
(* watched when it returns.                                                *)
DroppedAreNotWatched ==
    [][\A u \in Users : Return(u) /\ call[u].op = "moved" =>
          \A p \in call[u].dropped : Registered(p) =>
             watches[watchPoints[p].wd] = NoInode]_vars

(* With one user: a path whose directory was away from it throughout a     *)
(* call of stopWatchingMovedPaths is dropped by the call, unless the path  *)
(* is a link or its directory was replaced between the lstat and the       *)
(* inotify_add_watch of its registration.                                  *)
MovedAreDroppedUnlessReplaced ==
    [][\A u \in Users : Return(u) /\ call[u].op = "moved" =>
          \A p \in call[u].away :
             /\ Away(p)
             /\ watchPoints[p].inode = watches[watchPoints[p].wd]
             => p \in call[u].dropped]_vars

(* WatchPointStatus::CANCELLED is documented as "expect IN_IGNORED event". *)
CancelledExpectsIgnored ==
    \A p \in Paths : watchPoints[p].status = "CANCELLED" =>
       \/ Removing(watchPoints[p].wd)
       \/ Pending(Msg("ignored", watchPoints[p].wd))

(* A directory that was deleted is unregistered by its IN_IGNORED, so that *)
(* it can be watched again.                                                *)
DeletedUnregisters ==
    \A p \in Paths :
       Registered(p) /\ watches[watchPoints[p].wd] = NoInode =>
          Pending(Msg("ignored", watchPoints[p].wd))

(* FileWatcher.shutdown: "No more events will arrive after this method     *)
(* returns."                                                               *)
NoEventsAfterShutdown ==
    shutdown => \A r \in reported : r.kind = "failure"

(* Where a watch descriptor is in its life.                                *)
DescriptorStage == [wd \in Wds |->
    IF wd >= nextWd THEN "fresh"
    ELSE IF watches[wd] # NoInode THEN "watching"
    ELSE IF watchRoots[wd] # NoPath \/ recent[wd] # NoPath THEN "leaving"
    ELSE "gone"]

ReportedChanges ==
    {<<r.path, r.wd>> : r \in {s \in reported : s.kind \in {"change", "unknown"}}}

(* Every watch descriptor lives once and for one path, and changes are     *)
(* reported under its path as long as it lives.                            *)
Descriptors == INSTANCE WatchDescriptors
    WITH stage <- DescriptorStage, root <- watchRoots, reported <- ReportedChanges
DescriptorsSpec == Descriptors!Spec

Stopped == loop \in {"exited", "failed"}

(* A cancelled watch point goes away, and its path can be watched again,   *)
(* unless the run loop stops or the IN_IGNORED was lost.                   *)
CancelledRetires ==
    \A p \in Paths, w \in Wds :
       watchPoints[p].status = "CANCELLED" /\ watchPoints[p].wd = w
          ~> watchPoints[p].wd # w \/ Stopped \/ w \in lost

(* The run loop ends after shutdown().                                     *)
ShutdownCompletes == shutdown ~> Stopped
===============================================================================
