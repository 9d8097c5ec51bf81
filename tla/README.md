# Verification of gradle-fileevents

TLA+ models of the library's own logic, checked with TLC and proved with TLAPS.
Line numbers are those of the sources these files stand beside; `cpp/` is short
for `src/main/cpp/`, `headers/` for `src/main/headers/`, `java/` for
`src/main/java/org/gradle/fileevents/`.

## 1. The system

gradle-fileevents tells a Java program what happens in directories it watches.
A `FileWatcher` owns a native *server*, and a daemon thread ("File watcher
server", here: *the thread* or *the run loop*) runs it. The server turns what
the operating system says into calls of a Java callback, which puts events into
a `BlockingQueue` of the user.

    user's thread ── startWatching, stopWatching, shutdown, awaitTermination ──┐
         ▲                                                                     │
         │ take()                                                              ▼
    BlockingQueue ◄── callback ◄── run loop ◄── native server (maps, mutex) ◄── OS
      EventQueue        EventQueue     LinuxServer                        Inotify
                        NativeCalls    WindowsServer             DirectoryChanges
                              │        AppleServer                       FSEvents
                              └── Lifecycle: start … termination, deletion ──┘

| Component | State | Operations | What makes it correct |
|---|---|---|---|
| **Event queue callback** `java/internal/AbstractFileEventFunctions.java` 69-140 | the user's bounded queue | `report*`, `queueEvent`, `signalOverflow`, `forceQueueEvent`; the consumer takes | no event vanishes without an overflow in its place, order is kept, the termination always arrives and is last |
| **Linux server** `cpp/linux_fsnotifier.cpp` | `watchPoints`, `watchRoots`, `recentlyUnregisteredWatchRoots`, a mutex, an inotify instance, an eventfd, the read buffer | run loop (`processQueues`, `handleEvents`, `handleEvent`), `registerPaths`, `unregisterPaths`, `stopWatchingMovedPaths`, `shutdownRunLoop` | the two maps are inverse to each other and agree with what the kernel watches; what is cancelled goes away; no stale or unknown event; the run loop ends when told |
| **Life cycle** `AbstractFileEventFunctions.java` 142-231, `cpp/generic_fsnotifier.cpp` | the thread, the latch, the `shutdown` flag; `terminated` with mutex and condition variable; the native object itself | start, shutdown, `executeRunLoop`, `awaitTermination`, deletion | no wait is lost, the server outlives its run loop, the reports end with one termination, `true` means terminated |
| **Windows server** `cpp/win_fsnotifier.cpp` | watch points with a status, a handle and one overlapped read each; `shouldTerminate`; the queue of work items of the run loop's thread | completion routines (`handleEventsInBuffer`, `handleEvents`, `listen`), `registerPaths`, `unregisterPaths`, the destructor's sleep, `stopWatchingMovedPaths`, `runLoop` | a listening path has a read, nothing freed is used, changes are told, the run loop ends with every read |
| **Windows command** `headers/command.h` | a work item in the caller's frame | queued, executed by the run loop, answered, timed out | every command is answered; executed only while its frame exists |
| **macOS server** `cpp/apple_fsnotifier.cpp`, `headers/apple_fsnotifier.h` | watch points with one FSEvents stream each, a dispatch queue, a `BlockingQueue` with a condition variable | dispatch callbacks, run loop, registration, `shutdownRunLoop` with its poison pill, deletion | every event is handled before the pill and none comes after it; no callback finds a deleted server; changes are told, in order; the pill wakes the run loop |
| **JNI border** `cpp/jni_support.cpp`, `cpp/logging.cpp`, the `Java_…` methods | of each thread: the native method, the Java exception that is pending, the C++ exception in flight | native methods, calls of the Java callback and the logger, catch clauses | Java is not called with an exception pending; failures arrive; which C++ exceptions leave a native method is known |
| `FileEvents` `java/FileEvents.java` | the instance, the cache of integrations | `init`, `get` | not modelled (section 6) |
| services, version, build logic | constants | | not modelled (section 6) |

The behaviours that are hard to test are listed, each with its line and the
properties that would catch it, under `hazards` in `PROJECT.json`. The main ones:

* the consumer takes events between any two calls of the callback, while it
  clears the queue and refills it;
* users change the maps while events of old watches are still in the kernel's
  queue or already in the server's buffer; `IN_IGNORED` may arrive late or not
  at all (the kernel's queue overflows, an exception throws the buffer away);
* `stopWatchingMovedPaths` takes no lock;
* system calls see the file system at different moments (`lstat`, then
  `inotify_add_watch`);
* on Windows, completion routines run inside of the destructor of a watch point,
  and `stopWatchingMovedPaths` cancels reads the run loop is just delivering;
* on macOS, batches of events of a stream that was stopped may still be
  delivered, on a thread of the dispatch queue that is unknown to the JVM and
  must be done before the server is deleted;
* exceptions leave critical sections and the run loop, and have to cross the
  border between C++ and Java, where a logger may throw while one is handled;
* awaiting termination races with termination, and deletes the mutex the thread
  is still about to release.

## 2. The modules

| Module | What it is |
|---|---|
| `EventChannel` | abstract: numbered reports arrive in order, gaps are announced by an overflow |
| `EventQueue` | the callback and the consumer; refines `EventChannel` |
| `EventQueueProofs` | theorems about it |
| `Inotify` | environment: a file system in which directories are created, removed, moved, replaced, and the kernel's half of inotify |
| `WatchDescriptors` | abstract: the one life of a watch descriptor, the path it is the root of, the changes reported for it |
| `LinuxServer` | the Linux server, composed with `Inotify`; refines `WatchDescriptors` |
| `MCLinuxServer` | values of its constants for TLC |
| `LinuxServerProofs` | theorems about it: its maps and the kernel's watches |
| `LinuxEventsProofs` | theorems about it: the events it handles, what `stopWatchingMovedPaths` drops, the refinement |
| `DirectoryChanges` | environment: directories that are created, deleted, moved, changed, and the system's side of overlapped reads |
| `WindowsServer` | the Windows server with its commands, composed with `DirectoryChanges` |
| `MCWindowsServer` | values of its constants for TLC |
| `WindowsServerProofs` | theorems about it: memory, reads, changes, commands |
| `FSEvents` | environment: streams of file system events with a latency, coalescing, and the dispatch queue that executes their callbacks |
| `AppleServer` | the macOS server with its blocking queue, composed with `FSEvents` |
| `MCAppleServer` | values of its constants for TLC |
| `AppleServerProofs` | theorems about it: the shutdown, wakeups, coalescing |
| `AppleOrderProofs` | theorems about it: no event is overtaken or lost on its way |
| `NativeCalls` | exceptions at the border between C++ and Java, on every thread |
| `NativeCallsProofs` | theorems about it |
| `WatcherContract` | abstract: what a watcher promises about its end |
| `Lifecycle` | the thread, the native object and one client; refines `WatcherContract` |
| `LifecycleProofs` | theorems about it, the refinement among them |

### EventQueue

`queue` is the user's queue. A report starts a callback (`pc`, `call`); each
call of the callback on the queue is one action, `QueueEvent`, `ClearQueue`,
`SignalOverflow`, `ForceQueueEvent`, and `Take` may happen in between.
`ReportOverflow` (an overflow of the operating system) begins with the clear.
Events carry the number of their report, which is what the properties compare;
their text and the change types are left out. The callback is used by one
thread, so there is at most one report under way. `Capacity` is any positive
number; the javadoc asks for two, and only the properties that need two assume it.

### Inotify and LinuxServer

`Inotify` keeps for each directory name its inode (`dirAt`), the inodes moved to
names nobody uses (`elsewhere`), the inode of each watch descriptor (`watches`),
and the kernel's queue (`kq`), which drops events and holds one `IN_Q_OVERFLOW`
when full. `lost` is a history variable: the watch descriptors whose `IN_IGNORED`
was dropped. It is external: modelled from how the server uses it.

| Code | Actions |
|---|---|
| `processQueues` | `PollShutdown`, `PollFails` (an interrupted `poll` throws), `PollEvents` |
| `handleEvents` | `ReadEvents`, `ReadDone`, `LockEvents`, `UnlockEvents`; `available` is unsigned, with the width `Modulus` |
| `handleEvent` | one action for each way through it: `HandleUnmount`, `HandleQueueOverflow`, `HandleUnregistered`, `HandleIgnored`, `HandleNotListening`, `HandleBadName`, `HandleChange` |
| `registerPaths` | `StartWatching`, `Lock`, then for each path `RegisterStat` and one of `RegisterAdd`, `RegisterAgain`, `RegisterFails`; `Return` |
| `unregisterPaths` | `StopWatching`, `Lock`, `Unregister` or `UnregisterNothing` for each path, `Return` |
| `stopWatchingMovedPaths` | `StopWatchingMovedPaths`, for each path `MovedFind` or `MovedFindRaces`, then `MovedKeep` or `MovedDrop` and `MovedRemove`: the status is set before the watch is removed, and there is no lock |
| `shutdown` | `Shutdown` |

Handling one event is one step: the run loop holds the mutex and its only
concurrent party is `stopWatchingMovedPaths`, whose reads and writes are steps of
their own. A name that is no UTF-8 is the event kind `bad_name`. Counts are in
events instead of bytes. A read of `watchPoints` through a reference whose entry
was erased is undefined behaviour in C++; the model lets it keep or drop the
path, and lets the removal that follows have no effect, because the kernel does
not use a watch descriptor twice (`Dangling`). The lookup itself is a data race
while the thread that has the mutex changes the map: `MovedFindRaces` then leaves
the call at the stage `undefined` for ever. It may be taken whenever somebody
has the mutex, which is more than the code allows; what it may do to the rest of
the process is not modelled.

`FileWatcher` is documented as not thread-safe. The module has a set of `Users`;
most questions are asked with one user, and `linux_two_users` with two, because
the server has a mutex for it.

`shutdown` stands for Java's flag and the eventfd together: the flag is not
volatile, but it is written before a `write` and read after a `poll` and `read`
of the same eventfd.

`WatchDescriptors` is the server as its user can think of it. A descriptor is
`fresh`, `watching`, `leaving` (the kernel forgot it, and the server still knows
it, in one of its two maps) or `gone`; a descriptor may be the `root` of a path,
and no path has two. The refinement mapping (`DescriptorStage`,
`ReportedChanges`) reads the stage off the kernel's watches and the two maps; the
mutex, the calls, the kernel's queue and the buffer are hidden.

### DirectoryChanges and WindowsServer

`DirectoryChanges` keeps for each path whether it leads to a directory
(`there`), where the directory behind the watch point's handle is now (`handle`),
the read under way or its result (`io`), changes the system keeps for the next
read (`buffered`), and the queue of the run loop's thread (`apcs`), which holds
completions and the user's command in order. It is external. `CancelIoEx`
completes the read before it returns, as it does for directories of local file
systems; a file system that cancels later would let the destructor free memory
that is still to be written to, and is not modelled.

| Code | Actions |
|---|---|
| `SleepEx` in `runLoop`, in `~WatchPoint`, at the end of `runLoop` | `Alertable` says when the head of the queue may run, `Slept` when the sleep is over |
| `handleEventsInBuffer` | `DeliverStep`: `DeliverAbort`, `DeliverIgnored`, `DeliverResult` |
| `handleEvents`, `handleEvent` | `HandleDenied`, `HandleMoved`, `HandleError`, `HandleTerminating`, `HandleEvents`; the events of one buffer are one report |
| `listen` | `ListenAgain` and `Listening` (the read begins before the status is set), or `ListenFails` |
| `executeOnRunLoop`, `Command` | `Begin`; `StartCommand` or `StartGoneCommand`; `EndOfList`, `AnswerFailure`; `Abandon` is a timeout or a spurious wakeup |
| `registerPath` | `RegisterErase` and `Destroy` for a finished watch point, `RegisterNew`, `RegisterFails` |
| `unregisterPath`, `~WatchPoint` | `Unregister` (which cancels), any deliveries, `Destroy`; `UnregisterNothing` |
| `shutdownRunLoop`, the end of `runLoop` | `Shutdown`, `ExecuteShutdown`; `LeaveLoop`, `CancelRemaining`, `CancelledAll`, `Finish` |
| `stopWatchingMovedPaths` | `StopWatchingMovedPaths`, then for each path `MovedLook`, `MovedCheck`, `MovedCancel`, and `MovedMark` or `MovedClose`, `MovedCloseHandle`, `MovedFinish`: each read and each write of what the run loop shares is a step |

There is one user, as `FileWatcher` asks for. A call that was abandoned leaves a
command in the queue whose frame is gone: `loop` becomes `undefined` when it is
executed, and the user makes no more calls. `missed` and `failed` are history
variables. `terminate` is `shouldTerminate`. A handle that the run loop closes
between the user's look at the status and his `CloseHandle` is closed twice; the
second `CloseHandle` fails, is logged, and has no effect, unless the system has
given out the number of the handle anew, which is not modelled. What the flags of an event mean, and
the conversion of paths, are left out; so is the handle that leaks when the
constructor of a watch point throws.

### FSEvents and AppleServer

`FSEvents` keeps for each stream the events that wait for its latency (`latent`)
and the batches in the serial dispatch queue (`dispatch`). A change may be
coalesced with the previous one of its stream; an event carries its flags and
the number of the last change it tells of. A stream that is stopped loses what is
latent, and its batches may or may not still be executed: the code allows for
both ("we might get events"). It is external.

| Code | Actions |
|---|---|
| `handleEventsCallback`, `handleEvents` | `StartCallback`, then for each event `EnqueueFileEvent` and `NotifyEvent`; `EnqueueErrorEvent` when something throws, which ends the batch |
| `BlockingQueue` | pushing and notifying are steps of their own, because `notify_one` is called when the lock is released; `Dequeue`, `Wait`, `SpuriousWakeup` |
| `runLoop`, `handleEvent` | `HandleEvent`, `HandleError`, `HandleFails`; `ChangeType` and `IGNORED_FLAGS` classify the flags |
| `registerPaths`, `unregisterPaths` | `StartWatching`, `StopWatching`, then for each path `Register` or `RegisterFails`, `Unregister` or `UnregisterNothing`; `Return` |
| `shutdownRunLoop` | `Shutdown`, `ClearWatchPoints` (one stream after the other), `DispatchSync`, `EnqueuePill`, `NotifyPill` |
| the destructor | `Delete`, once the run loop has ended; it stops the streams and does not wait for the dispatch queue |

`told` and `failed` are history variables, and so is `dangling`, which records
that a callback used a deleted server. There is one user.

### NativeCalls

Each thread is in Java or in one native method (`method`, `at`), below it may be
a call of Java (`upcall`), a Java exception may be `pending` on it and a C++
exception `flying` through it. What a method does is in the other modules; here
its body may report, log and fail in each way the code of some platform can.

| Code | Actions |
|---|---|
| native methods | `Enter`, `Finish`, `Return`; `executeRunLoop` goes through `Terminate` |
| `report…Event`, `reportFailure`, `getJavaExceptionAndPrintStacktrace` | `Report`, `Reported` |
| `logToJava`, `rethrowJavaException` | `Log`, `LogUnguarded`, `Logged`; `Describe`, `RethrowNative` |
| exceptions | `Fail`, `FailInJava` (`JavaExceptionThrownException`), `InstanceLimit` |
| catch clauses | `EmptyClause`; `Catch` (which logs first), `ThrowNew`; `Escape` |

A completion routine of Windows is called by the system below `SleepEx`, and
logs before the `try` of `handleEvents`; the destructor of a watch point, which
is `noexcept`, logs in its clause. `LogUnguarded` is such a log (the place
`routine`): what the logger throws there meets no clause (`Clause`), while other
logs on the same thread are below the clause of the native method (`Log`).

It is assumed that the JVM has the memory to create its exceptions and strings.

### Lifecycle

The thread goes through `initializeRunLoop`, `runLoop`, the notification under
`terminationMutex`, and the reports of Java's `finally`. The client starts the
watcher, shuts it down, awaits its termination (native wait, deletion, join) and
may do each again. `spurious` is a history variable: `wait_for` has no predicate
and woke up without a notification. A thread that goes on after the native
object was deleted is `undefined`; calls that reach a deleted object end in
`await_dangles` and `call_dangles`.

The native `shutdown` has the flag set and has three outcomes. `DoShutdown` tells
the run loop. `ShutdownThrows`: the write to the eventfd fails, or on Windows no
command can be queued or the answer comes too late; the run loop may or may not
have been told, and `refused` records that `shutdown()` threw. `ShutdownLeaves`:
on Windows (`CallsAreCommands`) the command was not executed when the wait timed
out or woke up for no reason, and stays queued with its frame gone (`stray`), as
one of `startWatching` or `stopWatching` may (`CallLeaves`). A run loop that
executes such a command is `undefined` (`RunLoopExecutesStray`). The flag stays
set in each case, and `shutdown()` cannot be called again.

`WatcherContract` is what this protocol is for: the run loop uses the server,
reports a failure if there was one and then the termination, and is gone; the
server is deleted once, when nobody uses it any more (or after a wait that ended
for no reason); a user who was told `true` can rely on all of it. It promises
nothing of a run loop for which a caller left work behind (`LeaveWork`, `Break`).
The refinement
mapping (`ContractLoop`, `ContractUser`) forgets the latch, `terminated`, both
locks, the condition variable and the join.

### Deliberate faults

A definition whose comment begins with *Fault:* is no part of the model. It is
the definition that follows it with a plausible mistake (a dropped guard, a
missing reset, a skipped call), and shows that the property named with it under
`mutants` in `PROJECT.json` would notice the mistake.

## 3. What is checked

| Run | Question | Bounds |
|---|---|---|
| `event_queue` | Does the consumer see every report in order, or an overflow in its place, and the termination last? Does the queue implement `EventChannel`, liveness included? | capacity 3, 6 reports, 2 paths |
| `linux_one_user` | Do maps, kernel watches and pending events stay consistent through every operation, overflow and exception? Has every watch descriptor the life `WatchDescriptors` gives it? Does `stopWatchingMovedPaths` drop what moved, and stop watching what it drops? | 2 directories, 2 inodes, 2 watch descriptors, kernel queue 3, buffer 2, 4 changes, 3 calls with lists of 1 or 2 paths |
| `linux_two_users` | Is the inductive invariant kept when two users call concurrently, and when two paths (one a link) lead to one directory? Does a cancelled watch point go away, and the run loop end after `shutdown`? | 1 directory, 1 link, 2 watch descriptors, kernel queue 2, buffer 2, 2 changes, 4 calls |
| `windows` | Has every listening path its read, and is every change the user is owed in a read that is over or about to be read, whatever `stopWatchingMovedPaths` does to it? Is nothing used after it was freed? Are changes told, commands answered, and does the run loop end with every read? | 2 directories, 3 changes, 3 calls with lists of 1 or 2 paths |
| `apple` | Is the pill the last item, does every callback find its server, are changes told, in order, without one being lost at any stage of their way, and is no wakeup of the run loop lost? | 2 paths, 3 sets of flags, 2 changes, 3 calls with lists of 1 or 2 paths |
| `native_calls` | Is Java only called with no exception pending, does every failure arrive where it is waited for, and which C++ exceptions leave a native method? | 1 user and the run loop; no other bound |
| `lifecycle` | Is no notification lost, does the server outlive its run loop, does the watcher keep `WatcherContract`, does a `shutdown` that told the run loop end the thread, does `awaitTermination` return? | none: the state space is finite |

Each is exhausted by TLC. The bounds are enough for the interesting cases to
occur: a queue of three overflows in the middle of a sequence, and its clear and
refill meet a consumer at every point; two descriptors allow a path to be
registered, dropped and registered again while events of its first descriptor
are pending; a buffer of two is smaller than the kernel queue, so that an
operation can come between two reads of what belongs together, and a read can
return more than was available (`Modulus` 8 wraps); four changes allow a
directory to be moved away, replaced by another and moved back; a list of two
paths allows a call to fail half way. On macOS, three calls watch a path, unwatch
it and watch it again while a batch of its first stream waits, and two changes
are enough to come in the wrong order; classes of flags are one set each, since
only what an event is classified as matters. The threads of `NativeCalls`
share nothing but `terminated`, so that one user stands for all of them. Every
deliberate fault is found within these bounds.

Five runs show where the program does not do what its documentation, comments or
tests say (`findings` in `PROJECT.json`):

| Run | What happens |
|---|---|
| `linux_overflow` | the kernel's queue is full when a watch is removed: `IN_IGNORED` is dropped, and the watch point stays `CANCELLED` for ever ("expect IN_IGNORED event") |
| `linux_bad_name` | an undecodable name throws away the rest of the buffer with the `IN_IGNORED` of a deleted directory, which can then not be watched again |
| `linux_events_after_shutdown` | the buffer in progress is reported after `shutdown()` returned |
| `lifecycle_deleted_early` | a spurious wakeup counts as the termination, and the server is deleted under its run loop |
| `windows_cancelled` | the run loop finishes a watch point between `CancelIoEx` and the assignment of `CANCELLED` in `stopWatchingMovedPaths`: it stays `CANCELLED` for ever ("expect ERROR_OPERATION_ABORTED event"), and its path cannot be watched again |

More limits are visible in the definitions and are not runs of their own: while
changes do not stop, `available` of the Linux server wraps around and
`handleEvents` goes on reading, without polling for the shutdown; a C++ exception
in the constructor of a server leaves `startWatcher0`, a logger that throws
in a completion routine or a destructor ends the process, and one that throws
while a failure is logged leaves a run loop that ended without being terminated
(`Escape`, `ThrowNew` of `NativeCalls`; `EscapesAreKnown` lists these ways out and
shows that there is no other); a macOS run loop that failed lets
`awaitTermination` delete the server while its streams are running
(`CallbacksFindServer` speaks of servers that were shut down); a `shutdown()`
that throws leaves its flag set, so that nothing can tell the run loop any more
(`ShutdownEndsThread` exempts it when the run loop was not told, and every life in
which a command was left behind); a
deleted server is not refused by `getServer` (`await_dangles` and `call_dangles`
of `Lifecycle`); a Windows command whose user gave up is executed all the same
(`StartGoneCommand`);
`lstat` sees a symbolic link and `inotify_add_watch` the directory behind it, so
`stopWatchingMovedPaths` never drops a path that is a link; and a directory
replaced between the two calls is registered with the wrong inode
(`MovedAreDroppedUnlessReplaced` excludes both).

### Fairness

* `EventQueue`: the callback's steps (it never blocks) and `Take`: a consumer
  that stops consuming is not told anything.
* `LinuxServer`: the run loop's thread takes steps when it can, and a call that
  was begun goes on. Waiting for the mutex needs no strong fairness in this
  run, although two users and the run loop compete for it, because the calls and
  with them the turns of the others are finite. The changes are finite too: the
  run loop has to get to the end of what `available` announces.
* `WindowsServer`: the run loop's thread executes what is queued for it, and
  `stopWatchingMovedPaths` goes on. No timeout has to happen.
  The changes are finite: a directory that never stops changing could keep the
  sleep in a destructor busy, and with it the command, until its timeout.
* `AppleServer`: latencies end, the dispatch queue executes what is queued, and
  the run loop's thread and a call that was begun go on. A wait that nobody
  notifies is not assumed to end (`SpuriousWakeup` is not fair).
* `NativeCalls` needs none: it has no liveness property.
* `Lifecycle`: the thread, and a client inside a call. Nothing forces a client
  to call anything, `initializeRunLoop` to fail or a timeout to expire, except
  that a call in progress ends: a `shutdown` in one of its three ways, a wait by a
  notification or its timeout (both are steps of the client).

Deadlock is not checked: a watcher nobody calls, whose thread has ended and
whose queue is empty, is meant to stop, and so is a process that a C++ exception
has ended.

## 4. What is proved

All theorems hold for every value of the constants under the named assumptions
of the modules (sets are disjoint, bounds are natural numbers).

### EventQueueProofs

`Chain` is the inductive invariant. "No event follows another with a gap" is not
inductive alone: while the callback is between two of its calls the record must
be allowed to lag behind, but only by the report in progress, and a forced event
must find the queue empty or with its own overflow only. `Chain` says so
(`RecordIsUpToDate`, `CallbackInProgress`). From it: `NothingLostSilently` (stated
beside the proofs, because `ChannelSpec`, which the run checks, implies it),
`ForcedOffersSucceed` and `TerminationIsFinal` (for a capacity of at least two),
and that every step is a step of `EventChannel` or stutters
(`ImplementsChannel`, the safety part of `ChannelSpec`).

### LinuxServerProofs

`TypeOK`, then `Inductive`: besides `MutualExclusion`, `MapsAgree`,
`NoLeakedWatch` and `RetirementPending` it says that descriptors not yet given out
are unknown everywhere, that a pending `IN_IGNORED` is of a dead watch, that the
path being added is not registered, and that the buffer is empty outside of the
handling. The argument: the environment and most steps of the server only move
messages along (`KernelMoves`: the kernel gives out no descriptor, and forgets a
watch only together with its `IN_IGNORED` or by recording it as lost), and such
moves keep the invariant (`MovesKeepCore`); each step that writes the maps is then
treated alone. The proof covers any number of users, although the code promises
less. It also shows that the path of `RegisterAgain` that takes over an existing
descriptor is never taken.

### LinuxEventsProofs

`EventsInv` says that the `IN_IGNORED` of a descriptor is the last event about it
in the buffer and behind it in the kernel's queue, and that a descriptor events
are about is in one of the maps. Handling `IN_IGNORED` is what makes the maps
forget, so `NoUnknownDescriptor` follows: an exception that throws the buffer away
loses events, but never puts one behind an `IN_IGNORED`. `NoStaleReport` needs no
more than `MapsAgree`. For one user, `Dropping` (a dropped path does not listen,
nor does an entry whose reference dangles) gives `DroppedAreNotWatched`, and
`Seeking` gives `MovedAreDroppedUnlessReplaced`: a directory that is away stays
away from its path, and one that was looked at and not dropped had another inode
recorded.

`DescriptorsLiveOnce` is the refinement of `WatchDescriptors`, for any number of
users. A step changes at most what is known of one descriptor (`OneMoves`); the
rest of the mapping is unchanged, and the step is one of the abstract ones for
that descriptor, by the action that takes it: the file system or a removal makes
a `watching` descriptor `leaving` (`ForgettingUnwatches`), handling `IN_IGNORED`
makes it `gone` (`IgnoredForgets`), handling a change reports it for the root it
has (`ChangeReports`), and registering gives out a `fresh` one for a path that has
none (`RegisterAddRefines`). `Inductive` is what makes the guards true: a
descriptor that was not given out is in no map, a dead one never comes back, and
`watchRoots` has no path twice.

### LifecycleProofs

`IInv` relates the progress of the thread, the mutex, the flag, the reports and
the position of the client. A thread that executed a stray command never
terminates, so that the client cannot be told it did.
`ReportsTellTheEnd`, `NoLostNotification` and
`TrueMeansTerminated` hold with spurious wakeups; `ServerOutlivesRunLoop` only
without one, and is proved in that form.

`ImplementsContract` is the refinement of `WatcherContract`. The steps of the
latch, the locks and the condition variable stutter. `IInv` is needed for the
others: the server is deleted only after the thread released its mutex or a wait
was woken by nothing (`Delete`); the reports of `finally` are the only ones
(`ReportFailure`, `ReportTermination`); and `awaitTermination` returns `true` when
the thread is gone and the server deleted (`Confirm`).

### WindowsServerProofs

`Inv` has a part for each actor. `Reads`: a completion is in the queue exactly for
a read that is finished and not delivered, once, and a read under way belongs to a
path that is listening or about to be. `Commands`: there is one at a time, and its
user waits for it as long as it is executed. `Destroying`: a watch point whose
destructor runs is not the one whose completion is being delivered; the sleep ends
when its completion was delivered, and so nothing frees a watch point that has a
read. `Moved`: a handle closed under a listening path implies a completion in the
queue *in front of every command*, so that the run loop learns of it before a
command could look at it. `Ending`: once the run loop has left its sleep, nothing
begins a read. `TypeOK`, `MemoryOutlivesUse` and `ReadsEndBeforeRunLoop` follow for
every set of paths and lists of any length.

`ChangesAreCarriedHolds`: `ListeningReads` is part of `Inv`. That a change owed to
the user is in front of a report or a read is not inductive: `NOT_LISTENING`
stands for a watch point that has failed as well as for one whose completion is
being handled, and `stopWatchingMovedPaths` may write a status at any moment of a
completion routine. `Settled` adds that a watch point that is not listening has
failed, is being handled, or the run loop is to end, and that no change is owed for
one that failed; `Placed` adds which statuses are possible at each stage of a
routine, so that a `CANCELLED` or `FINISHED` written meanwhile (the handle is closed,
or the read is over) does not hide a change from a routine that goes on to read.

`CommandServedHolds` is the safety half of `CommandsAnswered`: the command a user
waits for is in the queue of a run loop that sleeps, or is being executed by it.
That it is answered in the end is liveness, and checked as such in the run.

### AppleServerProofs

`Progress` says what `shutdown()` has reached: until the dispatch queue was waited
for there is no pill in the queue, and from then on there are no streams, no batches
and no callback. `PillIsLast` and `CallbacksFindServer` follow. `CoalescedIsReported`
is about the classification of flags alone: an event reported for what its flags
say stays reported when the flags of another change are added to it.

`RunLoopIsReachedHolds`: `notify_one` is called after the lock was released, so
between the push and the notification the run loop may wait beside a queue that is
not empty. The invariant says that whoever pushed last is then still on his way to
notify. With `Progress`, the pill is queued or still to come after `shutdown()`,
until the run loop took it. It is the safety half of `ShutdownCompletes`.

### AppleOrderProofs

`EventsInOrder` from the invariant `Flow`: an event passes five places (what waits
in its stream, the dispatch queue, the batch of the callback, the blocking queue,
the item of the run loop). Each place is in the order of the changes, no event
overtakes one of its path in a place further on, and none is older than what the
user was told. Stopping a stream only takes events away (`FlowShrinks`), which is
why another stream of the path may begin while batches of the first are discarded
or still wait.

`ChangesStayDueHolds` is an action property: from one place to the next no change
of a path that stays watched is dropped. It is proved action by action (`Stays`):
coalescing replaces an event by a later one that is reported when the first was
(`ChangeIsReported`), a callback hands over the batch one by one or leaves an error
in its place, the run loop tells of what it took. Stopping a stream loses the
events of its own path only; `Tidy` (a batch is of one stream) and `Flow` are
needed to see that.

### NativeCallsProofs

`Inv` says of each thread where an exception can be pending (below a call of Java,
next to the C++ exception that stands for it, on the way back) and of the run loop
that it is terminated when it returns, unless the logger threw outside of a
method's body: in a clause, a completion routine or a destructor. `JniCallsUnpended`,
`FailuresArrive` and `EscapesAreKnown` follow for any number of threads.

### What is only model-checked

Liveness, because neither fairness nor `ENABLED` is within the prover's reach:
`TerminationArrives`, `CancelledRetires`, `ShutdownCompletes` on two platforms,
`ShutdownEndsThread`, `AwaitReturns`, `CommandsAnswered`, `ChangesAreTold` on two
platforms, `TerminationCompletes`, and the liveness part of `ChannelSpec`. Every
safety property of a passing run is proved. `CommandServed`, `RunLoopIsReached`,
`ChangesAreCarried` and `ChangesStayDue` are the part of some of those that is
safety: if the scheduler lets the threads go on, nothing has been lost on the way.

## 5. Plan

Done, in this order: `EventQueue` with its refinement and proofs; `Inotify`,
`LinuxServer` and its proofs; `Lifecycle` and its proofs; `DirectoryChanges` and
`WindowsServer`; `FSEvents`, `AppleServer` and its proofs; `NativeCalls` and its
proofs; the proofs about `WindowsServer`, the events of `LinuxServer` and the
order of those of `AppleServer`; the refinements of `WatcherContract` and
`WatchDescriptors`; that changes are carried on Windows and macOS. What is left:

1. **Recovery on Linux**: that a change the kernel queued is reported or followed
   by a reported overflow or failure, the counterpart of `ChangesStayDue`.
2. **The command of Windows** as an abstract call with an answer, implemented by
   `WindowsServer`; `CommandServed` is most of what that refinement needs.
3. **Composition** of a server's reports with `EventQueue` and `Lifecycle`, from a
   change in a watched directory to the consumer. The modules meet at a narrow
   place: the run loop reports, in order, on one thread.

## 6. Not modelled

* `FileEvents.init` and `get`: two `synchronized` methods of one class, each one
  critical section, whose state nothing else changes. A model of them would
  repeat their assignments.
* Library services, version, build logic: constants set while the library is
  loaded by one thread; no behaviour at run time.
* The type an event is reported with on Linux and Windows, where an event of the
  system has one kind and the type is read off it. On macOS, where flags are
  coalesced, it is in `ChangeType`.
* The conversion of strings, except that it can fail; the text and the levels of
  logs, except that the logger can throw; JNI references.
* The handle that leaks when the constructor of a Windows watch point throws.
