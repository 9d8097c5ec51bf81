---------------------------- MODULE WindowsServer ----------------------------
(***************************************************************************)
(* The server of win_fsnotifier.cpp.  Its run loop sleeps, and while it    *)
(* sleeps its thread executes what is queued for it: the completion        *)
(* routines of the reads of its watch points, and the command of the user, *)
(* who waits for it with a timeout.  A command that destroys a watch point *)
(* sleeps again and so lets completion routines run inside of it.          *)
(* stopWatchingMovedPaths is no command: it works on the watch points from *)
(* the user's thread while the run loop goes on.                           *)
(*                                                                         *)
(* There is one user: a FileWatcher is not to be shared by threads.        *)
(***************************************************************************)
EXTENDS DirectoryChanges

CONSTANTS
    NoPath,
    Requests,   \* the lists of paths the user passes to a call
    Calls       \* bound: how many calls the user makes

ASSUME RequestsAssumption == NoPath \notin Paths /\ Requests \subseteq Seq(Paths)
ASSUME CallsAssumption == Calls \in Nat

VARIABLES
    status,     \* of each path in Server::watchPoints, WatchPoint::status
    loop,       \* where the run loop is
    executing,  \* the command it executes, inside of its sleep
    completion, \* the completion routine it executes, inside of either sleep
    terminate,  \* shouldTerminate
    shutdown,   \* Java's flag
    call,       \* the call of the user
    calls,      \* calls left
    missed,     \* history: paths with changes no report has told of
    failed      \* history: paths a failure was reported for

serverVars == <<status, terminate>>
loopVars == <<loop, executing, completion>>
userVars == <<call, calls, shutdown>>
vars == <<systemVars, serverVars, loopVars, userVars, missed, failed>>

NoCall == [op |-> "none", stage |-> "idle", todo |-> <<>>, left |-> {},
           path |-> NoPath, throws |-> FALSE]
NoCommand == [stage |-> "none", todo |-> <<>>]
NoCompletion == [stage |-> "none", path |-> NoPath, result |-> "none"]

Silent == UNCHANGED <<missed, failed>>

(* A report about a path tells of all that happened there before.          *)
Report(kind, path) ==
    /\ missed' = missed \ {path}
    /\ failed' = IF kind = "failure" THEN failed \cup {path} ELSE failed

Init ==
    /\ SystemInit
    /\ status = [p \in Paths |-> "ABSENT"]
    /\ loop = "sleep"
    /\ executing = NoCommand
    /\ completion = NoCompletion
    /\ terminate = FALSE
    /\ shutdown = FALSE
    /\ call = NoCall
    /\ calls = Calls
    /\ missed = {}
    /\ failed = {}

-------------------------------------------------------------------------------
(* The environment.  A change is owed to the user as long as the path is   *)
(* watched and no failure was reported for it.                             *)

Owed(path) ==
    status[path] \in {"LISTENING", "NOT_LISTENING"} /\ path \notin failed

FileSystem ==
    /\ \E path \in Paths :
          \/ /\ \/ CreateDirectory(path)
                \/ DeleteDirectory(path)
                \/ MoveAway(path)
                \/ MoveBack(path)
                \/ ReadError(path)
             /\ UNCHANGED missed
          \/ /\ Content(path)
             /\ missed' = IF Owed(path) THEN missed \cup {path} ELSE missed
    /\ UNCHANGED <<serverVars, loopVars, userVars, failed>>

-------------------------------------------------------------------------------
(* The run loop: its thread delivers the head of the queue when it sleeps  *)
(* in runLoop, in the destructor of a watch point, or at the end.          *)

Alertable ==
    /\ completion.stage = "none"
    /\ \/ loop = "sleep" /\ executing.stage \in {"none", "drain"}
       \/ loop = "drain"
    /\ apcs # <<>>

(* SleepEx returns when the queue is empty.                                *)
Slept == completion.stage = "none" /\ apcs = <<>>

(* Fault: a closed watch point gets a status of its own.                   *)
ClosedOtherwise(path) ==
    /\ status' = [status EXCEPT ![path] = "CLOSED"]
    /\ handle' = [handle EXCEPT ![path] = "closed"]

(* WatchPoint::close on the run loop's thread; no read is under way then.  *)
Closed(path) ==
    /\ status' = [status EXCEPT ![path] = "FINISHED"]
    /\ handle' = [handle EXCEPT ![path] = "closed"]

(* handleEventsInBuffer: a cancelled read ...                              *)
DeliverAbort(path) ==
    io[path] = "aborted" /\ Closed(path) /\ UNCHANGED completion

(* ... a read whose watch point is not listening ...                       *)
DeliverIgnored(path) ==
    /\ io[path] # "aborted"
    /\ status[path] # "LISTENING"
    /\ UNCHANGED <<handle, status, completion>>

(* Fault: the watch point stays LISTENING while its events are handled.    *)
BusyListening(path) == UNCHANGED status

Busy(path) == status' = [status EXCEPT ![path] = "NOT_LISTENING"]

(* ... and one whose result is to be handled.                              *)
DeliverResult(path) ==
    /\ io[path] # "aborted"
    /\ status[path] = "LISTENING"
    /\ Busy(path)
    /\ completion' = [stage |-> "handle", path |-> path, result |-> io[path]]
    /\ UNCHANGED handle

DeliverStep ==
    /\ Alertable
    /\ \E path \in Paths :
          /\ Head(apcs) = path
          /\ io' = [io EXCEPT ![path] = "none"]
          /\ DeliverAbort(path) \/ DeliverIgnored(path) \/ DeliverResult(path)
    /\ apcs' = Tail(apcs)
    /\ Silent
    /\ UNCHANGED <<fsVars, terminate, loop, executing, userVars>>

-------------------------------------------------------------------------------
(* handleEvents, one action for each way through it.                       *)

Handling(results) ==
    completion.stage = "handle" /\ completion.result \in results

Handled == completion' = NoCompletion
NoRead == UNCHANGED <<io, buffered, apcs>>
Same == UNCHANGED <<handle, status>>

(* reportWatchPointDeleted, which may find the watch point closed.         *)
ReportDeleted ==
    /\ Report("removed", completion.path)
    /\ Closed(completion.path)
    /\ Handled
    /\ NoRead

(* The watched directory was deleted while it was read.                    *)
HandleDenied ==
    /\ Handling({"denied"})
    /\ completion.path \notin there
    /\ ReportDeleted

(* The directory behind the handle is not where it was registered, or the  *)
(* handle was closed.                                                      *)
HandleMoved ==
    /\ Handling({"events", "overflow"})
    /\ handle[completion.path] # "here"
    /\ ReportDeleted

(* Any other error of the read is reported, and the path is not read again.*)
HandleError ==
    /\ \/ Handling({"error", "cleanup"})
       \/ Handling({"denied"}) /\ completion.path \in there
    /\ Report("failure", completion.path)
    /\ Handled
    /\ NoRead
    /\ Same

InPlace == Handling({"events", "overflow"}) /\ handle[completion.path] = "here"

(* What is queued behind the shutdown command is not told any more.        *)
HandleTerminating ==
    /\ InPlace
    /\ terminate
    /\ Handled
    /\ Silent
    /\ NoRead
    /\ Same

(* handleEvent for each event of the buffer: a created, removed or modified*)
(* path, an unknown event, or nothing for a modified directory; here they  *)
(* are one report.  An empty buffer is an overflow.                        *)
ReportEvents == Report(completion.result, completion.path)

(* Fault: after an overflow the server does not listen again.              *)
ReportedOnce ==
    completion' = IF completion.result = "overflow" THEN NoCompletion
                  ELSE [completion EXCEPT !.stage = "listen"]

Reported == completion' = [completion EXCEPT !.stage = "listen"]

HandleEvents ==
    /\ InPlace
    /\ ~terminate
    /\ ReportEvents
    /\ Reported
    /\ NoRead
    /\ Same

(* listen: the read is begun ...                                           *)
ListenAgain ==
    /\ completion.stage = "listen"
    /\ handle[completion.path] \in {"here", "moved"}
    /\ Read(completion.path)
    /\ completion' = [completion EXCEPT !.stage = "started"]
    /\ Silent
    /\ Same

(* ... and then the watch point is listening ...                           *)
Listening ==
    /\ completion.stage = "started"
    /\ status' = [status EXCEPT ![completion.path] = "LISTENING"]
    /\ Handled
    /\ Silent
    /\ NoRead
    /\ UNCHANGED handle

(* ... or it cannot be: access is denied to a directory that is gone, or   *)
(* there is another reason, as that the handle was closed.                 *)
ListenFails ==
    /\ completion.stage = "listen"
    /\ \/ Report("failure", completion.path)
       \/ /\ completion.path \notin there
          /\ handle[completion.path] # "closed"
          /\ Report("removed", completion.path)
    /\ Closed(completion.path)
    /\ Handled
    /\ NoRead

HandleStep ==
    /\ \/ HandleDenied
       \/ HandleMoved
       \/ HandleError
       \/ HandleTerminating
       \/ HandleEvents
       \/ ListenAgain
       \/ Listening
       \/ ListenFails
    /\ UNCHANGED <<there, changes, terminate, loop, executing, userVars>>

-------------------------------------------------------------------------------
(* Commands.  The user waits inside Command::execute, whose frame holds    *)
(* the command.                                                            *)

Unwatched == UNCHANGED <<handle, io, buffered, status>>
Waiting == UNCHANGED <<terminate, call>>

TakeCommand == Alertable /\ Head(apcs) = Command /\ apcs' = Tail(apcs)

StartCommand ==
    /\ TakeCommand
    /\ call.stage = "wait"
    /\ executing' = [stage |-> "next", todo |-> call.todo]
    /\ Unwatched
    /\ Waiting
    /\ UNCHANGED loop

(* The user stopped waiting, and the command's memory is gone.             *)
StartGoneCommand ==
    /\ TakeCommand
    /\ call.stage = "gone"
    /\ loop' = "undefined"
    /\ Unwatched
    /\ Waiting
    /\ UNCHANGED executing

Executing(op) ==
    /\ loop = "sleep"
    /\ executing.stage = "next"
    /\ call.op = op
    /\ UNCHANGED loop

Path == Head(executing.todo)
InList(op) == Executing(op) /\ executing.todo # <<>>
NextPath == executing' = [executing EXCEPT !.todo = Tail(@)]

Answer == executing' = NoCommand /\ call' = NoCall

(* Fault: an exception of the command leaves executeInsideRunLoop.         *)
AnswerFailureUnnoticed == executing' = NoCommand /\ UNCHANGED call

(* executeInsideRunLoop keeps the exception of a command, and wakes the    *)
(* user up.                                                                *)
AnswerFailure == Answer

EndOfList ==
    /\ \E op \in {"start", "stop"} : Executing(op)
    /\ executing.todo = <<>>
    /\ Answer
    /\ Unwatched
    /\ UNCHANGED <<apcs, terminate>>

ExecuteShutdown ==
    /\ Executing("shutdown")
    /\ terminate' = TRUE
    /\ Answer
    /\ Unwatched
    /\ UNCHANGED apcs

(* "Already watching path", also when nothing listens there any more; or   *)
(* the constructor of WatchPoint throws: there is no directory, or it      *)
(* cannot be opened or read.                                               *)
RegisterFails ==
    /\ InList("start")
    /\ status[Path] # "FINISHED"
    /\ AnswerFailure
    /\ Unwatched
    /\ UNCHANGED <<apcs, terminate>>

(* A finished watch point is erased first.                                 *)
RegisterErase ==
    /\ InList("start")
    /\ status[Path] = "FINISHED"
    /\ executing' = [executing EXCEPT !.stage = "drain"]
    /\ Unwatched
    /\ Waiting
    /\ UNCHANGED apcs

(* The constructor of WatchPoint begins the first read.                    *)
RegisterNew ==
    /\ InList("start")
    /\ status[Path] = "ABSENT"
    /\ Path \in there
    /\ handle' = [handle EXCEPT ![Path] = "here"]
    /\ Read(Path)
    /\ status' = [status EXCEPT ![Path] = "LISTENING"]
    /\ NextPath
    /\ Waiting

(* WatchPoint::cancel on the run loop's thread: the read is cancelled, or  *)
(* it is over already and the watch point is closed.                       *)
Cancel(path) ==
    IF Cancellable(path)
    THEN /\ CancelIo(path)
         /\ status' = [status EXCEPT ![path] = "CANCELLED"]
         /\ UNCHANGED handle
    ELSE Closed(path) /\ UNCHANGED <<io, apcs>>

(* Fault: the destructor does not sleep.                                   *)
AfterCancelAtOnce == "free"

(* The destructor sleeps, unless cancel threw: its handle was closed.      *)
AfterCancel == IF handle[Path] = "closed" THEN "free" ELSE "drain"

Unregister ==
    /\ InList("stop")
    /\ status[Path] # "ABSENT"
    /\ IF status[Path] = "LISTENING"
       THEN /\ Cancel(Path)
            /\ executing' = [executing EXCEPT !.stage = AfterCancel]
       ELSE /\ executing' = [executing EXCEPT !.stage = "drain"]
            /\ UNCHANGED <<handle, io, apcs, status>>
    /\ Waiting
    /\ UNCHANGED buffered

UnregisterNothing ==
    /\ InList("stop")
    /\ status[Path] = "ABSENT"
    /\ NextPath
    /\ Unwatched
    /\ Waiting
    /\ UNCHANGED apcs

(* The end of ~WatchPoint, which closes a handle that is still open.  If   *)
(* the read is not over, its completion will use memory that is free.      *)
Destroy ==
    /\ loop = "sleep"
    /\ executing.stage \in {"drain", "free"}
    /\ executing.stage = "drain" => Slept
    /\ loop' = IF io[Path] = "none" THEN loop ELSE "undefined"
    /\ status' = [status EXCEPT ![Path] = "ABSENT"]
    /\ handle' = [handle EXCEPT ![Path] = "none"]
    /\ buffered' = buffered \ {Path}
    /\ executing' = [stage |-> "next",
                     todo |-> IF call.op = "stop" THEN Tail(executing.todo)
                              ELSE executing.todo]
    /\ Waiting
    /\ UNCHANGED <<io, apcs>>

CommandStep ==
    /\ \/ StartCommand
       \/ StartGoneCommand
       \/ EndOfList
       \/ ExecuteShutdown
       \/ RegisterFails
       \/ RegisterErase
       \/ RegisterNew
       \/ Unregister
       \/ UnregisterNothing
       \/ Destroy
    /\ missed' = {p \in missed : status'[p] # "ABSENT"}
    /\ failed' = {p \in failed : status'[p] # "ABSENT"}
    /\ UNCHANGED <<there, changes, completion, shutdown, calls>>

-------------------------------------------------------------------------------
(* The end of runLoop.                                                     *)

Unread == UNCHANGED <<handle, io, apcs, status>>

LeaveLoop ==
    /\ loop = "sleep"
    /\ terminate
    /\ Slept
    /\ loop' = "cancel"
    /\ Unread

CancelRemaining ==
    /\ loop = "cancel"
    /\ \E path \in Paths : status[path] = "LISTENING" /\ Cancel(path)
    /\ UNCHANGED loop

(* Fault: the run loop waits for every watch point to be finished.         *)
CancelledFinished == \A p \in Paths : status[p] \in {"ABSENT", "FINISHED"}

Cancelled == \A p \in Paths : status[p] # "LISTENING"

(* Fault: the run loop does not sleep again.                               *)
EndAtOnce == loop' = "done"

SleepAgain == loop' = "drain"

CancelledAll ==
    /\ loop = "cancel"
    /\ Cancelled
    /\ SleepAgain
    /\ Unread

Finish ==
    /\ loop = "drain"
    /\ Slept
    /\ loop' = "done"
    /\ Unread

EndStep ==
    /\ LeaveLoop \/ CancelRemaining \/ CancelledAll \/ Finish
    /\ Silent
    /\ UNCHANGED <<fsVars, terminate, executing, completion, userVars>>

RunLoopStep == DeliverStep \/ HandleStep \/ CommandStep \/ EndStep

-------------------------------------------------------------------------------
(* The user.                                                               *)

UserOnly == Silent /\ UNCHANGED <<fsVars, terminate, executing, completion>>

(* executeOnRunLoop: the command is queued, and the user waits.            *)
Begin(op, todo) ==
    /\ call.stage = "idle"
    /\ ~shutdown
    /\ call' = [NoCall EXCEPT !.op = op, !.stage = "wait", !.todo = todo]
    /\ apcs' = Append(apcs, Command)
    /\ UserOnly
    /\ UNCHANGED <<handle, io, status, loop>>

Counted == calls > 0 /\ calls' = calls - 1 /\ UNCHANGED shutdown

StartWatching == Counted /\ \E todo \in Requests : Begin("start", todo)
StopWatching == Counted /\ \E todo \in Requests : Begin("stop", todo)

(* The flag is set first: a shutdown that fails cannot be tried again.     *)
Shutdown == shutdown' = TRUE /\ Begin("shutdown", <<>>) /\ UNCHANGED calls

(* The wait times out or wakes up for no reason: the call leaves, with an  *)
(* exception or an answer nobody gave.  The user makes no more calls.      *)
Abandon ==
    /\ call.stage = "wait"
    /\ call' = [call EXCEPT !.stage = "gone"]
    /\ loop' = IF executing = NoCommand THEN loop ELSE "undefined"
    /\ Unread
    /\ UserOnly
    /\ UNCHANGED <<calls, shutdown>>

(* stopWatchingMovedPaths checks nothing, and is executed where it is.     *)
StopWatchingMovedPaths ==
    /\ call.stage = "idle"
    /\ Counted
    /\ call' = [NoCall EXCEPT !.op = "moved", !.stage = "look",
                              !.left = {p \in Paths : status[p] # "ABSENT"}]
    /\ Unread
    /\ UserOnly
    /\ UNCHANGED loop

(* A watch point that is finished or in its place is left alone.           *)
MovedLook ==
    /\ call.stage = "look"
    /\ \E path \in call.left :
          call' = IF status[path] = "FINISHED" \/ handle[path] = "here"
                  THEN [call EXCEPT !.left = @ \ {path}]
                  ELSE [call EXCEPT !.left = @ \ {path}, !.path = path,
                                    !.stage = "check"]
    /\ Unread

(* Any other is dropped and cancelled, if it is listening.                 *)
MovedCheck ==
    /\ call.stage = "check"
    /\ call' = [call EXCEPT !.stage =
                   IF status[call.path] = "LISTENING" THEN "cancel" ELSE "look"]
    /\ Unread

(* CancelIoEx finds nothing to cancel when the read is over, and fails     *)
(* otherwise when the handle was closed.                                   *)
MovedCancel ==
    /\ call.stage = "cancel"
    /\ IF Cancellable(call.path)
       THEN /\ CancelIo(call.path)
            /\ call' = [call EXCEPT !.stage = "mark"]
       ELSE /\ call' = [call EXCEPT !.stage = "close",
                                    !.throws = handle[call.path] = "closed"]
            /\ UNCHANGED <<io, apcs>>
    /\ UNCHANGED <<handle, status>>

(* The status is set when the read may be delivered already.               *)
MovedMark ==
    /\ call.stage = "mark"
    /\ status' = [status EXCEPT ![call.path] = "CANCELLED"]
    /\ call' = [call EXCEPT !.stage = "look"]
    /\ UNCHANGED <<handle, io, apcs>>

Leave == IF call.throws THEN NoCall ELSE [call EXCEPT !.stage = "look"]

(* WatchPoint::close on the user's thread: it looks at the status, ...     *)
MovedClose ==
    /\ call.stage = "close"
    /\ call' = IF status[call.path] = "FINISHED" THEN Leave
               ELSE [call EXCEPT !.stage = "closing"]
    /\ Unread

(* ... closes the handle, which the run loop may have closed meanwhile, ...*)
MovedCloseHandle ==
    /\ call.stage = "closing"
    /\ CloseHandle(call.path)
    /\ call' = [call EXCEPT !.stage = "finish"]
    /\ UNCHANGED status

(* ... and sets the status, whatever the run loop made of it.              *)
MovedFinish ==
    /\ call.stage = "finish"
    /\ status' = [status EXCEPT ![call.path] = "FINISHED"]
    /\ call' = Leave
    /\ UNCHANGED <<handle, io, apcs>>

MovedReturn ==
    /\ call.stage = "look"
    /\ call.left = {}
    /\ call' = NoCall
    /\ Unread

MovedStep ==
    /\ \/ MovedLook
       \/ MovedCheck
       \/ MovedCancel
       \/ MovedMark
       \/ MovedClose
       \/ MovedCloseHandle
       \/ MovedFinish
       \/ MovedReturn
    /\ UserOnly
    /\ UNCHANGED <<loop, calls, shutdown>>

-------------------------------------------------------------------------------
Next ==
    \/ FileSystem
    \/ RunLoopStep
    \/ StartWatching
    \/ StopWatching
    \/ Shutdown
    \/ Abandon
    \/ StopWatchingMovedPaths
    \/ MovedStep

Spec == Init /\ [][Next]_vars

(* The run loop's thread runs, and stopWatchingMovedPaths goes on.         *)
Fairness == WF_vars(RunLoopStep) /\ WF_vars(MovedStep)
FairSpec == Spec /\ Fairness

-------------------------------------------------------------------------------
(* The variables have their types.                                         *)
TypeOK ==
    /\ SystemTypeOK
    /\ status \in [Paths -> {"ABSENT", "NOT_LISTENING", "LISTENING",
                             "CANCELLED", "FINISHED"}]
    /\ loop \in {"sleep", "cancel", "drain", "done", "undefined"}
    /\ executing \in [stage : {"none", "next", "drain", "free"}, todo : Seq(Paths)]
    /\ completion \in [stage : {"none", "handle", "listen", "started"},
                       path : Paths \cup {NoPath}, result : Results \cup {"none"}]
    /\ terminate \in BOOLEAN
    /\ shutdown \in BOOLEAN
    /\ call \in [op : {"none", "start", "stop", "shutdown", "moved"},
                 stage : {"idle", "wait", "gone", "look", "check", "cancel",
                          "mark", "close", "closing", "finish"},
                 todo : Seq(Paths), left : SUBSET Paths,
                 path : Paths \cup {NoPath}, throws : BOOLEAN]
    /\ calls \in 0 .. Calls
    /\ missed \subseteq Paths
    /\ failed \subseteq Paths

(* A watch point that is listening has a read under way or over: no path *)
(* is listened to in name only.                                            *)
ListeningReads ==
    \A p \in Paths : status[p] = "LISTENING" => io[p] # "none"

(* Where the run loop will come across a change: in a read that is over,   *)
(* behind the report that is being made, or in the buffer of the read that *)
(* is about to be begun.                                                   *)
Carried(p) ==
    \/ io[p] \in Results
    \/ completion.stage = "handle" /\ completion.path = p
    \/ completion.stage = "listen" /\ completion.path = p /\ p \in buffered

(* No change that is owed to the user is left behind, and the next one     *)
(* will not be: only cancelling the watch point, closing it or ending the  *)
(* run loop may drop a change, however stopWatchingMovedPaths interleaves  *)
(* with a completion routine.                                              *)
ChangesAreCarried ==
    /\ ListeningReads
    /\ \A p \in missed :
          Carried(p) \/ status[p] \in {"CANCELLED", "FINISHED"} \/ terminate

(* The run loop uses no memory that is free: a watch point is destroyed    *)
(* when its read is over and delivered, and a command is executed while    *)
(* its user waits, unless he gave up.                                      *)
MemoryOutlivesUse == loop = "undefined" => call.stage = "gone"

(* When the run loop has ended, and the server can be deleted, no read is  *)
(* under way and no completion is queued.                                  *)
ReadsEndBeforeRunLoop ==
    loop = "done" => \A p \in Paths : io[p] = "none"

(* WatchPointStatus::CANCELLED is documented as "expect                    *)
(* ERROR_OPERATION_ABORTED event".                                         *)
CancelledExpectsAbort ==
    \A p \in Paths : status[p] = "CANCELLED" => io[p] = "aborted"

Broken == loop = "undefined"

(* A command is answered, whatever else is delivered inside of it.         *)
CommandsAnswered == call.stage = "wait" ~> call.stage # "wait" \/ Broken

(* A change in a watched directory is told, with an event, an overflow, a  *)
(* failure or its deletion, until the path is not watched any more.        *)
ChangesAreTold ==
    \A p \in Paths : p \in missed ~>
       \/ p \notin missed
       \/ status[p] \in {"CANCELLED", "FINISHED"}
       \/ terminate
       \/ Broken

(* The run loop ends when it was told to.                                  *)
TerminationCompletes == terminate ~> loop = "done" \/ Broken
===============================================================================
