------------------------------ MODULE Lifecycle ------------------------------
(***************************************************************************)
(* The life of a watcher: the "File watcher server" thread that            *)
(* AbstractFileWatcher starts, the native server it runs, and the client   *)
(* that starts the watcher, shuts it down, waits for its termination and   *)
(* goes on calling it.  FileWatcher is @NotThreadSafe: there is one        *)
(* client, and what races is the client and the thread.                    *)
(***************************************************************************)
EXTENDS Naturals, Sequences

CONSTANTS
    InitializeMayFail,   \* initializeRunLoop throws, as OpenThread makes it
    CallsAreCommands     \* a call queues a command and waits until the run
                         \* loop has executed it, as on Windows

ASSUME PlatformAssumption ==
    InitializeMayFail \in BOOLEAN /\ CallsAreCommands \in BOOLEAN

VARIABLES
    thread,       \* where the processor thread is
    threw,        \* executeRunLoop leaves an exception pending
    latch,        \* runLoopInitialized was counted down
    shutdown,     \* AbstractFileWatcher.shutdown
    requested,    \* shutdownRunLoop has told the run loop to end
    locked,       \* the thread holds terminationMutex
    terminated,   \* AbstractServer::terminated
    deleted,      \* the native server was deleted
    client,       \* where the client is
    spurious,     \* history: awaitTermination woke without a notification
    refused,      \* history: the native shutdown threw
    stray,        \* a command was queued whose caller left, and its frame
    reports       \* failure and termination, as the callback got them

threadVars == <<thread, threw, latch, locked, terminated, reports>>
callVars == <<refused, stray>>
clientVars == <<client, shutdown, requested, deleted, spurious, callVars>>
vars == <<threadVars, clientVars>>

Init ==
    /\ thread = "new"
    /\ threw = FALSE
    /\ latch = FALSE
    /\ shutdown = FALSE
    /\ requested = FALSE
    /\ locked = FALSE
    /\ terminated = FALSE
    /\ deleted = FALSE
    /\ client = "new"
    /\ spurious = FALSE
    /\ refused = FALSE
    /\ stray = FALSE
    /\ reports = <<>>

-------------------------------------------------------------------------------
(* The processor thread.                                                   *)

Goes(from, to) == thread = from /\ thread' = to

InitializeRunLoop ==
    /\ Goes("initialize", "run")
    /\ latch' = TRUE
    /\ UNCHANGED <<clientVars, threw, locked, terminated, reports>>

(* Nothing catches what initializeRunLoop throws: the thread dies at once. *)
InitializeFails ==
    /\ InitializeMayFail
    /\ Goes("initialize", "dead")
    /\ UNCHANGED <<clientVars, threw, latch, locked, terminated, reports>>

RunLoopEnds ==
    /\ requested
    /\ ~deleted
    /\ Goes("run", "terminate")
    /\ UNCHANGED <<clientVars, threw, latch, locked, terminated, reports>>

RunLoopFails ==
    /\ ~deleted
    /\ Goes("run", "terminate")
    /\ threw' = TRUE
    /\ UNCHANGED <<clientVars, latch, locked, terminated, reports>>

(* executeRunLoop locks terminationMutex, sets terminated and notifies ... *)
Terminate ==
    /\ ~deleted
    /\ Goes("terminate", "unlock")
    /\ locked' = TRUE
    /\ terminated' = TRUE
    /\ client' = IF client = "wait" THEN "woken" ELSE client
    /\ UNCHANGED <<threw, latch, reports, shutdown, requested, deleted,
                   spurious, callVars>>

(* ... and unlocks when it returns.                                        *)
UnlockTermination ==
    /\ ~deleted
    /\ Goes("unlock", "check")
    /\ locked' = FALSE
    /\ UNCHANGED <<clientVars, threw, latch, terminated, reports>>

(* What a thread does whose server was deleted is undefined.               *)
RunLoopUsesDeleted ==
    /\ deleted
    /\ thread \in {"run", "terminate", "unlock"}
    /\ thread' = "undefined"
    /\ UNCHANGED <<clientVars, threw, latch, locked, terminated, reports>>

(* The run loop executes a command that was in a frame that is gone.       *)
RunLoopExecutesStray ==
    /\ stray
    /\ Goes("run", "undefined")
    /\ UNCHANGED <<clientVars, threw, latch, locked, terminated, reports>>

(* Fault: the failure is reported as an unknown event.                     *)
CheckShutdownUnknown ==
    /\ Goes("check", "finally")
    /\ reports' = IF threw \/ ~shutdown THEN Append(reports, "unknown")
                  ELSE reports
    /\ UNCHANGED <<clientVars, threw, latch, locked, terminated>>

(* Back in Java: an exception, or an exit nobody asked for, is a failure.  *)
CheckShutdown ==
    /\ Goes("check", "finally")
    /\ reports' = IF threw \/ ~shutdown THEN Append(reports, "failure")
                  ELSE reports
    /\ UNCHANGED <<clientVars, threw, latch, locked, terminated>>

ReportTermination ==
    /\ Goes("finally", "ending")
    /\ reports' = Append(reports, "termination")
    /\ UNCHANGED <<clientVars, threw, latch, locked, terminated>>

ThreadEnds ==
    /\ Goes("ending", "dead")
    /\ UNCHANGED <<clientVars, threw, latch, locked, terminated, reports>>

ThreadStep ==
    \/ InitializeRunLoop
    \/ RunLoopEnds
    \/ Terminate
    \/ UnlockTermination
    \/ CheckShutdown
    \/ ReportTermination
    \/ ThreadEnds

-------------------------------------------------------------------------------
(* The client.                                                             *)

ClientGoes(from, to) == client = from /\ client' = to

Initialize ==
    /\ ClientGoes("new", "starting")
    /\ Goes("new", "initialize")
    /\ UNCHANGED <<threw, latch, locked, terminated, reports>>
    /\ UNCHANGED <<shutdown, requested, deleted, spurious, callVars>>

Started ==
    /\ latch
    /\ ClientGoes("starting", "open")
    /\ UNCHANGED <<threadVars, shutdown, requested, deleted, spurious, callVars>>

(* start() throws, and the client has no watcher to shut down.             *)
StartTimesOut ==
    /\ ~latch
    /\ ClientGoes("starting", "abandoned")
    /\ UNCHANGED <<threadVars, shutdown, requested, deleted, spurious, callVars>>

(* Fault: the flag is not set before the native call.                      *)
ShutdownUnflagged ==
    /\ ~shutdown
    /\ ~deleted
    /\ ClientGoes("open", "shutdown")
    /\ UNCHANGED <<threadVars, shutdown, requested, deleted, spurious, callVars>>

(* shutdown(): ensureOpen and the flag, then the native call.              *)
Shutdown ==
    /\ ~shutdown
    /\ ~deleted
    /\ ClientGoes("open", "shutdown")
    /\ shutdown' = TRUE
    /\ UNCHANGED <<threadVars, requested, deleted, spurious, callVars>>

(* Fault: the run loop is not told.                                        *)
DoShutdownNothing ==
    /\ ClientGoes("shutdown", "open")
    /\ UNCHANGED <<threadVars, shutdown, requested, deleted, spurious, callVars>>

(* shutdownRunLoop tells the run loop ...                                  *)
DoShutdown ==
    /\ ClientGoes("shutdown", "open")
    /\ requested' = TRUE
    /\ UNCHANGED <<threadVars, shutdown, deleted, spurious, callVars>>

(* ... or throws, because the eventfd cannot be written, because no        *)
(* command can be queued, or because the answer came late.  The flag stays.*)
ShutdownThrows ==
    /\ ClientGoes("shutdown", "open")
    /\ requested' \in IF CallsAreCommands THEN BOOLEAN ELSE {FALSE}
    /\ refused' = TRUE
    /\ UNCHANGED <<threadVars, shutdown, deleted, spurious, stray>>

(* Its command times out before it is executed, or wait_for wakes up for   *)
(* no reason and shutdown() returns as if it had been.                     *)
ShutdownLeaves ==
    /\ CallsAreCommands
    /\ ClientGoes("shutdown", "open")
    /\ stray' = TRUE
    /\ refused' \in BOOLEAN
    /\ UNCHANGED <<threadVars, shutdown, requested, deleted, spurious>>

(* startWatching and stopWatching may leave a command behind as well.      *)
CallLeaves ==
    /\ CallsAreCommands
    /\ client = "open"
    /\ ~shutdown
    /\ ~deleted
    /\ stray' = TRUE
    /\ UNCHANGED <<threadVars, client, shutdown, requested, deleted, spurious,
                   refused>>

AwaitTermination ==
    /\ ClientGoes("open", "await")
    /\ UNCHANGED <<threadVars, shutdown, requested, deleted, spurious, callVars>>

(* Fault: the wait does not look at terminated first.                      *)
WaitAlways ==
    /\ ~deleted
    /\ ~locked
    /\ ClientGoes("await", "wait")
    /\ UNCHANGED <<threadVars, shutdown, requested, deleted, spurious, callVars>>

(* The native awaitTermination: it locks, and waits unless terminated.     *)
Wait ==
    /\ ~deleted
    /\ ~locked
    /\ ClientGoes("await", IF terminated THEN "delete" ELSE "wait")
    /\ UNCHANGED <<threadVars, shutdown, requested, deleted, spurious, callVars>>

(* getServer does not see that the server behind its buffer was deleted.   *)
WaitForDeleted ==
    /\ deleted
    /\ ClientGoes("await", "await_dangles")
    /\ UNCHANGED <<threadVars, shutdown, requested, deleted, spurious, callVars>>

(* wait_for has no predicate: it may wake up without a notification.       *)
SpuriousWakeup ==
    /\ ClientGoes("wait", "woken")
    /\ spurious' = TRUE
    /\ UNCHANGED <<threadVars, shutdown, requested, deleted, callVars>>

(* Fault: the wait returns without terminationMutex.                       *)
WaitSucceedsUnlocked ==
    /\ ClientGoes("woken", "delete")
    /\ UNCHANGED <<threadVars, shutdown, requested, deleted, spurious, callVars>>

(* Every wakeup before the deadline counts as success.                     *)
WaitSucceeds ==
    /\ ~locked
    /\ ClientGoes("woken", "delete")
    /\ UNCHANGED <<threadVars, shutdown, requested, deleted, spurious, callVars>>

(* Fault: wait instead of wait_for, which ends with a wakeup only.         *)
WaitForever ==
    /\ ~locked
    /\ ClientGoes("woken", "open")
    /\ UNCHANGED <<threadVars, shutdown, requested, deleted, spurious, callVars>>

(* ... and every one after it as a timeout, notified or not.               *)
WaitTimesOut ==
    /\ ~locked
    /\ client \in {"wait", "woken"}
    /\ client' = "open"
    /\ UNCHANGED <<threadVars, shutdown, requested, deleted, spurious, callVars>>

DeleteServer ==
    /\ ClientGoes("delete", "join")
    /\ deleted' = TRUE
    /\ UNCHANGED <<threadVars, shutdown, requested, spurious, callVars>>

(* join ends, times out or is not tried when no time is left; then         *)
(* !isAlive() is the answer.                                               *)
ReturnTrue ==
    /\ thread = "dead"
    /\ ClientGoes("join", "closed")
    /\ UNCHANGED <<threadVars, shutdown, requested, deleted, spurious, callVars>>

ReturnFalse ==
    /\ thread # "dead"
    /\ ClientGoes("join", "open")
    /\ UNCHANGED <<threadVars, shutdown, requested, deleted, spurious, callVars>>

(* A call that ensureOpen lets pass, because the client never called       *)
(* shutdown(), or stopWatchingMovedPaths, which has no ensureOpen.         *)
CallDeleted ==
    /\ deleted
    /\ client \in {"open", "closed"}
    /\ client' = "call_dangles"
    /\ UNCHANGED <<threadVars, shutdown, requested, deleted, spurious, callVars>>

ClientStep ==
    \/ Started
    \/ DoShutdown
    \/ ShutdownThrows
    \/ ShutdownLeaves
    \/ Wait
    \/ WaitForDeleted
    \/ WaitSucceeds
    \/ WaitTimesOut
    \/ DeleteServer
    \/ ReturnTrue
    \/ ReturnFalse

Next ==
    \/ ThreadStep
    \/ InitializeFails
    \/ RunLoopFails
    \/ RunLoopUsesDeleted
    \/ RunLoopExecutesStray
    \/ Initialize
    \/ StartTimesOut
    \/ Shutdown
    \/ CallLeaves
    \/ AwaitTermination
    \/ SpuriousWakeup
    \/ CallDeleted
    \/ ClientStep

Spec == Init /\ [][Next]_vars

(* The scheduler runs the thread and a client that is inside a call.       *)
FairSpec == Spec /\ WF_vars(ThreadStep) /\ WF_vars(ClientStep)

-------------------------------------------------------------------------------
Endings == {"failure", "termination"}

(* The variables have their types.                                         *)
TypeOK ==
    /\ thread \in {"new", "initialize", "run", "terminate", "unlock",
                   "check", "finally", "ending", "dead", "undefined"}
    /\ client \in {"new", "starting", "abandoned", "open", "shutdown",
                   "await", "wait", "woken", "delete", "join", "closed",
                   "await_dangles", "call_dangles"}
    /\ threw \in BOOLEAN /\ latch \in BOOLEAN /\ locked \in BOOLEAN
    /\ terminated \in BOOLEAN /\ deleted \in BOOLEAN
    /\ spurious \in BOOLEAN /\ refused \in BOOLEAN /\ stray \in BOOLEAN
    /\ shutdown \in BOOLEAN /\ requested \in BOOLEAN
    /\ reports \in Seq(Endings)

(* The server is deleted only when the thread has left executeRunLoop and  *)
(* released the mutex that is destroyed with the server.                   *)
ServerOutlivesRunLoop ==
    deleted => terminated /\ ~locked /\ thread \in
                  {"check", "finally", "ending", "dead"}

(* ... which is so as long as awaitTermination was only woken by the       *)
(* notification.                                                           *)
ServerOutlivesRunLoopUnlessWoken == ~spurious => ServerOutlivesRunLoop

(* A client never waits for a termination that was already notified: no    *)
(* notification is lost between its check of terminated and its wait.      *)
NoLostNotification == client = "wait" => ~terminated

(* The contract speaks of the run loop, wherever its thread is, ...        *)
ContractLoop ==
    CASE thread \in {"new", "initialize"} -> "starting"
      [] thread \in {"run", "terminate", "unlock"} -> "running"
      [] thread \in {"check", "finally", "ending"} -> "ended"
      [] thread = "dead" -> IF latch THEN "gone" ELSE "stillborn"
      [] thread = "undefined" -> "undefined"

(* ... and of what the client can rely on.                                 *)
ContractUser ==
    CASE client = "closed" -> "certain"
      [] client \in {"await_dangles", "call_dangles"} -> "astray"
      [] OTHER -> "using"

(* The promise this protocol keeps: the reports of the end are complete    *)
(* and in order, the server is deleted once and, unless a wait ended for   *)
(* no reason, when nobody uses it, and TRUE means that all of it is over.  *)
(* Only a caller who left his command behind can break it otherwise.       *)
Contract == INSTANCE WatcherContract
    WITH loop <- ContractLoop, failed <- threw, asked <- shutdown,
         woken <- spurious, user <- ContractUser
ContractSpec == Contract!Spec

(* shutdown() either throws without having told the run loop, or ends the  *)
(* thread, whatever the client does afterwards, unless a spurious wakeup   *)
(* took its server away or a caller left his command behind.  A shutdown   *)
(* that threw because its answer came late ends the thread all the same.   *)
ShutdownEndsThread ==
    shutdown ~> \/ thread = "dead"
                \/ refused /\ ~requested
                \/ spurious
                \/ stray

(* awaitTermination returns.                                               *)
AwaitReturns ==
    client = "await" ~> client \in {"open", "closed", "await_dangles"}
===============================================================================
