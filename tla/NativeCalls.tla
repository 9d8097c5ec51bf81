------------------------------ MODULE NativeCalls ------------------------------
(***************************************************************************)
(* The border between Java and C++: the native methods, the C++ code below *)
(* them that calls Java back (the watcher's callback, the logger), and the *)
(* two kinds of exceptions that have to get across.  A Java exception that *)
(* is thrown below C++ code stays pending on its thread, and the code goes *)
(* on; a C++ exception must not get out of a native method.                *)
(*                                                                         *)
(* What a method does is left to the other modules: its body may call Java *)
(* and fail in every way it does in the code of some platform.             *)
(***************************************************************************)
CONSTANTS
    Users,          \* threads that use a watcher
    RunLoop         \* the thread of its run loop

ASSUME RunLoopAssumption == RunLoop \notin Users

Threads == Users \cup {RunLoop}

VARIABLES
    thread,         \* of each thread, the native method it executes
    terminated,     \* AbstractServer::terminated
    escaped,        \* methods a C++ exception got out of: the process ends
    misused,        \* history: Java was called while an exception was pending
    loggerThrew     \* history: the logger threw outside of a method's body

vars == <<thread, terminated, escaped, misused, loggerThrew>>

UserMethods == {"startWatcher", "startWatching", "stopWatching",
                "stopWatchingMovedPaths", "shutdown", "awaitTermination"}
RunLoopMethods == {"initializeRunLoop", "executeRunLoop"}

(* Methods whose body calls back something that is not the logger.         *)
Reporting == {"executeRunLoop", "stopWatchingMovedPaths"}

(* Fault: startWatching0 has no empty catch clause.                        *)
EmptyClausesButOne == {"stopWatchingMovedPaths"}

(* Methods with an empty catch clause for JavaExceptionThrownException.    *)
EmptyClauses == {"startWatching", "stopWatchingMovedPaths"}

(* Fault: shutdown0 has no catch clause.                                   *)
UncaughtWithShutdown == {"startWatcher", "shutdown"}

(* Methods without a catch clause for every exception.                     *)
Uncaught == {"startWatcher"}

(* Methods below which a completion routine of Windows or the destructor   *)
(* of a watch point runs, and parts of it outside of every clause.         *)
Unguarded == {"executeRunLoop", "awaitTermination"}

InJava == [method |-> "none", at |-> "java", upcall |-> "none",
           pending |-> FALSE, flying |-> "none", failed |-> FALSE]

Init ==
    /\ thread = [t \in Threads |-> InJava]
    /\ terminated = FALSE
    /\ escaped = {}
    /\ misused = FALSE
    /\ loggerThrew = FALSE

-------------------------------------------------------------------------------
Becomes(t, frame) == thread' = [thread EXCEPT ![t] = frame]

(* Nothing is in flight, and no method of Java is being executed.          *)
Runs(t, places) ==
    /\ thread[t].at \in places
    /\ thread[t].upcall = "none"
    /\ thread[t].flying = "none"

(* A call of Java from t, which may throw.                                 *)
CallJava(t, frame) ==
    /\ \E throws \in BOOLEAN :
          Becomes(t, [frame EXCEPT !.pending = @ \/ throws])
    /\ misused' = (misused \/ frame.pending)

(* Java calls a native method, and executes the run loop once.             *)
Enter(t) ==
    /\ thread[t].at = "java"
    /\ \E method \in IF t = RunLoop THEN RunLoopMethods ELSE UserMethods :
          Becomes(t, [thread[t] EXCEPT !.method = method, !.at = "body"])
    /\ UNCHANGED <<terminated, misused, loggerThrew>>

(* report...Event and reportFailure, addToList on Windows.                 *)
Report(t) ==
    /\ Runs(t, {"body"})
    /\ thread[t].method \in Reporting
    /\ CallJava(t, [thread[t] EXCEPT !.upcall = "report"])
    /\ UNCHANGED <<terminated, loggerThrew>>

(* getJavaExceptionAndPrintStacktrace: what they throw is only printed.    *)
Reported(t) ==
    /\ thread[t].upcall = "report"
    /\ Becomes(t, [thread[t] EXCEPT !.upcall = "none", !.pending = FALSE])
    /\ UNCHANGED <<terminated, misused, loggerThrew>>

(* logToJava.                                                              *)
Log(t) ==
    /\ Runs(t, {"body"})
    /\ thread[t].method # "startWatcher"
    /\ CallJava(t, [thread[t] EXCEPT !.upcall = "log"])
    /\ UNCHANGED <<terminated, loggerThrew>>

(* logToJava before the try of a completion routine, or in the clause of   *)
(* the destructor.  What it throws may still find the clause of the        *)
(* method, as in Log, or nothing.                                          *)
LogUnguarded(t) ==
    /\ Runs(t, {"body"})
    /\ thread[t].method \in Unguarded
    /\ CallJava(t, [thread[t] EXCEPT !.upcall = "log", !.at = "routine"])
    /\ UNCHANGED <<terminated, loggerThrew>>

Logged(t) ==
    /\ thread[t].upcall = "log"
    /\ ~thread[t].pending
    /\ Becomes(t, [thread[t] EXCEPT !.upcall = "none",
                                    !.at = IF @ = "routine" THEN "body" ELSE @])
    /\ UNCHANGED <<terminated, misused, loggerThrew>>

(* rethrowJavaException clears what the logger threw and asks Java for its *)
(* type and message ...                                                    *)
Describe(t) ==
    /\ thread[t].upcall = "log"
    /\ thread[t].pending
    /\ CallJava(t, [thread[t] EXCEPT !.upcall = "describe", !.pending = FALSE])
    /\ UNCHANGED <<terminated, loggerThrew>>

(* ... which becomes the message of a C++ exception.                       *)
RethrowNative(t) ==
    /\ thread[t].upcall = "describe"
    /\ Becomes(t, [thread[t] EXCEPT !.upcall = "none", !.pending = FALSE,
                                    !.flying = "exception", !.failed = TRUE])
    /\ loggerThrew' = (loggerThrew \/ thread[t].at # "body")
    /\ UNCHANGED <<terminated, misused>>

(* "Closed already", a FileWatcherException, a path that cannot be decoded *)
Fail(t) ==
    /\ Runs(t, {"body"})
    /\ Becomes(t, [thread[t] EXCEPT !.flying = "exception", !.failed = TRUE])
    /\ UNCHANGED <<terminated, misused, loggerThrew>>

(* The limit of inotify watches is reached, or addToList on Linux fails:   *)
(* the Java exception has already been thrown.                             *)
FailInJava(t) ==
    /\ Runs(t, {"body"})
    /\ thread[t].method \in {"startWatching", "stopWatchingMovedPaths"}
    /\ Becomes(t, [thread[t] EXCEPT !.flying = "JavaExceptionThrown", !.failed = TRUE,
                                    !.pending = TRUE])
    /\ misused' = (misused \/ thread[t].pending)
    /\ UNCHANGED <<terminated, loggerThrew>>

(* The limit of inotify instances, the one exception startWatcher0 catches *)
InstanceLimit(t) ==
    /\ Runs(t, {"body"})
    /\ thread[t].method = "startWatcher"
    /\ Becomes(t, [thread[t] EXCEPT !.at = "return", !.failed = TRUE, !.pending = TRUE])
    /\ UNCHANGED <<terminated, misused, loggerThrew>>

Finish(t) ==
    /\ Runs(t, {"body"})
    /\ Becomes(t, [thread[t] EXCEPT
                     !.at = IF thread[t].method = "executeRunLoop"
                            THEN "terminate" ELSE "return"])
    /\ UNCHANGED <<terminated, misused, loggerThrew>>

-------------------------------------------------------------------------------
(* Catch clauses.                                                          *)

(* "Ignore, the Java exception has already been thrown."                   *)
EmptyClause(t) ==
    /\ thread[t].at = "body"
    /\ thread[t].flying = "JavaExceptionThrown"
    /\ thread[t].method \in EmptyClauses
    /\ Becomes(t, [thread[t] EXCEPT !.at = "return", !.flying = "none"])
    /\ UNCHANGED <<terminated, misused, loggerThrew>>

(* What an exception finds on its way out of a place in the method: the    *)
(* clause inside of executeRunLoop, the clause of the native method, or    *)
(* nothing.                                                                *)
Clause(method, at) ==
    IF at = "body" /\ method = "executeRunLoop" THEN "inner"
    ELSE IF at \in {"routine", "catch"} \/ method \in Uncaught THEN "none"
    ELSE "catch"

(* A clause begins with rethrowAsJavaException, and that with a log.       *)
Catch(t) ==
    LET clause == Clause(thread[t].method, thread[t].at)
    IN  /\ thread[t].flying # "none"
        /\ ~(thread[t].flying = "JavaExceptionThrown" /\ thread[t].method \in EmptyClauses)
        /\ clause # "none"
        /\ CallJava(t, [thread[t] EXCEPT !.at = clause, !.flying = "none", !.upcall = "log"])
        /\ UNCHANGED <<terminated, loggerThrew>>

(* Fault: the failed run loop does not terminate.                          *)
ThrowNewAndReturn(t) ==
    /\ Runs(t, {"inner", "catch"})
    /\ Becomes(t, [thread[t] EXCEPT !.pending = TRUE, !.at = "return"])
    /\ misused' = (misused \/ thread[t].pending)
    /\ UNCHANGED <<terminated, loggerThrew>>

(* ThrowNew.  From the clause in executeRunLoop, the run loop terminates.  *)
ThrowNew(t) ==
    /\ Runs(t, {"inner", "catch"})
    /\ Becomes(t, [thread[t] EXCEPT !.pending = TRUE,
                                    !.at = IF @ = "inner" THEN "terminate" ELSE "return"])
    /\ misused' = (misused \/ thread[t].pending)
    /\ UNCHANGED <<terminated, loggerThrew>>

Terminate(t) ==
    /\ thread[t].at = "terminate"
    /\ terminated' = TRUE
    /\ Becomes(t, [thread[t] EXCEPT !.at = "return"])
    /\ UNCHANGED <<misused, loggerThrew>>

(* Java gets the pending exception, if there is one.                       *)
Return(t) ==
    /\ thread[t].at = "return"
    /\ Becomes(t, IF thread[t].method = "executeRunLoop"
                  THEN [InJava EXCEPT !.at = "ended"] ELSE InJava)
    /\ UNCHANGED <<terminated, misused, loggerThrew>>

Escape(t) ==
    /\ thread[t].flying = "exception"
    /\ Clause(thread[t].method, thread[t].at) = "none"
    /\ escaped' = escaped \cup {thread[t].method}
    /\ UNCHANGED <<thread, terminated, misused, loggerThrew>>

ThreadStep(t) ==
    \/ Enter(t)
    \/ Report(t)
    \/ Reported(t)
    \/ Log(t)
    \/ LogUnguarded(t)
    \/ Logged(t)
    \/ Describe(t)
    \/ RethrowNative(t)
    \/ Fail(t)
    \/ FailInJava(t)
    \/ InstanceLimit(t)
    \/ Finish(t)
    \/ EmptyClause(t)
    \/ Catch(t)
    \/ ThrowNew(t)
    \/ Terminate(t)
    \/ Return(t)

(* A process that an exception escaped in does nothing more.               *)
Next ==
    /\ escaped = {}
    /\ \E t \in Threads : \/ ThreadStep(t) /\ UNCHANGED escaped
                          \/ Escape(t)

Spec == Init /\ [][Next]_vars

-------------------------------------------------------------------------------
(* Java is never called, and no exception thrown, by a thread on which an  *)
(* exception is pending: what happens then is undefined.                   *)
JniCallsUnpended == ~misused

(* A native method that failed returns with an exception for its caller,   *)
(* and one that did not returns without.  A run loop that ended, failed or *)
(* not, can be waited for, but for a logger that throws while the failure  *)
(* is logged: then it never is terminated.                                 *)
FailuresArrive ==
    /\ \A t \in Threads :
          thread[t].at = "return" => (thread[t].pending <=> thread[t].failed)
    /\ \/ thread[RunLoop].at = "ended"
       \/ thread[RunLoop].at = "return" /\ thread[RunLoop].method = "executeRunLoop"
       => terminated \/ loggerThrew

(* No C++ exception gets out of a native method, with three exceptions:    *)
(* the logger throws while a failure is logged, or outside of every clause *)
(* in a completion routine or a destructor, or the constructor of a server *)
(* throws in startWatcher0.                                                *)
EscapesAreKnown == escaped \subseteq {"startWatcher"} \/ loggerThrew
===============================================================================
