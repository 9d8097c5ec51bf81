--------------------------- MODULE NativeCallsProofs ---------------------------
(***************************************************************************)
(* Theorems about NativeCalls, for any number of threads: no JNI call with *)
(* an exception pending, where failures arrive, and what escapes.          *)
(***************************************************************************)
EXTENDS NativeCalls, TLAPS

Frames ==
    [method : {"none"} \cup UserMethods \cup RunLoopMethods,
     at : {"java", "body", "routine", "inner", "catch", "terminate", "return",
           "ended"},
     upcall : {"none", "report", "log", "describe"},
     pending : BOOLEAN,
     flying : {"none", "exception", "JavaExceptionThrown"},
     failed : BOOLEAN]

(* An exception is pending below an upcall, next to the C++ exception that *)
(* stands for it, and on the way back to Java, and nowhere else.           *)
PendingOK(f) ==
    /\ f.at \in {"java", "ended"} => ~f.pending /\ ~f.failed
    /\ f.at \in {"java", "ended", "terminate", "return"} =>
          f.upcall = "none" /\ f.flying = "none"
    /\ f.at \in {"terminate", "return"} => (f.pending <=> f.failed)
    /\ f.at \in {"body", "routine", "inner", "catch"} /\ f.pending =>
          f.upcall # "none" \/ f.flying = "JavaExceptionThrown"
    /\ f.upcall # "none" => f.flying = "none"
    /\ f.upcall = "report" => f.at = "body"
    /\ f.flying = "JavaExceptionThrown" =>
          f.pending /\ f.at = "body" /\ f.method \in EmptyClauses

(* A call has failed when an exception was thrown in its body.             *)
FailedOK(f) ==
    /\ f.at \in {"body", "routine"} => (f.failed <=> f.flying # "none")
    /\ f.at \in {"inner", "catch"} => f.failed

(* An exception gets past the clause in executeRunLoop, out of another     *)
(* clause or of a completion routine, when the logger throws there.        *)
LoggerOK(f, over, threw) ==
    /\ f.at \in {"routine", "inner", "catch"} /\ f.flying # "none" => threw
    /\ f.at = "catch" /\ f.method = "executeRunLoop" => threw
    /\ f.at = "return" /\ f.method = "executeRunLoop" => over \/ threw
    /\ f.at = "ended" => over \/ threw

FrameOK(f) == f \in Frames /\ PendingOK(f) /\ FailedOK(f) /\ LoggerOK(f, terminated, loggerThrew)

Inv ==
    /\ thread \in [Threads -> Frames]
    /\ \A t \in Threads : FrameOK(thread[t])
    /\ terminated \in BOOLEAN /\ loggerThrew \in BOOLEAN
    /\ ~misused
    /\ EscapesAreKnown

LEMMA InvInit == Init => Inv
<1> SUFFICES ASSUME Init PROVE Inv
  OBVIOUS
<1>1. InJava \in Frames
  BY DEF InJava, Frames
<1>2. \A t \in Threads : thread[t] = InJava
  BY DEF Init
<1>3. PendingOK(InJava) /\ FailedOK(InJava) /\ LoggerOK(InJava, terminated, loggerThrew)
  BY DEF InJava, PendingOK, FailedOK, LoggerOK
<1> QED
  BY <1>1, <1>2, <1>3 DEF Init, Inv, FrameOK, EscapesAreKnown

(* No thread takes back that terminated is set or that the logger threw,   *)
(* and none misuses JNI.                                                   *)
Kept ==
    /\ terminated => terminated'
    /\ loggerThrew => loggerThrew'
    /\ terminated' \in BOOLEAN /\ loggerThrew' \in BOOLEAN
    /\ ~misused'

(* A step of one thread: its new frame is all there is to look at.         *)
LEMMA OneThread ==
    ASSUME Inv, NEW t \in Threads, NEW f, Becomes(t, f),
           Kept, UNCHANGED escaped,
           f \in Frames, PendingOK(f), FailedOK(f), LoggerOK(f, terminated', loggerThrew')
    PROVE  Inv'
<1>1. thread' \in [Threads -> Frames]
  BY DEF Becomes, Inv
<1>2. ASSUME NEW s \in Threads PROVE FrameOK(thread[s])'
  <2>1. CASE s = t
    BY <2>1 DEF Becomes, Inv, FrameOK, PendingOK, FailedOK, LoggerOK, Kept
  <2>2. CASE s # t
    BY <2>2 DEF Becomes, Inv, FrameOK, PendingOK, FailedOK, LoggerOK, Kept
  <2> QED
    BY <2>1, <2>2
<1> QED
  BY <1>1, <1>2 DEF Inv, EscapesAreKnown, Kept

LEMMA ThreadStepInv ==
    ASSUME Inv, NEW t \in Threads, ThreadStep(t), UNCHANGED escaped
    PROVE  Inv'
<1> DEFINE f == thread[t]
<1>1. /\ f \in Frames /\ PendingOK(f) /\ FailedOK(f) /\ LoggerOK(f, terminated, loggerThrew)
      /\ ~misused /\ terminated \in BOOLEAN /\ loggerThrew \in BOOLEAN
  BY DEF Inv, FrameOK
<1>2. ASSUME NEW g \in Frames, Becomes(t, g), PendingOK(g), FailedOK(g),
             LoggerOK(g, terminated', loggerThrew'),
             Kept
      PROVE  Inv'
  BY <1>2, OneThread
<1>3. CASE Enter(t)
  <2>1. PICK method \in UserMethods \cup RunLoopMethods : Becomes(t, [f EXCEPT !.method = method, !.at = "body"])
    BY <1>3 DEF Enter
  <2> DEFINE g == [f EXCEPT !.method = method, !.at = "body"]
  <2>7. Becomes(t, g)
    BY <2>1
  <2>2. g \in Frames
    BY <1>1, <1>3 DEF Frames, InJava, UserMethods, RunLoopMethods, Enter
  <2>3. PendingOK(g)
    BY <1>1, <1>3 DEF PendingOK, FailedOK, LoggerOK, Kept, Frames, Runs, Enter
  <2>4. FailedOK(g)
    BY <1>1, <1>3 DEF PendingOK, FailedOK, LoggerOK, Kept, Frames, Runs, Enter
  <2>5. LoggerOK(g, terminated', loggerThrew')
    BY <1>1, <1>3 DEF PendingOK, FailedOK, LoggerOK, Kept, Frames, Runs, Enter
  <2>6. Kept
    BY <1>1, <1>3 DEF PendingOK, FailedOK, LoggerOK, Kept, Frames, Runs, Enter
  <2> HIDE DEF g
  <2> QED
    BY <1>2, <2>1, <2>2, <2>3, <2>4, <2>5, <2>6, <2>7
<1>4. CASE Report(t)
  <2>1. PICK throws \in BOOLEAN : Becomes(t, [[f EXCEPT !.upcall = "report"] EXCEPT !.pending = @ \/ throws])
    BY <1>4 DEF Report, CallJava
  <2> DEFINE g == [[f EXCEPT !.upcall = "report"] EXCEPT !.pending = @ \/ throws]
  <2>7. Becomes(t, g)
    BY <2>1
  <2>2. g \in Frames
    BY <1>1, <1>4 DEF Frames, InJava, UserMethods, RunLoopMethods, Report, CallJava
  <2>3. PendingOK(g)
    BY <1>1, <1>4 DEF PendingOK, FailedOK, LoggerOK, Kept, Frames, Runs, Report, CallJava
  <2>4. FailedOK(g)
    BY <1>1, <1>4 DEF PendingOK, FailedOK, LoggerOK, Kept, Frames, Runs, Report, CallJava
  <2>5. LoggerOK(g, terminated', loggerThrew')
    BY <1>1, <1>4 DEF PendingOK, FailedOK, LoggerOK, Kept, Frames, Runs, Report, CallJava
  <2>6. Kept
    BY <1>1, <1>4 DEF PendingOK, FailedOK, LoggerOK, Kept, Frames, Runs, Report, CallJava
  <2> HIDE DEF g
  <2> QED
    BY <1>2, <2>1, <2>2, <2>3, <2>4, <2>5, <2>6, <2>7
<1>5. CASE Reported(t)
  <2> DEFINE g == [f EXCEPT !.upcall = "none", !.pending = FALSE]
  <2>1. Becomes(t, g)
    BY <1>5 DEF Reported
  <2>2. g \in Frames
    BY <1>1, <1>5 DEF Frames, InJava, UserMethods, RunLoopMethods, Reported
  <2>3. PendingOK(g)
    BY <1>1, <1>5 DEF PendingOK, FailedOK, LoggerOK, Kept, Frames, Runs, Reported
  <2>4. FailedOK(g)
    BY <1>1, <1>5 DEF PendingOK, FailedOK, LoggerOK, Kept, Frames, Runs, Reported
  <2>5. LoggerOK(g, terminated', loggerThrew')
    BY <1>1, <1>5 DEF PendingOK, FailedOK, LoggerOK, Kept, Frames, Runs, Reported
  <2>6. Kept
    BY <1>1, <1>5 DEF PendingOK, FailedOK, LoggerOK, Kept, Frames, Runs, Reported
  <2> HIDE DEF g
  <2> QED
    BY <1>2, <2>1, <2>2, <2>3, <2>4, <2>5, <2>6
<1>6. CASE Log(t)
  <2>1. PICK throws \in BOOLEAN : Becomes(t, [[f EXCEPT !.upcall = "log"] EXCEPT !.pending = @ \/ throws])
    BY <1>6 DEF Log, CallJava
  <2> DEFINE g == [[f EXCEPT !.upcall = "log"] EXCEPT !.pending = @ \/ throws]
  <2>7. Becomes(t, g)
    BY <2>1
  <2>2. g \in Frames
    BY <1>1, <1>6 DEF Frames, InJava, UserMethods, RunLoopMethods, Log, CallJava
  <2>3. PendingOK(g)
    BY <1>1, <1>6 DEF PendingOK, FailedOK, LoggerOK, Kept, Frames, Runs, Log, CallJava
  <2>4. FailedOK(g)
    BY <1>1, <1>6 DEF PendingOK, FailedOK, LoggerOK, Kept, Frames, Runs, Log, CallJava
  <2>5. LoggerOK(g, terminated', loggerThrew')
    BY <1>1, <1>6 DEF PendingOK, FailedOK, LoggerOK, Kept, Frames, Runs, Log, CallJava
  <2>6. Kept
    BY <1>1, <1>6 DEF PendingOK, FailedOK, LoggerOK, Kept, Frames, Runs, Log, CallJava
  <2> HIDE DEF g
  <2> QED
    BY <1>2, <2>1, <2>2, <2>3, <2>4, <2>5, <2>6, <2>7
<1>7. CASE Logged(t)
  <2> DEFINE g == [f EXCEPT !.upcall = "none", !.at = IF @ = "routine" THEN "body" ELSE @]
  <2>1. Becomes(t, g)
    BY <1>7 DEF Logged
  <2>2. g \in Frames
    BY <1>1, <1>7 DEF Frames, InJava, UserMethods, RunLoopMethods, Logged
  <2>3. PendingOK(g)
    BY <1>1, <1>7 DEF PendingOK, FailedOK, LoggerOK, Kept, Frames, Runs, Logged
  <2>4. FailedOK(g)
    BY <1>1, <1>7 DEF PendingOK, FailedOK, LoggerOK, Kept, Frames, Runs, Logged
  <2>5. LoggerOK(g, terminated', loggerThrew')
    BY <1>1, <1>7 DEF PendingOK, FailedOK, LoggerOK, Kept, Frames, Runs, Logged
  <2>6. Kept
    BY <1>1, <1>7 DEF PendingOK, FailedOK, LoggerOK, Kept, Frames, Runs, Logged
  <2> HIDE DEF g
  <2> QED
    BY <1>2, <2>1, <2>2, <2>3, <2>4, <2>5, <2>6
<1>8. CASE Describe(t)
  <2>1. PICK throws \in BOOLEAN : Becomes(t, [[f EXCEPT !.upcall = "describe", !.pending = FALSE] EXCEPT !.pending = @ \/ throws])
    BY <1>8 DEF Describe, CallJava
  <2> DEFINE g == [[f EXCEPT !.upcall = "describe", !.pending = FALSE] EXCEPT !.pending = @ \/ throws]
  <2>7. Becomes(t, g)
    BY <2>1
  <2>2. g \in Frames
    BY <1>1, <1>8 DEF Frames, InJava, UserMethods, RunLoopMethods, Describe, CallJava
  <2>3. PendingOK(g)
    BY <1>1, <1>8 DEF PendingOK, FailedOK, LoggerOK, Kept, Frames, Runs, Describe, CallJava
  <2>4. FailedOK(g)
    BY <1>1, <1>8 DEF PendingOK, FailedOK, LoggerOK, Kept, Frames, Runs, Describe, CallJava
  <2>5. LoggerOK(g, terminated', loggerThrew')
    BY <1>1, <1>8 DEF PendingOK, FailedOK, LoggerOK, Kept, Frames, Runs, Describe, CallJava
  <2>6. Kept
    BY <1>1, <1>8 DEF PendingOK, FailedOK, LoggerOK, Kept, Frames, Runs, Describe, CallJava
  <2> HIDE DEF g
  <2> QED
    BY <1>2, <2>1, <2>2, <2>3, <2>4, <2>5, <2>6, <2>7
<1>9. CASE RethrowNative(t)
  <2> DEFINE g == [f EXCEPT !.upcall = "none", !.pending = FALSE, !.flying = "exception", !.failed = TRUE]
  <2>1. Becomes(t, g)
    BY <1>9 DEF RethrowNative
  <2>2. g \in Frames
    BY <1>1, <1>9 DEF Frames, InJava, UserMethods, RunLoopMethods, RethrowNative
  <2>3. PendingOK(g)
    BY <1>1, <1>9 DEF PendingOK, FailedOK, LoggerOK, Kept, Frames, Runs, RethrowNative
  <2>4. FailedOK(g)
    BY <1>1, <1>9 DEF PendingOK, FailedOK, LoggerOK, Kept, Frames, Runs, RethrowNative
  <2>5. LoggerOK(g, terminated', loggerThrew')
    BY <1>1, <1>9 DEF PendingOK, FailedOK, LoggerOK, Kept, Frames, Runs, RethrowNative
  <2>6. Kept
    BY <1>1, <1>9 DEF PendingOK, FailedOK, LoggerOK, Kept, Frames, Runs, RethrowNative
  <2> HIDE DEF g
  <2> QED
    BY <1>2, <2>1, <2>2, <2>3, <2>4, <2>5, <2>6
<1>10. CASE Fail(t)
  <2> DEFINE g == [f EXCEPT !.flying = "exception", !.failed = TRUE]
  <2>1. Becomes(t, g)
    BY <1>10 DEF Fail
  <2>2. g \in Frames
    BY <1>1, <1>10 DEF Frames, InJava, UserMethods, RunLoopMethods, Fail
  <2>3. PendingOK(g)
    BY <1>1, <1>10 DEF PendingOK, FailedOK, LoggerOK, Kept, Frames, Runs, Fail
  <2>4. FailedOK(g)
    BY <1>1, <1>10 DEF PendingOK, FailedOK, LoggerOK, Kept, Frames, Runs, Fail
  <2>5. LoggerOK(g, terminated', loggerThrew')
    BY <1>1, <1>10 DEF PendingOK, FailedOK, LoggerOK, Kept, Frames, Runs, Fail
  <2>6. Kept
    BY <1>1, <1>10 DEF PendingOK, FailedOK, LoggerOK, Kept, Frames, Runs, Fail
  <2> HIDE DEF g
  <2> QED
    BY <1>2, <2>1, <2>2, <2>3, <2>4, <2>5, <2>6
<1>11. CASE FailInJava(t)
  <2> DEFINE g == [f EXCEPT !.flying = "JavaExceptionThrown", !.failed = TRUE, !.pending = TRUE]
  <2>1. Becomes(t, g)
    BY <1>11 DEF FailInJava, EmptyClauses
  <2>2. g \in Frames
    BY <1>1, <1>11 DEF Frames, InJava, UserMethods, RunLoopMethods, FailInJava, EmptyClauses
  <2>3. PendingOK(g)
    BY <1>1, <1>11 DEF PendingOK, FailedOK, LoggerOK, Kept, Frames, Runs, FailInJava, EmptyClauses
  <2>4. FailedOK(g)
    BY <1>1, <1>11 DEF PendingOK, FailedOK, LoggerOK, Kept, Frames, Runs, FailInJava, EmptyClauses
  <2>5. LoggerOK(g, terminated', loggerThrew')
    BY <1>1, <1>11 DEF PendingOK, FailedOK, LoggerOK, Kept, Frames, Runs, FailInJava, EmptyClauses
  <2>6. Kept
    BY <1>1, <1>11 DEF PendingOK, FailedOK, LoggerOK, Kept, Frames, Runs, FailInJava, EmptyClauses
  <2> HIDE DEF g
  <2> QED
    BY <1>2, <2>1, <2>2, <2>3, <2>4, <2>5, <2>6
<1>12. CASE InstanceLimit(t)
  <2> DEFINE g == [f EXCEPT !.at = "return", !.failed = TRUE, !.pending = TRUE]
  <2>1. Becomes(t, g)
    BY <1>12 DEF InstanceLimit
  <2>2. g \in Frames
    BY <1>1, <1>12 DEF Frames, InJava, UserMethods, RunLoopMethods, InstanceLimit
  <2>3. PendingOK(g)
    BY <1>1, <1>12 DEF PendingOK, FailedOK, LoggerOK, Kept, Frames, Runs, InstanceLimit
  <2>4. FailedOK(g)
    BY <1>1, <1>12 DEF PendingOK, FailedOK, LoggerOK, Kept, Frames, Runs, InstanceLimit
  <2>5. LoggerOK(g, terminated', loggerThrew')
    BY <1>1, <1>12 DEF PendingOK, FailedOK, LoggerOK, Kept, Frames, Runs, InstanceLimit
  <2>6. Kept
    BY <1>1, <1>12 DEF PendingOK, FailedOK, LoggerOK, Kept, Frames, Runs, InstanceLimit
  <2> HIDE DEF g
  <2> QED
    BY <1>2, <2>1, <2>2, <2>3, <2>4, <2>5, <2>6
<1>13. CASE Finish(t)
  <2> DEFINE g == [f EXCEPT !.at = IF f.method = "executeRunLoop" THEN "terminate" ELSE "return"]
  <2>1. Becomes(t, g)
    BY <1>13 DEF Finish
  <2>2. g \in Frames
    BY <1>1, <1>13 DEF Frames, InJava, UserMethods, RunLoopMethods, Finish
  <2>3. PendingOK(g)
    BY <1>1, <1>13 DEF PendingOK, FailedOK, LoggerOK, Kept, Frames, Runs, Finish
  <2>4. FailedOK(g)
    BY <1>1, <1>13 DEF PendingOK, FailedOK, LoggerOK, Kept, Frames, Runs, Finish
  <2>5. LoggerOK(g, terminated', loggerThrew')
    BY <1>1, <1>13 DEF PendingOK, FailedOK, LoggerOK, Kept, Frames, Runs, Finish
  <2>6. Kept
    BY <1>1, <1>13 DEF PendingOK, FailedOK, LoggerOK, Kept, Frames, Runs, Finish
  <2> HIDE DEF g
  <2> QED
    BY <1>2, <2>1, <2>2, <2>3, <2>4, <2>5, <2>6
<1>14. CASE EmptyClause(t)
  <2> DEFINE g == [f EXCEPT !.at = "return", !.flying = "none"]
  <2>1. Becomes(t, g)
    BY <1>14 DEF EmptyClause, EmptyClauses
  <2>2. g \in Frames
    BY <1>1, <1>14 DEF Frames, InJava, UserMethods, RunLoopMethods, EmptyClause, EmptyClauses
  <2>3. PendingOK(g)
    BY <1>1, <1>14 DEF PendingOK, FailedOK, LoggerOK, Kept, Frames, Runs, EmptyClause, EmptyClauses
  <2>4. FailedOK(g)
    BY <1>1, <1>14 DEF PendingOK, FailedOK, LoggerOK, Kept, Frames, Runs, EmptyClause, EmptyClauses
  <2>5. LoggerOK(g, terminated', loggerThrew')
    BY <1>1, <1>14 DEF PendingOK, FailedOK, LoggerOK, Kept, Frames, Runs, EmptyClause, EmptyClauses
  <2>6. Kept
    BY <1>1, <1>14 DEF PendingOK, FailedOK, LoggerOK, Kept, Frames, Runs, EmptyClause, EmptyClauses
  <2> HIDE DEF g
  <2> QED
    BY <1>2, <2>1, <2>2, <2>3, <2>4, <2>5, <2>6
<1>15. CASE Catch(t)
  <2>1. PICK throws \in BOOLEAN : Becomes(t, [[f EXCEPT !.at = Clause(f.method, f.at), !.flying = "none", !.upcall = "log"] EXCEPT !.pending = @ \/ throws])
    BY <1>15 DEF Catch, Clause, CallJava, Uncaught, EmptyClauses
  <2> DEFINE g == [[f EXCEPT !.at = Clause(f.method, f.at), !.flying = "none", !.upcall = "log"] EXCEPT !.pending = @ \/ throws]
  <2>7. Becomes(t, g)
    BY <2>1
  <2>2. g \in Frames
    BY <1>1, <1>15 DEF Frames, InJava, UserMethods, RunLoopMethods, Catch, Clause, CallJava, Uncaught, EmptyClauses
  <2>3. PendingOK(g)
    BY <1>1, <1>15 DEF PendingOK, FailedOK, LoggerOK, Kept, Frames, Runs, Catch, Clause, CallJava, Uncaught, EmptyClauses
  <2>4. FailedOK(g)
    BY <1>1, <1>15 DEF PendingOK, FailedOK, LoggerOK, Kept, Frames, Runs, Catch, Clause, CallJava, Uncaught, EmptyClauses
  <2>5. LoggerOK(g, terminated', loggerThrew')
    BY <1>1, <1>15 DEF PendingOK, FailedOK, LoggerOK, Kept, Frames, Runs, Catch, Clause, CallJava, Uncaught, EmptyClauses
  <2>6. Kept
    BY <1>1, <1>15 DEF PendingOK, FailedOK, LoggerOK, Kept, Frames, Runs, Catch, Clause, CallJava, Uncaught, EmptyClauses
  <2> HIDE DEF g
  <2> QED
    BY <1>2, <2>1, <2>2, <2>3, <2>4, <2>5, <2>6, <2>7
<1>16. CASE ThrowNew(t)
  <2> DEFINE g == [f EXCEPT !.pending = TRUE, !.at = IF @ = "inner" THEN "terminate" ELSE "return"]
  <2>1. Becomes(t, g)
    BY <1>16 DEF ThrowNew
  <2>2. g \in Frames
    BY <1>1, <1>16 DEF Frames, InJava, UserMethods, RunLoopMethods, ThrowNew
  <2>3. PendingOK(g)
    BY <1>1, <1>16 DEF PendingOK, FailedOK, LoggerOK, Kept, Frames, Runs, ThrowNew
  <2>4. FailedOK(g)
    BY <1>1, <1>16 DEF PendingOK, FailedOK, LoggerOK, Kept, Frames, Runs, ThrowNew
  <2>5. LoggerOK(g, terminated', loggerThrew')
    BY <1>1, <1>16 DEF PendingOK, FailedOK, LoggerOK, Kept, Frames, Runs, ThrowNew
  <2>6. Kept
    BY <1>1, <1>16 DEF PendingOK, FailedOK, LoggerOK, Kept, Frames, Runs, ThrowNew
  <2> HIDE DEF g
  <2> QED
    BY <1>2, <2>1, <2>2, <2>3, <2>4, <2>5, <2>6
<1>17. CASE Terminate(t)
  <2> DEFINE g == [f EXCEPT !.at = "return"]
  <2>1. Becomes(t, g)
    BY <1>17 DEF Terminate
  <2>2. g \in Frames
    BY <1>1, <1>17 DEF Frames, InJava, UserMethods, RunLoopMethods, Terminate
  <2>3. PendingOK(g)
    BY <1>1, <1>17 DEF PendingOK, FailedOK, LoggerOK, Kept, Frames, Runs, Terminate
  <2>4. FailedOK(g)
    BY <1>1, <1>17 DEF PendingOK, FailedOK, LoggerOK, Kept, Frames, Runs, Terminate
  <2>5. LoggerOK(g, terminated', loggerThrew')
    BY <1>1, <1>17 DEF PendingOK, FailedOK, LoggerOK, Kept, Frames, Runs, Terminate
  <2>6. Kept
    BY <1>1, <1>17 DEF PendingOK, FailedOK, LoggerOK, Kept, Frames, Runs, Terminate
  <2> HIDE DEF g
  <2> QED
    BY <1>2, <2>1, <2>2, <2>3, <2>4, <2>5, <2>6
<1>18. CASE Return(t)
  <2> DEFINE g == IF f.method = "executeRunLoop" THEN [InJava EXCEPT !.at = "ended"] ELSE InJava
  <2>1. Becomes(t, g)
    BY <1>18 DEF Return, InJava
  <2>2. g \in Frames
    BY <1>1, <1>18 DEF Frames, InJava, UserMethods, RunLoopMethods, Return, InJava
  <2>3. PendingOK(g)
    BY <1>1, <1>18 DEF PendingOK, FailedOK, LoggerOK, Kept, Frames, Runs, Return, InJava
  <2>4. FailedOK(g)
    BY <1>1, <1>18 DEF PendingOK, FailedOK, LoggerOK, Kept, Frames, Runs, Return, InJava
  <2>5. LoggerOK(g, terminated', loggerThrew')
    BY <1>1, <1>18 DEF PendingOK, FailedOK, LoggerOK, Kept, Frames, Runs, Return, InJava
  <2>6. Kept
    BY <1>1, <1>18 DEF PendingOK, FailedOK, LoggerOK, Kept, Frames, Runs, Return, InJava
  <2> HIDE DEF g
  <2> QED
    BY <1>2, <2>1, <2>2, <2>3, <2>4, <2>5, <2>6
<1>19. CASE LogUnguarded(t)
  <2>1. PICK throws \in BOOLEAN : Becomes(t, [[f EXCEPT !.upcall = "log", !.at = "routine"] EXCEPT !.pending = @ \/ throws])
    BY <1>19 DEF LogUnguarded, CallJava
  <2> DEFINE g == [[f EXCEPT !.upcall = "log", !.at = "routine"] EXCEPT !.pending = @ \/ throws]
  <2>7. Becomes(t, g)
    BY <2>1
  <2>2. g \in Frames
    BY <1>1, <1>19 DEF Frames, InJava, UserMethods, RunLoopMethods, LogUnguarded, Unguarded, CallJava
  <2>3. PendingOK(g)
    BY <1>1, <1>19 DEF PendingOK, FailedOK, LoggerOK, Kept, Frames, Runs, LogUnguarded, Unguarded, CallJava
  <2>4. FailedOK(g)
    BY <1>1, <1>19 DEF PendingOK, FailedOK, LoggerOK, Kept, Frames, Runs, LogUnguarded, Unguarded, CallJava
  <2>5. LoggerOK(g, terminated', loggerThrew')
    BY <1>1, <1>19 DEF PendingOK, FailedOK, LoggerOK, Kept, Frames, Runs, LogUnguarded, Unguarded, CallJava
  <2>6. Kept
    BY <1>1, <1>19 DEF PendingOK, FailedOK, LoggerOK, Kept, Frames, Runs, LogUnguarded, Unguarded, CallJava
  <2> HIDE DEF g
  <2> QED
    BY <1>2, <2>1, <2>2, <2>3, <2>4, <2>5, <2>6, <2>7
<1> QED
  BY <1>3, <1>4, <1>5, <1>6, <1>7, <1>8, <1>9, <1>10, <1>11, <1>12, <1>13, <1>14, <1>15, <1>16, <1>17, <1>18, <1>19 DEF ThreadStep

LEMMA InvNext == Inv /\ [Next]_vars => Inv'
<1> SUFFICES ASSUME Inv, [Next]_vars PROVE Inv'
  OBVIOUS
<1>1. ASSUME NEW t \in Threads, ThreadStep(t), UNCHANGED escaped PROVE Inv'
  BY <1>1, ThreadStepInv
<1>2. ASSUME NEW t \in Threads, Escape(t), escaped = {} PROVE Inv'
  <2>1. thread[t].method = "startWatcher" \/ loggerThrew
    BY <1>2 DEF Escape, Clause, Uncaught, Inv, FrameOK, LoggerOK
  <2>2. UNCHANGED <<thread, terminated, misused, loggerThrew>>
    BY <1>2 DEF Escape
  <2>3. EscapesAreKnown'
    BY <1>2, <2>1, <2>2 DEF Escape, EscapesAreKnown
  <2> QED
    BY <2>2, <2>3 DEF Inv, FrameOK, LoggerOK
<1>3. CASE UNCHANGED vars
  BY <1>3 DEF Inv, FrameOK, LoggerOK, EscapesAreKnown, vars
<1> QED
  BY <1>1, <1>2, <1>3 DEF Next

LEMMA InvHolds == Spec => []Inv
BY InvInit, InvNext, PTL DEF Spec

(* No native code calls Java, or throws, on a thread that has a Java       *)
(* exception pending.                                                      *)
THEOREM JniCallsUnpendedHolds == Spec => []JniCallsUnpended
<1>1. Inv => JniCallsUnpended
  BY DEF Inv, JniCallsUnpended
<1> QED
  BY <1>1, InvHolds, PTL

(* A failed native method returns with an exception, one that did not fail *)
(* without, and the run loop's end is recorded unless the logger threw.    *)
THEOREM FailuresArriveHolds == Spec => []FailuresArrive
<1>1. Inv => FailuresArrive
  <2> SUFFICES ASSUME Inv PROVE FailuresArrive
    OBVIOUS
  <2>1. RunLoop \in Threads
    BY DEF Threads
  <2> QED
    BY <2>1 DEF Inv, FrameOK, PendingOK, LoggerOK, FailuresArrive
<1> QED
  BY <1>1, InvHolds, PTL

(* A C++ exception gets out of a native method only in startWatcher0, or   *)
(* after the logger threw in a clause or where there is none.              *)
THEOREM EscapesAreKnownHolds == Spec => []EscapesAreKnown
<1>1. Inv => EscapesAreKnown
  BY DEF Inv
<1> QED
  BY <1>1, InvHolds, PTL
===============================================================================
