--------------------------- MODULE LifecycleProofs ---------------------------
(***************************************************************************)
(* Theorems about Lifecycle: the order of the reports, and what the        *)
(* deletion of the server and the answer of awaitTermination rest on.      *)
(***************************************************************************)
EXTENDS Lifecycle, SequenceTheorems, TLAPS

(* The last steps of the thread, after it has left executeRunLoop.         *)
Left == {"check", "finally", "ending", "dead"}

(* terminated and the mutex follow the thread, and nobody waits for what   *)
(* was notified.                                                           *)
Notified ==
    /\ locked => thread \in {"unlock", "undefined"}
    /\ thread = "unlock" => locked
    /\ terminated => thread \in Left \cup {"unlock", "undefined"}
    /\ thread \in {"unlock", "check", "finally", "ending"} => terminated
    /\ NoLostNotification

(* The client deletes the server once, when the thread has left it or when *)
(* the client was woken spuriously.  A thread that executed what is gone   *)
(* never terminates.                                                       *)
Deletion ==
    /\ client = "join" => deleted
    /\ client \in {"wait", "woken", "delete"} => ~deleted
    /\ ~spurious =>
          /\ client = "woken" => terminated
          /\ client \in {"delete", "join"} \/ deleted => terminated /\ ~locked
          /\ thread = "undefined" => ~terminated

(* The reports the callback got, by the progress of the thread.            *)
Reported ==
    /\ requested \/ client = "shutdown" => shutdown
    /\ thread \in {"terminate", "unlock", "check"} => threw \/ shutdown
    /\ thread = "finally" => reports = IF threw THEN <<"failure">> ELSE <<>>
    /\ thread \in {"new", "initialize", "run", "terminate", "unlock",
                   "check"} => reports = <<>>
    /\ thread \in {"ending", "dead"} /\ latch =>
          reports = IF threw THEN <<"failure", "termination">>
                    ELSE <<"termination">>
    /\ thread \in {"new", "initialize"} => ~latch
    /\ thread \in {"run", "terminate"} => latch
    /\ terminated => latch
    /\ client \notin {"new", "starting", "abandoned"} => latch

(* When the thread is gone, the last report is the one and only            *)
(* termination, and a failure came before it just when the run loop threw  *)
(* or ended without being asked to.                                        *)
ReportsTellTheEnd ==
    thread \in {"ending", "dead"} /\ latch =>
       reports = IF threw THEN <<"failure", "termination">>
                 ELSE <<"termination">>

(* awaitTermination returns TRUE only when the thread and the server are   *)
(* gone and the termination is in the event queue.                         *)
TrueMeansTerminated ==
    client = "closed" =>
       /\ thread = "dead"
       /\ deleted
       /\ Len(reports) > 0 /\ reports[Len(reports)] = "termination"

IInv ==
    /\ TypeOK
    /\ Notified
    /\ Deletion
    /\ Reported
    /\ TrueMeansTerminated

-------------------------------------------------------------------------------
(* The initial state satisfies the invariant.                              *)
LEMMA InitIInv == Init => IInv
<1> SUFFICES ASSUME Init PROVE IInv
  OBVIOUS
<1>1. TypeOK
  <2>1. <<>> \in Seq(Endings)
    OBVIOUS
  <2> QED
    BY <2>1 DEF Init, TypeOK
<1>2. Notified /\ Deletion /\ Reported /\ TrueMeansTerminated
  BY DEF Init, Notified, Deletion, Reported, TrueMeansTerminated,
         NoLostNotification, Left
<1> QED
  BY <1>1, <1>2 DEF IInv

(* The thread keeps the types.                                             *)
LEMMA TypeStep ==
    ASSUME TypeOK, [Next]_vars
    PROVE  TypeOK'
<1>1. ASSUME NEW r \in Endings PROVE Append(reports, r) \in Seq(Endings)
  BY DEF TypeOK
<1>2. CASE CheckShutdown \/ ReportTermination
  <2>1. reports' \in Seq(Endings)
    <3>1. "failure" \in Endings /\ "termination" \in Endings
      BY DEF Endings
    <3> QED
      BY <1>1, <1>2, <3>1 DEF CheckShutdown, ReportTermination, TypeOK
  <2> QED
    BY <1>2, <2>1
    DEF CheckShutdown, ReportTermination, TypeOK, Goes, clientVars, callVars
<1>3. CASE ThreadStep \/ InitializeFails \/ RunLoopFails \/ RunLoopUsesDeleted
           \/ RunLoopExecutesStray
  <2> USE DEF TypeOK, Goes, clientVars, callVars
  <2>1. CASE InitializeRunLoop
    BY <2>1 DEF InitializeRunLoop
  <2>2. CASE InitializeFails
    BY <2>2 DEF InitializeFails
  <2>3. CASE RunLoopEnds
    BY <2>3 DEF RunLoopEnds
  <2>4. CASE RunLoopFails
    BY <2>4 DEF RunLoopFails
  <2>5. CASE Terminate
    BY <2>5 DEF Terminate
  <2>6. CASE UnlockTermination
    BY <2>6 DEF UnlockTermination
  <2>7. CASE ThreadEnds
    BY <2>7 DEF ThreadEnds
  <2>8. CASE RunLoopUsesDeleted
    BY <2>8 DEF RunLoopUsesDeleted
  <2>9. CASE RunLoopExecutesStray
    BY <2>9 DEF RunLoopExecutesStray
  <2> QED
    BY <1>2, <1>3, <2>1, <2>2, <2>3, <2>4, <2>5, <2>6, <2>7, <2>8, <2>9
    DEF ThreadStep
<1>4. CASE \/ Initialize \/ StartTimesOut \/ Shutdown \/ CallLeaves
           \/ AwaitTermination \/ SpuriousWakeup \/ CallDeleted \/ ClientStep
  <2> USE DEF TypeOK, Goes, ClientGoes, threadVars, callVars
  <2>1. CASE Initialize
    BY <2>1 DEF Initialize
  <2>2. CASE Started
    BY <2>2 DEF Started
  <2>3. CASE StartTimesOut
    BY <2>3 DEF StartTimesOut
  <2>4. CASE Shutdown
    BY <2>4 DEF Shutdown
  <2>5. CASE DoShutdown
    BY <2>5 DEF DoShutdown
  <2>6. CASE ShutdownThrows
    BY <2>6 DEF ShutdownThrows
  <2>7. CASE ShutdownLeaves
    BY <2>7 DEF ShutdownLeaves
  <2>8. CASE CallLeaves
    BY <2>8 DEF CallLeaves
  <2>9. CASE AwaitTermination
    BY <2>9 DEF AwaitTermination
  <2>10. CASE Wait
    BY <2>10 DEF Wait
  <2>11. CASE WaitForDeleted
    BY <2>11 DEF WaitForDeleted
  <2>12. CASE SpuriousWakeup
    BY <2>12 DEF SpuriousWakeup
  <2>13. CASE WaitSucceeds
    BY <2>13 DEF WaitSucceeds
  <2>14. CASE WaitTimesOut
    BY <2>14 DEF WaitTimesOut
  <2>15. CASE DeleteServer
    BY <2>15 DEF DeleteServer
  <2>16. CASE ReturnTrue
    BY <2>16 DEF ReturnTrue
  <2>17. CASE ReturnFalse
    BY <2>17 DEF ReturnFalse
  <2>18. CASE CallDeleted
    BY <2>18 DEF CallDeleted
  <2> QED
    BY <1>4, <2>1, <2>2, <2>3, <2>4, <2>5, <2>6, <2>7, <2>8, <2>9, <2>10, <2>11,
       <2>12, <2>13, <2>14, <2>15, <2>16, <2>17, <2>18
    DEF ClientStep
<1>5. CASE UNCHANGED vars
  BY <1>5 DEF vars, threadVars, clientVars, callVars, TypeOK
<1> QED
  BY <1>3, <1>4, <1>5 DEF Next


(* The two reports of a run loop that failed.                              *)
LEMMA AppendTwo ==
    Append(<<"failure">>, "termination") = <<"failure", "termination">>
<1>1. /\ Append(<<"failure">>, "termination") \in Seq(Endings)
      /\ <<"failure", "termination">> \in Seq(Endings)
  BY DEF Endings
<1>2. /\ Len(Append(<<"failure">>, "termination")) = 2
      /\ Append(<<"failure">>, "termination")[1] = "failure"
      /\ Append(<<"failure">>, "termination")[2] = "termination"
  OBVIOUS
<1>3. \A i \in 1 .. 2 : Append(<<"failure">>, "termination")[i] =
                         <<"failure", "termination">>[i]
  BY <1>2
<1> QED
  BY <1>1, <1>2, <1>3, SeqEqual

(* What the thread's steps do to the rest of the invariant.                *)
LEMMA ThreadStepKeeps ==
    ASSUME IInv,
           ThreadStep \/ InitializeFails \/ RunLoopFails \/ RunLoopUsesDeleted
           \/ RunLoopExecutesStray
    PROVE  Notified' /\ Deletion' /\ Reported' /\ TrueMeansTerminated'
<1> USE DEF IInv, TypeOK, Goes, Left, NoLostNotification
<1>1. Notified'
  BY DEF Notified, ThreadStep, InitializeRunLoop, InitializeFails, RunLoopEnds,
      RunLoopFails, Terminate, UnlockTermination, CheckShutdown,
      ReportTermination, ThreadEnds, RunLoopUsesDeleted, RunLoopExecutesStray,
      clientVars
<1>2. CASE RunLoopUsesDeleted
  <2>1. Deletion'
    BY <1>2 DEF RunLoopUsesDeleted, Deletion, Notified, clientVars
  <2>2. Reported' /\ TrueMeansTerminated'
    BY <1>2 DEF RunLoopUsesDeleted, Reported, TrueMeansTerminated, clientVars
  <2> QED
    BY <1>1, <2>1, <2>2
<1>3. ASSUME ~RunLoopUsesDeleted PROVE Deletion'
  BY <1>3
  DEF RunLoopExecutesStray, Deletion, Notified, ThreadStep, InitializeRunLoop, InitializeFails,
      RunLoopEnds, RunLoopFails, Terminate, UnlockTermination, CheckShutdown,
      ReportTermination, ThreadEnds, clientVars
<1>4. CASE CheckShutdown
  <2>1. thread = "check" /\ thread' = "finally" /\ reports = <<>>
        /\ UNCHANGED <<client, shutdown, requested, threw, latch, terminated>>
    BY <1>4 DEF CheckShutdown, Reported, clientVars
  <2>2. reports' = IF threw THEN <<"failure">> ELSE <<>>
    <3>1. threw \/ shutdown
      BY <2>1 DEF Reported
    <3>2. reports' = IF threw THEN Append(<<>>, "failure") ELSE <<>>
      BY <1>4, <2>1, <3>1 DEF CheckShutdown
    <3>3. Append(<<>>, "failure") = <<"failure">>
      OBVIOUS
    <3> QED
      BY <3>2, <3>3
  <2>3. Reported'
    BY <2>1, <2>2 DEF Reported
  <2>4. TrueMeansTerminated'
    BY <2>1 DEF TrueMeansTerminated
  <2>5. ~RunLoopUsesDeleted
    BY <2>1 DEF RunLoopUsesDeleted
  <2> QED
    BY <1>1, <1>3, <2>3, <2>4, <2>5
<1>5. CASE ReportTermination
  <2>1. thread = "finally" /\ thread' = "ending"
        /\ UNCHANGED <<client, shutdown, requested, threw, latch, terminated>>
    BY <1>5 DEF ReportTermination, clientVars
  <2>2. reports' = IF threw THEN <<"failure", "termination">>
                   ELSE <<"termination">>
    <3>1. reports = IF threw THEN <<"failure">> ELSE <<>>
      BY <2>1 DEF Reported
    <3>2. Append(<<"failure">>, "termination") = <<"failure", "termination">>
      BY AppendTwo
    <3>3. \A a : Append(<<>>, a) = <<a>>
      OBVIOUS
    <3> QED
      BY <1>5, <3>1, <3>2, <3>3 DEF ReportTermination
  <2>3. Reported'
    BY <2>1, <2>2 DEF Reported
  <2>4. TrueMeansTerminated'
    BY <2>1 DEF TrueMeansTerminated
  <2>5. ~RunLoopUsesDeleted
    BY <2>1 DEF RunLoopUsesDeleted
  <2> QED
    BY <1>1, <1>3, <2>3, <2>4, <2>5
<1>6. CASE \/ ThreadStep /\ ~CheckShutdown /\ ~ReportTermination
           \/ InitializeFails
           \/ RunLoopFails
           \/ RunLoopExecutesStray
  <2>1. reports' = reports
    BY <1>6 DEF ThreadStep, InitializeRunLoop, InitializeFails, RunLoopEnds,
                RunLoopFails, Terminate, UnlockTermination, ThreadEnds,
                RunLoopExecutesStray
  <2>2. Reported'
    <3>1. CASE InitializeRunLoop \/ InitializeFails
      BY <3>1, <2>1 DEF Reported, InitializeRunLoop, InitializeFails, clientVars
    <3>2. CASE RunLoopEnds \/ RunLoopFails \/ RunLoopExecutesStray
      BY <3>2, <2>1
      DEF Reported, RunLoopEnds, RunLoopFails, RunLoopExecutesStray, clientVars
    <3>3. CASE UnlockTermination \/ ThreadEnds
      BY <3>3, <2>1 DEF Reported, UnlockTermination, ThreadEnds, clientVars
    <3>4. CASE Terminate
      <4>1. /\ thread = "terminate" /\ thread' = "unlock"
            /\ client' = "shutdown" => client = "shutdown"
            /\ UNCHANGED <<threw, latch, requested, shutdown>>
        BY <3>4 DEF Terminate
      <4>2. latch
        BY <4>1 DEF Reported
      <4> QED
        BY <2>1, <4>1, <4>2 DEF Reported
    <3> QED
      BY <1>6, <3>1, <3>2, <3>3, <3>4 DEF ThreadStep
  <2>3. TrueMeansTerminated'
    BY <1>6, <2>1
    DEF TrueMeansTerminated, ThreadStep, InitializeRunLoop, InitializeFails,
        RunLoopEnds, RunLoopFails, Terminate, UnlockTermination, ThreadEnds,
        RunLoopExecutesStray, clientVars
  <2>4. RunLoopExecutesStray \/ ~RunLoopUsesDeleted
    BY <1>6
    DEF RunLoopUsesDeleted, ThreadStep, InitializeRunLoop, InitializeFails,
        RunLoopEnds, RunLoopFails, Terminate, UnlockTermination, ThreadEnds
  <2> QED
    BY <1>1, <1>2, <1>3, <2>2, <2>3, <2>4
<1> QED
  BY <1>1, <1>2, <1>3, <1>4, <1>5, <1>6 DEF ThreadStep

(* What the client's steps do.                                             *)
LEMMA ClientStepKeeps ==
    ASSUME IInv,
           \/ Initialize \/ StartTimesOut \/ Shutdown \/ CallLeaves
           \/ AwaitTermination \/ SpuriousWakeup \/ CallDeleted \/ ClientStep
    PROVE  Notified' /\ Deletion' /\ Reported' /\ TrueMeansTerminated'
<1> USE DEF IInv, TypeOK, Goes, ClientGoes, Left, NoLostNotification
<1>1. reports' = reports /\ UNCHANGED <<threw, latch, locked, terminated>>
  BY DEF Initialize, StartTimesOut, Shutdown, AwaitTermination, SpuriousWakeup,
      CallDeleted, ClientStep, Started, DoShutdown, ShutdownThrows,
      ShutdownLeaves, CallLeaves, Wait, WaitForDeleted, WaitSucceeds,
      WaitTimesOut, DeleteServer, ReturnTrue, ReturnFalse, threadVars
<1>2. CASE Initialize \/ Started \/ StartTimesOut \/ Shutdown \/ DoShutdown
  <2>1. Notified' /\ Deletion'
    BY <1>1, <1>2
    DEF Notified, Deletion, Initialize, Started, StartTimesOut, Shutdown,
        DoShutdown, threadVars
  <2>2. Reported'
    BY <1>1, <1>2
    DEF Reported, Initialize, Started, StartTimesOut, Shutdown, DoShutdown,
        threadVars
  <2>3. TrueMeansTerminated'
    BY <1>2 DEF TrueMeansTerminated, Initialize, Started, StartTimesOut,
                Shutdown, DoShutdown
  <2> QED
    BY <2>1, <2>2, <2>3
<1>3. CASE AwaitTermination \/ Wait \/ WaitForDeleted \/ SpuriousWakeup
  <2>1. Notified' /\ Deletion'
    BY <1>1, <1>3
    DEF Notified, Deletion, AwaitTermination, Wait, WaitForDeleted,
        SpuriousWakeup, threadVars
  <2>2. Reported'
    BY <1>1, <1>3
    DEF Reported, AwaitTermination, Wait, WaitForDeleted, SpuriousWakeup,
        threadVars
  <2>3. TrueMeansTerminated'
    BY <1>3 DEF TrueMeansTerminated, AwaitTermination, Wait, WaitForDeleted,
                SpuriousWakeup
  <2> QED
    BY <2>1, <2>2, <2>3
<1>4. CASE WaitSucceeds \/ WaitTimesOut \/ DeleteServer \/ ReturnFalse
  <2>1. Notified' /\ Deletion'
    BY <1>1, <1>4
    DEF Notified, Deletion, WaitSucceeds, WaitTimesOut, DeleteServer,
        ReturnFalse, threadVars
  <2>2. Reported'
    BY <1>1, <1>4
    DEF Reported, WaitSucceeds, WaitTimesOut, DeleteServer, ReturnFalse,
        threadVars
  <2>3. TrueMeansTerminated'
    BY <1>4 DEF TrueMeansTerminated, WaitSucceeds, WaitTimesOut, DeleteServer,
                ReturnFalse
  <2> QED
    BY <2>1, <2>2, <2>3
<1>5. CASE ReturnTrue
  <2>1. thread = "dead" /\ deleted /\ latch
    BY <1>5 DEF ReturnTrue, Deletion, Reported
  <2>2. Len(reports) > 0 /\ reports[Len(reports)] = "termination"
    BY <2>1 DEF Reported
  <2>3. TrueMeansTerminated'
    BY <1>5, <2>1, <2>2 DEF ReturnTrue, TrueMeansTerminated, threadVars
  <2>4. Notified' /\ Deletion' /\ Reported'
    BY <1>1, <1>5
    DEF Notified, Deletion, Reported, ReturnTrue, threadVars
  <2> QED
    BY <2>3, <2>4
<1>6. CASE CallDeleted
  BY <1>1, <1>6
  DEF Notified, Deletion, Reported, TrueMeansTerminated, CallDeleted, threadVars
<1>7. CASE ShutdownThrows \/ ShutdownLeaves \/ CallLeaves
  <2>1. /\ client \in {"open", "shutdown"} /\ client' = "open"
        /\ client = "shutdown" \/ requested' = requested
        /\ UNCHANGED <<threadVars, shutdown, deleted, spurious>>
    BY <1>7 DEF ShutdownThrows, ShutdownLeaves, CallLeaves
  <2>2. Notified' /\ Deletion'
    BY <1>1, <2>1 DEF Notified, Deletion, threadVars
  <2>3. Reported'
    BY <1>1, <2>1 DEF Reported, threadVars
  <2>4. TrueMeansTerminated'
    BY <2>1 DEF TrueMeansTerminated
  <2> QED
    BY <2>2, <2>3, <2>4
<1> QED
  BY <1>2, <1>3, <1>4, <1>5, <1>6, <1>7 DEF ClientStep

(* Every variable keeps its type.                                          *)
THEOREM TypeCorrect == Spec => []TypeOK
<1>1. Init => TypeOK
  BY InitIInv DEF IInv
<1> QED
  BY <1>1, TypeStep, PTL DEF Spec

(* The invariant is inductive, spurious wakeups included.                  *)
THEOREM IInvIsInductive == Spec => []IInv
<1>1. IInv /\ [Next]_vars => IInv'
  <2> SUFFICES ASSUME IInv, [Next]_vars PROVE IInv'
    OBVIOUS
  <2>1. TypeOK'
    BY TypeStep DEF IInv
  <2>2. Notified' /\ Deletion' /\ Reported' /\ TrueMeansTerminated'
    <3>1. CASE UNCHANGED vars
      BY <3>1 DEF vars, threadVars, clientVars, IInv, Notified, Deletion,
                  Reported, TrueMeansTerminated, NoLostNotification
    <3> QED
      BY <3>1, ThreadStepKeeps, ClientStepKeeps DEF Next
  <2> QED
    BY <2>1, <2>2 DEF IInv
<1> QED
  BY <1>1, InitIInv, PTL DEF Spec

(* As long as awaitTermination was not woken spuriously, no thread runs on *)
(* a server that was deleted: the native server and its mutex live until   *)
(* the thread has left executeRunLoop.                                     *)
THEOREM ServerLivesLongEnough == Spec => []ServerOutlivesRunLoopUnlessWoken
<1>1. IInv => ServerOutlivesRunLoopUnlessWoken
  BY DEF IInv, Deletion, Notified, ServerOutlivesRunLoop,
         ServerOutlivesRunLoopUnlessWoken, Left
<1> QED
  BY <1>1, IInvIsInductive, PTL

(* A client that waits has a notification still to come.                   *)
THEOREM NotificationIsNotLost == Spec => []NoLostNotification
<1>1. IInv => NoLostNotification
  BY DEF IInv, Notified
<1> QED
  BY <1>1, IInvIsInductive, PTL

(* The callback gets the termination once and last, and a failure before   *)
(* it just when the run loop threw.                                        *)
THEOREM ReportsAreComplete == Spec => []ReportsTellTheEnd
<1>1. IInv => ReportsTellTheEnd
  BY DEF IInv, Reported, ReportsTellTheEnd
<1> QED
  BY <1>1, IInvIsInductive, PTL

(* When awaitTermination returns TRUE, the thread has reported its         *)
(* termination and ended.                                                  *)
THEOREM TrueIsTruthful == Spec => []TrueMeansTerminated
<1>1. IInv => TrueMeansTerminated
  BY DEF IInv
<1> QED
  BY <1>1, IInvIsInductive, PTL

-------------------------------------------------------------------------------
(* What the steps of the thread are for the contract.                      *)
LEMMA ThreadStepRefines ==
    ASSUME IInv, ThreadStep \/ InitializeFails \/ RunLoopFails
                 \/ RunLoopUsesDeleted \/ RunLoopExecutesStray
    PROVE  [Contract!Next]_(Contract!vars)
<1> USE DEF Goes, ContractLoop, ContractUser, callVars
<1>1. CASE InitializeRunLoop \/ InitializeFails
  <2>1. Contract!Start
    <3>1. ~latch
      BY <1>1 DEF InitializeRunLoop, InitializeFails, IInv, Reported
    <3> QED
      BY <1>1, <3>1
      DEF InitializeRunLoop, InitializeFails, clientVars, Contract!Start
  <2> QED
    BY <2>1 DEF Contract!Next
<1>2. CASE RunLoopEnds
  BY <1>2 DEF RunLoopEnds, clientVars, Contract!vars
<1>3. CASE RunLoopFails
  <2>1. Contract!Fail
    BY <1>3 DEF RunLoopFails, clientVars, Contract!Fail
  <2> QED
    BY <2>1 DEF Contract!Next
<1>4. CASE Terminate
  BY <1>4 DEF Terminate, Contract!vars
<1>5. CASE UnlockTermination
  <2>1. threw \/ shutdown
    BY <1>5 DEF UnlockTermination, IInv, Reported
  <2>2. Contract!End
    BY <1>5, <2>1
    DEF UnlockTermination, clientVars, Contract!End, Contract!Goes
  <2> QED
    BY <2>2 DEF Contract!Next
<1>6. CASE RunLoopUsesDeleted \/ RunLoopExecutesStray
  <2>1. Contract!Break
    BY <1>6 DEF RunLoopUsesDeleted, RunLoopExecutesStray, clientVars,
                Contract!Break, Contract!Goes
  <2> QED
    BY <2>1 DEF Contract!Next
<1>7. CASE CheckShutdown
  <2>1. reports = <<>> /\ (threw \/ shutdown)
    BY <1>7 DEF CheckShutdown, IInv, Reported
  <2>2. CASE threw
    <3>1. reports' = <<"failure">>
      <4>1. reports' = Append(<<>>, "failure")
        BY <1>7, <2>1, <2>2 DEF CheckShutdown
      <4> QED
        BY <4>1
    <3>2. Contract!ReportFailure
      BY <1>7, <2>1, <2>2, <3>1
      DEF CheckShutdown, clientVars, Contract!ReportFailure, Contract!Failure
    <3> QED
      BY <3>2 DEF Contract!Next
  <2>3. CASE ~threw
    BY <1>7, <2>1, <2>3 DEF CheckShutdown, clientVars, Contract!vars
  <2> QED
    BY <2>2, <2>3
<1>8. CASE ReportTermination
  <2>1. reports = IF threw THEN <<"failure">> ELSE <<>>
    BY <1>8 DEF ReportTermination, IInv, Reported
  <2>2. Contract!ReportTermination
    BY <1>8, <2>1
    DEF ReportTermination, clientVars, Contract!ReportTermination,
        Contract!Failure
  <2> QED
    BY <2>2 DEF Contract!Next
<1>9. CASE ThreadEnds
  <2>1. latch
    BY <1>9 DEF ThreadEnds, IInv, Notified, Reported
  <2>2. Contract!AllReported
    <3>1. reports = IF threw THEN <<"failure", "termination">>
                    ELSE <<"termination">>
      BY <1>9, <2>1 DEF ThreadEnds, IInv, Reported
    <3>2. Append(<<"failure">>, "termination") = <<"failure", "termination">>
      BY AppendTwo
    <3>3. Append(<<>>, "termination") = <<"termination">>
      OBVIOUS
    <3> QED
      BY <3>1, <3>2, <3>3 DEF Contract!AllReported, Contract!Failure
  <2>3. Contract!Leave
    BY <1>9, <2>1, <2>2
    DEF ThreadEnds, clientVars, Contract!Leave, Contract!Goes
  <2> QED
    BY <2>3 DEF Contract!Next
<1> QED
  BY <1>1, <1>2, <1>3, <1>4, <1>5, <1>6, <1>7, <1>8, <1>9 DEF ThreadStep

(* What the steps of the client are for the contract.                      *)
LEMMA ClientStepRefines ==
    ASSUME IInv,
           \/ Initialize \/ StartTimesOut \/ Shutdown \/ CallLeaves
           \/ AwaitTermination \/ SpuriousWakeup \/ CallDeleted \/ ClientStep
    PROVE  [Contract!Next]_(Contract!vars)
<1> USE DEF Goes, ClientGoes, ContractLoop, ContractUser, callVars
<1>1. CASE \/ Initialize \/ Started \/ StartTimesOut \/ DoShutdown
           \/ ShutdownThrows \/ AwaitTermination \/ Wait \/ WaitSucceeds \/ WaitTimesOut
           \/ ReturnFalse
  <2>1. UNCHANGED <<threw, latch, shutdown, reports, deleted, spurious, stray>>
    BY <1>1
    DEF Initialize, Started, StartTimesOut, DoShutdown, ShutdownThrows,
        AwaitTermination, Wait, WaitSucceeds, WaitTimesOut, ReturnFalse, threadVars
  <2>2. \/ thread' = thread
        \/ thread = "new" /\ thread' = "initialize"
    BY <1>1
    DEF Initialize, Started, StartTimesOut, DoShutdown, ShutdownThrows,
        AwaitTermination, Wait, WaitSucceeds, WaitTimesOut, ReturnFalse, threadVars
  <2>3. /\ client \notin {"closed", "await_dangles", "call_dangles"}
        /\ client' \notin {"closed", "await_dangles", "call_dangles"}
    BY <1>1
    DEF Initialize, Started, StartTimesOut, DoShutdown, ShutdownThrows,
        AwaitTermination, Wait, WaitSucceeds, WaitTimesOut, ReturnFalse
  <2>4. UNCHANGED ContractLoop
    BY <2>1, <2>2
  <2>5. UNCHANGED ContractUser
    BY <2>3
  <2> QED
    BY <2>1, <2>4, <2>5 DEF Contract!vars
<1>2. CASE Shutdown
  <2>1. latch
    BY <1>2 DEF Shutdown, IInv, Reported
  <2>2. thread \notin {"new", "initialize"}
    BY <2>1 DEF IInv, Reported
  <2>3. ContractLoop # "starting"
    BY <2>1, <2>2 DEF IInv, TypeOK
  <2>4. Contract!Ask
    BY <1>2, <2>3 DEF Shutdown, threadVars, Contract!Ask
  <2> QED
    BY <2>4 DEF Contract!Next
<1>3. CASE WaitForDeleted \/ CallDeleted
  <2>1. /\ deleted /\ client' \in {"await_dangles", "call_dangles"}
        /\ UNCHANGED <<thread, threw, latch, shutdown, reports, deleted,
                       spurious, stray>>
    BY <1>3 DEF WaitForDeleted, CallDeleted, threadVars
  <2>2. UNCHANGED ContractLoop /\ ContractUser' = "astray"
    BY <2>1
  <2>3. Contract!GoAstray
    BY <2>1, <2>2 DEF Contract!GoAstray
  <2> QED
    BY <2>3 DEF Contract!Next
<1>4. CASE SpuriousWakeup
  <2>1. Contract!Wake
    BY <1>4 DEF SpuriousWakeup, threadVars, Contract!Wake
  <2> QED
    BY <2>1 DEF Contract!Next
<1>5. CASE DeleteServer
  <2>1. ~deleted
    BY <1>5 DEF DeleteServer, IInv, Deletion
  <2>2. latch
    BY <1>5 DEF DeleteServer, IInv, Reported
  <2>3. ASSUME ~spurious PROVE ContractLoop \in {"ended", "gone"}
    <3>1. thread \in Left
      BY <1>5, <2>3 DEF DeleteServer, IInv, Deletion, Notified
    <3> QED
      BY <2>2, <3>1 DEF Left
  <2>4. Contract!Delete
    BY <1>5, <2>1, <2>3 DEF DeleteServer, threadVars, Contract!Delete
  <2> QED
    BY <2>4 DEF Contract!Next
<1>6. CASE ReturnTrue
  <2>1. deleted /\ latch
    BY <1>6 DEF ReturnTrue, IInv, Deletion, Reported
  <2>2. Contract!Confirm
    BY <1>6, <2>1 DEF ReturnTrue, threadVars, Contract!Confirm
  <2> QED
    BY <2>2 DEF Contract!Next
<1>7. CASE ShutdownLeaves \/ CallLeaves
  <2>1. /\ stray' = TRUE
        /\ client \in {"open", "shutdown"} /\ client' = "open"
        /\ UNCHANGED <<threadVars, shutdown, deleted, spurious>>
    BY <1>7 DEF ShutdownLeaves, CallLeaves
  <2>2. UNCHANGED <<ContractLoop, ContractUser>>
    BY <2>1 DEF threadVars
  <2>3. Contract!LeaveWork
    BY <2>1, <2>2 DEF threadVars, Contract!LeaveWork
  <2> QED
    BY <2>3 DEF Contract!Next
<1> QED
  BY <1>1, <1>2, <1>3, <1>4, <1>5, <1>6, <1>7 DEF ClientStep

(* The latch, the mutex, the condition variable, the flags and the join    *)
(* keep what a watcher promises about its end: every step of the thread    *)
(* and of the client is a step of the contract or none.                    *)
THEOREM ImplementsContract == Spec => ContractSpec
<1>1. Init => Contract!Init
  BY DEF Init, Contract!Init, ContractLoop, ContractUser
<1>2. IInv /\ [Next]_vars => [Contract!Next]_(Contract!vars)
  <2> SUFFICES ASSUME IInv, [Next]_vars
               PROVE  [Contract!Next]_(Contract!vars)
    OBVIOUS
  <2>1. CASE UNCHANGED vars
    BY <2>1 DEF vars, threadVars, clientVars, callVars, Contract!vars, ContractLoop,
                ContractUser
  <2> QED
    BY <2>1, ThreadStepRefines, ClientStepRefines DEF Next
<1> QED
  BY <1>1, <1>2, IInvIsInductive, PTL DEF Spec, ContractSpec, Contract!Spec
===============================================================================
