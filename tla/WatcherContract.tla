--------------------------- MODULE WatcherContract ----------------------------
(***************************************************************************)
(* What a watcher promises about its end.  The run loop uses the native    *)
(* server until it ends; then it reports a failure, if it failed or nobody *)
(* asked it to end, and the termination, and is gone.  The server is       *)
(* deleted once, when the run loop does not use it any more, and who is    *)
(* told of the end can rely on all of this having happened.  All that can  *)
(* break the promise is a wait that ends for no reason, and work left for  *)
(* the run loop by a caller who is gone.  Lifecycle implements it with a   *)
(* latch, a mutex, a condition variable and a join.                        *)
(***************************************************************************)
EXTENDS Sequences

VARIABLES
    loop,      \* how far the run loop is
    failed,    \* an exception ended it
    asked,     \* shutdown() was called
    reports,   \* what it has reported of its end
    deleted,   \* the server was deleted
    woken,     \* a wait for the end was ended by nothing
    stray,     \* a caller left work behind that is not his any more
    user       \* what the user knows: that it goes on, that it is over,
               \* or nothing, after using what was deleted

vars == <<loop, failed, asked, reports, deleted, woken, stray, user>>

Init ==
    /\ loop = "starting"
    /\ failed = FALSE
    /\ asked = FALSE
    /\ reports = <<>>
    /\ deleted = FALSE
    /\ woken = FALSE
    /\ stray = FALSE
    /\ user = "using"

Goes(from, to) == loop = from /\ loop' = to

(* The run loop starts, or cannot be initialized.                          *)
Start ==
    /\ loop = "starting"
    /\ loop' \in {"running", "stillborn"}
    /\ UNCHANGED <<failed, asked, reports, deleted, woken, stray, user>>

Ask ==
    /\ loop # "starting"
    /\ asked' = TRUE
    /\ UNCHANGED <<loop, failed, reports, deleted, woken, stray, user>>

Fail ==
    /\ loop = "running"
    /\ ~deleted
    /\ failed' = TRUE
    /\ UNCHANGED <<loop, asked, reports, deleted, woken, stray, user>>

(* A run loop ends that failed or was asked to.                            *)
End ==
    /\ Goes("running", "ended")
    /\ ~deleted
    /\ failed \/ asked
    /\ UNCHANGED <<failed, asked, reports, deleted, woken, stray, user>>

Failure == IF failed THEN <<"failure">> ELSE <<>>

ReportFailure ==
    /\ loop = "ended"
    /\ failed
    /\ reports = <<>>
    /\ reports' = Failure
    /\ UNCHANGED <<loop, failed, asked, deleted, woken, stray, user>>

ReportTermination ==
    /\ loop = "ended"
    /\ reports = Failure
    /\ reports' = Append(Failure, "termination")
    /\ UNCHANGED <<loop, failed, asked, deleted, woken, stray, user>>

AllReported == reports = Append(Failure, "termination")

Leave ==
    /\ Goes("ended", "gone")
    /\ AllReported
    /\ UNCHANGED <<failed, asked, reports, deleted, woken, stray, user>>

Wake ==
    /\ woken' = TRUE
    /\ UNCHANGED <<loop, failed, asked, reports, deleted, stray, user>>

LeaveWork ==
    /\ stray' = TRUE
    /\ UNCHANGED <<loop, failed, asked, reports, deleted, woken, user>>

Delete ==
    /\ ~deleted
    /\ deleted' = TRUE
    /\ loop \in {"ended", "gone"} \/ woken
    /\ UNCHANGED <<loop, failed, asked, reports, woken, stray, user>>

(* The run loop was still using the server, or did the work left behind.   *)
Break ==
    /\ Goes("running", "undefined")
    /\ deleted \/ stray
    /\ UNCHANGED <<failed, asked, reports, deleted, woken, stray, user>>

(* awaitTermination returns TRUE.                                          *)
Confirm ==
    /\ user = "using"
    /\ loop = "gone"
    /\ deleted
    /\ user' = "certain"
    /\ UNCHANGED <<loop, failed, asked, reports, deleted, woken, stray>>

(* The user calls a watcher whose server was deleted.                      *)
GoAstray ==
    /\ deleted
    /\ user' = "astray"
    /\ UNCHANGED <<loop, failed, asked, reports, deleted, woken, stray>>

Next ==
    \/ Start
    \/ Ask
    \/ Fail
    \/ End
    \/ ReportFailure
    \/ ReportTermination
    \/ Leave
    \/ Wake
    \/ LeaveWork
    \/ Delete
    \/ Break
    \/ Confirm
    \/ GoAstray

Spec == Init /\ [][Next]_vars
===============================================================================
