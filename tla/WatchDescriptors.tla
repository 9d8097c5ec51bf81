--------------------------- MODULE WatchDescriptors ---------------------------
(***************************************************************************)
(* What the two maps of the Linux server and the kernel's watches make of  *)
(* a watch descriptor: it is given out for a path, watches until it is     *)
(* told to stop or its directory goes, and is known as long as events of   *)
(* it may come.  It lives once, for one path, and a path has one at a      *)
(* time.  LinuxServer implements it.                                       *)
(***************************************************************************)
CONSTANTS Wds, Paths, NoPath

VARIABLES
    stage,     \* of each watch descriptor
    root,      \* the path it is the root of
    reported   \* the changes the last step reported: path and descriptor

vars == <<stage, root, reported>>

Init ==
    /\ stage = [wd \in Wds |-> "fresh"]
    /\ root = [wd \in Wds |-> NoPath]
    /\ reported = {}

Goes(wd, from, to) == stage[wd] = from /\ stage' = [stage EXCEPT ![wd] = to]

KeepsRoot == UNCHANGED root
LosesRoot(wd) == root' = [root EXCEPT ![wd] = NoPath]

(* A descriptor is given out for a path that has none.                     *)
Watch(wd, path) ==
    /\ Goes(wd, "fresh", "watching")
    /\ \A other \in Wds : root[other] # path
    /\ root' = [root EXCEPT ![wd] = path]

(* It is told to stop: the path is free at once, or, when the descriptor   *)
(* is cancelled or its directory is gone, when the last event was handled. *)
Unwatch(wd) == Goes(wd, "watching", "leaving") /\ (KeepsRoot \/ LosesRoot(wd))

(* The path of a descriptor that does not watch any more is set free.      *)
Disown(wd) == stage[wd] = "leaving" /\ UNCHANGED stage /\ LosesRoot(wd)

(* The last event of the descriptor was handled.                           *)
Forget(wd) == Goes(wd, "leaving", "gone") /\ LosesRoot(wd)

(* A change is reported for the path the descriptor is the root of.        *)
Report(wd) ==
    /\ stage[wd] \in {"watching", "leaving"}
    /\ root[wd] # NoPath
    /\ reported' = {<<root[wd], wd>>}
    /\ UNCHANGED <<stage, root>>

Quiet == reported' = {}

Next ==
    \/ \E wd \in Wds :
          \/ Quiet /\ \/ \E path \in Paths : Watch(wd, path)
                      \/ Unwatch(wd)
                      \/ Disown(wd)
                      \/ Forget(wd)
          \/ Report(wd)
    \/ Quiet /\ UNCHANGED <<stage, root>>

Spec == Init /\ [][Next]_vars
===============================================================================
