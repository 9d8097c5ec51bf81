-------------------------- MODULE DirectoryChanges ---------------------------
(***************************************************************************)
(* The environment of the Windows server: directories that are created,    *)
(* deleted, moved and changed, and what the system does for the server     *)
(* with a handle of each of them.  A read of changes that is over queues a *)
(* completion routine on the thread that began it, the run loop's, where   *)
(* it waits among the work items for that thread to sleep alertably.       *)
(*                                                                         *)
(* External: modelled from how win_fsnotifier.cpp uses CreateFileW,        *)
(* ReadDirectoryChangesExW, CancelIoEx, CloseHandle and                    *)
(* GetFinalPathNameByHandleW.  A cancelled read is over when CancelIoEx    *)
(* returns, as it is for changes of local directories; its completion is   *)
(* still to be delivered.                                                  *)
(***************************************************************************)
EXTENDS Sequences, Naturals

CONSTANTS
    Paths,
    Command,   \* the work item of a command in the queue of the thread
    Changes    \* bound: how often the file system changes

ASSUME CommandAssumption == Command \notin Paths
ASSUME ChangesAssumption == Changes \in Nat

VARIABLES
    there,     \* the paths that lead to a directory
    handle,    \* where the directory behind the handle of a path is
    io,        \* the read of changes under way for a path, or its result
    buffered,  \* the paths with changes for the next read
    apcs,      \* the queue of the run loop's thread
    changes    \* changes left

fsVars == <<there, buffered, changes>>
systemVars == <<there, handle, io, buffered, apcs, changes>>

Results == {"events", "overflow", "denied", "error", "aborted", "cleanup"}

SystemInit ==
    /\ there = Paths
    /\ handle = [p \in Paths |-> "none"]
    /\ io = [p \in Paths |-> "none"]
    /\ buffered = {}
    /\ apcs = <<>>
    /\ changes = Changes

SystemTypeOK ==
    /\ there \subseteq Paths
    /\ handle \in [Paths -> {"none", "here", "moved", "deleted", "closed"}]
    /\ io \in [Paths -> Results \cup {"none", "pending"}]
    /\ buffered \subseteq Paths
    /\ apcs \in Seq(Paths \cup {Command})
    /\ changes \in 0 .. Changes

-------------------------------------------------------------------------------
Complete(path, result) ==
    /\ io' = [io EXCEPT ![path] = result]
    /\ apcs' = Append(apcs, path)

(* A change that ends a read, if there is one.                             *)
Ends(path, result) ==
    IF io[path] = "pending" THEN Complete(path, result) ELSE UNCHANGED <<io, apcs>>

Changing == changes > 0 /\ changes' = changes - 1

CreateDirectory(path) ==
    /\ Changing
    /\ path \notin there
    /\ there' = there \cup {path}
    /\ UNCHANGED <<handle, io, buffered, apcs>>

DeleteDirectory(path) ==
    /\ Changing
    /\ path \in there
    /\ there' = there \ {path}
    /\ IF handle[path] = "here"
       THEN /\ handle' = [handle EXCEPT ![path] = "deleted"]
            /\ Ends(path, "denied")
       ELSE UNCHANGED <<handle, io, apcs>>
    /\ UNCHANGED buffered

(* Nobody is told that a watched directory was moved.                      *)
MoveAway(path) ==
    /\ Changing
    /\ handle[path] = "here"
    /\ handle' = [handle EXCEPT ![path] = "moved"]
    /\ there' = there \ {path}
    /\ UNCHANGED <<io, buffered, apcs>>

MoveBack(path) ==
    /\ Changing
    /\ handle[path] = "moved"
    /\ path \notin there
    /\ handle' = [handle EXCEPT ![path] = "here"]
    /\ there' = there \cup {path}
    /\ UNCHANGED <<io, buffered, apcs>>

(* Something happens in the directory behind a handle, wherever it is.     *)
Content(path) ==
    /\ Changing
    /\ handle[path] \in {"here", "moved"}
    /\ \/ /\ io[path] = "pending"
          /\ \E result \in {"events", "overflow"} : Complete(path, result)
          /\ UNCHANGED buffered
       \/ /\ io[path] # "pending"
          /\ buffered' = buffered \cup {path}
          /\ UNCHANGED <<io, apcs>>
    /\ UNCHANGED <<there, handle>>

(* A read ends with another error.                                         *)
ReadError(path) ==
    /\ Changing
    /\ io[path] = "pending"
    /\ Complete(path, "error")
    /\ UNCHANGED <<there, handle, buffered>>

-------------------------------------------------------------------------------
(* ReadDirectoryChangesExW succeeds; with changes left from before, the    *)
(* read is over at once.                                                   *)
Read(path) ==
    IF path \in buffered
    THEN /\ \E result \in {"events", "overflow"} : Complete(path, result)
         /\ buffered' = buffered \ {path}
    ELSE /\ io' = [io EXCEPT ![path] = "pending"]
         /\ UNCHANGED <<buffered, apcs>>

(* Whether CancelIoEx finds a read to cancel.                              *)
Cancellable(path) == handle[path] # "closed" /\ io[path] = "pending"

CancelIo(path) == Complete(path, "aborted")

(* CloseHandle; a read under way ends with it.                             *)
CloseHandle(path) ==
    /\ handle' = [handle EXCEPT ![path] = "closed"]
    /\ Ends(path, "cleanup")
===============================================================================
