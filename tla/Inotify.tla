------------------------------- MODULE Inotify -------------------------------
(***************************************************************************)
(* The environment of linux_fsnotifier.cpp, as its calls rely on it: a     *)
(* file system in which directories come, go and move, and the kernel's    *)
(* half of inotify, which watches inodes and queues events.                *)
(***************************************************************************)
EXTENDS Naturals, Sequences

CONSTANTS
    Dirs,          \* names directories can have
    Links,         \* symbolic links to directories
    LinkTo,        \* the directory name each link points to
    Inodes,        \* inode numbers of directories
    NoInode,
    MaxWd,         \* bound: how many watch descriptors are given out
    QueueLimit,    \* fs.inotify.max_queued_events
    Contents,      \* kinds of events inside a directory: "change", "bad_name"
    Changes        \* bound: how many file system operations happen

Paths == Dirs \cup Links
Wds == 1 .. MaxWd
NoWd == 0

ASSUME NamesAssumption ==
    /\ Dirs \cap Links = {}
    /\ LinkTo \in [Links -> Dirs]
    /\ NoInode \notin Inodes \cup Links
    /\ Inodes \cap Links = {}
ASSUME BoundsAssumption ==
    /\ MaxWd \in Nat /\ QueueLimit \in Nat /\ Changes \in Nat
    /\ Contents \subseteq {"change", "bad_name"}

VARIABLES
    dirAt,        \* the inode of the directory with a name
    elsewhere,    \* inodes of directories that were moved to other names
    changes,      \* file system operations left
    watches,      \* the inode a watch descriptor watches
    nextWd,       \* the next watch descriptor to give out
    kq,           \* the queue of the inotify instance
    lost          \* history: watch descriptors whose IN_IGNORED was lost

fsVars == <<dirAt, elsewhere, changes>>
kernelVars == <<watches, nextWd, kq, lost>>

Msg(kind, wd) == [kind |-> kind, wd |-> wd]
QOverflow == Msg("q_overflow", NoWd)
WatchKinds == Contents \cup {"move_self", "delete_self", "unmount", "ignored"}
Messages == [kind : WatchKinds, wd : Wds] \cup {QOverflow}

InotifyInit ==
    /\ dirAt = [d \in Dirs |-> NoInode]
    /\ elsewhere = {}
    /\ changes = Changes
    /\ watches = [wd \in Wds |-> NoInode]
    /\ nextWd = 1
    /\ kq = <<>>
    /\ lost = {}

-------------------------------------------------------------------------------
(* The queue: a full one drops the event and holds one IN_Q_OVERFLOW.      *)

Full(q) == Len(q) >= QueueLimit
Has(q, msg) == \E i \in DOMAIN q : q[i] = msg

Push(q, msg) ==
    IF ~Full(q) THEN Append(q, msg)
    ELSE IF Has(q, QOverflow) THEN q ELSE Append(q, QOverflow)

(* The kernel forgets a watch and sends IN_IGNORED, after the events in q. *)
Forget(wd, q) ==
    /\ watches' = [watches EXCEPT ![wd] = NoInode]
    /\ kq' = Push(q, Msg("ignored", wd))
    /\ lost' = IF Full(q) THEN lost \cup {wd} ELSE lost

Watching(inode) == {wd \in Wds : watches[wd] = inode}

(* The directory a path leads to, and the file lstat sees there.           *)
Target(path) == IF path \in Links THEN dirAt[LinkTo[path]] ELSE dirAt[path]
Lstat(path) == IF path \in Links THEN path ELSE dirAt[path]

(* inotify_rm_watch: when it does not succeed, it is with EINVAL, because  *)
(* the watch is gone.                                                      *)
RmWatchSucceeds(wd) == watches[wd] # NoInode
RmWatch(wd) ==
    IF RmWatchSucceeds(wd) THEN Forget(wd, kq)
    ELSE UNCHANGED <<watches, kq, lost>>

(* inotify_add_watch of an inode that is not watched.                      *)
AddWatch(inode) ==
    /\ nextWd \in Wds
    /\ watches' = [watches EXCEPT ![nextWd] = inode]
    /\ nextWd' = nextWd + 1
    /\ UNCHANGED <<kq, lost>>

-------------------------------------------------------------------------------
(* The file system.                                                        *)

Existing == elsewhere \cup ({dirAt[d] : d \in Dirs} \ {NoInode})

Operation ==
    /\ changes > 0
    /\ changes' = changes - 1
    /\ UNCHANGED nextWd

(* A directory appears under a name that is free, with an inode number     *)
(* that is: the number of a removed directory may come back.               *)
CreateDir ==
    /\ Operation
    /\ \E d \in Dirs, i \in Inodes \ Existing :
          /\ dirAt[d] = NoInode
          /\ dirAt' = [dirAt EXCEPT ![d] = i]
    /\ UNCHANGED <<elsewhere, watches, kq, lost>>

(* A directory is deleted or its file system unmounted: the kernel sends   *)
(* the event and forgets the watch.                                        *)
RemoveDir ==
    /\ Operation
    /\ \E i \in Existing, kind \in {"delete_self", "unmount"} :
          /\ dirAt' = [d \in Dirs |-> IF dirAt[d] = i THEN NoInode ELSE dirAt[d]]
          /\ elsewhere' = elsewhere \ {i}
          /\ IF Watching(i) = {}
             THEN UNCHANGED <<watches, kq, lost>>
             ELSE \E wd \in Watching(i) : Forget(wd, Push(kq, Msg(kind, wd)))

(* IN_MOVE_SELF is only sent when the directory itself is renamed, not     *)
(* when a directory above it is.                                           *)
NotifyMove(i) ==
    /\ \/ UNCHANGED kq
       \/ \E wd \in Watching(i) : kq' = Push(kq, Msg("move_self", wd))
    /\ UNCHANGED <<watches, lost>>

MoveDirAway ==
    /\ Operation
    /\ \E d \in Dirs :
          /\ dirAt[d] # NoInode
          /\ dirAt' = [dirAt EXCEPT ![d] = NoInode]
          /\ elsewhere' = elsewhere \cup {dirAt[d]}
          /\ NotifyMove(dirAt[d])

MoveDirIn ==
    /\ Operation
    /\ \E i \in elsewhere, d \in Dirs :
          /\ dirAt[d] = NoInode
          /\ dirAt' = [dirAt EXCEPT ![d] = i]
          /\ elsewhere' = elsewhere \ {i}
          /\ NotifyMove(i)

(* Something changes in a directory that is watched.                       *)
ChangeContent ==
    /\ \E wd \in Wds, kind \in Contents :
          /\ watches[wd] # NoInode
          /\ kq' = Push(kq, Msg(kind, wd))
    /\ changes > 0
    /\ changes' = changes - 1
    /\ UNCHANGED <<dirAt, elsewhere, watches, nextWd, lost>>

-------------------------------------------------------------------------------
(* The types of the environment's variables.                               *)
InotifyTypeOK ==
    /\ dirAt \in [Dirs -> Inodes \cup {NoInode}]
    /\ elsewhere \subseteq Inodes
    /\ changes \in 0 .. Changes
    /\ watches \in [Wds -> Inodes \cup {NoInode}]
    /\ nextWd \in 1 .. MaxWd + 1
    /\ kq \in Seq(Messages)
    /\ lost \subseteq Wds
===============================================================================
