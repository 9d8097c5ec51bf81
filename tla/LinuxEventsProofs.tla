-------------------------- MODULE LinuxEventsProofs --------------------------
(***************************************************************************)
(* Theorems about the events LinuxServer handles and reports: what is      *)
(* known of their watch descriptors, under which path they are reported,   *)
(* and what stopWatchingMovedPaths says it dropped.                        *)
(***************************************************************************)
EXTENDS LinuxServerProofs

USE NamesAssumption, BoundsAssumption, PathsAssumption, ThreadsAssumption,
    SizesAssumption

-------------------------------------------------------------------------------
(* The order of the events of a watch descriptor.                          *)

About(q, wd) == \E i \in 1 .. Len(q) : q[i].wd = wd

(* Nothing of a watch descriptor comes behind its IN_IGNORED.              *)
Settled(q, wd) ==
    \A i, j \in 1 .. Len(q) : i < j /\ q[i] = Msg("ignored", wd) => q[j].wd # wd

(* The buffer is in front of the queue.                                    *)
IgnoredIsLast ==
    \A wd \in Wds :
       /\ Settled(batch, wd)
       /\ Settled(kq, wd)
       /\ Has(batch, Msg("ignored", wd)) => ~About(kq, wd)

AboutIsKnown ==
    \A wd \in Wds : About(batch, wd) \/ About(kq, wd) =>
       watchRoots[wd] # NoPath \/ recent[wd] # NoPath

EventsInv == IgnoredIsLast /\ AboutIsKnown

(* What is about a watch descriptor is one of the messages of the kernel.  *)
LEMMA AboutHas ==
    ASSUME NEW q \in Seq(Messages), NEW wd \in Wds
    PROVE  /\ About(q, wd) <=> \E kind \in WatchKinds : Has(q, Msg(kind, wd))
           /\ \A kind : Has(q, Msg(kind, wd)) => About(q, wd)
<1>1. /\ DOMAIN q = 1 .. Len(q)
      /\ \A i \in 1 .. Len(q) : q[i] \in Messages
  OBVIOUS
<1>2. ASSUME NEW i \in 1 .. Len(q), q[i].wd = wd
      PROVE  q[i].kind \in WatchKinds /\ q[i] = Msg(q[i].kind, wd)
  <2>1. q[i] # QOverflow
    BY <1>2 DEF QOverflow, Msg, NoWd, Wds
  <2> QED
    BY <1>1, <1>2, <2>1 DEF Messages, Msg
<1>3. \A kind : Has(q, Msg(kind, wd)) => About(q, wd)
  BY <1>1 DEF Has, About, Msg
<1>4. About(q, wd) => \E kind \in WatchKinds : Has(q, Msg(kind, wd))
  BY <1>1, <1>2 DEF Has, About
<1> QED
  BY <1>3, <1>4

LEMMA KnownIsNoUnknown ==
    ASSUME TypeOK, AboutIsKnown
    PROVE  NoUnknownDescriptor
BY AboutHas DEF AboutIsKnown, NoUnknownDescriptor, Pending, TypeOK, InotifyTypeOK

(* Pushing an event of a watch that has no IN_IGNORED in the queue.        *)
LEMMA PushSettles ==
    ASSUME NEW q \in Seq(Messages), NEW msg \in Messages, msg.wd \in Wds,
           \A wd \in Wds : Settled(q, wd),
           ~Has(q, Msg("ignored", msg.wd))
    PROVE  \A wd \in Wds :
              /\ Settled(Push(q, msg), wd)
              /\ About(Push(q, msg), wd) => About(q, wd) \/ wd = msg.wd
<1>1. ASSUME NEW e \in Messages, NEW wd \in Wds, e.wd = wd => ~Has(q, Msg("ignored", wd))
      PROVE  /\ Settled(Append(q, e), wd)
             /\ About(Append(q, e), wd) => About(q, wd) \/ e.wd = wd
  <2>1. /\ Len(Append(q, e)) = Len(q) + 1 /\ Len(q) \in Nat
        /\ DOMAIN q = 1 .. Len(q)
        /\ \A i \in 1 .. Len(q) : Append(q, e)[i] = q[i]
        /\ Append(q, e)[Len(q) + 1] = e
    OBVIOUS
  <2>2. Settled(Append(q, e), wd)
    <3> SUFFICES ASSUME NEW i \in 1 .. Len(q) + 1, NEW j \in 1 .. Len(q) + 1, i < j,
                        Append(q, e)[i] = Msg("ignored", wd)
                 PROVE  Append(q, e)[j].wd # wd
      BY <2>1 DEF Settled
    <3>1. i \in 1 .. Len(q) /\ q[i] = Msg("ignored", wd)
      BY <2>1
    <3>2. CASE j \in 1 .. Len(q)
      BY <2>1, <3>1, <3>2 DEF Settled
    <3>3. CASE j = Len(q) + 1
      BY <1>1, <2>1, <3>1, <3>3 DEF Has
    <3> QED
      BY <2>1, <3>2, <3>3
  <2>3. About(Append(q, e), wd) => About(q, wd) \/ e.wd = wd
    BY <2>1 DEF About
  <2> QED
    BY <2>2, <2>3
<1>2. QOverflow \in Messages /\ \A wd \in Wds : QOverflow.wd # wd
  BY DEF Messages, QOverflow, Msg, NoWd, Wds
<1>3. Push(q, msg) \in {q, Append(q, msg), Append(q, QOverflow)}
  BY DEF Push
<1> SUFFICES ASSUME NEW wd \in Wds
             PROVE  /\ Settled(Push(q, msg), wd)
                    /\ About(Push(q, msg), wd) => About(q, wd) \/ wd = msg.wd
  OBVIOUS
<1>4. CASE Push(q, msg) = q
  BY <1>4
<1>5. CASE Push(q, msg) = Append(q, msg)
  BY <1>1, <1>5
<1>6. CASE Push(q, msg) = Append(q, QOverflow)
  BY <1>1, <1>2, <1>6
<1> QED
  BY <1>3, <1>4, <1>5, <1>6

(* Taking the first event away.                                            *)
LEMMA TailSettles ==
    ASSUME NEW q \in Seq(Messages), q # <<>>, NEW wd \in Wds, Settled(q, wd)
    PROVE  /\ Settled(Tail(q), wd)
           /\ About(Tail(q), wd) => About(q, wd)
           /\ Head(q).wd = wd => About(q, wd)
           /\ Head(q) = Msg("ignored", wd) => ~About(Tail(q), wd)
<1> DEFINE r == Tail(q)
<1>1. /\ Len(q) \in Nat \ {0} /\ Len(r) = Len(q) - 1
      /\ \A i \in 1 .. Len(r) : r[i] = q[i + 1]
      /\ Head(q) = q[1]
  OBVIOUS
<1> HIDE DEF r
<1>2. ASSUME NEW i \in 1 .. Len(r)
      PROVE  i + 1 \in 1 .. Len(q) /\ 1 < i + 1 /\ r[i] = q[i + 1]
  BY <1>1
<1>3. 1 \in 1 .. Len(q)
  BY <1>1
<1>4. Settled(r, wd)
  <2> SUFFICES ASSUME NEW i \in 1 .. Len(r), NEW j \in 1 .. Len(r), i < j,
                      r[i] = Msg("ignored", wd)
               PROVE  r[j].wd # wd
    BY DEF Settled
  <2>1. i + 1 < j + 1
    OBVIOUS
  <2> QED
    BY <1>2, <2>1 DEF Settled
<1>5. About(r, wd) => About(q, wd)
  BY <1>2 DEF About
<1>6. Head(q).wd = wd => About(q, wd)
  BY <1>1, <1>3 DEF About
<1>7. Head(q) = Msg("ignored", wd) => ~About(r, wd)
  BY <1>1, <1>2, <1>3 DEF About, Settled
<1> QED
  BY <1>4, <1>5, <1>6, <1>7 DEF r

(* Reading the first k events.                                             *)
LEMMA SplitSettles ==
    ASSUME NEW q \in Seq(Messages), NEW k \in 0 .. Len(q), NEW wd \in Wds, Settled(q, wd)
    PROVE  LET first == SubSeq(q, 1, k)
               rest == SubSeq(q, k + 1, Len(q))
           IN  /\ Settled(first, wd) /\ Settled(rest, wd)
               /\ About(first, wd) \/ About(rest, wd) => About(q, wd)
               /\ Has(first, Msg("ignored", wd)) => ~About(rest, wd)
<1> DEFINE first == SubSeq(q, 1, k)
           rest == SubSeq(q, k + 1, Len(q))
<1>1. /\ Len(q) \in Nat /\ Len(first) = k /\ Len(rest) = Len(q) - k
      /\ DOMAIN first = 1 .. k
      /\ \A i \in 1 .. k : first[i] = q[i]
      /\ \A i \in 1 .. Len(q) - k : rest[i] = q[k + i]
  OBVIOUS
<1> HIDE DEF first, rest
<1>2. ASSUME NEW i \in 1 .. Len(rest)
      PROVE  /\ k + i \in 1 .. Len(q) /\ rest[i] = q[k + i]
             /\ \A j \in 1 .. k : j < k + i
  BY <1>1
<1>3. \A i \in 1 .. Len(first) : i \in 1 .. Len(q) /\ first[i] = q[i]
  BY <1>1
<1>4. Settled(first, wd)
  BY <1>3 DEF Settled
<1>5. Settled(rest, wd)
  <2> SUFFICES ASSUME NEW i \in 1 .. Len(rest), NEW j \in 1 .. Len(rest), i < j,
                      rest[i] = Msg("ignored", wd)
               PROVE  rest[j].wd # wd
    BY DEF Settled
  <2>1. k + i < k + j
    BY <1>1
  <2> QED
    BY <1>2, <2>1 DEF Settled
<1>6. About(first, wd) \/ About(rest, wd) => About(q, wd)
  BY <1>2, <1>3 DEF About
<1>7. Has(first, Msg("ignored", wd)) => ~About(rest, wd)
  BY <1>1, <1>2, <1>3 DEF Has, About, Settled
<1> QED
  BY <1>4, <1>5, <1>6, <1>7 DEF first, rest

-------------------------------------------------------------------------------
(* The kernel posts events of watches it has.                              *)

Posts ==
    /\ batch' = batch
    /\ \A wd \in Wds : Settled(kq', wd)
    /\ \A wd \in Wds : About(kq', wd) => About(kq, wd) \/ watches[wd] # NoInode

LEMMA PostingPosts ==
    ASSUME TypeOK, IgnoredIsDead, IgnoredIsLast, batch' = batch,
           NEW wd \in Wds, watches[wd] # NoInode, NEW kind \in WatchKinds,
           kq' = Push(kq, Msg(kind, wd))
    PROVE  Posts
<1>1. Msg(kind, wd) \in Messages /\ kq \in Seq(Messages) /\ Msg(kind, wd).wd = wd
  BY DEF Msg, Messages, TypeOK, InotifyTypeOK
<1>2. ~Has(kq, Msg("ignored", wd))
  BY DEF IgnoredIsDead, Pending
<1> QED
  BY <1>1, <1>2, PushSettles DEF Posts, IgnoredIsLast

LEMMA ForgettingPosts ==
    ASSUME TypeOK, IgnoredIsDead, IgnoredIsLast, batch' = batch,
           NEW wd \in Wds, watches[wd] # NoInode,
           \/ Forget(wd, kq)
           \/ \E kind \in {"delete_self", "unmount"} : Forget(wd, Push(kq, Msg(kind, wd)))
    PROVE  Posts
<1>1. CASE Forget(wd, kq)
  BY <1>1, PostingPosts DEF Forget, WatchKinds
<1>2. ASSUME NEW kind \in {"delete_self", "unmount"}, Forget(wd, Push(kq, Msg(kind, wd)))
      PROVE  Posts
  <2> DEFINE q == Push(kq, Msg(kind, wd))
  <2>1. /\ Msg(kind, wd) \in Messages /\ Msg("ignored", wd) \in Messages
        /\ Msg(kind, wd).wd = wd /\ Msg("ignored", wd).wd = wd
        /\ kq \in Seq(Messages)
    BY DEF Msg, Messages, WatchKinds, TypeOK, InotifyTypeOK
  <2>2. ~Has(kq, Msg("ignored", wd))
    BY DEF IgnoredIsDead, Pending
  <2>3. \A v \in Wds : Settled(q, v) /\ (About(q, v) => About(kq, v) \/ v = wd)
    BY <2>1, <2>2, PushSettles DEF IgnoredIsLast
  <2>4. q \in Seq(Messages)
    BY <2>1, PushType
  <2>5. ~Has(q, Msg("ignored", wd))
    BY <2>1, <2>2, PushContents DEF Msg, QOverflow
  <2>6. kq' = Push(q, Msg("ignored", wd))
    BY <1>2 DEF Forget
  <2> HIDE DEF q
  <2>7. \A v \in Wds : Settled(kq', v) /\ (About(kq', v) => About(q, v) \/ v = wd)
    BY <2>1, <2>3, <2>4, <2>5, <2>6, PushSettles
  <2> QED
    BY <2>3, <2>7 DEF Posts
<1> QED
  BY <1>1, <1>2

LEMMA FileSystemPosts ==
    ASSUME TypeOK, IgnoredIsDead, IgnoredIsLast, FileSystem,
           CreateDir \/ RemoveDir \/ MoveDirAway \/ MoveDirIn \/ ChangeContent
    PROVE  Posts
<1>1. batch' = batch
  BY DEF FileSystem, loopVars
<1>2. ASSUME UNCHANGED kq PROVE Posts
  BY <1>1, <1>2 DEF Posts, IgnoredIsLast
<1>3. dirAt \in [Dirs -> Inodes \cup {NoInode}] /\ elsewhere \subseteq Inodes
  BY DEF TypeOK, InotifyTypeOK
<1>4. ASSUME NEW i \in Inodes, NotifyMove(i) PROVE Posts
  BY <1>1, <1>2, <1>4, PostingPosts DEF NotifyMove, Watching, WatchKinds
<1>5. CASE CreateDir
  BY <1>2, <1>5 DEF CreateDir
<1>6. CASE RemoveDir
  <2>1. PICK i \in Existing, kind \in {"delete_self", "unmount"} :
           IF Watching(i) = {}
           THEN UNCHANGED <<watches, kq, lost>>
           ELSE \E wd \in Watching(i) : Forget(wd, Push(kq, Msg(kind, wd)))
    BY <1>6 DEF RemoveDir
  <2>2. i # NoInode
    BY <1>3 DEF Existing
  <2>3. CASE Watching(i) = {}
    BY <1>2, <2>1, <2>3
  <2>4. CASE Watching(i) # {}
    <3>1. PICK wd \in Wds : watches[wd] = i /\ Forget(wd, Push(kq, Msg(kind, wd)))
      BY <2>1, <2>4 DEF Watching
    <3> QED
      BY <1>1, <2>2, <3>1, ForgettingPosts
  <2> QED
    BY <2>3, <2>4
<1>7. CASE MoveDirAway
  BY <1>3, <1>4, <1>7 DEF MoveDirAway
<1>8. CASE MoveDirIn
  BY <1>3, <1>4, <1>8 DEF MoveDirIn
<1>9. CASE ChangeContent
  BY <1>1, <1>9, PostingPosts DEF ChangeContent, WatchKinds
<1> QED
  BY <1>5, <1>6, <1>7, <1>8, <1>9

LEMMA RmWatchPosts ==
    ASSUME TypeOK, IgnoredIsDead, IgnoredIsLast, batch' = batch,
           NEW wd \in Wds, RmWatch(wd)
    PROVE  Posts
<1>1. CASE RmWatchSucceeds(wd)
  BY <1>1, ForgettingPosts DEF RmWatch, RmWatchSucceeds
<1>2. CASE ~RmWatchSucceeds(wd)
  BY <1>2 DEF RmWatch, Posts, IgnoredIsLast
<1> QED
  BY <1>1, <1>2

(* What is posted is known, as long as nothing known is forgotten.         *)
LEMMA PostsKeepEvents ==
    ASSUME TypeOK, NoLeakedWatch, IgnoredIsDead, EventsInv, Posts,
           \A wd \in Wds : watchRoots[wd] # NoPath \/ recent[wd] # NoPath =>
              watchRoots'[wd] # NoPath \/ recent'[wd] # NoPath
    PROVE  EventsInv'
<1>1. ASSUME NEW wd \in Wds, Has(batch, Msg("ignored", wd)) PROVE ~About(kq', wd)
  <2>1. watches[wd] = NoInode
    BY <1>1 DEF IgnoredIsDead, Pending
  <2> QED
    BY <1>1, <2>1 DEF EventsInv, IgnoredIsLast, Posts
<1>2. IgnoredIsLast'
  BY <1>1 DEF EventsInv, IgnoredIsLast, Posts
<1>3. AboutIsKnown'
  <2>1. ASSUME NEW wd \in Wds, About(batch, wd) \/ About(kq', wd)
        PROVE  watchRoots[wd] # NoPath \/ recent[wd] # NoPath
    BY <2>1 DEF EventsInv, AboutIsKnown, Posts, NoLeakedWatch
  <2> QED
    BY <2>1 DEF AboutIsKnown, Posts
<1> QED
  BY <1>2, <1>3 DEF EventsInv

-------------------------------------------------------------------------------
(* The run loop's steps.                                                   *)

LEMMA ReadKeepsEvents ==
    ASSUME TypeOK, BatchIsHandled, EventsInv, ReadEvents
    PROVE  EventsInv'
<1>1. PICK k \in 0 .. Len(kq) : /\ batch' = SubSeq(kq, 1, k)
                                /\ kq' = SubSeq(kq, k + 1, Len(kq))
  BY ReadTypes
<1>2. kq \in Seq(Messages) /\ UNCHANGED mapVars
  BY DEF TypeOK, InotifyTypeOK, ReadEvents
<1>3. ASSUME NEW wd \in Wds
      PROVE  /\ Settled(batch', wd) /\ Settled(kq', wd)
             /\ About(batch', wd) \/ About(kq', wd) => About(kq, wd)
             /\ Has(batch', Msg("ignored", wd)) => ~About(kq', wd)
  BY <1>1, <1>2, SplitSettles DEF EventsInv, IgnoredIsLast
<1> QED
  BY <1>2, <1>3 DEF EventsInv, IgnoredIsLast, AboutIsKnown, mapVars

(* An event that was handled; its watch descriptor may be forgotten when   *)
(* it was an IN_IGNORED.                                                   *)
LEMMA HandledKeepsEvents ==
    ASSUME TypeOK, EventsInv, batch # <<>>, Handled, kq' = kq,
           \A wd \in Wds : Event # Msg("ignored", wd) =>
              watchRoots'[wd] = watchRoots[wd] /\ recent'[wd] = recent[wd]
    PROVE  EventsInv'
<1>1. batch \in Seq(Messages) /\ batch' = Tail(batch) /\ Event = Head(batch)
  BY DEF TypeOK, Handled, Event
<1>2. ASSUME NEW wd \in Wds
      PROVE  /\ Settled(batch', wd)
             /\ About(batch', wd) => About(batch, wd)
             /\ Event = Msg("ignored", wd) => ~About(batch', wd) /\ ~About(kq, wd)
             /\ Has(batch', Msg("ignored", wd)) => Has(batch, Msg("ignored", wd))
  <2>1. Settled(batch, wd) /\ (Has(batch, Msg("ignored", wd)) => ~About(kq, wd))
    BY DEF EventsInv, IgnoredIsLast
  <2>2. \A m : Has(batch, m) <=> m = Head(batch) \/ Has(Tail(batch), m)
    BY <1>1, TailContents
  <2> QED
    BY <1>1, <2>1, <2>2, TailSettles
<1>3. IgnoredIsLast'
  BY <1>2 DEF EventsInv, IgnoredIsLast
<1>4. AboutIsKnown'
  BY <1>2 DEF EventsInv, AboutIsKnown
<1> QED
  BY <1>3, <1>4 DEF EventsInv

LEMMA RunLoopKeepsEvents ==
    ASSUME TypeOK, BatchIsHandled, EventsInv, RunLoopStep \/ PollFails
    PROVE  EventsInv'
<1>1. CASE \/ PollShutdown \/ PollFails \/ PollEvents \/ ReadDone
           \/ LockEvents \/ UnlockEvents
  <2>1. UNCHANGED <<kq, batch, watchRoots, recent>>
    BY <1>1 DEF PollShutdown, PollFails, PollEvents, ReadDone, LockEvents,
                UnlockEvents, kernelVars, mapVars
  <2> QED
    BY <2>1 DEF EventsInv, IgnoredIsLast, AboutIsKnown
<1>2. CASE HandleUnmount \/ HandleQueueOverflow \/ HandleNotListening \/ HandleChange
  <2>1. batch # <<>> /\ Handled /\ kq' = kq /\ UNCHANGED <<watchRoots, recent>>
    BY <1>2 DEF HandleUnmount, HandleQueueOverflow, HandleNotListening, HandleChange,
                Reportable, HandleNext, mapVars
  <2> QED
    BY <2>1, HandledKeepsEvents
<1>3. CASE HandleUnregistered \/ HandleIgnored
  <2>1. batch # <<>> /\ Handled /\ kq' = kq /\ HasWd
    BY <1>3 DEF HandleUnregistered, HandleIgnored, HandleNext
  <2>2. Event \in Messages
    BY <2>1, TailContents DEF Event, TypeOK
  <2>3. Event # QOverflow
    BY <2>1 DEF HasWd, QOverflow, Msg
  <2>4. Event = Msg(Event.kind, Event.wd)
    BY <2>2, <2>3 DEF Messages, Msg
  <2>5. ASSUME NEW wd \in Wds, Event # Msg("ignored", wd)
        PROVE  watchRoots'[wd] = watchRoots[wd] /\ recent'[wd] = recent[wd]
    BY <1>3, <2>4, <2>5 DEF HandleUnregistered, HandleIgnored, TypeOK
  <2> QED
    BY <2>1, <2>5, HandledKeepsEvents
<1>4. CASE HandleBadName
  <2>1. batch' = <<>> /\ kq' = kq /\ UNCHANGED <<watchRoots, recent>>
    BY <1>4 DEF HandleBadName, Reportable, HandleNext, mapVars
  <2> QED
    BY <2>1 DEF EventsInv, IgnoredIsLast, AboutIsKnown, Settled, About, Has
<1>5. CASE ReadEvents
  BY <1>5, ReadKeepsEvents
<1> QED
  BY <1>1, <1>2, <1>3, <1>4, <1>5 DEF RunLoopStep, HandleEvent

-------------------------------------------------------------------------------
(* The users' steps.                                                       *)

LEMMA UserKeepsEvents ==
    ASSUME TypeOK, Inductive, EventsInv, NEW u \in Users,
           \/ StartWatching(u) \/ StopWatching(u)
           \/ StopWatchingMovedPaths(u) \/ Shutdown(u) \/ UserStep(u)
    PROVE  EventsInv'
<1>1. batch' = batch
  BY DEF StartWatching, StopWatching, StopWatchingMovedPaths, Begin, Shutdown,
         UserStep, UserOnly, Lock, Return, RegisterStat, RegisterAdd,
         RegisterAgain, RegisterFails, Unregister, UnregisterNothing,
         MovedFind, MovedFindRaces, MovedKeep, MovedDrop, MovedRemove, loopVars
<1>2. ASSUME kq' = kq,
             \A wd \in Wds : watchRoots[wd] # NoPath \/ recent[wd] # NoPath =>
                watchRoots'[wd] # NoPath \/ recent'[wd] # NoPath
      PROVE  EventsInv'
  BY <1>1, <1>2 DEF EventsInv, IgnoredIsLast, AboutIsKnown
<1>3. NoLeakedWatch /\ IgnoredIsDead /\ MapsAgree
  BY DEF Inductive
<1>4. CASE \/ StartWatching(u) \/ StopWatching(u)
           \/ StopWatchingMovedPaths(u) \/ Shutdown(u) \/ Lock(u)
           \/ Return(u) \/ RegisterStat(u) \/ RegisterFails(u)
           \/ UnregisterNothing(u) \/ MovedFind(u) \/ MovedFindRaces(u)
           \/ MovedKeep(u) \/ MovedDrop(u)
  <2>1. UNCHANGED <<kq, watchRoots, recent>>
    BY <1>4 DEF StartWatching, StopWatching, StopWatchingMovedPaths, Begin,
           Shutdown, Lock, Return, RegisterStat, RegisterFails,
           UnregisterNothing, MovedFind, MovedFindRaces, MovedKeep, MovedDrop,
           kernelVars, mapVars
  <2> QED
    BY <1>2, <2>1
<1>5. CASE RegisterAdd(u) \/ RegisterAgain(u)
  <2>1. kq' = kq /\ recent' = recent /\ Path(u) # NoPath
    BY <1>5 DEF RegisterAdd, RegisterAgain, AddWatch, kernelVars, At, Path, TypeOK,
                Busy, Calling
  <2>2. \/ watchRoots' = watchRoots
        \/ \E wd : watchRoots' = [watchRoots EXCEPT ![wd] = Path(u)]
    BY <1>5 DEF RegisterAdd, RegisterAgain
  <2>3. \A wd \in Wds : watchRoots[wd] # NoPath => watchRoots'[wd] # NoPath
    BY <2>1, <2>2 DEF TypeOK
  <2> QED
    BY <1>2, <2>1, <2>3
<1>6. CASE Unregister(u)
  <2> DEFINE path == Path(u)
             wd == watchPoints[path].wd
  <2>1. path \in Paths /\ path # NoPath /\ watchPoints[path] # Absent
    BY <1>6 DEF Unregister, TypeOK, Calling, Path, Absent
  <2>2. wd \in Wds
    BY <1>3, <2>1 DEF MapsAgree, Registered
  <2>3. /\ RmWatch(wd)
        /\ recent' = [recent EXCEPT ![wd] = IF @ = NoPath THEN path ELSE @]
        /\ watchRoots' = [watchRoots EXCEPT ![wd] = NoPath]
    BY <1>6 DEF Unregister
  <2> HIDE DEF path, wd
  <2>4. Posts
    BY <1>1, <1>3, <2>2, <2>3, RmWatchPosts DEF EventsInv
  <2>5. ASSUME NEW v \in Wds, watchRoots[v] # NoPath \/ recent[v] # NoPath
        PROVE  watchRoots'[v] # NoPath \/ recent'[v] # NoPath
    BY <2>1, <2>2, <2>3, <2>5 DEF TypeOK
  <2> QED
    BY <1>3, <2>4, <2>5, PostsKeepEvents
<1>7. CASE MovedRemove(u)
  <2>1. call[u].wd \in Wds /\ RmWatch(call[u].wd) /\ UNCHANGED <<watchRoots, recent>>
    BY <1>7 DEF MovedRemove, At, TypeOK, Busy, mapVars
  <2>2. Posts
    BY <1>1, <1>3, <2>1, RmWatchPosts DEF EventsInv
  <2> QED
    BY <1>3, <2>1, <2>2, PostsKeepEvents
<1> QED
  BY <1>4, <1>5, <1>6, <1>7 DEF UserStep

-------------------------------------------------------------------------------
(* handleEvent never meets a watch descriptor the maps do not know: a      *)
(* descriptor is only forgotten with its IN_IGNORED, which is the last     *)
(* event the kernel sends for it.                                          *)
THEOREM DescriptorsAreKnown == Spec => []NoUnknownDescriptor
<1>1. Init => EventsInv
  BY DEF Init, InotifyInit, EventsInv, IgnoredIsLast, AboutIsKnown, Settled, About, Has
<1>2. TypeOK /\ Inductive /\ EventsInv /\ [Next]_vars => EventsInv'
  <2> SUFFICES ASSUME TypeOK, Inductive, EventsInv, [Next]_vars PROVE EventsInv'
    OBVIOUS
  <2>1. NoLeakedWatch /\ IgnoredIsDead /\ BatchIsHandled /\ IgnoredIsLast
    BY DEF Inductive, EventsInv
  <2>2. CASE RunLoopStep \/ PollFails
    BY <2>1, <2>2, RunLoopKeepsEvents
  <2>3. CASE FileSystem /\ (\/ CreateDir \/ RemoveDir \/ MoveDirAway
                            \/ MoveDirIn \/ ChangeContent)
    <3>1. UNCHANGED <<watchRoots, recent>>
      BY <2>3 DEF FileSystem, mapVars
    <3> QED
      BY <2>1, <2>3, <3>1, FileSystemPosts, PostsKeepEvents
  <2>4. ASSUME NEW u \in Users,
               \/ StartWatching(u) \/ StopWatching(u)
               \/ StopWatchingMovedPaths(u) \/ Shutdown(u) \/ UserStep(u)
        PROVE  EventsInv'
    BY <2>4, UserKeepsEvents
  <2>5. CASE UNCHANGED vars
    <3>1. UNCHANGED <<kq, batch, watchRoots, recent>>
      BY <2>5 DEF vars, kernelVars, mapVars, loopVars
    <3> QED
      BY <3>1 DEF EventsInv, IgnoredIsLast, AboutIsKnown
  <2> QED
    BY <2>2, <2>3, <2>4, <2>5 DEF Next
<1>3. TypeOK /\ EventsInv => NoUnknownDescriptor
  BY KnownIsNoUnknown DEF EventsInv
<1> QED
  BY <1>1, <1>2, <1>3, TypeCorrect, InductiveHolds, PTL DEF Spec

(* What is reported of a path comes from the directory it was registered   *)
(* for last: the watch descriptor of the event is that of the watch point. *)
THEOREM ReportsAreCurrent == Spec => []NoStaleReport
<1>1. Init => NoStaleReport
  BY DEF Init, NoStaleReport
<1>2. TypeOK /\ Inductive /\ [Next]_vars => NoStaleReport' \/ UNCHANGED vars
  <2> SUFFICES ASSUME TypeOK, Inductive, Next PROVE NoStaleReport'
    OBVIOUS
  <2>1. CASE Silent
    BY <2>1 DEF Silent, NoStaleReport
  <2>2. CASE HandleQueueOverflow \/ HandleBadName
    BY <2>2 DEF HandleQueueOverflow, HandleBadName, Report, NoStaleReport
  <2>3. CASE HandleChange
    <3>1. /\ batch # <<>> /\ HasWd /\ EventPath # NoPath /\ watchPoints' = watchPoints
          /\ \A r \in reported' : r.path = EventPath /\ r.wd = Event.wd
      BY <2>3 DEF HandleChange, Reportable, HandleNext, mapVars, Report
    <3>2. Event \in Messages /\ Event # QOverflow
      BY <3>1, TailContents DEF Event, TypeOK, HasWd, QOverflow, Msg
    <3>3. Event.wd \in Wds
      BY <3>2 DEF Messages
    <3>4. watchPoints[EventPath].wd = Event.wd
      BY <3>1, <3>3 DEF Inductive, MapsAgree, EventPath
    <3> QED
      BY <3>1, <3>4 DEF NoStaleReport
  <2> QED
    BY <2>1, <2>2, <2>3
    DEF Next, FileSystem, RunLoopStep, PollShutdown, PollFails, PollEvents,
        ReadEvents, ReadDone, LockEvents, UnlockEvents, HandleEvent, HandleUnmount,
        HandleUnregistered, HandleIgnored, HandleNotListening, StartWatching,
        StopWatching, StopWatchingMovedPaths, Begin, Shutdown, UserStep, UserOnly,
        Lock, Return, RegisterStat, RegisterAdd, RegisterAgain, RegisterFails,
        Unregister, UnregisterNothing, MovedFind, MovedFindRaces, MovedKeep,
        MovedDrop, MovedRemove
<1>3. NoStaleReport /\ UNCHANGED vars => NoStaleReport'
  BY DEF vars, mapVars, NoStaleReport
<1> QED
  BY <1>1, <1>2, <1>3, TypeCorrect, InductiveHolds, PTL DEF Spec

-------------------------------------------------------------------------------
(* stopWatchingMovedPaths, when nobody registers paths at the same time.   *)

OneUser == \A u, v \in Users : u = v

(* What was dropped does not listen any more, and neither does an entry    *)
(* whose reference dangles.                                                *)
Dropping ==
    \A u \in Users : call[u].op = "moved" =>
       /\ \A p \in call[u].dropped : watchPoints[p].status # "LISTENING"
       /\ call[u].stage = "found" /\ Dangling(u) =>
             watchPoints[Path(u)].status # "LISTENING"

(* Other steps than a user's register no path.                             *)
LEMMA OthersKeepDropping ==
    ASSUME TypeOK, Dropping,
           RunLoopStep \/ PollFails \/ FileSystem \/ UNCHANGED vars
    PROVE  Dropping'
<1>1. \A p \in Paths :
         watchPoints'[p] = watchPoints[p] \/ watchPoints'[p].status # "LISTENING"
  <2>1. CASE HandleIgnored
    BY <2>1 DEF HandleIgnored, TypeOK, Absent
  <2>2. CASE UNCHANGED watchPoints
    BY <2>2
  <2> QED
    BY <2>1, <2>2
    DEF RunLoopStep, PollFails, FileSystem, vars, mapVars, PollShutdown, PollEvents,
        ReadEvents, ReadDone, LockEvents, UnlockEvents, HandleEvent, HandleUnmount,
        HandleQueueOverflow, HandleUnregistered, HandleNotListening, HandleBadName,
        HandleChange, Reportable
<1>2. \A u \in Users :
         /\ call'[u].op = call[u].op /\ call'[u].stage = call[u].stage
         /\ call'[u].todo = call[u].todo /\ call'[u].wd = call[u].wd
         /\ call'[u].dropped = call[u].dropped
  <2>1. CASE FileSystem
    BY <2>1 DEF FileSystem, TypeOK, Calling
  <2>2. CASE RunLoopStep \/ PollFails
    BY <2>2, RunLoopMutex
  <2>3. CASE UNCHANGED vars
    BY <2>3 DEF vars, userVars
  <2> QED
    BY <2>1, <2>2, <2>3
<1>3. ASSUME NEW u \in Users, call[u].stage = "found"
      PROVE  Path(u) \in Paths
  BY <1>3 DEF Path, TypeOK, Busy, Calling
<1>4. \A u \in Users : call[u].dropped \subseteq Paths
  BY DEF TypeOK, Calling
<1> QED
  BY <1>1, <1>2, <1>3, <1>4 DEF Dropping, Dangling, Path

LEMMA UserKeepsDropping ==
    ASSUME OneUser, TypeOK, Dropping, NEW u \in Users,
           \/ StartWatching(u) \/ StopWatching(u)
           \/ StopWatchingMovedPaths(u) \/ Shutdown(u) \/ UserStep(u)
    PROVE  Dropping'
<1>1. Users = {u}
  BY DEF OneUser
<1>2. call[u] \in Calling /\ call \in [Users -> Calling]
  BY DEF TypeOK
<1>3. ASSUME call'[u].op # "moved" PROVE Dropping'
  BY <1>1, <1>3 DEF Dropping
<1>4. ASSUME call'[u].stage # "found",
             \A p \in call'[u].dropped : watchPoints'[p].status # "LISTENING"
      PROVE  Dropping'
  BY <1>1, <1>4 DEF Dropping
<1>5. CASE StartWatching(u) \/ StopWatching(u)
  <2>1. PICK op \in {"start", "stop"}, todo \in Requests : Begin(u, op, "lock", todo)
    BY <1>5 DEF StartWatching, StopWatching
  <2>2. call'[u].op = op
    BY <1>2, <2>1 DEF Begin, NoCall
  <2> QED
    BY <1>3, <2>2
<1>6. CASE StopWatchingMovedPaths(u)
  <2>1. PICK todo \in Requests : Begin(u, "moved", "next", todo)
    BY <1>6 DEF StopWatchingMovedPaths
  <2>2. call'[u].stage = "next" /\ call'[u].dropped = {}
    BY <1>2, <2>1 DEF Begin, NoCall
  <2> QED
    BY <1>4, <2>2
<1>7. CASE Shutdown(u)
  BY <1>7 DEF Shutdown, mapVars, Dropping, Dangling, Path
<1>8. CASE Lock(u)
  BY <1>2, <1>3, <1>8 DEF Lock, TypeOK, Busy, Calling
<1>9. CASE Return(u)
  BY <1>2, <1>3, <1>9 DEF Return, Leave, NoCall
<1>10. CASE \/ RegisterStat(u) \/ RegisterAdd(u) \/ RegisterAgain(u) \/ RegisterFails(u)
            \/ Unregister(u) \/ UnregisterNothing(u)
  BY <1>2, <1>3, <1>10
  DEF RegisterStat, RegisterAdd, RegisterAgain, RegisterFails, Unregister,
      UnregisterNothing, Leave, Advance, NoCall, At, Calling
<1>11. CASE MovedFind(u)
  <2>1. call[u].op = "moved" /\ watchPoints' = watchPoints
    BY <1>11 DEF MovedFind, At, mapVars
  <2>2. \A p \in call[u].dropped : watchPoints[p].status # "LISTENING"
    BY <2>1 DEF Dropping
  <2>3. CASE watchPoints[Path(u)].status = "LISTENING"
    <3>1. /\ call'[u].dropped = call[u].dropped /\ call'[u].todo = call[u].todo
          /\ call'[u].wd = watchPoints[Path(u)].wd
      BY <1>2, <1>11, <2>3 DEF MovedFind, Calling
    <3> QED
      BY <1>1, <2>1, <2>2, <3>1 DEF Dropping, Dangling, Path
  <2>4. CASE watchPoints[Path(u)].status # "LISTENING"
    <3>1. /\ call'[u].dropped = call[u].dropped \cup {Path(u)}
          /\ call'[u].stage = "next"
      BY <1>2, <1>11, <2>4 DEF MovedFind, Calling, At
    <3> QED
      BY <1>4, <2>1, <2>2, <2>4, <3>1
  <2> QED
    BY <2>3, <2>4
<1>12. CASE MovedKeep(u) \/ MovedRemove(u)
  <2>1. /\ call[u].op = "moved" /\ watchPoints' = watchPoints
        /\ call'[u].dropped = call[u].dropped /\ call'[u].stage = "next"
    BY <1>2, <1>12 DEF MovedKeep, MovedRemove, At, Advance, Calling, mapVars
  <2> QED
    BY <1>4, <2>1 DEF Dropping
<1>13. CASE MovedDrop(u)
  <2>1. call[u].op = "moved" /\ call[u].stage = "found" /\ Path(u) \in Paths
    BY <1>13 DEF MovedDrop, At, Path, TypeOK, Busy, Calling
  <2>2. /\ \A p \in call[u].dropped : watchPoints[p].status # "LISTENING"
        /\ Dangling(u) => watchPoints[Path(u)].status # "LISTENING"
    BY <2>1 DEF Dropping
  <2>3. call'[u].dropped = call[u].dropped \cup {Path(u)} /\ call'[u].stage # "found"
    BY <1>2, <1>13 DEF MovedDrop, Calling
  <2>4. CASE Dangling(u) \/ watchPoints[Path(u)].status = "CANCELLED"
    <3>1. watchPoints' = watchPoints
      BY <1>13, <2>4 DEF MovedDrop
    <3> QED
      BY <1>4, <2>2, <2>3, <2>4, <3>1
  <2>5. CASE ~(Dangling(u) \/ watchPoints[Path(u)].status = "CANCELLED")
    <3>1. watchPoints' = [watchPoints EXCEPT ![Path(u)].status = "CANCELLED"]
      BY <1>13, <2>5 DEF MovedDrop
    <3>2. watchPoints'[Path(u)].status = "CANCELLED"
      BY <2>1, <3>1 DEF TypeOK, WatchPoint, Absent
    <3>3. \A p \in Paths \ {Path(u)} : watchPoints'[p] = watchPoints[p]
      BY <3>1 DEF TypeOK
    <3>4. call[u].dropped \subseteq Paths
      BY <1>2 DEF Calling
    <3> QED
      BY <1>4, <2>2, <2>3, <3>2, <3>3, <3>4
  <2> QED
    BY <2>4, <2>5
<1>14. CASE MovedFindRaces(u)
  BY <1>2, <1>3, <1>14 DEF MovedFindRaces, NoCall
<1> QED
  BY <1>5, <1>6, <1>7, <1>8, <1>9, <1>10, <1>11, <1>12, <1>13, <1>14 DEF UserStep

(* Used by one thread, as FileWatcher asks for: a path that                *)
(* stopWatchingMovedPaths returns is not watched any more, whatever the    *)
(* run loop and the file system do meanwhile.                              *)
THEOREM DroppedPathsAreNotWatched ==
    ASSUME OneUser
    PROVE  Spec => DroppedAreNotWatched
<1>1. OneUser
  OBVIOUS
<1>2. Init => Dropping
  BY DEF Init, Dropping, NoCall
<1>3. TypeOK /\ Dropping /\ [Next]_vars => Dropping'
  BY <1>1, OthersKeepDropping, UserKeepsDropping DEF Next
<1>4. ASSUME TypeOK, Inductive, Dropping, NEW u \in Users, Return(u), call[u].op = "moved",
             NEW p \in call[u].dropped, Registered(p)
      PROVE  watches[watchPoints[p].wd] = NoInode
  <2>1. p \in Paths /\ watchPoints[p].status # "LISTENING" /\ call[u].stage = "next"
    BY <1>4 DEF TypeOK, Calling, Dropping, Return
  <2>2. watchPoints[p].wd \in Wds /\ watchRoots[watchPoints[p].wd] = p
    BY <1>4, <2>1 DEF Inductive, MapsAgree
  <2>3. ~Removing(watchPoints[p].wd)
    BY <1>1, <2>1 DEF OneUser, Removing, At
  <2> QED
    BY <1>4, <2>1, <2>2, <2>3 DEF Inductive, NoLeakedWatch
<1>5. TypeOK /\ Inductive /\ Dropping =>
         \A u \in Users : Return(u) /\ call[u].op = "moved" =>
            \A p \in call[u].dropped : Registered(p) => watches[watchPoints[p].wd] = NoInode
  BY <1>4
<1> QED
  BY <1>2, <1>3, <1>5, TypeCorrect, InductiveHolds, PTL DEF Spec, DroppedAreNotWatched

-------------------------------------------------------------------------------
(* What stopWatchingMovedPaths must find.                                  *)

Listed(todo) == {todo[i] : i \in DOMAIN todo}

Gone(p) == watchPoints[p].status # "LISTENING" \/ watches[watchPoints[p].wd] = NoInode

(* A directory that is away stays away from its path; once its path was    *)
(* looked at and not dropped, its recorded inode was that of another one.  *)
AwayFrom(p, u) ==
    /\ Gone(p) \/ watches[watchPoints[p].wd] # Target(p)
    /\ p \notin call[u].dropped /\ p \notin Listed(call[u].todo) =>
          Gone(p) \/ watches[watchPoints[p].wd] # watchPoints[p].inode

Seeking ==
    \A u \in Users : call[u].op = "moved" =>
       /\ \A p \in call[u].away : AwayFrom(p, u)
       /\ call[u].stage = "remove" => Path(u) \in call[u].dropped

(* Nobody registers a path, and the kernel gives out no watch descriptor.  *)
NothingNew ==
    /\ \A p \in Paths :
          watchPoints'[p] = watchPoints[p] \/ watchPoints'[p].status # "LISTENING"
    /\ \A wd \in Wds : watches'[wd] \in {watches[wd], NoInode}

LEMMA GoneStaysGone ==
    ASSUME TypeOK, Inductive, NothingNew, NEW p \in Paths
    PROVE  \/ Gone(p)'
           \/ /\ ~Gone(p)
              /\ watchPoints'[p] = watchPoints[p]
              /\ watches'[watchPoints[p].wd] = watches[watchPoints[p].wd]
<1> SUFFICES ASSUME watchPoints'[p] = watchPoints[p], watchPoints[p].status = "LISTENING"
             PROVE  \/ Gone(p)'
                    \/ ~Gone(p) /\ watches'[watchPoints[p].wd] = watches[watchPoints[p].wd]
  BY DEF NothingNew, Gone
<1>1. watchPoints[p].wd \in Wds
  BY DEF Inductive, MapsAgree, Registered, Absent
<1> QED
  BY <1>1 DEF NothingNew, Gone

LEMMA AwayStaysAway ==
    ASSUME TypeOK, Inductive, NothingNew, NEW p \in Paths, NEW u \in Users,
           AwayFrom(p, u), Target(p)' = Target(p) \/ Away(p)',
           p \notin call'[u].dropped /\ p \notin Listed(call'[u].todo) =>
              p \notin call[u].dropped /\ p \notin Listed(call[u].todo)
    PROVE  AwayFrom(p, u)'
<1>1. CASE Gone(p)'
  BY <1>1 DEF AwayFrom
<1>2. CASE ~Gone(p)'
  <2>1. /\ ~Gone(p)
        /\ watchPoints'[p] = watchPoints[p]
        /\ watches'[watchPoints[p].wd] = watches[watchPoints[p].wd]
    BY <1>2, GoneStaysGone
  <2> QED
    BY <2>1 DEF AwayFrom, Away
<1> QED
  BY <1>1, <1>2

LEMMA OthersKeepSeeking ==
    ASSUME TypeOK, Inductive, Seeking,
           \/ RunLoopStep \/ PollFails \/ UNCHANGED vars
           \/ FileSystem /\ (\/ CreateDir \/ RemoveDir \/ MoveDirAway
                             \/ MoveDirIn \/ ChangeContent)
    PROVE  Seeking'
<1>1. CASE RunLoopStep \/ PollFails \/ UNCHANGED vars
  <2>1. call' = call /\ dirAt' = dirAt /\ watches' = watches
    BY <1>1
    DEF vars, userVars, fsVars, kernelVars, RunLoopStep, PollFails, PollShutdown,
        PollEvents, ReadEvents, ReadDone, LockEvents, UnlockEvents, LoopOnly, HandleEvent,
        HandleUnmount, HandleQueueOverflow, HandleUnregistered, HandleIgnored,
        HandleNotListening, HandleBadName, HandleChange, Reportable, HandleNext
  <2>2. \A p \in Paths :
           watchPoints'[p] = watchPoints[p] \/ watchPoints'[p].status # "LISTENING"
    <3>1. CASE HandleIgnored
      BY <3>1 DEF HandleIgnored, TypeOK, Absent
    <3>2. CASE UNCHANGED watchPoints
      BY <3>2
    <3> QED
      BY <1>1, <3>1, <3>2
      DEF RunLoopStep, PollFails, vars, mapVars, PollShutdown, PollEvents,
          ReadEvents, ReadDone, LockEvents, UnlockEvents, HandleEvent, HandleUnmount,
          HandleQueueOverflow, HandleUnregistered, HandleNotListening, HandleBadName,
          HandleChange, Reportable
  <2>3. NothingNew
    BY <2>1, <2>2 DEF NothingNew
  <2>4. \A u \in Users : call[u].away \subseteq Paths
    BY DEF TypeOK, Calling
  <2>5. ASSUME NEW p \in Paths PROVE Target(p)' = Target(p)
    BY <2>1 DEF Target
  <2>6. ASSUME NEW u \in Users, call[u].op = "moved", NEW p \in call[u].away
        PROVE  AwayFrom(p, u)'
    <3>1. AwayFrom(p, u) /\ p \in Paths
      BY <2>4, <2>6 DEF Seeking
    <3> QED
      BY <2>1, <2>3, <2>5, <2>6, <3>1, AwayStaysAway
  <2> QED
    BY <2>1, <2>6 DEF Seeking, Path
<1>2. CASE FileSystem /\ (\/ CreateDir \/ RemoveDir \/ MoveDirAway
                          \/ MoveDirIn \/ ChangeContent)
  <2>1. NothingNew
    BY <1>2, FileSystemMoves DEF NothingNew, KernelMoves, FileSystem, mapVars
  <2>2. \A u \in Users :
           /\ call'[u].op = call[u].op /\ call'[u].stage = call[u].stage
           /\ call'[u].todo = call[u].todo /\ call'[u].dropped = call[u].dropped
           /\ call'[u].away = {p \in call[u].away : Away(p)'}
           /\ call[u].away \subseteq Paths
    BY <1>2 DEF FileSystem, TypeOK, Calling
  <2>3. ASSUME NEW u \in Users, call[u].op = "moved", NEW p \in call'[u].away
        PROVE  AwayFrom(p, u)'
    <3>1. AwayFrom(p, u) /\ p \in Paths /\ Away(p)'
      BY <2>2, <2>3 DEF Seeking
    <3> QED
      BY <2>1, <2>2, <2>3, <3>1, AwayStaysAway
  <2> QED
    BY <2>2, <2>3 DEF Seeking, Path
<1> QED
  BY <1>1, <1>2

LEMMA TailLists ==
    ASSUME NEW todo \in Seq(Paths), todo # <<>>
    PROVE  Listed(todo) = {Head(todo)} \cup Listed(Tail(todo))
<1>1. /\ Len(todo) \in Nat \ {0} /\ DOMAIN todo = 1 .. Len(todo)
      /\ DOMAIN Tail(todo) = 1 .. Len(todo) - 1
      /\ \A i \in 1 .. Len(todo) - 1 : Tail(todo)[i] = todo[i + 1]
      /\ Head(todo) = todo[1]
  OBVIOUS
<1>2. ASSUME NEW i \in 1 .. Len(todo)
      PROVE  todo[i] \in {Head(todo)} \cup Listed(Tail(todo))
  <2>1. CASE i = 1
    BY <1>1, <2>1
  <2>2. CASE i # 1
    <3>1. i - 1 \in 1 .. Len(todo) - 1 /\ Tail(todo)[i - 1] = todo[i]
      BY <1>1, <2>2
    <3> QED
      BY <1>1, <3>1 DEF Listed
  <2> QED
    BY <2>1, <2>2
<1>3. ASSUME NEW i \in 1 .. Len(todo) - 1
      PROVE  Tail(todo)[i] \in Listed(todo)
  <2>1. i + 1 \in 1 .. Len(todo) /\ Tail(todo)[i] = todo[i + 1]
    BY <1>1
  <2> QED
    BY <1>1, <2>1 DEF Listed
<1>4. Head(todo) \in Listed(todo)
  BY <1>1 DEF Listed
<1> QED
  BY <1>1, <1>2, <1>3, <1>4 DEF Listed

LEMMA UserKeepsSeeking ==
    ASSUME OneUser, TypeOK, Inductive, Dropping, Seeking, NEW u \in Users,
           \/ StartWatching(u) \/ StopWatching(u)
           \/ StopWatchingMovedPaths(u) \/ Shutdown(u) \/ UserStep(u)
    PROVE  Seeking'
<1>1. Users = {u} /\ call[u] \in Calling /\ call \in [Users -> Calling]
  BY DEF OneUser, TypeOK
<1>2. ASSUME call'[u].op # "moved" PROVE Seeking'
  BY <1>1, <1>2 DEF Seeking
<1>3. ASSUME call[u].op = "moved", call'[u].away = call[u].away, NothingNew, dirAt' = dirAt,
             call'[u].stage = "remove" => Path(u)' \in call'[u].dropped,
             \A p \in call[u].away :
                \/ p \notin call'[u].dropped /\ p \notin Listed(call'[u].todo) =>
                      p \notin call[u].dropped /\ p \notin Listed(call[u].todo)
                \/ AwayFrom(p, u)'
      PROVE  Seeking'
  <2>1. ASSUME NEW p \in call[u].away PROVE AwayFrom(p, u)'
    <3>1. AwayFrom(p, u) /\ p \in Paths
      BY <1>1, <1>3 DEF Seeking, Calling
    <3>2. Target(p)' = Target(p)
      BY <1>3 DEF Target
    <3> QED
      BY <1>3, <3>1, <3>2, AwayStaysAway
  <2> QED
    BY <1>1, <1>3, <2>1 DEF Seeking
<1>4. CASE StartWatching(u) \/ StopWatching(u)
  <2>1. PICK op \in {"start", "stop"}, todo \in Requests : Begin(u, op, "lock", todo)
    BY <1>4 DEF StartWatching, StopWatching
  <2>2. call'[u].op = op
    BY <1>1, <2>1 DEF Begin, NoCall
  <2> QED
    BY <1>2, <2>2
<1>5. CASE StopWatchingMovedPaths(u)
  <2>1. PICK todo \in Requests : Begin(u, "moved", "next", todo)
    BY <1>5 DEF StopWatchingMovedPaths
  <2>2. /\ call'[u].stage = "next" /\ call'[u].todo = todo
        /\ call'[u].away = {p \in Listed(todo) : Away(p)}
    BY <1>1, <2>1 DEF Begin, NoCall, Listed
  <2>3. UNCHANGED <<dirAt, watches, watchPoints>>
    BY <2>1 DEF Begin, UserOnly, fsVars, kernelVars, mapVars
  <2>4. ASSUME NEW p \in call'[u].away PROVE AwayFrom(p, u)'
    BY <2>2, <2>3 DEF Away, AwayFrom, Gone, Target
  <2> QED
    BY <1>1, <2>2, <2>4 DEF Seeking
<1>6. CASE Lock(u)
  BY <1>1, <1>2, <1>6 DEF Lock, TypeOK, Busy, Calling
<1>7. CASE Return(u)
  BY <1>1, <1>2, <1>7 DEF Return, Leave, NoCall
<1>8. CASE \/ RegisterStat(u) \/ RegisterAdd(u) \/ RegisterAgain(u) \/ RegisterFails(u)
           \/ Unregister(u) \/ UnregisterNothing(u)
  BY <1>1, <1>2, <1>8
  DEF RegisterStat, RegisterAdd, RegisterAgain, RegisterFails, Unregister,
      UnregisterNothing, Leave, Advance, NoCall, At, Calling
<1>9. CASE Shutdown(u)
  <2>1. UNCHANGED <<call, dirAt, watches, watchPoints>>
    BY <1>9 DEF Shutdown, UserOnly, fsVars, kernelVars, mapVars
  <2>2. NothingNew
    BY <2>1 DEF NothingNew
  <2>3. CASE call[u].op = "moved"
    BY <1>1, <1>3, <2>1, <2>2, <2>3 DEF Seeking, Path
  <2> QED
    BY <1>2, <2>1, <2>3
<1>20. CASE MovedFindRaces(u)
  BY <1>1, <1>2, <1>20 DEF MovedFindRaces, NoCall
<1> SUFFICES ASSUME MovedFind(u) \/ MovedKeep(u) \/ MovedDrop(u) \/ MovedRemove(u)
             PROVE  Seeking'
  BY <1>4, <1>5, <1>6, <1>7, <1>8, <1>9, <1>20 DEF UserStep
<1>10. /\ call[u].op = "moved" /\ dirAt' = dirAt
       /\ call[u].todo \in Seq(Paths) /\ call[u].todo # <<>>
       /\ Path(u) \in Paths
       /\ Listed(call[u].todo) = {Path(u)} \cup Listed(Tail(call[u].todo))
  <2>1. call[u].op = "moved" /\ call[u].todo # <<>> /\ dirAt' = dirAt
    BY DEF MovedFind, MovedKeep, MovedDrop, MovedRemove, At, UserOnly, fsVars, TypeOK, Busy
  <2> QED
    BY <1>1, <2>1, TailLists DEF Calling, Path
<1>11. ASSUME UNCHANGED watches, UNCHANGED watchPoints PROVE NothingNew
  BY <1>11 DEF NothingNew
<1>12. CASE MovedFind(u)
  <2>1. NothingNew /\ call'[u].away = call[u].away /\ call'[u].stage # "remove"
    BY <1>1, <1>11, <1>12 DEF MovedFind, kernelVars, mapVars, At, Calling
  <2>2. \/ call'[u].dropped = call[u].dropped /\ call'[u].todo = call[u].todo
        \/ /\ call'[u].dropped = call[u].dropped \cup {Path(u)}
           /\ call'[u].todo = Tail(call[u].todo)
    BY <1>1, <1>12 DEF MovedFind, Calling
  <2> QED
    BY <1>3, <1>10, <2>1, <2>2
<1>13. CASE MovedKeep(u)
  <2>1. UNCHANGED <<watches, watchPoints>>
    BY <1>13 DEF MovedKeep, kernelVars, mapVars
  <2>2. /\ NothingNew /\ call'[u].away = call[u].away /\ call'[u].stage # "remove"
        /\ call'[u].dropped = call[u].dropped /\ call'[u].todo = Tail(call[u].todo)
    BY <1>1, <1>11, <1>13, <2>1 DEF MovedKeep, Advance, Calling
  <2>3. ASSUME NEW p \in call[u].away, p = Path(u), ~Gone(p)
        PROVE  watches[watchPoints[p].wd] # watchPoints[p].inode
    <3>1. Lstat(p) = watchPoints[p].inode
      BY <1>1, <1>10, <1>13, <2>3 DEF MovedKeep, At, Gone, Dropping
    <3>2. watches[watchPoints[p].wd] # Target(p)
      BY <1>1, <1>10, <2>3 DEF Seeking, AwayFrom
    <3>3. watches[watchPoints[p].wd] \in Inodes
      <4>1. watchPoints[p].wd \in Wds
        BY <1>10, <2>3 DEF Gone, Inductive, MapsAgree, Registered, Absent
      <4> QED
        BY <2>3, <4>1 DEF Gone, TypeOK, InotifyTypeOK
    <3>4. CASE p \in Links
      BY <3>1, <3>3, <3>4 DEF Lstat
    <3>5. CASE p \notin Links
      BY <3>1, <3>2, <3>5 DEF Lstat, Target
    <3> QED
      BY <3>4, <3>5
  <2>4. ASSUME NEW p \in call[u].away, p = Path(u) PROVE AwayFrom(p, u)'
    <3>1. Gone(p) \/ /\ watches[watchPoints[p].wd] # Target(p)
                     /\ watches[watchPoints[p].wd] # watchPoints[p].inode
      BY <1>1, <1>10, <2>3, <2>4 DEF Seeking, AwayFrom
    <3> QED
      BY <1>10, <2>1, <3>1 DEF AwayFrom, Gone, Target
  <2> QED
    BY <1>3, <1>10, <2>2, <2>4
<1>14. CASE MovedDrop(u)
  <2>1. /\ call'[u].away = call[u].away
        /\ call'[u].dropped = call[u].dropped \cup {Path(u)}
        /\ \/ call'[u].stage = "next" /\ call'[u].todo = Tail(call[u].todo)
           \/ call'[u].stage = "remove" /\ call'[u].todo = call[u].todo
    BY <1>1, <1>14 DEF MovedDrop, Calling
  <2>2. watches' = watches
    BY <1>14 DEF MovedDrop, kernelVars
  <2>3. \/ watchPoints' = watchPoints
        \/ watchPoints' = [watchPoints EXCEPT ![Path(u)].status = "CANCELLED"]
    BY <1>14 DEF MovedDrop
  <2>4. NothingNew
    BY <1>10, <2>2, <2>3 DEF NothingNew, TypeOK, WatchPoint, Absent
  <2>5. call'[u].stage = "remove" => Path(u)' \in call'[u].dropped
    BY <2>1 DEF Path
  <2> QED
    BY <1>3, <1>10, <2>1, <2>4, <2>5
<1>15. CASE MovedRemove(u)
  <2>1. /\ call'[u].away = call[u].away /\ call'[u].stage # "remove"
        /\ call'[u].dropped = call[u].dropped /\ call'[u].todo = Tail(call[u].todo)
    BY <1>1, <1>15 DEF MovedRemove, Advance, Calling
  <2>2. Path(u) \in call[u].dropped
    BY <1>10, <1>15 DEF MovedRemove, At, Seeking
  <2>3. NothingNew
    BY <1>15 DEF MovedRemove, RmWatch, Forget, NothingNew, mapVars, TypeOK, InotifyTypeOK
  <2> QED
    BY <1>3, <1>10, <2>1, <2>2, <2>3
<1> QED
  BY <1>12, <1>13, <1>14, <1>15

(* Used by one thread: a directory that is away from its path all through  *)
(* a call of stopWatchingMovedPaths is found, and its path dropped, unless *)
(* it was replaced while it was registered or the path is a link.          *)
THEOREM MovedPathsAreFound ==
    ASSUME OneUser
    PROVE  Spec => MovedAreDroppedUnlessReplaced
<1>1. OneUser
  OBVIOUS
<1>2. Init => Dropping /\ Seeking
  BY DEF Init, Dropping, Seeking, NoCall
<1>3. TypeOK /\ Dropping /\ [Next]_vars => Dropping'
  BY <1>1, OthersKeepDropping, UserKeepsDropping DEF Next
<1>4. TypeOK /\ Inductive /\ Dropping /\ Seeking /\ [Next]_vars => Seeking'
  BY <1>1, OthersKeepSeeking, UserKeepsSeeking DEF Next
<1>5. ASSUME Seeking, NEW u \in Users, Return(u), call[u].op = "moved",
             NEW p \in call[u].away, Away(p),
             watchPoints[p].inode = watches[watchPoints[p].wd]
      PROVE  p \in call[u].dropped
  <2>1. call[u].todo = <<>> /\ AwayFrom(p, u)
    BY <1>5 DEF Return, Seeking
  <2>2. p \notin Listed(call[u].todo)
    BY <2>1 DEF Listed
  <2> QED
    BY <1>5, <2>1, <2>2 DEF AwayFrom, Gone, Away
<1>6. Seeking =>
         \A u \in Users : Return(u) /\ call[u].op = "moved" =>
            \A p \in call[u].away :
               /\ Away(p)
               /\ watchPoints[p].inode = watches[watchPoints[p].wd]
               => p \in call[u].dropped
  BY <1>5
<1> QED
  BY <1>2, <1>3, <1>4, <1>6, TypeCorrect, InductiveHolds, PTL
  DEF Spec, MovedAreDroppedUnlessReplaced

-------------------------------------------------------------------------------
(* The life of a watch descriptor.                                         *)

Known == <<watches, nextWd, watchRoots, recent>>

(* The stage of one watch descriptor.                                      *)
Stage(wd) ==
    IF wd >= nextWd THEN "fresh"
    ELSE IF watches[wd] # NoInode THEN "watching"
    ELSE IF watchRoots[wd] # NoPath \/ recent[wd] # NoPath THEN "leaving"
    ELSE "gone"

LEMMA SilentReportsNothing ==
    ASSUME Silent
    PROVE  Descriptors!Quiet
BY DEF Silent, Descriptors!Quiet, ReportedChanges

(* Steps that leave what is known of the watch descriptors.                *)
LEMMA KnownStutters ==
    ASSUME UNCHANGED Known, ReportedChanges' = {}
    PROVE  Descriptors!Next
<1>1. UNCHANGED DescriptorStage
  BY DEF Known, DescriptorStage
<1>2. UNCHANGED watchRoots
  BY DEF Known
<1> QED
  BY <1>1, <1>2 DEF Descriptors!Next, Descriptors!Quiet

(* A step that changes what is known of one watch descriptor.              *)
LEMMA OneMoves ==
    ASSUME TypeOK, NEW wd \in Wds,
           \A v \in Wds \ {wd} : Stage(v)' = Stage(v)
    PROVE  /\ DescriptorStage[wd] = Stage(wd)
           /\ DescriptorStage' = [DescriptorStage EXCEPT ![wd] = Stage(wd)']
           /\ Stage(wd)' = Stage(wd) => UNCHANGED DescriptorStage
<1>1. DescriptorStage = [v \in Wds |-> Stage(v)]
  BY DEF DescriptorStage, Stage
<1>2. DescriptorStage' = [v \in Wds |-> Stage(v)']
  BY DEF DescriptorStage, Stage
<1> DEFINE s(v) == Stage(v)
           t(v) == Stage(v)'
<1>3. DescriptorStage = [v \in Wds |-> s(v)]
  BY <1>1
<1>4. DescriptorStage' = [v \in Wds |-> t(v)]
  BY <1>2
<1>5. \A v \in Wds \ {wd} : t(v) = s(v)
  OBVIOUS
<1> HIDE DEF s, t
<1>6. /\ DescriptorStage[wd] = s(wd)
      /\ DescriptorStage' = [DescriptorStage EXCEPT ![wd] = t(wd)]
      /\ t(wd) = s(wd) => DescriptorStage' = DescriptorStage
  BY <1>3, <1>4, <1>5
<1> QED
  BY <1>6 DEF s, t

(* The kernel removes a watch: its descriptor is known until the           *)
(* IN_IGNORED is handled.                                                  *)
LEMMA ForgettingUnwatches ==
    ASSUME TypeOK, Inductive, NEW wd \in Wds, watches[wd] # NoInode,
           watches' = [watches EXCEPT ![wd] = NoInode], nextWd' = nextWd,
           UNCHANGED <<watchRoots, recent>>, Silent
    PROVE  Descriptors!Next
<1>1. /\ nextWd \in 1 .. MaxWd + 1
      /\ watches \in [Wds -> Inodes \cup {NoInode}]
  BY DEF TypeOK, InotifyTypeOK
<1>2. wd < nextWd /\ watchRoots[wd] # NoPath
  BY <1>1 DEF Inductive, FreshDescriptors, NoLeakedWatch, Wds
<1>3. Stage(wd) = "watching" /\ Stage(wd)' = "leaving"
  BY <1>1, <1>2 DEF Stage, Wds
<1>4. \A v \in Wds \ {wd} : Stage(v)' = Stage(v)
  BY <1>1 DEF Stage
<1>5. Descriptors!Unwatch(wd)
  BY <1>3, <1>4, OneMoves
  DEF Descriptors!Unwatch, Descriptors!KeepsRoot, Descriptors!Goes
<1> QED
  BY <1>5, SilentReportsNothing DEF Descriptors!Next

LEMMA FileSystemRefines ==
    ASSUME TypeOK, Inductive, FileSystem,
           CreateDir \/ RemoveDir \/ MoveDirAway \/ MoveDirIn \/ ChangeContent
    PROVE  Descriptors!Next
<1>1. Silent /\ nextWd' = nextWd /\ UNCHANGED <<watchRoots, recent>>
  BY DEF FileSystem, mapVars, CreateDir, RemoveDir, MoveDirAway, MoveDirIn,
         ChangeContent, Operation
<1>2. CASE UNCHANGED watches
  BY <1>1, <1>2, KnownStutters, SilentReportsNothing
  DEF Known, Descriptors!Quiet
<1>3. CASE ~UNCHANGED watches
  <2>1. RemoveDir
    BY <1>3 DEF CreateDir, MoveDirAway, MoveDirIn, ChangeContent, NotifyMove
  <2>2. PICK i \in Existing, kind \in {"delete_self", "unmount"} :
           \E wd \in Watching(i) : Forget(wd, Push(kq, Msg(kind, wd)))
    BY <1>3, <2>1 DEF RemoveDir
  <2>3. PICK wd \in Wds : watches[wd] = i /\ Forget(wd, Push(kq, Msg(kind, wd)))
    BY <2>2 DEF Watching
  <2>4. i # NoInode
    BY DEF Existing, TypeOK, InotifyTypeOK
  <2>5. watches' = [watches EXCEPT ![wd] = NoInode]
    BY <2>3 DEF Forget
  <2> QED
    BY <1>1, <2>3, <2>4, <2>5, ForgettingUnwatches
<1> QED
  BY <1>2, <1>3

(* The descriptor of an event the run loop handles.                        *)
LEMMA EventDescriptor ==
    ASSUME TypeOK, batch # <<>>, HasWd
    PROVE  /\ Event.wd \in Wds
           /\ Event.kind = "ignored" => Pending(Msg("ignored", Event.wd))
<1>1. Event \in Messages /\ Event # QOverflow /\ batch \in Seq(Messages)
  BY TailContents DEF Event, TypeOK, HasWd, QOverflow, Msg
<1>2. Event.wd \in Wds
  BY <1>1 DEF Messages
<1>3. ASSUME Event.kind = "ignored" PROVE Pending(Msg("ignored", Event.wd))
  <2>1. Event = Msg("ignored", Event.wd)
    BY <1>1, <1>3 DEF Messages, Msg
  <2>2. Event = batch[1] /\ 1 \in DOMAIN batch
    BY <1>1 DEF Event
  <2> QED
    BY <2>1, <2>2 DEF Pending, Has
<1> QED
  BY <1>2, <1>3

(* The last event of a descriptor was handled.                             *)
LEMMA IgnoredForgets ==
    ASSUME TypeOK, Inductive, HandleUnregistered \/ HandleIgnored
    PROVE  Descriptors!Next
<1>1. /\ batch # <<>> /\ HasWd /\ Silent
      /\ UNCHANGED <<watches, nextWd>>
  BY DEF HandleUnregistered, HandleIgnored, HandleNext
<1>2. PICK wd \in Wds :
         /\ wd = Event.wd
         /\ Event.kind = "ignored" => Pending(Msg("ignored", wd))
  BY <1>1, EventDescriptor
<1>3. Descriptors!Quiet
  BY <1>1, SilentReportsNothing
<1>4. /\ nextWd \in Nat /\ watchRoots \in [Wds -> Paths \cup {NoPath}]
      /\ recent \in [Wds -> Paths \cup {NoPath}]
  BY DEF TypeOK, InotifyTypeOK
<1>5. Event.kind = "ignored" => watches[wd] = NoInode
  BY <1>2 DEF Inductive, IgnoredIsDead
<1>6. watchRoots[wd] # NoPath \/ recent[wd] # NoPath => ~(wd >= nextWd)
  BY <1>2 DEF Inductive, FreshDescriptors
<1>7. CASE HandleUnregistered
  <2>1. watchRoots[wd] = NoPath /\ watchRoots' = watchRoots
    BY <1>2, <1>7 DEF HandleUnregistered, EventPath
  <2>2. recent' = IF Event.kind = "ignored"
                  THEN [recent EXCEPT ![wd] = NoPath] ELSE recent
    BY <1>2, <1>7 DEF HandleUnregistered
  <2>3. CASE Event.kind = "ignored" /\ recent[wd] # NoPath
    <3>1. recent' = [recent EXCEPT ![wd] = NoPath]
      BY <2>2, <2>3
    <3>2. Stage(wd) = "leaving" /\ Stage(wd)' = "gone"
      BY <1>1, <1>2, <1>4, <1>5, <1>6, <2>1, <2>3, <3>1 DEF Stage
    <3>3. \A v \in Wds \ {wd} : Stage(v)' = Stage(v)
      BY <1>1, <1>4, <2>1, <3>1 DEF Stage
    <3>4. watchRoots' = [watchRoots EXCEPT ![wd] = NoPath]
      BY <1>4, <2>1
    <3>5. Descriptors!Forget(wd)
      BY <1>2, <3>2, <3>3, <3>4, OneMoves
      DEF Descriptors!Forget, Descriptors!LosesRoot, Descriptors!Goes
    <3> QED
      BY <1>2, <1>3, <3>5 DEF Descriptors!Next
  <2>4. CASE ~(Event.kind = "ignored" /\ recent[wd] # NoPath)
    <3>1. recent' = recent
      BY <1>2, <1>4, <2>2, <2>4
    <3> QED
      BY <1>1, <1>3, <2>1, <3>1, KnownStutters DEF Known, Descriptors!Quiet
  <2> QED
    BY <2>3, <2>4
<1>8. CASE HandleIgnored
  <2>1. /\ watchRoots[wd] # NoPath /\ Event.kind = "ignored"
        /\ watchRoots' = [watchRoots EXCEPT ![wd] = NoPath]
        /\ recent' = recent
    BY <1>2, <1>8 DEF HandleIgnored, EventPath
  <2>2. recent[wd] = NoPath
    BY <1>2, <2>1 DEF Inductive, MapsAgree
  <2>3. Stage(wd) = "leaving" /\ Stage(wd)' = "gone"
    BY <1>1, <1>2, <1>4, <1>5, <1>6, <2>1, <2>2 DEF Stage
  <2>4. \A v \in Wds \ {wd} : Stage(v)' = Stage(v)
    BY <1>1, <1>4, <2>1 DEF Stage
  <2>5. Descriptors!Forget(wd)
    BY <1>2, <2>1, <2>3, <2>4, OneMoves
    DEF Descriptors!Forget, Descriptors!LosesRoot, Descriptors!Goes
  <2> QED
    BY <1>2, <1>3, <2>5 DEF Descriptors!Next
<1> QED
  BY <1>7, <1>8

LEMMA ChangeReports ==
    ASSUME TypeOK, Inductive, HandleChange
    PROVE  Descriptors!Next
<1>1. /\ batch # <<>> /\ HasWd /\ EventPath # NoPath
      /\ UNCHANGED Known
  BY DEF HandleChange, Reportable, HandleNext, mapVars, Known
<1>2. PICK wd \in Wds : wd = Event.wd /\ watchRoots[wd] # NoPath
  BY <1>1, EventDescriptor DEF EventPath
<1>3. ~(wd >= nextWd)
  BY <1>1, <1>2 DEF Inductive, FreshDescriptors
<1>4. DescriptorStage[wd] \in {"watching", "leaving"}
  BY <1>1, <1>2, <1>3 DEF DescriptorStage
<1>5. PICK kind : /\ kind \in {"unknown", "change"}
                  /\ reported' = {Report(kind, EventPath, Event.wd)}
  <2> DEFINE k == IF Event.kind = "move_self" THEN "unknown" ELSE "change"
  <2>1. reported' = {Report(k, EventPath, Event.wd)}
    BY DEF HandleChange
  <2> QED
    BY <2>1
<1>6. ReportedChanges' = {<<watchRoots[wd], wd>>}
  <2>1. reported' = {Report(kind, watchRoots[wd], wd)}
    BY <1>2, <1>5 DEF EventPath
  <2> DEFINE r == Report(kind, watchRoots[wd], wd)
  <2>2. r.kind = kind /\ r.path = watchRoots[wd] /\ r.wd = wd
    BY DEF Report
  <2> HIDE DEF r
  <2>3. {s \in reported' : s.kind \in {"change", "unknown"}} = {r}
    BY <1>5, <2>1, <2>2 DEF r
  <2> QED
    BY <2>2, <2>3 DEF ReportedChanges
<1>7. UNCHANGED <<DescriptorStage, watchRoots>>
  <2>1. UNCHANGED DescriptorStage
    BY <1>1 DEF Known, DescriptorStage
  <2> QED
    BY <1>1, <2>1 DEF Known
<1>8. Descriptors!Report(wd)
  BY <1>2, <1>4, <1>6, <1>7 DEF Descriptors!Report
<1> QED
  BY <1>2, <1>8 DEF Descriptors!Next

LEMMA RunLoopRefines ==
    ASSUME TypeOK, Inductive, RunLoopStep \/ PollFails
    PROVE  Descriptors!Next
<1>1. CASE \/ PollShutdown \/ PollFails \/ PollEvents \/ ReadEvents \/ ReadDone
           \/ LockEvents \/ UnlockEvents \/ HandleUnmount \/ HandleNotListening
  <2>1. Silent /\ UNCHANGED Known
    BY <1>1 DEF PollShutdown, PollFails, PollEvents, ReadEvents, ReadDone,
                LockEvents, UnlockEvents, HandleUnmount, HandleNotListening,
                HandleNext, kernelVars, mapVars, Known
  <2> QED
    BY <2>1, SilentReportsNothing, KnownStutters DEF Descriptors!Quiet
<1>2. CASE HandleQueueOverflow \/ HandleBadName
  <2>1. UNCHANGED Known
    BY <1>2 DEF HandleQueueOverflow, HandleBadName, Reportable, HandleNext,
                mapVars, Known
  <2>2. ReportedChanges' = {}
    BY <1>2 DEF HandleQueueOverflow, HandleBadName, Report, ReportedChanges
  <2> QED
    BY <2>1, <2>2, KnownStutters
<1> QED
  BY <1>1, <1>2, IgnoredForgets, ChangeReports DEF RunLoopStep, HandleEvent

LEMMA RegisterAddRefines ==
    ASSUME TypeOK, Inductive, NEW u \in Users, RegisterAdd(u)
    PROVE  Descriptors!Next
<1> DEFINE path == Path(u)
<1>1. PICK wd \in Wds :
      /\ At(u, "start", "add") /\ Target(path) # NoInode
      /\ wd = nextWd /\ nextWd' = wd + 1
      /\ watches' = [watches EXCEPT ![wd] = Target(path)]
      /\ watchRoots' = [watchRoots EXCEPT ![wd] = path]
      /\ recent' = recent /\ Silent
  BY DEF RegisterAdd, AddWatch, UserOnly
<1>2. /\ nextWd \in 1 .. MaxWd + 1
      /\ watches \in [Wds -> Inodes \cup {NoInode}]
      /\ watchRoots \in [Wds -> Paths \cup {NoPath}]
      /\ path \in Paths
  <2>1. call[u].todo # <<>> /\ call[u].todo \in Seq(Paths)
    BY <1>1 DEF TypeOK, Busy, At, Calling
  <2>2. path \in Paths
    BY <2>1 DEF Path
  <2> QED
    BY <2>2 DEF TypeOK, InotifyTypeOK
<1>3. Stage(wd) = "fresh" /\ Stage(wd)' = "watching"
  BY <1>1, <1>2 DEF Stage, Wds
<1>4. \A v \in Wds \ {wd} : Stage(v)' = Stage(v)
  BY <1>1, <1>2 DEF Stage, Wds
<1>5. \A other \in Wds : watchRoots[other] # path
  BY <1>1, <1>2 DEF Inductive, AddingIsNew, MapsAgree
<1>6. Descriptors!Watch(wd, path)
  BY <1>1, <1>3, <1>4, <1>5, OneMoves DEF Descriptors!Watch, Descriptors!Goes
<1> QED
  BY <1>1, <1>2, <1>6, SilentReportsNothing DEF Descriptors!Next

LEMMA UnregisterRefines ==
    ASSUME TypeOK, Inductive, NEW u \in Users, Unregister(u)
    PROVE  Descriptors!Next
<1>1. PICK path \in Paths : path = Path(u)
  <2>1. call[u].todo # <<>> /\ call[u].todo \in Seq(Paths)
    BY DEF Unregister, TypeOK, Calling
  <2> QED
    BY <2>1 DEF Path
<1>2. PICK wd \in Wds : /\ wd = watchPoints[path].wd
                       /\ watchRoots[wd] = path /\ recent[wd] = NoPath
  <2>1. Registered(path)
    BY <1>1 DEF Unregister, Registered, Absent
  <2> QED
    BY <2>1 DEF Inductive, MapsAgree
<1>3. /\ RmWatch(wd) /\ nextWd' = nextWd /\ Silent
      /\ recent' = [recent EXCEPT ![wd] = IF @ = NoPath THEN path ELSE @]
      /\ watchRoots' = [watchRoots EXCEPT ![wd] = NoPath]
  BY <1>1, <1>2 DEF Unregister, UserOnly
<1>4. /\ nextWd \in Nat
      /\ watches \in [Wds -> Inodes \cup {NoInode}]
      /\ watchRoots \in [Wds -> Paths \cup {NoPath}]
      /\ recent \in [Wds -> Paths \cup {NoPath}]
      /\ path # NoPath
  BY DEF TypeOK, InotifyTypeOK
<1>5. ~(wd >= nextWd)
  BY <1>2, <1>4 DEF Inductive, FreshDescriptors
<1>6. watches' = [watches EXCEPT ![wd] = NoInode]
  BY <1>3, <1>4 DEF RmWatch, RmWatchSucceeds, Forget
<1>7. recent' = [recent EXCEPT ![wd] = path]
  BY <1>2, <1>3
<1>8. Stage(wd)' = "leaving"
  BY <1>3, <1>4, <1>5, <1>6, <1>7 DEF Stage
<1>9. Stage(wd) \in {"watching", "leaving"}
  BY <1>2, <1>4, <1>5 DEF Stage
<1>10. \A v \in Wds \ {wd} : Stage(v)' = Stage(v)
  BY <1>3, <1>4, <1>6, <1>7 DEF Stage
<1>11. Descriptors!Unwatch(wd) \/ Descriptors!Disown(wd)
  <2>1. DescriptorStage[wd] = Stage(wd)
    BY DEF DescriptorStage, Stage
  <2> QED
    BY <1>3, <1>8, <1>9, <1>10, <2>1, OneMoves
    DEF Descriptors!Unwatch, Descriptors!Disown, Descriptors!LosesRoot,
        Descriptors!Goes
<1> QED
  BY <1>3, <1>11, SilentReportsNothing DEF Descriptors!Next

LEMMA UserRefines ==
    ASSUME TypeOK, Inductive, NEW u \in Users,
           \/ StartWatching(u) \/ StopWatching(u)
           \/ StopWatchingMovedPaths(u) \/ Shutdown(u) \/ UserStep(u)
    PROVE  Descriptors!Next
<1>1. Silent
  BY DEF StartWatching, StopWatching, StopWatchingMovedPaths, Begin, Shutdown,
         UserStep, UserOnly, Lock, Return, RegisterStat, RegisterAdd,
         RegisterAgain, RegisterFails, Unregister, UnregisterNothing,
         MovedFind, MovedFindRaces, MovedKeep, MovedDrop, MovedRemove
<1>2. ASSUME UNCHANGED Known PROVE Descriptors!Next
  BY <1>1, <1>2, SilentReportsNothing, KnownStutters DEF Descriptors!Quiet
<1>3. CASE \/ StartWatching(u) \/ StopWatching(u) \/ StopWatchingMovedPaths(u)
           \/ Shutdown(u) \/ Lock(u) \/ Return(u) \/ RegisterStat(u)
           \/ RegisterFails(u) \/ UnregisterNothing(u) \/ MovedFind(u)
           \/ MovedFindRaces(u) \/ MovedKeep(u) \/ MovedDrop(u)
  <2>1. UNCHANGED Known
    BY <1>3 DEF StartWatching, StopWatching, StopWatchingMovedPaths, Begin,
                Shutdown, Lock, Return, RegisterStat, RegisterFails,
                UnregisterNothing, MovedFind, MovedFindRaces, MovedKeep, MovedDrop,
                kernelVars, mapVars, Known
  <2> QED
    BY <1>2, <2>1
<1>4. CASE RegisterAgain(u)
  <2>1. PICK wd \in Wds : /\ watches[wd] = Target(Path(u))
                          /\ Target(Path(u)) # NoInode
                          /\ watchRoots[wd] # NoPath => UNCHANGED watchRoots
    BY <1>4 DEF RegisterAgain, Watching
  <2>2. watchRoots[wd] # NoPath
    BY <2>1 DEF Inductive, NoLeakedWatch
  <2>3. UNCHANGED <<kernelVars, recent>>
    BY <1>4 DEF RegisterAgain
  <2> QED
    BY <1>2, <2>1, <2>2, <2>3 DEF kernelVars, Known
<1>5. CASE MovedRemove(u)
  <2>1. RmWatch(call[u].wd) /\ UNCHANGED <<nextWd, watchRoots, recent>>
        /\ call[u].wd \in Wds
    BY <1>5 DEF MovedRemove, mapVars, At, TypeOK, Busy
  <2>2. CASE RmWatchSucceeds(call[u].wd)
    BY <1>1, <2>1, <2>2, ForgettingUnwatches
    DEF RmWatch, RmWatchSucceeds, Forget
  <2>3. CASE ~RmWatchSucceeds(call[u].wd)
    BY <1>2, <2>1, <2>3 DEF RmWatch, Known
  <2> QED
    BY <2>2, <2>3
<1> QED
  BY <1>3, <1>4, <1>5, RegisterAddRefines, UnregisterRefines DEF UserStep

(* The two maps and the kernel give a watch descriptor one life: whatever  *)
(* the run loop, the users' calls and the file system do to it is one of   *)
(* its steps, it never comes back, no path has two, and every change is    *)
(* reported under the path it is the root of.                              *)
THEOREM DescriptorsLiveOnce == Spec => DescriptorsSpec
<1>1. Init => Descriptors!Init
  <2> SUFFICES ASSUME Init PROVE Descriptors!Init
    OBVIOUS
  <2>1. DescriptorStage = [wd \in Wds |-> "fresh"]
    BY DEF Init, InotifyInit, DescriptorStage, Wds
  <2> QED
    BY <2>1 DEF Init, ReportedChanges, Descriptors!Init
<1>2. TypeOK /\ Inductive /\ [Next]_vars
         => [Descriptors!Next]_(Descriptors!vars)
  <2> SUFFICES ASSUME TypeOK, Inductive, [Next]_vars
               PROVE  [Descriptors!Next]_(Descriptors!vars)
    OBVIOUS
  <2>1. CASE UNCHANGED vars
    <3>1. UNCHANGED <<Known, reported>>
      BY <2>1 DEF vars, kernelVars, mapVars, Known
    <3> QED
      BY <3>1 DEF Known, DescriptorStage, ReportedChanges, Descriptors!vars
  <2> QED
    BY <2>1, FileSystemRefines, RunLoopRefines, UserRefines DEF Next
<1> QED
  BY <1>1, <1>2, TypeCorrect, InductiveHolds, PTL
  DEF Spec, DescriptorsSpec, Descriptors!Spec
===============================================================================
