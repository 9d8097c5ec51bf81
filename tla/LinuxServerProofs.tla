-------------------------- MODULE LinuxServerProofs --------------------------
(***************************************************************************)
(* Theorems about LinuxServer, for every set of paths, links, inodes and   *)
(* users, every queue limit and buffer size, and every interleaving.       *)
(***************************************************************************)
EXTENDS LinuxServer, Integers, TLAPS

USE NamesAssumption, BoundsAssumption, PathsAssumption, ThreadsAssumption,
    SizesAssumption

-------------------------------------------------------------------------------
(* The kernel's queue.                                                     *)

(* Pushing an event keeps the queue well typed.                            *)
LEMMA PushType ==
    ASSUME NEW q \in Seq(Messages), NEW msg \in Messages
    PROVE  Push(q, msg) \in Seq(Messages)
<1>1. QOverflow \in Messages
  BY DEF Messages
<1> QED
  BY <1>1 DEF Push

(* A push adds the event, or IN_Q_OVERFLOW, and loses nothing queued.      *)
LEMMA PushContents ==
    ASSUME NEW q \in Seq(Messages), NEW msg \in Messages, NEW m
    PROVE  /\ Has(q, m) => Has(Push(q, msg), m)
           /\ Has(Push(q, msg), m) => Has(q, m) \/ m = msg \/ m = QOverflow
           /\ ~Full(q) => Has(Push(q, msg), msg)
<1>1. ASSUME NEW e \in Messages
      PROVE  /\ Has(q, m) => Has(Append(q, e), m)
             /\ Has(Append(q, e), m) => Has(q, m) \/ m = e
             /\ Has(Append(q, e), e)
  <2>1. /\ DOMAIN Append(q, e) = 1 .. Len(q) + 1
        /\ DOMAIN q = 1 .. Len(q)
        /\ \A i \in 1 .. Len(q) : Append(q, e)[i] = q[i]
        /\ Append(q, e)[Len(q) + 1] = e
        /\ Len(q) \in Nat
    OBVIOUS
  <2> QED
    BY <2>1 DEF Has
<1>2. QOverflow \in Messages
  BY DEF Messages
<1> QED
  BY <1>1, <1>2 DEF Push

(* Every event of a non-empty sequence is its head or in its tail.         *)
LEMMA TailContents ==
    ASSUME NEW q \in Seq(Messages), q # <<>>, NEW m
    PROVE  /\ Tail(q) \in Seq(Messages)
           /\ Head(q) \in Messages
           /\ Has(q, m) <=> m = Head(q) \/ Has(Tail(q), m)
<1>1. /\ Tail(q) \in Seq(Messages)
      /\ Len(q) \in Nat \ {0}
      /\ Head(q) = q[1]
      /\ q[1] \in Messages
      /\ DOMAIN q = 1 .. Len(q)
      /\ DOMAIN Tail(q) = 1 .. Len(q) - 1
      /\ \A i \in 1 .. Len(q) - 1 : Tail(q)[i] = q[i + 1]
  OBVIOUS
<1>2. ASSUME Has(q, m) PROVE m = Head(q) \/ Has(Tail(q), m)
  <2>1. PICK i \in 1 .. Len(q) : q[i] = m
    BY <1>1, <1>2 DEF Has
  <2>2. i = 1 \/ (i - 1 \in 1 .. Len(q) - 1 /\ Tail(q)[i - 1] = m)
    BY <1>1, <2>1
  <2> QED
    BY <1>1, <2>1, <2>2 DEF Has
<1>3. ASSUME m = Head(q) \/ Has(Tail(q), m) PROVE Has(q, m)
  <2>1. CASE m = Head(q)
    BY <1>1, <2>1 DEF Has
  <2>2. CASE Has(Tail(q), m)
    <3>1. PICK i \in 1 .. Len(q) - 1 : Tail(q)[i] = m
      BY <1>1, <2>2 DEF Has
    <3>2. i + 1 \in DOMAIN q /\ q[i + 1] = m
      BY <1>1, <3>1
    <3> QED
      BY <3>2 DEF Has
  <2> QED
    BY <1>3, <2>1, <2>2
<1> QED
  BY <1>1, <1>2, <1>3

(* A read splits the queue: what it takes and what it leaves is all of it. *)
LEMMA ReadSplits ==
    ASSUME NEW q \in Seq(Messages), NEW k \in 0 .. Len(q), NEW m
    PROVE  /\ SubSeq(q, 1, k) \in Seq(Messages)
           /\ SubSeq(q, k + 1, Len(q)) \in Seq(Messages)
           /\ Has(q, m) <=> \/ Has(SubSeq(q, 1, k), m)
                            \/ Has(SubSeq(q, k + 1, Len(q)), m)
<1> DEFINE first == SubSeq(q, 1, k)
           rest == SubSeq(q, k + 1, Len(q))
<1>1. Len(q) \in Nat /\ DOMAIN q = 1 .. Len(q)
  OBVIOUS
<1>2. /\ first \in Seq(Messages)
      /\ DOMAIN first = 1 .. k
      /\ \A i \in 1 .. k : first[i] = q[i]
  BY <1>1
<1>3. /\ rest \in Seq(Messages)
      /\ DOMAIN rest = 1 .. Len(q) - k
      /\ \A i \in 1 .. Len(q) - k : rest[i] = q[k + i]
  BY <1>1
<1> HIDE DEF first, rest
<1>4. ASSUME Has(q, m) PROVE Has(first, m) \/ Has(rest, m)
  <2>1. PICK i \in 1 .. Len(q) : q[i] = m
    BY <1>1, <1>4 DEF Has
  <2>2. CASE i <= k
    BY <1>2, <2>1, <2>2 DEF Has
  <2>3. CASE i > k
    <3>1. i - k \in 1 .. Len(q) - k /\ rest[i - k] = q[i]
      BY <1>1, <1>3, <2>1, <2>3
    <3> QED
      BY <1>3, <2>1, <3>1 DEF Has
  <2> QED
    BY <2>2, <2>3
<1>5. Has(first, m) => Has(q, m)
  BY <1>1, <1>2 DEF Has
<1>6. ASSUME Has(rest, m) PROVE Has(q, m)
  <2>1. PICK i \in 1 .. Len(q) - k : rest[i] = m
    BY <1>3, <1>6 DEF Has
  <2>2. k + i \in DOMAIN q /\ q[k + i] = m
    BY <1>1, <1>3, <2>1
  <2> QED
    BY <2>2 DEF Has
<1> QED
  BY <1>2, <1>3, <1>4, <1>5, <1>6 DEF first, rest

-------------------------------------------------------------------------------
(* Types.                                                                  *)

(* The initial state is well typed.                                        *)
LEMMA InitTypes == Init => TypeOK
<1> SUFFICES ASSUME Init PROVE TypeOK
  OBVIOUS
<1>1. InotifyTypeOK
  BY DEF Init, InotifyInit, InotifyTypeOK
<1>2. Absent \in WatchPoint
  BY DEF WatchPoint
<1>3. NoCall \in Calling
  <2>1. <<>> \in Seq(Paths) /\ {} \in SUBSET Paths
    OBVIOUS
  <2> QED
    BY <2>1 DEF NoCall, Calling, NoWd, Files
<1>4. batch \in Seq(Messages)
  BY DEF Init
<1>5. /\ watchPoints \in [Paths -> WatchPoint]
      /\ call \in [Users -> Calling]
  BY <1>2, <1>3 DEF Init
<1>6. /\ watchRoots \in [Wds -> Paths \cup {NoPath}]
      /\ recent \in [Wds -> Paths \cup {NoPath}]
  BY DEF Init
<1>7. /\ available \in 0 .. Modulus - 1
      /\ calls \in 0 .. Calls
      /\ mutex \in Users \cup {RunLoop, Free}
  BY DEF Init
<1>8. \A u \in Users : Busy(u)
  BY DEF Init, Busy, NoCall
<1> QED
  BY <1>1, <1>4, <1>5, <1>6, <1>7, <1>8 DEF Init, TypeOK

(* The kernel's operations keep to the types.                              *)
LEMMA ForgetTypes ==
    ASSUME InotifyTypeOK, NEW wd \in Wds, NEW q \in Seq(Messages), Forget(wd, q)
    PROVE  /\ watches' \in [Wds -> Inodes \cup {NoInode}]
           /\ kq' \in Seq(Messages)
           /\ lost' \subseteq Wds
<1>1. Msg("ignored", wd) \in Messages
  BY DEF Msg, Messages, WatchKinds
<1> QED
  BY <1>1, PushType DEF Forget, InotifyTypeOK

(* The file system keeps to the environment's types.                       *)
LEMMA FileSystemTypes ==
    ASSUME InotifyTypeOK,
           CreateDir \/ RemoveDir \/ MoveDirAway \/ MoveDirIn \/ ChangeContent
    PROVE  InotifyTypeOK'
<1> USE DEF InotifyTypeOK
<1>1. ASSUME NEW wd \in Wds, NEW kind \in WatchKinds
      PROVE  Push(kq, Msg(kind, wd)) \in Seq(Messages)
  <2>1. Msg(kind, wd) \in Messages
    BY DEF Msg, Messages
  <2> QED
    BY <2>1, PushType
<1>2. ASSUME NEW i, NotifyMove(i)
      PROVE  kq' \in Seq(Messages) /\ UNCHANGED <<watches, lost>>
  BY <1>1, <1>2 DEF NotifyMove, WatchKinds, Watching
<1>3. ASSUME Operation
      PROVE  changes' \in 0 .. Changes /\ nextWd' = nextWd
  BY <1>3 DEF Operation
<1>4. CASE CreateDir
  BY <1>3, <1>4 DEF CreateDir
<1>5. CASE RemoveDir
  <2>1. PICK i \in Existing, kind \in {"delete_self", "unmount"} :
           /\ dirAt' = [d \in Dirs |-> IF dirAt[d] = i THEN NoInode ELSE dirAt[d]]
           /\ elsewhere' = elsewhere \ {i}
           /\ IF Watching(i) = {}
              THEN UNCHANGED <<watches, kq, lost>>
              ELSE \E wd \in Watching(i) : Forget(wd, Push(kq, Msg(kind, wd)))
    BY <1>5 DEF RemoveDir
  <2>2. /\ watches' \in [Wds -> Inodes \cup {NoInode}]
        /\ kq' \in Seq(Messages)
        /\ lost' \subseteq Wds
    <3>1. CASE Watching(i) = {}
      BY <2>1, <3>1
    <3>2. CASE Watching(i) # {}
      <4>1. PICK wd \in Wds : Forget(wd, Push(kq, Msg(kind, wd)))
        BY <2>1, <3>2 DEF Watching
      <4>2. Push(kq, Msg(kind, wd)) \in Seq(Messages)
        BY <1>1 DEF WatchKinds
      <4> QED
        BY <4>1, <4>2, ForgetTypes
    <3> QED
      BY <3>1, <3>2
  <2> QED
    BY <1>3, <1>5, <2>1, <2>2 DEF RemoveDir
<1>6. CASE MoveDirAway
  BY <1>2, <1>3, <1>6 DEF MoveDirAway
<1>7. CASE MoveDirIn
  BY <1>2, <1>3, <1>7 DEF MoveDirIn
<1>8. CASE ChangeContent
  BY <1>1, <1>8 DEF ChangeContent, WatchKinds
<1> QED
  BY <1>4, <1>5, <1>6, <1>7, <1>8

(* A read takes no more events than there are.                             *)
LEMMA ReadTypes ==
    ASSUME TypeOK, ReadEvents
    PROVE  \E k \in 0 .. Len(kq) :
              /\ k > 0
              /\ batch' = SubSeq(kq, 1, k)
              /\ kq' = SubSeq(kq, k + 1, Len(kq))
              /\ available' \in 0 .. Modulus - 1
<1> DEFINE k == IF Len(kq) < BufferSize THEN Len(kq) ELSE BufferSize
<1>1. Len(kq) \in Nat \ {0} /\ BufferSize \in Nat \ {0}
  BY DEF TypeOK, InotifyTypeOK, ReadEvents
<1>2. k \in 0 .. Len(kq) /\ k > 0
  BY <1>1
<1>3. /\ batch' = SubSeq(kq, 1, k)
      /\ kq' = SubSeq(kq, k + 1, Len(kq))
      /\ available' = (available + Modulus - (k % Modulus)) % Modulus
  BY DEF ReadEvents, Remaining
<1>4. available' \in 0 .. Modulus - 1
  <2>1. \A x \in Int : x % Modulus \in 0 .. Modulus - 1
    OBVIOUS
  <2>2. k % Modulus \in Int /\ available \in Int
    BY <1>2, <2>1 DEF TypeOK
  <2> HIDE DEF k
  <2>3. available + Modulus - (k % Modulus) \in Int
    BY <2>2
  <2> QED
    BY <1>3, <2>1, <2>3
<1> HIDE DEF k
<1> QED
  BY <1>2, <1>3, <1>4

(* The run loop keeps to the types.                                        *)
LEMMA RunLoopTypes ==
    ASSUME TypeOK, RunLoopStep \/ PollFails
    PROVE  TypeOK'
<1> USE DEF TypeOK
<1>1. fsVars' = fsVars /\ userVars' = userVars
  BY DEF RunLoopStep, PollFails, PollShutdown, PollEvents, ReadEvents, ReadDone,
         LockEvents, UnlockEvents, LoopOnly, HandleEvent, HandleUnmount,
         HandleQueueOverflow, HandleUnregistered, HandleIgnored,
         HandleNotListening, HandleBadName, HandleChange, Reportable, HandleNext
<1>2. /\ shutdown' \in BOOLEAN
      /\ call' \in [Users -> Calling]
      /\ \A u \in Users : Busy(u)'
      /\ calls' \in 0 .. Calls
  BY <1>1 DEF userVars, Busy
<1>3. CASE PollShutdown \/ PollFails \/ ReadDone
  BY <1>1, <1>2, <1>3
  DEF PollShutdown, PollFails, ReadDone, Silent, kernelVars, mapVars, fsVars,
      InotifyTypeOK
<1>4. CASE PollEvents
  <2>1. Len(kq) % Modulus \in 0 .. Modulus - 1
    BY DEF InotifyTypeOK
  <2> QED
    BY <1>1, <1>2, <1>4, <2>1
    DEF PollEvents, Silent, kernelVars, mapVars, fsVars, InotifyTypeOK
<1>5. CASE ReadEvents
  <2>1. PICK k \in 0 .. Len(kq) :
           /\ k > 0
           /\ batch' = SubSeq(kq, 1, k)
           /\ kq' = SubSeq(kq, k + 1, Len(kq))
           /\ available' \in 0 .. Modulus - 1
    BY <1>5, ReadTypes
  <2>2. batch' \in Seq(Messages) /\ kq' \in Seq(Messages)
    BY <2>1, ReadSplits DEF InotifyTypeOK
  <2>3. InotifyTypeOK'
    BY <1>1, <1>5, <2>2 DEF ReadEvents, fsVars, InotifyTypeOK
  <2> QED
    BY <1>2, <1>5, <2>1, <2>2, <2>3 DEF ReadEvents, Silent, mapVars
<1>6. CASE LockEvents \/ UnlockEvents
  BY <1>1, <1>2, <1>6
  DEF LockEvents, UnlockEvents, Silent, kernelVars, mapVars, fsVars,
      InotifyTypeOK
<1>7. CASE HandleEvent
  <2>1. /\ batch \in Seq(Messages) /\ batch # <<>>
        /\ UNCHANGED <<watches, nextWd, kq>>
    BY <1>7 DEF HandleEvent, HandleUnmount, HandleQueueOverflow,
                HandleUnregistered, HandleIgnored, HandleNotListening,
                HandleBadName, HandleChange, Reportable, HandleNext
  <2>2. Tail(batch) \in Seq(Messages) /\ Event \in Messages
    BY <2>1, TailContents DEF Event
  <2>3. Absent \in WatchPoint
    BY DEF WatchPoint
  <2>4. HasWd => Event.wd \in Wds
    BY <2>2 DEF HasWd, Messages, QOverflow, Msg
  <2>5. ASSUME Handled
        PROVE  /\ InotifyTypeOK'
               /\ batch' \in Seq(Messages)
               /\ UNCHANGED <<mutex, loop, available>>
    BY <1>1, <2>1, <2>2, <2>5 DEF Handled, fsVars, InotifyTypeOK
  <2>6. CASE HandleUnmount \/ HandleNotListening
    BY <1>2, <2>5, <2>6 DEF HandleUnmount, HandleNotListening, Silent, mapVars
  <2>7. CASE HandleQueueOverflow
    <3>1. reported' \subseteq
            [kind : {"change", "unknown", "overflow", "failure"},
             path : Paths \cup {NoPath}, wd : Wds \cup {NoWd}]
      BY <2>7 DEF HandleQueueOverflow, Report
    <3> QED
      BY <1>2, <2>5, <2>7, <3>1 DEF HandleQueueOverflow, mapVars
  <2>8. CASE HandleUnregistered
    BY <1>2, <2>4, <2>5, <2>8 DEF HandleUnregistered, Silent
  <2>9. CASE HandleIgnored
    <3>1. EventPath \in Paths
      BY <2>4, <2>9 DEF HandleIgnored, EventPath
    <3> QED
      BY <1>2, <2>3, <2>4, <2>5, <2>9, <3>1 DEF HandleIgnored, Silent
  <2>10. CASE HandleBadName
    <3>1. lost' \subseteq Wds
      <4>1. ASSUME NEW j \in DOMAIN batch, batch[j].kind = "ignored"
            PROVE  batch[j].wd \in Wds
        <5>1. batch[j] \in Messages
          BY <2>1
        <5> QED
          BY <4>1, <5>1 DEF Messages, QOverflow, Msg
      <4> QED
        BY <2>10, <4>1 DEF HandleBadName, InotifyTypeOK
    <3>2. InotifyTypeOK'
      BY <1>1, <2>1, <3>1 DEF fsVars, InotifyTypeOK
    <3> QED
      BY <1>2, <2>10, <3>2 DEF HandleBadName, mapVars, Report
  <2>11. CASE HandleChange
    <3>1. EventPath \in Paths /\ Event.wd \in Wds
      BY <2>4, <2>11 DEF HandleChange, Reportable, EventPath
    <3> QED
      BY <1>2, <2>5, <2>11, <3>1 DEF HandleChange, mapVars, Report
  <2> QED
    BY <1>7, <2>6, <2>7, <2>8, <2>9, <2>10, <2>11 DEF HandleEvent
<1> QED
  BY <1>3, <1>4, <1>5, <1>6, <1>7 DEF RunLoopStep

(* What a user's call does to its own record keeps it well formed.         *)
LEMMA CallTypes ==
    ASSUME TypeOK, NEW u \in Users,
           \/ \E op \in {"start", "stop"}, todo \in Requests :
                 Begin(u, op, "lock", todo)
           \/ \E todo \in Requests : Begin(u, "moved", "next", todo)
           \/ Shutdown(u)
           \/ UserStep(u)
    PROVE  call' \in [Users -> Calling] /\ \A v \in Users : Busy(v)'
<1> USE DEF TypeOK
<1>1. /\ call \in [Users -> Calling]
      /\ call[u] \in Calling
      /\ \A v \in Users : Busy(v)
      /\ call[u].todo \in Seq(Paths)
  BY DEF Calling
<1>2. call[u].todo # <<>> =>
         Path(u) \in Paths /\ Tail(call[u].todo) \in Seq(Paths)
  BY <1>1 DEF Path
<1> DEFINE Alone(c) == /\ c \in Calling
                       /\ c.stage \in {"add", "found", "remove"} => c.todo # <<>>
                       /\ c.stage = "lock" => c.op \in {"start", "stop"}
                       /\ c.stage = "add" => c.op = "start"
                       /\ c.stage \in {"found", "remove"} =>
                             c.op = "moved" /\ c.wd \in Wds
<1>3. ASSUME NEW c, Alone(c), call' = [call EXCEPT ![u] = c]
      PROVE  call' \in [Users -> Calling] /\ \A v \in Users : Busy(v)'
  BY <1>1, <1>3 DEF Busy
<1>4. ASSUME NEW op \in {"start", "stop", "moved"},
             NEW stage \in {"lock", "next"}, NEW todo \in Requests,
             stage = "lock" => op # "moved",
             Begin(u, op, stage, todo)
      PROVE  \E c : Alone(c) /\ call' = [call EXCEPT ![u] = c]
  <2> DEFINE away == IF op # "moved" THEN {} ELSE
                        {p \in {todo[i] : i \in DOMAIN todo} : Away(p)}
             c == [NoCall EXCEPT !.op = op, !.stage = stage, !.todo = todo,
                                 !.away = away]
  <2>1. todo \in Seq(Paths) /\ away \subseteq Paths
    OBVIOUS
  <2>2. call' = [call EXCEPT ![u] = c]
    BY <1>4 DEF Begin
  <2> HIDE DEF away
  <2>3. Alone(c)
    BY <1>4, <2>1 DEF NoCall, Calling, Files
  <2> QED
    BY <2>2, <2>3
<1>5. CASE Leave(u)
  <2>1. Alone(NoCall)
    BY DEF NoCall, Calling, Files
  <2> QED
    BY <1>3, <1>5, <2>1 DEF Leave
<1>6. ASSUME Advance(u), call[u].todo # <<>>
      PROVE  call' \in [Users -> Calling] /\ \A v \in Users : Busy(v)'
  <2> DEFINE c == [call[u] EXCEPT !.stage = "next", !.todo = Tail(@),
                                  !.inode = NoInode, !.wd = NoWd]
  <2>1. Alone(c)
    BY <1>1, <1>2, <1>6 DEF Calling, Files
  <2>2. call' = [call EXCEPT ![u] = c]
    BY <1>1, <1>6 DEF Advance
  <2> QED
    BY <1>3, <2>1, <2>2
<1>7. ASSUME call' = call
      PROVE  call' \in [Users -> Calling] /\ \A v \in Users : Busy(v)'
  BY <1>7 DEF Busy
<1> HIDE DEF Alone, TypeOK
<1>8. CASE Lock(u)
  <2> DEFINE c == [call[u] EXCEPT !.stage = "next"]
  <2>1. Alone(c) /\ call' = [call EXCEPT ![u] = c]
    BY <1>1, <1>8 DEF Lock, Alone, Calling
  <2> QED
    BY <1>3, <2>1
<1>9. CASE RegisterStat(u)
  <2> DEFINE c == [call[u] EXCEPT !.stage = "add", !.inode = Lstat(Path(u))]
  <2>1. CASE call' = [call EXCEPT ![u].stage = "add", ![u].inode = Lstat(Path(u))]
    <3>1. Lstat(Path(u)) \in Files
      BY <1>2, <1>9 DEF RegisterStat, Lstat, Files, TypeOK, InotifyTypeOK, Paths
    <3>2. Alone(c) /\ call' = [call EXCEPT ![u] = c]
      BY <1>1, <1>9, <2>1, <3>1 DEF RegisterStat, At, Alone, Calling
    <3> QED
      BY <1>3, <3>2
  <2> QED
    BY <1>5, <1>9, <2>1 DEF RegisterStat
<1>10. CASE MovedFind(u)
  <2> DEFINE entry == watchPoints[Path(u)]
             found == [call[u] EXCEPT !.stage = "found", !.wd = entry.wd]
             next == [call[u] EXCEPT !.dropped = @ \cup {Path(u)},
                                     !.todo = Tail(@)]
  <2>1. CASE entry.status = "LISTENING"
    <3>1. entry.wd \in Wds
      BY <1>2, <1>10, <2>1 DEF MovedFind, TypeOK, WatchPoint, Absent
    <3>2. Alone(found) /\ call' = [call EXCEPT ![u] = found]
      BY <1>1, <1>10, <2>1, <3>1 DEF MovedFind, At, Alone, Calling
    <3> QED
      BY <1>3, <3>2
  <2>2. CASE entry.status # "LISTENING"
    <3>1. Alone(next) /\ call' = [call EXCEPT ![u] = next]
      BY <1>1, <1>2, <1>10, <2>2 DEF MovedFind, At, Alone, Calling
    <3> QED
      BY <1>3, <3>1
  <2> QED
    BY <2>1, <2>2
<1>11. CASE MovedDrop(u)
  <2> DEFINE next == [call[u] EXCEPT !.stage = "next", !.todo = Tail(@),
                                     !.wd = NoWd, !.dropped = @ \cup {Path(u)}]
             drop == [call[u] EXCEPT !.stage = "remove",
                                     !.dropped = @ \cup {Path(u)}]
  <2>1. call[u].stage = "found" /\ call[u].todo # <<>> /\ call[u].wd \in Wds
        /\ call[u].op = "moved"
    BY <1>1, <1>11 DEF MovedDrop, At, Busy
  <2>2. Alone(next) /\ Alone(drop)
    BY <1>1, <1>2, <2>1 DEF Alone, Calling
  <2>3. call' = [call EXCEPT ![u] = next] \/ call' = [call EXCEPT ![u] = drop]
    BY <1>1, <1>11 DEF MovedDrop
  <2> HIDE DEF next, drop
  <2> QED
    BY <1>3, <2>2, <2>3
<1>12. ASSUME At(u, "start", "add") \/ At(u, "moved", "found") \/ At(u, "moved", "remove")
       PROVE  call[u].todo # <<>>
  BY <1>1, <1>12 DEF At, Busy
<1>13. CASE \/ Return(u) \/ RegisterAdd(u) \/ RegisterAgain(u)
            \/ RegisterFails(u) \/ Unregister(u) \/ UnregisterNothing(u)
            \/ MovedKeep(u) \/ MovedRemove(u)
  <2>1. Leave(u) \/ (Advance(u) /\ call[u].todo # <<>>)
    BY <1>12, <1>13
    DEF Return, RegisterAdd, RegisterAgain, RegisterFails, Unregister,
        UnregisterNothing, MovedKeep, MovedRemove
  <2> QED
    BY <1>5, <1>6, <2>1
<1>14. CASE Shutdown(u)
  BY <1>7, <1>14 DEF Shutdown
<1>15. CASE MovedFindRaces(u)
  <2> DEFINE c == [NoCall EXCEPT !.stage = "undefined"]
  <2>1. NoCall \in Calling
    BY DEF NoCall, Calling, Files
  <2>2. Alone(c)
    BY <2>1 DEF Alone, Calling
  <2>3. call' = [call EXCEPT ![u] = c]
    BY <1>15 DEF MovedFindRaces
  <2> HIDE DEF c
  <2> QED
    BY <1>3, <2>2, <2>3
<1> QED
  BY <1>3, <1>4, <1>8, <1>9, <1>10, <1>11, <1>13, <1>14, <1>15 DEF UserStep

(* The calls of the users keep to the types.                               *)
LEMMA UserTypes ==
    ASSUME TypeOK, NEW u \in Users,
           \/ \E op \in {"start", "stop"}, todo \in Requests :
                 Begin(u, op, "lock", todo)
           \/ \E todo \in Requests : Begin(u, "moved", "next", todo)
           \/ Shutdown(u)
           \/ UserStep(u)
    PROVE  TypeOK'
<1>1. call' \in [Users -> Calling] /\ \A v \in Users : Busy(v)'
  BY CallTypes
<1>2. fsVars' = fsVars /\ loopVars' = loopVars /\ Silent
  BY DEF Begin, Shutdown, UserStep, UserOnly, Lock, Return, RegisterStat,
         RegisterAdd, RegisterAgain, RegisterFails, Unregister,
         UnregisterNothing, MovedFind, MovedFindRaces, MovedKeep, MovedDrop, MovedRemove
<1>3. /\ call[u] \in Calling
      /\ call[u].stage \in {"add", "found", "remove"} => Path(u) \in Paths
      /\ call[u].stage = "remove" => call[u].wd \in Wds
  BY DEF TypeOK, Busy, Calling, Path
<1>4. call[u].todo # <<>> => Path(u) \in Paths
  BY <1>3 DEF Calling, Path
<1>5. calls' \in 0 .. Calls /\ shutdown' \in BOOLEAN
  <2>1. \/ calls' = calls - 1 /\ calls > 0 /\ shutdown' = shutdown
        \/ calls' = calls /\ shutdown' \in {shutdown, TRUE}
    BY DEF Begin, Shutdown, UserStep, Lock, Return, RegisterStat,
           RegisterAdd, RegisterAgain, RegisterFails, Unregister,
           UnregisterNothing, MovedFind, MovedFindRaces, MovedKeep, MovedDrop, MovedRemove
  <2>2. calls \in 0 .. Calls /\ Calls \in Nat /\ shutdown \in BOOLEAN
    BY DEF TypeOK
  <2>3. shutdown' \in BOOLEAN
    BY <2>1, <2>2, Zenon
  <2>4. calls' \in 0 .. Calls
    <3>1. (calls' = calls - 1 /\ calls > 0) \/ calls' = calls
      BY <2>1
    <3> QED
      BY <2>2, <3>1
  <2> QED
    BY <2>3, <2>4
<1>6. mutex' \in Users \cup {RunLoop, Free}
  BY DEF TypeOK, Begin, Shutdown, UserStep, Lock, Return, RegisterStat,
         RegisterAdd, RegisterAgain, RegisterFails, Unregister,
         UnregisterNothing, MovedFind, MovedFindRaces, MovedKeep, MovedDrop, MovedRemove, Leave
<1>7. ASSUME UNCHANGED kernelVars PROVE InotifyTypeOK'
  BY <1>2, <1>7 DEF TypeOK, fsVars, kernelVars, InotifyTypeOK
<1>8. ASSUME NEW wd \in Wds, RmWatch(wd), nextWd' = nextWd
      PROVE  InotifyTypeOK'
  BY <1>2, <1>8, ForgetTypes DEF TypeOK, fsVars, RmWatch, InotifyTypeOK
<1>9. ASSUME NEW wps, wps = watchPoints'
      PROVE  wps \in [Paths -> WatchPoint]
             => (InotifyTypeOK' /\ UNCHANGED <<watchRoots, recent>> => TypeOK')
  BY <1>1, <1>2, <1>5, <1>6, <1>9 DEF TypeOK, loopVars, Silent
<1>10. CASE \/ \E op, stage, todo : Begin(u, op, stage, todo)
            \/ Shutdown(u) \/ Lock(u) \/ Return(u) \/ RegisterStat(u)
            \/ RegisterFails(u) \/ UnregisterNothing(u) \/ MovedFind(u)
            \/ MovedFindRaces(u) \/ MovedKeep(u)
  <2>1. UNCHANGED <<kernelVars, mapVars>>
    BY <1>10 DEF Begin, Shutdown, Lock, Return, RegisterStat,
           RegisterFails, UnregisterNothing, MovedFind, MovedFindRaces, MovedKeep
  <2> QED
    BY <1>7, <1>9, <2>1 DEF mapVars, TypeOK
<1>11. CASE RegisterAdd(u)
  <2>1. nextWd \in Wds /\ Path(u) \in Paths /\ call[u].inode \in Files
    BY <1>3, <1>11 DEF RegisterAdd, AddWatch, At, Calling
  <2>2. InotifyTypeOK'
    <3>1. Target(Path(u)) \in Inodes
      BY <1>11, <2>1 DEF RegisterAdd, Target, TypeOK, InotifyTypeOK, Paths
    <3> QED
      BY <1>2, <1>11, <2>1, <3>1
      DEF RegisterAdd, AddWatch, TypeOK, fsVars, InotifyTypeOK, Wds
  <2>3. watchPoints' \in [Paths -> WatchPoint]
    BY <1>11, <2>1 DEF RegisterAdd, TypeOK, WatchPoint
  <2>4. /\ watchRoots' \in [Wds -> Paths \cup {NoPath}]
        /\ recent' \in [Wds -> Paths \cup {NoPath}]
    BY <1>11, <2>1 DEF RegisterAdd, TypeOK
  <2> QED
    BY <1>1, <1>2, <1>5, <1>6, <2>2, <2>3, <2>4 DEF TypeOK, loopVars, Silent
<1>12. CASE RegisterAgain(u)
  <2>1. Path(u) \in Paths /\ call[u].inode \in Files
    BY <1>3, <1>12 DEF RegisterAgain, At, Calling
  <2>2. watchPoints' \in [Paths -> WatchPoint]
    BY <1>12, <2>1 DEF RegisterAgain, TypeOK, WatchPoint, Watching
  <2>3. /\ watchRoots' \in [Wds -> Paths \cup {NoPath}]
        /\ recent' \in [Wds -> Paths \cup {NoPath}]
        /\ UNCHANGED kernelVars
    BY <1>12, <2>1 DEF RegisterAgain, TypeOK, Watching
  <2> QED
    BY <1>1, <1>2, <1>5, <1>6, <1>7, <2>2, <2>3 DEF TypeOK, loopVars, Silent
<1>13. CASE Unregister(u)
  <2>1. Path(u) \in Paths /\ watchPoints[Path(u)].wd \in Wds
    BY <1>4, <1>13 DEF Unregister, TypeOK, WatchPoint, Absent
  <2>2. Absent \in WatchPoint
    BY DEF WatchPoint
  <2>3. /\ watchRoots' \in [Wds -> Paths \cup {NoPath}]
        /\ recent' \in [Wds -> Paths \cup {NoPath}]
        /\ watchPoints' \in [Paths -> WatchPoint]
    BY <1>13, <2>1, <2>2 DEF Unregister, TypeOK
  <2>4. InotifyTypeOK'
    BY <1>8, <1>13, <2>1 DEF Unregister
  <2> QED
    BY <1>1, <1>2, <1>5, <1>6, <2>3, <2>4 DEF TypeOK, loopVars, Silent
<1>14. CASE MovedDrop(u)
  <2>1. Path(u) \in Paths
    BY <1>3, <1>14 DEF MovedDrop, At
  <2>2. watchPoints' \in [Paths -> WatchPoint]
    <3>1. CASE UNCHANGED watchPoints
      BY <3>1 DEF TypeOK
    <3>2. CASE /\ watchPoints[Path(u)].wd = call[u].wd
               /\ watchPoints' =
                     [watchPoints EXCEPT ![Path(u)].status = "CANCELLED"]
      <4>1. call[u].wd \in Wds
        BY <1>14 DEF MovedDrop, At, TypeOK, Busy
      <4>2. /\ watchPoints[Path(u)] \in WatchPoint
            /\ watchPoints[Path(u)] # Absent
        BY <2>1, <3>2, <4>1 DEF TypeOK, Absent, NoWd, Wds
      <4>3. [watchPoints[Path(u)] EXCEPT !.status = "CANCELLED"] \in WatchPoint
        <5> DEFINE Point == [status : {"LISTENING", "CANCELLED"}, wd : Wds,
                             inode : Files]
        <5>1. watchPoints[Path(u)] \in Point
          BY <4>2 DEF WatchPoint
        <5>2. [watchPoints[Path(u)] EXCEPT !.status = "CANCELLED"] \in Point
          BY <5>1
        <5> QED
          BY <5>2 DEF WatchPoint
      <4>4. watchPoints' = [watchPoints EXCEPT ![Path(u)] =
                              [watchPoints[Path(u)] EXCEPT !.status = "CANCELLED"]]
        BY <2>1, <3>2 DEF TypeOK
      <4> QED
        BY <2>1, <4>3, <4>4 DEF TypeOK
    <3> QED
      BY <1>14, <3>1, <3>2 DEF MovedDrop, Dangling
  <2>3. UNCHANGED <<kernelVars, watchRoots, recent>>
    BY <1>14 DEF MovedDrop
  <2> QED
    BY <1>7, <1>9, <2>2, <2>3
<1>15. CASE MovedRemove(u)
  <2>1. InotifyTypeOK'
    BY <1>3, <1>8, <1>15 DEF MovedRemove, At
  <2>2. UNCHANGED mapVars
    BY <1>15 DEF MovedRemove
  <2> QED
    BY <1>9, <2>1, <2>2 DEF mapVars, TypeOK
<1> QED
  BY <1>10, <1>11, <1>12, <1>13, <1>14, <1>15 DEF UserStep

(* Whatever the environment does, the variables of the program that it     *)
(* does not touch keep their types.                                        *)
LEMMA EnvironmentTypes ==
    ASSUME TypeOK, FileSystem, InotifyTypeOK'
    PROVE  TypeOK'
<1>1. /\ UNCHANGED <<mapVars, mutex, loopVars, calls, shutdown>>
      /\ Silent
  BY DEF FileSystem
<1>2. \A u \in Users :
         \E away \in SUBSET Paths : call'[u] = [call[u] EXCEPT !.away = away]
  <2>1. ASSUME NEW u \in Users
        PROVE  \E away \in SUBSET Paths :
                  call'[u] = [call[u] EXCEPT !.away = away]
    <3>1. PICK away : /\ away \subseteq call[u].away
                      /\ call'[u] = [call[u] EXCEPT !.away = away]
      BY DEF FileSystem
    <3>2. call[u].away \subseteq Paths
      BY DEF TypeOK, Calling
    <3> QED
      BY <3>1, <3>2
  <2> QED
    BY <2>1
<1>3. call' \in [Users -> Calling] /\ \A u \in Users : Busy(u)'
  <2>1. ASSUME NEW u \in Users PROVE call'[u] \in Calling /\ Busy(u)'
    <3>1. PICK away \in SUBSET Paths : call'[u] = [call[u] EXCEPT !.away = away]
      BY <1>2
    <3>2. call[u] \in Calling /\ Busy(u)
      BY DEF TypeOK
    <3>3. call'[u] \in Calling
      BY <3>1, <3>2 DEF Calling
    <3>4. /\ call'[u].stage = call[u].stage /\ call'[u].todo = call[u].todo
          /\ call'[u].op = call[u].op /\ call'[u].wd = call[u].wd
      BY <3>1, <3>2 DEF Calling
    <3> QED
      BY <3>2, <3>3, <3>4 DEF Busy
  <2>2. call' = [u \in Users |-> call'[u]]
    BY DEF FileSystem
  <2> QED
    BY <2>1, <2>2
<1> QED
  BY <1>1, <1>3 DEF TypeOK, mapVars, loopVars, Silent

(* Every variable of the server keeps its type, in particular the queue    *)
(* holds events of watch descriptors that were given out, the maps hold    *)
(* watch points, and "available" stays an unsigned number.                 *)
THEOREM TypeCorrect == Spec => []TypeOK
<1>1. TypeOK /\ [Next]_vars => TypeOK'
  <2> SUFFICES ASSUME TypeOK, [Next]_vars PROVE TypeOK'
    OBVIOUS
  <2>1. CASE FileSystem /\ (\/ CreateDir \/ RemoveDir \/ MoveDirAway
                            \/ MoveDirIn \/ ChangeContent)
    BY <2>1, FileSystemTypes, EnvironmentTypes DEF TypeOK
  <2>2. CASE RunLoopStep \/ PollFails
    BY <2>2, RunLoopTypes
  <2>3. ASSUME NEW u \in Users,
               \/ StartWatching(u) \/ StopWatching(u)
               \/ StopWatchingMovedPaths(u) \/ Shutdown(u) \/ UserStep(u)
        PROVE  TypeOK'
    BY <2>3, UserTypes DEF StartWatching, StopWatching, StopWatchingMovedPaths
  <2>4. CASE UNCHANGED vars
    BY <2>4 DEF vars, fsVars, kernelVars, mapVars, loopVars, userVars, TypeOK,
                InotifyTypeOK, Busy
  <2> QED
    BY <2>1, <2>2, <2>3, <2>4 DEF Next
<1> QED
  BY <1>1, InitTypes, PTL DEF Spec

-------------------------------------------------------------------------------
(* The mutex.                                                              *)

(* A call holds the mutex when it registers or unregisters.                *)
Holds(c) == c.op \in {"start", "stop"} /\ c.stage \in {"next", "add"}

(* What a user's step does to the mutex and to its call.                   *)
LEMMA UserMutex ==
    ASSUME TypeOK, NEW u \in Users,
           \/ StartWatching(u) \/ StopWatching(u)
           \/ StopWatchingMovedPaths(u) \/ Shutdown(u) \/ UserStep(u)
    PROVE  /\ loop' = loop
           /\ \A v \in Users \ {u} : call'[v] = call[v]
           /\ \/ mutex' = mutex /\ (Holds(call'[u]) <=> Holds(call[u]))
              \/ mutex' = mutex /\ mutex # u /\ ~Holds(call'[u])
              \/ mutex = Free /\ mutex' = u /\ Holds(call'[u])
              \/ mutex = u /\ mutex' = Free /\ ~Holds(call'[u])
<1>1. loop' = loop
  BY DEF StartWatching, StopWatching, StopWatchingMovedPaths, Begin, Shutdown,
         UserStep, UserOnly, Lock, Return, RegisterStat, RegisterAdd,
         RegisterAgain, RegisterFails, Unregister, UnregisterNothing,
         MovedFind, MovedFindRaces, MovedKeep, MovedDrop, MovedRemove, loopVars
<1>2. call \in [Users -> Calling] /\ call[u] \in Calling
  BY DEF TypeOK
<1>3. ASSUME Leave(u)
      PROVE  /\ \A v \in Users \ {u} : call'[v] = call[v]
             /\ ~Holds(call'[u])
             /\ (mutex' = mutex /\ mutex # u) \/ (mutex = u /\ mutex' = Free)
  BY <1>2, <1>3 DEF Leave, Holds, NoCall
<1>4. ASSUME Advance(u), call[u].stage \in {"next", "add"} \/ call[u].op = "moved"
      PROVE  /\ \A v \in Users \ {u} : call'[v] = call[v]
             /\ Holds(call'[u]) <=> Holds(call[u])
  BY <1>2, <1>4 DEF Advance, Holds, Calling
<1>5. CASE Lock(u)
  <2>1. call[u].op \in {"start", "stop"}
    BY <1>5 DEF Lock, TypeOK, Busy
  <2>2. /\ \A v \in Users \ {u} : call'[v] = call[v]
        /\ call'[u] = [call[u] EXCEPT !.stage = "next"]
        /\ mutex = Free /\ mutex' = u
    BY <1>2, <1>5 DEF Lock
  <2> QED
    BY <1>1, <1>2, <2>1, <2>2 DEF Holds, Calling
<1>6. ASSUME NEW op, NEW stage, NEW todo, Begin(u, op, stage, todo),
             stage = "lock" \/ op = "moved"
      PROVE  /\ \A v \in Users \ {u} : call'[v] = call[v]
             /\ ~Holds(call[u]) /\ ~Holds(call'[u]) /\ mutex' = mutex
  BY <1>2, <1>6 DEF Begin, Holds, NoCall, Calling
<1>7. CASE Shutdown(u)
  BY <1>1, <1>7 DEF Shutdown
<1>8. CASE \/ Return(u) \/ RegisterFails(u)
  BY <1>1, <1>3, <1>8 DEF Return, RegisterFails
<1>9. CASE RegisterStat(u)
  <2>1. CASE Leave(u)
    BY <1>1, <1>3, <2>1
  <2>2. CASE /\ call' = [call EXCEPT ![u].stage = "add",
                                     ![u].inode = Lstat(Path(u))]
             /\ mutex' = mutex
    BY <1>1, <1>2, <1>9, <2>2 DEF RegisterStat, At, Holds, Calling
  <2> QED
    BY <1>9, <2>1, <2>2 DEF RegisterStat
<1>10. CASE \/ RegisterAdd(u) \/ Unregister(u) \/ UnregisterNothing(u)
            \/ MovedKeep(u) \/ MovedRemove(u)
  <2>1. Advance(u) /\ mutex' = mutex
    BY <1>10 DEF RegisterAdd, Unregister, UnregisterNothing, MovedKeep,
                 MovedRemove
  <2>2. call[u].stage \in {"next", "add"} \/ call[u].op = "moved"
    BY <1>10 DEF RegisterAdd, Unregister, UnregisterNothing, MovedKeep,
                 MovedRemove, At
  <2> QED
    BY <1>1, <1>4, <2>1, <2>2
<1>11. CASE RegisterAgain(u)
  <2>1. Leave(u) \/ (Advance(u) /\ mutex' = mutex)
    BY <1>11 DEF RegisterAgain
  <2>2. call[u].stage = "add"
    BY <1>11 DEF RegisterAgain, At
  <2> QED
    BY <1>1, <1>3, <1>4, <2>1, <2>2
<1>12. CASE MovedFind(u) \/ MovedDrop(u)
  <2>1. /\ \A v \in Users \ {u} : call'[v] = call[v]
        /\ call'[u].op = call[u].op
        /\ call[u].op = "moved"
        /\ mutex' = mutex
    BY <1>2, <1>12 DEF MovedFind, MovedDrop, At, Calling
  <2> QED
    BY <1>1, <2>1 DEF Holds
<1>13. CASE StartWatching(u) \/ StopWatching(u) \/ StopWatchingMovedPaths(u)
  BY <1>1, <1>6, <1>13 DEF StartWatching, StopWatching, StopWatchingMovedPaths
<1>14. CASE MovedFindRaces(u)
  <2>1. /\ \A v \in Users \ {u} : call'[v] = call[v]
        /\ call'[u].stage = "undefined"
        /\ call[u].op = "moved"
        /\ mutex' = mutex
    BY <1>2, <1>14 DEF MovedFindRaces, At, NoCall
  <2> QED
    BY <1>1, <2>1 DEF Holds
<1> QED
  BY <1>5, <1>7, <1>8, <1>9, <1>10, <1>11, <1>12, <1>13, <1>14 DEF UserStep

(* What the run loop does to the mutex.                                    *)
LEMMA RunLoopMutex ==
    ASSUME RunLoopStep \/ PollFails
    PROVE  /\ call' = call
           /\ \/ mutex' = mutex /\ loop' = loop
              \/ mutex' = mutex /\ loop # "handle" /\ loop' # "handle"
              \/ mutex = Free /\ mutex' = RunLoop /\ loop' = "handle"
              \/ loop = "handle" /\ mutex' = Free /\ loop' # "handle"
BY DEF RunLoopStep, PollFails, PollShutdown, PollEvents, ReadEvents, ReadDone,
       LockEvents, UnlockEvents, LoopOnly, userVars, HandleEvent,
       HandleUnmount, HandleQueueOverflow, HandleUnregistered, HandleIgnored,
       HandleNotListening, HandleBadName, HandleChange, Reportable, HandleNext,
       Handled

(* One step of mutual exclusion.                                           *)
LEMMA MutexStep ==
    ASSUME TypeOK, MutualExclusion, [Next]_vars
    PROVE  MutualExclusion'
<1>1. MutualExclusion <=> /\ mutex = RunLoop <=> loop = "handle"
                          /\ \A u \in Users : mutex = u <=> Holds(call[u])
  BY DEF MutualExclusion, Holds
<1>2. MutualExclusion' <=> /\ mutex' = RunLoop <=> loop' = "handle"
                           /\ \A u \in Users : mutex' = u <=> Holds(call'[u])
  BY DEF MutualExclusion, Holds
<1>3. CASE RunLoopStep \/ PollFails
  BY <1>1, <1>2, <1>3, RunLoopMutex
<1>4. ASSUME NEW u \in Users,
             \/ StartWatching(u) \/ StopWatching(u)
             \/ StopWatchingMovedPaths(u) \/ Shutdown(u) \/ UserStep(u)
      PROVE  MutualExclusion'
  <2>1. /\ loop' = loop
        /\ \A v \in Users \ {u} : call'[v] = call[v]
        /\ \/ mutex' = mutex /\ (Holds(call'[u]) <=> Holds(call[u]))
           \/ mutex' = mutex /\ mutex # u /\ ~Holds(call'[u])
           \/ mutex = Free /\ mutex' = u /\ Holds(call'[u])
           \/ mutex = u /\ mutex' = Free /\ ~Holds(call'[u])
    BY <1>4, UserMutex
  <2> QED
    BY <1>1, <1>2, <2>1
<1>5. CASE FileSystem
  <2>1. UNCHANGED <<mutex, loop>>
    BY <1>5 DEF FileSystem, loopVars
  <2>2. \A u \in Users : Holds(call'[u]) <=> Holds(call[u])
    BY <1>5 DEF FileSystem, Holds, TypeOK, Calling
  <2> QED
    BY <1>1, <1>2, <2>1, <2>2
<1>6. CASE UNCHANGED vars
  BY <1>1, <1>2, <1>6 DEF vars, loopVars, userVars
<1> QED
  BY <1>3, <1>4, <1>5, <1>6 DEF Next

(* handleEvent and the registering calls exclude each other, and every way *)
(* out of them, an exception or a failure too, unlocks mutationMutex.      *)
THEOREM MutexExcludes == Spec => []MutualExclusion
<1>1. Init => MutualExclusion
  BY DEF Init, MutualExclusion, NoCall
<1> QED
  BY <1>1, TypeCorrect, MutexStep, PTL DEF Spec

-------------------------------------------------------------------------------
(* What the steps of the kernel do to the watches and to what is queued.   *)

(* The kernel gives out no watch descriptor; it forgets watches only with  *)
(* an IN_IGNORED, and queues nothing for one it does not have.             *)
KernelMoves ==
    /\ nextWd' = nextWd
    /\ lost \subseteq lost'
    /\ \A wd \in Wds :
          /\ watches'[wd] \in {watches[wd], NoInode}
          /\ watches'[wd] # watches[wd] =>
                Pending(Msg("ignored", wd))' \/ wd \in lost'
          /\ Pending(Msg("ignored", wd)) =>
                Pending(Msg("ignored", wd))' \/ wd \in lost'
          /\ Pending(Msg("ignored", wd))' =>
                Pending(Msg("ignored", wd)) \/ watches'[wd] = NoInode
          /\ \A kind \in WatchKinds : Pending(Msg(kind, wd))' =>
                Pending(Msg(kind, wd)) \/ watches[wd] # NoInode

(* Forgetting a watch the kernel has, after events of that watch.          *)
LEMMA ForgetMoves ==
    ASSUME TypeOK, NEW wd \in Wds, watches[wd] # NoInode,
           NEW q \in Seq(Messages), Forget(wd, q),
           nextWd' = nextWd, batch' = batch,
           \A m : Has(kq, m) => Has(q, m),
           \A m : Has(q, m) => \/ Has(kq, m)
                               \/ m = QOverflow
                               \/ m.wd = wd /\ m.kind # "ignored"
    PROVE  KernelMoves
<1>1. Msg("ignored", wd) \in Messages
  BY DEF Msg, Messages, WatchKinds
<1>2. ASSUME NEW m
      PROVE  /\ Has(q, m) => Has(kq', m)
             /\ Has(kq', m) => Has(q, m) \/ m = Msg("ignored", wd) \/ m = QOverflow
             /\ Has(kq', Msg("ignored", wd)) \/ wd \in lost'
  BY <1>1, PushContents DEF Forget
<1>3. /\ watches' = [watches EXCEPT ![wd] = NoInode]
      /\ watches \in [Wds -> Inodes \cup {NoInode}]
      /\ lost \subseteq lost'
  BY DEF Forget, TypeOK, InotifyTypeOK
<1>4. ASSUME NEW v \in Wds, NEW kind
      PROVE  Msg(kind, v) # QOverflow /\ Msg(kind, v).wd = v /\ Msg(kind, v).kind = kind
  BY DEF Msg, QOverflow, NoWd, Wds
<1>5. ASSUME NEW v \in Wds, NEW kind
      PROVE  /\ Pending(Msg(kind, v)) => Pending(Msg(kind, v))'
             /\ Pending(Msg(kind, v))' => Pending(Msg(kind, v)) \/ v = wd
             /\ v # wd \/ kind # "ignored" \/ Pending(Msg(kind, v))' \/ v \in lost'
  BY <1>2, <1>4 DEF Pending
<1> QED
  BY <1>3, <1>5 DEF KernelMoves

(* inotify_rm_watch moves the kernel, or fails and changes nothing.        *)
LEMMA RmWatchMoves ==
    ASSUME TypeOK, NEW wd \in Wds, RmWatch(wd), nextWd' = nextWd, batch' = batch
    PROVE  KernelMoves /\ watches'[wd] = NoInode
<1>1. CASE RmWatchSucceeds(wd)
  <2>1. Forget(wd, kq) /\ watches[wd] # NoInode /\ kq \in Seq(Messages)
    BY <1>1 DEF RmWatch, RmWatchSucceeds, TypeOK, InotifyTypeOK
  <2>2. watches'[wd] = NoInode
    BY <2>1 DEF Forget, TypeOK, InotifyTypeOK
  <2> QED
    BY <2>1, <2>2, ForgetMoves
<1>2. CASE ~RmWatchSucceeds(wd)
  BY <1>2 DEF RmWatch, RmWatchSucceeds, KernelMoves, Pending
<1> QED
  BY <1>1, <1>2

(* Events that are posted for watches the kernel has move it too.          *)
LEMMA PostMoves ==
    ASSUME TypeOK, NEW wd \in Wds, watches[wd] # NoInode,
           NEW kind \in WatchKinds, kind # "ignored",
           kq' = Push(kq, Msg(kind, wd)),
           UNCHANGED <<watches, nextWd, lost, batch>>
    PROVE  KernelMoves
<1>1. Msg(kind, wd) \in Messages /\ kq \in Seq(Messages)
  BY DEF Msg, Messages, TypeOK, InotifyTypeOK
<1>2. ASSUME NEW m
      PROVE  /\ Has(kq, m) => Has(kq', m)
             /\ Has(kq', m) => Has(kq, m) \/ m = Msg(kind, wd) \/ m = QOverflow
  BY <1>1, PushContents
<1>3. ASSUME NEW v \in Wds, NEW k
      PROVE  /\ Pending(Msg(k, v)) => Pending(Msg(k, v))'
             /\ Pending(Msg(k, v))' =>
                   Pending(Msg(k, v)) \/ (v = wd /\ k # "ignored")
  BY <1>2 DEF Pending, Msg, QOverflow, NoWd, Wds
<1> QED
  BY <1>3 DEF KernelMoves

(* The file system moves the kernel.                                       *)
LEMMA FileSystemMoves ==
    ASSUME TypeOK, FileSystem,
           CreateDir \/ RemoveDir \/ MoveDirAway \/ MoveDirIn \/ ChangeContent
    PROVE  KernelMoves
<1>1. batch' = batch /\ kq \in Seq(Messages)
  BY DEF FileSystem, loopVars, TypeOK, InotifyTypeOK
<1>2. ASSUME UNCHANGED <<watches, nextWd, kq, lost>> PROVE KernelMoves
  BY <1>1, <1>2 DEF KernelMoves, Pending
<1>3. dirAt \in [Dirs -> Inodes \cup {NoInode}] /\ elsewhere \subseteq Inodes
  BY DEF TypeOK, InotifyTypeOK
<1>4. ASSUME NEW i \in Inodes, NotifyMove(i), nextWd' = nextWd PROVE KernelMoves
  <2>1. CASE UNCHANGED kq
    BY <1>2, <1>4, <2>1 DEF NotifyMove
  <2>2. CASE \E wd \in Watching(i) : kq' = Push(kq, Msg("move_self", wd))
    BY <1>1, <1>4, <2>2, PostMoves DEF NotifyMove, Watching, WatchKinds
  <2> QED
    BY <1>4, <2>1, <2>2 DEF NotifyMove
<1>5. CASE CreateDir
  BY <1>2, <1>5 DEF CreateDir, Operation
<1>6. CASE RemoveDir
  <2>1. PICK i \in Existing, kind \in {"delete_self", "unmount"} :
           IF Watching(i) = {}
           THEN UNCHANGED <<watches, kq, lost>>
           ELSE \E wd \in Watching(i) : Forget(wd, Push(kq, Msg(kind, wd)))
    BY <1>6 DEF RemoveDir
  <2>2. nextWd' = nextWd
    BY <1>6 DEF RemoveDir, Operation
  <2>3. CASE Watching(i) = {}
    BY <1>2, <2>1, <2>2, <2>3
  <2>4. CASE Watching(i) # {}
    <3>1. PICK wd \in Wds : watches[wd] = i /\ Forget(wd, Push(kq, Msg(kind, wd)))
      BY <2>1, <2>4 DEF Watching
    <3>2. i # NoInode
      BY <1>3 DEF Existing
    <3>3. Msg(kind, wd) \in Messages
      BY DEF Msg, Messages, WatchKinds
    <3>4. Push(kq, Msg(kind, wd)) \in Seq(Messages)
      BY <1>1, <3>3, PushType
    <3>5. ASSUME NEW m
          PROVE  /\ Has(kq, m) => Has(Push(kq, Msg(kind, wd)), m)
                 /\ Has(Push(kq, Msg(kind, wd)), m) =>
                       \/ Has(kq, m)
                       \/ m = QOverflow
                       \/ m.wd = wd /\ m.kind # "ignored"
      BY <1>1, <3>3, PushContents DEF Msg
    <3> QED
      BY <1>1, <2>2, <3>1, <3>2, <3>4, <3>5, ForgetMoves
  <2> QED
    BY <2>3, <2>4
<1>7. CASE MoveDirAway
  BY <1>3, <1>4, <1>7 DEF MoveDirAway, Operation
<1>8. CASE MoveDirIn
  BY <1>3, <1>4, <1>8 DEF MoveDirIn, Operation
<1>9. CASE ChangeContent
  BY <1>1, <1>9, PostMoves DEF ChangeContent, WatchKinds
<1> QED
  BY <1>5, <1>6, <1>7, <1>8, <1>9

(* Reading moves events from the queue to the buffer.                      *)
LEMMA ReadMoves ==
    ASSUME TypeOK, BatchIsHandled, ReadEvents
    PROVE  KernelMoves
<1>1. PICK k \in 0 .. Len(kq) : /\ batch' = SubSeq(kq, 1, k)
                                /\ kq' = SubSeq(kq, k + 1, Len(kq))
  BY ReadTypes
<1>2. kq \in Seq(Messages) /\ batch = <<>>
  BY DEF TypeOK, InotifyTypeOK, BatchIsHandled, ReadEvents
<1>3. ASSUME NEW m PROVE Pending(m)' <=> Pending(m)
  <2>1. ~Has(batch, m)
    BY <1>2 DEF Has
  <2> QED
    BY <1>1, <1>2, <2>1, ReadSplits DEF Pending
<1> QED
  BY <1>3 DEF KernelMoves, ReadEvents

(* Handling an event takes it, and only it, out of the buffer.             *)
LEMMA HandledTakes ==
    ASSUME TypeOK, batch # <<>>, Handled, kq' = kq, NEW m
    PROVE  Pending(m) <=> m = Event \/ Pending(m)'
BY TailContents DEF Handled, Event, Pending, TypeOK

(* Handling an event that is no IN_IGNORED moves the kernel, and so does   *)
(* dropping the rest of the buffer.                                        *)
LEMMA HandlingMoves ==
    ASSUME TypeOK, HandleNext,
           \/ Handled /\ Event.kind # "ignored"
           \/ HandleBadName
    PROVE  KernelMoves
<1>1. batch \in Seq(Messages) /\ batch # <<>>
      /\ UNCHANGED <<watches, nextWd, kq>>
  BY DEF HandleNext, TypeOK
<1>2. CASE Handled /\ Event.kind # "ignored"
  <2>1. ASSUME NEW wd \in Wds, NEW kind
        PROVE  /\ Pending(Msg(kind, wd))' => Pending(Msg(kind, wd))
               /\ Pending(Msg("ignored", wd)) => Pending(Msg("ignored", wd))'
    BY <1>1, <1>2, HandledTakes DEF Msg
  <2> QED
    BY <1>1, <1>2, <2>1 DEF KernelMoves, Handled
<1>3. CASE HandleBadName
  <2>1. batch' = <<>> /\ lost \subseteq lost'
    BY <1>3 DEF HandleBadName
  <2>2. ASSUME NEW m PROVE Pending(m)' => Pending(m)
    BY <1>1, <2>1 DEF Pending, Has
  <2>3. ASSUME NEW wd \in Wds, Pending(Msg("ignored", wd))
        PROVE  Pending(Msg("ignored", wd))' \/ wd \in lost'
    <3>1. CASE Has(kq, Msg("ignored", wd))
      BY <1>1, <3>1 DEF Pending
    <3>2. CASE Has(batch, Msg("ignored", wd))
      <4>1. PICK j \in DOMAIN batch : batch[j] = Msg("ignored", wd)
        BY <3>2 DEF Has
      <4>2. batch[j].kind = "ignored" /\ batch[j].wd = wd
        BY <4>1 DEF Msg
      <4> QED
        BY <1>3, <4>2 DEF HandleBadName
    <3> QED
      BY <2>3, <3>1, <3>2 DEF Pending
  <2> QED
    BY <1>1, <2>1, <2>2, <2>3 DEF KernelMoves
<1> QED
  BY <1>2, <1>3

-------------------------------------------------------------------------------
(* The maps.                                                               *)

(* What the kernel's moves and the maps have in common.                    *)
Core ==
    /\ MapsAgree
    /\ NoLeakedWatch
    /\ RetirementPending
    /\ FreshDescriptors
    /\ IgnoredIsDead

(* The kernel's moves keep the maps in step with it.                       *)
LEMMA MovesKeepCore ==
    ASSUME TypeOK, Core, KernelMoves, UNCHANGED mapVars,
           \A wd \in Wds : Removing(wd) => Removing(wd)' \/ watches'[wd] = NoInode
    PROVE  Core'
<1>1. UNCHANGED <<watchPoints, watchRoots, recent>>
  BY DEF mapVars
<1>2. MapsAgree'
  BY <1>1 DEF Core, MapsAgree, Registered
<1>3. NoLeakedWatch'
  BY <1>1 DEF Core, NoLeakedWatch, KernelMoves
<1>4. RetirementPending'
  BY <1>1 DEF Core, RetirementPending, KernelMoves
<1>5. FreshDescriptors'
  BY <1>1 DEF Core, FreshDescriptors, KernelMoves
<1>6. IgnoredIsDead'
  BY <1>1 DEF Core, IgnoredIsDead, KernelMoves
<1> QED
  BY <1>2, <1>3, <1>4, <1>5, <1>6 DEF Core

(* IN_IGNORED of a watch descriptor that is not a root any more.           *)
LEMMA HandleUnregisteredKeepsCore ==
    ASSUME TypeOK, Core, HandleUnregistered
    PROVE  Core'
<1>1. /\ UNCHANGED <<watchPoints, watchRoots, watches, nextWd, kq, lost, call>>
      /\ batch # <<>> /\ Handled
  BY DEF HandleUnregistered, HandleNext, LoopOnly, userVars, Handled
<1>2. Event \in Messages /\ Event.wd \in Wds
  BY <1>1, TailContents
  DEF Event, TypeOK, HandleUnregistered, HasWd, Messages, QOverflow, Msg
<1>3. Event.kind # "ignored" => recent' = recent
  BY DEF HandleUnregistered
<1>4. \A wd \in Wds : recent'[wd] \in {recent[wd], NoPath}
  BY <1>2 DEF HandleUnregistered, TypeOK
<1>5. Event.kind = "ignored" => recent'[Event.wd] = NoPath /\ watchRoots[Event.wd] = NoPath
  BY <1>2 DEF HandleUnregistered, TypeOK, EventPath
<1>6. ASSUME NEW m PROVE Pending(m) <=> m = Event \/ Pending(m)'
  BY <1>1, HandledTakes
<1>7. \A wd : Removing(wd)' <=> Removing(wd)
  BY <1>1 DEF Removing, At
<1>8. MapsAgree'
  BY <1>1, <1>4 DEF Core, MapsAgree, Registered
<1>9. NoLeakedWatch'
  BY <1>1, <1>7 DEF Core, NoLeakedWatch
<1>10. RetirementPending'
  <2>1. ASSUME NEW wd \in Wds, watches[wd] = NoInode,
               watchRoots[wd] # NoPath \/ recent'[wd] # NoPath, wd \notin lost
        PROVE  Pending(Msg("ignored", wd))'
    <3>1. Pending(Msg("ignored", wd))
      BY <1>4, <2>1 DEF Core, RetirementPending
    <3>2. Msg("ignored", wd) # Event
      BY <1>5, <2>1 DEF Msg
    <3> QED
      BY <1>6, <3>1, <3>2
  <2> QED
    BY <1>1, <2>1 DEF RetirementPending
<1>11. FreshDescriptors'
  BY <1>1, <1>4, <1>6 DEF Core, FreshDescriptors
<1>12. IgnoredIsDead'
  BY <1>1, <1>6 DEF Core, IgnoredIsDead
<1> QED
  BY <1>8, <1>9, <1>10, <1>11, <1>12 DEF Core

(* IN_IGNORED of a root: the kernel has no watch any more, and both maps   *)
(* forget it.                                                              *)
LEMMA HandleIgnoredKeepsCore ==
    ASSUME TypeOK, Core, HandleIgnored
    PROVE  Core'
<1>1. /\ UNCHANGED <<recent, watches, nextWd, kq, lost, call>>
      /\ batch # <<>> /\ Handled
  BY DEF HandleIgnored, HandleNext, LoopOnly, userVars, Handled
<1> DEFINE e == Event.wd
           path == watchRoots[e]
<1>2. Event \in Messages /\ e \in Wds /\ Event = Msg("ignored", e)
  BY <1>1, TailContents
  DEF Event, TypeOK, HandleIgnored, HasWd, Messages, QOverflow, Msg
<1>3. path \in Paths /\ path # NoPath
  BY <1>2 DEF HandleIgnored, EventPath, TypeOK
<1>4. /\ watchRoots' = [watchRoots EXCEPT ![e] = NoPath]
      /\ watchPoints' = [watchPoints EXCEPT ![path] = Absent]
  BY DEF HandleIgnored, EventPath
<1>5. ASSUME NEW m PROVE Pending(m) <=> m = Event \/ Pending(m)'
  BY <1>1, HandledTakes
<1>6. watches[e] = NoInode
  BY <1>2, <1>5 DEF Core, IgnoredIsDead
<1>7. \A wd : Removing(wd)' <=> Removing(wd)
  BY <1>1 DEF Removing, At
<1>8. /\ \A wd \in Wds : watchRoots'[wd] = IF wd = e THEN NoPath ELSE watchRoots[wd]
      /\ \A p \in Paths : watchPoints'[p] = IF p = path THEN Absent ELSE watchPoints[p]
  BY <1>2, <1>3, <1>4 DEF TypeOK
<1>9. watchPoints[path].wd = e /\ recent[e] = NoPath
  BY <1>2, <1>3 DEF Core, MapsAgree
<1>10. \A wd \in Wds : watchRoots[wd] \in Paths \cup {NoPath}
  BY DEF TypeOK
<1> HIDE DEF e, path
<1>11. MapsAgree'
  <2>1. ASSUME NEW p \in Paths, watchPoints'[p] # Absent
        PROVE  /\ watchPoints'[p].wd \in Wds
               /\ watchRoots'[watchPoints'[p].wd] = p
    <3>1. p # path /\ watchPoints'[p] = watchPoints[p]
      BY <1>8, <2>1
    <3>2. watchPoints[p].wd \in Wds /\ watchRoots[watchPoints[p].wd] = p
      BY <2>1, <3>1 DEF Core, MapsAgree, Registered
    <3>3. path = watchRoots[e]
      BY DEF path
    <3> QED
      BY <1>8, <3>1, <3>2, <3>3
  <2>2. ASSUME NEW wd \in Wds, watchRoots'[wd] # NoPath
        PROVE  /\ watchPoints'[watchRoots'[wd]] # Absent
               /\ watchPoints'[watchRoots'[wd]].wd = wd
               /\ recent[wd] = NoPath
    <3>1. wd # e /\ watchRoots'[wd] = watchRoots[wd]
      BY <1>8, <2>2
    <3>2. /\ watchRoots[wd] \in Paths
          /\ watchPoints[watchRoots[wd]] # Absent
          /\ watchPoints[watchRoots[wd]].wd = wd
          /\ recent[wd] = NoPath
      BY <1>10, <2>2, <3>1 DEF Core, MapsAgree, Registered
    <3>3. watchRoots[wd] # path
      BY <1>9, <3>1, <3>2
    <3> QED
      BY <1>8, <3>1, <3>2, <3>3
  <2> QED
    BY <1>1, <2>1, <2>2 DEF MapsAgree, Registered
<1>12. NoLeakedWatch'
  <2>1. ASSUME NEW wd \in Wds, watches[wd] # NoInode
        PROVE  /\ watchRoots'[wd] = watchRoots[wd]
               /\ watchRoots[wd] \in Paths
               /\ watchRoots[wd] # path
    BY <1>2, <1>3, <1>6, <1>8, <1>9, <1>10, <2>1 DEF Core, NoLeakedWatch, MapsAgree
  <2> QED
    BY <1>1, <1>7, <1>8, <2>1 DEF Core, NoLeakedWatch
<1>13. RetirementPending'
  <2>1. ASSUME NEW wd \in Wds, watches[wd] = NoInode,
               watchRoots'[wd] # NoPath \/ recent[wd] # NoPath, wd \notin lost
        PROVE  Pending(Msg("ignored", wd))'
    <3>1. wd # e
      BY <1>8, <1>9, <2>1
    <3>2. Pending(Msg("ignored", wd))
      BY <1>8, <2>1, <3>1 DEF Core, RetirementPending
    <3>3. Msg("ignored", wd) # Event
      BY <1>2, <3>1 DEF Msg
    <3> QED
      BY <1>5, <3>2, <3>3
  <2> QED
    BY <1>1, <2>1 DEF RetirementPending
<1>14. FreshDescriptors'
  BY <1>1, <1>5, <1>8 DEF Core, FreshDescriptors
<1>15. IgnoredIsDead'
  BY <1>1, <1>5 DEF Core, IgnoredIsDead
<1> QED
  BY <1>11, <1>12, <1>13, <1>14, <1>15 DEF Core

(* A new watch descriptor for a path that is not registered.               *)
LEMMA RegisterAddKeepsCore ==
    ASSUME TypeOK, Core, NEW u \in Users, RegisterAdd(u), ~Registered(Path(u))
    PROVE  Core'
<1>1. /\ UNCHANGED <<recent, kq, lost, batch>>
      /\ nextWd \in Wds /\ nextWd' = nextWd + 1
      /\ watches' = [watches EXCEPT ![nextWd] = Target(Path(u))]
      /\ watchRoots' = [watchRoots EXCEPT ![nextWd] = Path(u)]
      /\ watchPoints' = [watchPoints EXCEPT ![Path(u)] =
            [status |-> "LISTENING", wd |-> nextWd, inode |-> call[u].inode]]
  BY DEF RegisterAdd, AddWatch, UserOnly, loopVars
<1> DEFINE path == Path(u)
           entry == [status |-> "LISTENING", wd |-> nextWd, inode |-> call[u].inode]
<1>2. path \in Paths /\ watchPoints[path] = Absent /\ path # NoPath
  BY DEF RegisterAdd, At, TypeOK, Busy, Calling, Path, Registered
<1>3. entry # Absent /\ entry.wd = nextWd /\ entry.status = "LISTENING"
  BY DEF Absent
<1> HIDE DEF path, entry
<1>4. /\ \A wd \in Wds : watchRoots'[wd] = IF wd = nextWd THEN path ELSE watchRoots[wd]
      /\ \A p \in Paths : watchPoints'[p] = IF p = path THEN entry ELSE watchPoints[p]
      /\ \A wd \in Wds : wd # nextWd => watches'[wd] = watches[wd]
  BY <1>1, <1>2 DEF TypeOK, InotifyTypeOK, path, entry
<1>5. /\ watches[nextWd] = NoInode /\ watchRoots[nextWd] = NoPath
      /\ recent[nextWd] = NoPath
      /\ ~Pending(Msg("ignored", nextWd))
  BY <1>1 DEF Core, FreshDescriptors, WatchKinds, Wds
<1>6. \A wd \in Wds : watchRoots[wd] \in Paths \cup {NoPath}
  BY DEF TypeOK
<1>7. \A m : Pending(m)' <=> Pending(m)
  BY <1>1 DEF Pending
<1>8. \A wd : Removing(wd)' <=> Removing(wd)
  <2>1. ASSUME NEW v \in Users, NEW wd
        PROVE  (At(v, "moved", "remove") /\ call[v].wd = wd)' <=>
               (At(v, "moved", "remove") /\ call[v].wd = wd)
    <3>1. CASE v = u
      BY <3>1 DEF RegisterAdd, Advance, At, TypeOK, Calling
    <3>2. CASE v # u
      BY <3>2 DEF RegisterAdd, Advance, At, TypeOK
    <3> QED
      BY <3>1, <3>2
  <2> QED
    BY <2>1 DEF Removing
<1>9. MapsAgree'
  <2>1. ASSUME NEW p \in Paths, watchPoints'[p] # Absent
        PROVE  /\ watchPoints'[p].wd \in Wds
               /\ watchRoots'[watchPoints'[p].wd] = p
    <3>1. CASE p = path
      BY <1>1, <1>3, <1>4, <3>1
    <3>2. CASE p # path
      <4>1. watchPoints[p].wd \in Wds /\ watchRoots[watchPoints[p].wd] = p
        BY <1>4, <2>1, <3>2 DEF Core, MapsAgree, Registered
      <4>2. watchPoints[p].wd # nextWd
        BY <1>5, <4>1
      <4> QED
        BY <1>4, <3>2, <4>1, <4>2
    <3> QED
      BY <3>1, <3>2
  <2>2. ASSUME NEW wd \in Wds, watchRoots'[wd] # NoPath
        PROVE  /\ watchPoints'[watchRoots'[wd]] # Absent
               /\ watchPoints'[watchRoots'[wd]].wd = wd
               /\ recent[wd] = NoPath
    <3>1. CASE wd = nextWd
      BY <1>2, <1>3, <1>4, <1>5, <3>1
    <3>2. CASE wd # nextWd
      <4>1. /\ watchRoots'[wd] = watchRoots[wd]
            /\ watchRoots[wd] \in Paths
            /\ watchPoints[watchRoots[wd]] # Absent
            /\ watchPoints[watchRoots[wd]].wd = wd
            /\ recent[wd] = NoPath
        BY <1>4, <1>6, <2>2, <3>2 DEF Core, MapsAgree, Registered
      <4> QED
        BY <1>2, <1>4, <4>1
    <3> QED
      BY <3>1, <3>2
  <2> QED
    BY <1>1, <2>1, <2>2 DEF MapsAgree, Registered
<1>10. NoLeakedWatch'
  <2>1. ASSUME NEW wd \in Wds, watches'[wd] # NoInode
        PROVE  /\ watchRoots'[wd] # NoPath
               /\ \/ watchPoints'[watchRoots'[wd]].status = "LISTENING"
                  \/ Removing(wd)
    <3>1. CASE wd = nextWd
      BY <1>2, <1>3, <1>4, <3>1
    <3>2. CASE wd # nextWd
      <4>1. /\ watchRoots'[wd] = watchRoots[wd]
            /\ watchRoots[wd] \in Paths
            /\ watchPoints[watchRoots[wd]] # Absent
            /\ watchPoints[watchRoots[wd]].status = "LISTENING" \/ Removing(wd)
        BY <1>4, <1>6, <2>1, <3>2
        DEF Core, NoLeakedWatch, MapsAgree, Registered
      <4> QED
        BY <1>2, <1>4, <4>1
    <3> QED
      BY <3>1, <3>2
  <2> QED
    BY <1>8, <2>1 DEF NoLeakedWatch
<1>11. RetirementPending'
  <2>1. Target(path) # NoInode
    BY DEF RegisterAdd, path
  <2>2. watches'[nextWd] = Target(path)
    BY <1>1 DEF TypeOK, InotifyTypeOK, path
  <2> QED
    BY <1>1, <1>4, <1>7, <2>1, <2>2 DEF Core, RetirementPending
<1>12. FreshDescriptors'
  BY <1>1, <1>4, <1>7 DEF Core, FreshDescriptors, Wds
<1>13. IgnoredIsDead'
  BY <1>4, <1>5, <1>7 DEF Core, IgnoredIsDead
<1> QED
  BY <1>9, <1>10, <1>11, <1>12, <1>13 DEF Core

(* The root of a watch is removed together with it.                        *)
LEMMA UnregisterKeepsCore ==
    ASSUME TypeOK, Core, NEW u \in Users, Unregister(u)
    PROVE  Core'
<1> DEFINE path == Path(u)
           wd == watchPoints[path].wd
<1>1. path \in Paths /\ watchPoints[path].status = "LISTENING"
  BY DEF Unregister, TypeOK, Calling, Path
<1>2. watchPoints[path] # Absent /\ path # NoPath
  BY <1>1 DEF Absent
<1>3. wd \in Wds /\ watchRoots[wd] = path /\ recent[wd] = NoPath
  <2>1. wd \in Wds /\ watchRoots[wd] = path
    BY <1>1, <1>2 DEF Core, MapsAgree, Registered
  <2>2. recent[wd] = NoPath
    BY <1>2, <2>1 DEF Core, MapsAgree
  <2> QED
    BY <2>1, <2>2
<1>4. /\ RmWatch(wd) /\ nextWd' = nextWd /\ batch' = batch
      /\ recent' = [recent EXCEPT ![wd] = path]
      /\ watchRoots' = [watchRoots EXCEPT ![wd] = NoPath]
      /\ watchPoints' = [watchPoints EXCEPT ![path] = Absent]
  BY <1>3 DEF Unregister, UserOnly, loopVars
<1>5. KernelMoves /\ watches'[wd] = NoInode
  BY <1>3, <1>4, RmWatchMoves
<1>6. \A v : Removing(v)' <=> Removing(v)
  <2>1. ASSUME NEW v \in Users, NEW x
        PROVE  (At(v, "moved", "remove") /\ call[v].wd = x)' <=>
               (At(v, "moved", "remove") /\ call[v].wd = x)
    <3>1. CASE v = u
      BY <3>1 DEF Unregister, Advance, At, TypeOK, Calling
    <3>2. CASE v # u
      BY <3>2 DEF Unregister, Advance, At, TypeOK
    <3> QED
      BY <3>1, <3>2
  <2> QED
    BY <2>1 DEF Removing
<1> HIDE DEF path, wd
<1>7. /\ \A v \in Wds : watchRoots'[v] = IF v = wd THEN NoPath ELSE watchRoots[v]
      /\ \A v \in Wds : recent'[v] = IF v = wd THEN path ELSE recent[v]
      /\ \A p \in Paths : watchPoints'[p] = IF p = path THEN Absent ELSE watchPoints[p]
      /\ \A v \in Wds : watchRoots[v] \in Paths \cup {NoPath}
  BY <1>1, <1>3, <1>4 DEF TypeOK
<1>8. ASSUME NEW v \in Wds, v # wd, watchRoots[v] # NoPath
      PROVE  /\ watchRoots[v] \in Paths \ {path}
             /\ watchPoints[watchRoots[v]] # Absent
             /\ watchPoints[watchRoots[v]].wd = v
             /\ recent[v] = NoPath
  BY <1>7, <1>8 DEF Core, MapsAgree, Registered, wd
<1>9. MapsAgree'
  <2>1. ASSUME NEW p \in Paths, watchPoints'[p] # Absent
        PROVE  /\ watchPoints'[p].wd \in Wds
               /\ watchRoots'[watchPoints'[p].wd] = p
    <3>1. p # path /\ watchPoints'[p] = watchPoints[p]
      BY <1>7, <2>1
    <3>2. watchPoints[p].wd \in Wds /\ watchRoots[watchPoints[p].wd] = p
      BY <2>1, <3>1 DEF Core, MapsAgree, Registered
    <3> QED
      BY <1>3, <1>7, <3>1, <3>2
  <2>2. ASSUME NEW v \in Wds, watchRoots'[v] # NoPath
        PROVE  /\ watchPoints'[watchRoots'[v]] # Absent
               /\ watchPoints'[watchRoots'[v]].wd = v
               /\ recent'[v] = NoPath
    BY <1>7, <1>8, <2>2
  <2> QED
    BY <2>1, <2>2 DEF MapsAgree, Registered
<1>10. NoLeakedWatch'
  <2>1. ASSUME NEW v \in Wds, watches'[v] # NoInode
        PROVE  /\ watchRoots'[v] # NoPath
               /\ \/ watchPoints'[watchRoots'[v]].status = "LISTENING"
                  \/ Removing(v)
    <3>1. v # wd /\ watches[v] # NoInode
      BY <1>5, <2>1 DEF KernelMoves
    <3>2. /\ watchRoots[v] # NoPath
          /\ watchPoints[watchRoots[v]].status = "LISTENING" \/ Removing(v)
      BY <3>1 DEF Core, NoLeakedWatch
    <3> QED
      BY <1>7, <1>8, <3>1, <3>2
  <2> QED
    BY <1>6, <2>1 DEF NoLeakedWatch
<1>11. RetirementPending'
  <2>1. ASSUME NEW v \in Wds, watches'[v] = NoInode,
               watchRoots'[v] # NoPath \/ recent'[v] # NoPath
        PROVE  Pending(Msg("ignored", v))' \/ v \in lost'
    <3>1. watches[v] = NoInode => Pending(Msg("ignored", v)) \/ v \in lost
      BY <1>2, <1>3, <1>7, <2>1 DEF Core, RetirementPending
    <3> QED
      BY <1>5, <2>1, <3>1 DEF KernelMoves
  <2> QED
    BY <2>1 DEF RetirementPending
<1>12. FreshDescriptors'
  <2>1. wd < nextWd
    BY <1>2, <1>3 DEF Core, FreshDescriptors, Wds, TypeOK, InotifyTypeOK
  <2>2. ASSUME NEW v \in Wds, v >= nextWd
        PROVE  /\ watches'[v] = NoInode
               /\ watchRoots'[v] = NoPath
               /\ recent'[v] = NoPath
               /\ \A kind \in WatchKinds : ~Pending(Msg(kind, v))'
    <3>1. /\ watches[v] = NoInode /\ watchRoots[v] = NoPath
          /\ recent[v] = NoPath
          /\ \A kind \in WatchKinds : ~Pending(Msg(kind, v))
      BY <2>2 DEF Core, FreshDescriptors
    <3>2. v # wd
      BY <1>3, <2>1, <2>2 DEF TypeOK, InotifyTypeOK, Wds
    <3> QED
      BY <1>5, <1>7, <3>1, <3>2 DEF KernelMoves
  <2> QED
    BY <1>5, <2>2 DEF FreshDescriptors, KernelMoves
<1>13. IgnoredIsDead'
  BY <1>5 DEF Core, IgnoredIsDead, KernelMoves
<1> QED
  BY <1>9, <1>10, <1>11, <1>12, <1>13 DEF Core

(* cancel marks the watch point before it removes the kernel's watch.      *)
LEMMA CancelKeepsCore ==
    ASSUME TypeOK, Core, NEW u \in Users, MovedDrop(u)
    PROVE  Core'
<1> DEFINE path == Path(u)
           wd == call[u].wd
<1>1. path \in Paths /\ wd \in Wds /\ call[u].stage = "found"
  BY DEF MovedDrop, At, TypeOK, Busy, Calling, Path
<1>2. UNCHANGED <<kernelVars, watchRoots, recent, batch>>
  BY DEF MovedDrop, UserOnly, loopVars
<1>3. \A m : Pending(m)' <=> Pending(m)
  BY <1>2 DEF Pending, kernelVars
<1>4. \A v \in Users \ {u} : call'[v] = call[v]
  BY DEF MovedDrop, TypeOK
<1>5. \A v : Removing(v) => Removing(v)'
  <2>1. \A x : \A v \in Users : At(v, "moved", "remove") /\ call[v].wd = x =>
           (At(v, "moved", "remove") /\ call[v].wd = x)'
    BY <1>1, <1>4 DEF At
  <2> QED
    BY <2>1 DEF Removing
<1>6. CASE watchPoints' = watchPoints
  <2>1. KernelMoves
    BY <1>2, <1>3 DEF KernelMoves, kernelVars
  <2> QED
    BY <1>2, <1>5, <1>6, <2>1, MovesKeepCore DEF mapVars
<1>7. CASE /\ watchPoints[path].wd = wd
           /\ call' = [call EXCEPT ![u].stage = "remove",
                                   ![u].dropped = @ \cup {path}]
           /\ watchPoints' = [watchPoints EXCEPT ![path].status = "CANCELLED"]
  <2>1. \A v \in Wds : v = wd => Removing(v)'
    <3>1. call'[u].op = call[u].op /\ call'[u].stage = "remove" /\ call'[u].wd = wd
      BY <1>7 DEF TypeOK, Calling
    <3>2. call[u].op = "moved"
      BY DEF MovedDrop, At
    <3> QED
      BY <3>1, <3>2 DEF Removing, At
  <2>2. watchPoints[path] # Absent
    BY <1>1, <1>7 DEF Absent, NoWd, Wds
  <2>3. /\ watchPoints'[path] # Absent /\ watchPoints'[path].wd = wd
        /\ \A p \in Paths \ {path} : watchPoints'[p] = watchPoints[p]
    <3>1. watchPoints'[path] = [watchPoints[path] EXCEPT !.status = "CANCELLED"]
      BY <1>1, <1>7 DEF TypeOK
    <3>2. watchPoints[path] \in [status : {"LISTENING", "CANCELLED"}, wd : Wds,
                                 inode : Files]
      BY <1>1, <2>2 DEF TypeOK, WatchPoint
    <3>3. watchPoints'[path].status = "CANCELLED" /\ watchPoints'[path].wd = wd
      BY <1>7, <3>1, <3>2
    <3> QED
      BY <1>7, <3>3 DEF Absent, TypeOK
  <2> HIDE DEF path, wd
  <2>4. MapsAgree'
    BY <1>1, <1>2, <1>7, <2>2, <2>3 DEF Core, MapsAgree, Registered, TypeOK
  <2>5. NoLeakedWatch'
    <3>1. ASSUME NEW v \in Wds, watches[v] # NoInode
          PROVE  /\ watchRoots[v] # NoPath
                 /\ \/ watchPoints'[watchRoots[v]].status = "LISTENING"
                    \/ Removing(v)'
      <4>1. /\ watchRoots[v] \in Paths
            /\ watchPoints[watchRoots[v]].status = "LISTENING" \/ Removing(v)
            /\ watchRoots[v] # NoPath
            /\ watchPoints[watchRoots[v]].wd = v
        BY <3>1 DEF Core, NoLeakedWatch, MapsAgree, TypeOK
      <4>2. CASE watchRoots[v] = path
        <5>1. v = wd
          BY <1>7, <4>1, <4>2
        <5> QED
          BY <2>1, <4>1, <5>1
      <4>3. CASE watchRoots[v] # path
        BY <1>5, <2>3, <4>1, <4>3
      <4> QED
        BY <4>2, <4>3
    <3> QED
      BY <1>2, <3>1 DEF NoLeakedWatch, kernelVars
  <2>6. RetirementPending'
    BY <1>2, <1>3 DEF Core, RetirementPending, kernelVars
  <2>7. FreshDescriptors' /\ IgnoredIsDead'
    BY <1>2, <1>3 DEF Core, FreshDescriptors, IgnoredIsDead, kernelVars
  <2> QED
    BY <2>4, <2>5, <2>6, <2>7 DEF Core
<1>8. \/ watchPoints' = watchPoints
      \/ /\ watchPoints[path].wd = wd
         /\ call' = [call EXCEPT ![u].stage = "remove",
                                 ![u].dropped = @ \cup {path}]
         /\ watchPoints' = [watchPoints EXCEPT ![path].status = "CANCELLED"]
  BY DEF MovedDrop, Dangling
<1> QED
  BY <1>6, <1>7, <1>8

-------------------------------------------------------------------------------
(* The inductive invariant.                                                *)

(* A call that is between the check of watchPoints and the insertion of    *)
(* its path holds the mutex, and so the only one that inserts paths.       *)
LEMMA AddingAlone ==
    ASSUME TypeOK, MutualExclusion, NEW u \in Users, NEW v \in Users,
           At(u, "start", "add"), At(v, "start", "add")
    PROVE  u = v
BY DEF MutualExclusion, At

(* The run loop's steps and the kernel's.                                  *)
LEMMA RunLoopKeepsCore ==
    ASSUME TypeOK, Core, BatchIsHandled, RunLoopStep \/ PollFails
    PROVE  Core'
<1>1. call' = call
  BY RunLoopMutex
<1>2. \A wd \in Wds : Removing(wd)' <=> Removing(wd)
  BY <1>1 DEF Removing, At
<1>3. CASE \/ PollShutdown \/ PollFails \/ PollEvents \/ ReadDone
           \/ LockEvents \/ UnlockEvents
  <2>1. UNCHANGED <<kernelVars, mapVars, batch>>
    BY <1>3 DEF PollShutdown, PollFails, PollEvents, ReadDone, LockEvents,
                UnlockEvents
  <2>2. KernelMoves
    BY <2>1 DEF KernelMoves, kernelVars, Pending
  <2> QED
    BY <1>2, <2>1, <2>2, MovesKeepCore
<1>4. CASE ReadEvents
  <2>1. UNCHANGED mapVars
    BY <1>4 DEF ReadEvents, mapVars
  <2> QED
    BY <1>2, <1>4, <2>1, ReadMoves, MovesKeepCore
<1>5. CASE \/ HandleUnmount \/ HandleQueueOverflow \/ HandleNotListening
           \/ HandleBadName \/ HandleChange
  <2>1. UNCHANGED mapVars /\ HandleNext
    BY <1>5 DEF HandleUnmount, HandleQueueOverflow, HandleNotListening,
                HandleBadName, HandleChange, Reportable, mapVars
  <2>2. \/ Handled /\ Event.kind # "ignored"
        \/ HandleBadName
    BY <1>5 DEF HandleUnmount, HandleQueueOverflow, HandleNotListening,
                HandleChange, Reportable
  <2> QED
    BY <1>2, <2>1, <2>2, HandlingMoves, MovesKeepCore
<1> QED
  BY <1>3, <1>4, <1>5, HandleUnregisteredKeepsCore, HandleIgnoredKeepsCore
  DEF RunLoopStep, HandleEvent

(* The users' steps.                                                       *)
LEMMA UserKeepsCore ==
    ASSUME TypeOK, Core, AddingIsNew, NEW u \in Users,
           \/ StartWatching(u) \/ StopWatching(u)
           \/ StopWatchingMovedPaths(u) \/ Shutdown(u) \/ UserStep(u)
    PROVE  Core'
<1>1. call \in [Users -> Calling] /\ \A v \in Users \ {u} : call'[v] = call[v]
  BY UserMutex DEF TypeOK
<1>2. batch' = batch
  BY DEF StartWatching, StopWatching, StopWatchingMovedPaths, Begin, Shutdown,
         UserStep, UserOnly, Lock, Return, RegisterStat, RegisterAdd,
         RegisterAgain, RegisterFails, Unregister, UnregisterNothing,
         MovedFind, MovedFindRaces, MovedKeep, MovedDrop, MovedRemove, loopVars
<1>3. ASSUME ~At(u, "moved", "remove") \/ watches'[call[u].wd] = NoInode
      PROVE  \A wd \in Wds : Removing(wd) => Removing(wd)' \/ watches'[wd] = NoInode
  BY <1>1, <1>3 DEF Removing, At
<1>4. ASSUME UNCHANGED <<kernelVars, mapVars>>, ~At(u, "moved", "remove")
      PROVE  Core'
  <2>1. KernelMoves
    BY <1>2, <1>4 DEF KernelMoves, kernelVars, Pending
  <2> QED
    BY <1>3, <1>4, <2>1, MovesKeepCore
<1>5. CASE \/ StartWatching(u) \/ StopWatching(u)
           \/ StopWatchingMovedPaths(u) \/ Shutdown(u) \/ Lock(u)
           \/ Return(u) \/ RegisterStat(u) \/ RegisterFails(u)
           \/ UnregisterNothing(u) \/ MovedFind(u) \/ MovedFindRaces(u)
           \/ MovedKeep(u)
  <2>1. UNCHANGED <<kernelVars, mapVars>>
    BY <1>5 DEF StartWatching, StopWatching, StopWatchingMovedPaths, Begin,
           Shutdown, Lock, Return, RegisterStat, RegisterFails,
           UnregisterNothing, MovedFind, MovedFindRaces, MovedKeep
  <2>2. call[u].stage # "remove"
    BY <1>5 DEF StartWatching, StopWatching, StopWatchingMovedPaths, Begin,
           Shutdown, Lock, Return, RegisterStat, RegisterFails,
           UnregisterNothing, MovedFind, MovedFindRaces, MovedKeep, At
  <2> QED
    BY <1>4, <2>1, <2>2 DEF At
<1>6. CASE RegisterAdd(u)
  <2>1. ~Registered(Path(u))
    BY <1>6 DEF RegisterAdd, AddingIsNew
  <2> QED
    BY <1>6, <2>1, RegisterAddKeepsCore
<1>7. CASE RegisterAgain(u)
  <2>1. PICK wd \in Watching(Target(Path(u))) :
           watchRoots[wd] # NoPath => UNCHANGED <<watchPoints, watchRoots>>
    BY <1>7 DEF RegisterAgain
  <2>2. wd \in Wds /\ watches[wd] # NoInode
    BY <1>7 DEF RegisterAgain, Watching
  <2>3. watchRoots[wd] # NoPath
    BY <2>2 DEF Core, NoLeakedWatch
  <2>4. UNCHANGED <<kernelVars, mapVars>> /\ ~At(u, "moved", "remove")
    BY <1>7, <2>1, <2>3 DEF RegisterAgain, mapVars, At
  <2> QED
    BY <1>4, <2>4
<1>8. CASE Unregister(u)
  BY <1>8, UnregisterKeepsCore
<1>9. CASE MovedDrop(u)
  BY <1>9, CancelKeepsCore
<1>10. CASE MovedRemove(u)
  <2>1. call[u].wd \in Wds /\ RmWatch(call[u].wd) /\ nextWd' = nextWd
        /\ UNCHANGED mapVars
    BY <1>10 DEF MovedRemove, At, TypeOK, Busy
  <2>2. KernelMoves /\ watches'[call[u].wd] = NoInode
    BY <1>2, <2>1, RmWatchMoves
  <2> QED
    BY <1>3, <2>1, <2>2, MovesKeepCore
<1> QED
  BY <1>5, <1>6, <1>7, <1>8, <1>9, <1>10 DEF UserStep

(* Nobody registers a path between another one's check and insertion.      *)
LEMMA AddingStep ==
    ASSUME TypeOK, MutualExclusion, AddingIsNew, [Next]_vars
    PROVE  AddingIsNew'
<1> SUFFICES ASSUME NEW v \in Users, At(v, "start", "add")'
             PROVE  watchPoints'[Path(v)'] = Absent
  BY DEF AddingIsNew, Registered
<1>1. watchPoints \in [Paths -> WatchPoint] /\ call \in [Users -> Calling]
  BY DEF TypeOK
<1>2. ASSUME call'[v].op = call[v].op, call'[v].stage = call[v].stage,
             call'[v].todo = call[v].todo
      PROVE  /\ At(v, "start", "add")
             /\ Path(v)' = Path(v)
             /\ Path(v) \in Paths
             /\ watchPoints[Path(v)] = Absent
  <2>1. At(v, "start", "add") /\ Path(v)' = Path(v)
    BY <1>2 DEF At, Path
  <2>2. watchPoints[Path(v)] = Absent
    BY <2>1 DEF AddingIsNew, Registered
  <2>3. call[v].todo \in Seq(Paths) /\ call[v].todo # <<>>
    BY <2>1 DEF TypeOK, Calling, Busy, At
  <2> QED
    BY <2>1, <2>2, <2>3 DEF Path
<1>3. CASE RunLoopStep \/ PollFails
  <2>1. call' = call
    BY <1>3, RunLoopMutex
  <2>2. UNCHANGED watchPoints
        \/ \E path : watchPoints' = [watchPoints EXCEPT ![path] = Absent]
    BY <1>3 DEF RunLoopStep, PollFails, PollShutdown, PollEvents, ReadEvents,
           ReadDone, LockEvents, UnlockEvents, mapVars, HandleEvent,
           HandleUnmount, HandleQueueOverflow, HandleUnregistered,
           HandleIgnored, HandleNotListening, HandleBadName, HandleChange
  <2> QED
    BY <1>1, <1>2, <2>1, <2>2
<1>4. CASE FileSystem
  <2>1. /\ call'[v].op = call[v].op /\ call'[v].stage = call[v].stage
        /\ call'[v].todo = call[v].todo
    BY <1>1, <1>4 DEF FileSystem, Calling
  <2> QED
    BY <1>2, <1>4, <2>1 DEF FileSystem, mapVars
<1>5. CASE UNCHANGED vars
  BY <1>2, <1>5 DEF vars, userVars, mapVars
<1>6. ASSUME NEW u \in Users,
             \/ StartWatching(u) \/ StopWatching(u)
             \/ StopWatchingMovedPaths(u) \/ Shutdown(u) \/ UserStep(u)
      PROVE  watchPoints'[Path(v)'] = Absent
  <2>1. \A w \in Users \ {u} : call'[w] = call[w]
    BY <1>6, UserMutex
  <2>2. CASE RegisterStat(u) /\ v = u
    <3>1. call[u].op = "start" /\ call[u].stage = "next"
      BY <2>2 DEF RegisterStat, At
    <3>2. ~Leave(u)
      BY <1>1, <2>2 DEF Leave, NoCall, At
    <3>3. /\ ~Registered(Path(u)) /\ UNCHANGED mapVars
          /\ call'[u].todo = call[u].todo
      BY <1>1, <2>2, <3>2 DEF RegisterStat, Calling
    <3> QED
      BY <2>2, <3>3 DEF Path, Registered, mapVars
  <2>3. CASE v = u /\ ~RegisterStat(u)
    <3>1. CASE Shutdown(u)
      BY <1>2, <2>3, <3>1 DEF Shutdown, mapVars
    <3>2. CASE StartWatching(u) \/ StopWatching(u) \/ StopWatchingMovedPaths(u)
      <4>1. PICK op \in {"start", "stop", "moved"}, stage \in {"lock", "next"},
              todo \in Requests : Begin(u, op, stage, todo)
        BY <3>2 DEF StartWatching, StopWatching, StopWatchingMovedPaths
      <4>2. call'[u].stage = stage
        BY <1>1, <4>1 DEF Begin, NoCall
      <4> QED
        BY <2>3, <4>2 DEF At
    <3>3. CASE Leave(u)
      BY <1>1, <2>3, <3>3 DEF Leave, NoCall, At
    <3>4. CASE Advance(u) \/ Lock(u)
      BY <1>1, <2>3, <3>4 DEF Advance, Lock, At, Calling
    <3>5. CASE MovedFind(u) \/ MovedDrop(u)
      <4>1. call'[u].op = call[u].op /\ call[u].op = "moved"
        BY <1>1, <3>5 DEF MovedFind, MovedDrop, At, Calling
      <4> QED
        BY <2>3, <4>1 DEF At
    <3>6. CASE MovedFindRaces(u)
      BY <1>1, <2>3, <3>6 DEF MovedFindRaces, NoCall, At
    <3> QED
      BY <1>6, <2>3, <3>1, <3>2, <3>3, <3>4, <3>5, <3>6
      DEF UserStep, Return, RegisterAdd, RegisterAgain, RegisterFails,
          Unregister, UnregisterNothing, MovedKeep, MovedRemove
  <2>4. CASE v # u
    <3>1. /\ At(v, "start", "add") /\ Path(v)' = Path(v)
          /\ Path(v) \in Paths /\ watchPoints[Path(v)] = Absent
      BY <1>2, <2>1, <2>4
    <3>2. ~RegisterAdd(u) /\ ~RegisterAgain(u)
      BY <2>4, <3>1, AddingAlone DEF RegisterAdd, RegisterAgain
    <3>3. CASE MovedDrop(u)
      <4>1. CASE UNCHANGED watchPoints
        BY <3>1, <4>1
      <4>2. CASE /\ ~Dangling(u)
                 /\ watchPoints' =
                       [watchPoints EXCEPT ![Path(u)].status = "CANCELLED"]
        <5>1. call[u].wd \in Wds
          BY <3>3 DEF MovedDrop, At, TypeOK, Busy
        <5>2. Path(u) # Path(v)
          BY <3>1, <4>2, <5>1 DEF Dangling, Absent, NoWd, Wds
        <5> QED
          BY <1>1, <3>1, <4>2, <5>2
      <4> QED
        BY <3>3, <4>1, <4>2 DEF MovedDrop
    <3>4. CASE Unregister(u)
      BY <1>1, <3>1, <3>4 DEF Unregister
    <3>5. CASE UNCHANGED watchPoints
      BY <3>1, <3>5
    <3> QED
      BY <1>6, <3>2, <3>3, <3>4, <3>5
      DEF StartWatching, StopWatching, StopWatchingMovedPaths, Begin, Shutdown,
          UserStep, Lock, Return, RegisterStat, RegisterFails,
          UnregisterNothing, MovedFind, MovedFindRaces, MovedKeep, MovedRemove,
          mapVars
  <2> QED
    BY <2>2, <2>3, <2>4
<1> QED
  BY <1>3, <1>4, <1>5, <1>6 DEF Next

(* The run loop reads into an empty buffer.                                *)
LEMMA BatchStep ==
    ASSUME BatchIsHandled, [Next]_vars
    PROVE  BatchIsHandled'
<1>1. CASE RunLoopStep \/ PollFails
  BY <1>1 DEF BatchIsHandled, RunLoopStep, PollFails, PollShutdown, PollEvents,
       ReadEvents, ReadDone, LockEvents, UnlockEvents, HandleEvent,
       HandleUnmount, HandleQueueOverflow, HandleUnregistered, HandleIgnored,
       HandleNotListening, HandleBadName, HandleChange, Reportable, HandleNext,
       Handled
<1>2. CASE UNCHANGED loopVars
  BY <1>2 DEF BatchIsHandled, loopVars
<1> QED
  BY <1>1, <1>2
  DEF Next, FileSystem, vars, StartWatching, StopWatching,
      StopWatchingMovedPaths, Begin, Shutdown, UserStep, UserOnly, Lock,
      Return, RegisterStat, RegisterAdd, RegisterAgain, RegisterFails,
      Unregister, UnregisterNothing, MovedFind, MovedFindRaces, MovedKeep, MovedDrop,
      MovedRemove

(* The initial state satisfies the inductive invariant.                    *)
LEMMA InitInductive == Init => Inductive
<1> SUFFICES ASSUME Init PROVE Inductive
  OBVIOUS
<1>1. /\ watchPoints = [p \in Paths |-> Absent]
      /\ watchRoots = [wd \in Wds |-> NoPath]
      /\ recent = [wd \in Wds |-> NoPath]
      /\ watches = [wd \in Wds |-> NoInode]
      /\ kq = <<>> /\ batch = <<>>
      /\ \A u \in Users : call[u] = NoCall
      /\ mutex = Free /\ loop = "poll"
  BY DEF Init, InotifyInit
<1>2. \A m : ~Pending(m)
  BY <1>1 DEF Pending, Has
<1> QED
  BY <1>1, <1>2
  DEF Inductive, MutualExclusion, MapsAgree, NoLeakedWatch, RetirementPending,
      FreshDescriptors, IgnoredIsDead, AddingIsNew, BatchIsHandled, Registered,
      NoCall, At

(* The maps and the kernel stay in step: Inductive is an invariant, and so *)
(* is each of its parts, for any number of users, paths and watch          *)
(* descriptors, any queue limit and any interleaving.                      *)
THEOREM InductiveHolds == Spec => []Inductive
<1>1. TypeOK /\ Inductive /\ [Next]_vars => Inductive'
  <2> SUFFICES ASSUME TypeOK, Inductive, [Next]_vars PROVE Inductive'
    OBVIOUS
  <2>1. Core /\ MutualExclusion /\ AddingIsNew /\ BatchIsHandled
    BY DEF Inductive, Core
  <2>2. MutualExclusion' /\ AddingIsNew' /\ BatchIsHandled'
    BY <2>1, MutexStep, AddingStep, BatchStep
  <2>3. Core'
    <3>1. CASE RunLoopStep \/ PollFails
      BY <2>1, <3>1, RunLoopKeepsCore
    <3>2. CASE FileSystem /\ (\/ CreateDir \/ RemoveDir \/ MoveDirAway
                              \/ MoveDirIn \/ ChangeContent)
      <4>1. UNCHANGED mapVars
        BY <3>2 DEF FileSystem, mapVars
      <4>2. \A wd \in Wds : Removing(wd) => Removing(wd)'
        BY <3>2 DEF FileSystem, Removing, At, TypeOK, Calling
      <4> QED
        BY <2>1, <3>2, <4>1, <4>2, FileSystemMoves, MovesKeepCore
    <3>3. ASSUME NEW u \in Users,
                 \/ StartWatching(u) \/ StopWatching(u)
                 \/ StopWatchingMovedPaths(u) \/ Shutdown(u) \/ UserStep(u)
          PROVE  Core'
      BY <2>1, <3>3, UserKeepsCore
    <3>4. CASE UNCHANGED vars
      <4>1. KernelMoves /\ UNCHANGED mapVars
        BY <3>4 DEF vars, kernelVars, loopVars, KernelMoves, Pending
      <4>2. \A wd : Removing(wd) => Removing(wd)'
        BY <3>4 DEF vars, userVars, Removing, At
      <4> QED
        BY <2>1, <4>1, <4>2, MovesKeepCore
    <3> QED
      BY <3>1, <3>2, <3>3, <3>4 DEF Next
  <2> QED
    BY <2>2, <2>3 DEF Inductive, Core
<1> QED
  BY <1>1, TypeCorrect, InitInductive, PTL DEF Spec

(* watchPoints and watchRoots are inverse to each other whenever the run   *)
(* loop or a call looks at them.                                           *)
THEOREM MapsStayInverse == Spec => []MapsAgree
<1>1. Inductive => MapsAgree
  BY DEF Inductive
<1> QED
  BY <1>1, InductiveHolds, PTL

(* No watch of the kernel is ever without a path that can remove it.       *)
THEOREM NoWatchLeaks == Spec => []NoLeakedWatch
<1>1. Inductive => NoLeakedWatch
  BY DEF Inductive
<1> QED
  BY <1>1, InductiveHolds, PTL

(* The maps forget what the kernel has removed, except what overflow or    *)
(* a failed batch lost.                                                    *)
THEOREM RetirementIsPending == Spec => []RetirementPending
<1>1. Inductive => RetirementPending
  BY DEF Inductive
<1> QED
  BY <1>1, InductiveHolds, PTL
===============================================================================
