-------------------------- MODULE WindowsServerProofs --------------------------
(***************************************************************************)
(* Theorems about WindowsServer: types, reads, and the memory of watch     *)
(* points and commands, for every set of paths and every interleaving of   *)
(* the run loop, the user and the file system.                             *)
(***************************************************************************)
EXTENDS WindowsServer, SequenceTheorems, TLAPS

(* A path is being listened to again: its read was begun.                  *)
Started(p) == completion.stage = "started" /\ completion.path = p

Queued(q, x) == \E i \in 1 .. Len(q) : q[i] = x
Once(q) == \A i, j \in 1 .. Len(q) : q[i] = q[j] => i = j

(* p is in the queue in front of every command.                            *)
Ahead(q, p) ==
    \E i \in 1 .. Len(q) :
        q[i] = p /\ \A j \in 1 .. i - 1 : q[j] # Command

(* Reads: who begins one says so, and their completions are queued.        *)
Reads ==
    /\ Once(apcs)
    /\ \A p \in Paths : Queued(apcs, p) <=> io[p] \in Results
    /\ \A p \in Paths : status[p] = "ABSENT" => io[p] = "none"
    /\ \A p \in Paths : io[p] = "pending" => status[p] = "LISTENING" \/ Started(p)
    /\ ListeningReads
    /\ completion.stage \in {"handle", "listen"} => io[completion.path] = "none"
    /\ completion.stage = "started" => io[completion.path] # "none"
    /\ completion.stage # "none" =>
          completion.path \in Paths /\ status[completion.path] # "ABSENT"

(* Commands: there is one at a time, whose user waits for it.              *)
Commands ==
    /\ Queued(apcs, Command) => call.stage \in {"wait", "gone"} /\ executing.stage = "none"
    /\ loop = "sleep" /\ executing.stage # "none" => call.stage = "wait"
    /\ completion.stage # "none" =>
          loop \in {"sleep", "undefined"} /\ executing.stage \in {"none", "drain"}
    /\ MemoryOutlivesUse

(* The end: nothing is listened to when the run loop sleeps for the last   *)
(* time.                                                                   *)
Ending ==
    /\ terminate => /\ shutdown
                    /\ call.stage \notin {"wait", "gone"}
                    /\ executing.stage = "none"
                    /\ completion.stage \in {"none", "handle"}
    /\ call.op = "shutdown" => shutdown
    /\ loop \in {"cancel", "drain", "done"} => terminate /\ completion.stage = "none"
    /\ loop \in {"drain", "done"} => \A p \in Paths : status[p] # "LISTENING"
    /\ ReadsEndBeforeRunLoop

(* stopWatchingMovedPaths: a read it has cancelled stays cancelled, and a  *)
(* handle it has closed under a read is known to the run loop's thread     *)
(* before the next command.                                                *)
Moved ==
    /\ call.stage \in {"check", "cancel", "mark", "close", "closing", "finish"} =>
          call.path \in Paths
    /\ call.stage = "finish" => handle[call.path] = "closed" /\ io[call.path] # "pending"
    /\ call.stage = "mark" =>
          /\ io[call.path] \in {"aborted", "none"}
          /\ completion.stage \in {"handle", "listen"} => completion.path # call.path
    /\ \A p \in Paths :
          handle[p] = "closed" /\ (status[p] = "LISTENING" \/ Started(p)) =>
             io[p] \in Results /\ executing.stage = "none" /\ Ahead(apcs, p)

(* A watch point that is being destroyed is no longer used.                *)
Destroying ==
    loop = "sleep" /\ executing.stage \in {"drain", "free"} =>
       /\ executing.stage = "drain"
       /\ executing.todo # <<>>
       /\ status[Path] # "LISTENING"
       /\ completion.stage # "none" => completion.path # Path

Inv == TypeOK /\ Reads /\ Commands /\ Ending /\ Moved /\ Destroying

Items == Paths \cup {Command}

-------------------------------------------------------------------------------
(* The queue of the run loop's thread.                                     *)

LEMMA QueueAppend ==
    ASSUME NEW q \in Seq(Items), NEW x \in Items
    PROVE  LET r == Append(q, x)
           IN  /\ r \in Seq(Items)
               /\ \A y : Queued(r, y) <=> Queued(q, y) \/ y = x
               /\ Once(q) /\ ~Queued(q, x) => Once(r)
               /\ \A p : Ahead(q, p) => Ahead(r, p)
<1> DEFINE r == Append(q, x)
<1>1. /\ r \in Seq(Items) /\ Len(q) \in Nat /\ Len(r) = Len(q) + 1
      /\ \A i \in 1 .. Len(q) : r[i] = q[i]
      /\ r[Len(q) + 1] = x
  BY AppendProperties, LenProperties
<1> HIDE DEF r
<1>2. \A y : Queued(r, y) <=> Queued(q, y) \/ y = x
  BY <1>1 DEF Queued
<1>3. Once(q) /\ ~Queued(q, x) => Once(r)
  BY <1>1 DEF Queued, Once
<1>4. \A p : Ahead(q, p) => Ahead(r, p)
  BY <1>1 DEF Ahead
<1> QED
  BY <1>1, <1>2, <1>3, <1>4 DEF r

LEMMA QueueTail ==
    ASSUME NEW q \in Seq(Items), q # <<>>
    PROVE  /\ Head(q) \in Items
           /\ Tail(q) \in Seq(Items)
           /\ \A y : Queued(q, y) <=> Queued(Tail(q), y) \/ y = Head(q)
           /\ Once(q) => Once(Tail(q)) /\ ~Queued(Tail(q), Head(q))
           /\ \A p \in Paths : Ahead(q, p) =>
                 Head(q) # Command /\ (p # Head(q) => Ahead(Tail(q), p))
<1> DEFINE r == Tail(q)
<1>1. /\ r \in Seq(Items) /\ Len(q) \in Nat \ {0} /\ Len(r) = Len(q) - 1
      /\ \A i \in 1 .. Len(r) : r[i] = q[i + 1]
      /\ Head(q) = q[1] /\ Head(q) \in Items
  BY HeadTailProperties, LenProperties, EmptySeq
<1> HIDE DEF r
<1>2. ASSUME NEW i \in 1 .. Len(q), i # 1
      PROVE  i - 1 \in 1 .. Len(r) /\ r[i - 1] = q[i]
  BY <1>1, <1>2
<1>3. ASSUME NEW i \in 1 .. Len(r)
      PROVE  i + 1 \in 1 .. Len(q) /\ q[i + 1] = r[i] /\ i + 1 # 1
  BY <1>1
<1>4. ASSUME NEW y PROVE Queued(q, y) <=> Queued(r, y) \/ y = Head(q)
  <2>1. ASSUME Queued(q, y) PROVE Queued(r, y) \/ y = Head(q)
    BY <1>1, <1>2, <2>1 DEF Queued
  <2>2. ASSUME Queued(r, y) PROVE Queued(q, y)
    BY <1>3, <2>2 DEF Queued
  <2>3. Queued(q, Head(q))
    BY <1>1 DEF Queued
  <2> QED
    BY <2>1, <2>2, <2>3
<1>5. Once(q) => Once(r) /\ ~Queued(r, Head(q))
  <2> SUFFICES ASSUME Once(q) PROVE Once(r) /\ ~Queued(r, Head(q))
    OBVIOUS
  <2>1. ASSUME NEW i \in 1 .. Len(r), NEW j \in 1 .. Len(r), r[i] = r[j] PROVE i = j
    <3>1. i + 1 = j + 1
      BY <1>3, <2>1 DEF Once
    <3> QED
      BY <3>1
  <2>2. ASSUME NEW i \in 1 .. Len(r), r[i] = Head(q) PROVE FALSE
    <3>1. 1 \in 1 .. Len(q) /\ q[1] = Head(q)
      BY <1>1
    <3> QED
      BY <1>3, <2>2, <3>1 DEF Once
  <2> QED
    BY <2>1, <2>2 DEF Queued, Once
<1>6. ASSUME NEW p \in Paths, Ahead(q, p)
      PROVE  Head(q) # Command /\ (p # Head(q) => Ahead(r, p))
  <2>1. PICK i \in 1 .. Len(q) : q[i] = p /\ \A j \in 1 .. i - 1 : q[j] # Command
    BY <1>6 DEF Ahead
  <2>2. CASE i = 1
    BY <1>1, <2>1, <2>2, CommandAssumption
  <2>3. CASE i # 1
    <3>1. Head(q) # Command
      BY <1>1, <2>1, <2>3
    <3>2. i - 1 \in 1 .. Len(r) /\ r[i - 1] = p
      BY <1>2, <2>1, <2>3
    <3>3. \A j \in 1 .. (i - 1) - 1 : r[j] # Command
      BY <1>1, <2>1, <2>3
    <3> QED
      BY <3>1, <3>2, <3>3 DEF Ahead
  <2> QED
    BY <2>2, <2>3
<1> QED
  BY <1>1, <1>4, <1>5, <1>6 DEF r

LEMMA QueueEmpty == \A y : ~Queued(<<>>, y)
BY EmptySeq DEF Queued

(* What is ahead of every command is queued.                               *)
LEMMA AheadIsQueued ==
    /\ \A q, p : Ahead(q, p) => Queued(q, p)
    /\ \A q, p : Queued(q, p) /\ ~Queued(q, Command) => Ahead(q, p)
BY DEF Ahead, Queued

(* The completion of a read goes to the end of the queue.                  *)
LEMMA CompletionIsQueued ==
    ASSUME TypeOK, Reads, NEW path \in Paths, NEW result \in Results,
           io[path] \notin Results, Complete(path, result)
    PROVE  /\ io' = [io EXCEPT ![path] = result]
           /\ io' \in [Paths -> Results \cup {"none", "pending"}]
           /\ apcs' \in Seq(Items)
           /\ \A y : Queued(apcs', y) <=> Queued(apcs, y) \/ y = path
           /\ Once(apcs')
           /\ \A p : Ahead(apcs, p) => Ahead(apcs', p)
<1>1. apcs \in Seq(Items) /\ path \in Items /\ ~Queued(apcs, path) /\ Once(apcs)
  BY DEF TypeOK, SystemTypeOK, Items, Reads
<1>2. io' \in [Paths -> Results \cup {"none", "pending"}]
  BY DEF TypeOK, SystemTypeOK, Complete
<1> QED
  BY <1>1, <1>2, QueueAppend DEF Complete

(* What a step may do to the reads from outside of the run loop, and the   *)
(* rest of the server's state not change: end reads that are under way.    *)
ReadsEnd ==
    \/ UNCHANGED <<io, apcs>>
    \/ \E path \in Paths, result \in Results :
          io[path] = "pending" /\ Complete(path, result)

LEMMA ReadsEndInv ==
    ASSUME TypeOK, Reads, ReadsEnd, UNCHANGED <<status, completion>>
    PROVE  /\ Reads'
           /\ io' \in [Paths -> Results \cup {"none", "pending"}]
           /\ apcs' \in Seq(Items)
           /\ Queued(apcs', Command) => Queued(apcs, Command)
           /\ \A p \in Paths : Ahead(apcs, p) => Ahead(apcs', p)
           /\ \A p \in Paths : io[p] # "pending" => io'[p] = io[p]
           /\ \A p \in Paths : io'[p] # io[p] => io'[p] \in Results
<1>1. CASE UNCHANGED <<io, apcs>>
  BY <1>1 DEF TypeOK, SystemTypeOK, Items, Reads, Started, ListeningReads
<1>2. CASE \E path \in Paths, result \in Results :
              io[path] = "pending" /\ Complete(path, result)
  <2>1. PICK path \in Paths, result \in Results :
                io[path] = "pending" /\ Complete(path, result)
    BY <1>2
  <2>2. /\ io' = [io EXCEPT ![path] = result]
        /\ io' \in [Paths -> Results \cup {"none", "pending"}]
        /\ apcs' \in Seq(Items)
        /\ \A y : Queued(apcs', y) <=> Queued(apcs, y) \/ y = path
        /\ Once(apcs')
        /\ \A p : Ahead(apcs, p) => Ahead(apcs', p)
    BY <2>1, CompletionIsQueued DEF Results
  <2>3. result \notin {"none", "pending"}
    BY DEF Results
  <2>4. io \in [Paths -> Results \cup {"none", "pending"}]
    BY DEF TypeOK, SystemTypeOK
  <2>5. Reads'
    BY <2>1, <2>2, <2>3, <2>4 DEF Reads, Started, ListeningReads
  <2> QED
    BY <2>1, <2>2, <2>4, <2>5, CommandAssumption
<1> QED
  BY <1>1, <1>2 DEF ReadsEnd

LEMMA FileSystemInv ==
    ASSUME Inv, FileSystem
    PROVE  Inv'
<1> USE DEF loopVars, serverVars, userVars
<1>1. /\ UNCHANGED <<status, terminate, loop, executing, completion, call, calls, shutdown>>
      /\ UNCHANGED failed
  BY DEF FileSystem
<1>2. /\ ReadsEnd
      /\ there' \subseteq Paths /\ buffered' \subseteq Paths /\ changes' \in 0 .. Changes
      /\ handle' \in [Paths -> {"none", "here", "moved", "deleted", "closed"}]
      /\ \A p \in Paths : handle'[p] = "closed" <=> handle[p] = "closed"
      /\ missed' \subseteq Paths
  <2>1. PICK path \in Paths :
          \/ /\ \/ CreateDirectory(path) \/ DeleteDirectory(path) \/ MoveAway(path)
                \/ MoveBack(path) \/ ReadError(path)
             /\ UNCHANGED missed
          \/ /\ Content(path)
             /\ missed' = IF Owed(path) THEN missed \cup {path} ELSE missed
    BY DEF FileSystem
  <2>2. /\ there \subseteq Paths /\ buffered \subseteq Paths /\ changes \in 0 .. Changes
        /\ handle \in [Paths -> {"none", "here", "moved", "deleted", "closed"}]
        /\ missed \subseteq Paths
    BY DEF Inv, TypeOK, SystemTypeOK
  <2>3. changes' \in 0 .. Changes
    BY <2>1, <2>2, ChangesAssumption
       DEF CreateDirectory, DeleteDirectory, MoveAway, MoveBack, ReadError, Content, Changing
  <2>4. ReadsEnd
    BY <2>1 DEF CreateDirectory, DeleteDirectory, MoveAway, MoveBack, ReadError, Content,
                Ends, ReadsEnd, Results
  <2>5. /\ there' \subseteq Paths /\ buffered' \subseteq Paths /\ missed' \subseteq Paths
        /\ handle' \in [Paths -> {"none", "here", "moved", "deleted", "closed"}]
        /\ \A p \in Paths : handle'[p] = "closed" <=> handle[p] = "closed"
    BY <2>1, <2>2
       DEF CreateDirectory, DeleteDirectory, MoveAway, MoveBack, ReadError, Content
  <2> QED
    BY <2>3, <2>4, <2>5
<1>3. /\ Reads'
      /\ io' \in [Paths -> Results \cup {"none", "pending"}]
      /\ apcs' \in Seq(Items)
      /\ Queued(apcs', Command) => Queued(apcs, Command)
      /\ \A p \in Paths : Ahead(apcs, p) => Ahead(apcs', p)
      /\ \A p \in Paths : io[p] # "pending" => io'[p] = io[p]
      /\ \A p \in Paths : io'[p] # io[p] => io'[p] \in Results
  BY <1>1, <1>2, ReadsEndInv DEF Inv
<1>4. TypeOK'
  BY <1>1, <1>2, <1>3 DEF Inv, TypeOK, SystemTypeOK, Items
<1>5. Commands'
  BY <1>1, <1>3 DEF Inv, Commands, MemoryOutlivesUse
<1>6. Ending'
  BY <1>1, <1>3 DEF Inv, Ending, ReadsEndBeforeRunLoop
<1>7. Moved'
  BY <1>1, <1>2, <1>3 DEF Inv, Moved, Started, Results
<1>8. Destroying'
  BY <1>1 DEF Inv, Destroying, Path
<1> QED
  BY <1>3, <1>4, <1>5, <1>6, <1>7, <1>8 DEF Inv

(* The run loop's thread takes the completion of a read from its queue.    *)
LEMMA DeliverInv ==
    ASSUME Inv, DeliverStep
    PROVE  Inv'
<1> USE DEF fsVars, userVars, Silent
<1>1. /\ Alertable
      /\ UNCHANGED <<there, buffered, changes, terminate, loop, executing, call, calls, shutdown>>
      /\ UNCHANGED <<missed, failed>>
  BY DEF DeliverStep
<1>2. PICK path \in Paths :
         /\ Head(apcs) = path
         /\ io' = [io EXCEPT ![path] = "none"]
         /\ DeliverAbort(path) \/ DeliverIgnored(path) \/ DeliverResult(path)
  BY DEF DeliverStep
<1>3. /\ apcs' \in Seq(Items)
      /\ \A y : Queued(apcs, y) <=> Queued(apcs', y) \/ y = path
      /\ Once(apcs') /\ ~Queued(apcs', path)
      /\ \A p \in Paths : Ahead(apcs, p) /\ p # path => Ahead(apcs', p)
  <2>1. apcs \in Seq(Items) /\ apcs # <<>> /\ apcs' = Tail(apcs)
    BY DEF Inv, TypeOK, SystemTypeOK, Items, DeliverStep, Alertable
  <2> QED
    BY <1>2, <2>1, QueueTail DEF Inv, Reads
<1>4. /\ TypeOK /\ Reads /\ Commands /\ Ending /\ Moved /\ Destroying
      /\ completion.stage = "none"
      /\ \/ loop = "sleep" /\ executing.stage \in {"none", "drain"}
         \/ loop = "drain"
  BY <1>1 DEF Inv, Alertable
<1>5. /\ io \in [Paths -> Results \cup {"none", "pending"}]
      /\ status \in [Paths -> {"ABSENT", "NOT_LISTENING", "LISTENING", "CANCELLED", "FINISHED"}]
      /\ handle \in [Paths -> {"none", "here", "moved", "deleted", "closed"}]
  BY <1>4 DEF TypeOK, SystemTypeOK
<1>6. CASE DeliverAbort(path)
  <2>1. /\ status' = [status EXCEPT ![path] = "FINISHED"]
        /\ handle' = [handle EXCEPT ![path] = "closed"]
        /\ UNCHANGED completion
    BY <1>6 DEF DeliverAbort, Closed
  <2>2. TypeOK'
    BY <1>1, <1>2, <1>3, <1>4, <1>5, <2>1 DEF TypeOK, SystemTypeOK, Items
  <2>3. Reads'
    BY <1>2, <1>3, <1>4, <1>5, <2>1 DEF Reads, ListeningReads, Started, Results
  <2>4. Commands'
    BY <1>1, <1>3, <1>4, <2>1 DEF Commands, MemoryOutlivesUse
  <2>5. Ending'
    BY <1>1, <1>2, <1>4, <1>5, <2>1 DEF Ending, ReadsEndBeforeRunLoop
  <2>6. Moved'
    BY <1>1, <1>2, <1>3, <1>4, <1>5, <2>1 DEF Moved, Started
  <2>7. Destroying'
    BY <1>1, <1>4, <1>5, <2>1 DEF Destroying, Path
  <2> QED
    BY <2>2, <2>3, <2>4, <2>5, <2>6, <2>7 DEF Inv
<1>7. CASE DeliverIgnored(path)
  <2>1. UNCHANGED <<status, handle, completion>> /\ status[path] # "LISTENING"
    BY <1>7 DEF DeliverIgnored
  <2>2. TypeOK'
    BY <1>1, <1>2, <1>3, <1>4, <1>5, <2>1 DEF TypeOK, SystemTypeOK, Items
  <2>3. Reads'
    BY <1>2, <1>3, <1>4, <1>5, <2>1 DEF Reads, ListeningReads, Started, Results
  <2>4. Commands'
    BY <1>1, <1>3, <1>4, <2>1 DEF Commands, MemoryOutlivesUse
  <2>5. Ending'
    BY <1>1, <1>2, <1>4, <1>5, <2>1 DEF Ending, ReadsEndBeforeRunLoop
  <2>6. Moved'
    BY <1>1, <1>2, <1>3, <1>4, <1>5, <2>1 DEF Moved, Started
  <2>7. Destroying'
    BY <1>1, <1>4, <1>5, <2>1 DEF Destroying, Path
  <2> QED
    BY <2>2, <2>3, <2>4, <2>5, <2>6, <2>7 DEF Inv
<1>8. CASE DeliverResult(path)
  <2>1. /\ io[path] # "aborted" /\ status[path] = "LISTENING"
        /\ status' = [status EXCEPT ![path] = "NOT_LISTENING"]
        /\ completion' = [stage |-> "handle", path |-> path, result |-> io[path]]
        /\ UNCHANGED handle
    BY <1>8 DEF DeliverResult, Busy
  <2>2. io[path] \in Results
    BY <1>3, <1>4 DEF Reads
  <2>3. TypeOK'
    BY <1>1, <1>2, <1>3, <1>4, <1>5, <2>1, <2>2 DEF TypeOK, SystemTypeOK, Items
  <2>4. Reads'
    BY <1>2, <1>3, <1>4, <1>5, <2>1 DEF Reads, ListeningReads, Started, Results
  <2>5. loop = "sleep"
    BY <1>4, <2>1 DEF Ending
  <2>6. Commands'
    BY <1>1, <1>3, <1>4, <2>1, <2>5 DEF Commands, MemoryOutlivesUse
  <2>7. Ending'
    BY <1>1, <1>4, <1>5, <2>1, <2>5 DEF Ending, ReadsEndBeforeRunLoop
  <2>8. Moved'
    BY <1>1, <1>2, <1>3, <1>4, <1>5, <2>1, <2>2 DEF Moved, Started, Results
  <2>9. Destroying'
    BY <1>1, <1>4, <1>5, <2>1 DEF Destroying, Path
  <2> QED
    BY <2>3, <2>4, <2>6, <2>7, <2>8, <2>9 DEF Inv
<1> QED
  BY <1>2, <1>6, <1>7, <1>8

(* A report names one path, and is one of four.                            *)
LEMMA ReportTyped ==
    ASSUME TypeOK, NEW kind \in {"events", "overflow", "removed", "failure"},
           NEW path \in Paths, Report(kind, path)
    PROVE  /\ missed' \subseteq Paths /\ failed' \subseteq Paths
BY DEF Report, TypeOK

(* The completion routine closes the watch point it is executed for, at    *)
(* its beginning or when it cannot listen again.                           *)
LEMMA HandleClosesInv ==
    ASSUME Inv, UNCHANGED <<there, changes, terminate, loop, executing, userVars>>,
           completion.stage \in {"handle", "listen"},
           Closed(completion.path), Handled, NoRead,
           missed' \subseteq Paths, failed' \subseteq Paths
    PROVE  Inv'
<1> USE DEF userVars
<1> DEFINE p == completion.path
<1>1. /\ TypeOK /\ Reads /\ Commands /\ Ending /\ Moved /\ Destroying
      /\ p \in Paths /\ io[p] = "none"
  BY DEF Inv, Reads
<1>2. /\ status \in [Paths -> {"ABSENT", "NOT_LISTENING", "LISTENING", "CANCELLED", "FINISHED"}]
      /\ handle \in [Paths -> {"none", "here", "moved", "deleted", "closed"}]
  BY <1>1 DEF TypeOK, SystemTypeOK
<1>3. /\ status' = [status EXCEPT ![p] = "FINISHED"]
      /\ handle' = [handle EXCEPT ![p] = "closed"]
      /\ completion' = NoCompletion
      /\ UNCHANGED <<io, buffered, apcs>>
  BY DEF Closed, Handled, NoRead
<1> HIDE DEF p
<1>4. NoCompletion = [stage |-> "none", path |-> NoPath, result |-> "none"]
  BY DEF NoCompletion
<1>5. TypeOK'
  BY <1>1, <1>2, <1>3, <1>4 DEF TypeOK, SystemTypeOK
<1>6. Reads'
  BY <1>1, <1>2, <1>3, <1>4 DEF Reads, ListeningReads, Started, Results, p
<1>7. Commands'
  BY <1>1, <1>3, <1>4 DEF Commands, MemoryOutlivesUse
<1>8. Ending'
  BY <1>1, <1>2, <1>3, <1>4 DEF Ending, ReadsEndBeforeRunLoop
<1>9. Moved'
  BY <1>1, <1>2, <1>3, <1>4 DEF Moved, Started
<1>10. Destroying'
  BY <1>1, <1>2, <1>3, <1>4 DEF Destroying, Path
<1> QED
  BY <1>5, <1>6, <1>7, <1>8, <1>9, <1>10 DEF Inv

(* The completion routine goes on or ends, and changes nothing else.       *)
LEMMA HandleGoesOnInv ==
    ASSUME Inv, UNCHANGED <<there, changes, terminate, loop, executing, userVars>>,
           completion.stage = "handle",
           \/ Handled
           \/ completion' = [completion EXCEPT !.stage = "listen"] /\ ~terminate,
           Same, NoRead,
           missed' \subseteq Paths, failed' \subseteq Paths
    PROVE  Inv'
<1> USE DEF userVars, Same, NoRead, Handled
<1>1. TypeOK /\ Reads /\ Commands /\ Ending /\ Moved /\ Destroying
  BY DEF Inv
<1>2. NoCompletion = [stage |-> "none", path |-> NoPath, result |-> "none"]
  BY DEF NoCompletion
<1>3. completion \in [stage : {"none", "handle", "listen", "started"},
                      path : Paths \cup {NoPath}, result : Results \cup {"none"}]
  BY <1>1 DEF TypeOK
<1>4. /\ completion'.stage \in {"none", "listen"}
      /\ completion'.stage # "none" => completion'.path = completion.path /\ ~terminate
      /\ completion' \in [stage : {"none", "handle", "listen", "started"},
                          path : Paths \cup {NoPath}, result : Results \cup {"none"}]
  BY <1>2, <1>3
<1>5. TypeOK'
  BY <1>1, <1>4 DEF TypeOK, SystemTypeOK
<1>6. Reads'
  BY <1>1, <1>4 DEF Reads, ListeningReads, Started
<1>7. Commands'
  BY <1>1, <1>4 DEF Commands, MemoryOutlivesUse
<1>8. Ending'
  BY <1>1, <1>4 DEF Ending, ReadsEndBeforeRunLoop
<1>9. Moved'
  BY <1>1, <1>4 DEF Moved, Started
<1>10. Destroying'
  BY <1>1, <1>4 DEF Destroying, Path
<1> QED
  BY <1>5, <1>6, <1>7, <1>8, <1>9, <1>10 DEF Inv

(* What the beginning of a read does to the queue.                         *)
LEMMA ReadBegun ==
    ASSUME TypeOK, Reads, NEW path \in Paths, io[path] = "none", Read(path)
    PROVE  /\ \E result \in {"pending", "events", "overflow"} :
                 /\ io' = [io EXCEPT ![path] = result]
                 /\ \A y : Queued(apcs', y) <=>
                       Queued(apcs, y) \/ (result # "pending" /\ y = path)
           /\ io' \in [Paths -> Results \cup {"none", "pending"}]
           /\ apcs' \in Seq(Items)
           /\ buffered' \subseteq Paths
           /\ Once(apcs')
           /\ \A p : Ahead(apcs, p) => Ahead(apcs', p)
<1>1. CASE path \in buffered
  <2>1. PICK result \in {"events", "overflow"} : Complete(path, result)
    BY <1>1 DEF Read
  <2>2. buffered' \subseteq Paths
    BY <1>1 DEF Read, TypeOK, SystemTypeOK
  <2>3. io[path] \notin Results /\ result \in Results
    BY DEF Results
  <2> QED
    BY <2>1, <2>2, <2>3, CompletionIsQueued
<1>2. CASE path \notin buffered
  <2>1. io' = [io EXCEPT ![path] = "pending"] /\ UNCHANGED <<buffered, apcs>>
    BY <1>2 DEF Read
  <2>2. io' \in [Paths -> Results \cup {"none", "pending"}]
    BY <2>1 DEF TypeOK, SystemTypeOK
  <2> QED
    BY <2>1, <2>2 DEF TypeOK, SystemTypeOK, Reads, Items
<1> QED
  BY <1>1, <1>2

LEMMA ListenAgainInv ==
    ASSUME Inv, UNCHANGED <<there, changes, terminate, loop, executing, userVars>>,
           ListenAgain
    PROVE  Inv'
<1> USE DEF userVars, Same, Silent
<1> DEFINE p == completion.path
<1>1. /\ TypeOK /\ Reads /\ Commands /\ Ending /\ Moved /\ Destroying
      /\ p \in Paths /\ io[p] = "none" /\ status[p] # "ABSENT" /\ ~terminate
      /\ completion.stage = "listen" /\ handle[p] # "closed"
      /\ completion' = [completion EXCEPT !.stage = "started"]
      /\ UNCHANGED <<handle, status, missed, failed>>
  BY DEF Inv, Reads, Ending, ListenAgain
<1>2. PICK result \in {"pending", "events", "overflow"} :
         /\ io' = [io EXCEPT ![p] = result]
         /\ \A y : Queued(apcs', y) <=> Queued(apcs, y) \/ (result # "pending" /\ y = p)
  BY <1>1, ReadBegun DEF ListenAgain
<1>3. /\ io' \in [Paths -> Results \cup {"none", "pending"}]
      /\ apcs' \in Seq(Items)
      /\ buffered' \subseteq Paths
      /\ Once(apcs')
      /\ \A q : Ahead(apcs, q) => Ahead(apcs', q)
  BY <1>1, ReadBegun DEF ListenAgain
<1>4. /\ completion \in [stage : {"none", "handle", "listen", "started"},
                         path : Paths \cup {NoPath}, result : Results \cup {"none"}]
      /\ io \in [Paths -> Results \cup {"none", "pending"}]
  BY <1>1 DEF TypeOK, SystemTypeOK
<1>5. /\ completion'.stage = "started" /\ completion'.path = p
      /\ completion' \in [stage : {"none", "handle", "listen", "started"},
                          path : Paths \cup {NoPath}, result : Results \cup {"none"}]
  BY <1>1, <1>4
<1>6. TypeOK'
  BY <1>1, <1>3, <1>5 DEF TypeOK, SystemTypeOK, Items
<1> HIDE DEF p
<1>7. Reads'
  BY <1>1, <1>2, <1>3, <1>4, <1>5 DEF Reads, ListeningReads, Started, Results
<1>8. Commands'
  BY <1>1, <1>2, <1>5, CommandAssumption DEF Commands, MemoryOutlivesUse, p
<1>9. Ending'
  BY <1>1, <1>5 DEF Ending, ReadsEndBeforeRunLoop, p
<1>10. Moved'
  BY <1>1, <1>2, <1>3, <1>4, <1>5 DEF Moved, Started, Results, p
<1>11. Destroying'
  BY <1>1, <1>5 DEF Destroying, Path, p
<1> QED
  BY <1>6, <1>7, <1>8, <1>9, <1>10, <1>11 DEF Inv

LEMMA ListeningInv ==
    ASSUME Inv, UNCHANGED <<there, changes, terminate, loop, executing, userVars>>,
           Listening
    PROVE  Inv'
<1> USE DEF userVars, Silent
<1> DEFINE p == completion.path
<1>1. /\ TypeOK /\ Reads /\ Commands /\ Ending /\ Moved /\ Destroying
      /\ p \in Paths /\ io[p] # "none" /\ ~terminate
      /\ completion.stage = "started"
      /\ status' = [status EXCEPT ![p] = "LISTENING"]
      /\ completion' = NoCompletion
      /\ UNCHANGED <<io, buffered, apcs, handle, missed, failed>>
  BY DEF Inv, Reads, Ending, Listening, Handled, NoRead
<1>2. NoCompletion = [stage |-> "none", path |-> NoPath, result |-> "none"]
  BY DEF NoCompletion
<1>3. status \in [Paths -> {"ABSENT", "NOT_LISTENING", "LISTENING", "CANCELLED", "FINISHED"}]
  BY <1>1 DEF TypeOK
<1>4. TypeOK'
  BY <1>1, <1>2, <1>3 DEF TypeOK, SystemTypeOK
<1> HIDE DEF p
<1>5. Reads'
  BY <1>1, <1>2, <1>3 DEF Reads, ListeningReads, Started, p
<1>6. Commands'
  BY <1>1, <1>2 DEF Commands, MemoryOutlivesUse
<1>7. Ending'
  BY <1>1, <1>2 DEF Ending, ReadsEndBeforeRunLoop
<1>8. Moved'
  BY <1>1, <1>2, <1>3 DEF Moved, Started, p
<1>9. Destroying'
  BY <1>1, <1>2, <1>3 DEF Destroying, Path, p
<1> QED
  BY <1>4, <1>5, <1>6, <1>7, <1>8, <1>9 DEF Inv

LEMMA HandleInv ==
    ASSUME Inv, HandleStep
    PROVE  Inv'
<1>1. UNCHANGED <<there, changes, terminate, loop, executing, userVars>>
  BY DEF HandleStep
<1>2. TypeOK /\ Reads
  BY DEF Inv
<1>3. CASE HandleDenied \/ HandleMoved
  <2>1. /\ completion.stage = "handle" /\ completion.path \in Paths
        /\ Report("removed", completion.path) /\ Closed(completion.path) /\ Handled /\ NoRead
    BY <1>2, <1>3 DEF HandleDenied, HandleMoved, ReportDeleted, Handling, Reads
  <2> QED
    BY <1>1, <1>2, <2>1, ReportTyped, HandleClosesInv
<1>4. CASE ListenFails
  <2>1. /\ completion.stage = "listen" /\ completion.path \in Paths
        /\ \/ Report("failure", completion.path)
           \/ Report("removed", completion.path)
        /\ Closed(completion.path) /\ Handled /\ NoRead
    BY <1>2, <1>4 DEF ListenFails, Reads
  <2> QED
    BY <1>1, <1>2, <2>1, ReportTyped, HandleClosesInv
<1>5. CASE HandleError
  <2>1. /\ completion.stage = "handle" /\ completion.path \in Paths
        /\ Report("failure", completion.path) /\ Handled /\ NoRead /\ Same
    BY <1>2, <1>5 DEF HandleError, Handling, Reads
  <2> QED
    BY <1>1, <1>2, <2>1, ReportTyped, HandleGoesOnInv
<1>6. CASE HandleTerminating
  <2>1. /\ completion.stage = "handle" /\ Handled /\ NoRead /\ Same
        /\ missed' \subseteq Paths /\ failed' \subseteq Paths
    BY <1>2, <1>6 DEF HandleTerminating, InPlace, Handling, Silent, TypeOK
  <2> QED
    BY <1>1, <2>1, HandleGoesOnInv
<1>7. CASE HandleEvents
  <2>1. /\ completion.stage = "handle" /\ completion.path \in Paths
        /\ completion.result \in {"events", "overflow"}
        /\ Report(completion.result, completion.path)
        /\ completion' = [completion EXCEPT !.stage = "listen"] /\ ~terminate
        /\ NoRead /\ Same
    BY <1>2, <1>7 DEF HandleEvents, InPlace, Handling, Reads, ReportEvents, Reported
  <2> QED
    BY <1>1, <1>2, <2>1, ReportTyped, HandleGoesOnInv
<1> QED
  BY <1>1, <1>3, <1>4, <1>5, <1>6, <1>7, ListenAgainInv, ListeningInv DEF HandleStep

-------------------------------------------------------------------------------
(* Commands.                                                               *)

(* A command that only changes where it is: its list, its stage, its call. *)
LEMMA CommandOnlyInv ==
    ASSUME Inv, UNCHANGED <<there, changes, completion, shutdown, calls>>,
           Unwatched, UNCHANGED <<apcs, loop>>,
           loop = "sleep", executing.stage = "next",
           missed' \subseteq Paths, failed' \subseteq Paths,
           \/ Answer /\ terminate' \in BOOLEAN /\ (terminate' => terminate \/ shutdown)
           \/ /\ UNCHANGED <<terminate, call>>
              /\ executing.todo # <<>>
              /\ \/ executing' = [executing EXCEPT !.todo = Tail(@)]
                 \/ /\ executing' = [executing EXCEPT !.stage = "drain"]
                    /\ status[Path] # "LISTENING"
    PROVE  Inv'
<1> USE DEF Unwatched
<1>1. /\ TypeOK /\ Reads /\ Commands /\ Ending /\ Moved /\ Destroying
      /\ executing \in [stage : {"none", "next", "drain", "free"}, todo : Seq(Paths)]
      /\ ~terminate /\ completion.stage = "none" /\ call.stage = "wait"
      /\ ~Queued(apcs, Command)
  BY DEF Inv, TypeOK, Commands, Ending
<1>2. CASE Answer /\ terminate' \in BOOLEAN /\ (terminate' => terminate \/ shutdown)
  <2>1. /\ executing' = [stage |-> "none", todo |-> <<>>]
        /\ call' = [op |-> "none", stage |-> "idle", todo |-> <<>>, left |-> {},
                    path |-> NoPath, throws |-> FALSE]
        /\ terminate' \in BOOLEAN /\ (terminate' => shutdown)
    BY <1>1, <1>2 DEF Answer, NoCommand, NoCall
  <2>2. /\ executing' \in [stage : {"none", "next", "drain", "free"}, todo : Seq(Paths)]
        /\ call' \in [op : {"none", "start", "stop", "shutdown", "moved"},
                      stage : {"idle", "wait", "gone", "look", "check", "cancel",
                               "mark", "close", "closing", "finish"},
                      todo : Seq(Paths), left : SUBSET Paths,
                      path : Paths \cup {NoPath}, throws : BOOLEAN]
    BY <2>1, EmptySeq
  <2>3. TypeOK'
    BY <1>1, <2>1, <2>2 DEF TypeOK, SystemTypeOK
  <2>4. Reads'
    BY <1>1 DEF Reads, ListeningReads, Started
  <2>5. Commands'
    BY <1>1, <2>1 DEF Commands, MemoryOutlivesUse
  <2>6. Ending'
    BY <1>1, <2>1 DEF Ending, ReadsEndBeforeRunLoop
  <2>7. Moved'
    BY <1>1, <2>1 DEF Moved, Started
  <2>8. Destroying'
    BY <2>1 DEF Destroying
  <2> QED
    BY <2>3, <2>4, <2>5, <2>6, <2>7, <2>8 DEF Inv
<1>3. CASE /\ UNCHANGED <<terminate, call>>
           /\ executing.todo # <<>>
           /\ \/ executing' = [executing EXCEPT !.todo = Tail(@)]
              \/ /\ executing' = [executing EXCEPT !.stage = "drain"]
                 /\ status[Path] # "LISTENING"
  <2>1. /\ executing' \in [stage : {"none", "next", "drain", "free"}, todo : Seq(Paths)]
        /\ \/ executing'.stage = "next"
           \/ /\ executing'.stage = "drain" /\ executing'.todo = executing.todo
              /\ status[Path] # "LISTENING"
    BY <1>1, <1>3, HeadTailProperties
  <2>2. TypeOK'
    BY <1>1, <1>3, <2>1 DEF TypeOK, SystemTypeOK
  <2>3. Reads'
    BY <1>1 DEF Reads, ListeningReads, Started
  <2>4. Commands'
    BY <1>1, <1>3 DEF Commands, MemoryOutlivesUse
  <2>5. Ending'
    BY <1>1, <1>3 DEF Ending, ReadsEndBeforeRunLoop
  <2>6. Moved'
    BY <1>1, <1>3, <2>1 DEF Moved, Started
  <2>7. Destroying'
    BY <1>1, <1>3, <2>1 DEF Destroying, Path
  <2> QED
    BY <2>2, <2>3, <2>4, <2>5, <2>6, <2>7 DEF Inv
<1> QED
  BY <1>2, <1>3

(* What all steps of commands leave behind.                                *)
LEMMA CommandStepTyped ==
    ASSUME Inv, CommandStep
    PROVE  /\ UNCHANGED <<there, changes, completion, shutdown, calls>>
           /\ missed' \subseteq Paths /\ failed' \subseteq Paths
BY DEF CommandStep, Inv, TypeOK

LEMMA StartInv ==
    ASSUME Inv, CommandStep, StartCommand \/ StartGoneCommand
    PROVE  Inv'
<1> USE DEF Unwatched, Waiting, TakeCommand
<1>1. /\ TypeOK /\ Reads /\ Commands /\ Ending /\ Moved /\ Destroying
      /\ UNCHANGED <<there, changes, completion, shutdown, calls, terminate, call>>
      /\ UNCHANGED <<handle, io, buffered, status>>
      /\ missed' \subseteq Paths /\ failed' \subseteq Paths
      /\ completion.stage = "none" /\ Head(apcs) = Command /\ apcs # <<>>
      /\ loop = "sleep" \/ loop = "drain"
      /\ call.stage \in {"wait", "gone"} /\ ~terminate
  BY CommandStepTyped DEF Inv, StartCommand, StartGoneCommand, Alertable, Ending
<1>2. /\ apcs' \in Seq(Items)
      /\ \A y : Queued(apcs, y) <=> Queued(apcs', y) \/ y = Command
      /\ Once(apcs') /\ ~Queued(apcs', Command)
      /\ \A p \in Paths : ~Ahead(apcs, p)
  <2>1. apcs \in Seq(Items) /\ apcs' = Tail(apcs) /\ Once(apcs)
    BY <1>1 DEF StartCommand, StartGoneCommand, TypeOK, SystemTypeOK, Items, Reads
  <2> QED
    BY <1>1, <2>1, QueueTail
<1>3. loop = "sleep" /\ executing.stage = "none"
  BY <1>1, <1>2 DEF Ending, Commands
<1>4. CASE StartCommand
  <2>1. /\ call.stage = "wait" /\ UNCHANGED loop
        /\ executing' = [stage |-> "next", todo |-> call.todo]
    BY <1>4 DEF StartCommand
  <2>2. executing' \in [stage : {"none", "next", "drain", "free"}, todo : Seq(Paths)]
    BY <1>1, <2>1 DEF TypeOK
  <2>3. TypeOK'
    BY <1>1, <1>2, <2>1, <2>2 DEF TypeOK, SystemTypeOK, Items
  <2>4. Reads'
    BY <1>1, <1>2, CommandAssumption DEF Reads, ListeningReads, Started
  <2>5. Commands'
    BY <1>1, <1>2, <1>3, <2>1 DEF Commands, MemoryOutlivesUse
  <2>6. Ending'
    BY <1>1, <1>3, <2>1 DEF Ending, ReadsEndBeforeRunLoop
  <2>7. Moved'
    BY <1>1, <1>2, <2>1 DEF Moved, Started
  <2>8. Destroying'
    BY <2>1 DEF Destroying
  <2> QED
    BY <2>3, <2>4, <2>5, <2>6, <2>7, <2>8 DEF Inv
<1>5. CASE StartGoneCommand
  <2>1. call.stage = "gone" /\ loop' = "undefined" /\ UNCHANGED executing
    BY <1>5 DEF StartGoneCommand
  <2>2. TypeOK'
    BY <1>1, <1>2, <2>1 DEF TypeOK, SystemTypeOK, Items
  <2>3. Reads'
    BY <1>1, <1>2, CommandAssumption DEF Reads, ListeningReads, Started
  <2>4. Commands'
    BY <1>1, <1>2, <1>3, <2>1 DEF Commands, MemoryOutlivesUse
  <2>5. Ending'
    BY <1>1, <1>3, <2>1 DEF Ending, ReadsEndBeforeRunLoop
  <2>6. Moved'
    BY <1>1, <1>2, <2>1 DEF Moved, Started
  <2>7. Destroying'
    BY <2>1 DEF Destroying
  <2> QED
    BY <2>2, <2>3, <2>4, <2>5, <2>6, <2>7 DEF Inv
<1> QED
  BY <1>4, <1>5

LEMMA AnswerInv ==
    ASSUME Inv, CommandStep,
           EndOfList \/ ExecuteShutdown \/ RegisterFails \/ RegisterErase \/ UnregisterNothing
    PROVE  Inv'
<1> USE DEF Waiting
<1>1. TypeOK /\ Ending
  BY DEF Inv
<1>2. CASE EndOfList \/ RegisterFails
  <2>1. /\ loop = "sleep" /\ executing.stage = "next" /\ Unwatched
        /\ UNCHANGED <<apcs, loop, terminate>> /\ Answer
    BY <1>2 DEF EndOfList, RegisterFails, AnswerFailure, Executing, InList
  <2> QED
    BY <1>1, <2>1, CommandStepTyped, CommandOnlyInv DEF TypeOK
<1>3. CASE ExecuteShutdown
  <2>1. /\ loop = "sleep" /\ executing.stage = "next" /\ Unwatched
        /\ UNCHANGED <<apcs, loop>> /\ terminate' = TRUE /\ call.op = "shutdown" /\ Answer
    BY <1>3 DEF ExecuteShutdown, Executing
  <2>2. shutdown
    BY <1>1, <2>1 DEF Ending
  <2> QED
    BY <2>1, <2>2, CommandStepTyped, CommandOnlyInv
<1>4. CASE RegisterErase \/ UnregisterNothing
  <2>1. /\ loop = "sleep" /\ executing.stage = "next" /\ executing.todo # <<>> /\ Unwatched
        /\ UNCHANGED <<apcs, loop, terminate, call>>
        /\ \/ executing' = [executing EXCEPT !.todo = Tail(@)]
           \/ /\ executing' = [executing EXCEPT !.stage = "drain"]
              /\ status[Path] # "LISTENING"
    BY <1>4 DEF RegisterErase, UnregisterNothing, NextPath, Executing, InList
  <2> QED
    BY <2>1, CommandStepTyped, CommandOnlyInv
<1> QED
  BY <1>2, <1>3, <1>4

(* A watch point is constructed, and its first read begun.                 *)
LEMMA RegisterNewInv ==
    ASSUME Inv, CommandStep, RegisterNew
    PROVE  Inv'
<1> USE DEF Waiting
<1> DEFINE path == Path
<1>1. /\ TypeOK /\ Reads /\ Commands /\ Ending /\ Moved /\ Destroying
      /\ UNCHANGED <<there, changes, completion, shutdown, calls, terminate, call, loop>>
      /\ missed' \subseteq Paths /\ failed' \subseteq Paths
      /\ loop = "sleep" /\ executing.stage = "next" /\ executing.todo # <<>>
      /\ status[path] = "ABSENT" /\ Read(path)
      /\ status' = [status EXCEPT ![path] = "LISTENING"]
      /\ handle' = [handle EXCEPT ![path] = "here"]
      /\ executing' = [executing EXCEPT !.todo = Tail(@)]
  BY CommandStepTyped DEF Inv, RegisterNew, InList, Executing, NextPath
<1>2. /\ executing \in [stage : {"none", "next", "drain", "free"}, todo : Seq(Paths)]
      /\ status \in [Paths -> {"ABSENT", "NOT_LISTENING", "LISTENING", "CANCELLED", "FINISHED"}]
      /\ handle \in [Paths -> {"none", "here", "moved", "deleted", "closed"}]
      /\ io \in [Paths -> Results \cup {"none", "pending"}]
  BY <1>1 DEF TypeOK, SystemTypeOK
<1>3. /\ path \in Paths
      /\ executing' \in [stage : {"none", "next", "drain", "free"}, todo : Seq(Paths)]
      /\ executing'.stage = "next"
  BY <1>1, <1>2, HeadTailProperties DEF Path
<1>4. /\ io[path] = "none" /\ completion.stage = "none" /\ call.stage = "wait" /\ ~terminate
      /\ ~Queued(apcs, Command)
  BY <1>1, <1>3 DEF Reads, Commands, Ending
<1> HIDE DEF path
<1>5. PICK result \in {"pending", "events", "overflow"} :
         /\ io' = [io EXCEPT ![path] = result]
         /\ \A y : Queued(apcs', y) <=> Queued(apcs, y) \/ (result # "pending" /\ y = path)
  BY <1>1, <1>3, <1>4, ReadBegun
<1>6. /\ io' \in [Paths -> Results \cup {"none", "pending"}]
      /\ apcs' \in Seq(Items)
      /\ buffered' \subseteq Paths
      /\ Once(apcs')
  BY <1>1, <1>3, <1>4, ReadBegun
<1>7. TypeOK'
  BY <1>1, <1>2, <1>3, <1>6 DEF TypeOK, SystemTypeOK, Items
<1>8. Reads'
  BY <1>1, <1>2, <1>3, <1>4, <1>5, <1>6 DEF Reads, ListeningReads, Started, Results
<1>9. Commands'
  BY <1>1, <1>3, <1>4, <1>5, CommandAssumption DEF Commands, MemoryOutlivesUse
<1>10. Ending'
  BY <1>1, <1>3, <1>4 DEF Ending, ReadsEndBeforeRunLoop
<1>11. Moved'
  BY <1>1, <1>2, <1>3, <1>4 DEF Moved, Started
<1>12. Destroying'
  BY <1>3 DEF Destroying
<1> QED
  BY <1>7, <1>8, <1>9, <1>10, <1>11, <1>12 DEF Inv

(* What cancel does to the state of a watch point that is listening: its   *)
(* read is cancelled and its completion queued, or it was over already.    *)
LEMMA CancelReads ==
    ASSUME TypeOK, Reads, Moved, NEW path \in Paths, status[path] = "LISTENING",
           Cancel(path), UNCHANGED completion
    PROVE  /\ Reads'
           /\ io' \in [Paths -> Results \cup {"none", "pending"}]
           /\ status' \in [Paths -> {"ABSENT", "NOT_LISTENING", "LISTENING", "CANCELLED", "FINISHED"}]
           /\ handle' \in [Paths -> {"none", "here", "moved", "deleted", "closed"}]
           /\ apcs' \in Seq(Items)
           /\ Queued(apcs', Command) => Queued(apcs, Command)
           /\ \A p : Ahead(apcs, p) => Ahead(apcs', p)
           /\ \A p \in Paths : io[p] # "pending" => io'[p] = io[p]
           /\ \A p \in Paths : p # path => io'[p] = io[p] /\ status'[p] = status[p]
                                           /\ handle'[p] = handle[p]
           /\ handle[path] = "closed" => handle'[path] = "closed"
           /\ status'[path] \in {"CANCELLED", "FINISHED"}
<1>1. /\ status \in [Paths -> {"ABSENT", "NOT_LISTENING", "LISTENING", "CANCELLED", "FINISHED"}]
      /\ handle \in [Paths -> {"none", "here", "moved", "deleted", "closed"}]
      /\ io \in [Paths -> Results \cup {"none", "pending"}]
      /\ apcs \in Seq(Items)
  BY DEF TypeOK, SystemTypeOK, Items
<1>2. CASE Cancellable(path)
  <2>1. /\ io[path] = "pending" /\ Complete(path, "aborted")
        /\ status' = [status EXCEPT ![path] = "CANCELLED"] /\ UNCHANGED handle
    BY <1>2 DEF Cancel, CancelIo, Cancellable
  <2>2. "aborted" \in Results /\ io[path] \notin Results
    BY <2>1 DEF Results
  <2>3. /\ io' = [io EXCEPT ![path] = "aborted"]
        /\ io' \in [Paths -> Results \cup {"none", "pending"}]
        /\ apcs' \in Seq(Items)
        /\ \A y : Queued(apcs', y) <=> Queued(apcs, y) \/ y = path
        /\ Once(apcs')
        /\ \A p : Ahead(apcs, p) => Ahead(apcs', p)
    BY <2>1, <2>2, CompletionIsQueued
  <2>4. Reads'
    BY <1>1, <2>1, <2>2, <2>3 DEF Reads, Started, ListeningReads
  <2> QED
    BY <1>1, <2>1, <2>3, <2>4, CommandAssumption
<1>3. CASE ~Cancellable(path)
  <2>1. /\ status' = [status EXCEPT ![path] = "FINISHED"]
        /\ handle' = [handle EXCEPT ![path] = "closed"]
        /\ UNCHANGED <<io, apcs>>
    BY <1>3 DEF Cancel, Closed
  <2>2. io[path] # "pending"
    BY <1>3 DEF Cancellable, Moved, Results
  <2>3. Reads'
    BY <1>1, <2>1, <2>2 DEF Reads, Started, ListeningReads
  <2> QED
    BY <1>1, <2>1, <2>3
<1> QED
  BY <1>2, <1>3

LEMMA UnregisterInv ==
    ASSUME Inv, CommandStep, Unregister
    PROVE  Inv'
<1> USE DEF Waiting
<1> DEFINE path == Path
<1>1. /\ TypeOK /\ Reads /\ Commands /\ Ending /\ Moved /\ Destroying
      /\ UNCHANGED <<there, changes, completion, shutdown, calls, terminate, call, loop, buffered>>
      /\ missed' \subseteq Paths /\ failed' \subseteq Paths
      /\ loop = "sleep" /\ executing.stage = "next" /\ executing.todo # <<>>
  BY CommandStepTyped DEF Inv, Unregister, InList, Executing
<1>2. executing \in [stage : {"none", "next", "drain", "free"}, todo : Seq(Paths)]
  BY <1>1 DEF TypeOK
<1>3. /\ path \in Paths /\ completion.stage = "none" /\ call.stage = "wait" /\ ~terminate
      /\ ~Queued(apcs, Command)
  BY <1>1, <1>2, HeadTailProperties DEF Path, Reads, Commands, Ending
<1>4. CASE status[Path] # "LISTENING"
  <2>1. /\ UNCHANGED <<handle, io, apcs, status>>
        /\ executing' = [executing EXCEPT !.stage = "drain"]
    BY <1>4 DEF Unregister
  <2> QED
    BY <1>1, <1>4, <2>1, CommandOnlyInv DEF Unwatched
<1>5. CASE status[Path] = "LISTENING"
  <2>1. handle[path] # "closed"
    BY <1>1, <1>3, <1>5 DEF Moved
  <2>2. Cancel(path) /\ executing' = [executing EXCEPT !.stage = "drain"]
    BY <1>5, <2>1 DEF Unregister, AfterCancel
  <2>3. /\ executing' \in [stage : {"none", "next", "drain", "free"}, todo : Seq(Paths)]
        /\ executing'.stage = "drain" /\ executing'.todo = executing.todo
    BY <1>2, <2>2
  <2>4. path' = path
    BY <2>3 DEF Path
  <2>5. /\ Reads'
        /\ io' \in [Paths -> Results \cup {"none", "pending"}]
        /\ status' \in [Paths -> {"ABSENT", "NOT_LISTENING", "LISTENING", "CANCELLED", "FINISHED"}]
        /\ handle' \in [Paths -> {"none", "here", "moved", "deleted", "closed"}]
        /\ apcs' \in Seq(Items)
        /\ Queued(apcs', Command) => Queued(apcs, Command)
        /\ \A p \in Paths : p # path => status'[p] = status[p] /\ handle'[p] = handle[p]
        /\ status'[path] \in {"CANCELLED", "FINISHED"}
    BY <1>1, <1>3, <1>5, <2>2, CancelReads
  <2> HIDE DEF path
  <2>6. TypeOK'
    BY <1>1, <2>3, <2>5 DEF TypeOK, SystemTypeOK, Items
  <2>7. Commands'
    BY <1>1, <1>3, <2>3, <2>5 DEF Commands, MemoryOutlivesUse
  <2>8. Ending'
    BY <1>1, <1>3, <2>3 DEF Ending, ReadsEndBeforeRunLoop
  <2>9. Moved'
    BY <1>1, <1>3, <2>5 DEF Moved, Started
  <2>10. Destroying'
    BY <1>1, <1>3, <2>3, <2>4, <2>5 DEF Destroying, path
  <2> QED
    BY <2>5, <2>6, <2>7, <2>8, <2>9, <2>10 DEF Inv
<1> QED
  BY <1>4, <1>5

(* The end of the destructor: the read of the watch point is over, and its *)
(* completion delivered, so that the run loop goes on.                     *)
LEMMA DestroyInv ==
    ASSUME Inv, CommandStep, Destroy
    PROVE  Inv'
<1> USE DEF Waiting
<1> DEFINE path == Path
<1>1. /\ TypeOK /\ Reads /\ Commands /\ Ending /\ Moved /\ Destroying
      /\ UNCHANGED <<there, changes, completion, shutdown, calls, terminate, call, io, apcs>>
      /\ missed' \subseteq Paths /\ failed' \subseteq Paths
      /\ loop = "sleep" /\ executing.stage \in {"drain", "free"}
  BY CommandStepTyped DEF Inv, Destroy
<1>2. /\ executing.stage = "drain" /\ executing.todo # <<>> /\ status[path] # "LISTENING"
      /\ completion.stage = "none" /\ apcs = <<>> /\ call.stage = "wait" /\ ~terminate
  BY <1>1 DEF Destroy, Destroying, Slept, Commands, Ending
<1>3. /\ executing \in [stage : {"none", "next", "drain", "free"}, todo : Seq(Paths)]
      /\ status \in [Paths -> {"ABSENT", "NOT_LISTENING", "LISTENING", "CANCELLED", "FINISHED"}]
      /\ handle \in [Paths -> {"none", "here", "moved", "deleted", "closed"}]
      /\ io \in [Paths -> Results \cup {"none", "pending"}]
      /\ buffered \subseteq Paths
  BY <1>1 DEF TypeOK, SystemTypeOK
<1>4. path \in Paths /\ Tail(executing.todo) \in Seq(Paths)
  BY <1>2, <1>3, HeadTailProperties DEF Path
<1>5. io[path] = "none"
  BY <1>1, <1>2, <1>3, <1>4, QueueEmpty DEF Reads, Started
<1>6. /\ UNCHANGED loop
      /\ status' = [status EXCEPT ![path] = "ABSENT"]
      /\ handle' = [handle EXCEPT ![path] = "none"]
      /\ buffered' \subseteq Paths
      /\ executing' \in [stage : {"none", "next", "drain", "free"}, todo : Seq(Paths)]
      /\ executing'.stage = "next"
  BY <1>3, <1>4, <1>5 DEF Destroy
<1> HIDE DEF path
<1>7. TypeOK'
  <2>1. /\ status' \in [Paths -> {"ABSENT", "NOT_LISTENING", "LISTENING", "CANCELLED", "FINISHED"}]
        /\ handle' \in [Paths -> {"none", "here", "moved", "deleted", "closed"}]
    BY <1>3, <1>6
  <2>2. SystemTypeOK'
    BY <1>1, <1>6, <2>1 DEF TypeOK, SystemTypeOK
  <2> QED
    BY <1>1, <1>6, <2>1, <2>2 DEF TypeOK
<1>8. Reads'
  BY <1>1, <1>2, <1>3, <1>5, <1>6 DEF Reads, ListeningReads, Started
<1>9. Commands'
  BY <1>1, <1>2, <1>6, QueueEmpty DEF Commands, MemoryOutlivesUse
<1>10. Ending'
  BY <1>1, <1>2, <1>6 DEF Ending, ReadsEndBeforeRunLoop
<1>11. Moved'
  BY <1>1, <1>2, <1>3, <1>4, <1>6 DEF Moved, Started
<1>12. Destroying'
  BY <1>6 DEF Destroying
<1> QED
  BY <1>7, <1>8, <1>9, <1>10, <1>11, <1>12 DEF Inv

LEMMA CommandInv ==
    ASSUME Inv, CommandStep
    PROVE  Inv'
BY StartInv, AnswerInv, RegisterNewInv, UnregisterInv, DestroyInv DEF CommandStep

-------------------------------------------------------------------------------
(* The end of the run loop.                                                *)

LEMMA EndInv ==
    ASSUME Inv, EndStep
    PROVE  Inv'
<1> USE DEF fsVars, userVars, Silent
<1>1. /\ TypeOK /\ Reads /\ Commands /\ Ending /\ Moved /\ Destroying
      /\ UNCHANGED <<there, buffered, changes, terminate, executing, completion>>
      /\ UNCHANGED <<call, calls, shutdown, missed, failed>>
  BY DEF Inv, EndStep
<1>2. CASE LeaveLoop \/ CancelledAll \/ Finish
  <2>1. UNCHANGED <<handle, io, apcs, status>>
    BY <1>2 DEF LeaveLoop, CancelledAll, Finish, Unread
  <2>2. /\ loop' \in {"cancel", "drain", "done"} /\ terminate /\ completion.stage = "none"
        /\ loop' \in {"drain", "done"} => \A p \in Paths : status[p] # "LISTENING"
        /\ loop' = "done" => apcs = <<>>
    BY <1>1, <1>2 DEF LeaveLoop, CancelledAll, Cancelled, SleepAgain, Finish, Slept, Ending
  <2>3. loop' = "done" => \A p \in Paths : io[p] = "none"
    <3> SUFFICES ASSUME loop' = "done", NEW p \in Paths PROVE io[p] = "none"
      OBVIOUS
    <3>1. io[p] \notin Results /\ io[p] # "pending"
      BY <1>1, <2>2, QueueEmpty DEF Reads, Started
    <3> QED
      BY <1>1, <3>1 DEF TypeOK, SystemTypeOK
  <2>4. TypeOK'
    BY <1>1, <2>1, <2>2 DEF TypeOK, SystemTypeOK
  <2>5. Reads'
    BY <1>1, <2>1 DEF Reads, ListeningReads, Started
  <2>6. Commands'
    BY <1>1, <2>1, <2>2 DEF Commands, MemoryOutlivesUse
  <2>7. Ending'
    BY <1>1, <2>1, <2>2, <2>3 DEF Ending, ReadsEndBeforeRunLoop
  <2>8. Moved'
    BY <1>1, <2>1 DEF Moved, Started
  <2>9. Destroying'
    BY <1>1, <2>2 DEF Destroying
  <2> QED
    BY <2>4, <2>5, <2>6, <2>7, <2>8, <2>9 DEF Inv
<1>3. CASE CancelRemaining
  <2>1. PICK path \in Paths : status[path] = "LISTENING" /\ Cancel(path)
    BY <1>3 DEF CancelRemaining
  <2>2. loop = "cancel" /\ UNCHANGED loop /\ terminate /\ completion.stage = "none"
        /\ executing.stage = "none"
    BY <1>1, <1>3 DEF CancelRemaining, Ending
  <2>3. /\ Reads'
        /\ io' \in [Paths -> Results \cup {"none", "pending"}]
        /\ status' \in [Paths -> {"ABSENT", "NOT_LISTENING", "LISTENING", "CANCELLED", "FINISHED"}]
        /\ handle' \in [Paths -> {"none", "here", "moved", "deleted", "closed"}]
        /\ apcs' \in Seq(Items)
        /\ Queued(apcs', Command) => Queued(apcs, Command)
        /\ \A p : Ahead(apcs, p) => Ahead(apcs', p)
        /\ \A p \in Paths : io[p] # "pending" => io'[p] = io[p]
        /\ \A p \in Paths : p # path => io'[p] = io[p] /\ status'[p] = status[p]
                                        /\ handle'[p] = handle[p]
        /\ handle[path] = "closed" => handle'[path] = "closed"
        /\ status'[path] \in {"CANCELLED", "FINISHED"}
    BY <1>1, <2>1, CancelReads
  <2>4. TypeOK'
    BY <1>1, <2>2, <2>3 DEF TypeOK, SystemTypeOK, Items
  <2>5. Commands'
    BY <1>1, <2>2, <2>3 DEF Commands, MemoryOutlivesUse
  <2>6. Ending'
    BY <1>1, <2>2 DEF Ending, ReadsEndBeforeRunLoop
  <2>7. Moved'
    <3>1. \A p \in Paths : (handle[p] = "closed" => handle'[p] = "closed")
                           /\ (io[p] # "pending" => io'[p] # "pending")
      BY <2>3
    <3> QED
      BY <1>1, <2>2, <2>3, <3>1 DEF Moved, Started
  <2>8. Destroying'
    BY <2>2 DEF Destroying
  <2> QED
    BY <2>3, <2>4, <2>5, <2>6, <2>7, <2>8 DEF Inv
<1> QED
  BY <1>2, <1>3 DEF EndStep

-------------------------------------------------------------------------------
(* The user.                                                               *)

(* A command is queued by a user who waits for no other.                   *)
LEMMA BeginInv ==
    ASSUME Inv, NEW op \in {"start", "stop", "shutdown"}, NEW todo \in Seq(Paths),
           Begin(op, todo), calls' \in 0 .. Calls,
           shutdown' \in BOOLEAN, op = "shutdown" => shutdown'
    PROVE  Inv'
<1> USE DEF fsVars, Silent
<1>1. /\ TypeOK /\ Reads /\ Commands /\ Ending /\ Moved /\ Destroying
      /\ UNCHANGED <<there, buffered, changes, terminate, executing, completion>>
      /\ UNCHANGED <<handle, io, status, loop, missed, failed>>
      /\ call.stage = "idle" /\ ~shutdown
      /\ call' = [NoCall EXCEPT !.op = op, !.stage = "wait", !.todo = todo]
      /\ apcs' = Append(apcs, Command)
  BY DEF Inv, Begin, UserOnly
<1>2. call' = [op |-> op, stage |-> "wait", todo |-> todo, left |-> {},
               path |-> NoPath, throws |-> FALSE]
  BY <1>1 DEF NoCall
<1>3. ~Queued(apcs, Command) /\ ~terminate /\ loop = "sleep" /\ executing.stage = "none"
  BY <1>1 DEF TypeOK, Commands, Ending, MemoryOutlivesUse
<1>4. /\ apcs' \in Seq(Items)
      /\ \A y : Queued(apcs', y) <=> Queued(apcs, y) \/ y = Command
      /\ Once(apcs')
      /\ \A p : Ahead(apcs, p) => Ahead(apcs', p)
  <2>1. apcs \in Seq(Items) /\ Command \in Items /\ Once(apcs)
    BY <1>1 DEF TypeOK, SystemTypeOK, Items, Reads
  <2> QED
    BY <1>1, <1>3, <2>1, QueueAppend
<1>5. TypeOK'
  <2>1. call' \in [op : {"none", "start", "stop", "shutdown", "moved"},
                   stage : {"idle", "wait", "gone", "look", "check", "cancel",
                            "mark", "close", "closing", "finish"},
                   todo : Seq(Paths), left : SUBSET Paths,
                   path : Paths \cup {NoPath}, throws : BOOLEAN]
    BY <1>2
  <2> QED
    BY <1>1, <1>4, <2>1 DEF TypeOK, SystemTypeOK, Items
<1>6. Reads'
  BY <1>1, <1>4, CommandAssumption DEF Reads, ListeningReads, Started
<1>7. Commands'
  BY <1>1, <1>2, <1>3 DEF Commands, MemoryOutlivesUse
<1>8. Ending'
  BY <1>1, <1>2, <1>3 DEF Ending, ReadsEndBeforeRunLoop
<1>9. Moved'
  BY <1>1, <1>2, <1>4 DEF Moved, Started
<1>10. Destroying'
  BY <1>1, <1>3 DEF Destroying
<1> QED
  BY <1>5, <1>6, <1>7, <1>8, <1>9, <1>10 DEF Inv

LEMMA UserCommandInv ==
    ASSUME Inv, StartWatching \/ StopWatching \/ Shutdown
    PROVE  Inv'
<1>1. calls \in 0 .. Calls /\ shutdown \in BOOLEAN
  BY DEF Inv, TypeOK
<1>2. CASE StartWatching
  <2>1. PICK todo \in Requests : Begin("start", todo)
    BY <1>2 DEF StartWatching
  <2>2. calls' \in 0 .. Calls /\ shutdown' \in BOOLEAN
    BY <1>1, <1>2, CallsAssumption DEF StartWatching, Counted
  <2> QED
    BY <2>1, <2>2, RequestsAssumption, BeginInv
<1>3. CASE StopWatching
  <2>1. PICK todo \in Requests : Begin("stop", todo)
    BY <1>3 DEF StopWatching
  <2>2. calls' \in 0 .. Calls /\ shutdown' \in BOOLEAN
    BY <1>1, <1>3, CallsAssumption DEF StopWatching, Counted
  <2> QED
    BY <2>1, <2>2, RequestsAssumption, BeginInv
<1>4. CASE Shutdown
  <2>1. <<>> \in Seq(Paths)
    BY EmptySeq
  <2> QED
    BY <1>1, <1>4, <2>1, BeginInv DEF Shutdown
<1> QED
  BY <1>2, <1>3, <1>4

LEMMA AbandonInv ==
    ASSUME Inv, Abandon
    PROVE  Inv'
<1> USE DEF fsVars, Silent, Unread
<1>1. /\ TypeOK /\ Reads /\ Commands /\ Ending /\ Moved /\ Destroying
      /\ UNCHANGED <<there, buffered, changes, terminate, executing, completion>>
      /\ UNCHANGED <<handle, io, apcs, status, missed, failed, calls, shutdown>>
      /\ call.stage = "wait"
      /\ call' = [call EXCEPT !.stage = "gone"]
      /\ loop' = IF executing = NoCommand THEN loop ELSE "undefined"
  BY DEF Inv, Abandon, UserOnly
<1>2. call \in [op : {"none", "start", "stop", "shutdown", "moved"},
                stage : {"idle", "wait", "gone", "look", "check", "cancel",
                         "mark", "close", "closing", "finish"},
                todo : Seq(Paths), left : SUBSET Paths,
                path : Paths \cup {NoPath}, throws : BOOLEAN]
  BY <1>1 DEF TypeOK
<1>3. /\ call' \in [op : {"none", "start", "stop", "shutdown", "moved"},
                    stage : {"idle", "wait", "gone", "look", "check", "cancel",
                             "mark", "close", "closing", "finish"},
                    todo : Seq(Paths), left : SUBSET Paths,
                    path : Paths \cup {NoPath}, throws : BOOLEAN]
      /\ call'.stage = "gone" /\ call'.op = call.op
  BY <1>1, <1>2
<1>4. /\ ~terminate
      /\ loop' \in {"sleep", "undefined"}
      /\ loop' = "sleep" => executing.stage = "none"
  BY <1>1 DEF Ending, TypeOK, NoCommand
<1>5. TypeOK'
  BY <1>1, <1>3, <1>4 DEF TypeOK, SystemTypeOK
<1>6. Reads'
  BY <1>1 DEF Reads, ListeningReads, Started
<1>7. Commands'
  BY <1>1, <1>3, <1>4 DEF Commands, MemoryOutlivesUse
<1>8. Ending'
  BY <1>1, <1>3, <1>4 DEF Ending, ReadsEndBeforeRunLoop
<1>9. Moved'
  BY <1>1, <1>3 DEF Moved, Started
<1>10. Destroying'
  BY <1>1, <1>4 DEF Destroying
<1> QED
  BY <1>5, <1>6, <1>7, <1>8, <1>9, <1>10 DEF Inv

(* What stopWatchingMovedPaths finds while it is executed: there is no     *)
(* command.                                                                *)
LEMMA MovedAlone ==
    ASSUME Inv, call.stage \notin {"wait", "gone"}
    PROVE  /\ ~Queued(apcs, Command)
           /\ loop # "undefined"
           /\ executing.stage = "none"
<1>1. Commands /\ Ending /\ loop \in {"sleep", "cancel", "drain", "done", "undefined"}
  BY DEF Inv, TypeOK
<1>2. ~Queued(apcs, Command) /\ loop # "undefined"
  BY <1>1 DEF Commands, MemoryOutlivesUse
<1>3. executing.stage = "none"
  BY <1>1, <1>2 DEF Commands, Ending
<1> QED
  BY <1>2, <1>3

CallTypes == [op : {"none", "start", "stop", "shutdown", "moved"},
              stage : {"idle", "wait", "gone", "look", "check", "cancel",
                       "mark", "close", "closing", "finish"},
              todo : Seq(Paths), left : SUBSET Paths,
              path : Paths \cup {NoPath}, throws : BOOLEAN]

(* A step of stopWatchingMovedPaths that only goes on, begins or ends.     *)
LEMMA MovedCallInv ==
    ASSUME Inv, call.stage \notin {"wait", "gone"},
           Unread, UserOnly, UNCHANGED <<loop, shutdown>>, calls' \in 0 .. Calls,
           call' \in CallTypes,
           call'.stage \in {"idle", "look", "check", "cancel", "close", "closing"},
           call'.stage \in {"check", "cancel", "close", "closing"} => call'.path \in Paths,
           call'.op = "shutdown" => call.op = "shutdown"
    PROVE  Inv'
<1> USE DEF fsVars, Silent, Unread
<1>1. /\ TypeOK /\ Reads /\ Commands /\ Ending /\ Moved /\ Destroying
      /\ UNCHANGED <<there, buffered, changes, terminate, executing, completion>>
      /\ UNCHANGED <<handle, io, apcs, status, missed, failed, loop, shutdown>>
     
  BY DEF Inv, UserOnly
<1>2. ~Queued(apcs, Command) /\ loop # "undefined" /\ executing.stage = "none"
  BY MovedAlone
<1>3. TypeOK'
  BY <1>1 DEF TypeOK, SystemTypeOK, CallTypes
<1>4. Reads'
  BY <1>1 DEF Reads, ListeningReads, Started
<1>5. Commands'
  BY <1>1, <1>2 DEF Commands, MemoryOutlivesUse
<1>6. Ending'
  BY <1>1 DEF Ending, ReadsEndBeforeRunLoop
<1>7. Moved'
  BY <1>1 DEF Moved, Started
<1>8. Destroying'
  BY <1>1, <1>2 DEF Destroying
<1> QED
  BY <1>3, <1>4, <1>5, <1>6, <1>7, <1>8 DEF Inv

LEMMA NoCallTyped == NoCall \in CallTypes /\ NoCall.stage = "idle" /\ NoCall.op = "none"
BY EmptySeq DEF NoCall, CallTypes

LEMMA StopWatchingMovedPathsInv ==
    ASSUME Inv, StopWatchingMovedPaths
    PROVE  Inv'
<1>1. calls' \in 0 .. Calls
  BY CallsAssumption DEF Inv, TypeOK, StopWatchingMovedPaths, Counted
<1>2. call' = [NoCall EXCEPT !.op = "moved", !.stage = "look",
                             !.left = {p \in Paths : status[p] # "ABSENT"}]
  BY DEF StopWatchingMovedPaths
<1>3. call' \in CallTypes /\ call'.stage = "look" /\ call'.op = "moved"
  BY <1>2, EmptySeq DEF NoCall, CallTypes
<1> QED
  BY <1>1, <1>3, MovedCallInv DEF StopWatchingMovedPaths, Counted

LEMMA MovedStepInv ==
    ASSUME Inv, MovedStep
    PROVE  Inv'
<1> USE DEF fsVars, Silent
<1>1. /\ TypeOK /\ Reads /\ Commands /\ Ending /\ Moved /\ Destroying
      /\ UserOnly /\ UNCHANGED <<loop, calls, shutdown>>
      /\ calls \in 0 .. Calls /\ call \in CallTypes
      /\ call.stage \in {"look", "check", "cancel", "mark", "close", "closing", "finish"}
  BY DEF Inv, TypeOK, CallTypes, MovedStep, MovedLook, MovedCheck, MovedCancel, MovedMark,
         MovedClose, MovedCloseHandle, MovedFinish, Leave, MovedReturn
<1>2. ~Queued(apcs, Command) /\ loop # "undefined" /\ executing.stage = "none"
  BY <1>1, MovedAlone
<1> DEFINE p == call.path
<1>3. call.stage # "look" => p \in Paths
  BY <1>1 DEF Moved
<1>4. /\ status \in [Paths -> {"ABSENT", "NOT_LISTENING", "LISTENING", "CANCELLED", "FINISHED"}]
      /\ handle \in [Paths -> {"none", "here", "moved", "deleted", "closed"}]
      /\ io \in [Paths -> Results \cup {"none", "pending"}]
      /\ apcs \in Seq(Items)
  BY <1>1 DEF TypeOK, SystemTypeOK, Items
<1>5. /\ UNCHANGED <<there, buffered, changes, terminate, executing, completion>>
      /\ UNCHANGED <<missed, failed, loop, shutdown, calls>>
  BY <1>1 DEF UserOnly
<1>6. CASE MovedLook
  <2>1. PICK path \in call.left :
          call' = IF status[path] = "FINISHED" \/ handle[path] = "here"
                  THEN [call EXCEPT !.left = @ \ {path}]
                  ELSE [call EXCEPT !.left = @ \ {path}, !.path = path, !.stage = "check"]
    BY <1>6 DEF MovedLook
  <2>2. call.stage = "look" /\ Unread /\ path \in Paths
    BY <1>1, <1>6 DEF MovedLook, CallTypes
  <2>3. /\ call' \in CallTypes /\ call'.op = call.op
        /\ call'.stage = "look" \/ (call'.stage = "check" /\ call'.path = path)
    BY <1>1, <2>1, <2>2 DEF CallTypes
  <2> QED
    BY <1>1, <2>2, <2>3, MovedCallInv
<1>7. CASE MovedCheck \/ MovedReturn
  <2>1. /\ Unread /\ call' \in CallTypes /\ (call'.op = "shutdown" => call.op = "shutdown")
        /\ call'.stage \in {"idle", "look", "cancel"}
        /\ call'.stage = "cancel" => call'.path \in Paths
    BY <1>1, <1>3, <1>7, NoCallTyped DEF MovedCheck, MovedReturn, CallTypes
  <2> QED
    BY <1>1, <2>1, MovedCallInv
<1>8. CASE MovedCancel /\ ~Cancellable(p)
  <2>1. /\ Unread /\ call' \in CallTypes /\ call'.op = call.op
        /\ call'.stage = "close" /\ call'.path \in Paths
    BY <1>1, <1>3, <1>8 DEF MovedCancel, CallTypes, Unread
  <2> QED
    BY <1>1, <2>1, MovedCallInv
<1>9. CASE MovedCancel /\ Cancellable(p)
  <2>1. /\ p \in Paths /\ io[p] = "pending" /\ Complete(p, "aborted")
        /\ call' = [call EXCEPT !.stage = "mark"] /\ UNCHANGED <<handle, status>>
    BY <1>3, <1>9 DEF MovedCancel, CancelIo, Cancellable
  <2>2. /\ call' \in CallTypes /\ call'.stage = "mark" /\ call'.path = p
        /\ call'.op = call.op
    BY <1>1, <2>1 DEF CallTypes
  <2> HIDE DEF p
  <2>3. ReadsEnd
    BY <2>1 DEF ReadsEnd, Results
  <2>4. /\ Reads'
        /\ io' \in [Paths -> Results \cup {"none", "pending"}]
        /\ apcs' \in Seq(Items)
        /\ Queued(apcs', Command) => Queued(apcs, Command)
        /\ \A q \in Paths : Ahead(apcs, q) => Ahead(apcs', q)
        /\ \A q \in Paths : io[q] # "pending" => io'[q] = io[q]
        /\ \A q \in Paths : io'[q] # io[q] => io'[q] \in Results
    BY <1>1, <1>5, <2>1, <2>3, ReadsEndInv
  <2>5. io'[p] = "aborted" /\ (completion.stage \in {"handle", "listen"} => completion.path # p)
    BY <1>1, <1>4, <2>1 DEF Complete, Reads
  <2>6. TypeOK'
    <3>1. SystemTypeOK'
      BY <1>1, <1>5, <2>1, <2>4 DEF TypeOK, SystemTypeOK, Items
    <3> QED
      BY <1>1, <1>5, <2>1, <2>2, <3>1 DEF TypeOK, CallTypes
  <2>7. Commands'
    BY <1>1, <1>2, <1>5, <2>2, <2>4 DEF Commands, MemoryOutlivesUse
  <2>8. Ending'
    BY <1>1, <1>5, <2>1, <2>2, <2>4 DEF Ending, ReadsEndBeforeRunLoop
  <2>9. Moved'
    BY <1>1, <1>5, <2>1, <2>2, <2>4, <2>5 DEF Moved, Started, Results
  <2>10. Destroying'
    BY <1>2, <1>5 DEF Destroying
  <2> QED
    BY <2>4, <2>6, <2>7, <2>8, <2>9, <2>10 DEF Inv
<1>10. CASE MovedMark
  <2>1. /\ p \in Paths /\ call.stage = "mark"
        /\ status' = [status EXCEPT ![p] = "CANCELLED"]
        /\ call' = [call EXCEPT !.stage = "look"] /\ UNCHANGED <<handle, io, apcs>>
    BY <1>3, <1>10 DEF MovedMark
  <2>2. call' \in CallTypes /\ call'.stage = "look" /\ call'.op = call.op
    BY <1>1, <2>1 DEF CallTypes
  <2>3. io[p] # "pending"
    BY <1>1, <2>1 DEF Moved
  <2> HIDE DEF p
  <2>4. TypeOK'
    BY <1>1, <1>4, <1>5, <2>1, <2>2 DEF TypeOK, SystemTypeOK, CallTypes
  <2>5. Reads'
    BY <1>1, <1>4, <1>5, <2>1, <2>3 DEF Reads, ListeningReads, Started
  <2>6. Commands'
    BY <1>1, <1>2, <1>5, <2>1, <2>2 DEF Commands, MemoryOutlivesUse
  <2>7. Ending'
    BY <1>1, <1>4, <1>5, <2>1, <2>2 DEF Ending, ReadsEndBeforeRunLoop
  <2>8. Moved'
    BY <1>1, <1>4, <1>5, <2>1, <2>2 DEF Moved, Started
  <2>9. Destroying'
    BY <1>2, <1>5 DEF Destroying
  <2> QED
    BY <2>4, <2>5, <2>6, <2>7, <2>8, <2>9 DEF Inv
<1>11. CASE MovedClose
  <2>1. /\ Unread /\ call' \in CallTypes /\ (call'.op = "shutdown" => call.op = "shutdown")
        /\ call'.stage \in {"idle", "look", "closing"}
        /\ call'.stage = "closing" => call'.path \in Paths
    BY <1>1, <1>3, <1>11, NoCallTyped DEF MovedClose, Leave, CallTypes
  <2> QED
    BY <1>1, <2>1, MovedCallInv
<1>12. CASE MovedFinish
  <2>1. /\ p \in Paths /\ call.stage = "finish"
        /\ status' = [status EXCEPT ![p] = "FINISHED"]
        /\ call' \in CallTypes /\ (call'.op = "shutdown" => call.op = "shutdown")
        /\ call'.stage \in {"idle", "look"} /\ UNCHANGED <<handle, io, apcs>>
    BY <1>1, <1>3, <1>12, NoCallTyped DEF MovedFinish, Leave, CallTypes
  <2>2. io[p] # "pending"
    BY <1>1, <2>1 DEF Moved
  <2> HIDE DEF p
  <2>3. TypeOK'
    BY <1>1, <1>4, <1>5, <2>1 DEF TypeOK, SystemTypeOK, CallTypes
  <2>4. Reads'
    BY <1>1, <1>4, <1>5, <2>1, <2>2 DEF Reads, ListeningReads, Started
  <2>5. Commands'
    BY <1>1, <1>2, <1>5, <2>1 DEF Commands, MemoryOutlivesUse
  <2>6. Ending'
    BY <1>1, <1>4, <1>5, <2>1 DEF Ending, ReadsEndBeforeRunLoop
  <2>7. Moved'
    BY <1>1, <1>4, <1>5, <2>1 DEF Moved, Started
  <2>8. Destroying'
    BY <1>2, <1>5 DEF Destroying
  <2> QED
    BY <2>3, <2>4, <2>5, <2>6, <2>7, <2>8 DEF Inv
<1>13. CASE MovedCloseHandle
  <2>1. /\ p \in Paths /\ CloseHandle(p) /\ UNCHANGED status
        /\ call' = [call EXCEPT !.stage = "finish"]
    BY <1>3, <1>13 DEF MovedCloseHandle
  <2>10. /\ call' \in CallTypes /\ call'.op = call.op /\ call'.path = p
         /\ call'.stage = "finish"
    BY <1>1, <2>1 DEF CallTypes
  <2> HIDE DEF p
  <2>2. handle' = [handle EXCEPT ![p] = "closed"] /\ Ends(p, "cleanup")
    BY <2>1 DEF CloseHandle
  <2>3. /\ io' = IF io[p] = "pending" THEN [io EXCEPT ![p] = "cleanup"] ELSE io
        /\ io' \in [Paths -> Results \cup {"none", "pending"}]
        /\ apcs' \in Seq(Items)
        /\ \A y : Queued(apcs', y) <=> Queued(apcs, y) \/ (io[p] = "pending" /\ y = p)
        /\ Once(apcs')
        /\ \A q : Ahead(apcs, q) => Ahead(apcs', q)
    <3>1. CASE io[p] = "pending"
      <4>1. Complete(p, "cleanup") /\ "cleanup" \in Results /\ io[p] \notin Results
        BY <2>2, <3>1 DEF Ends, Results
      <4> QED
        BY <1>1, <2>1, <3>1, <4>1, CompletionIsQueued
    <3>2. CASE io[p] # "pending"
      BY <1>1, <1>4, <2>2, <3>2 DEF Ends, Reads
    <3> QED
      BY <3>1, <3>2
  <2>4. TypeOK'
    <3>1. handle' \in [Paths -> {"none", "here", "moved", "deleted", "closed"}]
      BY <1>4, <2>1, <2>2
    <3>2. SystemTypeOK'
      BY <1>1, <1>5, <2>3, <3>1 DEF TypeOK, SystemTypeOK, Items
    <3> QED
      BY <1>1, <1>5, <2>1, <2>10, <3>2 DEF TypeOK, CallTypes
  <2>5. Reads'
    BY <1>1, <1>4, <1>5, <2>1, <2>3 DEF Reads, ListeningReads, Started, Results
  <2>6. Commands'
    BY <1>1, <1>2, <1>5, <2>1, <2>3, <2>10, CommandAssumption DEF Commands, MemoryOutlivesUse
  <2>7. Ending'
    BY <1>1, <1>4, <1>5, <2>1, <2>3, <2>10 DEF Ending, ReadsEndBeforeRunLoop
  <2>8. Moved'
    <3>1. ASSUME status[p] = "LISTENING" \/ Started(p) PROVE io'[p] \in Results /\ Ahead(apcs', p)
      <4>1. io[p] # "none"
        BY <1>1, <2>1, <3>1 DEF Reads, ListeningReads, Started
      <4>2. io'[p] \in Results /\ Queued(apcs', p)
        BY <1>1, <1>4, <2>1, <2>3, <4>1 DEF Reads, Results
      <4>3. ~Queued(apcs', Command)
        BY <1>2, <2>1, <2>3, CommandAssumption
      <4> QED
        BY <4>2, <4>3, AheadIsQueued
    <3>2. ASSUME NEW q \in Paths, handle'[q] = "closed",
                 status'[q] = "LISTENING" \/ Started(q)'
          PROVE  io'[q] \in Results /\ executing'.stage = "none" /\ Ahead(apcs', q)
      <4>1. CASE q = p
        BY <1>2, <1>4, <1>5, <2>1, <3>1, <3>2, <4>1 DEF Started
      <4>2. CASE q # p
        <5>1. handle[q] = "closed" /\ (status[q] = "LISTENING" \/ Started(q)) /\ io'[q] = io[q]
          BY <1>4, <1>5, <2>1, <2>2, <2>3, <3>2, <4>2 DEF Started
        <5> QED
          BY <1>1, <1>2, <1>5, <2>3, <5>1 DEF Moved
      <4> QED
        BY <4>1, <4>2
    <3>3. handle'[p] = "closed" /\ io'[p] # "pending"
      BY <1>4, <2>1, <2>2, <2>3
    <3> QED
      BY <2>1, <2>10, <3>2, <3>3 DEF Moved
  <2>9. Destroying'
    BY <1>2, <1>5 DEF Destroying
  <2> QED
    BY <2>4, <2>5, <2>6, <2>7, <2>8, <2>9 DEF Inv
<1> QED
  BY <1>6, <1>7, <1>8, <1>9, <1>10, <1>11, <1>12, <1>13 DEF MovedStep

-------------------------------------------------------------------------------
LEMMA InvInit == Init => Inv
<1> SUFFICES ASSUME Init PROVE Inv
  OBVIOUS
<1> USE DEF Init, SystemInit
<1>1. TypeOK
  <2>1. SystemTypeOK
    BY EmptySeq, ChangesAssumption DEF SystemTypeOK
  <2>2. call \in CallTypes
    BY NoCallTyped
  <2>3. /\ executing \in [stage : {"none", "next", "drain", "free"}, todo : Seq(Paths)]
        /\ completion \in [stage : {"none", "handle", "listen", "started"},
                           path : Paths \cup {NoPath}, result : Results \cup {"none"}]
    BY EmptySeq DEF NoCommand, NoCompletion
  <2>4. calls \in 0 .. Calls
    BY CallsAssumption
  <2> QED
    BY <2>1, <2>2, <2>3, <2>4 DEF TypeOK, CallTypes
<1>2. Reads
  BY QueueEmpty, EmptySeq DEF Reads, Once, ListeningReads, Started, Results, NoCompletion
<1>3. Commands
  BY QueueEmpty DEF Commands, MemoryOutlivesUse, NoCommand, NoCompletion
<1>4. Ending
  BY DEF Ending, ReadsEndBeforeRunLoop, NoCall
<1>5. Moved
  BY DEF Moved, NoCall
<1>6. Destroying
  BY DEF Destroying, NoCommand
<1> QED
  BY <1>1, <1>2, <1>3, <1>4, <1>5, <1>6 DEF Inv

LEMMA InvNext == Inv /\ [Next]_vars => Inv'
<1> SUFFICES ASSUME Inv, [Next]_vars PROVE Inv'
  OBVIOUS
<1>1. CASE FileSystem
  BY <1>1, FileSystemInv
<1>2. CASE RunLoopStep
  BY <1>2, DeliverInv, HandleInv, CommandInv, EndInv DEF RunLoopStep
<1>3. CASE StartWatching \/ StopWatching \/ Shutdown
  BY <1>3, UserCommandInv
<1>4. CASE Abandon
  BY <1>4, AbandonInv
<1>5. CASE StopWatchingMovedPaths
  BY <1>5, StopWatchingMovedPathsInv
<1>6. CASE MovedStep
  BY <1>6, MovedStepInv
<1>7. CASE UNCHANGED vars
  <2>1. /\ UNCHANGED <<there, handle, io, buffered, apcs, changes, status, terminate>>
        /\ UNCHANGED <<loop, executing, completion, call, calls, shutdown>>
        /\ UNCHANGED <<missed, failed>>
    BY <1>7 DEF vars, systemVars, serverVars, loopVars, userVars
  <2>2. TypeOK'
    BY <2>1 DEF Inv, TypeOK, SystemTypeOK
  <2>3. Reads'
    BY <2>1 DEF Inv, Reads, ListeningReads, Started
  <2>4. Commands'
    BY <2>1 DEF Inv, Commands, MemoryOutlivesUse
  <2>5. Ending'
    BY <2>1 DEF Inv, Ending, ReadsEndBeforeRunLoop
  <2>6. Moved'
    BY <2>1 DEF Inv, Moved, Started
  <2>7. Destroying'
    BY <2>1 DEF Inv, Destroying, Path
  <2> QED
    BY <2>2, <2>3, <2>4, <2>5, <2>6, <2>7 DEF Inv
<1> QED
  BY <1>1, <1>2, <1>3, <1>4, <1>5, <1>6, <1>7 DEF Next

LEMMA InvAlways == Spec => []Inv
BY InvInit, InvNext, PTL DEF Spec

-------------------------------------------------------------------------------
(* Changes on their way to the user.                                       *)

(* Where a completion routine is and what the status of its watch point    *)
(* may be meanwhile, whatever stopWatchingMovedPaths does to it.           *)
Placed(p) ==
    /\ status[p] = "FINISHED" => handle[p] = "closed"
    /\ completion.stage \in {"handle", "listen"} /\ completion.path = p =>
          status[p] \in {"NOT_LISTENING", "FINISHED"}
    /\ completion.stage = "started" /\ completion.path = p =>
          status[p] = "NOT_LISTENING" \/ io[p] \in Results

(* A watch point that is not listening has failed or is being handled.     *)
Settled(p) ==
    /\ p \in missed =>
          Carried(p) \/ status[p] \in {"CANCELLED", "FINISHED"} \/ terminate
    /\ ~(p \in missed /\ p \in failed)
    /\ status[p] = "NOT_LISTENING" =>
          \/ p \in failed
          \/ terminate
          \/ completion.stage # "none" /\ completion.path = p

AllPlaced == \A p \in Paths : Placed(p)
Carrying == \A p \in Paths : Settled(p)

(* A step that is about other paths.                                       *)
LEMMA PlacedStays ==
    ASSUME NEW p \in Paths, Placed(p),
           io'[p] = io[p] \/ io'[p] \in Results,
           status'[p] = status[p],
           handle[p] = "closed" => handle'[p] = "closed",
           \/ completion' = completion
           \/ completion'.stage = "none" \/ completion'.path # p
    PROVE  Placed(p)'
BY DEF Placed

LEMMA FileSystemPlaced ==
    ASSUME TypeOK, AllPlaced, FileSystem
    PROVE  AllPlaced'
<1> SUFFICES ASSUME NEW p \in Paths PROVE Placed(p)'
  BY DEF AllPlaced
<1>1. /\ Placed(p) /\ UNCHANGED <<status, completion>>
      /\ io \in [Paths -> Results \cup {"none", "pending"}]
      /\ handle \in [Paths -> {"none", "here", "moved", "deleted", "closed"}]
  BY DEF AllPlaced, FileSystem, TypeOK, SystemTypeOK, serverVars, loopVars
<1>2. /\ io'[p] = io[p] \/ io'[p] \in Results
      /\ handle[p] = "closed" => handle'[p] = "closed"
  BY <1>1
  DEF FileSystem, CreateDirectory, DeleteDirectory, MoveAway, MoveBack, ReadError, Content,
      Ends, Complete, Results
<1> QED
  BY <1>1, <1>2, PlacedStays

LEMMA RunLoopPlaced ==
    ASSUME Inv, AllPlaced, DeliverStep \/ HandleStep
    PROVE  AllPlaced'
<1> SUFFICES ASSUME NEW p \in Paths PROVE Placed(p)'
  BY DEF AllPlaced
<1>1. /\ Placed(p) /\ io \in [Paths -> Results \cup {"none", "pending"}]
      /\ status \in [Paths -> {"ABSENT", "NOT_LISTENING", "LISTENING",
                               "CANCELLED", "FINISHED"}]
      /\ handle \in [Paths -> {"none", "here", "moved", "deleted", "closed"}]
      /\ completion \in [stage : {"none", "handle", "listen", "started"},
                         path : Paths \cup {NoPath}, result : Results \cup {"none"}]
      /\ NoCompletion.stage = "none"
  BY DEF AllPlaced, Inv, TypeOK, SystemTypeOK, NoCompletion
<1>2. CASE DeliverStep
  <2>1. completion.stage = "none"
    BY <1>2 DEF DeliverStep, Alertable
  <2>2. PICK path \in Paths :
           /\ io' = [io EXCEPT ![path] = "none"]
           /\ DeliverAbort(path) \/ DeliverIgnored(path) \/ DeliverResult(path)
    BY <1>2 DEF DeliverStep
  <2>3. CASE DeliverAbort(path)
    BY <1>1, <2>1, <2>3 DEF DeliverAbort, Closed, Placed
  <2>4. CASE DeliverIgnored(path)
    BY <1>1, <2>1, <2>4 DEF DeliverIgnored, Placed
  <2>5. CASE DeliverResult(path)
    <3>1. /\ completion'.stage = "handle" /\ completion'.path = path
          /\ status' = [status EXCEPT ![path] = "NOT_LISTENING"] /\ handle' = handle
      BY <2>5 DEF DeliverResult, Busy
    <3> QED
      BY <1>1, <3>1 DEF Placed
  <2> QED
    BY <2>2, <2>3, <2>4, <2>5
<1>3. CASE HandleStep
  <2>1. ASSUME Closed(completion.path), completion' = NoCompletion PROVE Placed(p)'
    BY <1>1, <2>1 DEF Closed, Placed
  <2>2. CASE HandleDenied \/ HandleMoved \/ ListenFails
    BY <2>1, <2>2 DEF HandleDenied, HandleMoved, ListenFails, ReportDeleted, Handled
  <2>3. CASE HandleError \/ HandleTerminating
    BY <1>1, <2>3 DEF HandleError, HandleTerminating, Handled, Same, Placed
  <2>4. CASE HandleEvents
    BY <1>1, <2>4 DEF HandleEvents, InPlace, Handling, Reported, Same, Placed
  <2>5. CASE ListenAgain
    <3>1. /\ completion.stage = "listen" /\ handle[completion.path] # "closed"
          /\ completion'.path = completion.path /\ completion'.stage = "started"
          /\ UNCHANGED <<handle, status>>
      BY <1>1, <2>5 DEF ListenAgain, Same
    <3> QED
      BY <1>1, <3>1 DEF Placed
  <2>6. CASE Listening
    <3>1. /\ status' = [status EXCEPT ![completion.path] = "LISTENING"]
          /\ completion' = NoCompletion /\ handle' = handle
      BY <2>6 DEF Listening, Handled
    <3> QED
      BY <1>1, <3>1 DEF Placed
  <2> QED
    BY <1>3, <2>2, <2>3, <2>4, <2>5, <2>6 DEF HandleStep
<1> QED
  BY <1>2, <1>3

LEMMA CommandPlaced ==
    ASSUME Inv, AllPlaced, CommandStep
    PROVE  AllPlaced'
<1> SUFFICES ASSUME NEW p \in Paths PROVE Placed(p)'
  BY DEF AllPlaced
<1>1. /\ Placed(p) /\ completion' = completion
      /\ io \in [Paths -> Results \cup {"none", "pending"}]
      /\ status \in [Paths -> {"ABSENT", "NOT_LISTENING", "LISTENING",
                               "CANCELLED", "FINISHED"}]
      /\ handle \in [Paths -> {"none", "here", "moved", "deleted", "closed"}]
  BY DEF AllPlaced, Inv, TypeOK, SystemTypeOK, CommandStep
<1>2. ASSUME UNCHANGED <<handle, io, status>> PROVE Placed(p)'
  BY <1>1, <1>2, PlacedStays
<1>3. CASE RegisterNew \/ Unregister
  <2>1. completion.stage = "none"
    BY <1>3 DEF RegisterNew, Unregister, InList, Executing, Inv, Commands
  <2> QED
    BY <1>1, <1>3, <2>1
    DEF RegisterNew, Unregister, Cancel, CancelIo, Complete, Closed, Placed
<1>4. CASE Destroy
  <2>1. completion.stage # "none" => completion.path # Path
    BY <1>4 DEF Destroy, Inv, Destroying
  <2>2. /\ io' = io /\ status' = [status EXCEPT ![Path] = "ABSENT"]
        /\ handle' = [handle EXCEPT ![Path] = "none"]
    BY <1>4 DEF Destroy
  <2> QED
    BY <1>1, <2>1, <2>2 DEF Placed
<1> QED
  BY <1>2, <1>3, <1>4
  DEF CommandStep, StartCommand, StartGoneCommand, EndOfList, ExecuteShutdown, RegisterFails,
      RegisterErase, UnregisterNothing, Unwatched

LEMMA UserPlaced ==
    ASSUME Inv, AllPlaced, MovedStep
    PROVE  AllPlaced'
<1> SUFFICES ASSUME NEW p \in Paths PROVE Placed(p)'
  BY DEF AllPlaced
<1>1. /\ Placed(p) /\ completion' = completion
      /\ io \in [Paths -> Results \cup {"none", "pending"}]
      /\ status \in [Paths -> {"ABSENT", "NOT_LISTENING", "LISTENING",
                               "CANCELLED", "FINISHED"}]
      /\ handle \in [Paths -> {"none", "here", "moved", "deleted", "closed"}]
  BY DEF AllPlaced, Inv, TypeOK, SystemTypeOK, MovedStep, UserOnly
<1>2. ASSUME UNCHANGED <<handle, io, status>> PROVE Placed(p)'
  BY <1>1, <1>2, PlacedStays
<1>3. CASE MovedCancel
  BY <1>1, <1>3, PlacedStays DEF MovedCancel, CancelIo, Complete, Results
<1>4. CASE MovedMark
  <2>1. /\ completion.stage \in {"handle", "listen"} => completion.path # call.path
        /\ completion.stage = "started" /\ completion.path = call.path =>
              io[call.path] \in Results
    BY <1>4 DEF MovedMark, Inv, Moved, Reads, Results
  <2>2. status' = [status EXCEPT ![call.path] = "CANCELLED"] /\ UNCHANGED <<io, handle>>
    BY <1>4 DEF MovedMark
  <2> QED
    BY <1>1, <2>1, <2>2 DEF Placed
<1>5. CASE MovedCloseHandle
  <2>1. /\ handle' = [handle EXCEPT ![call.path] = "closed"]
        /\ UNCHANGED status /\ Ends(call.path, "cleanup")
    BY <1>5 DEF MovedCloseHandle, CloseHandle
  <2>2. io'[p] = io[p] \/ io'[p] \in Results
    BY <1>1, <2>1 DEF Ends, Complete, Results
  <2> QED
    BY <1>1, <2>1, <2>2, PlacedStays
<1>6. CASE MovedFinish
  <2>1. /\ handle[call.path] = "closed" /\ io[call.path] # "pending"
        /\ completion.stage = "started" => io[completion.path] # "none"
        /\ status' = [status EXCEPT ![call.path] = "FINISHED"] /\ UNCHANGED <<io, handle>>
    BY <1>6 DEF MovedFinish, Inv, Moved, Reads
  <2> QED
    BY <1>1, <2>1 DEF Placed
<1> QED
  BY <1>2, <1>3, <1>4, <1>5, <1>6
  DEF MovedStep, MovedLook, MovedCheck, MovedClose, MovedReturn, Unread

LEMMA PlacedNext == Inv /\ AllPlaced /\ [Next]_vars => AllPlaced'
<1> SUFFICES ASSUME Inv, AllPlaced, [Next]_vars PROVE AllPlaced'
  OBVIOUS
<1>1. CASE EndStep
  <2> SUFFICES ASSUME NEW p \in Paths PROVE Placed(p)'
    BY DEF AllPlaced
  <2>1. /\ Placed(p) /\ completion' = completion
        /\ io \in [Paths -> Results \cup {"none", "pending"}]
        /\ status \in [Paths -> {"ABSENT", "NOT_LISTENING", "LISTENING",
                                 "CANCELLED", "FINISHED"}]
        /\ handle \in [Paths -> {"none", "here", "moved", "deleted", "closed"}]
    BY <1>1 DEF AllPlaced, Inv, TypeOK, SystemTypeOK, EndStep
  <2>2. CASE CancelRemaining
    <3>1. completion.stage = "none"
      BY <2>2 DEF CancelRemaining, Inv, Ending
    <3> QED
      BY <2>1, <2>2, <3>1 DEF CancelRemaining, Cancel, CancelIo, Complete, Closed, Placed
  <2>3. CASE UNCHANGED <<handle, io, status>>
    BY <2>1, <2>3, PlacedStays
  <2> QED
    BY <1>1, <2>2, <2>3 DEF EndStep, LeaveLoop, CancelledAll, Finish, Unread
<1>2. CASE \/ StartWatching \/ StopWatching \/ Shutdown \/ Abandon
           \/ StopWatchingMovedPaths \/ UNCHANGED vars
  <2>1. UNCHANGED <<handle, io, status, completion>>
    BY <1>2
    DEF StartWatching, StopWatching, Shutdown, Begin, Abandon, StopWatchingMovedPaths,
        Unread, UserOnly, vars, systemVars, serverVars, loopVars
  <2> QED
    BY <2>1 DEF AllPlaced, Placed
<1>3. TypeOK
  BY DEF Inv
<1> QED
  BY <1>1, <1>2, <1>3, FileSystemPlaced, RunLoopPlaced, CommandPlaced, UserPlaced
  DEF Next, RunLoopStep

(* A step that is about other paths.                                       *)
LEMMA SettledStays ==
    ASSUME NEW p \in Paths, Settled(p),
           io'[p] = io[p] \/ io'[p] \in Results,
           status'[p] = status[p],
           p \in buffered => p \in buffered',
           terminate' = terminate,
           p \in missed' => p \in missed,
           p \in failed' <=> p \in failed,
           \/ completion' = completion
           \/ /\ completion.stage = "none" \/ completion.path # p
              /\ completion'.stage = "none" \/ completion'.path # p
    PROVE  Settled(p)'
BY DEF Settled, Carried

LEMMA FileSystemCarries ==
    ASSUME Inv, Carrying, FileSystem
    PROVE  Carrying'
<1> SUFFICES ASSUME NEW p \in Paths PROVE Settled(p)'
  BY DEF Carrying
<1>1. /\ Settled(p) /\ io \in [Paths -> Results \cup {"none", "pending"}]
      /\ UNCHANGED <<status, terminate, completion, failed>>
  BY DEF Carrying, FileSystem, Inv, TypeOK, SystemTypeOK, serverVars, loopVars
<1>2. PICK path \in Paths :
         \/ /\ \/ CreateDirectory(path)
               \/ DeleteDirectory(path)
               \/ MoveAway(path)
               \/ MoveBack(path)
               \/ ReadError(path)
            /\ UNCHANGED missed
         \/ /\ Content(path)
            /\ missed' = IF Owed(path) THEN missed \cup {path} ELSE missed
  BY DEF FileSystem
<1>3. (io'[p] = io[p] \/ io'[p] \in Results) /\ (p \in buffered => p \in buffered')
  BY <1>1, <1>2
  DEF CreateDirectory, DeleteDirectory, MoveAway, MoveBack, ReadError, Content, Ends,
      Complete, Results
<1>4. CASE p \in missed' => p \in missed
  BY <1>1, <1>3, <1>4, SettledStays
<1>5. CASE p \in missed' /\ p \notin missed
  <2>1. Content(p) /\ Owed(p)
    BY <1>2, <1>5
  <2>2. io'[p] \in Results \/ (io[p] # "pending" /\ io' = io /\ p \in buffered')
    BY <1>1, <2>1 DEF Content, Complete, Results
  <2>3. CASE status[p] = "LISTENING"
    <3>1. io[p] # "none"
      BY <2>3 DEF Inv, Reads, ListeningReads
    <3>2. io'[p] \in Results
      BY <1>1, <2>2, <3>1
    <3> QED
      BY <1>1, <2>1, <2>3, <3>2 DEF Settled, Carried, Owed
  <2>4. CASE status[p] = "NOT_LISTENING"
    <3>1. terminate \/ (completion.stage # "none" /\ completion.path = p)
      BY <1>1, <2>1, <2>4 DEF Settled, Owed
    <3>2. completion.stage \in {"none", "handle", "listen", "started"}
      BY DEF Inv, TypeOK
    <3>3. completion.stage = "listen" => io[completion.path] = "none"
      BY DEF Inv, Reads
    <3>4. completion.stage = "started" => io[completion.path] # "none"
      BY DEF Inv, Reads
    <3>5. terminate \/ Carried(p)'
      BY <1>1, <2>2, <3>1, <3>2, <3>3, <3>4 DEF Carried
    <3> QED
      BY <1>1, <2>1, <3>5 DEF Settled, Owed
  <2> QED
    BY <2>1, <2>3, <2>4 DEF Owed
<1> QED
  BY <1>4, <1>5

LEMMA DeliverCarries ==
    ASSUME Inv, Carrying, DeliverStep
    PROVE  Carrying'
<1> SUFFICES ASSUME NEW p \in Paths PROVE Settled(p)'
  BY DEF Carrying
<1>1. /\ Settled(p) /\ io \in [Paths -> Results \cup {"none", "pending"}]
      /\ status \in [Paths -> {"ABSENT", "NOT_LISTENING", "LISTENING",
                               "CANCELLED", "FINISHED"}]
      /\ UNCHANGED <<buffered, terminate, missed, failed>>
      /\ completion.stage = "none"
  BY DEF Carrying, DeliverStep, Alertable, Silent, fsVars, Inv, TypeOK, SystemTypeOK
<1>2. PICK path \in Paths :
         /\ Head(apcs) = path
         /\ io' = [io EXCEPT ![path] = "none"]
         /\ DeliverAbort(path) \/ DeliverIgnored(path) \/ DeliverResult(path)
  BY DEF DeliverStep
<1>3. CASE p # path
  <2>1. /\ io'[p] = io[p] /\ status'[p] = status[p]
        /\ completion'.stage = "none" \/ completion'.path # p
    BY <1>1, <1>2, <1>3 DEF DeliverAbort, DeliverIgnored, DeliverResult, Closed, Busy
  <2> QED
    BY <1>1, <2>1, SettledStays
<1>4. CASE p = path /\ DeliverAbort(path)
  <2>1. status'[p] = "FINISHED"
    BY <1>1, <1>4 DEF DeliverAbort, Closed
  <2> QED
    BY <1>1, <2>1 DEF Settled
<1>5. CASE p = path /\ DeliverResult(path)
  <2>1. completion'.stage = "handle" /\ completion'.path = p
    BY <1>5 DEF DeliverResult
  <2> QED
    BY <1>1, <2>1 DEF Settled, Carried
<1>6. CASE p = path /\ DeliverIgnored(path)
  <2>1. status[p] # "LISTENING" /\ status' = status /\ completion' = completion
    BY <1>6 DEF DeliverIgnored
  <2>2. status[p] # "ABSENT"
    <3>1. Queued(apcs, p)
      <4>1. apcs \in Seq(Items) /\ apcs # <<>>
        BY DEF DeliverStep, Alertable, Inv, TypeOK, SystemTypeOK, Items
      <4> QED
        BY <1>2, <1>6, <4>1, QueueTail
    <3> QED
      BY <3>1 DEF Inv, Reads, Results
  <2>3. status[p] = "NOT_LISTENING" => p \in failed \/ terminate
    BY <1>1 DEF Settled
  <2> QED
    BY <1>1, <2>1, <2>2, <2>3 DEF Settled
<1> QED
  BY <1>2, <1>3, <1>4, <1>5, <1>6

LEMMA HandleCarries ==
    ASSUME Inv, AllPlaced, Carrying, HandleStep
    PROVE  Carrying'
<1> SUFFICES ASSUME NEW p \in Paths PROVE Settled(p)'
  BY DEF Carrying
<1> DEFINE path == completion.path
<1>1. /\ Settled(p) /\ io \in [Paths -> Results \cup {"none", "pending"}]
      /\ status \in [Paths -> {"ABSENT", "NOT_LISTENING", "LISTENING",
                               "CANCELLED", "FINISHED"}]
      /\ completion \in [stage : {"none", "handle", "listen", "started"},
                         path : Paths \cup {NoPath}, result : Results \cup {"none"}]
      /\ terminate' = terminate
  BY DEF Carrying, HandleStep, Inv, TypeOK, SystemTypeOK
<1>2. NoCompletion.stage = "none"
  BY DEF NoCompletion
<1>3. CASE p # path
  <2>1. /\ io'[p] = io[p] /\ status'[p] = status[p]
        /\ p \in buffered => p \in buffered'
    BY <1>1, <1>3
    DEF HandleStep, HandleDenied, HandleMoved, HandleError, HandleTerminating, HandleEvents,
        ListenAgain, Listening, ListenFails, ReportDeleted, Closed, NoRead, Same, Read,
        Complete
  <2>2. (p \in missed' => p \in missed) /\ (p \in failed' <=> p \in failed)
    BY <1>3
    DEF HandleStep, HandleDenied, HandleMoved, HandleError, HandleTerminating, HandleEvents,
        ListenAgain, Listening, ListenFails, ReportDeleted, ReportEvents, Report, Silent
  <2>3. completion'.stage = "none" \/ completion'.path # p
    BY <1>1, <1>2, <1>3
    DEF HandleStep, HandleDenied, HandleMoved, HandleError, HandleTerminating, HandleEvents,
        ListenAgain, Listening, ListenFails, ReportDeleted, Handled, Reported
  <2> QED
    BY <1>1, <1>3, <2>1, <2>2, <2>3, SettledStays
<1>4. CASE p = path
  <2>1. ASSUME Closed(path), p \notin missed' PROVE Settled(p)'
    <3>1. status'[p] = "FINISHED"
      BY <1>1, <1>4, <2>1 DEF Closed
    <3> QED
      BY <2>1, <3>1 DEF Settled
  <2>2. CASE HandleDenied \/ HandleMoved \/ ListenFails
    BY <1>4, <2>1, <2>2 DEF HandleDenied, HandleMoved, ListenFails, ReportDeleted, Report
  <2>3. CASE HandleError
    BY <1>4, <2>3 DEF HandleError, Report, Settled
  <2>4. CASE HandleTerminating
    BY <1>1, <2>4 DEF HandleTerminating, InPlace, Silent, Settled
  <2>5. CASE HandleEvents
    <3>1. p \notin missed' /\ completion'.path = p /\ completion'.stage = "listen"
      <4>1. completion' = [completion EXCEPT !.stage = "listen"] /\ p \notin missed'
        BY <1>4, <2>5 DEF HandleEvents, ReportEvents, Report, Reported
      <4> QED
        BY <1>4, <4>1 DEF Inv, TypeOK
    <3> QED
      BY <3>1 DEF Settled
  <2>6. CASE ListenAgain
    <3>1. /\ completion.stage = "listen" /\ io[p] = "none"
          /\ UNCHANGED <<status, missed, failed>>
      BY <1>4, <2>6 DEF ListenAgain, Inv, Reads, Same, Silent
    <3>2. completion'.path = p /\ completion'.stage = "started"
      <4>1. completion' = [completion EXCEPT !.stage = "started"]
        BY <2>6 DEF ListenAgain
      <4> QED
        BY <1>4, <4>1 DEF Inv, TypeOK
    <3>3. p \in buffered => io'[p] \in Results
      BY <1>1, <1>4, <2>6 DEF ListenAgain, Read, Complete, Results
    <3>4. io[p] \notin Results
      BY <3>1 DEF Results
    <3> QED
      BY <1>1, <3>1, <3>2, <3>3, <3>4 DEF Settled, Carried
  <2>7. CASE Listening
    <3>1. /\ completion.stage = "started" /\ io' = io /\ UNCHANGED <<missed, failed>>
          /\ status'[p] = "LISTENING"
      BY <1>1, <1>4, <2>7 DEF Listening, NoRead, Silent
    <3>2. status[p] = "NOT_LISTENING" \/ io[p] \in Results
      BY <1>4, <3>1 DEF AllPlaced, Placed
    <3> QED
      BY <1>1, <3>1, <3>2 DEF Settled, Carried
  <2> QED
    BY <2>2, <2>3, <2>4, <2>5, <2>6, <2>7 DEF HandleStep
<1> QED
  BY <1>3, <1>4

LEMMA CommandCarries ==
    ASSUME Inv, Carrying, CommandStep
    PROVE  Carrying'
<1> SUFFICES ASSUME NEW p \in Paths PROVE Settled(p)'
  BY DEF Carrying
<1>1. /\ Settled(p) /\ completion' = completion
      /\ io \in [Paths -> Results \cup {"none", "pending"}]
      /\ status \in [Paths -> {"ABSENT", "NOT_LISTENING", "LISTENING",
                               "CANCELLED", "FINISHED"}]
      /\ missed' = {q \in missed : status'[q] # "ABSENT"}
      /\ failed' = {q \in failed : status'[q] # "ABSENT"}
  BY DEF Carrying, Inv, TypeOK, SystemTypeOK, CommandStep
<1>2. ASSUME UNCHANGED <<io, status, buffered, terminate>> PROVE Settled(p)'
  BY <1>1, <1>2 DEF Settled, Carried
<1>3. CASE ExecuteShutdown
  <2>1. terminate' = TRUE
    BY <1>3 DEF ExecuteShutdown
  <2> QED
    BY <1>1, <2>1 DEF Settled
<1>4. CASE RegisterNew
  <2>1. /\ status[Path] = "ABSENT" /\ io[Path] = "none" /\ ~terminate
        /\ completion.stage = "none"
    <3>1. /\ loop = "sleep" /\ executing.stage = "next" /\ executing.todo # <<>>
          /\ status[Path] = "ABSENT"
      BY <1>4 DEF RegisterNew, InList, Executing
    <3>2. Path \in Paths
      BY <3>1, HeadTailProperties DEF Path, Inv, TypeOK
    <3> QED
      BY <3>1, <3>2 DEF Inv, Reads, Commands, Ending
  <2>2. /\ \A q \in Paths : q # Path =>
              io'[q] = io[q] /\ status'[q] = status[q] /\ (q \in buffered => q \in buffered')
        /\ Path \in Paths => status'[Path] = "LISTENING"
        /\ terminate' = terminate
    BY <1>1, <1>4 DEF RegisterNew, Read, Complete, Waiting
  <2>3. CASE p = Path
    <3>1. p \notin missed
      BY <1>1, <2>1, <2>3 DEF Settled, Carried, Results
    <3> QED
      BY <1>1, <2>2, <2>3, <3>1 DEF Settled
  <2>4. CASE p # Path
    BY <1>1, <2>2, <2>4 DEF Settled, Carried
  <2> QED
    BY <2>3, <2>4
<1>5. CASE Unregister
  <2>1. /\ terminate' = terminate /\ buffered' = buffered
        /\ \A q \in Paths : q # Path => io'[q] = io[q] /\ status'[q] = status[q]
    BY <1>1, <1>5 DEF Unregister, Waiting, Cancel, CancelIo, Complete, Closed
  <2>2. CASE p # Path
    BY <1>1, <2>1, <2>2 DEF Settled, Carried
  <2>3. CASE p = Path /\ status[Path] = "LISTENING"
    <3>1. status'[p] \in {"CANCELLED", "FINISHED"}
      BY <1>1, <1>5, <2>3 DEF Unregister, Cancel, Closed
    <3> QED
      BY <1>1, <3>1 DEF Settled
  <2>4. CASE status[Path] # "LISTENING"
    BY <1>2, <1>5, <2>4 DEF Unregister, Waiting
  <2> QED
    BY <2>2, <2>3, <2>4
<1>6. CASE Destroy
  <2>1. /\ io' = io /\ terminate' = terminate /\ buffered' = buffered \ {Path}
        /\ status' = [status EXCEPT ![Path] = "ABSENT"]
    BY <1>6 DEF Destroy, Waiting
  <2>2. CASE p = Path
    BY <1>1, <2>1, <2>2 DEF Settled
  <2>3. CASE p # Path
    BY <1>1, <2>1, <2>3 DEF Settled, Carried
  <2> QED
    BY <2>2, <2>3
<1>7. CASE \/ StartCommand \/ StartGoneCommand \/ EndOfList \/ RegisterFails
           \/ RegisterErase \/ UnregisterNothing
  BY <1>2, <1>7
  DEF StartCommand, StartGoneCommand, EndOfList, RegisterFails, RegisterErase,
      UnregisterNothing, Unwatched, Waiting
<1> QED
  BY <1>3, <1>4, <1>5, <1>6, <1>7 DEF CommandStep

LEMMA MovedCarries ==
    ASSUME Inv, Carrying, MovedStep
    PROVE  Carrying'
<1> SUFFICES ASSUME NEW p \in Paths PROVE Settled(p)'
  BY DEF Carrying
<1>1. /\ Settled(p) /\ UNCHANGED <<completion, buffered, terminate, missed, failed>>
      /\ io \in [Paths -> Results \cup {"none", "pending"}]
      /\ status \in [Paths -> {"ABSENT", "NOT_LISTENING", "LISTENING",
                               "CANCELLED", "FINISHED"}]
  BY DEF Carrying, Inv, TypeOK, SystemTypeOK, MovedStep, UserOnly, Silent, fsVars
<1>2. io'[p] = io[p] \/ io'[p] \in Results
  BY <1>1
  DEF MovedStep, MovedLook, MovedCheck, MovedCancel, MovedMark, MovedClose,
      MovedCloseHandle, MovedFinish, Leave, MovedReturn,
      Unread, CancelIo, CloseHandle, Ends, Complete, Results
<1>3. status'[p] = status[p] \/ status'[p] \in {"CANCELLED", "FINISHED"}
  BY <1>1
  DEF MovedStep, MovedLook, MovedCheck, MovedCancel, MovedMark, MovedClose,
      MovedCloseHandle, MovedFinish, Leave, MovedReturn,
      Unread
<1>4. CASE status'[p] = status[p]
  BY <1>1, <1>2, <1>4, SettledStays
<1>5. CASE status'[p] \in {"CANCELLED", "FINISHED"}
  BY <1>1, <1>5 DEF Settled
<1> QED
  BY <1>3, <1>4, <1>5

LEMMA CarryingNext == Inv /\ AllPlaced /\ Carrying /\ [Next]_vars => Carrying'
<1> SUFFICES ASSUME Inv, AllPlaced, Carrying, [Next]_vars PROVE Carrying'
  OBVIOUS
<1>1. CASE EndStep
  <2> SUFFICES ASSUME NEW p \in Paths PROVE Settled(p)'
    BY DEF Carrying
  <2>1. /\ Settled(p)
        /\ UNCHANGED <<completion, buffered, terminate, missed, failed>>
    BY <1>1 DEF Carrying, EndStep, Silent, fsVars
  <2>2. CASE CancelRemaining
    <3>1. terminate
      BY <2>2 DEF CancelRemaining, Inv, Ending
    <3> QED
      BY <2>1, <3>1 DEF Settled
  <2>3. CASE UNCHANGED <<io, status>>
    BY <2>1, <2>3, SettledStays
  <2> QED
    BY <1>1, <2>2, <2>3 DEF EndStep, LeaveLoop, CancelledAll, Finish, Unread
<1>2. CASE \/ StartWatching \/ StopWatching \/ Shutdown \/ Abandon
           \/ StopWatchingMovedPaths \/ UNCHANGED vars
  <2>1. UNCHANGED <<io, status, completion, buffered, terminate, missed, failed>>
    BY <1>2
    DEF StartWatching, StopWatching, Shutdown, Begin, Abandon, StopWatchingMovedPaths,
        Unread, UserOnly, Silent, fsVars, vars, systemVars, serverVars, loopVars
  <2> QED
    BY <2>1 DEF Carrying, Settled, Carried
<1> QED
  BY <1>1, <1>2, FileSystemCarries, DeliverCarries, HandleCarries, CommandCarries,
     MovedCarries
  DEF Next, RunLoopStep

LEMMA CarryingAlways == Spec => []Carrying
<1>1. Init => AllPlaced /\ Carrying
  BY DEF Init, SystemInit, AllPlaced, Placed, Carrying, Settled, NoCompletion
<1> QED
  BY <1>1, PlacedNext, CarryingNext, InvAlways, PTL DEF Spec

-------------------------------------------------------------------------------
(* Commands on their way to the run loop.                                  *)

(* A user who waits for a command has it queued or executed by a run loop  *)
(* that goes on: there is none that nobody will answer.                    *)
CommandServed ==
    call.stage = "wait" => loop = "sleep" /\ (executing.stage # "none" \/ Queued(apcs, Command))

LEMMA QueuedStays ==
    ASSUME NEW q \in Seq(Items), NEW x \in Items, NEW y
    PROVE  Queued(q, y) => Queued(Append(q, x), y)
BY QueueAppend

LEMMA CommandServedNext == Inv /\ CommandServed /\ [Next]_vars => CommandServed'
<1> SUFFICES ASSUME Inv, CommandServed, [Next]_vars PROVE CommandServed'
  OBVIOUS
<1>1. apcs \in Seq(Items) /\ call \in CallTypes
  BY DEF Inv, TypeOK, SystemTypeOK, Items, CallTypes
<1>2. ASSUME NEW path \in Paths, apcs' = apcs \/ apcs' = Append(apcs, path),
             UNCHANGED <<call, loop, executing>>
      PROVE  CommandServed'
  BY <1>1, <1>2, QueuedStays DEF CommandServed, Items
<1>3. CASE UNCHANGED <<apcs, call, loop, executing>>
  BY <1>3 DEF CommandServed
<1>4. CASE FileSystem
  <2>1. /\ UNCHANGED <<call, loop, executing>>
        /\ \E path \in Paths : apcs' = apcs \/ apcs' = Append(apcs, path)
    BY <1>4
    DEF FileSystem, CreateDirectory, DeleteDirectory, MoveAway, MoveBack, ReadError, Content,
        Ends, Complete, loopVars, userVars
  <2> QED
    BY <1>2, <2>1
<1>5. CASE DeliverStep
  <2>1. /\ apcs # <<>> /\ apcs' = Tail(apcs) /\ Head(apcs) \in Paths
        /\ UNCHANGED <<call, loop, executing>>
    BY <1>5 DEF DeliverStep, Alertable, userVars
  <2>2. Queued(apcs, Command) => Queued(apcs', Command)
    BY <1>1, <2>1, QueueTail, CommandAssumption
  <2> QED
    BY <2>1, <2>2 DEF CommandServed
<1>6. CASE HandleStep
  <2>1. UNCHANGED <<call, loop, executing>>
    BY <1>6 DEF HandleStep, userVars
  <2>2. apcs' = apcs \/ (completion.path \in Paths /\ apcs' = Append(apcs, completion.path))
    BY <1>6
    DEF HandleStep, HandleDenied, HandleMoved, HandleError, HandleTerminating, HandleEvents,
        ListenAgain, Listening, ListenFails, ReportDeleted, NoRead, Read, Complete,
        Inv, Reads
  <2> QED
    BY <1>2, <1>3, <2>1, <2>2
<1>7. CASE CommandStep
  <2>1. CASE StartCommand
    <3>1. executing'.stage = "next" /\ loop' = loop /\ loop = "sleep"
      BY <2>1 DEF StartCommand, CommandServed
    <3> QED
      BY <3>1 DEF CommandServed
  <2>2. CASE StartGoneCommand
    BY <2>2 DEF StartGoneCommand, Waiting, CommandServed
  <2>3. CASE EndOfList \/ ExecuteShutdown \/ RegisterFails
    BY <2>3 DEF EndOfList, ExecuteShutdown, RegisterFails, AnswerFailure, Answer, NoCall,
                CommandServed
  <2>4. CASE RegisterErase \/ RegisterNew \/ Unregister \/ UnregisterNothing
    <3>1. executing'.stage # "none" /\ UNCHANGED <<call, loop>>
      BY <2>4
      DEF RegisterErase, RegisterNew, Unregister, UnregisterNothing, InList, Executing,
          NextPath, AfterCancel, Waiting, Inv, TypeOK
    <3> QED
      BY <3>1 DEF CommandServed
  <2>5. CASE Destroy
    <3>1. loop' = "undefined" => call'.stage = "gone"
      BY InvNext DEF Inv, Commands, MemoryOutlivesUse
    <3>2. executing'.stage = "next" /\ call' = call /\ loop' \in {loop, "undefined"}
      BY <2>5 DEF Destroy, Waiting
    <3> QED
      BY <3>1, <3>2 DEF CommandServed
  <2> QED
    BY <1>7, <2>1, <2>2, <2>3, <2>4, <2>5 DEF CommandStep
<1>8. CASE EndStep
  <2>1. call.stage # "wait" /\ call' = call
    BY <1>8 DEF EndStep, LeaveLoop, CancelRemaining, CancelledAll, Finish, userVars, Inv, Ending
  <2> QED
    BY <2>1 DEF CommandServed
<1>9. CASE StartWatching \/ StopWatching \/ Shutdown
  <2>1. PICK op, todo : Begin(op, todo)
    BY <1>9 DEF StartWatching, StopWatching, Shutdown
  <2>2. Queued(apcs', Command)
    BY <1>1, <2>1, QueueAppend DEF Begin, Items
  <2>3. loop' = loop /\ loop = "sleep"
    <3>1. call.stage = "idle" /\ ~shutdown /\ loop' = loop
      BY <2>1 DEF Begin
    <3> QED
      BY <3>1 DEF Inv, TypeOK, Ending, Commands, MemoryOutlivesUse
  <2> QED
    BY <2>2, <2>3 DEF CommandServed
<1>10. CASE Abandon \/ StopWatchingMovedPaths \/ MovedStep
  <2>1. call'.stage # "wait"
    BY <1>1, <1>10, NoCallTyped
    DEF Abandon, StopWatchingMovedPaths, MovedStep, MovedLook, MovedCheck, MovedCancel,
        MovedMark, MovedClose, MovedCloseHandle, MovedFinish, Leave, MovedReturn,
        CallTypes
  <2> QED
    BY <2>1 DEF CommandServed
<1>11. CASE UNCHANGED vars
  BY <1>3, <1>11 DEF vars, systemVars, loopVars, userVars
<1> QED
  BY <1>4, <1>5, <1>6, <1>7, <1>8, <1>9, <1>10, <1>11 DEF Next, RunLoopStep

-------------------------------------------------------------------------------
(* The variables of the Windows server have their types.                   *)
THEOREM TypeCorrect == Spec => []TypeOK
<1>1. Inv => TypeOK
  BY DEF Inv
<1> QED
  BY <1>1, InvAlways, PTL

(* However stopWatchingMovedPaths, the completion routines and the file    *)
(* system are interleaved, listening is never in name only, and no change  *)
(* that is owed to the user is left behind where neither a read nor a      *)
(* report will come across it: it is told, or its watch point is cancelled *)
(* or closed, or the run loop ends.                                        *)
THEOREM ChangesAreCarriedHolds == Spec => []ChangesAreCarried
<1>1. Inv /\ Carrying => ChangesAreCarried
  BY DEF Inv, TypeOK, Reads, Carrying, Settled, ChangesAreCarried
<1> QED
  BY <1>1, InvAlways, CarryingAlways, PTL

(* executeOnRunLoop never waits in vain: until it is answered or gives up, *)
(* its command is in the queue of the run loop's thread or being executed, *)
(* and the run loop has neither ended nor used memory that is free.        *)
THEOREM CommandServedHolds == Spec => []CommandServed
<1>1. Init => CommandServed
  BY DEF Init, CommandServed, NoCall
<1> QED
  BY <1>1, CommandServedNext, InvAlways, PTL DEF Spec

(* The destructor of a watch point sleeps until the completion of its read *)
(* was delivered, and an executed command has its user waiting for it: the *)
(* run loop uses freed memory only after the user stopped waiting.         *)
THEOREM MemoryOutlivesUseHolds == Spec => []MemoryOutlivesUse
<1>1. Inv => MemoryOutlivesUse
  BY DEF Inv, Commands
<1> QED
  BY <1>1, InvAlways, PTL

(* runLoop returns, and lets the server be deleted, when the completions   *)
(* of all reads were delivered, those of cancelled reads included.         *)
THEOREM ReadsEndBeforeRunLoopHolds == Spec => []ReadsEndBeforeRunLoop
<1>1. Inv => ReadsEndBeforeRunLoop
  BY DEF Inv, Ending
<1> QED
  BY <1>1, InvAlways, PTL
===============================================================================
