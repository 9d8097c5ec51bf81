------------------------------- MODULE FSEvents -------------------------------
(***************************************************************************)
(* The half of macOS that apple_fsnotifier.cpp relies on: streams of file  *)
(* system events, whose callbacks a serial dispatch queue executes.  An    *)
(* event waits for the stream's latency, may be coalesced with the next    *)
(* one, and is then part of a batch in the dispatch queue.                 *)
(***************************************************************************)
EXTENDS Naturals, Sequences

CONSTANTS
    Paths,      \* the paths of streams; one file changes under each
    Raised,     \* the sets of flags one change of a file can raise
    Changes     \* bound: how many changes there are

ASSUME RaisedAssumption == Raised \subseteq SUBSET STRING
ASSUME ChangesAssumption == Changes \in Nat

VARIABLES
    changes,    \* how many changes there were
    latent,     \* of each stream, the events that wait for its latency
    dispatch    \* the batches in the dispatch queue

systemVars == <<changes, latent, dispatch>>

(* An event has the number of the last change it tells of.                 *)
Events == [path : Paths, flags : SUBSET STRING, change : Nat]
Event(path, flags, change) == [path |-> path, flags |-> flags, change |-> change]

SystemInit ==
    /\ changes = 0
    /\ latent = [p \in Paths |-> <<>>]
    /\ dispatch = <<>>

Coalesced(event, flags, change) ==
    Event(event.path, event.flags \cup flags, change)

Change(path) ==
    /\ changes < Changes
    /\ changes' = changes + 1
    /\ \E flags \in Raised :
          \/ latent' = [latent EXCEPT ![path] =
                           Append(@, Event(path, flags, changes + 1))]
          \/ /\ latent[path] # <<>>
             /\ latent' = [latent EXCEPT ![path][Len(latent[path])] =
                              Coalesced(@, flags, changes + 1)]
    /\ UNCHANGED dispatch

(* The latency is over.                                                    *)
Schedule(path) ==
    /\ latent[path] # <<>>
    /\ dispatch' = Append(dispatch, latent[path])
    /\ latent' = [latent EXCEPT ![path] = <<>>]
    /\ UNCHANGED changes

Delivers(batch, path) == batch # <<>> /\ Head(batch).path = path

(* A stream that is stopped drops what is latent.  Whether its batches in  *)
(* the dispatch queue still get executed is not known: the code says "we   *)
(* might get events".  If they do not, there is nothing left to execute.   *)
Stop(paths) ==
    /\ latent' = [p \in Paths |-> IF p \in paths THEN <<>> ELSE latent[p]]
    /\ \/ UNCHANGED dispatch
       \/ dispatch' = [i \in DOMAIN dispatch |->
                          IF \E path \in paths : Delivers(dispatch[i], path)
                          THEN <<>> ELSE dispatch[i]]
    /\ UNCHANGED changes

(* The dispatch queue is done with a batch that was dropped.               *)
Skip ==
    /\ dispatch # <<>>
    /\ Head(dispatch) = <<>>
    /\ dispatch' = Tail(dispatch)
    /\ UNCHANGED <<changes, latent>>
===============================================================================
