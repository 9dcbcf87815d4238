------------------------------- MODULE Gateway -------------------------------
(***************************************************************************)
(* The example control plane (examples/gateway.py): workers send it the    *)
(* updates of a job, it merges each into the job's snapshot, which it      *)
(* keeps in memory, and publishes the merged snapshot to the job's stream. *)
(*                                                                         *)
(* An update is known by the fields it sets; a snapshot by the update each *)
(* field was last set by.  publish_job_event awaits twice: for the body    *)
(* of the request, before it reads the snapshot, and for the publish,      *)
(* after it stored the new one.                                            *)
(***************************************************************************)
EXTENDS Integers, Sequences

CONSTANTS
    Jobs, Updates, Fields,
    JobOf,   \* JobOf[u]: the job u is an update of
    Sets,    \* Sets[u]: the fields of u's body
    Unset,   \* a field without a value
    Queued   \* the value a new snapshot's status has unless the update sets it

ASSUME GatewayAssumption ==
    /\ "status" \in Fields
    /\ JobOf \in [Updates -> Jobs]
    /\ Sets \in [Updates -> SUBSET Fields]
    /\ Unset \notin Updates /\ Queued \notin Updates /\ Unset # Queued

VARIABLES
    snapshot,  \* JOB_SNAPSHOTS; all fields Unset for a job without one
    work,      \* where the handler of u is
    event,     \* the snapshot the handler of u publishes
    stream,    \* the events in the stream of j
    accepted,  \* history: the updates merged since the gateway started
    clean      \* history: the jobs with no failed and no overlapping publish

gatewayVars == <<snapshot, work, event, stream, accepted, clean>>

Snapshots == [Fields -> Updates \cup {Unset, Queued}]
NoSnapshot == [f \in Fields |-> Unset]
Known == {j \in Jobs : snapshot[j] # NoSnapshot}
Forwarding(j) == {u \in Updates : JobOf[u] = j /\ work[u] \in {"publishing", "stored"}}

GatewayInit ==
    /\ snapshot = [j \in Jobs |-> NoSnapshot]
    /\ work = [u \in Updates |-> "new"]
    /\ event = [u \in Updates |-> NoSnapshot]
    /\ stream = [j \in Jobs |-> <<>>]
    /\ accepted = <<>>
    /\ clean = Jobs

\* Variant, with a bug: what the update does not set is dropped.
MergeReplaces(existing, u) ==
    [f \in Fields |-> IF f \in Sets[u] THEN u ELSE IF f = "status" THEN Queued ELSE Unset]

\* _merge_snapshot.
Merge(existing, u) ==
    [f \in Fields |->
       IF f \in Sets[u] THEN u
       ELSE IF f = "status" /\ existing[f] = Unset THEN Queued
       ELSE existing[f]]

\* Variant, with a bug: the update is published in place of the merged snapshot.
AcceptPartial(u) ==
    LET j == JobOf[u]
    IN  /\ work[u] = "new"
        /\ snapshot' = [snapshot EXCEPT ![j] = Merge(@, u)]
        /\ event' = [event EXCEPT ![u] = Merge(NoSnapshot, u)]
        /\ work' = [work EXCEPT ![u] = "publishing"]
        /\ accepted' = Append(accepted, u)
        /\ clean' = IF Forwarding(j) = {} THEN clean ELSE clean \ {j}
        /\ UNCHANGED stream

\* From the arrival of the body to the await of the publish.
Accept(u) ==
    LET j == JobOf[u]
    IN  /\ work[u] = "new"
        /\ snapshot' = [snapshot EXCEPT ![j] = Merge(@, u)]
        /\ event' = [event EXCEPT ![u] = Merge(snapshot[j], u)]
        /\ work' = [work EXCEPT ![u] = "publishing"]
        /\ accepted' = Append(accepted, u)
        /\ clean' = IF Forwarding(j) = {} THEN clean ELSE clean \ {j}
        /\ UNCHANGED stream

\* tonle stores the event of u.
StoreEvent(u) ==
    /\ work[u] = "publishing"
    /\ stream' = [stream EXCEPT ![JobOf[u]] = Append(@, event[u])]
    /\ work' = [work EXCEPT ![u] = "stored"]
    /\ UNCHANGED <<snapshot, event, accepted, clean>>

\* 202.
Answer(u) ==
    /\ work[u] = "stored"
    /\ work' = [work EXCEPT ![u] = "published"]
    /\ UNCHANGED <<snapshot, event, stream, accepted, clean>>

\* The publish raises, stored or not: 500, and the snapshot stays.
PublishFails(u) ==
    /\ work[u] \in {"publishing", "stored"}
    /\ work' = [work EXCEPT ![u] = "failed"]
    /\ clean' = clean \ {JobOf[u]}
    /\ UNCHANGED <<snapshot, event, stream, accepted>>

\* The gateway dies and starts again, without its snapshots.
Restart ==
    /\ snapshot' = [j \in Jobs |-> NoSnapshot]
    /\ work' = [u \in Updates |->
                  IF work[u] \in {"publishing", "stored"} THEN "failed" ELSE work[u]]
    /\ accepted' = <<>>
    /\ clean' = {}
    /\ UNCHANGED <<event, stream>>

GatewayNext ==
    \/ \E u \in Updates : Accept(u) \/ StoreEvent(u) \/ Answer(u) \/ PublishFails(u)
    \/ Restart

GatewaySpec == GatewayInit /\ [][GatewayNext]_gatewayVars

-----------------------------------------------------------------------------
(* Properties *)

GatewayTypeOK ==
    /\ snapshot \in [Jobs -> Snapshots]
    /\ work \in [Updates -> {"new", "publishing", "stored", "published", "failed"}]
    /\ event \in [Updates -> Snapshots]
    /\ stream \in [Jobs -> Seq(Snapshots)]
    /\ accepted \in Seq(Updates)
    /\ clean \in SUBSET Jobs

\* Of two updates in flight at the same time neither undoes the other: each field
\* of a snapshot holds the update that, of those the gateway merged since it
\* started, was the last to set it.
NoUpdateLost ==
    \A j \in Jobs, f \in Fields :
      LET Setting == {i \in DOMAIN accepted : JobOf[accepted[i]] = j /\ f \in Sets[accepted[i]]}
      IN  /\ snapshot[j][f] \in Updates <=> Setting # {}
          /\ \A i \in Setting :
               (\A k \in Setting : k <= i) => snapshot[j][f] = accepted[i]

\* While the publishes of a job neither overlap nor fail, a listener that has read
\* the stream to its end has the job's snapshot: the last event is the whole
\* snapshot, and not only the last update. (Overlapping publishes may be stored in
\* the other order, and leave the older snapshot at the end.)
LastEventIsSnapshot ==
    \A j \in clean :
      Forwarding(j) = {} /\ stream[j] # <<>> =>
        stream[j][Len(stream[j])] = snapshot[j]
=============================================================================
