---------------------------- MODULE PollDelivery -----------------------------
(***************************************************************************)
(* Listeners that follow a stream by long polling: the client generator    *)
(* Stream._long_poll_events with _get_with_read_retries (client.py), and   *)
(* the server handler poll with its Store.read (api.py, store.py).         *)
(*                                                                         *)
(* A poll is one request and one answer.  The client moves its cursor only *)
(* after it has yielded the whole batch; an answer that gets lost is asked *)
(* for again from the same cursor.                                         *)
(***************************************************************************)
EXTENDS RedisStream

CONSTANTS
    Listeners,
    Retries,    \* read_retries of the client
    Limit,      \* the limit parameter of the request: events per poll
    Starts,     \* where a listener may start: subset of {"beginning", "resume", "latest"}
    MaxFaults   \* bound: polls that fail

ASSUME PollAssumption ==
    /\ Retries \in Nat
    /\ Limit \in Nat \ {0}
    /\ Starts \subseteq {"beginning", "resume", "latest"}
    /\ MaxFaults \in Nat

VARIABLES
    cst,     \* the client: "idle", "get", "yield", or how the iteration ended
    att,     \* attempt, the loop variable of _get_with_read_retries
    cursor,  \* last_id of the client, and of the request it has made
    pos,     \* the place of the last event the application knows of
    srv,     \* the handler: "none", its await, or the answer it gave
    blk,     \* the id a blocked XREAD waits to be passed
    batch,   \* the places read by the handler, then those still to be yielded
    faults   \* faults so far

vars == <<streamVars, cst, att, cursor, pos, srv, blk, batch, faults>>

Ended == {"raised", "refused", "trimmed"}

Init ==
    /\ StreamInit
    /\ cst = [l \in Listeners |-> "idle"]
    /\ att = [l \in Listeners |-> 0]
    /\ cursor = [l \in Listeners |-> Zero]
    /\ pos = [l \in Listeners |-> 0]
    /\ srv = [l \in Listeners |-> "none"]
    /\ blk = [l \in Listeners |-> Zero]
    /\ batch = [l \in Listeners |-> {}]
    /\ faults = 0

-----------------------------------------------------------------------------
(* The client: _long_poll_events and _get_with_read_retries *)

\* The application calls events(last_id, transport="long-poll").
Start(l) ==
    /\ cst[l] = "idle"
    /\ cst' = [cst EXCEPT ![l] = "get"]
    /\ \/ /\ "beginning" \in Starts
          /\ UNCHANGED <<cursor, pos>>
       \/ /\ "latest" \in Starts
          /\ cursor' = [cursor EXCEPT ![l] = Latest]
          /\ pos' = [pos EXCEPT ![l] = Len(log)]
       \/ /\ "resume" \in Starts
          /\ \E i \in 1 .. Len(log) :
               /\ cursor' = [cursor EXCEPT ![l] = log[i]]
               /\ pos' = [pos EXCEPT ![l] = i]
    /\ UNCHANGED <<streamVars, att, srv, blk, batch, faults>>

\* The request arrives and is admitted.
Request(l) ==
    /\ cst[l] = "get" /\ srv[l] = "none"
    /\ srv' = [srv EXCEPT ![l] = "check"]
    /\ UNCHANGED <<streamVars, cst, att, cursor, pos, blk, batch, faults>>

\* Variant, with a bug: one attempt too many.
PollFaultOffByOne(l) ==
    /\ cst[l] = "get"
    /\ faults < MaxFaults
    /\ faults' = faults + 1
    /\ IF att[l] > Retries
       THEN cst' = [cst EXCEPT ![l] = "raised"] /\ UNCHANGED att
       ELSE att' = [att EXCEPT ![l] = @ + 1] /\ UNCHANGED cst
    /\ srv' = [srv EXCEPT ![l] = "none"]
    /\ batch' = [batch EXCEPT ![l] = {}]
    /\ UNCHANGED <<streamVars, cursor, pos, blk>>

\* The request or its answer is lost, or the answer is a 5xx: retry or raise.
PollFault(l) ==
    /\ cst[l] = "get"
    /\ faults < MaxFaults
    /\ faults' = faults + 1
    /\ IF att[l] >= Retries
       THEN cst' = [cst EXCEPT ![l] = "raised"] /\ UNCHANGED att
       ELSE att' = [att EXCEPT ![l] = @ + 1] /\ UNCHANGED cst
    /\ srv' = [srv EXCEPT ![l] = "none"]
    /\ batch' = [batch EXCEPT ![l] = {}]
    /\ UNCHANGED <<streamVars, cursor, pos, blk>>

\* A 4xx answer other than 409 is raised at once.
Refuse(l) ==
    /\ cst[l] = "get" /\ srv[l] = "none"
    /\ cst' = [cst EXCEPT ![l] = "refused"]
    /\ UNCHANGED <<streamVars, att, cursor, pos, srv, blk, batch, faults>>

\* Variant, with a bug: a 204 ends the loop.
AnswerEndsOn204(l) ==
    /\ cst[l] = "get"
    /\ srv[l] \in {"204", "200", "409"}
    /\ cst' = [cst EXCEPT ![l] = CASE srv[l] = "204" -> "idle"
                                   [] srv[l] = "200" -> "yield"
                                   [] srv[l] = "409" -> "trimmed"]
    /\ att' = [att EXCEPT ![l] = 0]
    /\ srv' = [srv EXCEPT ![l] = "none"]
    /\ UNCHANGED <<streamVars, cursor, pos, blk, batch, faults>>

\* An answer arrives: 204 starts the next poll, 200 hands over its events, 409
\* is a StreamTrimmedError. The next call to _get_with_read_retries counts its
\* attempts anew.
Answer(l) ==
    /\ cst[l] = "get"
    /\ srv[l] \in {"204", "200", "409"}
    /\ cst' = [cst EXCEPT ![l] = CASE srv[l] = "204" -> "get"
                                   [] srv[l] = "200" -> "yield"
                                   [] srv[l] = "409" -> "trimmed"]
    /\ att' = [att EXCEPT ![l] = 0]
    /\ srv' = [srv EXCEPT ![l] = "none"]
    /\ UNCHANGED <<streamVars, cursor, pos, blk, batch, faults>>

\* Variant, with a bug: last_id is not moved.
YieldInPlace(l) ==
    /\ cst[l] = "yield"
    /\ \E i \in batch[l] :
         /\ \A j \in batch[l] : i <= j
         /\ pos' = [pos EXCEPT ![l] = i]
         /\ batch' = [batch EXCEPT ![l] = @ \ {i}]
         /\ cst' = [cst EXCEPT ![l] = IF batch[l] = {i} THEN "get" ELSE "yield"]
    /\ UNCHANGED <<streamVars, att, cursor, srv, blk, faults>>

\* One event is yielded; after the last one last_id moves to that event's id.
Yield(l) ==
    /\ cst[l] = "yield"
    /\ \E i \in batch[l] :
         /\ \A j \in batch[l] : i <= j
         /\ pos' = [pos EXCEPT ![l] = i]
         /\ batch' = [batch EXCEPT ![l] = @ \ {i}]
         /\ IF batch[l] = {i}
            THEN /\ cursor' = [cursor EXCEPT ![l] = log[i]]
                 /\ cst' = [cst EXCEPT ![l] = "get"]
            ELSE UNCHANGED <<cursor, cst>>
    /\ UNCHANGED <<streamVars, att, srv, blk, faults>>

-----------------------------------------------------------------------------
(* The server: the read of poll *)

\* Store.read up to its XREAD; TrimmedStreamCursor is answered with 409.
Check(l) ==
    /\ srv[l] = "check"
    /\ srv' = [srv EXCEPT ![l] = IF Trimmed(cursor[l]) THEN "409" ELSE "read"]
    /\ UNCHANGED <<streamVars, cst, att, cursor, pos, blk, batch, faults>>

\* The XREAD: it returns a batch, or blocks when there is nothing newer.
XRead(l) ==
    /\ srv[l] = "read"
    /\ LET c == Resolve(cursor[l])
       IN  /\ batch' = [batch EXCEPT ![l] = Batch(c, Limit)]
           /\ blk' = [blk EXCEPT ![l] = c]
           /\ srv' = [srv EXCEPT ![l] = IF Newer(c) = {} THEN "blocked" ELSE "200"]
    /\ UNCHANGED <<streamVars, cst, att, cursor, pos, faults>>

\* BLOCK elapses: no entries, 204.
BlockTimeout(l) ==
    /\ srv[l] = "blocked"
    /\ srv' = [srv EXCEPT ![l] = "204"]
    /\ UNCHANGED <<streamVars, cst, att, cursor, pos, blk, batch, faults>>

-----------------------------------------------------------------------------
(* Writers, the expiry of the key, and the readers a write wakes up *)

\* Redis answers the XREADs blocked on the key before its next command.
Write(n) ==
    /\ Add(n)
    /\ UNCHANGED blk
    /\ batch' = [l \in Listeners |->
                   IF srv[l] = "blocked" THEN Batch(blk[l], Limit)' ELSE batch[l]]
    /\ srv' = [l \in Listeners |->
                 IF srv[l] = "blocked" /\ batch'[l] # {} THEN "200" ELSE srv[l]]
    /\ UNCHANGED <<cst, att, cursor, pos, faults>>

Vanish == Remove /\ UNCHANGED <<cst, att, cursor, pos, srv, blk, batch, faults>>

-----------------------------------------------------------------------------
Client(l) ==
    Start(l) \/ Request(l) \/ PollFault(l) \/ Refuse(l) \/ Answer(l) \/ Yield(l)

Server(l) == Check(l) \/ XRead(l) \/ BlockTimeout(l)

Next ==
    \/ \E n \in BatchSizes : Write(n)
    \/ Vanish
    \/ \E l \in Listeners : Client(l) \/ Server(l)

Spec == Init /\ [][Next]_vars

\* Every handler that can run is run and BLOCK always elapses; the client's loop
\* goes on, and the application keeps asking for the next event.
Fairness ==
    \A l \in Listeners :
      /\ WF_vars(Server(l))
      /\ WF_vars(Request(l) \/ Answer(l) \/ Yield(l))

FairSpec == Spec /\ Fairness

-----------------------------------------------------------------------------
(* Properties *)

TypeOK ==
    /\ log \in Seq(Id) /\ first \in 1 .. Len(log) + 1 /\ now \in Nat
    /\ cst \in [Listeners -> {"idle", "get", "yield"} \cup Ended]
    /\ att \in [Listeners -> 0 .. Retries]
    /\ cursor \in [Listeners -> Cursor]
    /\ pos \in [Listeners -> 0 .. Len(log)]
    /\ srv \in [Listeners -> {"none", "check", "read", "blocked", "204", "200", "409"}]
    /\ blk \in [Listeners -> Id]
    /\ batch \in [Listeners -> SUBSET (1 .. Len(log))]
    /\ faults \in 0 .. MaxFaults

\* What an application sees of its listener.
Status(l) ==
    CASE cst[l] = "idle" -> "idle"
      [] cst[l] \in Ended -> "ended"
      [] OTHER -> IF cursor[l] = Latest THEN "latest" ELSE "listening"

\* What _long_poll_events, poll and Store.read do together is what the feed
\* promises: each event at most once, in order, and none that is still in Redis
\* is passed over, however many polls fail, but one whose id the listener's last
\* event had reached, in the same millisecond, before the key was deleted.
Feed ==
    INSTANCE EventFeed WITH
        published <- Len(log),
        oldest <- first,
        hidden <- Hides,
        status <- [l \in Listeners |-> Status(l)]

ImplementsFeed == Feed!FeedSpec

\* README: "If the requested last_id has already been trimmed from the stream, the
\* server returns 409": only then, so a listener that is told so has lost sight of
\* the last event it was handed.
GapIsTrue ==
    \A l \in Listeners :
      srv[l] = "409" \/ cst[l] = "trimmed" => pos[l] < first

\* With faults and writes over, every event reaches every listener, unless the
\* event is removed first, or its id is one the listener's last event had reached
\* before a deletion, or the listener's iteration ended.
EventuallyDelivered ==
    \A l \in Listeners : \A i \in 1 .. MaxEvents :
      (i <= Len(log) /\ cst[l] # "idle" /\ cursor[l] # Latest)
      ~> (pos[l] >= i \/ i < first \/ <<pos[l], i>> \in Hides \/ cst[l] \in Ended)
=============================================================================
