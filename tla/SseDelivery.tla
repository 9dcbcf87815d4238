----------------------------- MODULE SseDelivery -----------------------------
(***************************************************************************)
(* Listeners that follow a stream over SSE: the client generator           *)
(* Stream._sse_events (client.py), the server generator event_stream       *)
(* (api.py) with the Store.read it repeats, and the response between them. *)
(*                                                                         *)
(* Every await of the server is a point where writers, the expiry of the   *)
(* key and other listeners may run, so the XRANGE and the XREAD of         *)
(* Store.read are two actions.  A response may be cut or ended at any      *)
(* moment; what was on the wire is then lost.                              *)
(***************************************************************************)
EXTENDS RedisStream

CONSTANTS
    Listeners,
    Retries,    \* read_retries of the client
    Limit,      \* the limit parameter of the request: events per read
    Starts,     \* where a listener may start: subset of {"beginning", "resume", "latest"}
    WireCap,    \* bound: messages in flight in one response
    MaxFaults   \* bound: failed connections, cuts and early ends

ASSUME SseAssumption ==
    /\ Retries \in Nat
    /\ Limit \in Nat \ {0}
    /\ Starts \subseteq {"beginning", "resume", "latest"}
    /\ WireCap \in Nat \ {0}
    /\ MaxFaults \in Nat

VARIABLES
    \* The client
    cst,      \* "idle", "connect", "open", or how the iteration ended
    att,      \* attempt, the loop variable of the retry loop
    cursor,   \* current_last_id of the client
    pos,      \* the place of the last event the application knows of
    \* The server
    srv,      \* the await event_stream is at; "none" when there is no generator
    scur,     \* current_last_id of event_stream
    blk,      \* the id a blocked XREAD waits to be passed
    batch,    \* the places read and not yet yielded
    checked,  \* history: `first` when the trim check passed, 0 if there was no entry
    \* Between them
    wire,     \* messages written and not yet read: places of events, or Gap
    faults    \* faults so far

clientVars == <<cst, att, cursor, pos>>
serverVars == <<srv, scur, blk, batch, checked>>
vars == <<streamVars, clientVars, serverVars, wire, faults>>

Gap == 0
Ended == {"raised", "refused", "trimmed"}

Init ==
    /\ StreamInit
    /\ cst = [l \in Listeners |-> "idle"]
    /\ att = [l \in Listeners |-> 0]
    /\ cursor = [l \in Listeners |-> Zero]
    /\ pos = [l \in Listeners |-> 0]
    /\ srv = [l \in Listeners |-> "none"]
    /\ scur = [l \in Listeners |-> Zero]
    /\ blk = [l \in Listeners |-> Zero]
    /\ batch = [l \in Listeners |-> {}]
    /\ checked = [l \in Listeners |-> 0]
    /\ wire = [l \in Listeners |-> << >>]
    /\ faults = 0

-----------------------------------------------------------------------------
(* The client: Stream._sse_events *)

\* The application calls events(last_id): with "0", with "$", or with the id of
\* an event it was once handed.
Start(l) ==
    /\ cst[l] = "idle"
    /\ cst' = [cst EXCEPT ![l] = "connect"]
    /\ \/ /\ "beginning" \in Starts
          /\ UNCHANGED <<cursor, pos>>
       \/ /\ "latest" \in Starts
          /\ cursor' = [cursor EXCEPT ![l] = Latest]
          /\ pos' = [pos EXCEPT ![l] = Len(log)]
       \/ /\ "resume" \in Starts
          /\ \E i \in 1 .. Len(log) :
               /\ cursor' = [cursor EXCEPT ![l] = log[i]]
               /\ pos' = [pos EXCEPT ![l] = i]
    /\ UNCHANGED <<streamVars, att, serverVars, wire, faults>>

\* The request succeeds: sse() parses Last-Event-ID and event_stream starts.
Connect(l) ==
    /\ cst[l] = "connect"
    /\ cst' = [cst EXCEPT ![l] = "open"]
    /\ srv' = [srv EXCEPT ![l] = "check"]
    /\ scur' = [scur EXCEPT ![l] = cursor[l]]
    /\ UNCHANGED <<streamVars, att, cursor, pos, blk, batch, checked, wire, faults>>

\* The response, if any, is gone, and with it its generator.
CloseResponse(l) ==
    /\ srv' = [srv EXCEPT ![l] = "none"]
    /\ batch' = [batch EXCEPT ![l] = {}]
    /\ wire' = [wire EXCEPT ![l] = << >>]
    /\ UNCHANGED <<scur, blk, checked>>

\* Variant, with a bug: one attempt too many.
FaultOffByOne(l) ==
    /\ faults < MaxFaults
    /\ faults' = faults + 1
    /\ IF att[l] > Retries
       THEN /\ cst' = [cst EXCEPT ![l] = "raised"]
            /\ UNCHANGED att
       ELSE /\ cst' = [cst EXCEPT ![l] = "connect"]
            /\ att' = [att EXCEPT ![l] = @ + 1]
    /\ CloseResponse(l)
    /\ UNCHANGED <<streamVars, cursor, pos>>

\* except (httpx.RequestError, StreamServerError): retry or raise.
Fault(l) ==
    /\ faults < MaxFaults
    /\ faults' = faults + 1
    /\ IF att[l] >= Retries
       THEN /\ cst' = [cst EXCEPT ![l] = "raised"]
            /\ UNCHANGED att
       ELSE /\ cst' = [cst EXCEPT ![l] = "connect"]
            /\ att' = [att EXCEPT ![l] = @ + 1]
    /\ CloseResponse(l)
    /\ UNCHANGED <<streamVars, cursor, pos>>

\* The connection fails or is answered with a 5xx.
ConnectFault(l) == cst[l] = "connect" /\ Fault(l)

\* An open response breaks: network, server crash, or a RedisError that
\* event_stream raises.
Cut(l) == cst[l] = "open" /\ Fault(l)

\* An open response ends cleanly before its generator does (a proxy closed
\* it): `break` leaves the retry loop and `while True` starts a new one.
EndResponse(l) ==
    /\ cst[l] = "open"
    /\ faults < MaxFaults
    /\ faults' = faults + 1
    /\ cst' = [cst EXCEPT ![l] = "connect"]
    /\ att' = [att EXCEPT ![l] = 0]
    /\ CloseResponse(l)
    /\ UNCHANGED <<streamVars, cursor, pos>>

\* A 4xx answer (auth, limits, quotas) is raised at once.
Refuse(l) ==
    /\ cst[l] = "connect"
    /\ cst' = [cst EXCEPT ![l] = "refused"]
    /\ UNCHANGED <<streamVars, att, cursor, pos, serverVars, wire, faults>>

\* The parser completes a message of type "message": it is yielded.
Receive(l) ==
    /\ cst[l] = "open"
    /\ wire[l] # << >> /\ Head(wire[l]) # Gap
    /\ cursor' = [cursor EXCEPT ![l] = log[Head(wire[l])]]
    /\ pos' = [pos EXCEPT ![l] = Head(wire[l])]
    /\ wire' = [wire EXCEPT ![l] = Tail(@)]
    /\ UNCHANGED <<streamVars, cst, att, serverVars, faults>>

\* The parser completes a message of type "gap": StreamTrimmedError.
ReceiveGap(l) ==
    /\ cst[l] = "open"
    /\ wire[l] # << >> /\ Head(wire[l]) = Gap
    /\ cst' = [cst EXCEPT ![l] = "trimmed"]
    /\ CloseResponse(l)
    /\ UNCHANGED <<streamVars, att, cursor, pos, faults>>

-----------------------------------------------------------------------------
(* The server: event_stream and the Store.read it awaits *)

\* Store.read up to its XREAD: the XRANGE, when the cursor calls for one.
Check(l) ==
    /\ srv[l] = "check"
    /\ srv' = [srv EXCEPT ![l] = IF Trimmed(scur[l]) THEN "gap" ELSE "read"]
    /\ checked' = [checked EXCEPT ![l] = IF Exists THEN first ELSE 0]
    /\ UNCHANGED <<streamVars, clientVars, scur, blk, batch, wire, faults>>

\* The XREAD: it returns a batch, or blocks when there is nothing newer.
XRead(l) ==
    /\ srv[l] = "read"
    /\ LET c == Resolve(scur[l])
       IN  /\ batch' = [batch EXCEPT ![l] = Batch(c, Limit)]
           /\ blk' = [blk EXCEPT ![l] = c]
           /\ srv' = [srv EXCEPT ![l] = IF Newer(c) = {} THEN "blocked" ELSE "emit"]
    /\ UNCHANGED <<streamVars, clientVars, scur, checked, wire, faults>>

\* BLOCK elapses: read returns [], event_stream writes a keep-alive and loops.
BlockTimeout(l) ==
    /\ srv[l] = "blocked"
    /\ srv' = [srv EXCEPT ![l] = "check"]
    /\ UNCHANGED <<streamVars, clientVars, scur, blk, batch, checked, wire, faults>>

\* Variant, with a bug: current_last_id is not moved.
EmitInPlace(l) ==
    /\ srv[l] = "emit"
    /\ Len(wire[l]) < WireCap
    /\ \E i \in batch[l] :
         /\ \A j \in batch[l] : i <= j
         /\ wire' = [wire EXCEPT ![l] = Append(@, i)]
         /\ batch' = [batch EXCEPT ![l] = @ \ {i}]
         /\ srv' = [srv EXCEPT ![l] = IF batch[l] = {i} THEN "check" ELSE "emit"]
    /\ UNCHANGED <<streamVars, clientVars, scur, blk, checked, faults>>

\* One turn of `for entry_id, data in entries`; after the last one it loops.
Emit(l) ==
    /\ srv[l] = "emit"
    /\ Len(wire[l]) < WireCap
    /\ \E i \in batch[l] :
         /\ \A j \in batch[l] : i <= j
         /\ scur' = [scur EXCEPT ![l] = log[i]]
         /\ wire' = [wire EXCEPT ![l] = Append(@, i)]
         /\ batch' = [batch EXCEPT ![l] = @ \ {i}]
         /\ srv' = [srv EXCEPT ![l] = IF batch[l] = {i} THEN "check" ELSE "emit"]
    /\ UNCHANGED <<streamVars, clientVars, blk, checked, faults>>

\* except TrimmedStreamCursor: yield the gap event and return.
EmitGap(l) ==
    /\ srv[l] = "gap"
    /\ Len(wire[l]) < WireCap
    /\ wire' = [wire EXCEPT ![l] = Append(@, Gap)]
    /\ srv' = [srv EXCEPT ![l] = "none"]
    /\ UNCHANGED <<streamVars, clientVars, scur, blk, batch, checked, faults>>

-----------------------------------------------------------------------------
(* Writers, the expiry of the key, and the readers a write wakes up *)

\* Redis answers the XREADs blocked on the key before its next command.
Write(n) ==
    /\ Add(n)
    /\ UNCHANGED blk
    /\ batch' = [l \in Listeners |->
                   IF srv[l] = "blocked" THEN Batch(blk[l], Limit)' ELSE batch[l]]
    /\ srv' = [l \in Listeners |->
                 IF srv[l] = "blocked" /\ batch'[l] # {} THEN "emit" ELSE srv[l]]
    /\ UNCHANGED <<clientVars, scur, checked, wire, faults>>

Vanish == Remove /\ UNCHANGED <<clientVars, serverVars, wire, faults>>

-----------------------------------------------------------------------------
Client(l) ==
    \/ Start(l) \/ Connect(l) \/ ConnectFault(l) \/ Cut(l) \/ EndResponse(l)
    \/ Refuse(l) \/ Receive(l) \/ ReceiveGap(l)

Server(l) == Check(l) \/ XRead(l) \/ BlockTimeout(l) \/ Emit(l) \/ EmitGap(l)

Next ==
    \/ \E n \in BatchSizes : Write(n)
    \/ Vanish
    \/ \E l \in Listeners : Client(l) \/ Server(l)

Spec == Init /\ [][Next]_vars

\* The event loop runs every generator that can run and BLOCK always elapses; a
\* client that wants a response gets an answer, and reads what arrives.
Fairness ==
    \A l \in Listeners :
      /\ WF_vars(Server(l))
      /\ WF_vars(Connect(l) \/ ConnectFault(l) \/ Refuse(l))
      /\ WF_vars(Receive(l) \/ ReceiveGap(l))

FairSpec == Spec /\ Fairness
-----------------------------------------------------------------------------
(* Properties *)

TypeOK ==
    /\ log \in Seq(Id) /\ first \in 1 .. Len(log) + 1 /\ now \in Nat
    /\ cst \in [Listeners -> {"idle", "connect", "open"} \cup Ended]
    /\ att \in [Listeners -> 0 .. Retries]
    /\ cursor \in [Listeners -> Cursor]
    /\ pos \in [Listeners -> 0 .. Len(log)]
    /\ srv \in [Listeners -> {"none", "check", "read", "blocked", "emit", "gap"}]
    /\ scur \in [Listeners -> Cursor]
    /\ blk \in [Listeners -> Id]
    /\ batch \in [Listeners -> SUBSET (1 .. Len(log))]
    /\ checked \in [Listeners -> 0 .. Len(log)]
    /\ wire \in [Listeners -> Seq(0 .. Len(log))]
    /\ faults \in 0 .. MaxFaults

\* The place of the last event event_stream has yielded: its current_last_id.
Sent(l) ==
    IF wire[l] = << >> \/ wire[l][Len(wire[l])] = Gap
    THEN IF Len(wire[l]) > 1 THEN wire[l][Len(wire[l]) - 1] ELSE pos[l]
    ELSE wire[l][Len(wire[l])]

\* What an application sees of its listener.
Status(l) ==
    CASE cst[l] = "idle" -> "idle"
      [] cst[l] \in Ended -> "ended"
      [] OTHER -> IF cursor[l] = Latest THEN "latest" ELSE "listening"

\* What _sse_events, event_stream and Store.read do together is what the feed
\* promises: through reconnects, retried reads and full batches no event that is
\* still in Redis is passed over, but one whose id the listener's last event had
\* reached, in the same millisecond, before the key was deleted.
Feed ==
    INSTANCE EventFeed WITH
        published <- Len(log),
        oldest <- first,
        hidden <- Hides,
        status <- [l \in Listeners |-> Status(l)]

ImplementsFeed == Feed!FeedSpec

\* A read that passes over events without a gap passed its trim check when the
\* key was empty, or because the oldest entry has an id that was used before, or
\* the oldest entry has moved since: events are lost in silence only with the key,
\* or when entries go between the XRANGE and the answer to the XREAD (which may be
\* others than those that are missed).
SilentLossNeedsARace ==
    [][\A l \in Listeners :
         srv[l] # "emit" /\ srv'[l] = "emit" /\ scur[l] \notin {Latest, Zero}
         => \/ Sent(l) + 1 \in batch'[l]
            \/ checked[l] = 0
            \/ <<Sent(l), checked[l]>> \in Hides
            \/ checked[l] < first']_vars

\* A gap is never reported to a listener whose last event is still in Redis,
\* and the last_id in the gap is the id of the last event it was handed.
GapIsTrue ==
    \A l \in Listeners :
      \/ srv[l] = "gap"
      \/ cst[l] = "open" /\ Gap \in {wire[l][k] : k \in DOMAIN wire[l]}
      \/ cst[l] = "trimmed"
      => /\ Sent(l) < first
         /\ cst[l] = "trimmed" => cursor[l] = scur[l]

\* With faults and writes over, every event reaches every listener, unless the
\* event is removed first, or its id is one the listener's last event had reached
\* before a deletion, or the listener's iteration ended.
EventuallyDelivered ==
    \A l \in Listeners : \A i \in 1 .. MaxEvents :
      (i <= Len(log) /\ cst[l] # "idle" /\ cursor[l] # Latest)
      ~> (pos[l] >= i \/ i < first \/ <<pos[l], i>> \in Hides \/ cst[l] \in Ended)

\* README: "If an SSE consumer falls behind and its cursor has been trimmed, the
\* server emits a final gap event": a listener that resumes from an event is
\* never handed anything but the next event.
TrimIsSignalled ==
    [][\A l \in Listeners :
         cursor[l] \notin {Latest, Zero} /\ cst[l] = "open" /\ pos'[l] # pos[l]
         => pos'[l] = pos[l] + 1]_vars

\* README: "For SSE, the retry budget applies to each reconnect attempt, not the
\* whole lifetime of the listener": a response that was open and broke is
\* followed by an attempt to reconnect.
BudgetPerReconnect ==
    [][\A l \in Listeners : cst[l] = "open" => cst'[l] # "raised"]_vars
=============================================================================
