--------------------------- MODULE ConnectionLeases -----------------------------
(***************************************************************************)
(* How tonle bounds the SSE streams and long polls that are open at once:  *)
(* the ConnectionLimiter of each server process (api.py) and, for tenants  *)
(* with a quota, the leases all processes share in Redis                   *)
(* (RedisConnectionLeaseLimiter, quotas.py), as the handlers sse and poll  *)
(* use them.                                                               *)
(*                                                                         *)
(* A lease is a member of one sorted set per scope (tenant, stream,        *)
(* principal), scored by the time it expires on the clock of the process   *)
(* that holds it.  A call of a script reads that clock when it is made;    *)
(* the script runs later, atomically, and the call may fail before or      *)
(* after it ran.  Time passes in units (Tick); timers count down.          *)
(***************************************************************************)
EXTENDS Integers, FiniteSets

CONSTANTS
    Connections,  \* the requests, each with a lease id of its own
    Workloads,    \* the sets of requests of which one is made in a behaviour
    Processes, Streams, Keys,
    ProcessOf,    \* ProcessOf[c]: the process that serves c
    StreamOf,     \* StreamOf[c]: the stream c follows
    KindOf,       \* KindOf[c]: "sse" or "long-poll"
    KeysOf,       \* KeysOf[c]: the sorted sets of c (_connection_keys)
    LimitOf,      \* LimitOf[c][k]: what c's policy allows in k; 0 is no limit
    Ttl,          \* Ttl[c]: connection_lease_ttl_seconds of c's policy
    MaxTotal,     \* max_total of every ConnectionLimiter
    MaxPerStream, \* max_per_stream of every ConnectionLimiter
    ReadTimeout,  \* SSE_POLL_INTERVAL: the longest one SSE read blocks
    PollTimeout,  \* the timeout parameter of a long poll
    TtlBuffer,    \* _TTL_BUFFER_SECONDS
    Skew,         \* Skew[p]: how far the clock of p is ahead of the slowest
    Delay,        \* the longest a call of Redis takes beyond the time it blocks,
                  \* the steps of the handler around it included
    Suspension    \* the longest event_stream is suspended at its yields between
                  \* two reads: a client that takes nothing stops it there

Kinds == {"sse", "long-poll"}

ASSUME LeaseAssumption ==
    /\ IsFiniteSet(Connections)
    /\ Workloads \subseteq SUBSET Connections
    /\ ProcessOf \in [Connections -> Processes]
    /\ StreamOf \in [Connections -> Streams]
    /\ KindOf \in [Connections -> Kinds]
    /\ KeysOf \in [Connections -> SUBSET Keys]
    /\ LimitOf \in [Connections -> [Keys -> Nat]]
    /\ Ttl \in [Connections -> Nat \ {0}]
    /\ MaxTotal \in Nat \ {0} /\ MaxPerStream \in Nat \ {0}
    /\ ReadTimeout \in Nat \ {0} /\ PollTimeout \in Nat
    /\ TtlBuffer \in Nat
    /\ Skew \in [Processes -> Nat]
    /\ Delay \in Nat /\ Suspension \in Nat

VARIABLES
    st,       \* where the handler of c is
    timer,    \* the most time c may still spend there
    due,      \* time until event_stream is to refresh the lease
    zset,     \* zset[k]: the members of the sorted set k
    left,     \* left[c]: time until the slowest clock reaches c's score
    keyLeft,  \* keyLeft[k]: time until Redis expires the whole key k
    total,    \* total[p][kind]: _total of the limiter of process p
    byStream  \* byStream[p][kind][s]: _by_stream of that limiter, 0 if absent

redisVars == <<zset, left, keyLeft>>
localVars == <<total, byStream>>
vars == <<st, timer, due, redisVars, localVars>>

\* Where event_stream or poll may be while it has a slot of the process' limiter.
Open == {"reading", "yielding", "refreshing", "retrying"}
Served == {"admitted"} \cup Open

\* acquire() returns None when the policy sets no limit at all.
Leased(c) == \E k \in KeysOf[c] : LimitOf[c][k] > 0

\* Variant, with a bug: refreshed only when the ttl is over.
RefreshEveryTtl(c) == Ttl[c]

\* max(1, ttl_seconds // 2)
RefreshEvery(c) == IF Ttl[c] < 2 THEN 1 ELSE Ttl[c] \div 2

Init ==
    /\ \E made \in Workloads :
         st = [c \in Connections |-> IF c \in made THEN "new" ELSE "done"]
    /\ timer = [c \in Connections |-> 0]
    /\ due = [c \in Connections |-> 0]
    /\ zset = [k \in Keys |-> {}]
    /\ left = [c \in Connections |-> 0]
    /\ keyLeft = [k \in Keys |-> 0]
    /\ total = [p \in Processes |-> [kind \in Kinds |-> 0]]
    /\ byStream = [p \in Processes |-> [kind \in Kinds |-> [s \in Streams |-> 0]]]

-----------------------------------------------------------------------------
(* The scripts of quotas.py *)

\* What the clock of c's process said when it made the call now under way.
ClockOf(c) == Skew[ProcessOf[c]] - (Delay - timer[c])

\* ZREMRANGEBYSCORE -inf now, on the keys of c.
Purged(c) ==
    [k \in Keys |-> IF k \in KeysOf[c] THEN {d \in zset[k] : left[d] > ClockOf(c)}
                                        ELSE zset[k]]

\* Variant, with a bug: one connection too many.
FullOffByOne(c, k) == LimitOf[c][k] > 0 /\ Cardinality(Purged(c)[k]) > LimitOf[c][k]

Full(c, k) == LimitOf[c][k] > 0 /\ Cardinality(Purged(c)[k]) >= LimitOf[c][k]

\* ZADD and EXPIRE, on the given keys. The score is by the process' clock, the
\* EXPIRE counts from now.
AddTo(c, keys, sets) ==
    /\ zset' = [k \in Keys |-> IF k \in keys THEN sets[k] \cup {c} ELSE sets[k]]
    /\ left' = [left EXCEPT ![c] = ClockOf(c) + Ttl[c]]
    /\ keyLeft' = [k \in Keys |-> IF k \in keys THEN Ttl[c] + TtlBuffer ELSE keyLeft[k]]

AcquireScript(c) == AddTo(c, KeysOf[c], Purged(c))

\* Purged keys that end up empty disappear, with their EXPIRE.
RejectScript(c) == zset' = Purged(c) /\ UNCHANGED <<left, keyLeft>>

\* Only the keys that still have the member: a lease that was removed stays so.
RefreshScript(c) ==
    LET held == {k \in KeysOf[c] : c \in zset[k]}
    IN  IF held = {} THEN UNCHANGED redisVars ELSE AddTo(c, held, zset)

ReleaseScript(c) ==
    /\ zset' = [k \in Keys |-> IF k \in KeysOf[c] THEN zset[k] \ {c} ELSE zset[k]]
    /\ UNCHANGED <<left, keyLeft>>

-----------------------------------------------------------------------------
(* Admission: acquire, then the process' own limiter *)

Goto(c, s, time) == st' = [st EXCEPT ![c] = s] /\ timer' = [timer EXCEPT ![c] = time]

\* _acquire_connection_lease: no lease is needed, or the clock is read and the
\* call made.
Acquire(c) ==
    /\ st[c] = "new"
    /\ Goto(c, IF Leased(c) THEN "acquiring" ELSE "admitted", Delay)
    /\ UNCHANGED <<due, redisVars, localVars>>

\* The script runs: the lease is granted or refused.
Acquired(c) ==
    /\ st[c] = "acquiring"
    /\ \/ /\ \A k \in KeysOf[c] : ~Full(c, k)
          /\ AcquireScript(c) /\ Goto(c, "admitted", Delay)
       \/ /\ \E k \in KeysOf[c] : Full(c, k)
          /\ RejectScript(c) /\ Goto(c, "done", 0)
    /\ UNCHANGED <<due, localVars>>

\* The call fails or is cancelled. If the script ran all the same, the lease
\* nobody learnt of stays behind.
AcquireFails(c) ==
    /\ st[c] = "acquiring"
    /\ \/ UNCHANGED redisVars
       \/ AcquireScript(c) /\ \A k \in KeysOf[c] : ~Full(c, k)
       \/ RejectScript(c) /\ \E k \in KeysOf[c] : Full(c, k)
    /\ Goto(c, "done", 0)
    /\ UNCHANGED <<due, localVars>>

\* Variant, with a bug: one connection too many.
HasRoomOffByOne(c) ==
    /\ total[ProcessOf[c]][KindOf[c]] <= MaxTotal
    /\ byStream[ProcessOf[c]][KindOf[c]][StreamOf[c]] <= MaxPerStream

HasRoom(c) ==
    /\ total[ProcessOf[c]][KindOf[c]] < MaxTotal
    /\ byStream[ProcessOf[c]][KindOf[c]][StreamOf[c]] < MaxPerStream

\* ConnectionLimiter.acquire succeeds: event_stream or the poll starts to read.
Admit(c) ==
    /\ st[c] = "admitted" /\ HasRoom(c)
    /\ Goto(c, "reading", Delay + IF KindOf[c] = "sse" THEN ReadTimeout ELSE PollTimeout)
    /\ total' = [total EXCEPT ![ProcessOf[c]][KindOf[c]] = @ + 1]
    /\ byStream' = [byStream EXCEPT ![ProcessOf[c]][KindOf[c]][StreamOf[c]] = @ + 1]
    /\ due' = [due EXCEPT ![c] =
                 IF KindOf[c] = "sse" /\ Leased(c) THEN RefreshEvery(c) ELSE 0]
    /\ UNCHANGED redisVars

\* ConnectionLimitExceeded: the lease is given back.
NoRoom(c) ==
    /\ st[c] = "admitted" /\ ~HasRoom(c)
    /\ Goto(c, "releasing", 0)
    /\ UNCHANGED <<due, redisVars, localVars>>

-----------------------------------------------------------------------------
(* While it is open *)

\* A read of event_stream comes back: a keep-alive or the entries are yielded.
ReadEnds(c) ==
    /\ st[c] = "reading" /\ KindOf[c] = "sse"
    /\ Goto(c, "yielding", Suspension)
    /\ UNCHANGED <<due, redisVars, localVars>>

\* The top of event_stream's loop: refresh when due (the clock is read and the
\* call made), or read again.
Loop(c) ==
    /\ st[c] = "yielding"
    /\ IF Leased(c) /\ due[c] = 0 THEN Goto(c, "refreshing", Delay)
                                  ELSE Goto(c, "reading", Delay + ReadTimeout)
    /\ UNCHANGED <<due, redisVars, localVars>>

\* The first or second attempt to refresh succeeds.
Refreshed(c) ==
    /\ st[c] \in {"refreshing", "retrying"}
    /\ RefreshScript(c)
    /\ due' = [due EXCEPT ![c] = RefreshEvery(c)]
    /\ Goto(c, "reading", Delay + ReadTimeout)
    /\ UNCHANGED localVars

\* The first attempt fails, though the script may have run.
RefreshRetried(c) ==
    /\ st[c] = "refreshing"
    /\ RefreshScript(c) \/ UNCHANGED redisVars
    /\ Goto(c, "retrying", Delay)
    /\ UNCHANGED <<due, localVars>>

\* ConnectionLimiter.release.
FreeSlot(c) ==
    LET p == ProcessOf[c]  kind == KindOf[c]  s == StreamOf[c]
    IN  /\ total' = [total EXCEPT ![p][kind] = IF @ > 0 THEN @ - 1 ELSE @]
        /\ byStream' = [byStream EXCEPT ![p][kind][s] = IF @ <= 1 THEN 0 ELSE @ - 1]

\* finally: the client is gone, the read failed, a gap ended the response or the
\* poll is answered. A poll whose client is gone still waits for its read.
Close(c) ==
    /\ st[c] \in {"reading", "yielding"}
    /\ Goto(c, "releasing", 0)
    /\ FreeSlot(c)
    /\ due' = [due EXCEPT ![c] = 0]
    /\ UNCHANGED redisVars

\* Variant, with a bug: the slot is not freed when event_stream ends with an error.
RefreshFailsLeaks(c) ==
    /\ st[c] \in {"refreshing", "retrying"}
    /\ RefreshScript(c) \/ UNCHANGED redisVars
    /\ Goto(c, "releasing", 0)
    /\ due' = [due EXCEPT ![c] = 0]
    /\ UNCHANGED localVars

\* finally, when the second attempt fails or either is cancelled: event_stream
\* ends with the error, and the script may have run.
RefreshFails(c) ==
    /\ st[c] \in {"refreshing", "retrying"}
    /\ RefreshScript(c) \/ UNCHANGED redisVars
    /\ Goto(c, "releasing", 0)
    /\ FreeSlot(c)
    /\ due' = [due EXCEPT ![c] = 0]

\* _release_connection_lease: a RedisError is swallowed, and a cancelled
\* request may not get to make the call at all.
Release(c) ==
    /\ st[c] = "releasing"
    /\ Goto(c, "done", 0)
    /\ ReleaseScript(c) \/ UNCHANGED redisVars
    /\ UNCHANGED <<due, localVars>>

-----------------------------------------------------------------------------
(* The environment *)

\* A process dies and is started again: its limiters are empty, its leases stay.
Crash(p) ==
    LET served == {c \in Connections : ProcessOf[c] = p /\ st[c] \notin {"new", "done"}}
    IN  /\ served # {}
        /\ st' = [c \in Connections |-> IF c \in served THEN "done" ELSE st[c]]
        /\ timer' = [c \in Connections |-> IF c \in served THEN 0 ELSE timer[c]]
        /\ due' = [c \in Connections |-> IF c \in served THEN 0 ELSE due[c]]
        /\ total' = [total EXCEPT ![p] = [kind \in Kinds |-> 0]]
        /\ byStream' = [byStream EXCEPT ![p] = [kind \in Kinds |-> [s \in Streams |-> 0]]]
        /\ UNCHANGED redisVars

\* The phases that do not outlast their timer; a release may take any time.
Timed == {"acquiring"} \cup Served

Less(n) == IF n > 0 THEN n - 1 ELSE 0

\* Every clock moves on by a unit. A score more than Delay behind the slowest
\* clock is behind whatever clock reading a call may carry.
Tick ==
    /\ \A c \in Connections : st[c] \in Timed => timer[c] > 0
    /\ left' = [c \in Connections |-> IF left[c] > -Delay THEN left[c] - 1 ELSE left[c]]
    /\ keyLeft' = [k \in Keys |-> Less(keyLeft[k])]
    /\ zset' = [k \in Keys |-> IF keyLeft[k] <= 1 THEN {} ELSE zset[k]]
    /\ timer' = [c \in Connections |-> Less(timer[c])]
    /\ due' = [c \in Connections |-> Less(due[c])]
    /\ UNCHANGED <<st, localVars>>

-----------------------------------------------------------------------------
Handler(c) ==
    \/ Acquire(c) \/ Acquired(c) \/ AcquireFails(c) \/ Admit(c) \/ NoRoom(c)
    \/ ReadEnds(c) \/ Loop(c) \/ Refreshed(c) \/ RefreshRetried(c) \/ RefreshFails(c)
    \/ Close(c) \/ Release(c)

Next ==
    \/ \E c \in Connections : Handler(c)
    \/ \E p \in Processes : Crash(p)
    \/ Tick

Spec == Init /\ [][Next]_vars

-----------------------------------------------------------------------------
(* Properties *)

\* Every variable keeps its type; no count of a limiter leaves its range.
TypeOK ==
    /\ st \in [Connections -> {"new", "acquiring", "releasing", "done"} \cup Served]
    /\ timer \in [Connections -> Nat]
    /\ due \in [Connections -> Nat]
    /\ zset \in [Keys -> SUBSET Connections]
    /\ left \in [Connections -> Int]
    /\ keyLeft \in [Keys -> Nat]
    /\ total \in [Processes -> [Kinds -> 0 .. MaxTotal]]
    /\ byStream \in [Processes -> [Kinds -> [Streams -> 0 .. MaxPerStream]]]

OpenOn(p, kind) ==
    {c \in Connections : st[c] \in Open /\ ProcessOf[c] = p /\ KindOf[c] = kind}

\* Whatever fails, and after a crash too, each process counts exactly the
\* connections it has open: no slot leaks and none is freed twice.
LocalCountsExact ==
    \A p \in Processes, kind \in Kinds :
      /\ total[p][kind] = Cardinality(OpenOn(p, kind))
      /\ \A s \in Streams :
           byStream[p][kind][s] = Cardinality({c \in OpenOn(p, kind) : StreamOf[c] = s})

\* The lease of an admitted or open connection is in all its sets and unexpired
\* on the clock of every process: refreshing every half ttl is often enough, and
\* nobody else removes it. It holds where Skew, Delay and Suspension leave room
\* in the ttl (Timely, in ConnectionLeasesProofs), not otherwise.
LeaseHeld ==
    \A c \in Connections :
      Leased(c) /\ st[c] \in Served
      => /\ \A p \in Processes : left[c] > Skew[p]
         /\ \A k \in KeysOf[c] : c \in zset[k]

\* A connection is admitted only while the connections that are really being
\* served, over all processes, are within its policy's limits.
AdmittedWithinLimits ==
    [][\A c \in Connections : st[c] = "acquiring" /\ st'[c] = "admitted" =>
         \A k \in KeysOf[c] : LimitOf[c][k] > 0 =>
           Cardinality({d \in Connections : st'[d] \in Served /\ k \in KeysOf[d]})
             <= LimitOf[c][k]]_vars
=============================================================================
