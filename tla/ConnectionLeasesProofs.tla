------------------------ MODULE ConnectionLeasesProofs -----------------------
(***************************************************************************)
(* What the limits on open connections promise for any number of           *)
(* connections, processes, streams and keys: a process counts its slots    *)
(* exactly; and where the ttl has room for the timeouts, the skew of the   *)
(* clocks, the delay of calls and the patience of clients, no served       *)
(* connection is without its lease, so that no policy's limit is exceeded. *)
(***************************************************************************)
EXTENDS ConnectionLeases, FiniteSetTheorems, TLAPS

Phases == {"new", "acquiring", "releasing", "done"} \cup Served

OpenFor(p, kind, s) == {c \in OpenOn(p, kind) : StreamOf[c] = s}

LEMMA OpenFinite ==
    \A p, kind, s : /\ IsFiniteSet(OpenOn(p, kind)) /\ IsFiniteSet(OpenFor(p, kind, s))
                    /\ Cardinality(OpenOn(p, kind)) \in Nat
                    /\ Cardinality(OpenFor(p, kind, s)) \in Nat
<1> TAKE p, kind, s
<1>1. OpenOn(p, kind) \subseteq Connections /\ OpenFor(p, kind, s) \subseteq Connections
  BY DEF OpenOn, OpenFor
<1>2. IsFiniteSet(OpenOn(p, kind)) /\ IsFiniteSet(OpenFor(p, kind, s))
  BY <1>1, LeaseAssumption, FS_Subset
<1> QED BY <1>2, FS_CardinalityType

\* The limiters of a process, as LocalCountsExact and TypeOK want them.
LimitersOK ==
    /\ total \in [Processes -> [Kinds -> 0 .. MaxTotal]]
    /\ byStream \in [Processes -> [Kinds -> [Streams -> 0 .. MaxPerStream]]]
    /\ LocalCountsExact

\* A step that opens and closes nothing.
LEMMA SlotsUntouched ==
    ASSUME LimitersOK, UNCHANGED localVars,
           \A c \in Connections : st'[c] \in Open <=> st[c] \in Open
    PROVE  LimitersOK'
<1>1. \A p, kind : OpenOn(p, kind)' = OpenOn(p, kind)
  BY DEF OpenOn
<1> QED BY <1>1 DEF LimitersOK, LocalCountsExact, localVars

LEMMA SlotTaken ==
    ASSUME LimitersOK, NEW c \in Connections, HasRoom(c), st[c] \notin Open,
           st \in [Connections -> Phases], NEW s0 \in Open,
           st' = [st EXCEPT ![c] = s0],
           total' = [total EXCEPT ![ProcessOf[c]][KindOf[c]] = @ + 1],
           byStream' = [byStream EXCEPT ![ProcessOf[c]][KindOf[c]][StreamOf[c]] = @ + 1]
    PROVE  LimitersOK'
<1> DEFINE P == ProcessOf[c]  K == KindOf[c]  S == StreamOf[c]
<1>1. P \in Processes /\ K \in Kinds /\ S \in Streams /\ MaxTotal \in Nat /\ MaxPerStream \in Nat
  BY LeaseAssumption
<1>2. /\ total[P][K] \in Nat /\ total[P][K] + 1 \in 0 .. MaxTotal
      /\ byStream[P][K][S] \in Nat /\ byStream[P][K][S] + 1 \in 0 .. MaxPerStream
  BY <1>1 DEF LimitersOK, HasRoom
<1>3. \A p \in Processes, kind \in Kinds :
        total'[p][kind] = IF p = P /\ kind = K THEN total[p][kind] + 1 ELSE total[p][kind]
  BY <1>1 DEF LimitersOK
<1>4. \A p \in Processes, kind \in Kinds, s \in Streams :
        byStream'[p][kind][s] = IF p = P /\ kind = K /\ s = S THEN byStream[p][kind][s] + 1
                                ELSE byStream[p][kind][s]
  BY <1>1 DEF LimitersOK
<1>5. /\ total' \in [Processes -> [Kinds -> 0 .. MaxTotal]]
      /\ byStream' \in [Processes -> [Kinds -> [Streams -> 0 .. MaxPerStream]]]
  BY <1>1, <1>2 DEF LimitersOK
<1>6. c \notin OpenOn(P, K)
  BY DEF OpenOn
<1>7. \A p, kind : OpenOn(p, kind)' = IF p = P /\ kind = K THEN OpenOn(p, kind) \cup {c}
                                      ELSE OpenOn(p, kind)
  BY DEF OpenOn
<1>8. \A p, kind, s : OpenFor(p, kind, s)' =
        IF p = P /\ kind = K /\ s = S THEN OpenFor(p, kind, s) \cup {c} ELSE OpenFor(p, kind, s)
  BY <1>6, <1>7 DEF OpenFor
<1>9. /\ Cardinality(OpenOn(P, K) \cup {c}) = Cardinality(OpenOn(P, K)) + 1
      /\ Cardinality(OpenFor(P, K, S) \cup {c}) = Cardinality(OpenFor(P, K, S)) + 1
  <2>1. c \notin OpenFor(P, K, S)
    BY <1>6 DEF OpenFor
  <2> QED BY <1>6, <2>1, OpenFinite, FS_AddElement
<1> HIDE DEF P, K, S
<1>10. \A p \in Processes, kind \in Kinds :
         /\ total[p][kind] = Cardinality(OpenOn(p, kind))
         /\ \A s \in Streams : byStream[p][kind][s] = Cardinality(OpenFor(p, kind, s))
  BY DEF LimitersOK, LocalCountsExact, OpenFor
<1>11. \A p \in Processes, kind \in Kinds :
         /\ total'[p][kind] = Cardinality(OpenOn(p, kind)')
         /\ \A s \in Streams : byStream'[p][kind][s] = Cardinality(OpenFor(p, kind, s)')
  <2> TAKE p \in Processes, kind \in Kinds
  <2>1. total'[p][kind] = Cardinality(OpenOn(p, kind)')
    BY <1>3, <1>7, <1>9, <1>10
  <2>2. ASSUME NEW s \in Streams PROVE byStream'[p][kind][s] = Cardinality(OpenFor(p, kind, s)')
    <3>1. byStream[p][kind][s] = Cardinality(OpenFor(p, kind, s))
      BY <1>10
    <3>2. CASE p = P /\ kind = K /\ s = S
      <4>1. OpenFor(p, kind, s)' = OpenFor(P, K, S) \cup {c}
        BY <1>8, <3>2
      <4>2. byStream'[p][kind][s] = byStream[p][kind][s] + 1
        BY <1>4, <3>2
      <4> QED BY <1>9, <3>1, <3>2, <4>1, <4>2
    <3>3. CASE ~(p = P /\ kind = K /\ s = S)
      <4>1. OpenFor(p, kind, s)' = OpenFor(p, kind, s)
        BY <1>8, <3>3
      <4>2. byStream'[p][kind][s] = byStream[p][kind][s]
        BY <1>4, <3>3
      <4> QED BY <3>1, <4>1, <4>2
    <3> QED BY <3>2, <3>3
  <2> QED BY <2>1, <2>2
<1> QED BY <1>5, <1>11 DEF LimitersOK, LocalCountsExact, OpenFor

LEMMA SlotFreed ==
    ASSUME LimitersOK, NEW c \in Connections, st[c] \in Open,
           st \in [Connections -> Phases],
           st' = [st EXCEPT ![c] = "releasing"], FreeSlot(c)
    PROVE  LimitersOK'
<1> DEFINE P == ProcessOf[c]  K == KindOf[c]  S == StreamOf[c]
<1>1. P \in Processes /\ K \in Kinds /\ S \in Streams /\ MaxTotal \in Nat /\ MaxPerStream \in Nat
  BY LeaseAssumption
<1>2. c \in OpenOn(P, K) /\ c \in OpenFor(P, K, S)
  BY DEF OpenOn, OpenFor
<1>3. \A p \in Processes, kind \in Kinds :
         /\ total[p][kind] = Cardinality(OpenOn(p, kind))
         /\ \A s \in Streams : byStream[p][kind][s] = Cardinality(OpenFor(p, kind, s))
  BY DEF LimitersOK, LocalCountsExact, OpenFor
<1>4. /\ Cardinality(OpenOn(P, K) \ {c}) = Cardinality(OpenOn(P, K)) - 1
      /\ Cardinality(OpenFor(P, K, S) \ {c}) = Cardinality(OpenFor(P, K, S)) - 1
      /\ Cardinality(OpenOn(P, K) \ {c}) \in Nat /\ Cardinality(OpenFor(P, K, S) \ {c}) \in Nat
  BY <1>2, OpenFinite, FS_RemoveElement, FS_CardinalityType
<1>5. total[P][K] > 0 /\ byStream[P][K][S] > 0
  BY <1>1, <1>3, <1>4, OpenFinite
<1>6. /\ total[P][K] \in 0 .. MaxTotal /\ byStream[P][K][S] \in 0 .. MaxPerStream
      /\ total[P][K] - 1 \in 0 .. MaxTotal /\ byStream[P][K][S] - 1 \in 0 .. MaxPerStream
  BY <1>1, <1>5 DEF LimitersOK
<1>7. total' = [total EXCEPT ![P][K] = total[P][K] - 1]
  BY <1>5 DEF FreeSlot
<1>8. byStream' = [byStream EXCEPT ![P][K][S] = byStream[P][K][S] - 1]
  <2>1. byStream' = [byStream EXCEPT ![P][K][S] =
                       IF byStream[P][K][S] <= 1 THEN 0 ELSE byStream[P][K][S] - 1]
    BY DEF FreeSlot
  <2>2. (IF byStream[P][K][S] <= 1 THEN 0 ELSE byStream[P][K][S] - 1) = byStream[P][K][S] - 1
    BY <1>1, <1>5, <1>6
  <2> QED BY <2>1, <2>2
<1>9. \A p \in Processes, kind \in Kinds :
        total'[p][kind] = IF p = P /\ kind = K THEN total[p][kind] - 1 ELSE total[p][kind]
  BY <1>1, <1>7 DEF LimitersOK
<1>10. \A p \in Processes, kind \in Kinds, s \in Streams :
        byStream'[p][kind][s] = IF p = P /\ kind = K /\ s = S THEN byStream[p][kind][s] - 1
                                ELSE byStream[p][kind][s]
  BY <1>1, <1>8 DEF LimitersOK
<1>11. /\ total' \in [Processes -> [Kinds -> 0 .. MaxTotal]]
       /\ byStream' \in [Processes -> [Kinds -> [Streams -> 0 .. MaxPerStream]]]
  BY <1>1, <1>6, <1>7, <1>8 DEF LimitersOK
<1>12. \A p, kind : OpenOn(p, kind)' = IF p = P /\ kind = K THEN OpenOn(p, kind) \ {c}
                                       ELSE OpenOn(p, kind)
  BY DEF OpenOn, Open
<1>13. \A p, kind, s : OpenFor(p, kind, s)' =
        IF p = P /\ kind = K /\ s = S THEN OpenFor(p, kind, s) \ {c} ELSE OpenFor(p, kind, s)
  BY <1>2, <1>12 DEF OpenFor, OpenOn
<1> HIDE DEF P, K, S
<1>14. \A p \in Processes, kind \in Kinds :
         /\ total'[p][kind] = Cardinality(OpenOn(p, kind)')
         /\ \A s \in Streams : byStream'[p][kind][s] = Cardinality(OpenFor(p, kind, s)')
  <2> TAKE p \in Processes, kind \in Kinds
  <2>1. total'[p][kind] = Cardinality(OpenOn(p, kind)')
    BY <1>3, <1>4, <1>9, <1>12
  <2>2. ASSUME NEW s \in Streams PROVE byStream'[p][kind][s] = Cardinality(OpenFor(p, kind, s)')
    <3>1. byStream[p][kind][s] = Cardinality(OpenFor(p, kind, s))
      BY <1>3
    <3>2. CASE p = P /\ kind = K /\ s = S
      <4>1. OpenFor(p, kind, s)' = OpenFor(P, K, S) \ {c}
        BY <1>13, <3>2
      <4>2. byStream'[p][kind][s] = byStream[p][kind][s] - 1
        BY <1>10, <3>2
      <4> QED BY <1>4, <3>1, <3>2, <4>1, <4>2
    <3>3. CASE ~(p = P /\ kind = K /\ s = S)
      <4>1. OpenFor(p, kind, s)' = OpenFor(p, kind, s)
        BY <1>13, <3>3
      <4>2. byStream'[p][kind][s] = byStream[p][kind][s]
        BY <1>10, <3>3
      <4> QED BY <3>1, <4>1, <4>2
    <3> QED BY <3>2, <3>3
  <2> QED BY <2>1, <2>2
<1> QED BY <1>11, <1>14 DEF LimitersOK, LocalCountsExact, OpenFor

LEMMA SlotsCrash ==
    ASSUME LimitersOK, NEW p \in Processes, Crash(p)
    PROVE  LimitersOK'
<1>1. MaxTotal \in Nat /\ MaxPerStream \in Nat
  BY LeaseAssumption
<1>2. /\ total' = [total EXCEPT ![p] = [kind \in Kinds |-> 0]]
      /\ byStream' = [byStream EXCEPT ![p] = [kind \in Kinds |-> [s \in Streams |-> 0]]]
  BY DEF Crash
<1>3. /\ total' \in [Processes -> [Kinds -> 0 .. MaxTotal]]
      /\ byStream' \in [Processes -> [Kinds -> [Streams -> 0 .. MaxPerStream]]]
  BY <1>1, <1>2 DEF LimitersOK
<1>4. \A q, kind : OpenOn(q, kind)' = IF q = p THEN {} ELSE OpenOn(q, kind)
  BY DEF Crash, OpenOn, Open
<1>5. \A q, kind, s : OpenFor(q, kind, s)' = IF q = p THEN {} ELSE OpenFor(q, kind, s)
  BY <1>4 DEF OpenFor
<1>6. \A q \in Processes, kind \in Kinds :
         /\ total'[q][kind] = Cardinality(OpenOn(q, kind)')
         /\ \A s \in Streams : byStream'[q][kind][s] = Cardinality(OpenFor(q, kind, s)')
  <2> TAKE q \in Processes, kind \in Kinds
  <2>1. CASE q = p
    BY <1>2, <1>4, <1>5, <2>1, FS_EmptySet DEF LimitersOK
  <2>2. CASE q # p
    BY <1>2, <1>4, <1>5, <2>2, ZenonT(40) DEF LimitersOK, LocalCountsExact, OpenFor
  <2> QED BY <2>1, <2>2
<1> QED BY <1>3, <1>6 DEF LimitersOK, LocalCountsExact, OpenFor

-----------------------------------------------------------------------------
(* The types of the other variables *)

PhaseType == st \in [Connections -> Phases]
TimerType == timer \in [Connections -> Nat] /\ due \in [Connections -> Nat]
RedisType ==
    /\ zset \in [Keys -> SUBSET Connections]
    /\ left \in [Connections -> Int]
    /\ keyLeft \in [Keys -> Nat]

SlotInv == PhaseType /\ TimerType /\ RedisType /\ LimitersOK

\* The half of the ttl is a number of units, at least one.
LEMMA RefreshPeriod ==
    \A c \in Connections : /\ Ttl[c] \in Nat \ {0}
                           /\ RefreshEvery(c) \in Nat \ {0} /\ RefreshEvery(c) <= Ttl[c]
<1> TAKE c \in Connections
<1>1. Ttl[c] \in Nat \ {0}
  BY LeaseAssumption
<1> QED BY <1>1 DEF RefreshEvery

\* What a script run for c leaves in Redis.
Script(c) ==
    AcquireScript(c) \/ RejectScript(c) \/ RefreshScript(c) \/ ReleaseScript(c)
    \/ UNCHANGED redisVars

LEMMA ScriptType ==
    ASSUME RedisType, TimerType, NEW c \in Connections, Script(c)
    PROVE  RedisType'
<1>1. Ttl[c] + TtlBuffer \in Nat /\ ClockOf(c) + Ttl[c] \in Int
  BY LeaseAssumption DEF ClockOf, TimerType
<1>2. Purged(c) \in [Keys -> SUBSET Connections]
  BY DEF Purged, RedisType
<1>3. ASSUME NEW keys, NEW sets \in [Keys -> SUBSET Connections], AddTo(c, keys, sets)
      PROVE  RedisType'
  BY <1>1, <1>3 DEF AddTo, RedisType
<1>4. CASE AcquireScript(c)
  BY <1>2, <1>3, <1>4 DEF AcquireScript
<1>5. CASE RejectScript(c)
  BY <1>2, <1>5 DEF RejectScript, RedisType
<1>6. CASE RefreshScript(c)
  BY <1>3, <1>6 DEF RefreshScript, RedisType, redisVars
<1>7. CASE ReleaseScript(c)
  BY <1>7 DEF ReleaseScript, RedisType
<1>8. CASE UNCHANGED redisVars
  BY <1>8 DEF RedisType, redisVars
<1> QED BY <1>4, <1>5, <1>6, <1>7, <1>8 DEF Script

\* Each step of a handler runs at most one script, and none while it reads or yields.
LEMMA HandlerScript ==
    ASSUME NEW c \in Connections, Handler(c)
    PROVE  Script(c) /\ (UNCHANGED redisVars \/ st[c] \notin {"reading", "yielding"})
<1>1. CASE Acquire(c)
  BY <1>1 DEF Acquire, Script
<1>2. CASE Acquired(c)
  BY <1>2 DEF Acquired, Script
<1>3. CASE AcquireFails(c)
  BY <1>3 DEF AcquireFails, Script
<1>4. CASE Admit(c)
  BY <1>4 DEF Admit, Script
<1>5. CASE NoRoom(c)
  BY <1>5 DEF NoRoom, Script
<1>6. CASE ReadEnds(c)
  BY <1>6 DEF ReadEnds, Script
<1>7. CASE Loop(c)
  BY <1>7 DEF Loop, Script
<1>8. CASE Refreshed(c)
  BY <1>8 DEF Refreshed, Script
<1>9. CASE RefreshRetried(c)
  BY <1>9 DEF RefreshRetried, Script
<1>10. CASE RefreshFails(c)
  BY <1>10 DEF RefreshFails, Script
<1>11. CASE Close(c)
  BY <1>11 DEF Close, Script
<1>12. CASE Release(c)
  BY <1>12 DEF Release, Script
<1> QED BY <1>1, <1>2, <1>3, <1>4, <1>5, <1>6, <1>7, <1>8, <1>9, <1>10, <1>11, <1>12
        DEF Handler

LEMMA HandlerType ==
    ASSUME PhaseType, TimerType, NEW c \in Connections, Handler(c)
    PROVE  PhaseType' /\ TimerType'
<1>1. /\ Delay \in Nat /\ Suspension \in Nat
      /\ Delay + ReadTimeout \in Nat /\ Delay + PollTimeout \in Nat
      /\ RefreshEvery(c) \in Nat
  BY LeaseAssumption, RefreshPeriod
<1>2. \A s \in Phases, n \in Nat : Goto(c, s, n) => PhaseType' /\ timer' \in [Connections -> Nat]
  BY DEF PhaseType, TimerType, Goto
<1>3. \A s, n : s \in {"acquiring", "releasing", "done"} \cup Served => s \in Phases
  BY DEF Phases
<1>4. CASE Acquire(c)
  BY <1>1, <1>2, <1>3, <1>4 DEF Acquire, TimerType, Served
<1>5. CASE Acquired(c)
  BY <1>1, <1>2, <1>3, <1>5 DEF Acquired, TimerType, Served
<1>6. CASE AcquireFails(c)
  BY <1>1, <1>2, <1>3, <1>6 DEF AcquireFails, TimerType
<1>7. CASE Admit(c)
  BY <1>1, <1>2, <1>3, <1>7 DEF Admit, TimerType, Served, Open
<1>8. CASE NoRoom(c)
  BY <1>1, <1>2, <1>3, <1>8 DEF NoRoom, TimerType
<1>9. CASE ReadEnds(c)
  BY <1>1, <1>2, <1>3, <1>9 DEF ReadEnds, TimerType, Served, Open
<1>10. CASE Loop(c)
  BY <1>1, <1>2, <1>3, <1>10 DEF Loop, TimerType, Served, Open
<1>11. CASE Refreshed(c)
  BY <1>1, <1>2, <1>3, <1>11 DEF Refreshed, TimerType, Served, Open
<1>12. CASE RefreshRetried(c)
  BY <1>1, <1>2, <1>3, <1>12 DEF RefreshRetried, TimerType, Served, Open
<1>13. CASE RefreshFails(c)
  BY <1>1, <1>2, <1>3, <1>13 DEF RefreshFails, TimerType
<1>14. CASE Close(c)
  BY <1>1, <1>2, <1>3, <1>14 DEF Close, TimerType
<1>15. CASE Release(c)
  BY <1>1, <1>2, <1>3, <1>15 DEF Release, TimerType
<1> QED BY <1>4, <1>5, <1>6, <1>7, <1>8, <1>9, <1>10, <1>11, <1>12, <1>13, <1>14, <1>15
        DEF Handler

LEMMA HandlerSlots ==
    ASSUME PhaseType, LimitersOK, NEW c \in Connections, Handler(c)
    PROVE  LimitersOK'
<1>1. \A s, n : (s \in Open <=> st[c] \in Open) /\ Goto(c, s, n) =>
        \A d \in Connections : st'[d] \in Open <=> st[d] \in Open
  BY DEF PhaseType, Goto
<1>2. CASE Acquire(c)
  BY <1>1, <1>2, SlotsUntouched DEF Acquire, Open
<1>3. CASE Acquired(c)
  BY <1>1, <1>3, SlotsUntouched DEF Acquired, Open
<1>4. CASE AcquireFails(c)
  BY <1>1, <1>4, SlotsUntouched DEF AcquireFails, Open
<1>5. CASE Admit(c)
  BY <1>5, SlotTaken DEF Admit, Goto, PhaseType, Open
<1>6. CASE NoRoom(c)
  BY <1>1, <1>6, SlotsUntouched DEF NoRoom, Open
<1>7. CASE ReadEnds(c)
  BY <1>1, <1>7, SlotsUntouched DEF ReadEnds, Open
<1>8. CASE Loop(c)
  BY <1>1, <1>8, SlotsUntouched DEF Loop, Open
<1>9. CASE Refreshed(c)
  BY <1>1, <1>9, SlotsUntouched DEF Refreshed, Open
<1>10. CASE RefreshRetried(c)
  BY <1>1, <1>10, SlotsUntouched DEF RefreshRetried, Open
<1>11. CASE RefreshFails(c)
  BY <1>11, SlotFreed DEF RefreshFails, Goto, PhaseType, Open
<1>12. CASE Close(c)
  BY <1>12, SlotFreed DEF Close, Goto, PhaseType, Open
<1>13. CASE Release(c)
  BY <1>1, <1>13, SlotsUntouched DEF Release, Open
<1> QED BY <1>2, <1>3, <1>4, <1>5, <1>6, <1>7, <1>8, <1>9, <1>10, <1>11, <1>12, <1>13
        DEF Handler

LEMMA InitSlots == Init => SlotInv
<1> SUFFICES ASSUME Init PROVE SlotInv
  OBVIOUS
<1>1. MaxTotal \in Nat /\ MaxPerStream \in Nat
  BY LeaseAssumption
<1>2. PhaseType /\ TimerType /\ RedisType
  BY DEF Init, PhaseType, TimerType, RedisType, Phases
<1>3. \A p, kind, s : OpenOn(p, kind) = {} /\ OpenFor(p, kind, s) = {}
  BY DEF Init, OpenOn, OpenFor, Open
<1>4. LocalCountsExact
  <2> SUFFICES ASSUME NEW p \in Processes, NEW kind \in Kinds
               PROVE  /\ total[p][kind] = Cardinality(OpenOn(p, kind))
                      /\ \A s \in Streams :
                           byStream[p][kind][s] = Cardinality(OpenFor(p, kind, s))
    BY DEF LocalCountsExact, OpenFor
  <2> QED BY <1>3, FS_EmptySet DEF Init
<1> QED BY <1>1, <1>2, <1>4 DEF SlotInv, LimitersOK, Init

LEMMA StepSlots == SlotInv /\ [Next]_vars => SlotInv'
<1> SUFFICES ASSUME SlotInv, [Next]_vars PROVE SlotInv'
  OBVIOUS
<1>0. PhaseType /\ TimerType /\ RedisType /\ LimitersOK
  BY DEF SlotInv
<1>1. CASE \E c \in Connections : Handler(c)
  <2> PICK c \in Connections : Handler(c)
    BY <1>1
  <2> QED BY <1>0, HandlerScript, ScriptType, HandlerType, HandlerSlots DEF SlotInv
<1>2. CASE \E p \in Processes : Crash(p)
  <2> PICK p \in Processes : Crash(p)
    BY <1>2
  <2>1. LimitersOK'
    BY <1>0, SlotsCrash
  <2>2. PhaseType' /\ TimerType'
    BY <1>0 DEF Crash, PhaseType, TimerType, Phases
  <2>3. RedisType'
    BY <1>0 DEF Crash, RedisType, redisVars
  <2> QED BY <2>1, <2>2, <2>3 DEF SlotInv
<1>3. CASE Tick
  <2>1. /\ \A n \in Nat : Less(n) \in Nat
        /\ \A n \in Int : (IF n > -Delay THEN n - 1 ELSE n) \in Int
    BY DEF Less
  <2>2. PhaseType' /\ TimerType' /\ RedisType'
    BY <1>0, <1>3, <2>1 DEF Tick, PhaseType, TimerType, RedisType
  <2>3. LimitersOK'
    BY <1>0, <1>3, SlotsUntouched DEF Tick
  <2> QED BY <2>2, <2>3 DEF SlotInv
<1>4. CASE UNCHANGED vars
  BY <1>0, <1>4, SlotsUntouched
  DEF vars, SlotInv, PhaseType, TimerType, RedisType, redisVars, localVars
<1> QED BY <1>1, <1>2, <1>3, <1>4 DEF Next

LEMMA SlotInvHolds == Spec => []SlotInv
BY InitSlots, StepSlots, PTL DEF Spec

\* The types of the connections, their timers, Redis' sets and the limiters: no
\* limiter's count is ever above its maximum or below zero.
THEOREM TypeCorrect == Spec => []TypeOK
<1>1. SlotInv => TypeOK
  BY DEF SlotInv, PhaseType, TimerType, RedisType, LimitersOK, TypeOK, Phases
<1> QED BY <1>1, SlotInvHolds, PTL

\* Whatever fails and however often a process restarts, its limiter counts
\* exactly the connections it has open, in total and for every stream
\* (ConnectionLimiter.acquire and release of api.py, in the handlers sse and poll).
THEOREM SlotsExact == Spec => []LocalCountsExact
<1>1. SlotInv => LocalCountsExact
  BY DEF SlotInv, LimitersOK
<1> QED BY <1>1, SlotInvHolds, PTL

-----------------------------------------------------------------------------
(* Leases *)

\* Tenants whose connections meet in a key: their ttls differ by no more than the
\* buffer of the EXPIRE, and either all of them take leases or none does.
SharedKeys ==
    \A c, d \in Connections : KeysOf[c] \cap KeysOf[d] # {} =>
      /\ Ttl[d] <= Ttl[c] + TtlBuffer
      /\ Leased(c) <=> Leased(d)

\* A ttl has room for what may pass between the clock reading of one script that
\* sets the score and the run of the next (of five calls at most, for an SSE
\* connection: acquire, the start of the response, a read, both attempts to
\* refresh), and for the clocks that are ahead of the one it was reckoned by.
Timely ==
    \A c \in Connections, p \in Processes :
      LET ahead == Skew[p] - Skew[ProcessOf[c]]
      IN  /\ KindOf[c] = "sse" =>
               RefreshEvery(c) + ReadTimeout + Suspension + 5 * Delay + ahead <= Ttl[c]
          /\ KindOf[c] = "long-poll" => PollTimeout + 3 * Delay + ahead < Ttl[c]

\* For n more units no clock reaches the score of c.
Lasts(c, n) == \A p \in Processes : left[c] > n + Skew[p]

\* Redis has the lease of c, and keeps its keys until the clock of c's own process
\* reaches the score.
Stored(c) ==
    \A k \in KeysOf[c] : c \in zset[k] /\ keyLeft[k] >= left[c] - Skew[ProcessOf[c]]

\* The longest round of event_stream: a read, its yields and both attempts to refresh.
Round == ReadTimeout + Suspension + 3 * Delay

\* An open SSE connection: the lease lasts until the refresh of this round, and,
\* when that is not due, until the one of the last round before it is.
SseBudget(c) ==
    /\ st[c] = "reading" => Lasts(c, timer[c] + Suspension + 2 * Delay)
    /\ st[c] = "yielding" => Lasts(c, timer[c] + 2 * Delay)
    /\ st[c] = "refreshing" => Lasts(c, timer[c] + Delay)
    /\ st[c] = "retrying" => Lasts(c, timer[c])
    /\ st[c] \in {"reading", "yielding"} /\ due[c] > 0 => Lasts(c, due[c] - 1 + Round)

Budget(c) ==
    IF KindOf[c] = "sse"
    THEN /\ st[c] = "admitted" => Lasts(c, timer[c] + RefreshEvery(c) - 1 + Round)
         /\ st[c] \in Open => SseBudget(c)
    ELSE /\ st[c] = "admitted" => Lasts(c, timer[c] + PollTimeout + Delay)
         /\ st[c] \in Open => st[c] = "reading" /\ Lasts(c, timer[c])

Secured(c) ==
    /\ left[c] <= Skew[ProcessOf[c]] + Ttl[c]
    /\ st[c] \notin {"reading", "yielding"} => timer[c] <= Delay
    /\ Leased(c) /\ st[c] \in Served => Stored(c) /\ Budget(c)

LeaseInv == SlotInv /\ \A c \in Connections : Secured(c)

\* The values a step of c's handler reckons with.
LEMMA Numbers ==
    ASSUME SlotInv, NEW c \in Connections
    PROVE  /\ Ttl[c] \in Nat \ {0} /\ RefreshEvery(c) \in Nat \ {0}
           /\ ReadTimeout \in Nat /\ PollTimeout \in Nat /\ Delay \in Nat
           /\ Suspension \in Nat /\ Round \in Nat /\ TtlBuffer \in Nat
           /\ ProcessOf[c] \in Processes /\ Skew \in [Processes -> Nat]
           /\ Skew[ProcessOf[c]] \in Nat /\ \A p \in Processes : Skew[p] \in Nat
           /\ KindOf[c] \in Kinds /\ KeysOf[c] \subseteq Keys
           /\ left[c] \in Int /\ due[c] \in Nat /\ timer[c] \in Nat
<1>1. ReadTimeout \in Nat /\ Delay \in Nat /\ Suspension \in Nat
  BY LeaseAssumption
<1> QED BY <1>1, LeaseAssumption, RefreshPeriod DEF SlotInv, TimerType, RedisType, Round

\* What is left of a lease that is in use, on every clock.
LEMMA InUse ==
    ASSUME LeaseInv, NEW c \in Connections, Leased(c), st[c] \in Served
    PROVE  Stored(c) /\ Lasts(c, 0)
<1>1. Stored(c) /\ Budget(c)
  BY DEF LeaseInv, Secured
<1>2. /\ RefreshEvery(c) \in Nat \ {0} /\ Round \in Nat /\ timer[c] \in Nat /\ Delay \in Nat
      /\ Suspension \in Nat /\ PollTimeout \in Nat /\ left[c] \in Int
      /\ \A p \in Processes : Skew[p] \in Nat
  BY Numbers DEF LeaseInv
<1>3. \A n \in Nat : Lasts(c, n) => Lasts(c, 0)
  BY <1>2 DEF Lasts
<1>4. /\ timer[c] + RefreshEvery(c) - 1 + Round \in Nat
      /\ timer[c] + Suspension + 2 * Delay \in Nat /\ timer[c] + 2 * Delay \in Nat
      /\ timer[c] + Delay \in Nat /\ timer[c] + PollTimeout + Delay \in Nat
  BY <1>2
<1>5. Lasts(c, 0)
  BY <1>1, <1>2, <1>3, <1>4 DEF Budget, SseBudget, Served, Open
<1> QED BY <1>1, <1>5

\* A script run for c takes no live lease of another connection, nor shortens one.
LEMMA OthersKeep ==
    ASSUME SharedKeys, SlotInv, NEW c \in Connections, Script(c), timer[c] <= Delay,
           NEW d \in Connections, d # c, left[d] <= Skew[ProcessOf[d]] + Ttl[d],
           Lasts(d, 0), Stored(d)
    PROVE  Stored(d)' /\ left'[d] = left[d]
<1> DEFINE Rem == left[d] - Skew[ProcessOf[d]]
<1>1. /\ Ttl[c] \in Nat /\ Ttl[d] \in Nat /\ TtlBuffer \in Nat /\ left[d] \in Int
      /\ Skew[ProcessOf[d]] \in Nat /\ Skew[ProcessOf[c]] \in Nat /\ ProcessOf[c] \in Processes
      /\ timer[c] \in Nat /\ Delay \in Nat /\ KeysOf[d] \subseteq Keys
  BY Numbers
<1>2. RedisType
  BY DEF SlotInv
<1>3. \A k \in KeysOf[d] \cap KeysOf[c] : Rem <= Ttl[c] + TtlBuffer
  <2>1. Rem <= Ttl[d]
    BY <1>1
  <2> QED BY <1>1, <2>1 DEF SharedKeys
<1>4. \A k \in KeysOf[d] : d \in Purged(c)[k]
  <2>1. left[d] > ClockOf(c)
    BY <1>1 DEF Lasts, ClockOf
  <2> QED BY <1>1, <2>1 DEF Purged, Stored
<1>5. ASSUME NEW keys \in SUBSET KeysOf[c], NEW sets,
             \A k \in KeysOf[d] : d \in sets[k], AddTo(c, keys, sets)
      PROVE  Stored(d)' /\ left'[d] = left[d]
  <2>1. left'[d] = left[d]
    BY <1>2, <1>5 DEF AddTo, RedisType
  <2>2. ASSUME NEW k \in KeysOf[d] PROVE d \in zset'[k] /\ keyLeft'[k] >= Rem
    <3>1. k \in Keys /\ d \in zset[k] /\ keyLeft[k] >= Rem /\ d \in sets[k]
      BY <1>1, <1>5 DEF Stored
    <3>2. /\ zset' = [h \in Keys |-> IF h \in keys THEN sets[h] \cup {c} ELSE sets[h]]
          /\ keyLeft' = [h \in Keys |-> IF h \in keys THEN Ttl[c] + TtlBuffer ELSE keyLeft[h]]
      BY <1>5 DEF AddTo
    <3>3. /\ zset'[k] = IF k \in keys THEN sets[k] \cup {c} ELSE sets[k]
          /\ keyLeft'[k] = IF k \in keys THEN Ttl[c] + TtlBuffer ELSE keyLeft[k]
      BY <3>1, <3>2
    <3> QED BY <1>3, <3>1, <3>3
  <2> QED BY <2>1, <2>2 DEF Stored
<1>6. CASE AcquireScript(c)
  BY <1>4, <1>5, <1>6 DEF AcquireScript
<1>7. CASE RejectScript(c)
  BY <1>4, <1>7 DEF RejectScript, Stored
<1>8. CASE RefreshScript(c)
  <2>1. \A k \in KeysOf[d] : d \in zset[k]
    BY DEF Stored
  <2>2. {k \in KeysOf[c] : c \in zset[k]} \in SUBSET KeysOf[c]
    OBVIOUS
  <2>3. CASE UNCHANGED redisVars
    BY <2>3 DEF Stored, redisVars
  <2>4. CASE AddTo(c, {k \in KeysOf[c] : c \in zset[k]}, zset)
    BY <1>5, <2>1, <2>2, <2>4
  <2> QED BY <1>8, <2>3, <2>4 DEF RefreshScript
<1>9. CASE ReleaseScript(c)
  BY <1>1, <1>9 DEF ReleaseScript, Stored
<1>10. CASE UNCHANGED redisVars
  BY <1>10 DEF Stored, redisVars
<1> QED BY <1>6, <1>7, <1>8, <1>9, <1>10 DEF Script

\* A script touches no score but its own, and leaves that no further ahead than a
\* ttl from its process' clock.
LEMMA ScoresBounded ==
    ASSUME SlotInv, NEW c \in Connections, Script(c),
           UNCHANGED redisVars \/ timer[c] <= Delay,
           NEW d \in Connections, left[d] <= Skew[ProcessOf[d]] + Ttl[d]
    PROVE  left'[d] <= Skew[ProcessOf[d]] + Ttl[d]
<1>1. /\ Ttl[d] \in Nat /\ Skew[ProcessOf[d]] \in Nat /\ timer[c] \in Nat /\ Delay \in Nat
      /\ left[d] \in Int
  BY Numbers
<1>2. CASE left'[d] = left[d]
  BY <1>2
<1>3. CASE d = c /\ left'[d] = ClockOf(c) + Ttl[c] /\ timer[c] <= Delay
  BY <1>1, <1>3 DEF ClockOf
<1>4. RedisType
  BY DEF SlotInv
<1>5. CASE UNCHANGED redisVars
  BY <1>2, <1>5 DEF redisVars
<1>6. CASE timer[c] <= Delay
  <2>1. \A keys, sets : AddTo(c, keys, sets) =>
          left'[d] = left[d] \/ (d = c /\ left'[d] = ClockOf(c) + Ttl[c])
    BY <1>4 DEF AddTo, RedisType
  <2>2. left'[d] = left[d] \/ (d = c /\ left'[d] = ClockOf(c) + Ttl[c])
    BY <2>1 DEF Script, AcquireScript, RejectScript, RefreshScript, ReleaseScript, redisVars
  <2> QED BY <1>2, <1>3, <1>6, <2>2
<1> QED BY <1>5, <1>6

\* What acquire and refresh leave: the lease in all its sets, with the score of a
\* whole ttl from the clock reading of the call.
LEMMA Renewed ==
    ASSUME SlotInv, NEW c \in Connections, Leased(c), timer[c] <= Delay,
           AcquireScript(c) \/ (RefreshScript(c) /\ Stored(c))
    PROVE  /\ Stored(c)'
           /\ \A n \in Int :
                (\A p \in Processes : Skew[ProcessOf[c]] + Ttl[c] - Delay > n + Skew[p])
                => Lasts(c, n)'
<1>1. /\ Ttl[c] \in Nat /\ TtlBuffer \in Nat /\ KeysOf[c] \subseteq Keys
      /\ Skew[ProcessOf[c]] \in Nat /\ timer[c] \in Nat /\ Delay \in Nat
      /\ \A p \in Processes : Skew[p] \in Nat
  BY Numbers
<1>2. RedisType /\ KeysOf[c] # {}
  BY DEF SlotInv, Leased
<1>3. \E sets : AddTo(c, KeysOf[c], sets)
  <2>1. CASE AcquireScript(c)
    BY <2>1 DEF AcquireScript
  <2>2. CASE RefreshScript(c) /\ Stored(c)
    <3>1. {k \in KeysOf[c] : c \in zset[k]} = KeysOf[c]
      BY <2>2 DEF Stored
    <3> QED BY <1>2, <2>2, <3>1 DEF RefreshScript
  <2> QED BY <2>1, <2>2
<1> PICK sets : AddTo(c, KeysOf[c], sets)
  BY <1>3
<1>4. left'[c] = Skew[ProcessOf[c]] - (Delay - timer[c]) + Ttl[c]
  BY <1>2 DEF AddTo, RedisType, ClockOf
<1>5. Stored(c)'
  <2> SUFFICES ASSUME NEW k \in KeysOf[c]
               PROVE  c \in zset'[k] /\ keyLeft'[k] >= left'[c] - Skew[ProcessOf[c]]
    BY DEF Stored
  <2>1. c \in zset'[k] /\ keyLeft'[k] = Ttl[c] + TtlBuffer
    BY <1>1 DEF AddTo
  <2> QED BY <1>1, <1>4, <2>1
<1>6. \A n \in Int :
        (\A p \in Processes : Skew[ProcessOf[c]] + Ttl[c] - Delay > n + Skew[p]) => Lasts(c, n)'
  <2> SUFFICES ASSUME NEW n \in Int, NEW p \in Processes,
                      Skew[ProcessOf[c]] + Ttl[c] - Delay > n + Skew[p]
               PROVE  left'[c] > n + Skew[p]
    BY DEF Lasts
  <2> QED BY <1>1, <1>4
<1> QED BY <1>5, <1>6

\* The handler of c leaves every other connection as secure as it was.
LEMMA HandlerOthers ==
    ASSUME SharedKeys, LeaseInv, NEW c \in Connections, Handler(c),
           NEW d \in Connections, d # c
    PROVE  Secured(d)'
<1>1. /\ SlotInv /\ PhaseType /\ TimerType /\ Secured(d)
      /\ st[c] \notin {"reading", "yielding"} => timer[c] <= Delay
  BY DEF LeaseInv, SlotInv, Secured
<1>2. Script(c) /\ (UNCHANGED redisVars \/ timer[c] <= Delay)
  BY <1>1, HandlerScript
<1>3. st'[d] = st[d] /\ due'[d] = due[d] /\ timer'[d] = timer[d]
  BY <1>1 DEF Handler, Acquire, Acquired, AcquireFails, Admit, NoRoom, ReadEnds, Loop, Refreshed,
              RefreshRetried, RefreshFails, Close, Release, Goto, PhaseType, TimerType
<1>4. left'[d] <= Skew[ProcessOf[d]] + Ttl[d]
  BY <1>1, <1>2, ScoresBounded DEF Secured
<1>5. ASSUME Leased(d), st[d] \in Served PROVE Stored(d)' /\ Budget(d)'
  <2>1. Stored(d) /\ Budget(d) /\ Lasts(d, 0)
    BY <1>1, <1>5, InUse DEF Secured
  <2>2. CASE UNCHANGED redisVars
    BY <1>3, <2>1, <2>2 DEF Stored, Budget, SseBudget, Lasts, redisVars
  <2>3. CASE timer[c] <= Delay
    <3>1. Stored(d)' /\ left'[d] = left[d]
      BY <1>1, <1>2, <2>1, <2>3, OthersKeep DEF Secured
    <3> QED BY <1>3, <2>1, <3>1 DEF Budget, SseBudget, Lasts
  <2> QED BY <1>2, <2>2, <2>3
<1> QED BY <1>1, <1>3, <1>4, <1>5 DEF Secured, Leased

\* What a script run for c itself leaves, where the ttl has room: enough to start
\* serving, or to go another round.
LEMMA RenewedBudget ==
    ASSUME Timely, SlotInv, NEW c \in Connections, Leased(c), timer[c] <= Delay,
           AcquireScript(c) \/ (RefreshScript(c) /\ Stored(c))
    PROVE  /\ Stored(c)'
           /\ KindOf[c] = "sse" => Lasts(c, Delay + RefreshEvery(c) - 1 + Round)'
           /\ KindOf[c] = "long-poll" => Lasts(c, 2 * Delay + PollTimeout)'
<1>1. /\ Ttl[c] \in Nat /\ RefreshEvery(c) \in Nat /\ ReadTimeout \in Nat /\ PollTimeout \in Nat
      /\ Delay \in Nat /\ Suspension \in Nat /\ Skew[ProcessOf[c]] \in Nat
      /\ \A p \in Processes : Skew[p] \in Nat
  BY Numbers
<1>2. ASSUME KindOf[c] = "sse", NEW p \in Processes
      PROVE  Skew[ProcessOf[c]] + Ttl[c] - Delay
               > (Delay + RefreshEvery(c) - 1 + Round) + Skew[p]
  <2>1. RefreshEvery(c) + ReadTimeout + Suspension + 5 * Delay
          + (Skew[p] - Skew[ProcessOf[c]]) <= Ttl[c]
    BY <1>2 DEF Timely
  <2>2. Skew[p] \in Nat
    BY <1>1
  <2> QED BY <1>1, <2>1, <2>2 DEF Round
<1>3. ASSUME KindOf[c] = "long-poll", NEW p \in Processes
      PROVE  Skew[ProcessOf[c]] + Ttl[c] - Delay > (2 * Delay + PollTimeout) + Skew[p]
  <2>1. PollTimeout + 3 * Delay + (Skew[p] - Skew[ProcessOf[c]]) < Ttl[c]
    BY <1>3 DEF Timely
  <2>2. Skew[p] \in Nat
    BY <1>1
  <2> QED BY <1>1, <2>1, <2>2
<1>4. Delay + RefreshEvery(c) - 1 + Round \in Int /\ 2 * Delay + PollTimeout \in Int
  BY <1>1 DEF Round
<1> QED BY <1>2, <1>3, <1>4, Renewed

\* A lease that lasts, lasts for any shorter time as well.
LEMMA Shorter ==
    ASSUME NEW c \in Connections, left[c] \in Int, NEW n \in Int, Lasts(c, n),
           NEW m \in Int, m <= n
    PROVE  Lasts(c, m)
<1> SUFFICES ASSUME NEW p \in Processes PROVE left[c] > m + Skew[p]
  BY DEF Lasts
<1>1. Skew[p] \in Nat /\ left[c] > n + Skew[p]
  BY LeaseAssumption DEF Lasts
<1> QED BY <1>1

\* The handler of an SSE connection that has its lease, wherever it goes on.
LEMMA SseKeeps ==
    ASSUME Timely, LeaseInv, NEW c \in Connections, Handler(c), SlotInv',
           Leased(c), st'[c] \in Served, KindOf[c] = "sse"
    PROVE  Stored(c)' /\ Budget(c)'
<1> DEFINE R == RefreshEvery(c)
<1>1. SlotInv /\ PhaseType /\ TimerType
  BY DEF LeaseInv, SlotInv
<1>2. /\ R \in Nat \ {0} /\ ReadTimeout \in Nat /\ Delay \in Nat /\ Suspension \in Nat
      /\ Round \in Nat /\ timer[c] \in Nat /\ due[c] \in Nat /\ left[c] \in Int
      /\ left'[c] \in Int
  BY <1>1, Numbers DEF SlotInv, RedisType
<1>3. \A s, n : Goto(c, s, n) => st'[c] = s /\ timer'[c] = n
  BY <1>1 DEF Goto, PhaseType, TimerType
<1>4. st[c] \in Served => Stored(c) /\ Budget(c)
  BY DEF LeaseInv, Secured
<1>5. st[c] \notin {"reading", "yielding"} => timer[c] <= Delay
  BY DEF LeaseInv, Secured
<1>6. /\ UNCHANGED redisVars /\ Stored(c) => Stored(c)'
      /\ \A n \in Int : UNCHANGED redisVars /\ Lasts(c, n) => Lasts(c, n)'
  BY DEF redisVars, Stored, Lasts
<1>7. \A n, m \in Int : Lasts(c, n)' /\ m <= n => Lasts(c, m)'
  <2>1. \A p \in Processes : Skew[p] \in Nat
    BY LeaseAssumption
  <2> QED BY <1>2, <2>1 DEF Lasts
<1> HIDE DEF R
<1>8. ASSUME Lasts(c, Delay + R - 1 + Round)', Stored(c)', st'[c] = "reading",
             timer'[c] = Delay + ReadTimeout, due'[c] = R
      PROVE  Budget(c)'
  <2>1. /\ Delay + ReadTimeout + Suspension + 2 * Delay \in Int
        /\ Delay + ReadTimeout + Suspension + 2 * Delay <= Delay + R - 1 + Round
        /\ R - 1 + Round \in Int /\ R - 1 + Round <= Delay + R - 1 + Round
        /\ Delay + R - 1 + Round \in Int
    BY <1>2 DEF Round
  <2>2. Lasts(c, Delay + ReadTimeout + Suspension + 2 * Delay)' /\ Lasts(c, R - 1 + Round)'
    BY <1>7, <1>8, <2>1
  <2> QED BY <1>8, <2>2 DEF Budget, SseBudget
<1>9. CASE Acquire(c)
  BY <1>3, <1>9 DEF Acquire, Served, Open
<1>10. CASE Acquired(c)
  <2>1. AcquireScript(c) /\ st'[c] = "admitted" /\ timer'[c] = Delay /\ timer[c] <= Delay
    BY <1>3, <1>5, <1>10 DEF Acquired, Served, Open
  <2>2. Stored(c)' /\ Lasts(c, Delay + R - 1 + Round)'
    BY <1>1, <2>1, RenewedBudget DEF R
  <2> QED BY <2>1, <2>2 DEF Budget, R, Open
<1>11. CASE AcquireFails(c)
  BY <1>3, <1>11 DEF AcquireFails, Served, Open
<1>12. CASE Admit(c)
  <2>1. /\ st[c] = "admitted" /\ st'[c] = "reading" /\ timer'[c] = Delay + ReadTimeout
        /\ due'[c] = R /\ UNCHANGED redisVars
    BY <1>1, <1>3, <1>12 DEF Admit, TimerType, R
  <2> PICK t \in Nat : t = timer[c]
    BY <1>2
  <2>2. t + R - 1 + Round \in Int
    BY <1>2
  <2>3. Stored(c) /\ Lasts(c, t + R - 1 + Round)
    BY <1>4, <2>1 DEF Budget, Served, R
  <2>4. Stored(c)' /\ Lasts(c, t + R - 1 + Round)'
    BY <1>6, <2>1, <2>2, <2>3
  <2>5. /\ R - 1 + Round \in Int /\ R - 1 + Round <= t + R - 1 + Round
        /\ Delay + ReadTimeout + Suspension + 2 * Delay \in Int
        /\ Delay + ReadTimeout + Suspension + 2 * Delay <= t + R - 1 + Round
    BY <1>2 DEF Round
  <2>6. Lasts(c, Delay + ReadTimeout + Suspension + 2 * Delay)' /\ Lasts(c, R - 1 + Round)'
    BY <1>7, <2>2, <2>4, <2>5
  <2> QED BY <2>1, <2>4, <2>6 DEF Budget, SseBudget
<1>13. CASE NoRoom(c)
  BY <1>3, <1>13 DEF NoRoom, Served, Open
<1>14. CASE ReadEnds(c)
  <2>1. /\ st[c] = "reading" /\ st'[c] = "yielding" /\ timer'[c] = Suspension
        /\ due'[c] = due[c] /\ UNCHANGED redisVars
    BY <1>3, <1>14 DEF ReadEnds
  <2>2. Stored(c) /\ SseBudget(c)
    BY <1>4, <2>1 DEF Budget, Served, Open
  <2>3. Lasts(c, Suspension + 2 * Delay)
    <3>1. timer[c] + Suspension + 2 * Delay \in Int /\ Suspension + 2 * Delay \in Int
          /\ Suspension + 2 * Delay <= timer[c] + Suspension + 2 * Delay
      BY <1>2
    <3> QED BY <1>2, <2>1, <2>2, <3>1, Shorter DEF SseBudget
  <2>4. due[c] > 0 => Lasts(c, due[c] - 1 + Round)
    BY <2>1, <2>2 DEF SseBudget
  <2>5. due[c] - 1 + Round \in Int /\ Suspension + 2 * Delay \in Int
    BY <1>2
  <2> QED BY <1>6, <2>1, <2>2, <2>3, <2>4, <2>5 DEF Budget, SseBudget
<1>15. CASE Loop(c)
  <2>1. /\ st[c] = "yielding" /\ due'[c] = due[c] /\ UNCHANGED redisVars
        /\ \/ due[c] = 0 /\ st'[c] = "refreshing" /\ timer'[c] = Delay
           \/ due[c] # 0 /\ st'[c] = "reading" /\ timer'[c] = Delay + ReadTimeout
    BY <1>3, <1>15 DEF Loop
  <2>2. Stored(c) /\ SseBudget(c) /\ Stored(c)'
    BY <1>4, <1>6, <2>1 DEF Budget, Served, Open
  <2>3. CASE due[c] = 0
    <3>1. timer[c] + 2 * Delay \in Int /\ 2 * Delay \in Int /\ 2 * Delay <= timer[c] + 2 * Delay
          /\ timer'[c] + Delay = 2 * Delay
      BY <1>2, <2>1, <2>3
    <3>2. Lasts(c, 2 * Delay)
      BY <1>2, <2>1, <2>2, <3>1, Shorter DEF SseBudget
    <3> QED BY <1>6, <2>1, <2>2, <2>3, <3>1, <3>2 DEF Budget, SseBudget
  <2>4. CASE due[c] # 0
    <3>1. /\ due[c] - 1 + Round \in Int /\ timer'[c] + Suspension + 2 * Delay \in Int
          /\ timer'[c] + Suspension + 2 * Delay <= due[c] - 1 + Round
      BY <1>2, <2>1, <2>4 DEF Round
    <3>2. Lasts(c, due[c] - 1 + Round)'
      BY <1>2, <1>6, <2>1, <2>2, <2>4, <3>1 DEF SseBudget
    <3> QED BY <1>7, <2>1, <2>2, <2>4, <3>1, <3>2 DEF Budget, SseBudget
  <2> QED BY <2>3, <2>4
<1>16. CASE Refreshed(c)
  <2>1. /\ st[c] \in {"refreshing", "retrying"} /\ RefreshScript(c) /\ due'[c] = R
        /\ st'[c] = "reading" /\ timer'[c] = Delay + ReadTimeout
    BY <1>1, <1>3, <1>16 DEF Refreshed, TimerType, R
  <2>2. Stored(c) /\ timer[c] <= Delay
    BY <1>4, <1>5, <2>1 DEF Served, Open
  <2>3. Stored(c)' /\ Lasts(c, Delay + R - 1 + Round)'
    BY <1>1, <2>1, <2>2, RenewedBudget DEF R
  <2> QED BY <1>8, <2>1, <2>3
<1>17. CASE RefreshRetried(c)
  <2>1. /\ st[c] = "refreshing" /\ (RefreshScript(c) \/ UNCHANGED redisVars)
        /\ st'[c] = "retrying" /\ timer'[c] = Delay
    BY <1>3, <1>17 DEF RefreshRetried
  <2>2. Stored(c) /\ SseBudget(c) /\ timer[c] <= Delay
    BY <1>4, <1>5, <2>1 DEF Budget, Served, Open
  <2>3. Delay \in Int /\ timer[c] + Delay \in Int /\ Delay <= timer[c] + Delay
        /\ Delay + R - 1 + Round \in Int /\ Delay <= Delay + R - 1 + Round
    BY <1>2
  <2>4. CASE RefreshScript(c)
    <3>1. Stored(c)' /\ Lasts(c, Delay + R - 1 + Round)'
      BY <1>1, <2>2, <2>4, RenewedBudget DEF R
    <3> QED BY <1>7, <2>1, <2>3, <3>1 DEF Budget, SseBudget
  <2>5. CASE UNCHANGED redisVars
    <3>1. Lasts(c, Delay)
      BY <1>2, <2>1, <2>2, <2>3, Shorter DEF SseBudget
    <3> QED BY <1>6, <2>1, <2>2, <2>3, <2>5, <3>1 DEF Budget, SseBudget
  <2> QED BY <2>1, <2>4, <2>5
<1>18. CASE RefreshFails(c)
  BY <1>3, <1>18 DEF RefreshFails, Served, Open
<1>19. CASE Close(c)
  BY <1>3, <1>19 DEF Close, Served, Open
<1>20. CASE Release(c)
  BY <1>3, <1>20 DEF Release, Served, Open
<1> QED BY <1>9, <1>10, <1>11, <1>12, <1>13, <1>14, <1>15, <1>16, <1>17, <1>18, <1>19, <1>20
        DEF Handler

\* The same for a long poll, which never renews its lease.
LEMMA PollKeeps ==
    ASSUME Timely, LeaseInv, NEW c \in Connections, Handler(c), SlotInv',
           Leased(c), st'[c] \in Served, KindOf[c] = "long-poll"
    PROVE  Stored(c)' /\ Budget(c)'
<1>1. SlotInv /\ PhaseType /\ TimerType
  BY DEF LeaseInv, SlotInv
<1>2. /\ PollTimeout \in Nat /\ Delay \in Nat /\ timer[c] \in Nat /\ left[c] \in Int
  BY <1>1, Numbers
<1>3. \A s, n : Goto(c, s, n) => st'[c] = s /\ timer'[c] = n
  BY <1>1 DEF Goto, PhaseType, TimerType
<1>4. st[c] \in Served => Stored(c) /\ Budget(c) /\ st[c] \in {"admitted", "reading"}
  BY DEF LeaseInv, Secured, Budget, Served
<1>5. CASE Acquired(c)
  <2>1. AcquireScript(c) /\ st'[c] = "admitted" /\ timer'[c] = Delay /\ timer[c] <= Delay
    BY <1>3, <1>5 DEF LeaseInv, Secured, Acquired, Served, Open
  <2>2. Stored(c)' /\ Lasts(c, 2 * Delay + PollTimeout)'
    BY <1>1, <2>1, RenewedBudget
  <2>3. timer'[c] + PollTimeout + Delay = 2 * Delay + PollTimeout
    BY <1>2, <2>1
  <2> QED BY <2>1, <2>2, <2>3 DEF Budget, Open
<1>6. CASE Admit(c)
  <2>1. /\ st[c] = "admitted" /\ st'[c] = "reading" /\ timer'[c] = Delay + PollTimeout
        /\ UNCHANGED redisVars
    BY <1>3, <1>6 DEF Admit
  <2>2. Stored(c)' /\ Lasts(c, Delay + PollTimeout)
    <3>1. timer[c] + PollTimeout + Delay \in Int /\ Delay + PollTimeout \in Int
          /\ Delay + PollTimeout <= timer[c] + PollTimeout + Delay
      BY <1>2
    <3>2. Stored(c) /\ Lasts(c, timer[c] + PollTimeout + Delay)
      BY <1>4, <2>1 DEF Budget, Served
    <3> QED BY <1>2, <2>1, <3>1, <3>2, Shorter DEF Stored, redisVars
  <2> QED BY <2>1, <2>2 DEF Budget, Lasts, redisVars
<1> QED BY <1>3, <1>4, <1>5, <1>6
        DEF Handler, Acquire, AcquireFails, NoRoom, ReadEnds, Loop, Refreshed, RefreshRetried,
            RefreshFails, Close, Release, Served, Open

LEMMA HandlerOwn ==
    ASSUME Timely, LeaseInv, NEW c \in Connections, Handler(c), SlotInv'
    PROVE  Secured(c)'
<1>1. SlotInv /\ PhaseType /\ TimerType /\ Secured(c)
  BY DEF LeaseInv, SlotInv
<1>2. Script(c) /\ (UNCHANGED redisVars \/ timer[c] <= Delay)
  BY <1>1, HandlerScript DEF Secured
<1>3. left'[c] <= Skew[ProcessOf[c]] + Ttl[c]
  BY <1>1, <1>2, ScoresBounded DEF Secured
<1>4. st'[c] \notin {"reading", "yielding"} => timer'[c] <= Delay
  <2>1. \A s, n : Goto(c, s, n) => st'[c] = s /\ timer'[c] = n
    BY <1>1 DEF Goto, PhaseType, TimerType
  <2>2. Delay \in Nat /\ 0 <= Delay /\ Delay <= Delay
    BY LeaseAssumption
  <2> QED BY <2>1, <2>2
          DEF Handler, Acquire, Acquired, AcquireFails, Admit, NoRoom, ReadEnds, Loop, Refreshed,
              RefreshRetried, RefreshFails, Close, Release
<1>5. ASSUME Leased(c), st'[c] \in Served PROVE Stored(c)' /\ Budget(c)'
  BY <1>1, <1>5, Numbers, SseKeeps, PollKeeps DEF Kinds
<1> QED BY <1>3, <1>4, <1>5 DEF Secured, Leased

\* A unit of time: whoever has a lease has time left where it is.
LEMMA TickSecured ==
    ASSUME LeaseInv, Tick, NEW c \in Connections
    PROVE  Secured(c)'
<1>1. SlotInv /\ RedisType /\ Secured(c)
  BY DEF LeaseInv, SlotInv
<1>2. /\ Delay \in Nat /\ Ttl[c] \in Nat /\ PollTimeout \in Nat /\ RefreshEvery(c) \in Nat \ {0}
      /\ Suspension \in Nat /\ Round \in Nat
      /\ left[c] \in Int /\ due[c] \in Nat /\ timer[c] \in Nat
      /\ Skew[ProcessOf[c]] \in Nat /\ ProcessOf[c] \in Processes
      /\ KeysOf[c] \subseteq Keys /\ \A p \in Processes : Skew[p] \in Nat
  BY <1>1, Numbers
<1>3. /\ left'[c] = IF left[c] > -Delay THEN left[c] - 1 ELSE left[c]
      /\ timer'[c] = Less(timer[c]) /\ due'[c] = Less(due[c]) /\ st' = st
  BY DEF Tick
<1>4. left'[c] <= Skew[ProcessOf[c]] + Ttl[c]
  BY <1>1, <1>2, <1>3 DEF Secured
<1>5. st'[c] \notin {"reading", "yielding"} => timer'[c] <= Delay
  BY <1>1, <1>2, <1>3 DEF Secured, Less
<1>6. ASSUME Leased(c), st[c] \in Served PROVE Stored(c)' /\ Budget(c)'
  <2>1. Stored(c) /\ Budget(c)
    BY <1>1, <1>6 DEF Secured
  <2>2. timer[c] > 0 /\ timer'[c] = timer[c] - 1
    BY <1>2, <1>3, <1>6 DEF Tick, Timed, Less
  <2>3. \A n \in Nat : Lasts(c, n) => left[c] > Skew[ProcessOf[c]] + n
    BY <1>2 DEF Lasts
  <2>4. \E n \in Nat : n >= 1 /\ Lasts(c, n)
    <3>1. /\ timer[c] + RefreshEvery(c) - 1 + Round \in Nat
          /\ timer[c] + RefreshEvery(c) - 1 + Round >= 1
          /\ timer[c] + Suspension + 2 * Delay \in Nat /\ timer[c] + Suspension + 2 * Delay >= 1
          /\ timer[c] + 2 * Delay \in Nat /\ timer[c] + 2 * Delay >= 1
          /\ timer[c] + Delay \in Nat /\ timer[c] + Delay >= 1
          /\ timer[c] + PollTimeout + Delay \in Nat /\ timer[c] + PollTimeout + Delay >= 1
          /\ timer[c] \in Nat /\ timer[c] >= 1
      BY <1>2, <2>2
    <3> QED BY <1>6, <2>1, <3>1 DEF Budget, SseBudget, Served, Open
  <2>5. left[c] > 1 + Skew[ProcessOf[c]] /\ left'[c] = left[c] - 1
    <3> PICK n \in Nat : n >= 1 /\ Lasts(c, n)
      BY <2>4
    <3> QED BY <1>2, <1>3, <2>3
  <2>6. Stored(c)'
    <3> SUFFICES ASSUME NEW k \in KeysOf[c]
                 PROVE  c \in zset'[k] /\ keyLeft'[k] >= left'[c] - Skew[ProcessOf[c]]
      BY DEF Stored
    <3>1. /\ k \in Keys /\ keyLeft[k] \in Nat /\ c \in zset[k]
          /\ keyLeft[k] >= left[c] - Skew[ProcessOf[c]]
      BY <1>1, <1>2, <2>1 DEF Stored, RedisType
    <3>2. keyLeft[k] > 1
      BY <1>2, <2>5, <3>1
    <3>3. /\ zset'[k] = IF keyLeft[k] <= 1 THEN {} ELSE zset[k]
          /\ keyLeft'[k] = Less(keyLeft[k])
      BY <3>1 DEF Tick
    <3> QED BY <1>2, <2>5, <3>1, <3>2, <3>3 DEF Less
  <2>7. \A n \in Int : Lasts(c, n) => \A p \in Processes : left'[c] > n - 1 + Skew[p]
    BY <1>2, <2>5 DEF Lasts
  <2> PICK t \in Nat : t = timer[c]
    BY <1>2
  <2> PICK d \in Nat : d = due[c]
    BY <1>2
  <2>8. /\ timer'[c] = t - 1 /\ due'[c] = IF d > 0 THEN d - 1 ELSE d
        /\ t > 0
    BY <1>3, <2>2 DEF Less
  <2>9. Budget(c)'
    <3>1. CASE KindOf[c] = "sse"
      <4>1. /\ t + RefreshEvery(c) - 1 + Round \in Int /\ t + Suspension + 2 * Delay \in Int
            /\ t + 2 * Delay \in Int /\ t + Delay \in Int /\ t \in Int /\ d - 1 + Round \in Int
        BY <1>2
      <4>2. ASSUME st[c] = "admitted"
            PROVE  \A p \in Processes : left'[c] > timer'[c] + RefreshEvery(c) - 1 + Round + Skew[p]
        <5> PICK n \in Int : n = t + RefreshEvery(c) - 1 + Round
          BY <4>1
        <5>1. Lasts(c, n)
          BY <2>1, <3>1, <4>2 DEF Budget
        <5>2. \A p \in Processes : left'[c] > n - 1 + Skew[p]
          BY <2>7, <5>1
        <5> QED BY <1>2, <2>8, <5>2
      <4>3. ASSUME st[c] \in Open PROVE SseBudget(c)'
        <5>0. SseBudget(c)
          BY <2>1, <3>1, <4>3 DEF Budget
        <5>1. ASSUME st[c] = "reading"
              PROVE  \A p \in Processes : left'[c] > timer'[c] + Suspension + 2 * Delay + Skew[p]
          <6> PICK n \in Int : n = t + Suspension + 2 * Delay
            BY <4>1
          <6>1. Lasts(c, n)
            BY <5>0, <5>1 DEF SseBudget
          <6>2. \A p \in Processes : left'[c] > n - 1 + Skew[p]
            BY <2>7, <6>1
          <6> QED BY <1>2, <2>8, <6>2
        <5>2. ASSUME st[c] = "yielding"
              PROVE  \A p \in Processes : left'[c] > timer'[c] + 2 * Delay + Skew[p]
          <6> PICK n \in Int : n = t + 2 * Delay
            BY <4>1
          <6>1. Lasts(c, n)
            BY <5>0, <5>2 DEF SseBudget
          <6>2. \A p \in Processes : left'[c] > n - 1 + Skew[p]
            BY <2>7, <6>1
          <6> QED BY <1>2, <2>8, <6>2
        <5>3. ASSUME st[c] = "refreshing"
              PROVE  \A p \in Processes : left'[c] > timer'[c] + Delay + Skew[p]
          <6> PICK n \in Int : n = t + Delay
            BY <4>1
          <6>1. Lasts(c, n)
            BY <5>0, <5>3 DEF SseBudget
          <6>2. \A p \in Processes : left'[c] > n - 1 + Skew[p]
            BY <2>7, <6>1
          <6> QED BY <1>2, <2>8, <6>2
        <5>4. ASSUME st[c] = "retrying"
              PROVE  \A p \in Processes : left'[c] > timer'[c] + Skew[p]
          BY <2>7, <2>8, <4>1, <5>0, <5>4 DEF SseBudget
        <5>5. ASSUME st[c] \in {"reading", "yielding"}, due'[c] > 0
              PROVE  \A p \in Processes : left'[c] > due'[c] - 1 + Round + Skew[p]
          <6>1. d > 0 /\ due'[c] = d - 1
            BY <2>8, <5>5
          <6> PICK n \in Int : n = d - 1 + Round
            BY <4>1
          <6>2. Lasts(c, n)
            BY <5>0, <5>5, <6>1 DEF SseBudget
          <6>3. \A p \in Processes : left'[c] > n - 1 + Skew[p]
            BY <2>7, <6>2
          <6> QED BY <1>2, <6>1, <6>3
        <5> QED BY <1>3, <5>1, <5>2, <5>3, <5>4, <5>5 DEF SseBudget, Lasts
      <4> QED BY <1>3, <3>1, <4>2, <4>3 DEF Budget, Lasts
    <3>2. CASE KindOf[c] # "sse"
      <4>1. ASSUME st[c] = "admitted"
            PROVE  \A p \in Processes : left'[c] > timer'[c] + PollTimeout + Delay + Skew[p]
        <5> PICK n \in Int : n = t + PollTimeout + Delay
          BY <1>2
        <5>1. Lasts(c, n)
          BY <2>1, <3>2, <4>1 DEF Budget
        <5>2. \A p \in Processes : left'[c] > n - 1 + Skew[p]
          BY <2>7, <5>1
        <5> QED BY <1>2, <2>8, <5>2
      <4>2. ASSUME st[c] \in Open
            PROVE  st[c] = "reading" /\ \A p \in Processes : left'[c] > timer'[c] + Skew[p]
        <5>1. st[c] = "reading" /\ Lasts(c, t)
          BY <2>1, <3>2, <4>2 DEF Budget
        <5> QED BY <2>7, <2>8, <5>1
      <4> QED BY <1>3, <3>2, <4>1, <4>2 DEF Budget, Lasts
    <3> QED BY <3>1, <3>2
  <2> QED BY <2>6, <2>9
<1> QED BY <1>3, <1>4, <1>5, <1>6 DEF Secured, Leased

LEMMA InitLeases == Init => LeaseInv
<1> SUFFICES ASSUME Init PROVE LeaseInv
  OBVIOUS
<1>1. \A c \in Connections : Skew[ProcessOf[c]] + Ttl[c] >= 0 /\ 0 <= Delay
  BY LeaseAssumption
<1> QED BY <1>1, InitSlots DEF LeaseInv, Secured, Init, Served, Open

LEMMA StepLeases ==
    ASSUME Timely, SharedKeys
    PROVE  LeaseInv /\ [Next]_vars => LeaseInv'
<1> SUFFICES ASSUME LeaseInv, [Next]_vars PROVE LeaseInv'
  OBVIOUS
<1>1. SlotInv'
  BY StepSlots DEF LeaseInv
<1>2. ASSUME NEW d \in Connections PROVE Secured(d)'
  <2>1. CASE \E c \in Connections : Handler(c)
    <3> PICK c \in Connections : Handler(c)
      BY <2>1
    <3>1. CASE d = c
      BY <1>1, <3>1, HandlerOwn
    <3>2. CASE d # c
      BY <3>2, HandlerOthers
    <3> QED BY <3>1, <3>2
  <2>2. CASE \E p \in Processes : Crash(p)
    <3> PICK p \in Processes : Crash(p)
      BY <2>2
    <3>1. UNCHANGED redisVars /\ Secured(d) /\ Delay >= 0
      BY LeaseAssumption DEF Crash, LeaseInv
    <3>2. \/ st'[d] = st[d] /\ due'[d] = due[d] /\ timer'[d] = timer[d]
          \/ st'[d] = "done" /\ timer'[d] = 0
      BY DEF Crash
    <3> QED BY <3>1, <3>2
        DEF Secured, Leased, Stored, Budget, SseBudget, Lasts, redisVars, Served, Open
  <2>3. CASE Tick
    BY <2>3, TickSecured
  <2>4. CASE UNCHANGED vars
    BY <2>4 DEF vars, redisVars, LeaseInv, Secured, Leased, Stored, Budget, SseBudget, Lasts
  <2> QED BY <2>1, <2>2, <2>3, <2>4 DEF Next
<1> QED BY <1>1, <1>2 DEF LeaseInv

\* Where every ttl has room for the timeouts, for the delay of the calls, for what
\* a client may keep event_stream suspended and for the skew of the clocks, an
\* admitted or open connection is never without its lease, and no process' clock
\* is past it: refreshing every half ttl is often enough, and no script run for
\* another connection, on whatever clock, removes it (event_stream and
\* _acquire_connection_lease of api.py, the scripts of quotas.py).
THEOREM LeasesHeld ==
    ASSUME Timely, SharedKeys
    PROVE  Spec => []LeaseHeld
<1>1. LeaseInv => LeaseHeld
  <2> SUFFICES ASSUME LeaseInv, NEW c \in Connections, Leased(c), st[c] \in Served
               PROVE  /\ \A p \in Processes : left[c] > Skew[p]
                      /\ \A k \in KeysOf[c] : c \in zset[k]
    BY DEF LeaseHeld
  <2>1. Stored(c) /\ Lasts(c, 0)
    BY InUse
  <2>2. \A p \in Processes : 0 + Skew[p] = Skew[p]
    BY LeaseAssumption
  <2> QED BY <2>1, <2>2 DEF Stored, Lasts
<1>2. LeaseInv /\ [Next]_vars => LeaseInv'
  BY StepLeases
<1> QED BY InitLeases, <1>1, <1>2, PTL DEF Spec

\* Whoever is served in a key of c still counts when c is let in.
LEMMA AdmissionCounts ==
    ASSUME SharedKeys, LeaseInv, [Next]_vars,
           NEW c \in Connections, st[c] = "acquiring", st'[c] = "admitted",
           NEW k \in KeysOf[c], LimitOf[c][k] > 0
    PROVE  Cardinality({d \in Connections : st'[d] \in Served /\ k \in KeysOf[d]})
             <= LimitOf[c][k]
<1> DEFINE InUseNow == {d \in Connections : st'[d] \in Served /\ k \in KeysOf[d]}
           Counted == Purged(c)[k]
<1>1. PhaseType /\ RedisType /\ SlotInv /\ k \in Keys /\ LimitOf[c][k] \in Nat
  BY LeaseAssumption DEF LeaseInv, SlotInv
<1>2. ASSUME NEW d \in Connections, Handler(d) PROVE d = c /\ Acquired(c)
  <2>1. \A s, n : Goto(d, s, n) /\ d # c => st'[c] = "acquiring"
    BY <1>1 DEF Goto, PhaseType
  <2>2. \A s, n : Goto(c, s, n) => s = "admitted"
    BY <1>1 DEF Goto, PhaseType
  <2>3. d = c
    BY <1>2, <2>1 DEF Handler, Acquire, Acquired, AcquireFails, Admit, NoRoom, ReadEnds, Loop,
                      Refreshed, RefreshRetried, RefreshFails, Close, Release
  <2> QED BY <1>2, <2>2, <2>3
          DEF Handler, Acquire, Acquired, AcquireFails, Admit, NoRoom, ReadEnds, Loop,
              Refreshed, RefreshRetried, RefreshFails, Close, Release
<1>3. Acquired(c)
  BY <1>2 DEF Next, Crash, Tick, vars
<1>4. Leased(c) /\ ~Full(c, k) /\ Goto(c, "admitted", Delay) /\ timer[c] <= Delay
  BY <1>1, <1>3 DEF Acquired, Leased, Goto, PhaseType, LeaseInv, Secured
<1>5. Counted \subseteq Connections
  BY <1>1 DEF Purged, RedisType
<1>6. InUseNow \subseteq Counted \cup {c}
  <2> SUFFICES ASSUME NEW d \in Connections, st'[d] \in Served, k \in KeysOf[d], d # c
               PROVE  d \in Counted
    OBVIOUS
  <2>1. st[d] \in Served
    BY <1>1, <1>4 DEF Goto, PhaseType
  <2>2. Leased(d)
    BY <1>4 DEF SharedKeys
  <2>3. d \in zset[k] /\ Lasts(d, 0)
    BY <2>1, <2>2, InUse DEF Stored
  <2>4. left[d] > ClockOf(c)
    <3>1. /\ left[d] \in Int /\ timer[c] \in Nat /\ Delay \in Nat /\ ProcessOf[c] \in Processes
          /\ Skew[ProcessOf[c]] \in Nat
      BY <1>1, Numbers
    <3> QED BY <1>4, <2>3, <3>1 DEF Lasts, ClockOf
  <2> QED BY <1>1, <2>3, <2>4 DEF Purged
<1>7. /\ IsFiniteSet(Counted) /\ Cardinality(Counted) \in Nat
      /\ IsFiniteSet(Counted \cup {c})
      /\ Cardinality(Counted \cup {c}) <= Cardinality(Counted) + 1
  <2>1. IsFiniteSet(Counted)
    BY <1>5, LeaseAssumption, FS_Subset
  <2>2. Cardinality(Counted) \in Nat
    BY <2>1, FS_CardinalityType
  <2> HIDE DEF Counted
  <2>3. /\ IsFiniteSet(Counted \cup {c})
        /\ Cardinality(Counted \cup {c}) =
             IF c \in Counted THEN Cardinality(Counted) ELSE Cardinality(Counted) + 1
    BY <2>1, FS_AddElement, Zenon
  <2> QED BY <2>1, <2>2, <2>3
<1>8. Cardinality(Counted) < LimitOf[c][k]
  BY <1>1, <1>4, <1>7 DEF Full
<1>9. /\ Cardinality(InUseNow) <= Cardinality(Counted \cup {c})
      /\ Cardinality(InUseNow) \in Nat /\ Cardinality(Counted \cup {c}) \in Nat
  BY <1>6, <1>7, FS_Subset, FS_CardinalityType
<1> HIDE DEF Counted, InUseNow
<1>10. Cardinality(InUseNow) <= LimitOf[c][k]
  BY <1>1, <1>7, <1>8, <1>9
<1> QED BY <1>10 DEF InUseNow

\* Under the same conditions a connection is let in only while the connections
\* really served, over all processes, leave room under every limit of its policy:
\* no crash, lost answer, late script, clock ahead or failed release makes the
\* shared count smaller than what is served (_CONNECTION_ACQUIRE_SCRIPT of
\* quotas.py, as sse and poll use it).
THEOREM LimitsShared ==
    ASSUME Timely, SharedKeys
    PROVE  Spec => AdmittedWithinLimits
<1>1. LeaseInv /\ [Next]_vars =>
        [\A c \in Connections : st[c] = "acquiring" /\ st'[c] = "admitted" =>
           \A k \in KeysOf[c] : LimitOf[c][k] > 0 =>
             Cardinality({d \in Connections : st'[d] \in Served /\ k \in KeysOf[d]})
               <= LimitOf[c][k]]_vars
  BY AdmissionCounts
<1>2. LeaseInv /\ [Next]_vars => LeaseInv'
  BY StepLeases
<1> QED BY InitLeases, <1>1, <1>2, PTL DEF Spec, AdmittedWithinLimits
=============================================================================
