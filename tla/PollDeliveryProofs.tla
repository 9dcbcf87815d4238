-------------------------- MODULE PollDeliveryProofs --------------------------
(***************************************************************************)
(* Proofs about listeners that poll, for every MaxLen, batch size, way the *)
(* key vanishes, movement of Redis' clock, number of listeners, retry      *)
(* budget, limit and bound.  Whatever removes entries, delivery implements *)
(* the feed of module EventFeed: what it hides while it is there lies      *)
(* behind a withdrawn event, under an id that was used again, and only     *)
(* deletion brings that about.                                             *)
(***************************************************************************)
EXTENDS PollDelivery, RedisStreamProofs

-----------------------------------------------------------------------------
(* The inductive invariant *)

\* The handler runs, and has an answer, only for a client that waits for one;
\* events are on their way only as its answer or in the client's hands.
HandlerOK(l) ==
    /\ srv[l] # "none" => cst[l] = "get"
    /\ batch[l] # {} => srv[l] = "200" \/ cst[l] = "yield"

\* Between polls the cursor is "$" or tells the place of the last event that was
\* handed over; while a batch is being yielded it stays behind.
CursorMark(l) ==
    /\ cst[l] = "get" => cursor[l] = Latest \/ Mark(cursor[l], pos[l])
    /\ cst[l] = "idle" => cursor[l] = Zero /\ pos[l] = 0

\* What was read, and what a blocked XREAD may return, comes after that event.
ReadPast(l) ==
    /\ \A i \in batch[l] : i > pos[l]
    /\ srv[l] = "blocked" => \A i \in Newer(blk[l]) : i > pos[l]
    /\ srv[l] = "blocked" /\ cursor[l] # Latest => blk[l] = cursor[l]

\* A listener that is told its cursor was trimmed has lost sight of that event.
GapMark(l) == srv[l] = "409" \/ cst[l] = "trimmed" => pos[l] < first

ListenerPlaced(l) == HandlerOK(l) /\ CursorMark(l) /\ ReadPast(l) /\ GapMark(l)

TypeInv == TypeOK /\ Ascending

PollInv == TypeInv /\ \A l \in Listeners : ListenerPlaced(l)

\* What is live and missing from the batch, below one of its events, was handed
\* over before, or is hidden by the event that was handed over last.
BatchLinked(l) ==
    cursor[l] # Latest =>
      \A i \in batch[l] : \A j \in first .. i - 1 :
        j \notin batch[l] => \/ j <= pos[l]
                             \/ Hidden(pos[l], j) /\ \A m \in batch[l] : j < m

LinkInv == PollInv /\ DatesOrKept /\ \A l \in Listeners : BatchLinked(l)

-----------------------------------------------------------------------------
(* Type correctness *)

LEMMA TypeHasStreamInv ==
    ASSUME TypeInv
    PROVE  StreamInv
BY DEF TypeInv, TypeOK, StreamInv, StreamType

LEMMA InitTypeInv == Init => TypeInv
<1> SUFFICES ASSUME Init PROVE TypeInv
  OBVIOUS
<1>1. log \in Seq(Id) /\ Len(log) = 0 /\ first = 1 /\ now = 1
  BY DEF Init, StreamInit
<1>2. Zero \in Id /\ Zero \in Cursor
  BY DEF Zero, Id, Cursor
<1>3. TypeOK
  BY <1>1, <1>2, PollAssumption DEF TypeOK, Ended, Init
<1>4. Ascending
  BY <1>1 DEF Ascending, Live
<1> QED
  BY <1>3, <1>4 DEF TypeInv

\* A step of one listener leaves the stream, and the other listeners, as they are.
LEMMA OneListener ==
    ASSUME TypeInv, NEW l \in Listeners, Client(l) \/ Server(l)
    PROVE  /\ log' = log /\ first' = first /\ now' = now
           /\ \A m \in Listeners : m # l =>
                /\ cst'[m] = cst[m] /\ cursor'[m] = cursor[m] /\ pos'[m] = pos[m]
                /\ srv'[m] = srv[m] /\ blk'[m] = blk[m] /\ batch'[m] = batch[m]
<1> USE DEF TypeInv, TypeOK, streamVars
<1>1. CASE Start(l)
  BY <1>1 DEF Start
<1>2. CASE Request(l) \/ PollFault(l) \/ Refuse(l) \/ Answer(l)
  BY <1>2 DEF Request, PollFault, Refuse, Answer
<1>3. CASE Yield(l)
  BY <1>3 DEF Yield
<1>4. CASE Server(l)
  BY <1>4 DEF Server, Check, XRead, BlockTimeout
<1> QED
  BY <1>1, <1>2, <1>3, <1>4 DEF Client

LEMMA StreamStepType ==
    ASSUME TypeInv, StreamInv', Grows, UNCHANGED <<cst, att, cursor, pos, blk, faults>>,
           srv' \in [Listeners -> {"none", "check", "read", "blocked", "204", "200", "409"}],
           batch' \in [Listeners -> SUBSET (1 .. Len(log'))]
    PROVE  TypeInv'
<1>1. Len(log) \in Nat /\ Len(log') \in Nat /\ Len(log) <= Len(log')
  BY TypeHasStreamInv DEF Grows, StreamInv, StreamType
<1>2. 0 .. Len(log) \subseteq 0 .. Len(log')
  BY <1>1
<1>3. pos' \in [Listeners -> 0 .. Len(log')]
  BY <1>2 DEF TypeInv, TypeOK
<1> QED
  BY <1>3 DEF TypeInv, TypeOK, StreamInv, StreamType

LEMMA NextTypeInv == TypeInv /\ [Next]_vars => TypeInv'
<1> SUFFICES ASSUME TypeInv, [Next]_vars PROVE TypeInv'
  OBVIOUS
<1> USE PollAssumption
<1>0. StreamInv
  BY TypeHasStreamInv
<1>1. ASSUME NEW n \in BatchSizes, Write(n) PROVE TypeInv'
  <2>1. StreamInv' /\ Grows
    BY <1>0, <1>1, AddKeeps DEF Write
  <2>2. \A c : Batch(c, Limit)' \subseteq 1 .. Len(log')
    BY <2>1 DEF Batch, Newer, Live, StreamInv, StreamType
  <2>3. \A i : i \in 1 .. Len(log) => i \in 1 .. Len(log')
    BY <1>0, <2>1 DEF Grows, StreamInv, StreamType
  <2>4. batch' \in [Listeners -> SUBSET (1 .. Len(log'))]
    BY <1>1, <2>2, <2>3 DEF Write, TypeInv, TypeOK
  <2>5. /\ srv' \in [Listeners -> {"none", "check", "read", "blocked", "204", "200", "409"}]
        /\ UNCHANGED <<cst, att, cursor, pos, blk, faults>>
    BY <1>1 DEF Write, TypeInv, TypeOK
  <2> QED
    BY <2>1, <2>4, <2>5, StreamStepType
<1>2. CASE Vanish
  <2>1. StreamInv' /\ Grows
    BY <1>0, <1>2, RemoveKeeps DEF Vanish
  <2>2. UNCHANGED <<cst, att, cursor, pos, srv, blk, batch, faults>>
    BY <1>2 DEF Vanish
  <2>3. \A i : i \in 1 .. Len(log) => i \in 1 .. Len(log')
    BY <1>0, <2>1 DEF Grows, StreamInv, StreamType
  <2>4. batch' \in [Listeners -> SUBSET (1 .. Len(log'))]
    BY <2>2, <2>3 DEF TypeInv, TypeOK
  <2>5. srv' \in [Listeners -> {"none", "check", "read", "blocked", "204", "200", "409"}]
    BY <2>2 DEF TypeInv, TypeOK
  <2> QED
    BY <2>1, <2>2, <2>4, <2>5, StreamStepType
<1>3. ASSUME NEW l \in Listeners, Client(l) \/ Server(l) PROVE TypeInv'
  <2>1. log' = log /\ first' = first /\ now' = now
    BY <1>3, OneListener
  <2>2. Ascending'
    BY <2>1 DEF TypeInv, Ascending, Live
  <2>3. /\ log \in Seq(Id) /\ Len(log) \in Nat /\ first \in 1 .. Len(log) + 1
        /\ \A i \in 1 .. Len(log) : log[i] \in Cursor
        /\ Latest \in Cursor
    BY DEF TypeInv, TypeOK, Cursor
  <2> SUFFICES TypeOK'
    BY <2>2 DEF TypeInv
  <2> USE <2>1, <2>3 DEF TypeInv, TypeOK
  <2>4. CASE Start(l)
    <3>1. /\ cst' \in [Listeners -> {"idle", "get", "yield"} \cup Ended]
          /\ UNCHANGED <<att, srv, blk, batch, faults>>
      BY <2>4 DEF Start
    <3>2. cursor' \in [Listeners -> Cursor] /\ pos' \in [Listeners -> 0 .. Len(log)]
      <4>1. CASE UNCHANGED <<cursor, pos>>
        BY <4>1
      <4>2. CASE /\ cursor' = [cursor EXCEPT ![l] = Latest]
                 /\ pos' = [pos EXCEPT ![l] = Len(log)]
        BY <4>2
      <4>3. ASSUME NEW i \in 1 .. Len(log),
                   cursor' = [cursor EXCEPT ![l] = log[i]],
                   pos' = [pos EXCEPT ![l] = i]
            PROVE  cursor' \in [Listeners -> Cursor] /\ pos' \in [Listeners -> 0 .. Len(log)]
        BY <4>3
      <4> QED
        BY <2>4, <4>1, <4>2, <4>3 DEF Start
    <3> QED
      BY <3>1, <3>2
  <2>5. CASE Request(l)
    BY <2>5 DEF Request
  <2>6. CASE PollFault(l)
    <3>1. att[l] \in 0 .. Retries /\ (~(att[l] >= Retries) => att[l] + 1 \in 0 .. Retries)
      OBVIOUS
    <3>2. faults' \in 0 .. MaxFaults
      BY <2>6 DEF PollFault
    <3>3. /\ UNCHANGED <<cursor, pos, blk>>
          /\ srv' = [srv EXCEPT ![l] = "none"] /\ batch' = [batch EXCEPT ![l] = {}]
      BY <2>6 DEF PollFault
    <3>4. CASE att[l] >= Retries
      <4>1. cst' = [cst EXCEPT ![l] = "raised"] /\ att' = att
        BY <2>6, <3>4 DEF PollFault
      <4> QED
        BY <3>2, <3>3, <4>1 DEF Ended
    <3>5. CASE ~(att[l] >= Retries)
      <4>1. att' = [att EXCEPT ![l] = att[l] + 1] /\ cst' = cst
        BY <2>6, <3>5 DEF PollFault
      <4>2. att' \in [Listeners -> 0 .. Retries]
        BY <3>1, <3>5, <4>1
      <4> QED
        BY <3>2, <3>3, <4>1, <4>2
    <3> QED
      BY <3>4, <3>5
  <2>7. CASE Refuse(l)
    BY <2>7 DEF Refuse, Ended
  <2>8. CASE Answer(l)
    <3>1. PICK s \in {"get", "yield", "trimmed"} : cst' = [cst EXCEPT ![l] = s]
      BY <2>8 DEF Answer
    <3> QED
      BY <2>8, <3>1 DEF Answer, Ended
  <2>9. CASE Yield(l)
    <3>1. PICK i \in batch[l] :
            /\ pos' = [pos EXCEPT ![l] = i]
            /\ batch' = [batch EXCEPT ![l] = @ \ {i}]
            /\ \/ cursor' = [cursor EXCEPT ![l] = log[i]] /\ cst' = [cst EXCEPT ![l] = "get"]
               \/ UNCHANGED <<cursor, cst>>
      BY <2>9 DEF Yield
    <3>2. i \in 1 .. Len(log) /\ i \in 0 .. Len(log)
      OBVIOUS
    <3>3. UNCHANGED <<att, srv, blk, faults>>
      BY <2>9 DEF Yield
    <3> QED
      BY <3>1, <3>2, <3>3
  <2>10. CASE Check(l)
    BY <2>10 DEF Check
  <2>11. CASE XRead(l)
    <3>1. Resolve(cursor[l]) \in Id
      BY <1>0, NothingAfterLatest DEF Resolve, Cursor
    <3>2. Batch(Resolve(cursor[l]), Limit) \subseteq 1 .. Len(log)
      BY DEF Batch, Newer, Live
    <3> QED
      BY <2>11, <3>1, <3>2 DEF XRead
  <2>12. CASE BlockTimeout(l)
    BY <2>12 DEF BlockTimeout
  <2> QED
    BY <1>3, <2>4, <2>5, <2>6, <2>7, <2>8, <2>9, <2>10, <2>11, <2>12 DEF Client, Server
<1>4. CASE UNCHANGED vars
  BY <1>4 DEF vars, streamVars, TypeInv, TypeOK, Ascending, Live
<1> QED
  BY <1>1, <1>2, <1>3, <1>4 DEF Next

\* The variables of client, handler and stream keep their types: in particular no
\* more than read_retries attempts are ever counted, and every place a listener
\* holds is the place of an event that was appended.
THEOREM TypeCorrect == Spec => []TypeOK
<1>1. TypeInv => TypeOK
  BY DEF TypeInv
<1> QED
  BY <1>1, InitTypeInv, NextTypeInv, PTL DEF Spec

-----------------------------------------------------------------------------
(* Where a listener is *)

LEMMA InitPollInv == Init => PollInv
<1> SUFFICES ASSUME Init PROVE PollInv
  OBVIOUS
<1>1. TypeInv
  BY InitTypeInv
<1>2. ASSUME NEW l \in Listeners PROVE ListenerPlaced(l)
  <2>1. /\ cst[l] = "idle" /\ cursor[l] = Zero /\ pos[l] = 0 /\ srv[l] = "none"
        /\ batch[l] = {}
    BY DEF Init
  <2> QED
    BY <2>1 DEF ListenerPlaced, HandlerOK, CursorMark, ReadPast, GapMark
<1> QED
  BY <1>1, <1>2 DEF PollInv

\* The facts about one listener that the steps below need.
LEMMA Places ==
    ASSUME PollInv, NEW l \in Listeners
    PROVE  /\ TypeInv /\ StreamInv /\ ListenerPlaced(l)
           /\ log \in Seq(Id) /\ Len(log) \in Nat /\ first \in 1 .. Len(log) + 1
           /\ first \in Nat
           /\ pos[l] \in 0 .. Len(log) /\ pos[l] \in Nat /\ batch[l] \subseteq 1 .. Len(log)
           /\ cursor[l] \in Cursor /\ blk[l] \in Id
<1>1. /\ TypeInv /\ ListenerPlaced(l) /\ StreamInv
  BY TypeHasStreamInv DEF PollInv
<1> QED
  BY <1>1 DEF TypeInv, TypeOK, StreamInv, StreamType

\* The stream changes under a listener that holds still, or that is blocked and
\* gets what is newer than the id it waits on.
LEMMA StreamPlaced ==
    ASSUME PollInv, StreamInv', Grows, NEW l \in Listeners,
           cst'[l] = cst[l], cursor'[l] = cursor[l], pos'[l] = pos[l], blk'[l] = blk[l],
           \/ srv'[l] = srv[l] /\ batch'[l] = batch[l]
           \/ /\ srv[l] = "blocked" /\ batch'[l] = Batch(blk[l], Limit)'
              /\ srv'[l] = IF batch'[l] # {} THEN "200" ELSE "blocked"
    PROVE  ListenerPlaced(l)'
<1>0. /\ StreamInv /\ ListenerPlaced(l) /\ pos[l] \in 0 .. Len(log) /\ Len(log) \in Nat
      /\ first \in Nat
  BY Places
<1>1. HandlerOK(l)'
  BY <1>0 DEF ListenerPlaced, HandlerOK
<1>2. CursorMark(l)'
  BY <1>0, MarkKept DEF ListenerPlaced, CursorMark
<1>3. srv[l] = "blocked" => \A i \in Newer(blk[l])' : i > pos[l]
  <2> SUFFICES ASSUME srv[l] = "blocked", NEW i \in Newer(blk[l])' PROVE i > pos[l]
    OBVIOUS
  <2>1. i \in Newer(blk[l]) \/ i > Len(log)
    BY <1>0, NewerGrows
  <2>2. i \in Nat
    BY DEF Newer, Live, StreamInv, StreamType
  <2> QED
    BY <1>0, <2>1, <2>2 DEF ListenerPlaced, ReadPast
<1>4. ReadPast(l)'
  <2>1. CASE srv'[l] = srv[l] /\ batch'[l] = batch[l]
    BY <1>0, <1>3, <2>1 DEF ListenerPlaced, ReadPast
  <2>2. CASE /\ srv[l] = "blocked" /\ batch'[l] = Batch(blk[l], Limit)'
             /\ srv'[l] = IF batch'[l] # {} THEN "200" ELSE "blocked"
    <3>1. Batch(blk[l], Limit)' \subseteq Newer(blk[l])'
      BY DEF Batch
    <3>2. \A i \in batch'[l] : i > pos'[l]
      BY <1>3, <2>2, <3>1
    <3> QED
      BY <1>0, <1>3, <2>2, <3>2 DEF ListenerPlaced, ReadPast
  <2> QED
    BY <2>1, <2>2
<1>5. GapMark(l)'
  <2>1. srv'[l] = "409" => srv[l] = "409"
    OBVIOUS
  <2>2. first <= first' /\ first' \in Nat
    BY DEF Grows, StreamInv, StreamType
  <2> QED
    BY <1>0, <2>1, <2>2 DEF ListenerPlaced, GapMark
<1> QED
  BY <1>1, <1>2, <1>4, <1>5 DEF ListenerPlaced

\* A write wakes the readers that are blocked on the key; nothing else of a
\* listener changes with the stream.
LEMMA StreamStep ==
    ASSUME TypeInv, Vanish \/ \E n \in BatchSizes : Write(n), NEW l \in Listeners
    PROVE  /\ StreamInv' /\ Grows
           /\ cst'[l] = cst[l] /\ cursor'[l] = cursor[l] /\ pos'[l] = pos[l]
           /\ blk'[l] = blk[l]
           /\ \/ srv'[l] = srv[l] /\ batch'[l] = batch[l]
              \/ /\ srv[l] = "blocked" /\ batch'[l] = Batch(blk[l], Limit)'
                 /\ srv'[l] = IF batch'[l] # {} THEN "200" ELSE "blocked"
<1>0. StreamInv
  BY TypeHasStreamInv
<1>1. CASE Vanish
  BY <1>0, <1>1, RemoveKeeps DEF Vanish
<1>2. ASSUME NEW n \in BatchSizes, Write(n)
      PROVE  /\ StreamInv' /\ Grows
             /\ cst'[l] = cst[l] /\ cursor'[l] = cursor[l] /\ pos'[l] = pos[l]
             /\ blk'[l] = blk[l]
             /\ \/ srv'[l] = srv[l] /\ batch'[l] = batch[l]
                \/ /\ srv[l] = "blocked" /\ batch'[l] = Batch(blk[l], Limit)'
                   /\ srv'[l] = IF batch'[l] # {} THEN "200" ELSE "blocked"
  <2>1. StreamInv' /\ Grows
    BY <1>0, <1>2, AddKeeps DEF Write
  <2>2. UNCHANGED <<cst, cursor, pos, blk>>
    BY <1>2 DEF Write
  <2>3. CASE srv[l] = "blocked"
    BY <1>2, <2>1, <2>2, <2>3 DEF Write
  <2>4. CASE srv[l] # "blocked"
    BY <1>2, <2>1, <2>2, <2>4 DEF Write
  <2> QED
    BY <2>3, <2>4
<1> QED
  BY <1>1, <1>2

\* What one poll hands over is what the previous one left.
LEMMA YieldParts ==
    ASSUME TypeInv, NEW l \in Listeners, Yield(l)
    PROVE  \E i \in batch[l] :
             /\ \A j \in batch[l] : i <= j
             /\ pos' = [pos EXCEPT ![l] = i] /\ pos'[l] = i
             /\ batch'[l] = batch[l] \ {i}
             /\ cst[l] = "yield" /\ srv'[l] = srv[l] /\ blk'[l] = blk[l]
             /\ \/ batch[l] = {i} /\ cursor'[l] = log[i] /\ cst'[l] = "get"
                \/ batch[l] # {i} /\ cursor'[l] = cursor[l] /\ cst'[l] = "yield"
<1>1. PICK i \in batch[l] :
        /\ \A j \in batch[l] : i <= j
        /\ pos' = [pos EXCEPT ![l] = i]
        /\ batch' = [batch EXCEPT ![l] = @ \ {i}]
        /\ IF batch[l] = {i}
           THEN /\ cursor' = [cursor EXCEPT ![l] = log[i]]
                /\ cst' = [cst EXCEPT ![l] = "get"]
           ELSE UNCHANGED <<cursor, cst>>
  BY DEF Yield
<1>2. cst[l] = "yield" /\ srv'[l] = srv[l] /\ blk'[l] = blk[l]
  BY DEF Yield
<1>3. pos'[l] = i /\ batch'[l] = batch[l] \ {i}
  BY <1>1 DEF TypeInv, TypeOK
<1>4. CASE batch[l] = {i}
  BY <1>1, <1>2, <1>3, <1>4 DEF TypeInv, TypeOK
<1>5. CASE batch[l] # {i}
  BY <1>1, <1>2, <1>3, <1>5 DEF TypeInv, TypeOK
<1> QED
  BY <1>4, <1>5

LEMMA ClientPlaced ==
    ASSUME PollInv, NEW l \in Listeners, Client(l)
    PROVE  ListenerPlaced(l)'
<1>0. /\ log' = log /\ first' = first /\ TypeInv /\ StreamInv /\ ListenerPlaced(l)
      /\ batch[l] \subseteq 1 .. Len(log) /\ first \in Nat
  BY OneListener, Places
<1>1. \A c, p : Mark(c, p)' <=> Mark(c, p)
  BY <1>0 DEF Mark
<1>2. \A c : Newer(c)' = Newer(c)
  BY <1>0 DEF Newer, Live
<1> USE DEF ListenerPlaced, HandlerOK, CursorMark, ReadPast, GapMark
<1>3. CASE Start(l)
  <2>1. /\ cst[l] = "idle" /\ cst'[l] = "get" /\ srv'[l] = srv[l] /\ srv[l] = "none"
        /\ batch'[l] = batch[l] /\ batch[l] = {}
    BY <1>0, <1>3 DEF Start, TypeInv, TypeOK
  <2>2. cursor'[l] = Latest \/ Mark(cursor'[l], pos'[l])
    <3>1. CASE UNCHANGED <<cursor, pos>>
      BY <1>0, <2>1, <3>1 DEF Mark
    <3>2. CASE cursor' = [cursor EXCEPT ![l] = Latest]
      BY <1>0, <3>2 DEF TypeInv, TypeOK
    <3>3. ASSUME NEW p \in 1 .. Len(log),
                 cursor' = [cursor EXCEPT ![l] = log[p]],
                 pos' = [pos EXCEPT ![l] = p]
          PROVE  Mark(cursor'[l], pos'[l])
      BY <1>0, <3>3 DEF Mark, TypeInv, TypeOK
    <3> QED
      BY <1>3, <3>1, <3>2, <3>3 DEF Start
  <2> QED
    BY <1>1, <2>1, <2>2
<1>4. CASE Request(l) \/ Refuse(l)
  <2>1. /\ cst[l] = "get" /\ srv[l] = "none" /\ batch'[l] = batch[l] /\ batch[l] = {}
        /\ cursor'[l] = cursor[l] /\ pos'[l] = pos[l]
    BY <1>0, <1>4 DEF Request, Refuse
  <2>2. \/ cst'[l] = "get" /\ srv'[l] = "check"
        \/ cst'[l] = "refused" /\ srv'[l] = "none"
    BY <1>0, <1>4, <2>1 DEF Request, Refuse, TypeInv, TypeOK
  <2> QED
    BY <1>0, <1>1, <2>1, <2>2
<1>5. CASE PollFault(l)
  <2>1. /\ cst[l] = "get" /\ srv'[l] = "none" /\ batch'[l] = {}
        /\ cursor'[l] = cursor[l] /\ pos'[l] = pos[l]
        /\ cst'[l] = "get" \/ cst'[l] = "raised"
    BY <1>0, <1>5 DEF PollFault, TypeInv, TypeOK
  <2> QED
    BY <1>0, <1>1, <2>1
<1>6. CASE Answer(l)
  <2>1. /\ cst[l] = "get" /\ srv'[l] = "none" /\ batch'[l] = batch[l]
        /\ cursor'[l] = cursor[l] /\ pos'[l] = pos[l]
        /\ \/ srv[l] = "204" /\ cst'[l] = "get"
           \/ srv[l] = "200" /\ cst'[l] = "yield"
           \/ srv[l] = "409" /\ cst'[l] = "trimmed"
    BY <1>0, <1>6 DEF Answer, TypeInv, TypeOK
  <2> QED
    BY <1>0, <1>1, <2>1
<1>7. CASE Yield(l)
  <2>1. PICK i \in batch[l] :
          /\ \A j \in batch[l] : i <= j
          /\ pos'[l] = i /\ batch'[l] = batch[l] \ {i}
          /\ cst[l] = "yield" /\ srv'[l] = srv[l] /\ blk'[l] = blk[l]
          /\ \/ batch[l] = {i} /\ cursor'[l] = log[i] /\ cst'[l] = "get"
             \/ batch[l] # {i} /\ cursor'[l] = cursor[l] /\ cst'[l] = "yield"
    BY <1>0, <1>7, YieldParts
  <2>2. srv[l] = "none"
    BY <1>0, <2>1
  <2>3. \A j \in batch'[l] : j > pos'[l]
    BY <1>0, <2>1
  <2>4. cst'[l] = "get" => Mark(cursor'[l], pos'[l])
    BY <1>0, <2>1 DEF Mark
  <2>5. cst'[l] # "idle" /\ srv'[l] = "none" /\ cst'[l] # "trimmed"
    BY <2>1, <2>2
  <2>6. HandlerOK(l)'
    BY <2>1, <2>5
  <2>7. CursorMark(l)'
    BY <1>1, <2>4, <2>5
  <2> QED
    BY <2>3, <2>5, <2>6, <2>7
<1> QED
  BY <1>3, <1>4, <1>5, <1>6, <1>7 DEF Client

LEMMA ServerPlaced ==
    ASSUME PollInv, NEW l \in Listeners, Server(l)
    PROVE  ListenerPlaced(l)'
<1>0. /\ log' = log /\ first' = first /\ TypeInv /\ StreamInv /\ ListenerPlaced(l)
      /\ pos[l] \in 0 .. Len(log)
  BY OneListener, Places
<1>1. \A c, p : Mark(c, p)' <=> Mark(c, p)
  BY <1>0 DEF Mark
<1>2. \A c : Newer(c)' = Newer(c)
  BY <1>0 DEF Newer, Live
<1>3. /\ cst'[l] = cst[l] /\ cursor'[l] = cursor[l] /\ pos'[l] = pos[l]
      /\ srv[l] \in {"check", "read", "blocked"} /\ cst[l] = "get" /\ batch[l] = {}
  BY <1>0 DEF Server, Check, XRead, BlockTimeout, ListenerPlaced, HandlerOK
<1>4. CursorMark(l)'
  BY <1>0, <1>1, <1>3 DEF ListenerPlaced, CursorMark
<1>5. CASE Check(l)
  <2>1. /\ batch'[l] = {} /\ srv'[l] = IF Trimmed(cursor[l]) THEN "409" ELSE "read"
    BY <1>0, <1>3, <1>5 DEF Check, TypeInv, TypeOK
  <2>2. srv'[l] = "409" => pos[l] < first
    <3>1. Trimmed(cursor[l]) => cursor[l] # Latest
      BY DEF Trimmed
    <3> QED
      BY <1>0, <1>3, <2>1, <3>1, TrimmedIsGone DEF ListenerPlaced, CursorMark
  <2> QED
    BY <1>0, <1>3, <1>4, <2>1, <2>2 DEF ListenerPlaced, HandlerOK, ReadPast, GapMark
<1>6. CASE XRead(l)
  <2> DEFINE c == Resolve(cursor[l])
  <2>1. /\ batch'[l] = Batch(c, Limit) /\ blk'[l] = c
        /\ srv'[l] = IF Newer(c) = {} THEN "blocked" ELSE "200"
    BY <1>0, <1>6 DEF XRead, TypeInv, TypeOK
  <2>2. \A i \in Newer(c) : i > pos[l]
    <3>1. CASE cursor[l] = Latest
      BY <1>0, <3>1, NothingAfterLatest DEF Resolve
    <3>2. CASE cursor[l] # Latest
      <4>1. Mark(cursor[l], pos[l]) /\ c = cursor[l]
        BY <1>0, <1>3, <3>2 DEF ListenerPlaced, CursorMark, Resolve
      <4> QED
        BY <1>0, <4>1, NewerThanMark
    <3> QED
      BY <3>1, <3>2
  <2>3. batch'[l] \subseteq Newer(c)
    BY <2>1, BatchIsNewer
  <2>4. cursor[l] # Latest => c = cursor[l]
    BY DEF Resolve
  <2> HIDE DEF c
  <2> QED
    BY <1>0, <1>2, <1>3, <1>4, <2>1, <2>2, <2>3, <2>4
    DEF ListenerPlaced, HandlerOK, ReadPast, GapMark
<1>7. CASE BlockTimeout(l)
  <2>1. batch'[l] = {} /\ srv'[l] = "204"
    BY <1>0, <1>3, <1>7 DEF BlockTimeout, TypeInv, TypeOK
  <2> QED
    BY <1>0, <1>3, <1>4, <2>1 DEF ListenerPlaced, HandlerOK, ReadPast, GapMark
<1> QED
  BY <1>5, <1>6, <1>7 DEF Server

\* A listener that does nothing in a step that leaves the stream alone.
LEMMA StillPlaced ==
    ASSUME NEW l \in Listeners, ListenerPlaced(l), UNCHANGED <<log, first>>,
           cst'[l] = cst[l], cursor'[l] = cursor[l], pos'[l] = pos[l],
           srv'[l] = srv[l], blk'[l] = blk[l], batch'[l] = batch[l]
    PROVE  ListenerPlaced(l)'
BY DEF ListenerPlaced, HandlerOK, CursorMark, ReadPast, GapMark, Mark, Newer, Live

LEMMA NextPollInv == PollInv /\ [Next]_vars => PollInv'
<1> SUFFICES ASSUME PollInv, [Next]_vars PROVE PollInv'
  OBVIOUS
<1>0. TypeInv /\ TypeInv'
  BY NextTypeInv DEF PollInv
<1> SUFFICES ASSUME NEW l \in Listeners PROVE ListenerPlaced(l)'
  BY <1>0 DEF PollInv
<1>1. CASE Vanish \/ \E n \in BatchSizes : Write(n)
  BY <1>0, <1>1, StreamStep, StreamPlaced
<1>2. CASE Client(l) \/ Server(l)
  BY <1>2, ClientPlaced, ServerPlaced
<1>3. ASSUME NEW m \in Listeners, m # l, Client(m) \/ Server(m) PROVE ListenerPlaced(l)'
  <2>1. ListenerPlaced(l)
    BY DEF PollInv
  <2> QED
    BY <1>0, <1>3, <2>1, OneListener, StillPlaced
<1>4. CASE UNCHANGED vars
  <2>1. ListenerPlaced(l)
    BY DEF PollInv
  <2> QED
    BY <1>4, <2>1, StillPlaced DEF vars, streamVars
<1> QED
  BY <1>1, <1>2, <1>3, <1>4 DEF Next

\* Whatever removes entries, and even when a deleted stream uses ids again, poll
\* answers 409 (TrimmedStreamCursor) only to a listener whose last event is gone.
THEOREM GapsAreTrue == Spec => []GapIsTrue
<1>1. PollInv => GapIsTrue
  BY DEF PollInv, ListenerPlaced, GapMark, GapIsTrue
<1> QED
  BY <1>1, InitPollInv, NextPollInv, PTL DEF Spec

-----------------------------------------------------------------------------
(* What follows on what *)

\* What a batch leaves out, below one of its events, comes at the cursor's place
\* or before, or is hidden by the event there.
LEMMA ReadLinks ==
    ASSUME NEW lg \in Seq(Id), NEW f \in 1 .. Len(lg) + 1, DatedIds(lg, f),
           NEW c \in Id, NEW p, MarkIn(lg, c, p)
    PROVE  \A i \in BatchIn(lg, f, c, Limit) : \A j \in f .. i - 1 :
             j \notin BatchIn(lg, f, c, Limit) =>
               j <= p \/ (HiddenIn(lg, p, j) /\ \A m \in BatchIn(lg, f, c, Limit) : j < m)
<1> USE PollAssumption
<1> SUFFICES ASSUME NEW i \in BatchIn(lg, f, c, Limit), NEW j \in f .. i - 1,
                    j \notin BatchIn(lg, f, c, Limit)
             PROVE  \/ j <= p
                    \/ HiddenIn(lg, p, j) /\ \A m \in BatchIn(lg, f, c, Limit) : j < m
  OBVIOUS
<1>1. Len(lg) \in Nat /\ i \in f .. Len(lg)
  BY DEF BatchIn, NewerIn
<1>2. j \in f .. Len(lg) /\ j < i
  BY <1>1
<1> QED
  BY <1>2, BatchHasNoHoles

LEMMA InitLinkInv == Init => LinkInv
<1> SUFFICES ASSUME Init PROVE LinkInv
  OBVIOUS
<1>1. PollInv /\ DatesOrKept
  BY InitPollInv, InitKept, InitDates DEF Init, DatesOrKept
<1>2. \A l \in Listeners : batch[l] = {}
  BY DEF Init
<1> QED
  BY <1>1, <1>2 DEF LinkInv, BatchLinked

LEMMA StreamLinks ==
    ASSUME LinkInv, DatesInv', Grows, NEW l \in Listeners,
           cst'[l] = cst[l], cursor'[l] = cursor[l], pos'[l] = pos[l], blk'[l] = blk[l],
           \/ srv'[l] = srv[l] /\ batch'[l] = batch[l]
           \/ /\ srv[l] = "blocked" /\ batch'[l] = Batch(blk[l], Limit)'
              /\ srv'[l] = IF batch'[l] # {} THEN "200" ELSE "blocked"
    PROVE  BatchLinked(l)'
<1>0. /\ PollInv /\ StreamInv /\ StreamInv' /\ BatchLinked(l)
  BY DEF LinkInv, DatesOrKept, DatesInv, PollInv, TypeInv, StreamInv
<1>1. /\ ListenerPlaced(l) /\ first \in Nat /\ blk[l] \in Id
  BY <1>0, Places
<1>2. CASE srv'[l] = srv[l] /\ batch'[l] = batch[l]
  <2>1. /\ first' \in Nat /\ first <= first'
        /\ \A i \in batch[l] : i \in Nat
    BY <1>0, Places DEF Grows, StreamInv, StreamType
  <2>2. \A i \in batch[l] : \A j \in first' .. i - 1 : j \in first .. i - 1
    BY <1>1, <2>1
  <2> QED
    BY <1>0, <1>2, <2>2, HiddenKept DEF BatchLinked
<1>3. CASE srv[l] = "blocked" /\ batch'[l] = Batch(blk[l], Limit)'
  <2> DEFINE B == BatchIn(log', first', blk[l], Limit)
  <2> SUFFICES ASSUME cursor[l] # Latest PROVE BatchLinked(l)'
    BY DEF BatchLinked
  <2>1. blk[l] = cursor[l] /\ Mark(cursor[l], pos[l])
    BY <1>1, <1>3 DEF ListenerPlaced, HandlerOK, CursorMark, ReadPast
  <2>2. MarkIn(log', blk[l], pos[l])
    <3>1. Mark(blk[l], pos[l])'
      BY <1>0, <2>1, MarkKept
    <3> QED
      BY <3>1 DEF Mark, MarkIn
  <2>3. batch'[l] = B
    BY <1>3 DEF Batch, Newer, Live, BatchIn, NewerIn
  <2>4. log' \in Seq(Id) /\ first' \in 1 .. Len(log') + 1 /\ DatedIds(log', first')
    BY DEF DatesInv, StreamInv, StreamType, Ascending, Live, Dates, DatedIds
  <2>5. ASSUME NEW i \in B, NEW j \in first' .. i - 1, j \notin B
        PROVE  \/ j <= pos[l]
               \/ HiddenIn(log', pos[l], j) /\ \A m \in B : j < m
    BY <1>1, <2>2, <2>4, <2>5, ReadLinks
  <2> HIDE DEF B
  <2> QED
    BY <2>3, <2>5 DEF BatchLinked, Hidden, HiddenIn, Reused
<1> QED
  BY <1>2, <1>3

LEMMA ListenerLinks ==
    ASSUME LinkInv, NEW l \in Listeners, Client(l) \/ Server(l)
    PROVE  BatchLinked(l)'
<1>0. /\ PollInv /\ DatesInv /\ TypeInv /\ ListenerPlaced(l) /\ BatchLinked(l)
      /\ log' = log /\ first' = first
      /\ first \in Nat /\ batch[l] \subseteq 1 .. Len(log) /\ Len(log) \in Nat
      /\ pos[l] \in Nat /\ cursor[l] \in Cursor
  BY Places, OneListener DEF LinkInv, DatesOrKept
<1>1. CASE \/ batch'[l] = {}
           \/ batch'[l] = batch[l] /\ cursor'[l] = cursor[l] /\ pos'[l] = pos[l]
  BY <1>0, <1>1 DEF BatchLinked, Hidden, Reused
<1>2. CASE Start(l)
  <2>1. batch'[l] = {}
    BY <1>0, <1>2 DEF Start, ListenerPlaced, HandlerOK, TypeInv, TypeOK
  <2> QED
    BY <1>1, <2>1
<1>3. CASE Request(l) \/ Refuse(l) \/ Answer(l) \/ Check(l) \/ BlockTimeout(l)
  BY <1>1, <1>3 DEF Request, Refuse, Answer, Check, BlockTimeout
<1>4. CASE PollFault(l)
  BY <1>0, <1>1, <1>4 DEF PollFault, TypeInv, TypeOK
<1>5. CASE Yield(l)
  <2>1. PICK i \in batch[l] :
          /\ \A j \in batch[l] : i <= j
          /\ pos'[l] = i /\ batch'[l] = batch[l] \ {i}
          /\ \/ batch[l] = {i} /\ cursor'[l] = log[i]
             \/ batch[l] # {i} /\ cursor'[l] = cursor[l]
    BY <1>0, <1>5, YieldParts
  <2>2. CASE batch[l] = {i}
    BY <1>1, <2>1, <2>2
  <2>3. CASE cursor'[l] = cursor[l]
    <3> SUFFICES ASSUME cursor[l] # Latest, NEW a \in batch[l], NEW j \in first .. a - 1,
                        j \notin batch[l] \ {i}
                 PROVE  j <= i
      BY <1>0, <2>1, <2>3 DEF BatchLinked
    <3>1. i \in Nat /\ i > pos[l] /\ j \in Int
      BY <1>0, <2>1 DEF ListenerPlaced, ReadPast
    <3>2. j = i \/ j <= pos[l] \/ j < i
      BY <1>0 DEF BatchLinked
    <3> QED
      BY <1>0, <3>1, <3>2
  <2> QED
    BY <2>1, <2>2, <2>3
<1>6. CASE XRead(l)
  <2>1. /\ srv[l] = "read" /\ cst[l] = "get" /\ cursor'[l] = cursor[l] /\ pos'[l] = pos[l]
        /\ batch'[l] = Batch(Resolve(cursor[l]), Limit)
    BY <1>0, <1>6 DEF XRead, ListenerPlaced, HandlerOK, TypeInv, TypeOK
  <2> DEFINE B == BatchIn(log, first, cursor[l], Limit)
  <2> SUFFICES ASSUME cursor[l] # Latest PROVE BatchLinked(l)'
    BY <2>1 DEF BatchLinked
  <2>2. batch'[l] = B
    BY <2>1 DEF Resolve, Batch, Newer, Live, BatchIn, NewerIn
  <2>3. MarkIn(log, cursor[l], pos[l]) /\ cursor[l] \in Id
    BY <1>0, <2>1 DEF ListenerPlaced, CursorMark, Mark, MarkIn, Cursor
  <2>4. log \in Seq(Id) /\ first \in 1 .. Len(log) + 1 /\ DatedIds(log, first)
    BY <1>0, DatedGrows
  <2>5. ASSUME NEW i \in B, NEW j \in first .. i - 1, j \notin B
        PROVE  \/ j <= pos[l]
               \/ HiddenIn(log, pos[l], j) /\ \A m \in B : j < m
    BY <2>3, <2>4, <2>5, ReadLinks
  <2> HIDE DEF B
  <2> QED
    BY <1>0, <2>1, <2>2, <2>5 DEF BatchLinked, Hidden, HiddenIn, Reused
<1> QED
  BY <1>2, <1>3, <1>4, <1>5, <1>6 DEF Client, Server

LEMMA NextLinkInv == LinkInv /\ [Next]_vars => LinkInv'
<1> SUFFICES ASSUME LinkInv, [Next]_vars PROVE LinkInv'
  OBVIOUS
<1>0. PollInv /\ PollInv' /\ TypeInv /\ DatesOrKept
  BY NextPollInv DEF LinkInv, PollInv
<1>1. CASE Vanish \/ \E n \in BatchSizes : Write(n)
  <2>1. DatesInv' /\ Grows
    BY <1>0, <1>1, AddKeepsDates, RemoveKeepsDates DEF Write, Vanish, DatesOrKept
  <2>3. "delete" \notin Removals => KeptInv'
    BY <1>0, <1>1, AddKeepsOrder, ExpireKeepsOrder DEF Write, Vanish, DatesOrKept
  <2>2. \A l \in Listeners : BatchLinked(l)'
    BY <1>0, <1>1, <2>1, StreamStep, StreamLinks
  <2> QED
    BY <1>0, <2>1, <2>2, <2>3 DEF LinkInv, DatesOrKept
<1>2. ASSUME NEW l \in Listeners, Client(l) \/ Server(l) PROVE LinkInv'
  <2>1. /\ log' = log /\ first' = first /\ now' = now
        /\ \A m \in Listeners : m # l =>
             cursor'[m] = cursor[m] /\ pos'[m] = pos[m] /\ batch'[m] = batch[m]
    BY <1>0, <1>2, OneListener
  <2>2. DatesOrKept'
    BY <1>0, <2>1, StreamStill
  <2>3. BatchLinked(l)'
    BY <1>2, ListenerLinks
  <2>4. \A m \in Listeners : m # l => BatchLinked(m)'
    BY <2>1 DEF LinkInv, BatchLinked, Hidden, Reused
  <2> QED
    BY <1>0, <2>2, <2>3, <2>4 DEF LinkInv
<1>3. CASE UNCHANGED vars
  <2>1. UNCHANGED <<log, first, now, cursor, pos, batch>>
    BY <1>3 DEF vars, streamVars
  <2>2. DatesOrKept'
    BY <1>0, <2>1, StreamStill
  <2> QED
    BY <1>0, <2>1, <2>2 DEF LinkInv, BatchLinked, Hidden, Reused
<1> QED
  BY <1>1, <1>2, <1>3 DEF Next

-----------------------------------------------------------------------------
(* The steps of the feed *)

LEMMA InitFeed == Init => Feed!FeedInit
<1> SUFFICES ASSUME Init PROVE Feed!FeedInit
  OBVIOUS
<1>1. Len(log) = 0 /\ first = 1 /\ pos = [l \in Listeners |-> 0]
  BY DEF Init, StreamInit
<1>2. \A l \in Listeners : Status(l) = "idle"
  BY DEF Init, Status, Ended
<1>3. [l \in Listeners |-> Status(l)] = [l \in Listeners |-> "idle"]
  BY <1>2
<1>4. Hides = {}
  BY <1>1 DEF Hides
<1> QED
  BY <1>1, <1>3, <1>4 DEF Feed!FeedInit

\* What the feed sees, when it sees nothing.
LEMMA FeedStutters ==
    ASSUME UNCHANGED <<log, first, pos>>, \A l \in Listeners : Status(l)' = Status(l)
    PROVE  UNCHANGED Feed!feedVars
<1>1. [l \in Listeners |-> Status(l)]' = [l \in Listeners |-> Status(l)]
  OBVIOUS
<1>2. Hides' = Hides
  BY DEF Hides, Reused
<1> QED
  BY <1>1, <1>2 DEF Feed!feedVars

LEMMA StreamStepFeed ==
    ASSUME TypeInv, Vanish \/ \E n \in BatchSizes : Write(n), StreamInv', Grows
    PROVE  Feed!Publish
<1>1. /\ Len(log') \in Nat /\ Len(log') >= Len(log) /\ first' \in first .. Len(log') + 1
  BY TypeHasStreamInv DEF Grows, StreamInv, StreamType
<1>2. UNCHANGED <<cst, cursor, pos>>
  BY DEF Vanish, Write
<1>3. \A l \in Listeners : Status(l)' = Status(l)
  BY <1>2 DEF Status
<1>4. [l \in Listeners |-> Status(l)]' = [l \in Listeners |-> Status(l)]
  BY <1>3
<1>5. /\ Hides \subseteq Hides'
      /\ \A h \in Hides' \ Hides : h[1] < first' /\ h[2] > Len(log)
  BY TypeHasStreamInv, HidesGrows
<1> QED
  BY <1>1, <1>2, <1>4, <1>5 DEF Feed!Publish

LEMMA ListenerStepFeed ==
    ASSUME LinkInv, NEW l \in Listeners, Client(l) \/ Server(l)
    PROVE  [Feed!FeedNext]_(Feed!feedVars)
<1> DEFINE s == [m \in Listeners |-> Status(m)]
<1>0. /\ TypeInv /\ ListenerPlaced(l) /\ BatchLinked(l)
      /\ cst \in [Listeners -> {"idle", "get", "yield"} \cup Ended]
      /\ pos \in [Listeners -> 0 .. Len(log)] /\ Len(log) \in Nat /\ log \in Seq(Id)
      /\ pos[l] \in Nat /\ first \in Nat /\ batch[l] \subseteq 1 .. Len(log)
  BY Places DEF LinkInv, TypeInv, TypeOK
<1>1. /\ log' = log /\ first' = first /\ Hides' = Hides
      /\ \A m \in Listeners : m # l => cst'[m] = cst[m] /\ cursor'[m] = cursor[m]
  <2>1. /\ log' = log /\ first' = first
        /\ \A m \in Listeners : m # l => cst'[m] = cst[m] /\ cursor'[m] = cursor[m]
    BY <1>0, OneListener
  <2> QED
    BY <2>1 DEF Hides, Reused
<1>2. \A m \in Listeners : m # l => Status(m)' = Status(m)
  BY <1>1 DEF Status
<1>3. s' = [s EXCEPT ![l] = Status(l)']
  BY <1>2
<1>4. CASE Start(l)
  <2>1. cst[l] = "idle" /\ cst'[l] = "get"
    BY <1>0, <1>4 DEF Start
  <2>2. s[l] = "idle" /\ Status(l)' \in {"listening", "latest"}
    BY <2>1 DEF Status, Ended
  <2>3. \E i \in 0 .. Len(log) : pos' = [pos EXCEPT ![l] = i]
    <3>1. CASE pos' = pos
      <4>1. pos' = [pos EXCEPT ![l] = pos[l]] /\ pos[l] \in 0 .. Len(log)
        BY <1>0, <3>1
      <4> QED
        BY <4>1
    <3>2. CASE pos' = [pos EXCEPT ![l] = Len(log)]
      <4>1. Len(log) \in 0 .. Len(log)
        BY <1>0
      <4> QED
        BY <3>2, <4>1
    <3>3. ASSUME NEW i \in 1 .. Len(log), pos' = [pos EXCEPT ![l] = i]
          PROVE  \E k \in 0 .. Len(log) : pos' = [pos EXCEPT ![l] = k]
      <4>1. i \in 0 .. Len(log)
        BY <1>0
      <4> QED
        BY <3>3, <4>1
    <3> QED
      BY <1>4, <3>1, <3>2, <3>3 DEF Start
  <2>4. Feed!Listen(l)
    BY <1>1, <1>3, <2>2, <2>3 DEF Feed!Listen
  <2> QED
    BY <2>4 DEF Feed!FeedNext
<1>5. CASE /\ UNCHANGED <<pos, cursor>>
           /\ cst'[l] = cst[l] \/ (cst[l] \in {"get", "yield"} /\ cst'[l] \in {"get", "yield"})
  <2>1. Status(l)' = Status(l)
    BY <1>5 DEF Status, Ended
  <2>2. \A m \in Listeners : Status(m)' = Status(m)
    BY <1>2, <2>1
  <2> QED
    BY <1>1, <1>5, <2>2, FeedStutters
<1>6. CASE /\ UNCHANGED <<pos, cursor>>
           /\ cst[l] = "get" /\ cst'[l] \in Ended
  <2>1. s[l] \in {"latest", "listening"} /\ Status(l)' = "ended"
    BY <1>6 DEF Status, Ended
  <2>2. Feed!End(l)
    BY <1>1, <1>3, <1>6, <2>1 DEF Feed!End
  <2> QED
    BY <2>2 DEF Feed!FeedNext
<1>7. CASE Yield(l)
  <2>1. PICK i \in batch[l] :
          /\ \A j \in batch[l] : i <= j
          /\ pos' = [pos EXCEPT ![l] = i]
          /\ cst[l] = "yield"
          /\ \/ cursor'[l] = log[i] /\ cst'[l] = "get"
             \/ cursor'[l] = cursor[l] /\ cst'[l] = "yield"
    BY <1>0, <1>7, YieldParts
  <2>2. i \in 1 .. Len(log) /\ i > pos[l] /\ log[i] # Latest
    BY <1>0, IdIsNotLatest DEF ListenerPlaced, ReadPast
  <2>3. s[l] = (IF cursor[l] = Latest THEN "latest" ELSE "listening")
    BY <2>1 DEF Status, Ended
  <2>4. Status(l)' \in {s[l], "listening"}
    BY <2>1, <2>2, <2>3 DEF Status, Ended
  <2>5. cursor[l] # Latest =>
          \A j \in pos[l] + 1 .. i - 1 : j < first \/ <<pos[l], j>> \in Hides
    <3> SUFFICES ASSUME cursor[l] # Latest, NEW j \in pos[l] + 1 .. i - 1, ~(j < first)
                 PROVE  <<pos[l], j>> \in Hides
      OBVIOUS
    <3>1. j \in first .. i - 1 /\ i \in Nat /\ j \in Nat
      BY <1>0, <2>2
    <3>2. j \notin batch[l]
      BY <1>0, <2>1, <3>1
    <3>3. j <= pos[l] \/ Hidden(pos[l], j)
      BY <1>0, <3>1, <3>2 DEF BatchLinked
    <3>4. StreamInv /\ pos[l] < j
      BY <1>0, TypeHasStreamInv
    <3> QED
      BY <1>0, <3>3, <3>4, HidesIsHidden
  <2>6. Feed!Deliver(l, i)
    BY <1>0, <1>1, <1>3, <2>1, <2>2, <2>3, <2>4, <2>5 DEF Feed!Deliver
  <2> QED
    BY <2>2, <2>6 DEF Feed!FeedNext
<1>8. CASE Request(l) \/ Server(l)
  BY <1>5, <1>8 DEF Request, Server, Check, XRead, BlockTimeout
<1>9. CASE PollFault(l) \/ Refuse(l) \/ Answer(l)
  <2>1. UNCHANGED <<pos, cursor>> /\ cst[l] = "get"
    BY <1>9 DEF PollFault, Refuse, Answer
  <2>2. cst'[l] \in Ended \/ cst'[l] \in {"get", "yield"}
    BY <1>0, <1>9 DEF PollFault, Refuse, Answer, Ended
  <2> QED
    BY <1>5, <1>6, <2>1, <2>2
<1> QED
  BY <1>4, <1>7, <1>8, <1>9 DEF Client

LEMMA StepFeed ==
    ASSUME LinkInv, [Next]_vars
    PROVE  [Feed!FeedNext]_(Feed!feedVars)
<1>0. TypeInv /\ StreamInv
  BY TypeHasStreamInv DEF LinkInv, PollInv
<1>1. CASE Vanish \/ \E n \in BatchSizes : Write(n)
  <2>1. StreamInv' /\ Grows
    BY <1>0, <1>1, AddKeeps, RemoveKeeps DEF Vanish, Write
  <2> QED
    BY <1>0, <1>1, <2>1, StreamStepFeed DEF Feed!FeedNext
<1>2. ASSUME NEW l \in Listeners, Client(l) \/ Server(l)
      PROVE  [Feed!FeedNext]_(Feed!feedVars)
  BY <1>2, ListenerStepFeed
<1>3. CASE UNCHANGED vars
  <2>1. UNCHANGED <<log, first, pos>> /\ \A l \in Listeners : Status(l)' = Status(l)
    BY <1>3 DEF vars, streamVars, Status
  <2> QED
    BY <2>1, FeedStutters
<1> QED
  BY <1>1, <1>2, <1>3 DEF Next

\* Whatever removes entries, what a listener is handed through _long_poll_events,
\* poll and Store.read is what the feed promises: it passes over an event that is
\* still in Redis only when that is hidden behind the listener's last one, however
\* many polls fail.
THEOREM Implements == Spec => ImplementsFeed
<1>1. Init => LinkInv /\ Feed!FeedInit
  BY InitLinkInv, InitFeed
<1>2. LinkInv /\ [Next]_vars => LinkInv'
  BY NextLinkInv
<1>3. LinkInv /\ [Next]_vars => [Feed!FeedNext]_(Feed!feedVars)
  BY StepFeed
<1> QED
  BY <1>1, <1>2, <1>3, PTL DEF Spec, ImplementsFeed, Feed!FeedSpec

\* Where streams are trimmed and expire but are not deleted, nothing is ever hidden.
THEOREM OnlyDeletionHides ==
    ASSUME "delete" \notin Removals
    PROVE  Spec => [](Hides = {})
<1>1. LinkInv => Hides = {}
  BY NothingHides DEF LinkInv, DatesOrKept
<1> QED
  BY <1>1, InitLinkInv, NextLinkInv, PTL DEF Spec
=============================================================================
