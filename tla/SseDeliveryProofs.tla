-------------------------- MODULE SseDeliveryProofs --------------------------
(***************************************************************************)
(* Proofs about SSE listeners, for every MaxLen, batch size, way the key   *)
(* vanishes, movement of Redis' clock, number of listeners, retry budget,  *)
(* limit and bound.  Whatever removes entries, delivery implements the     *)
(* feed of module EventFeed: what it hides while it is there lies behind a *)
(* withdrawn event, under an id that was used again, and only deletion     *)
(* brings that about.                                                      *)
(***************************************************************************)
EXTENDS SseDelivery, RedisStreamProofs, SequenceTheorems

-----------------------------------------------------------------------------
(* Type correctness *)

TypeInv == TypeOK /\ Ascending

\* A sequence over a set is one over a larger set.
LEMMA SeqWiden ==
    ASSUME NEW S, NEW T, S \subseteq T, NEW s \in Seq(S)
    PROVE  s \in Seq(T)
<1>1. Len(s) \in Nat /\ s = [i \in 1 .. Len(s) |-> s[i]] /\ \A i \in 1 .. Len(s) : s[i] \in S
  OBVIOUS
<1> QED
  BY <1>1

LEMMA TypeHasStreamInv ==
    ASSUME TypeInv
    PROVE  StreamInv
BY DEF TypeInv, TypeOK, StreamInv, StreamType

\* A step of one listener leaves the stream, and the other listeners, as they are.
LEMMA OneListener ==
    ASSUME TypeInv, NEW l \in Listeners, Client(l) \/ Server(l)
    PROVE  /\ log' = log /\ first' = first /\ now' = now
           /\ \A m \in Listeners : m # l =>
                /\ cst'[m] = cst[m] /\ cursor'[m] = cursor[m] /\ pos'[m] = pos[m]
                /\ srv'[m] = srv[m] /\ scur'[m] = scur[m] /\ blk'[m] = blk[m]
                /\ batch'[m] = batch[m] /\ checked'[m] = checked[m] /\ wire'[m] = wire[m]
<1> USE DEF TypeInv, TypeOK, streamVars, clientVars, serverVars
<1>1. CASE Start(l)
  BY <1>1 DEF Start
<1>2. CASE Connect(l) \/ Refuse(l) \/ Receive(l)
  BY <1>2 DEF Connect, Refuse, Receive
<1>3. CASE ConnectFault(l) \/ Cut(l) \/ EndResponse(l) \/ ReceiveGap(l)
  BY <1>3 DEF ConnectFault, Cut, EndResponse, ReceiveGap, Fault, CloseResponse
<1>4. CASE Check(l) \/ XRead(l) \/ BlockTimeout(l) \/ EmitGap(l)
  BY <1>4 DEF Check, XRead, BlockTimeout, EmitGap
<1>5. CASE Emit(l)
  BY <1>5 DEF Emit
<1> QED
  BY <1>1, <1>2, <1>3, <1>4, <1>5 DEF Client, Server

LEMMA InitTypeInv == Init => TypeInv
<1> SUFFICES ASSUME Init PROVE TypeInv
  OBVIOUS
<1> USE SseAssumption DEF Init, StreamInit
<1>1. log \in Seq(Id) /\ Len(log) = 0 /\ first = 1 /\ now = 1
  OBVIOUS
<1>2. Zero \in Id /\ Zero \in Cursor
  BY DEF Zero, Id, Cursor
<1>3. TypeOK
  BY <1>1, <1>2 DEF TypeOK, Ended
<1>4. Ascending
  BY <1>1 DEF Ascending, Live
<1> QED
  BY <1>3, <1>4 DEF TypeInv

\* The part of TypeOK that speaks of a listener's places in the log, when the
\* log may have grown and the listener has not moved.
LEMMA PlacesKept ==
    ASSUME TypeInv, Grows, StreamInv', UNCHANGED <<pos, checked, wire>>
    PROVE  /\ pos' \in [Listeners -> 0 .. Len(log')]
           /\ checked' \in [Listeners -> 0 .. Len(log')]
           /\ wire' \in [Listeners -> Seq(0 .. Len(log'))]
           /\ \A i : i \in 1 .. Len(log) => i \in 1 .. Len(log')
<1>1. Len(log) \in Nat /\ Len(log') \in Nat /\ Len(log) <= Len(log')
  BY DEF TypeInv, TypeOK, Grows, StreamInv, StreamType
<1>2. 0 .. Len(log) \subseteq 0 .. Len(log')
  BY <1>1
<1>3. \A l \in Listeners : wire[l] \in Seq(0 .. Len(log'))
  BY <1>2, SeqWiden DEF TypeInv, TypeOK
<1>4. wire' \in [Listeners -> Seq(0 .. Len(log'))]
  BY <1>3 DEF TypeInv, TypeOK
<1>5. /\ pos' \in [Listeners -> 0 .. Len(log')]
      /\ checked' \in [Listeners -> 0 .. Len(log')]
  BY <1>2 DEF TypeInv, TypeOK
<1> QED
  BY <1>1, <1>4, <1>5

LEMMA NextTypeInv == TypeInv /\ [Next]_vars => TypeInv'
<1> SUFFICES ASSUME TypeInv, [Next]_vars PROVE TypeInv'
  OBVIOUS
<1> USE SseAssumption
<1>0. StreamInv
  BY TypeHasStreamInv
<1>1. ASSUME NEW n \in BatchSizes, Write(n) PROVE TypeInv'
  <2>1. StreamInv' /\ Grows
    BY <1>0, <1>1, AddKeeps DEF Write
  <2>2. /\ pos' \in [Listeners -> 0 .. Len(log')]
        /\ checked' \in [Listeners -> 0 .. Len(log')]
        /\ wire' \in [Listeners -> Seq(0 .. Len(log'))]
        /\ \A i : i \in 1 .. Len(log) => i \in 1 .. Len(log')
    BY <1>1, <2>1, PlacesKept DEF Write, clientVars
  <2>3. \A c : Batch(c, Limit)' \subseteq 1 .. Len(log')
    BY <2>1 DEF Batch, Newer, Live, StreamInv, StreamType
  <2>4. batch' \in [Listeners -> SUBSET (1 .. Len(log'))]
    BY <1>1, <2>2, <2>3 DEF Write, TypeInv, TypeOK
  <2>5. /\ srv' \in [Listeners -> {"none", "check", "read", "blocked", "emit", "gap"}]
        /\ UNCHANGED <<cst, att, cursor, scur, blk, faults>>
    BY <1>1 DEF Write, clientVars, TypeInv, TypeOK
  <2> QED
    BY <2>1, <2>2, <2>4, <2>5 DEF TypeInv, TypeOK, StreamInv, StreamType
<1>2. CASE Vanish
  <2>1. StreamInv' /\ Grows
    BY <1>0, <1>2, RemoveKeeps DEF Vanish
  <2>2. /\ pos' \in [Listeners -> 0 .. Len(log')]
        /\ checked' \in [Listeners -> 0 .. Len(log')]
        /\ wire' \in [Listeners -> Seq(0 .. Len(log'))]
        /\ \A i : i \in 1 .. Len(log) => i \in 1 .. Len(log')
    BY <1>2, <2>1, PlacesKept DEF Vanish, clientVars, serverVars
  <2>3. UNCHANGED <<cst, att, cursor, srv, scur, blk, batch, faults>>
    BY <1>2 DEF Vanish, clientVars, serverVars
  <2>4. batch' \in [Listeners -> SUBSET (1 .. Len(log'))]
    BY <2>2, <2>3 DEF TypeInv, TypeOK
  <2> QED
    BY <2>1, <2>2, <2>3, <2>4 DEF TypeInv, TypeOK, StreamInv, StreamType
<1>3. ASSUME NEW l \in Listeners, Client(l) \/ Server(l) PROVE TypeInv'
  <2>0. UNCHANGED streamVars
    BY <1>3 DEF Client, Server, Start, Connect, ConnectFault, Cut, EndResponse, Refuse,
         Receive, ReceiveGap, Check, XRead, BlockTimeout, Emit, EmitGap, Fault
  <2>1. log' = log /\ first' = first /\ now' = now /\ Ascending'
    BY <2>0 DEF streamVars, TypeInv, Ascending, Live
  <2>2. /\ log \in Seq(Id) /\ Len(log) \in Nat /\ first \in 1 .. Len(log) + 1
        /\ \A i \in 1 .. Len(log) : log[i] \in Id /\ log[i] \in Cursor
        /\ Latest \in Cursor
    BY DEF TypeInv, TypeOK, Cursor
  <2>3. /\ << >> \in Seq(0 .. Len(log)) /\ {} \in SUBSET (1 .. Len(log))
        /\ \A s \in Seq(0 .. Len(log)) : \A i \in 0 .. Len(log) :
             Append(s, i) \in Seq(0 .. Len(log))
        /\ \A s \in Seq(0 .. Len(log)) : s # << >> =>
             Head(s) \in 0 .. Len(log) /\ Tail(s) \in Seq(0 .. Len(log))
    BY <2>2
  <2> USE <2>1, <2>2, <2>3 DEF TypeInv, TypeOK
  <2>4. CASE Start(l)
    <3>1. /\ cst' \in [Listeners -> {"idle", "connect", "open"} \cup Ended]
          /\ UNCHANGED <<att, srv, scur, blk, batch, checked, wire, faults>>
      BY <2>4 DEF Start, serverVars
    <3>2. /\ cursor' \in [Listeners -> Cursor]
          /\ pos' \in [Listeners -> 0 .. Len(log)]
      <4>1. CASE UNCHANGED <<cursor, pos>>
        BY <4>1
      <4>2. CASE /\ cursor' = [cursor EXCEPT ![l] = Latest]
                 /\ pos' = [pos EXCEPT ![l] = Len(log)]
        BY <4>2
      <4>3. ASSUME NEW i \in 1 .. Len(log),
                   cursor' = [cursor EXCEPT ![l] = log[i]],
                   pos' = [pos EXCEPT ![l] = i]
            PROVE  cursor' \in [Listeners -> Cursor] /\ pos' \in [Listeners -> 0 .. Len(log)]
        BY <4>3
      <4> QED
        BY <2>4, <4>1, <4>2, <4>3 DEF Start
    <3> QED
      BY <3>1, <3>2
  <2>5. CASE Connect(l)
    BY <2>5 DEF Connect
  <2>6. CASE ConnectFault(l) \/ Cut(l)
    <3>1. Fault(l)
      BY <2>6 DEF ConnectFault, Cut
    <3>2. /\ cst' \in [Listeners -> {"idle", "connect", "open"} \cup Ended]
          /\ att' \in [Listeners -> 0 .. Retries]
          /\ faults' \in 0 .. MaxFaults
      <4>1. att[l] \in 0 .. Retries /\ (att[l] < Retries => att[l] + 1 \in 0 .. Retries)
        OBVIOUS
      <4>2. faults' \in 0 .. MaxFaults
        BY <3>1 DEF Fault
      <4>3. CASE att[l] >= Retries
        BY <3>1, <4>2, <4>3 DEF Fault, Ended
      <4>4. CASE att[l] < Retries
        <5>1. ~(att[l] >= Retries)
          BY <4>1, <4>4
        <5>2. /\ cst' = [cst EXCEPT ![l] = "connect"]
              /\ att' = [att EXCEPT ![l] = att[l] + 1]
          BY <3>1, <5>1 DEF Fault
        <5>3. att[l] + 1 \in 0 .. Retries
          BY <4>1, <4>4
        <5> QED
          BY <4>2, <5>2, <5>3
      <4> QED
        BY <4>1, <4>3, <4>4
    <3>3. /\ UNCHANGED <<cursor, pos, scur, blk, checked>>
          /\ srv' = [srv EXCEPT ![l] = "none"]
          /\ batch' = [batch EXCEPT ![l] = {}]
          /\ wire' = [wire EXCEPT ![l] = << >>]
      BY <3>1 DEF Fault, CloseResponse
    <3> QED
      BY <3>2, <3>3
  <2>7. CASE EndResponse(l)
    BY <2>7 DEF EndResponse, CloseResponse
  <2>8. CASE Refuse(l)
    BY <2>8 DEF Refuse, serverVars, Ended
  <2>9. CASE Receive(l)
    <3>1. Head(wire[l]) \in 1 .. Len(log)
      BY <2>9 DEF Receive, Gap
    <3> QED
      BY <2>9, <3>1 DEF Receive, serverVars
  <2>10. CASE ReceiveGap(l)
    BY <2>10 DEF ReceiveGap, CloseResponse, Ended
  <2>11. CASE Check(l)
    <3>1. (IF Exists THEN first ELSE 0) \in 0 .. Len(log)
      BY DEF Exists
    <3> QED
      BY <2>11, <3>1 DEF Check, clientVars
  <2>12. CASE XRead(l)
    <3>1. Resolve(scur[l]) \in Id
      BY <1>0, NothingAfterLatest DEF Resolve, Cursor
    <3>2. Batch(Resolve(scur[l]), Limit) \subseteq 1 .. Len(log)
      BY DEF Batch, Newer, Live
    <3> QED
      BY <2>12, <3>1, <3>2 DEF XRead, clientVars
  <2>13. CASE BlockTimeout(l)
    BY <2>13 DEF BlockTimeout, clientVars
  <2>14. CASE Emit(l)
    <3>1. PICK i \in batch[l] :
            /\ scur' = [scur EXCEPT ![l] = log[i]]
            /\ wire' = [wire EXCEPT ![l] = Append(@, i)]
            /\ batch' = [batch EXCEPT ![l] = @ \ {i}]
            /\ srv' = [srv EXCEPT ![l] = IF batch[l] = {i} THEN "check" ELSE "emit"]
      BY <2>14 DEF Emit
    <3>2. i \in 1 .. Len(log) /\ i \in 0 .. Len(log)
      OBVIOUS
    <3>3. UNCHANGED <<cst, att, cursor, pos, blk, checked, faults>>
      BY <2>14 DEF Emit, clientVars
    <3> QED
      BY <3>1, <3>2, <3>3
  <2>15. CASE EmitGap(l)
    BY <2>15 DEF EmitGap, Gap, clientVars
  <2> QED
    BY <1>3, <2>4, <2>5, <2>6, <2>7, <2>8, <2>9, <2>10, <2>11, <2>12, <2>13, <2>14, <2>15
       DEF Client, Server
<1>4. CASE UNCHANGED vars
  BY <1>4 DEF vars, streamVars, clientVars, serverVars, TypeInv, TypeOK, Ascending, Live
<1> QED
  BY <1>1, <1>2, <1>3, <1>4 DEF Next

\* The variables of client, server and stream keep their types: in particular
\* no more than read_retries attempts are ever counted, and every place a
\* listener holds is the place of an event that was appended.
THEOREM TypeCorrect == Spec => []TypeOK
<1>1. Init => TypeInv
  BY InitTypeInv
<1>2. TypeInv /\ [Next]_vars => TypeInv'
  BY NextTypeInv
<1>3. TypeInv => TypeOK
  BY DEF TypeInv
<1> QED
  BY <1>1, <1>2, <1>3, PTL DEF Spec

-----------------------------------------------------------------------------
(* Order of delivery *)

\* Event i comes after everything listener l has been handed or has in flight.
Past(l, i) ==
    /\ i > pos[l]
    /\ \A k \in DOMAIN wire[l] : i > wire[l][k]

\* A listener without an open response has nothing in flight.
Closed(l) ==
    cst[l] # "open" => srv[l] = "none" /\ batch[l] = {} /\ wire[l] = << >>

\* The messages in flight are in order, after what the listener was handed.
WireOrder(l) ==
    /\ \A k \in DOMAIN wire[l] : wire[l][k] # Gap => wire[l][k] > pos[l]
    /\ \A k, m \in DOMAIN wire[l] :
         k < m /\ wire[l][m] # Gap => wire[l][k] < wire[l][m]

\* What a read may still return, from each cursor there is, comes after what was
\* returned before. While it is "$" a cursor says nothing: what it stands for is
\* only known when XREAD resolves it.
CursorOrder(l) ==
    /\ cursor[l] # Latest => \A i \in Newer(cursor[l]) : i > pos[l]
    /\ srv[l] # "none" /\ scur[l] # Latest => \A i \in Newer(scur[l]) : Past(l, i)
    /\ srv[l] = "blocked" => \A i \in Newer(blk[l]) : Past(l, i)
    /\ \A i \in batch[l] : Past(l, i)

ListenerOrder(l) == Closed(l) /\ WireOrder(l) /\ CursorOrder(l)

OrderInv == \A l \in Listeners : ListenerOrder(l)

LEMMA InitOrderInv == Init => OrderInv
BY DEF Init, StreamInit, OrderInv, ListenerOrder, Closed, WireOrder, CursorOrder, Past,
       Newer, Live

\* When the stream changes under a listener that holds still, what it may read
\* is what it could read before, or new.
LEMMA StreamOrder ==
    ASSUME TypeInv, StreamInv', Grows, NEW l \in Listeners, ListenerOrder(l),
           cst'[l] = cst[l], cursor'[l] = cursor[l], pos'[l] = pos[l],
           scur'[l] = scur[l], blk'[l] = blk[l], wire'[l] = wire[l],
           \/ srv'[l] = srv[l] /\ batch'[l] = batch[l]
           \/ srv[l] = "blocked" /\ srv'[l] \in {"blocked", "emit"} /\ batch'[l] \subseteq Newer(blk[l])'
    PROVE  ListenerOrder(l)'
<1>0. StreamInv /\ Len(log) \in Nat /\ pos[l] \in 0 .. Len(log) /\ wire[l] \in Seq(0 .. Len(log))
  BY TypeHasStreamInv DEF TypeInv, TypeOK
<1>1. \A i : i \in Nat /\ i > Len(log) => Past(l, i) /\ i > pos[l]
  BY <1>0 DEF Past
<1>2. \A c : \A i \in Newer(c)' : i \in Newer(c) \/ (i \in Nat /\ i > Len(log))
  <2> SUFFICES ASSUME NEW c, NEW i \in Newer(c)'
               PROVE  i \in Newer(c) \/ (i \in Nat /\ i > Len(log))
    OBVIOUS
  <2>1. i \in Newer(c) \/ i > Len(log)
    BY <1>0, NewerGrows
  <2>2. i \in Nat
    BY DEF Newer, Live, StreamInv, StreamType
  <2> QED
    BY <2>1, <2>2
<1>3. \A i : Past(l, i)' <=> Past(l, i)
  BY DEF Past
<1>4. Closed(l)'
  BY DEF ListenerOrder, Closed
<1>5. WireOrder(l)'
  BY DEF ListenerOrder, WireOrder
<1>6. CursorOrder(l)'
  <2>1. (cursor[l] # Latest => \A i \in Newer(cursor[l]) : i > pos[l])'
    BY <1>1, <1>2 DEF ListenerOrder, CursorOrder
  <2>2. (srv[l] # "none" /\ scur[l] # Latest => \A i \in Newer(scur[l]) : Past(l, i))'
    BY <1>1, <1>2, <1>3 DEF ListenerOrder, CursorOrder
  <2>3. srv[l] = "blocked" => \A i \in Newer(blk[l])' : Past(l, i)'
    BY <1>1, <1>2, <1>3 DEF ListenerOrder, CursorOrder
  <2>4. (srv[l] = "blocked" => \A i \in Newer(blk[l]) : Past(l, i))'
    BY <2>3
  <2>5. (\A i \in batch[l] : Past(l, i))'
    BY <1>3, <2>3 DEF ListenerOrder, CursorOrder
  <2> QED
    BY <2>1, <2>2, <2>4, <2>5 DEF CursorOrder
<1> QED
  BY <1>4, <1>5, <1>6 DEF ListenerOrder

\* A step of one listener leaves the others as they are.
LEMMA OthersKeep ==
    ASSUME TypeInv, NEW l \in Listeners, Client(l) \/ Server(l),
           NEW m \in Listeners, m # l, ListenerOrder(m)
    PROVE  ListenerOrder(m)'
<1>1. /\ cst'[m] = cst[m] /\ cursor'[m] = cursor[m] /\ pos'[m] = pos[m]
      /\ srv'[m] = srv[m] /\ scur'[m] = scur[m] /\ blk'[m] = blk[m]
      /\ batch'[m] = batch[m] /\ wire'[m] = wire[m] /\ log' = log /\ first' = first
  BY OneListener
<1> QED
  BY <1>1 DEF ListenerOrder, Closed, WireOrder, CursorOrder, Past, Newer, Live

\* A response that closes takes everything in flight with it.
LEMMA CloseOrder ==
    ASSUME TypeInv, NEW l \in Listeners, ListenerOrder(l), CloseResponse(l),
           UNCHANGED <<streamVars, cursor, pos>>
    PROVE  ListenerOrder(l)'
<1>1. srv'[l] = "none" /\ batch'[l] = {} /\ wire'[l] = << >>
  BY DEF CloseResponse, TypeInv, TypeOK
<1>2. cursor'[l] = cursor[l] /\ pos'[l] = pos[l] /\ log' = log /\ first' = first
  BY DEF streamVars
<1>3. DOMAIN wire'[l] = {}
  BY <1>1
<1>4. Closed(l)' /\ WireOrder(l)'
  BY <1>1, <1>3 DEF Closed, WireOrder
<1> QED
  BY <1>1, <1>2, <1>4 DEF ListenerOrder, CursorOrder, Newer, Live

\* The steps that neither read nor write events.
LEMMA PlainOrder ==
    ASSUME TypeInv, NEW l \in Listeners, ListenerOrder(l),
           Connect(l) \/ Refuse(l) \/ Check(l) \/ BlockTimeout(l)
    PROVE  ListenerOrder(l)'
<1>1. /\ UNCHANGED <<log, first>> /\ cursor'[l] = cursor[l] /\ pos'[l] = pos[l]
      /\ wire'[l] = wire[l] /\ batch'[l] = batch[l] /\ blk'[l] = blk[l]
      /\ srv'[l] # "blocked"
  BY DEF Connect, Refuse, Check, BlockTimeout, streamVars, clientVars, serverVars,
         ListenerOrder, Closed, TypeInv, TypeOK
<1>2. \A i : Past(l, i)' <=> Past(l, i)
  BY <1>1 DEF Past
<1>3. \A c : Newer(c)' = Newer(c)
  BY <1>1 DEF Newer, Live
<1>4. Closed(l)'
  BY DEF Connect, Refuse, Check, BlockTimeout, clientVars, serverVars,
         ListenerOrder, Closed, TypeInv, TypeOK
<1>5. WireOrder(l)'
  BY <1>1 DEF ListenerOrder, WireOrder
<1>6. srv'[l] # "none" /\ scur'[l] # Latest => \A i \in Newer(scur'[l]) : Past(l, i)
  <2>1. CASE Connect(l)
    <3>1. scur'[l] = cursor[l] /\ cst[l] = "connect"
      BY <2>1 DEF Connect, TypeInv, TypeOK
    <3>2. \A i : i > pos[l] => Past(l, i)
      BY <3>1 DEF ListenerOrder, Closed, Past
    <3> QED
      BY <3>1, <3>2 DEF ListenerOrder, CursorOrder
  <2>2. CASE Refuse(l) \/ Check(l) \/ BlockTimeout(l)
    <3>1. scur'[l] = scur[l] /\ (srv'[l] # "none" => srv[l] # "none")
      BY <2>2 DEF Refuse, Check, BlockTimeout, clientVars, serverVars, TypeInv, TypeOK
    <3> QED
      BY <3>1 DEF ListenerOrder, CursorOrder
  <2> QED
    BY <2>1, <2>2
<1>7. CursorOrder(l)'
  BY <1>1, <1>2, <1>3, <1>6 DEF ListenerOrder, CursorOrder
<1> QED
  BY <1>4, <1>5, <1>7 DEF ListenerOrder

\* A listener starts from nothing, from the end, or from an event it names.
LEMMA StartOrder ==
    ASSUME TypeInv, NEW l \in Listeners, ListenerOrder(l), Start(l)
    PROVE  ListenerOrder(l)'
<1>0. StreamInv
  BY TypeHasStreamInv
<1>1. /\ UNCHANGED <<log, first>> /\ cst[l] = "idle" /\ cst'[l] = "connect"
      /\ srv'[l] = srv[l] /\ batch'[l] = batch[l] /\ wire'[l] = wire[l]
  BY DEF Start, streamVars, serverVars, TypeInv, TypeOK
<1>2. srv'[l] = "none" /\ batch'[l] = {} /\ wire'[l] = << >> /\ DOMAIN wire'[l] = {}
  BY <1>1 DEF ListenerOrder, Closed
<1>3. Closed(l)' /\ WireOrder(l)'
  BY <1>2 DEF Closed, WireOrder
<1>4. cursor'[l] # Latest => \A i \in Newer(cursor'[l]) : i > pos'[l]
  <2>1. CASE UNCHANGED <<cursor, pos>>
    BY <2>1 DEF ListenerOrder, CursorOrder
  <2>2. CASE cursor' = [cursor EXCEPT ![l] = Latest]
    BY <2>2 DEF TypeInv, TypeOK
  <2>3. ASSUME NEW p \in 1 .. Len(log),
               cursor' = [cursor EXCEPT ![l] = log[p]],
               pos' = [pos EXCEPT ![l] = p]
        PROVE  \A i \in Newer(cursor'[l]) : i > pos'[l]
    <3>1. cursor'[l] = log[p] /\ pos'[l] = p
      BY <2>3 DEF TypeInv, TypeOK
    <3> QED
      BY <1>0, <3>1, NewerThanEvent
  <2> QED
    BY <2>1, <2>2, <2>3 DEF Start
<1>5. \A c : Newer(c)' = Newer(c)
  BY <1>1 DEF Newer, Live
<1>6. CursorOrder(l)'
  BY <1>2, <1>4, <1>5 DEF CursorOrder
<1> QED
  BY <1>3, <1>6 DEF ListenerOrder

\* The message a listener takes was the first in flight: all others are later.
LEMMA ReceiveOrder ==
    ASSUME TypeInv, NEW l \in Listeners, ListenerOrder(l), Receive(l)
    PROVE  ListenerOrder(l)' /\ pos'[l] > pos[l]
<1>0. StreamInv
  BY TypeHasStreamInv
<1> DEFINE w == wire[l]
<1>1. /\ w \in Seq(0 .. Len(log)) /\ Len(log) \in Nat /\ w # << >>
      /\ pos[l] \in 0 .. Len(log)
  BY DEF Receive, TypeInv, TypeOK
<1>2. /\ UNCHANGED <<log, first>> /\ cst'[l] = cst[l] /\ cst[l] = "open"
      /\ cursor'[l] = log[w[1]] /\ pos'[l] = w[1] /\ wire'[l] = Tail(w)
      /\ w[1] # Gap /\ w[1] \in 1 .. Len(log)
      /\ srv'[l] = srv[l] /\ scur'[l] = scur[l] /\ blk'[l] = blk[l] /\ batch'[l] = batch[l]
  BY <1>1 DEF Receive, Gap, streamVars, serverVars, TypeInv, TypeOK
<1>3. /\ 1 \in DOMAIN w
      /\ \A k \in DOMAIN wire'[l] : k + 1 \in DOMAIN w /\ wire'[l][k] = w[k + 1] /\ k \in Nat /\ k >= 1
  BY <1>1, <1>2
<1>4. pos'[l] > pos[l]
  BY <1>2, <1>3 DEF ListenerOrder, WireOrder
<1>5. Closed(l)'
  BY <1>2 DEF Closed
<1>6. WireOrder(l)'
  <2>1. \A k \in DOMAIN wire'[l] : wire'[l][k] # Gap => wire'[l][k] > pos'[l]
    <3> SUFFICES ASSUME NEW k \in DOMAIN wire'[l], wire'[l][k] # Gap
                 PROVE  wire'[l][k] > pos'[l]
      OBVIOUS
    <3>1. w[1] < w[k + 1]
      BY <1>3 DEF ListenerOrder, WireOrder
    <3>2. w[k + 1] \in 0 .. Len(log)
      BY <1>1, <1>3
    <3> QED
      BY <1>1, <1>2, <1>3, <3>1, <3>2
  <2>2. \A k, m \in DOMAIN wire'[l] :
          k < m /\ wire'[l][m] # Gap => wire'[l][k] < wire'[l][m]
    BY <1>3 DEF ListenerOrder, WireOrder
  <2> QED
    BY <2>1, <2>2 DEF WireOrder, Gap
<1>7. \A i : Past(l, i) => Past(l, i)'
  <2> SUFFICES ASSUME NEW i, Past(l, i) PROVE Past(l, i)'
    OBVIOUS
  <2>1. i > w[1] /\ \A k \in DOMAIN wire'[l] : i > w[k + 1]
    BY <1>3 DEF Past
  <2> QED
    BY <1>2, <1>3, <2>1 DEF Past
<1>8. \A c : Newer(c)' = Newer(c)
  BY <1>2 DEF Newer, Live
<1>9. \A i \in Newer(cursor'[l]) : i > pos'[l]
  BY <1>0, <1>2, NewerThanEvent
<1>10. CursorOrder(l)'
  BY <1>2, <1>7, <1>8, <1>9 DEF ListenerOrder, CursorOrder
<1> QED
  BY <1>4, <1>5, <1>6, <1>10 DEF ListenerOrder

\* A read returns what is newer than its cursor, and "$" stands for the end.
LEMMA XReadOrder ==
    ASSUME TypeInv, NEW l \in Listeners, ListenerOrder(l), XRead(l)
    PROVE  ListenerOrder(l)'
<1>0. StreamInv
  BY TypeHasStreamInv
<1> DEFINE c == Resolve(scur[l])
<1>1. /\ UNCHANGED <<log, first>> /\ cst'[l] = cst[l] /\ cursor'[l] = cursor[l]
      /\ pos'[l] = pos[l] /\ wire'[l] = wire[l] /\ scur'[l] = scur[l]
      /\ srv[l] = "read" /\ srv'[l] # "none"
      /\ batch'[l] = Batch(c, Limit) /\ blk'[l] = c
  BY DEF XRead, streamVars, clientVars, TypeInv, TypeOK
<1>2. \A i \in Newer(c) : Past(l, i)
  BY <1>0, <1>1, NothingAfterLatest DEF Resolve, ListenerOrder, CursorOrder
<1>3. Batch(c, Limit) \subseteq Newer(c)
  BY BatchIsNewer
<1>4. \A i : Past(l, i)' <=> Past(l, i)
  BY <1>1 DEF Past
<1>5. \A d : Newer(d)' = Newer(d)
  BY <1>1 DEF Newer, Live
<1>6. cst[l] = "open"
  BY <1>1 DEF ListenerOrder, Closed
<1>7. Closed(l)' /\ WireOrder(l)'
  BY <1>1, <1>6 DEF ListenerOrder, Closed, WireOrder
<1>8. CursorOrder(l)'
  BY <1>1, <1>2, <1>3, <1>4, <1>5 DEF ListenerOrder, CursorOrder
<1> QED
  BY <1>7, <1>8 DEF ListenerOrder

\* The event written is the earliest of the batch, and the next read starts
\* after it.
LEMMA EmitOrder ==
    ASSUME TypeInv, NEW l \in Listeners, ListenerOrder(l), Emit(l)
    PROVE  ListenerOrder(l)'
<1>0. StreamInv
  BY TypeHasStreamInv
<1> DEFINE w == wire[l]
<1>1. PICK i \in batch[l] :
        /\ \A j \in batch[l] : i <= j
        /\ scur' = [scur EXCEPT ![l] = log[i]]
        /\ wire' = [wire EXCEPT ![l] = Append(@, i)]
        /\ batch' = [batch EXCEPT ![l] = @ \ {i}]
        /\ srv' = [srv EXCEPT ![l] = IF batch[l] = {i} THEN "check" ELSE "emit"]
  BY DEF Emit
<1>2. /\ w \in Seq(0 .. Len(log)) /\ Len(log) \in Nat
      /\ batch[l] \subseteq 1 .. Len(log) /\ i \in 1 .. Len(log)
  BY DEF TypeInv, TypeOK
<1>3. /\ UNCHANGED <<log, first>> /\ cst'[l] = cst[l] /\ cursor'[l] = cursor[l]
      /\ pos'[l] = pos[l] /\ srv[l] = "emit" /\ srv'[l] # "none" /\ srv'[l] # "blocked"
      /\ scur'[l] = log[i] /\ wire'[l] = Append(w, i) /\ batch'[l] = batch[l] \ {i}
  BY <1>1 DEF Emit, streamVars, clientVars, TypeInv, TypeOK
<1>4. /\ DOMAIN wire'[l] = 1 .. Len(w) + 1 /\ DOMAIN w = 1 .. Len(w) /\ Len(w) \in Nat
      /\ wire'[l][Len(w) + 1] = i
      /\ \A k \in 1 .. Len(w) : wire'[l][k] = w[k]
  BY <1>2, <1>3
<1>5. Past(l, i) /\ \A j \in batch[l] : Past(l, j)
  BY DEF ListenerOrder, CursorOrder
<1>6. \A j \in Int : j > i => Past(l, j)'
  <2> SUFFICES ASSUME NEW j \in Int, j > i PROVE Past(l, j)'
    OBVIOUS
  <2>1. j > pos[l]
    BY <1>2, <1>5 DEF Past, TypeInv, TypeOK
  <2>2. \A k \in 1 .. Len(w) : j > w[k]
    BY <1>2, <1>4, <1>5 DEF Past
  <2> QED
    BY <1>2, <1>3, <1>4, <2>1, <2>2 DEF Past
<1>7. Closed(l)'
  BY <1>3 DEF ListenerOrder, Closed
<1>8. WireOrder(l)'
  <2>1. \A k \in DOMAIN wire'[l] : wire'[l][k] # Gap => wire'[l][k] > pos'[l]
    BY <1>3, <1>4, <1>5 DEF ListenerOrder, WireOrder, Past
  <2>2. \A k, m \in DOMAIN wire'[l] :
          k < m /\ wire'[l][m] # Gap => wire'[l][k] < wire'[l][m]
    <3> SUFFICES ASSUME NEW k \in DOMAIN wire'[l], NEW m \in DOMAIN wire'[l],
                        k < m, wire'[l][m] # Gap
                 PROVE  wire'[l][k] < wire'[l][m]
      OBVIOUS
    <3>1. k \in 1 .. Len(w)
      BY <1>4
    <3>2. CASE m \in 1 .. Len(w)
      BY <1>4, <3>1, <3>2 DEF ListenerOrder, WireOrder
    <3>3. CASE m = Len(w) + 1
      BY <1>2, <1>4, <1>5, <3>1, <3>3 DEF Past
    <3> QED
      BY <1>4, <3>2, <3>3
  <2> QED
    BY <2>1, <2>2 DEF WireOrder, Gap
<1>9. \A c : Newer(c)' = Newer(c) /\ Newer(c) \subseteq Int
  BY <1>0, <1>3 DEF Newer, Live, StreamInv, StreamType
<1>10. \A j \in Newer(log[i]) : Past(l, j)'
  BY <1>0, <1>2, <1>6, <1>9, NewerThanEvent
<1>11. \A j \in batch'[l] : Past(l, j)'
  BY <1>1, <1>2, <1>3, <1>6
<1>12. CursorOrder(l)'
  BY <1>3, <1>9, <1>10, <1>11 DEF ListenerOrder, CursorOrder
<1> QED
  BY <1>7, <1>8, <1>12 DEF ListenerOrder

\* A gap is the last message of its generator.
LEMMA EmitGapOrder ==
    ASSUME TypeInv, NEW l \in Listeners, ListenerOrder(l), EmitGap(l)
    PROVE  ListenerOrder(l)'
<1> DEFINE w == wire[l]
<1>1. /\ w \in Seq(0 .. Len(log)) /\ Len(log) \in Nat /\ batch[l] \subseteq 1 .. Len(log)
  BY DEF TypeInv, TypeOK
<1>2. /\ UNCHANGED <<log, first>> /\ cst'[l] = cst[l] /\ cursor'[l] = cursor[l]
      /\ pos'[l] = pos[l] /\ srv[l] = "gap" /\ srv'[l] = "none"
      /\ wire'[l] = Append(w, Gap) /\ batch'[l] = batch[l]
  BY DEF EmitGap, streamVars, clientVars, TypeInv, TypeOK
<1>3. /\ DOMAIN wire'[l] = 1 .. Len(w) + 1 /\ DOMAIN w = 1 .. Len(w) /\ Len(w) \in Nat
      /\ wire'[l][Len(w) + 1] = Gap
      /\ \A k \in 1 .. Len(w) : wire'[l][k] = w[k]
  BY <1>1, <1>2 DEF Gap
<1>4. Closed(l)'
  BY <1>2 DEF ListenerOrder, Closed
<1>5. WireOrder(l)'
  BY <1>2, <1>3 DEF ListenerOrder, WireOrder, Gap
<1>6. \A j \in batch[l] : Past(l, j)'
  BY <1>1, <1>2, <1>3 DEF ListenerOrder, CursorOrder, Past, Gap
<1>7. \A c : Newer(c)' = Newer(c)
  BY <1>2 DEF Newer, Live
<1>8. CursorOrder(l)'
  BY <1>2, <1>6, <1>7 DEF ListenerOrder, CursorOrder
<1> QED
  BY <1>4, <1>5, <1>8 DEF ListenerOrder

\* One step of one listener: it keeps the order and moves the listener forward.
LEMMA OwnStepOrder ==
    ASSUME TypeInv, NEW l \in Listeners, ListenerOrder(l), Client(l) \/ Server(l)
    PROVE  /\ ListenerOrder(l)'
           /\ cst[l] # "idle" => pos'[l] = pos[l] \/ pos'[l] > pos[l]
<1>1. CASE Start(l)
  BY <1>1, StartOrder DEF Start
<1>2. CASE Connect(l) \/ Refuse(l) \/ Check(l) \/ BlockTimeout(l)
  BY <1>2, PlainOrder DEF Connect, Refuse, Check, BlockTimeout, clientVars
<1>3. CASE ConnectFault(l) \/ Cut(l) \/ EndResponse(l) \/ ReceiveGap(l)
  <2>1. CloseResponse(l) /\ UNCHANGED <<streamVars, cursor, pos>>
    BY <1>3 DEF ConnectFault, Cut, EndResponse, ReceiveGap, Fault
  <2> QED
    BY <2>1, CloseOrder
<1>4. CASE Receive(l)
  BY <1>4, ReceiveOrder
<1>5. CASE XRead(l)
  BY <1>5, XReadOrder DEF XRead, clientVars
<1>6. CASE Emit(l)
  BY <1>6, EmitOrder DEF Emit, clientVars
<1>7. CASE EmitGap(l)
  BY <1>7, EmitGapOrder DEF EmitGap, clientVars
<1> QED
  BY <1>1, <1>2, <1>3, <1>4, <1>5, <1>6, <1>7 DEF Client, Server

\* The writers and the expiry of the key touch no listener's places.
LEMMA StreamStepOrder ==
    ASSUME TypeInv, NEW l \in Listeners, ListenerOrder(l),
           Vanish \/ \E n \in BatchSizes : Write(n)
    PROVE  ListenerOrder(l)' /\ pos' = pos
<1>0. StreamInv
  BY TypeHasStreamInv
<1>1. CASE Vanish
  <2>1. StreamInv' /\ Grows
    BY <1>0, <1>1, RemoveKeeps DEF Vanish
  <2>2. UNCHANGED <<clientVars, serverVars, wire>>
    BY <1>1 DEF Vanish
  <2> QED
    BY <2>1, <2>2, StreamOrder DEF clientVars, serverVars
<1>2. ASSUME NEW n \in BatchSizes, Write(n) PROVE ListenerOrder(l)' /\ pos' = pos
  <2>1. StreamInv' /\ Grows
    BY <1>0, <1>2, AddKeeps DEF Write
  <2>2. UNCHANGED <<clientVars, scur, blk, wire>>
    BY <1>2 DEF Write
  <2>3. CASE srv[l] # "blocked"
    <3>1. srv'[l] = srv[l] /\ batch'[l] = batch[l]
      BY <1>2, <2>3 DEF Write
    <3> QED
      BY <2>1, <2>2, <3>1, StreamOrder DEF clientVars
  <2>4. CASE srv[l] = "blocked"
    <3>1. batch'[l] = Batch(blk[l], Limit)' /\ srv'[l] \in {"blocked", "emit"}
      BY <1>2, <2>4 DEF Write
    <3>2. batch'[l] \subseteq Newer(blk[l])'
      BY <3>1 DEF Batch
    <3> QED
      BY <2>1, <2>2, <2>4, <3>1, <3>2, StreamOrder DEF clientVars
  <2> QED
    BY <2>3, <2>4
<1> QED
  BY <1>1, <1>2

LEMMA NextOrderInv == TypeInv /\ OrderInv /\ [Next]_vars => OrderInv'
<1> SUFFICES ASSUME TypeInv, OrderInv, [Next]_vars, NEW l \in Listeners
             PROVE  ListenerOrder(l)'
  BY DEF OrderInv
<1>1. ListenerOrder(l)
  BY DEF OrderInv
<1>2. CASE Vanish \/ \E n \in BatchSizes : Write(n)
  BY <1>1, <1>2, StreamStepOrder
<1>3. ASSUME NEW m \in Listeners, Client(m) \/ Server(m) PROVE ListenerOrder(l)'
  BY <1>1, <1>3, OwnStepOrder, OthersKeep
<1>4. CASE UNCHANGED vars
  BY <1>1, <1>4 DEF vars, streamVars, clientVars, serverVars, ListenerOrder, Closed,
     WireOrder, CursorOrder, Past, Newer, Live
<1> QED
  BY <1>2, <1>3, <1>4 DEF Next

-----------------------------------------------------------------------------
(* Where client and server are *)

\* The place event_stream has reached: the last event written, or the client's.
Tip(l) == IF wire[l] = << >> THEN pos[l] ELSE wire[l][Len(wire[l])]

\* The client's cursor is "$", or tells its place.
ClientMark(l) ==
    /\ cursor[l] = Latest \/ Mark(cursor[l], pos[l])
    /\ cst[l] = "idle" => cursor[l] = Zero /\ pos[l] = 0

\* The cursor of a running generator is the id of the last event in flight, or the
\* client's; a blocked XREAD waits from there.
ServerMark(l) ==
    srv[l] # "none" =>
      /\ \A k \in DOMAIN wire[l] : wire[l][k] # Gap
      /\ scur[l] = IF wire[l] = << >> THEN cursor[l] ELSE log[Tip(l)]
      /\ srv[l] = "blocked" /\ scur[l] # Latest => blk[l] = scur[l]

\* A gap is the last message of its response, and is about an event that is gone.
GapMark(l) ==
    /\ \A k \in DOMAIN wire[l] : wire[l][k] = Gap => k = Len(wire[l])
    /\ srv[l] = "gap" => Tip(l) < first
    /\ wire[l] # << >> /\ Tip(l) = Gap =>
         /\ Sent(l) < first
         /\ scur[l] = IF Len(wire[l]) = 1 THEN cursor[l] ELSE log[Sent(l)]
    /\ cst[l] = "trimmed" => pos[l] < first /\ cursor[l] = scur[l]

ListenerMarked(l) == ClientMark(l) /\ ServerMark(l) /\ GapMark(l)

MarkInv == TypeInv /\ OrderInv /\ \A l \in Listeners : ListenerMarked(l)

LEMMA InitMarkInv == Init => MarkInv
<1> SUFFICES ASSUME Init PROVE MarkInv
  OBVIOUS
<1>1. TypeInv /\ OrderInv
  BY InitTypeInv, InitOrderInv
<1>2. ASSUME NEW l \in Listeners PROVE ListenerMarked(l)
  <2>1. /\ cursor[l] = Zero /\ pos[l] = 0 /\ srv[l] = "none" /\ wire[l] = << >>
        /\ cst[l] = "idle" /\ DOMAIN wire[l] = {}
    BY DEF Init
  <2> QED
    BY <2>1 DEF ListenerMarked, ClientMark, ServerMark, GapMark, Mark
<1> QED
  BY <1>1, <1>2 DEF MarkInv

\* The facts about one listener that the steps below need.
LEMMA Places ==
    ASSUME MarkInv, NEW l \in Listeners
    PROVE  /\ log \in Seq(Id) /\ Len(log) \in Nat /\ first \in 1 .. Len(log) + 1
           /\ first \in Nat
           /\ pos[l] \in 0 .. Len(log) /\ wire[l] \in Seq(0 .. Len(log))
           /\ batch[l] \subseteq 1 .. Len(log) /\ scur[l] \in Cursor /\ cursor[l] \in Cursor
           /\ Tip(l) \in 0 .. Len(log) /\ Tip(l) \in Nat
           /\ ListenerOrder(l) /\ ListenerMarked(l) /\ TypeInv /\ StreamInv
<1>1. /\ TypeInv /\ OrderInv /\ ListenerMarked(l)
      /\ pos[l] \in 0 .. Len(log) /\ wire[l] \in Seq(0 .. Len(log))
      /\ batch[l] \subseteq 1 .. Len(log) /\ scur[l] \in Cursor /\ cursor[l] \in Cursor
  BY DEF MarkInv, TypeInv, TypeOK
<1>2. StreamInv /\ ListenerOrder(l)
  BY <1>1, TypeHasStreamInv DEF OrderInv
<1>3. log \in Seq(Id) /\ Len(log) \in Nat /\ first \in 1 .. Len(log) + 1 /\ first \in Nat
  BY <1>2 DEF StreamInv, StreamType
<1>4. Tip(l) \in 0 .. Len(log) /\ Tip(l) \in Nat
  BY <1>1, <1>3 DEF Tip
<1> QED
  BY <1>1, <1>2, <1>3, <1>4

\* The last two places of a response.
LEMMA LastPlaces ==
    ASSUME NEW n \in Nat, NEW w \in Seq(0 .. n), w # << >>
    PROVE  /\ w[Len(w)] \in 0 .. n
           /\ Len(w) # 1 =>
                Len(w) > 1 /\ Len(w) - 1 \in DOMAIN w /\ w[Len(w) - 1] \in 0 .. n
           /\ Len(w) = 1 => ~(Len(w) > 1)
<1>1. /\ Len(w) \in Nat /\ Len(w) >= 1 /\ DOMAIN w = 1 .. Len(w)
      /\ \A k \in 1 .. Len(w) : w[k] \in 0 .. n
  OBVIOUS
<1>2. Len(w) \in 1 .. Len(w) /\ (Len(w) # 1 => Len(w) - 1 \in 1 .. Len(w) /\ Len(w) > 1)
  BY <1>1
<1> QED
  BY <1>1, <1>2

\* The place a response has got to: with a gap at its end, the event before it.
LEMMA SentPlace ==
    ASSUME NEW l \in Listeners, NEW n \in Nat, wire[l] \in Seq(0 .. n), pos[l] \in 0 .. n
    PROVE  /\ Sent(l) \in 0 .. n
           /\ wire[l] = << >> => Sent(l) = pos[l]
           /\ wire[l] # << >> =>
                /\ wire[l][Len(wire[l])] # Gap => Sent(l) = wire[l][Len(wire[l])]
                /\ wire[l][Len(wire[l])] = Gap /\ Len(wire[l]) = 1 => Sent(l) = pos[l]
                /\ wire[l][Len(wire[l])] = Gap /\ Len(wire[l]) # 1 =>
                     /\ Sent(l) = wire[l][Len(wire[l]) - 1]
                     /\ Len(wire[l]) - 1 \in DOMAIN wire[l]
<1> DEFINE w == wire[l]
<1>1. CASE w = << >>
  <2>1. ~(Len(w) > 1)
    BY <1>1
  <2>2. Sent(l) = pos[l]
    BY <1>1, <2>1 DEF Sent
  <2> QED
    BY <1>1, <2>2
<1>2. CASE w # << >>
  <2>1. w \in Seq(0 .. n) /\ w # << >>
    BY <1>2
  <2>2. Sent(l) = IF w[Len(w)] = Gap
                  THEN IF Len(w) > 1 THEN w[Len(w) - 1] ELSE pos[l]
                  ELSE w[Len(w)]
    BY <1>2 DEF Sent
  <2> HIDE DEF w
  <2>3. /\ w[Len(w)] \in 0 .. n
        /\ Len(w) # 1 =>
             Len(w) > 1 /\ Len(w) - 1 \in DOMAIN w /\ w[Len(w) - 1] \in 0 .. n
        /\ Len(w) = 1 => ~(Len(w) > 1)
    BY <2>1, LastPlaces
  <2>4. /\ w[Len(w)] # Gap => Sent(l) = w[Len(w)]
        /\ w[Len(w)] = Gap /\ Len(w) = 1 => Sent(l) = pos[l]
        /\ w[Len(w)] = Gap /\ Len(w) # 1 =>
             Sent(l) = w[Len(w) - 1] /\ Len(w) - 1 \in DOMAIN w
    BY <2>2, <2>3
  <2>5. Sent(l) \in 0 .. n
    BY <2>3, <2>4
  <2> QED
    BY <1>2, <2>4, <2>5 DEF w
<1> QED
  BY <1>1, <1>2

\* While a generator runs, its cursor is "$", and then nothing was written yet, or
\* tells the place the response has got to.
LEMMA ServerPlace ==
    ASSUME MarkInv, NEW l \in Listeners, srv[l] # "none"
    PROVE  /\ scur[l] = Latest => cursor[l] = Latest /\ wire[l] = << >>
           /\ scur[l] # Latest => Mark(scur[l], Tip(l))
           /\ Sent(l) = Tip(l)
           /\ cst[l] = "open"
<1> DEFINE w == wire[l]
<1>0. /\ w \in Seq(0 .. Len(log)) /\ Len(log) \in Nat /\ pos[l] \in 0 .. Len(log)
      /\ log \in Seq(Id) /\ ListenerMarked(l) /\ ListenerOrder(l)
  BY Places
<1>1. /\ \A k \in DOMAIN w : w[k] # Gap
      /\ scur[l] = IF w = << >> THEN cursor[l] ELSE log[Tip(l)]
      /\ cursor[l] = Latest \/ Mark(cursor[l], pos[l])
  BY <1>0 DEF ListenerMarked, ServerMark, ClientMark
<1>2. cst[l] = "open"
  BY <1>0 DEF ListenerOrder, Closed
<1>3. CASE w = << >>
  BY <1>0, <1>1, <1>2, <1>3, SentPlace DEF Tip
<1>4. CASE w # << >>
  <2>1. Len(w) \in DOMAIN w /\ w[Len(w)] \in 0 .. Len(log)
    BY <1>0, <1>4
  <2>2. Tip(l) = w[Len(w)] /\ Tip(l) \in 1 .. Len(log)
    BY <1>0, <1>1, <1>4, <2>1 DEF Tip, Gap
  <2>3. log[Tip(l)] \in Id /\ log[Tip(l)] # Latest
    BY <1>0, <2>2, IdIsNotLatest
  <2>4. Sent(l) = Tip(l)
    BY <1>0, <1>1, <1>4, <2>1, <2>2, SentPlace
  <2> QED
    BY <1>1, <1>2, <1>4, <2>2, <2>3, <2>4 DEF Mark
<1> QED
  BY <1>3, <1>4

\* The stream changes under a listener that holds still, or that is blocked and
\* gets what is newer than the id it waits on.
LEMMA StreamMarks ==
    ASSUME MarkInv, StreamInv', Grows, NEW l \in Listeners,
           cst'[l] = cst[l], cursor'[l] = cursor[l], pos'[l] = pos[l],
           scur'[l] = scur[l], blk'[l] = blk[l], wire'[l] = wire[l],
           \/ srv'[l] = srv[l]
           \/ srv[l] = "blocked" /\ srv'[l] \in {"blocked", "emit"}
    PROVE  ListenerMarked(l)'
<1> DEFINE w == wire[l]
<1>0. /\ ListenerMarked(l) /\ ListenerOrder(l) /\ StreamInv /\ w \in Seq(0 .. Len(log))
      /\ pos[l] \in 0 .. Len(log) /\ Len(log) \in Nat /\ Tip(l) \in 0 .. Len(log)
      /\ first \in Nat /\ first' \in Nat /\ first <= first'
      /\ \A i \in 1 .. Len(log) : log'[i] = log[i]
  BY Places DEF Grows, StreamInv, StreamType
<1>1. Tip(l)' = Tip(l) /\ Sent(l)' = Sent(l)
  BY DEF Tip, Sent
<1>2. ClientMark(l)'
  BY <1>0, MarkKept DEF ListenerMarked, ClientMark
<1>3. ASSUME srv[l] # "none", w # << >> PROVE Tip(l) \in 1 .. Len(log)
  <2>1. Len(w) \in DOMAIN w /\ w[Len(w)] \in 0 .. Len(log)
    BY <1>0, <1>3
  <2> QED
    BY <1>0, <1>3, <2>1 DEF Tip, ListenerMarked, ServerMark, Gap
<1>4. ServerMark(l)'
  BY <1>0, <1>1, <1>3 DEF ListenerMarked, ServerMark
<1>5. ASSUME w # << >>, Tip(l) = Gap
      PROVE  /\ Sent(l) < first' /\ Sent(l) \in 0 .. Len(log)
             /\ scur[l] = IF Len(w) = 1 THEN cursor[l] ELSE log'[Sent(l)]
  <2>1. /\ Sent(l) \in 0 .. Len(log) /\ Tip(l) = w[Len(w)]
        /\ Len(w) # 1 => Sent(l) = w[Len(w) - 1] /\ Len(w) - 1 \in DOMAIN w
    BY <1>0, <1>5, SentPlace DEF Tip
  <2>2. Len(w) # 1 => Sent(l) \in 1 .. Len(log)
    <3>1. Len(w) # Len(w) - 1
      BY <1>0
    <3> QED
      BY <1>0, <2>1, <3>1 DEF ListenerMarked, GapMark, Gap
  <2>3. /\ Sent(l) < first
        /\ scur[l] = IF Len(w) = 1 THEN cursor[l] ELSE log[Sent(l)]
    BY <1>0, <1>5 DEF ListenerMarked, GapMark
  <2> QED
    BY <1>0, <2>1, <2>2, <2>3
<1>6. GapMark(l)'
  <2>1. \A k \in DOMAIN wire'[l] : wire'[l][k] = Gap => k = Len(wire'[l])
    BY <1>0 DEF ListenerMarked, GapMark
  <2>2. srv'[l] = "gap" => Tip(l) < first'
    BY <1>0 DEF ListenerMarked, GapMark
  <2>3. cst[l] = "trimmed" => pos[l] < first' /\ cursor[l] = scur[l]
    BY <1>0 DEF ListenerMarked, GapMark
  <2> HIDE DEF w
  <2> QED
    BY <1>1, <1>5, <2>1, <2>2, <2>3 DEF GapMark, w
<1> QED
  BY <1>2, <1>4, <1>6 DEF ListenerMarked

LEMMA OtherMarksKept ==
    ASSUME MarkInv, NEW l \in Listeners, Client(l) \/ Server(l), NEW m \in Listeners, m # l
    PROVE  ListenerMarked(m)'
<1>1. ListenerMarked(m) /\ TypeInv
  BY DEF MarkInv
<1>2. /\ cst'[m] = cst[m] /\ cursor'[m] = cursor[m] /\ pos'[m] = pos[m]
      /\ srv'[m] = srv[m] /\ scur'[m] = scur[m] /\ blk'[m] = blk[m]
      /\ wire'[m] = wire[m] /\ log' = log /\ first' = first
  BY <1>1, OneListener
<1> QED
  BY <1>1, <1>2 DEF ListenerMarked, ClientMark, ServerMark, GapMark, Mark, Tip, Sent

\* A listener that has nothing in flight and no generator.
LEMMA ClosedMarks ==
    ASSUME NEW l \in Listeners, ClientMark(l)', srv'[l] = "none", wire'[l] = << >>,
           cst'[l] # "trimmed"
    PROVE  ListenerMarked(l)'
BY DEF ListenerMarked, ServerMark, GapMark

LEMMA StartMarks ==
    ASSUME MarkInv, NEW l \in Listeners, Start(l)
    PROVE  ListenerMarked(l)'
<1>1. /\ log' = log /\ cst'[l] = "connect" /\ cst[l] = "idle"
      /\ srv'[l] = srv[l] /\ wire'[l] = wire[l]
  BY DEF Start, streamVars, serverVars, MarkInv, TypeInv, TypeOK
<1>2. ListenerMarked(l) /\ ListenerOrder(l)
  BY Places
<1>3. srv'[l] = "none" /\ wire'[l] = << >>
  BY <1>1, <1>2 DEF ListenerOrder, Closed
<1>4. cursor'[l] = Latest \/ Mark(cursor'[l], pos'[l])
  <2>1. CASE UNCHANGED <<cursor, pos>>
    BY <1>2, <2>1 DEF ListenerMarked, ClientMark
  <2>2. CASE cursor' = [cursor EXCEPT ![l] = Latest]
    BY <2>2 DEF MarkInv, TypeInv, TypeOK
  <2>3. ASSUME NEW p \in 1 .. Len(log),
               cursor' = [cursor EXCEPT ![l] = log[p]],
               pos' = [pos EXCEPT ![l] = p]
        PROVE  Mark(cursor'[l], pos'[l])
    BY <2>3 DEF Mark, MarkInv, TypeInv, TypeOK
  <2> QED
    BY <2>1, <2>2, <2>3 DEF Start
<1>5. ClientMark(l)'
  BY <1>1, <1>4 DEF ClientMark, Mark
<1> QED
  BY <1>1, <1>3, <1>5, ClosedMarks

LEMMA ConnectMarks ==
    ASSUME MarkInv, NEW l \in Listeners, Connect(l)
    PROVE  ListenerMarked(l)'
<1>1. /\ log' = log /\ first' = first /\ cst'[l] = "open" /\ cst[l] = "connect"
      /\ cursor'[l] = cursor[l] /\ pos'[l] = pos[l] /\ wire'[l] = wire[l]
      /\ srv'[l] = "check" /\ scur'[l] = cursor[l]
  BY DEF Connect, streamVars, MarkInv, TypeInv, TypeOK
<1>2. ListenerMarked(l) /\ ListenerOrder(l)
  BY Places
<1>3. wire'[l] = << >> /\ DOMAIN wire'[l] = {}
  BY <1>1, <1>2 DEF ListenerOrder, Closed
<1> QED
  BY <1>1, <1>2, <1>3 DEF ListenerMarked, ClientMark, ServerMark, GapMark, Mark

\* The response closes, or the request is refused: nothing is in flight. A gap that
\* was taken tells the last event that was handed over.
LEMMA CloseMarks ==
    ASSUME MarkInv, NEW l \in Listeners,
           ConnectFault(l) \/ Cut(l) \/ EndResponse(l) \/ ReceiveGap(l) \/ Refuse(l)
    PROVE  ListenerMarked(l)'
<1> DEFINE w == wire[l]
<1>1. /\ log' = log /\ first' = first /\ cursor'[l] = cursor[l] /\ pos'[l] = pos[l]
      /\ scur'[l] = scur[l] /\ cst'[l] # "idle"
  BY DEF ConnectFault, Cut, Fault, EndResponse, ReceiveGap, Refuse, CloseResponse,
         streamVars, serverVars, MarkInv, TypeInv, TypeOK
<1>2. /\ ListenerMarked(l) /\ ListenerOrder(l) /\ w \in Seq(0 .. Len(log))
      /\ pos[l] \in 0 .. Len(log) /\ Len(log) \in Nat
  BY Places
<1>3. srv'[l] = "none" /\ wire'[l] = << >>
  <2>1. CASE Refuse(l)
    BY <1>2, <2>1 DEF Refuse, serverVars, ListenerOrder, Closed
  <2>2. CASE CloseResponse(l)
    BY <2>2 DEF CloseResponse, MarkInv, TypeInv, TypeOK
  <2> QED
    BY <2>1, <2>2 DEF ConnectFault, Cut, Fault, EndResponse, ReceiveGap
<1>4. ClientMark(l)'
  BY <1>1, <1>2 DEF ListenerMarked, ClientMark, Mark
<1>5. CASE ReceiveGap(l)
  <2>1. w # << >> /\ Head(w) = Gap /\ cst'[l] = "trimmed"
    BY <1>5 DEF ReceiveGap, MarkInv, TypeInv, TypeOK
  <2>2. 1 \in DOMAIN w /\ w[1] = Gap
    BY <1>2, <2>1
  <2>3. Len(w) = 1
    BY <1>2, <2>2 DEF ListenerMarked, GapMark
  <2>4. Tip(l) = Gap /\ Sent(l) = pos[l]
    BY <1>2, <2>1, <2>2, <2>3, SentPlace DEF Tip
  <2>5. pos[l] < first /\ scur[l] = cursor[l]
    BY <1>2, <2>1, <2>3, <2>4 DEF ListenerMarked, GapMark
  <2> QED
    BY <1>1, <1>3, <1>4, <2>5 DEF ListenerMarked, ServerMark, GapMark
<1>6. CASE ~ReceiveGap(l)
  <2>1. cst'[l] # "trimmed"
    BY <1>6 DEF ConnectFault, Cut, Fault, EndResponse, Refuse, MarkInv, TypeInv, TypeOK
  <2> QED
    BY <1>3, <1>4, <2>1, ClosedMarks
<1> QED
  BY <1>5, <1>6

\* The XRANGE, the XREAD and the end of a BLOCK write nothing. A cursor that turns
\* out to be trimmed tells a place that is gone.
LEMMA ReadMarks ==
    ASSUME MarkInv, NEW l \in Listeners, Check(l) \/ XRead(l) \/ BlockTimeout(l)
    PROVE  ListenerMarked(l)'
<1>1. /\ log' = log /\ first' = first /\ cst'[l] = cst[l] /\ cursor'[l] = cursor[l]
      /\ pos'[l] = pos[l] /\ wire'[l] = wire[l] /\ scur'[l] = scur[l]
      /\ srv[l] \in {"check", "read", "blocked"}
  BY DEF Check, XRead, BlockTimeout, streamVars, clientVars, MarkInv, TypeInv, TypeOK
<1>2. ListenerMarked(l) /\ StreamInv /\ Tip(l)' = Tip(l) /\ Sent(l)' = Sent(l)
  BY <1>1, Places DEF Tip, Sent
<1>3. srv'[l] = "gap" => Tip(l) < first
  <2> SUFFICES ASSUME srv'[l] = "gap" PROVE Tip(l) < first
    OBVIOUS
  <2>1. Trimmed(scur[l])
    BY DEF Check, XRead, BlockTimeout, MarkInv, TypeInv, TypeOK
  <2>2. Mark(scur[l], Tip(l))
    BY <1>1, <2>1, ServerPlace DEF Trimmed
  <2> QED
    BY <1>2, <2>1, <2>2, TrimmedIsGone
<1>4. srv'[l] = "blocked" /\ scur[l] # Latest => blk'[l] = scur[l]
  BY DEF Check, XRead, BlockTimeout, Resolve, MarkInv, TypeInv, TypeOK
<1> QED
  BY <1>1, <1>2, <1>3, <1>4 DEF ListenerMarked, ClientMark, ServerMark, GapMark, Mark

\* What appending a message to a response makes of it.
LEMMA WireGrows ==
    ASSUME NEW n, NEW w, NEW i, NEW t,
           n \in Nat, w \in Seq(0 .. n), i \in 0 .. n, t = Append(w, i)
    PROVE  /\ t # << >> /\ Len(w) \in Nat /\ Len(t) = Len(w) + 1
           /\ DOMAIN w = 1 .. Len(w) /\ DOMAIN t = 1 .. Len(w) + 1
           /\ t[Len(w) + 1] = i /\ \A k \in 1 .. Len(w) : t[k] = w[k]
           /\ w = << >> <=> Len(w) = 0
OBVIOUS

\* What taking the first message off a response leaves of it.
LEMMA WireShrinks ==
    ASSUME NEW n \in Nat, NEW w \in Seq(0 .. n), w # << >>, NEW t, t = Tail(w)
    PROVE  /\ Len(w) \in Nat /\ Len(w) >= 1 /\ Len(t) = Len(w) - 1
           /\ DOMAIN w = 1 .. Len(w) /\ DOMAIN t = 1 .. Len(w) - 1
           /\ \A k \in 1 .. Len(w) - 1 : t[k] = w[k + 1]
           /\ t = << >> <=> Len(w) = 1
           /\ t # << >> => t[Len(t)] = w[Len(w)]
<1>1. /\ Len(w) \in Nat /\ Len(w) >= 1 /\ Len(t) = Len(w) - 1
      /\ DOMAIN w = 1 .. Len(w) /\ DOMAIN t = 1 .. Len(w) - 1
      /\ \A k \in 1 .. Len(w) - 1 : t[k] = w[k + 1]
      /\ t \in Seq(0 .. n)
  OBVIOUS
<1>2. t = << >> <=> Len(w) = 1
  <2>1. t = << >> <=> Len(t) = 0
    BY <1>1, EmptySeq
  <2> QED
    BY <1>1, <2>1, SMTT(30)
<1>3. t # << >> => t[Len(t)] = w[Len(w)]
  <2>1. t # << >> => Len(t) \in 1 .. Len(w) - 1 /\ Len(t) + 1 = Len(w)
    BY <1>1, <1>2
  <2> QED
    BY <1>1, <2>1
<1> QED
  BY <1>1, <1>2, <1>3

\* The first of the batch is written to the response, and becomes the cursor.
LEMMA EmitParts ==
    ASSUME MarkInv, NEW l \in Listeners, Emit(l)
    PROVE  \E i \in batch[l] :
             /\ \A j \in batch[l] : i <= j
             /\ i \in 1 .. Len(log) /\ log[i] \in Id /\ log[i] # Latest /\ i > Tip(l)
             /\ log' = log /\ first' = first /\ cst'[l] = cst[l]
             /\ cursor'[l] = cursor[l] /\ pos'[l] = pos[l]
             /\ srv[l] = "emit" /\ srv'[l] \in {"check", "emit"} /\ scur'[l] = log[i]
             /\ wire'[l] = Append(wire[l], i) /\ batch'[l] = batch[l] \ {i}
             /\ checked'[l] = checked[l]
             /\ Tip(l)' = i
<1> DEFINE w == wire[l]
<1>0. /\ Len(log) \in Nat /\ w \in Seq(0 .. Len(log)) /\ log \in Seq(Id)
      /\ batch[l] \subseteq 1 .. Len(log) /\ ListenerOrder(l) /\ pos[l] \in 0 .. Len(log)
  BY Places
<1>1. PICK i \in batch[l] :
        /\ \A j \in batch[l] : i <= j
        /\ scur' = [scur EXCEPT ![l] = log[i]]
        /\ wire' = [wire EXCEPT ![l] = Append(@, i)]
        /\ batch' = [batch EXCEPT ![l] = @ \ {i}]
        /\ srv' = [srv EXCEPT ![l] = IF batch[l] = {i} THEN "check" ELSE "emit"]
  BY DEF Emit
<1>2. i \in 1 .. Len(log) /\ i \in 0 .. Len(log) /\ log[i] \in Id /\ log[i] # Latest
  BY <1>0, IdIsNotLatest
<1>3. /\ log' = log /\ first' = first /\ cst'[l] = cst[l] /\ cursor'[l] = cursor[l]
      /\ pos'[l] = pos[l] /\ srv[l] = "emit" /\ srv'[l] \in {"check", "emit"}
      /\ scur'[l] = log[i] /\ wire'[l] = Append(w, i) /\ batch'[l] = batch[l] \ {i}
      /\ checked'[l] = checked[l]
  BY <1>1 DEF Emit, streamVars, clientVars, MarkInv, TypeInv, TypeOK
<1>4. i > Tip(l)
  <2>1. Past(l, i)
    BY <1>0 DEF ListenerOrder, CursorOrder
  <2>2. CASE w = << >>
    BY <2>1, <2>2 DEF Past, Tip
  <2>3. CASE w # << >>
    <3>1. Len(w) \in DOMAIN w /\ Tip(l) = w[Len(w)]
      BY <1>0, <2>3 DEF Tip
    <3> QED
      BY <2>1, <3>1 DEF Past
  <2> QED
    BY <2>2, <2>3
<1>5. Tip(l)' = i
  <2>1. /\ wire'[l] # << >> /\ Len(wire'[l]) = Len(w) + 1
        /\ wire'[l][Len(w) + 1] = i
    <3> DEFINE n == Len(log)
               t == wire'[l]
    <3>1. n \in Nat /\ w \in Seq(0 .. n) /\ i \in 0 .. n /\ t = Append(w, i)
      BY <1>0, <1>2, <1>3
    <3> HIDE DEF n, t, w
    <3>2. t # << >> /\ Len(t) = Len(w) + 1 /\ t[Len(w) + 1] = i
      BY <3>1, WireGrows
    <3> QED
      BY <3>2 DEF t
  <2> QED
    BY <2>1 DEF Tip
<1> QED
  BY <1>1, <1>2, <1>3, <1>4, <1>5

LEMMA EmitMarks ==
    ASSUME MarkInv, NEW l \in Listeners, Emit(l)
    PROVE  ListenerMarked(l)'
<1> DEFINE w == wire[l]
<1>0. /\ Len(log) \in Nat /\ w \in Seq(0 .. Len(log)) /\ ListenerMarked(l)
      /\ ListenerOrder(l)
  BY Places
<1>1. PICK i \in batch[l] :
        /\ i \in 1 .. Len(log)
        /\ log' = log /\ first' = first /\ cst'[l] = cst[l]
        /\ cursor'[l] = cursor[l] /\ pos'[l] = pos[l]
        /\ srv[l] = "emit" /\ srv'[l] \in {"check", "emit"} /\ scur'[l] = log[i]
        /\ wire'[l] = Append(w, i)
        /\ Tip(l)' = i
  BY EmitParts
<1>2. /\ wire'[l] # << >> /\ DOMAIN w = 1 .. Len(w) /\ DOMAIN wire'[l] = 1 .. Len(w) + 1
      /\ wire'[l][Len(w) + 1] = i /\ \A k \in 1 .. Len(w) : wire'[l][k] = w[k]
      /\ Len(w) \in Nat
  <2>1. i \in 0 .. Len(log)
    BY <1>0, <1>1
  <2> QED
    <3>1. Len(log) \in Nat /\ w \in Seq(0 .. Len(log))
      BY <1>0
    <3>2. wire'[l] = Append(w, i)
      BY <1>1
    <3> QED
      BY <2>1, <3>1, <3>2, WireGrows, SMTT(30)
<1>3. \A k \in DOMAIN wire'[l] : wire'[l][k] # Gap
  <2>1. \A k \in 1 .. Len(w) : w[k] # Gap
    BY <1>0, <1>1, <1>2 DEF ListenerMarked, ServerMark
  <2>2. i # Gap
    BY <1>1 DEF Gap
  <2> QED
    BY <1>2, <2>1, <2>2
<1>4. cst[l] = "open"
  BY <1>1, ServerPlace
<1>5. ClientMark(l)'
  BY <1>0, <1>1 DEF ListenerMarked, ClientMark, Mark
<1>6. ServerMark(l)'
  BY <1>1, <1>2, <1>3 DEF ServerMark
<1>7. GapMark(l)'
  BY <1>1, <1>3, <1>4 DEF GapMark, Gap
<1> QED
  BY <1>5, <1>6, <1>7 DEF ListenerMarked

LEMMA EmitGapMarks ==
    ASSUME MarkInv, NEW l \in Listeners, EmitGap(l)
    PROVE  ListenerMarked(l)'
<1> DEFINE w == wire[l]
           t == wire'[l]
<1>0. /\ Len(log) \in Nat /\ w \in Seq(0 .. Len(log)) /\ ListenerMarked(l)
      /\ pos[l] \in 0 .. Len(log)
  BY Places
<1>1. /\ log' = log /\ first' = first /\ cst'[l] = cst[l] /\ cursor'[l] = cursor[l]
      /\ pos'[l] = pos[l] /\ srv[l] = "gap" /\ srv'[l] = "none" /\ scur'[l] = scur[l]
      /\ t = Append(w, Gap)
  BY DEF EmitGap, streamVars, clientVars, MarkInv, TypeInv, TypeOK
<1>2. /\ t # << >> /\ Len(w) \in Nat /\ Len(t) = Len(w) + 1
      /\ DOMAIN w = 1 .. Len(w) /\ DOMAIN t = 1 .. Len(w) + 1
      /\ t[Len(w) + 1] = Gap /\ \A k \in 1 .. Len(w) : t[k] = w[k]
      /\ w = << >> <=> Len(w) = 0
  <2>1. Gap \in 0 .. Len(log)
    BY <1>0 DEF Gap
  <2> QED
    <3>1. Len(log) \in Nat /\ w \in Seq(0 .. Len(log))
      BY <1>0
    <3>2. t = Append(w, Gap)
      BY <1>1
    <3> HIDE DEF w, t
    <3> QED
      BY <2>1, <3>1, <3>2, WireGrows
<1>3. /\ \A k \in DOMAIN w : w[k] # Gap
      /\ scur[l] = IF w = << >> THEN cursor[l] ELSE log[Tip(l)]
      /\ Tip(l) < first /\ cst[l] = "open"
  BY <1>0, <1>1, ServerPlace DEF ListenerMarked, ServerMark, GapMark
<1>4. \A k \in DOMAIN t : t[k] = Gap => k = Len(t)
  BY <1>2, <1>3
<1>5. t[Len(t)] = Gap
  BY <1>2
<1>6. Sent(l)' = Tip(l)
  <2> HIDE DEF w, t
  <2>1. w # << >> => Len(t) > 1 /\ t[Len(t) - 1] = w[Len(w)]
    <3>1. w # << >> => Len(w) \in 1 .. Len(w) /\ Len(t) > 1 /\ Len(t) - 1 = Len(w)
      BY <1>2
    <3> QED
      BY <1>2, <3>1
  <2>2. w = << >> => ~(Len(t) > 1)
    BY <1>2
  <2>3. Sent(l)' = IF Len(t) > 1 THEN t[Len(t) - 1] ELSE pos'[l]
    BY <1>2, <1>5 DEF Sent, t
  <2>4. Tip(l) = IF w = << >> THEN pos[l] ELSE w[Len(w)]
    BY DEF Tip, w
  <2> QED
    BY <1>1, <2>1, <2>2, <2>3, <2>4
<1>7. ClientMark(l)' /\ ServerMark(l)'
  BY <1>0, <1>1 DEF ListenerMarked, ClientMark, ServerMark, Mark
<1>8. scur'[l] = IF Len(t) = 1 THEN cursor'[l] ELSE log'[Sent(l)']
  <2>1. Len(t) = 1 <=> w = << >>
    BY <1>2
  <2> HIDE DEF w, t
  <2> QED
    BY <1>1, <1>3, <1>6, <2>1
<1>9. GapMark(l)'
  <2> HIDE DEF w
  <2> QED
    BY <1>1, <1>3, <1>4, <1>6, <1>8 DEF GapMark
<1> QED
  BY <1>7, <1>9 DEF ListenerMarked

\* A message is taken off the response; where the response ends stays as it is.
LEMMA ReceiveParts ==
    ASSUME MarkInv, NEW l \in Listeners, Receive(l)
    PROVE  /\ wire[l] # << >> /\ wire[l][1] \in 1 .. Len(log) /\ 1 \in DOMAIN wire[l]
           /\ pos[l] < wire[l][1]
           /\ cursor'[l] = log[wire[l][1]] /\ pos'[l] = wire[l][1] /\ cursor'[l] \in Id
           /\ log' = log /\ first' = first /\ cst'[l] = cst[l] /\ cst[l] = "open"
           /\ srv'[l] = srv[l] /\ scur'[l] = scur[l] /\ blk'[l] = blk[l]
           /\ batch'[l] = batch[l] /\ checked'[l] = checked[l]
           /\ wire'[l] = Tail(wire[l])
           /\ Tip(l)' = Tip(l)
<1> DEFINE w == wire[l]
<1>0. /\ Len(log) \in Nat /\ w \in Seq(0 .. Len(log)) /\ log \in Seq(Id)
      /\ ListenerOrder(l) /\ TypeInv /\ pos[l] \in 0 .. Len(log)
  BY Places
<1>1. /\ w # << >> /\ Head(w) # Gap /\ cursor'[l] = log[Head(w)] /\ pos'[l] = Head(w)
      /\ log' = log /\ first' = first /\ cst'[l] = cst[l] /\ cst[l] = "open"
      /\ srv'[l] = srv[l] /\ scur'[l] = scur[l] /\ blk'[l] = blk[l]
      /\ batch'[l] = batch[l] /\ checked'[l] = checked[l] /\ wire'[l] = Tail(w)
  BY <1>0 DEF Receive, streamVars, serverVars, TypeInv, TypeOK
<1>2. Head(w) = w[1] /\ 1 \in DOMAIN w /\ w[1] \in 0 .. Len(log)
  BY <1>0, <1>1
<1>3. w[1] \in 1 .. Len(log)
  BY <1>0, <1>1, <1>2 DEF Gap
<1>4. pos[l] < w[1]
  BY <1>0, <1>1, <1>2 DEF ListenerOrder, WireOrder
<1>5. Tip(l)' = Tip(l)
  <2> DEFINE t == wire'[l]
  <2>1. /\ t = << >> => Len(w) = 1
        /\ t # << >> => t[Len(t)] = w[Len(w)]
    BY <1>0, <1>1, WireShrinks
  <2>2. pos'[l] = w[1]
    BY <1>1, <1>2
  <2>3. Tip(l) = w[Len(w)] /\ Tip(l)' = (IF t = << >> THEN pos'[l] ELSE t[Len(t)])
    BY <1>1 DEF Tip
  <2> HIDE DEF w, t
  <2> QED
    BY <2>1, <2>2, <2>3
<1> QED
  BY <1>0, <1>1, <1>2, <1>3, <1>4, <1>5

LEMMA ReceiveMarks ==
    ASSUME MarkInv, NEW l \in Listeners, Receive(l)
    PROVE  ListenerMarked(l)'
<1> DEFINE w == wire[l]
           t == wire'[l]
<1>0. /\ Len(log) \in Nat /\ w \in Seq(0 .. Len(log)) /\ ListenerMarked(l)
      /\ pos[l] \in 0 .. Len(log)
  BY Places
<1>1. /\ w # << >> /\ w[1] \in 1 .. Len(log)
      /\ cursor'[l] = log[w[1]] /\ pos'[l] = w[1]
      /\ log' = log /\ first' = first /\ cst'[l] = cst[l] /\ cst[l] = "open"
      /\ srv'[l] = srv[l] /\ scur'[l] = scur[l] /\ blk'[l] = blk[l]
      /\ t = Tail(w) /\ Tip(l)' = Tip(l)
  BY ReceiveParts
<1>2. /\ Len(w) \in Nat /\ Len(w) >= 1 /\ Len(t) = Len(w) - 1
      /\ DOMAIN w = 1 .. Len(w) /\ DOMAIN t = 1 .. Len(w) - 1
      /\ \A k \in 1 .. Len(w) - 1 : t[k] = w[k + 1]
      /\ t = << >> <=> Len(w) = 1
  BY <1>0, <1>1, WireShrinks
<1>3. ClientMark(l)'
  BY <1>1 DEF ClientMark, Mark
<1>4. \A k \in DOMAIN t : k + 1 \in DOMAIN w /\ t[k] = w[k + 1]
  BY <1>2
<1>5. ServerMark(l)'
  <2> SUFFICES ASSUME srv[l] # "none" PROVE ServerMark(l)'
    BY <1>1 DEF ServerMark
  <2>1. /\ \A k \in DOMAIN w : w[k] # Gap
        /\ scur[l] = log[Tip(l)]
        /\ srv[l] = "blocked" /\ scur[l] # Latest => blk[l] = scur[l]
    BY <1>0, <1>1 DEF ListenerMarked, ServerMark
  <2>2. \A k \in DOMAIN t : t[k] # Gap
    BY <1>4, <2>1
  <2>3. t = << >> => cursor'[l] = log[Tip(l)]
    <3>1. t = << >> => Tip(l)' = pos'[l]
      BY DEF Tip
    <3> QED
      BY <1>1, <3>1
  <2> HIDE DEF w, t
  <2> QED
    BY <1>1, <2>1, <2>2, <2>3 DEF ServerMark, t
<1>6. GapMark(l)'
  <2>1. \A k \in DOMAIN t : t[k] = Gap => k = Len(t)
    <3> SUFFICES ASSUME NEW k \in DOMAIN t, t[k] = Gap PROVE k = Len(t)
      OBVIOUS
    <3>1. k + 1 = Len(w)
      BY <1>0, <1>4 DEF ListenerMarked, GapMark
    <3> QED
      BY <1>2, <3>1
  <2>2. srv'[l] = "gap" => Tip(l) < first
    BY <1>0, <1>1 DEF ListenerMarked, GapMark
  <2>3. ASSUME t # << >>, Tip(l) = Gap
        PROVE  /\ Sent(l)' < first
               /\ scur[l] = IF Len(t) = 1 THEN cursor'[l] ELSE log[Sent(l)']
    <3>1. Len(w) > 1 /\ w[Len(w)] = Gap /\ t[Len(t)] = Gap
      BY <1>1, <1>2, <2>3 DEF Tip
    <3>2. /\ Sent(l) < first /\ scur[l] = log[Sent(l)] /\ Sent(l) = w[Len(w) - 1]
      BY <1>0, <1>1, <1>2, <2>3, <3>1, SentPlace DEF ListenerMarked, GapMark
    <3>3. Sent(l)' = IF Len(t) > 1 THEN t[Len(t) - 1] ELSE pos'[l]
      BY <2>3, <3>1 DEF Sent
    <3>4. CASE Len(t) = 1
      <4>1. Len(w) - 1 = 1
        BY <1>2, <3>4
      <4>2. Sent(l)' = pos'[l]
        BY <3>3, <3>4
      <4>3. Sent(l)' = w[1] /\ Sent(l) = w[1]
        BY <1>1, <3>2, <4>1, <4>2
      <4> QED
        BY <1>1, <3>2, <3>4, <4>3
    <3>5. CASE Len(t) # 1
      <4>1. Len(t) > 1 /\ Len(t) - 1 \in 1 .. Len(w) - 1 /\ (Len(t) - 1) + 1 = Len(w) - 1
        <5> HIDE DEF w, t
        <5> QED
          BY <1>2, <3>1, <3>5
      <4>2. Sent(l)' = Sent(l)
        BY <1>2, <3>2, <3>3, <4>1
      <4> QED
        BY <3>2, <3>5, <4>2
    <3> QED
      BY <3>4, <3>5
  <2> HIDE DEF w, t
  <2> QED
    BY <1>1, <2>1, <2>2, <2>3 DEF GapMark, t
<1> QED
  BY <1>3, <1>5, <1>6 DEF ListenerMarked

\* A write or the end of the key, as a listener sees it.
LEMMA StreamStep ==
    ASSUME TypeInv, Vanish \/ \E n \in BatchSizes : Write(n), NEW l \in Listeners
    PROVE  /\ StreamInv' /\ Grows
           /\ cst'[l] = cst[l] /\ cursor'[l] = cursor[l] /\ pos'[l] = pos[l]
           /\ scur'[l] = scur[l] /\ blk'[l] = blk[l] /\ wire'[l] = wire[l]
           /\ checked'[l] = checked[l]
           /\ \/ srv'[l] = srv[l] /\ batch'[l] = batch[l]
              \/ /\ srv[l] = "blocked" /\ batch'[l] = Batch(blk[l], Limit)'
                 /\ srv'[l] = IF batch'[l] # {} THEN "emit" ELSE "blocked"
<1>0. StreamInv
  BY TypeHasStreamInv
<1>1. CASE Vanish
  BY <1>0, <1>1, RemoveKeeps DEF Vanish, clientVars, serverVars
<1>2. ASSUME NEW n \in BatchSizes, Write(n)
      PROVE  /\ StreamInv' /\ Grows
             /\ cst'[l] = cst[l] /\ cursor'[l] = cursor[l] /\ pos'[l] = pos[l]
             /\ scur'[l] = scur[l] /\ blk'[l] = blk[l] /\ wire'[l] = wire[l]
             /\ checked'[l] = checked[l]
             /\ \/ srv'[l] = srv[l] /\ batch'[l] = batch[l]
                \/ /\ srv[l] = "blocked" /\ batch'[l] = Batch(blk[l], Limit)'
                   /\ srv'[l] = IF batch'[l] # {} THEN "emit" ELSE "blocked"
  <2>1. StreamInv' /\ Grows
    BY <1>0, <1>2, AddKeeps DEF Write
  <2>2. UNCHANGED <<cst, cursor, pos, scur, blk, wire, checked>>
    BY <1>2 DEF Write, clientVars
  <2>3. CASE srv[l] = "blocked"
    BY <1>2, <2>1, <2>2, <2>3 DEF Write
  <2>4. CASE srv[l] # "blocked"
    BY <1>2, <2>1, <2>2, <2>4 DEF Write
  <2> QED
    BY <2>3, <2>4
<1> QED
  BY <1>1, <1>2

LEMMA NextMarkInv == MarkInv /\ [Next]_vars => MarkInv'
<1> SUFFICES ASSUME MarkInv, [Next]_vars PROVE MarkInv'
  OBVIOUS
<1>0. TypeInv /\ OrderInv /\ TypeInv' /\ OrderInv'
  BY NextTypeInv, NextOrderInv DEF MarkInv
<1> SUFFICES ASSUME NEW l \in Listeners PROVE ListenerMarked(l)'
  BY <1>0 DEF MarkInv
<1>1. CASE Vanish \/ \E n \in BatchSizes : Write(n)
  BY <1>0, <1>1, StreamStep, StreamMarks
<1>2. CASE Client(l) \/ Server(l)
  BY <1>2, StartMarks, ConnectMarks, CloseMarks, ReadMarks, EmitMarks, EmitGapMarks,
     ReceiveMarks DEF Client, Server
<1>3. ASSUME NEW m \in Listeners, m # l, Client(m) \/ Server(m) PROVE ListenerMarked(l)'
  BY <1>3, OtherMarksKept
<1>4. CASE UNCHANGED vars
  <2>1. UNCHANGED <<log, first, cst, cursor, pos, srv, scur, blk, wire>> /\ ListenerMarked(l)
    BY <1>4 DEF vars, streamVars, clientVars, serverVars, MarkInv
  <2> QED
    BY <2>1 DEF ListenerMarked, ClientMark, ServerMark, GapMark, Mark, Tip, Sent
<1> QED
  BY <1>1, <1>2, <1>3, <1>4 DEF Next

\* Whatever removes entries, and even when a deleted stream uses ids again, a gap
\* is sent only to a listener whose last event is gone, and names that event.
THEOREM GapsAreTrue == Spec => []GapIsTrue
<1>1. MarkInv => GapIsTrue
  <2> SUFFICES ASSUME MarkInv, NEW l \in Listeners,
                      \/ srv[l] = "gap"
                      \/ cst[l] = "open" /\ Gap \in {wire[l][k] : k \in DOMAIN wire[l]}
                      \/ cst[l] = "trimmed"
               PROVE  Sent(l) < first /\ (cst[l] = "trimmed" => cursor[l] = scur[l])
    BY DEF GapIsTrue
  <2>1. /\ GapMark(l) /\ ListenerOrder(l) /\ wire[l] \in Seq(0 .. Len(log))
        /\ pos[l] \in 0 .. Len(log) /\ Len(log) \in Nat
    BY Places DEF ListenerMarked
  <2>2. CASE srv[l] = "gap"
    BY <2>1, <2>2, ServerPlace DEF GapMark
  <2>3. ASSUME cst[l] # "trimmed", NEW k \in DOMAIN wire[l], wire[l][k] = Gap
        PROVE  Sent(l) < first
    <3>1. k = Len(wire[l]) /\ wire[l] # << >>
      BY <2>1, <2>3 DEF GapMark
    <3> QED
      BY <2>1, <2>3, <3>1 DEF GapMark, Tip
  <2>4. CASE cst[l] = "trimmed"
    <3>1. wire[l] = << >>
      BY <2>1, <2>4 DEF ListenerOrder, Closed
    <3> QED
      BY <2>1, <2>4, <3>1, SentPlace DEF GapMark
  <2> QED
    BY <2>2, <2>3, <2>4
<1> QED
  BY <1>1, InitMarkInv, NextMarkInv, PTL DEF Spec

-----------------------------------------------------------------------------
(* What follows on what                                                    *)
(*                                                                         *)
(* The argument follows the places an event goes through: the batch has no *)
(* holes above the server's cursor, so what is written to the response     *)
(* follows on what was written before, so what the client takes from it    *)
(* follows on what the application was handed.                             *)

\* Nothing between two places is still in Redis, but what reused ids hide.
Linked(a, b) == \A j \in Nat : a < j /\ j < b => j < first \/ Hidden(a, j)

\* Each event in flight follows on the one before it.
WireLinked(l) ==
    \A k \in DOMAIN wire[l] :
      IF k = 1 THEN cursor[l] = Latest \/ Linked(pos[l], wire[l][1])
               ELSE Linked(wire[l][k - 1], wire[l][k])

\* What is live and missing from the batch, below one of its events, was written
\* before, or hidden. (When "$" was read: comes before all of it.)
BatchLinked(l) ==
    srv[l] # "none" =>
      \A i \in batch[l] : \A j \in Nat :
        first <= j /\ j < i /\ j \notin batch[l]
        => \/ scur[l] # Latest /\ j <= Tip(l)
           \/ /\ \A m \in batch[l] : j < m
              /\ scur[l] = Latest \/ Hidden(Tip(l), j)

\* A cursor that passed the trim check told an event that was there, unless the
\* oldest entry is hidden behind it.
CheckedMark(l) ==
    srv[l] \in {"read", "blocked"} /\ scur[l] \notin {Latest, Zero} /\ checked[l] # 0
    => checked[l] <= Tip(l) \/ Hidden(Tip(l), checked[l])

ListenerLinked(l) == WireLinked(l) /\ BatchLinked(l) /\ CheckedMark(l)

LinkInv == MarkInv /\ DatesOrKept /\ \A l \in Listeners : ListenerLinked(l)

LEMMA InitLinkInv == Init => LinkInv
<1> SUFFICES ASSUME Init PROVE LinkInv
  OBVIOUS
<1>1. MarkInv /\ DatesOrKept
  BY InitMarkInv, InitKept, InitDates DEF Init, DatesOrKept
<1>2. \A l \in Listeners : srv[l] = "none" /\ wire[l] = << >>
  BY DEF Init
<1> QED
  BY <1>1, <1>2 DEF LinkInv, ListenerLinked, WireLinked, BatchLinked, CheckedMark

\* The facts about one listener that the steps below need.
LEMMA LinkPlaces ==
    ASSUME LinkInv, NEW l \in Listeners
    PROVE  /\ MarkInv /\ DatesInv /\ TypeInv /\ StreamInv
           /\ ListenerLinked(l) /\ ListenerMarked(l) /\ ListenerOrder(l)
           /\ log \in Seq(Id) /\ Len(log) \in Nat /\ first \in 1 .. Len(log) + 1
           /\ first \in Nat /\ Tip(l) \in Nat /\ scur[l] \in Cursor
           /\ batch[l] \subseteq 1 .. Len(log) /\ wire[l] \in Seq(0 .. Len(log))
           /\ pos[l] \in Nat /\ cursor[l] \in Cursor
<1>1. MarkInv /\ DatesInv /\ ListenerLinked(l)
  BY DEF LinkInv, DatesOrKept
<1> QED
  BY <1>1, Places

LEMMA LinkedKept ==
    ASSUME StreamInv, Grows, StreamInv', NEW a, NEW b, Linked(a, b)
    PROVE  Linked(a, b)'
<1>1. \A j : Hidden(a, j) => Hidden(a, j)'
  BY HiddenKept
<1> QED
  BY <1>1 DEF Linked, Grows, StreamInv, StreamType

\* What a batch leaves out, below one of its events.
LEMMA ReadLinks ==
    ASSUME NEW lg \in Seq(Id), NEW f \in 1 .. Len(lg) + 1, DatedIds(lg, f), NEW c \in Id
    PROVE  \A i \in BatchIn(lg, f, c, Limit) : \A j \in Nat :
             f <= j /\ j < i /\ j \notin BatchIn(lg, f, c, Limit)
             => /\ \A m \in BatchIn(lg, f, c, Limit) : j < m
                /\ \A p : MarkIn(lg, c, p) => j <= p \/ HiddenIn(lg, p, j)
<1> USE SseAssumption
<1> SUFFICES ASSUME NEW i \in BatchIn(lg, f, c, Limit), NEW j \in Nat, f <= j, j < i,
                    j \notin BatchIn(lg, f, c, Limit)
             PROVE  /\ \A m \in BatchIn(lg, f, c, Limit) : j < m
                    /\ \A p : MarkIn(lg, c, p) => j <= p \/ HiddenIn(lg, p, j)
  OBVIOUS
<1>1. Len(lg) \in Nat /\ i \in f .. Len(lg)
  BY DEF BatchIn, NewerIn
<1>2. j \in f .. Len(lg)
  BY <1>1
<1> QED
  BY <1>2, BatchHasNoHoles

\* The stream changes under a listener that holds still, or that is blocked and
\* gets what is newer than the id it waits on.
LEMMA StreamLinks ==
    ASSUME LinkInv, DatesInv', Grows, NEW l \in Listeners,
           cursor'[l] = cursor[l], pos'[l] = pos[l], scur'[l] = scur[l],
           blk'[l] = blk[l], wire'[l] = wire[l], checked'[l] = checked[l],
           \/ srv'[l] = srv[l] /\ batch'[l] = batch[l]
           \/ /\ srv[l] = "blocked" /\ batch'[l] = Batch(blk[l], Limit)'
              /\ srv'[l] = IF batch'[l] # {} THEN "emit" ELSE "blocked"
    PROVE  ListenerLinked(l)'
<1>0. /\ StreamInv /\ StreamInv' /\ ListenerLinked(l) /\ ListenerMarked(l) /\ MarkInv
      /\ blk[l] \in Id /\ Tip(l)' = Tip(l)
  BY LinkPlaces DEF DatesInv, TypeInv, TypeOK, Tip
<1>1. WireLinked(l)'
  BY <1>0, LinkedKept DEF ListenerLinked, WireLinked
<1>2. CheckedMark(l)'
  <2>1. srv'[l] \in {"read", "blocked"} => srv[l] \in {"read", "blocked"}
    OBVIOUS
  <2>2. Hidden(Tip(l), checked[l]) => Hidden(Tip(l), checked[l])'
    <3>1. ASSUME NEW a, NEW j, a = Tip(l), j = checked[l], Hidden(a, j)
          PROVE  Hidden(a, j)'
      BY <1>0, <3>1, HiddenKept
    <3> QED
      BY <1>0, <3>1 DEF Hidden, Reused
  <2> QED
    BY <1>0, <2>1, <2>2 DEF ListenerLinked, CheckedMark
<1>3. BatchLinked(l)'
  <2>1. CASE srv'[l] = srv[l] /\ batch'[l] = batch[l]
    <3>1. \A j \in Nat : first' <= j => first <= j
      BY <1>0 DEF Grows, StreamInv, StreamType
    <3> QED
      BY <1>0, <2>1, <3>1, HiddenKept DEF ListenerLinked, BatchLinked
  <2>2. CASE srv[l] = "blocked" /\ batch'[l] = Batch(blk[l], Limit)'
    <3> DEFINE B == BatchIn(log', first', blk[l], Limit)
    <3>1. batch'[l] = B
      BY <2>2 DEF Batch, Newer, Live, BatchIn, NewerIn
    <3>2. scur[l] # Latest => MarkIn(log', blk[l], Tip(l))
      <4> SUFFICES ASSUME scur[l] # Latest PROVE MarkIn(log', blk[l], Tip(l))
        OBVIOUS
      <4>1. blk[l] = scur[l] /\ Mark(scur[l], Tip(l))
        BY <1>0, <2>2, ServerPlace DEF ListenerMarked, ServerMark
      <4>2. PICK p : p = Tip(l) /\ Mark(scur[l], p)
        BY <4>1
      <4>3. Mark(scur[l], p)'
        BY <1>0, <4>2, MarkKept
      <4> QED
        BY <4>1, <4>2, <4>3 DEF Mark, MarkIn
    <3>3. log' \in Seq(Id) /\ first' \in 1 .. Len(log') + 1 /\ DatedIds(log', first')
      BY DEF DatesInv, StreamInv, StreamType, Ascending, Live, Dates, DatedIds
    <3>4. ASSUME NEW i \in B, NEW j \in Nat, first' <= j, j < i, j \notin B
          PROVE  /\ \A m \in B : j < m
                 /\ scur[l] # Latest => j <= Tip(l) \/ HiddenIn(log', Tip(l), j)
      BY <1>0, <3>2, <3>3, <3>4, ReadLinks
    <3> HIDE DEF B
    <3> QED
      BY <1>0, <3>1, <3>4 DEF BatchLinked, Hidden, HiddenIn, Reused
  <2> QED
    BY <2>1, <2>2
<1> QED
  BY <1>1, <1>2, <1>3 DEF ListenerLinked

LEMMA OtherLinksKept ==
    ASSUME LinkInv, NEW l \in Listeners, Client(l) \/ Server(l), NEW m \in Listeners, m # l
    PROVE  ListenerLinked(m)'
<1>1. ListenerLinked(m) /\ TypeInv
  BY LinkPlaces
<1>2. /\ cursor'[m] = cursor[m] /\ pos'[m] = pos[m]
      /\ srv'[m] = srv[m] /\ scur'[m] = scur[m] /\ blk'[m] = blk[m] /\ batch'[m] = batch[m]
      /\ checked'[m] = checked[m] /\ wire'[m] = wire[m] /\ log' = log /\ first' = first
  BY <1>1, OneListener
<1>3. WireLinked(m)'
  BY <1>1, <1>2, SMTT(40) DEF ListenerLinked, WireLinked, Linked, Hidden, Reused
<1>4. BatchLinked(m)'
  BY <1>1, <1>2, SMTT(30) DEF ListenerLinked, BatchLinked, Hidden, Reused, Tip
<1>5. CheckedMark(m)'
  BY <1>1, <1>2 DEF ListenerLinked, CheckedMark, Tip, Hidden, Reused
<1> QED
  BY <1>3, <1>4, <1>5 DEF ListenerLinked

-----------------------------------------------------------------------------
(* The steps of one listener *)

\* A listener that has nothing in flight, and has read nothing.
LEMMA QuietLinks ==
    ASSUME NEW l \in Listeners, wire'[l] = << >>,
           srv'[l] = "none" \/ (srv'[l] = "check" /\ batch'[l] = {})
    PROVE  ListenerLinked(l)'
BY DEF ListenerLinked, WireLinked, BatchLinked, CheckedMark

LEMMA ClosedLinks ==
    ASSUME LinkInv, NEW l \in Listeners,
           \/ Start(l) \/ Connect(l) \/ Refuse(l)
           \/ ConnectFault(l) \/ Cut(l) \/ EndResponse(l) \/ ReceiveGap(l)
    PROVE  ListenerLinked(l)'
<1>1. ListenerOrder(l) /\ TypeInv
  BY LinkPlaces
<1>2. CASE Start(l) \/ Connect(l) \/ Refuse(l)
  <2>1. cst[l] # "open"
    BY <1>2 DEF Start, Connect, Refuse
  <2>2. wire[l] = << >> /\ batch[l] = {} /\ srv[l] = "none"
    BY <1>1, <2>1 DEF ListenerOrder, Closed
  <2>3. wire'[l] = << >> /\ batch'[l] = {} /\ srv'[l] \in {"none", "check"}
    BY <1>1, <1>2, <2>2 DEF Start, Connect, Refuse, serverVars, TypeInv, TypeOK
  <2> QED
    BY <2>3, QuietLinks
<1>3. CASE ConnectFault(l) \/ Cut(l) \/ EndResponse(l) \/ ReceiveGap(l)
  <2>1. CloseResponse(l)
    BY <1>3 DEF ConnectFault, Cut, Fault, EndResponse, ReceiveGap
  <2>2. srv'[l] = "none" /\ wire'[l] = << >>
    BY <1>1, <2>1 DEF CloseResponse, TypeInv, TypeOK
  <2>3. srv'[l] = "none" \/ (srv'[l] = "check" /\ batch'[l] = {})
    BY <2>2
  <2> QED
    BY <2>2, <2>3, QuietLinks
<1> QED
  BY <1>2, <1>3

\* The XRANGE finds the cursor's event, and the end of a BLOCK moves nothing.
LEMMA PauseLinks ==
    ASSUME LinkInv, NEW l \in Listeners, Check(l) \/ BlockTimeout(l)
    PROVE  ListenerLinked(l)'
<1>0. /\ ListenerLinked(l) /\ MarkInv /\ TypeInv /\ DatesInv
      /\ log \in Seq(Id) /\ first \in Nat /\ Len(log) \in Nat /\ first >= 1
      /\ Tip(l) \in Nat
  BY LinkPlaces
<1>1. /\ log' = log /\ first' = first /\ cursor'[l] = cursor[l]
      /\ pos'[l] = pos[l] /\ wire'[l] = wire[l] /\ batch'[l] = batch[l]
      /\ scur'[l] = scur[l] /\ srv[l] # "none" /\ srv'[l] # "none" /\ Tip(l)' = Tip(l)
  BY <1>0 DEF Check, BlockTimeout, streamVars, clientVars, TypeInv, TypeOK, Tip
<1>2. WireLinked(l)' /\ BatchLinked(l)'
  BY <1>0, <1>1 DEF ListenerLinked, WireLinked, BatchLinked, Linked, Hidden, Reused
<1>3. CheckedMark(l)'
  <2> SUFFICES ASSUME srv'[l] \in {"read", "blocked"},
                      scur[l] \notin {Latest, Zero}, checked'[l] # 0
               PROVE  checked'[l] <= Tip(l) \/ Hidden(Tip(l), checked'[l])
    BY <1>1 DEF CheckedMark, Hidden, Reused
  <2>1. ~Trimmed(scur[l]) /\ Exists /\ checked'[l] = first
    BY <1>0 DEF Check, BlockTimeout, TypeInv, TypeOK
  <2>2. Mark(scur[l], Tip(l))
    BY <1>0, <1>1, ServerPlace
  <2>3. Tip(l) \in 1 .. Len(log) /\ scur[l] = log[Tip(l)]
    BY <2>2 DEF Mark
  <2>4. first \in 1 .. Len(log)
    BY <1>0, <2>1 DEF Exists
  <2>5. ~Before(log[Tip(l)], log[first])
    BY <2>1, <2>3 DEF Trimmed
  <2>6. Tip(l) < first => Hidden(Tip(l), first)
    <3> SUFFICES ASSUME NEW p \in 1 .. Len(log), p = Tip(l), p < first
                 PROVE  Hidden(p, first)
      BY <2>3
    <3>1. log[p][1] <= log[first][1]
      BY <1>0, <2>4 DEF DatesInv, Dates
    <3>2. log[p] \in Id /\ log[first] \in Id
      BY <1>0, <2>4
    <3>3. log[p][1] \in Nat /\ log[p][2] \in Nat /\ log[first][1] \in Nat /\ log[first][2] \in Nat
      BY <3>2 DEF Id
    <3> QED
      BY <2>4, <2>5, <3>1, <3>3 DEF Before, Hidden, Reused
  <2> QED
    BY <1>0, <2>1, <2>6
<1> QED
  BY <1>2, <1>3 DEF ListenerLinked

LEMMA XReadLinks ==
    ASSUME LinkInv, NEW l \in Listeners, XRead(l)
    PROVE  ListenerLinked(l)'
<1> DEFINE c == Resolve(scur[l])
<1>0. /\ ListenerLinked(l) /\ MarkInv /\ DatesInv /\ StreamInv /\ scur[l] \in Cursor
      /\ TypeInv
  BY LinkPlaces
<1>1. /\ log' = log /\ first' = first /\ cursor'[l] = cursor[l]
      /\ pos'[l] = pos[l] /\ wire'[l] = wire[l] /\ scur'[l] = scur[l]
      /\ checked'[l] = checked[l] /\ srv[l] = "read" /\ srv'[l] \in {"blocked", "emit"}
      /\ batch'[l] = Batch(c, Limit) /\ Tip(l)' = Tip(l)
  BY <1>0 DEF XRead, streamVars, clientVars, TypeInv, TypeOK, Tip
<1>2. WireLinked(l)' /\ CheckedMark(l)'
  <2>1. \A a, b : Linked(a, b)' <=> Linked(a, b)
    BY <1>1 DEF Linked, Hidden, Reused
  <2>2. WireLinked(l)'
    BY <1>0, <1>1, <2>1 DEF ListenerLinked, WireLinked
  <2> QED
    BY <1>0, <1>1, <2>2 DEF ListenerLinked, CheckedMark, Hidden, Reused
<1>3. BatchLinked(l)'
  <2>1. CASE scur[l] = Latest
    <3>1. batch'[l] = {}
      BY <1>0, <1>1, <2>1, NothingAfterLatest DEF Resolve, Batch
    <3> QED
      BY <3>1 DEF BatchLinked
  <2>2. CASE scur[l] # Latest
    <3> DEFINE B == BatchIn(log, first, scur[l], Limit)
    <3>1. batch'[l] = B
      BY <1>1, <2>2 DEF Resolve, Batch, Newer, Live, BatchIn, NewerIn
    <3>2. /\ log \in Seq(Id) /\ first \in 1 .. Len(log) + 1 /\ DatedIds(log, first)
          /\ scur[l] \in Id
      BY <1>0, <2>2, DatedGrows DEF Cursor
    <3>3. MarkIn(log, scur[l], Tip(l))
      BY <1>0, <1>1, <2>2, ServerPlace DEF Mark, MarkIn
    <3>4. ASSUME NEW i \in B, NEW j \in Nat, first <= j, j < i, j \notin B
          PROVE  /\ \A m \in B : j < m
                 /\ j <= Tip(l) \/ HiddenIn(log, Tip(l), j)
      BY <3>2, <3>3, <3>4, ReadLinks
    <3> HIDE DEF B
    <3> QED
      BY <1>1, <2>2, <3>1, <3>4 DEF BatchLinked, Hidden, HiddenIn, Reused
  <2> QED
    BY <2>1, <2>2
<1> QED
  BY <1>2, <1>3 DEF ListenerLinked

\* What is written next is the first of the batch: what it passes over is gone.
LEMMA EmitLinks ==
    ASSUME LinkInv, NEW l \in Listeners, Emit(l)
    PROVE  ListenerLinked(l)'
<1> DEFINE w == wire[l]
           t == wire'[l]
<1>0. /\ Len(log) \in Nat /\ first \in Nat /\ w \in Seq(0 .. Len(log))
      /\ batch[l] \subseteq 1 .. Len(log) /\ ListenerLinked(l) /\ ListenerMarked(l)
      /\ MarkInv /\ Tip(l) \in Nat
  BY LinkPlaces
<1>1. PICK i \in batch[l] :
        /\ \A j \in batch[l] : i <= j
        /\ i \in 1 .. Len(log) /\ log[i] # Latest /\ i > Tip(l)
        /\ log' = log /\ first' = first
        /\ cursor'[l] = cursor[l] /\ pos'[l] = pos[l]
        /\ srv[l] = "emit" /\ srv'[l] \in {"check", "emit"} /\ scur'[l] = log[i]
        /\ t = Append(w, i) /\ batch'[l] = batch[l] \ {i}
        /\ Tip(l)' = i
  BY <1>0, EmitParts
<1>2. /\ t # << >> /\ DOMAIN w = 1 .. Len(w) /\ DOMAIN t = 1 .. Len(w) + 1
      /\ t[Len(w) + 1] = i /\ \A k \in 1 .. Len(w) : t[k] = w[k]
      /\ Len(w) \in Nat /\ (w = << >> <=> Len(w) = 0)
  <2>1. i \in 0 .. Len(log)
    BY <1>0, <1>1
  <2>2. Len(log) \in Nat /\ w \in Seq(0 .. Len(log)) /\ t = Append(w, i)
    BY <1>0, <1>1
  <2> HIDE DEF w, t
  <2> QED
    BY <2>1, <2>2, WireGrows
<1>3. scur[l] = Latest \/ Linked(Tip(l), i)
  <2> SUFFICES ASSUME scur[l] # Latest, NEW j \in Nat, Tip(l) < j, j < i, first <= j
               PROVE  Hidden(Tip(l), j)
    BY <1>0 DEF Linked
  <2>1. j \notin batch[l]
    BY <1>0, <1>1
  <2>2. j <= Tip(l) \/ Hidden(Tip(l), j)
    BY <1>0, <1>1, <2>1 DEF ListenerLinked, BatchLinked
  <2> QED
    BY <1>0, <2>2
<1>4. \A a, b : Linked(a, b)' <=> Linked(a, b)
  BY <1>1 DEF Linked, Hidden, Reused
<1>5. \A k \in 1 .. Len(w) :
        IF k = 1 THEN cursor'[l] = Latest \/ Linked(pos'[l], t[1])
                 ELSE Linked(t[k - 1], t[k])
  <2> SUFFICES ASSUME NEW k \in 1 .. Len(w)
               PROVE  IF k = 1 THEN cursor'[l] = Latest \/ Linked(pos'[l], t[1])
                               ELSE Linked(t[k - 1], t[k])
    OBVIOUS
  <2>1. k # 1 => k - 1 \in 1 .. Len(w)
    BY <1>2
  <2>2. t[k] = w[k] /\ (k # 1 => t[k - 1] = w[k - 1])
    BY <1>2, <2>1
  <2>3. IF k = 1 THEN cursor[l] = Latest \/ Linked(pos[l], w[1]) ELSE Linked(w[k - 1], w[k])
    BY <1>0, <1>2 DEF ListenerLinked, WireLinked
  <2> QED
    BY <1>1, <2>2, <2>3
<1>6. IF Len(w) + 1 = 1 THEN cursor'[l] = Latest \/ Linked(pos'[l], t[1])
                        ELSE Linked(t[(Len(w) + 1) - 1], t[Len(w) + 1])
  <2>1. CASE w = << >>
    <3>1. Len(w) = 0 /\ Tip(l) = pos[l] /\ t[1] = i
      BY <1>2, <2>1 DEF Tip
    <3>2. scur[l] = Latest => cursor[l] = Latest
      BY <1>0, <1>1, ServerPlace
    <3> QED
      BY <1>1, <1>3, <3>1, <3>2
  <2>2. CASE w # << >>
    <3>1. Len(w) # 0 /\ Len(w) \in 1 .. Len(w) /\ (Len(w) + 1) - 1 = Len(w) /\ Len(w) + 1 # 1
      BY <1>2, <2>2
    <3>2. t[Len(w)] = Tip(l) /\ t[Len(w) + 1] = i
      BY <1>2, <2>2, <3>1 DEF Tip
    <3>3. scur[l] # Latest
      BY <1>0, <1>1, <2>2, ServerPlace
    <3> QED
      BY <1>3, <3>1, <3>2, <3>3
  <2> QED
    BY <2>1, <2>2
<1>7. WireLinked(l)'
  <2>1. \A k \in DOMAIN t : k \in 1 .. Len(w) \/ k = Len(w) + 1
    BY <1>2
  <2> HIDE DEF w
  <2>2. \A k \in DOMAIN t :
          IF k = 1 THEN cursor'[l] = Latest \/ Linked(pos'[l], t[1])
                   ELSE Linked(t[k - 1], t[k])
    BY <1>5, <1>6, <2>1
  <2> QED
    BY <1>4, <2>2 DEF WireLinked
<1>8. BatchLinked(l)'
  <2> SUFFICES ASSUME NEW a \in batch[l], a # i, NEW j \in Nat, first <= j, j < a,
                      j \notin batch[l] \ {i}
               PROVE  j <= i
    BY <1>1 DEF BatchLinked
  <2>1. CASE j = i
    BY <2>1
  <2>2. CASE j \notin batch[l]
    <3>1. j <= Tip(l) \/ \A m \in batch[l] : j < m
      BY <1>0, <1>1, <2>2 DEF ListenerLinked, BatchLinked
    <3> QED
      BY <1>0, <1>1, <3>1
  <2> QED
    BY <2>1, <2>2
<1>9. CheckedMark(l)'
  BY <1>1 DEF CheckedMark
<1> QED
  BY <1>7, <1>8, <1>9 DEF ListenerLinked

LEMMA EmitGapLinks ==
    ASSUME LinkInv, NEW l \in Listeners, EmitGap(l)
    PROVE  ListenerLinked(l)'
<1> DEFINE w == wire[l]
           t == wire'[l]
<1>0. /\ Len(log) \in Nat /\ w \in Seq(0 .. Len(log)) /\ ListenerLinked(l) /\ TypeInv
      /\ pos[l] \in Nat
  BY LinkPlaces
<1>1. /\ log' = log /\ first' = first /\ cursor'[l] = cursor[l]
      /\ pos'[l] = pos[l] /\ srv'[l] = "none" /\ t = Append(w, Gap)
  BY <1>0 DEF EmitGap, streamVars, clientVars, TypeInv, TypeOK
<1>2. /\ DOMAIN w = 1 .. Len(w) /\ DOMAIN t = 1 .. Len(w) + 1 /\ Len(w) \in Nat
      /\ t[Len(w) + 1] = Gap /\ \A k \in 1 .. Len(w) : t[k] = w[k]
  <2>1. Gap \in 0 .. Len(log)
    BY <1>0 DEF Gap
  <2>2. Len(log) \in Nat /\ w \in Seq(0 .. Len(log)) /\ t = Append(w, Gap)
    BY <1>0, <1>1
  <2> HIDE DEF w, t
  <2> QED
    BY <2>1, <2>2, WireGrows
<1>3. \A a \in Nat : Linked(a, Gap)
  BY DEF Linked, Gap
<1>4. \A k \in 1 .. Len(w) : w[k] \in Nat
  BY <1>0
<1>5. \A a, b : Linked(a, b)' <=> Linked(a, b)
  BY <1>1 DEF Linked, Hidden, Reused
<1>6. ASSUME NEW k \in DOMAIN t
      PROVE  IF k = 1 THEN cursor[l] = Latest \/ Linked(pos[l], t[1])
                      ELSE Linked(t[k - 1], t[k])
  <2>1. k = 1 \/ k - 1 \in 1 .. Len(w)
    BY <1>2
  <2>2. CASE k \in 1 .. Len(w)
    <3>1. IF k = 1 THEN cursor[l] = Latest \/ Linked(pos[l], w[1]) ELSE Linked(w[k - 1], w[k])
      BY <1>0, <1>2, <2>2 DEF ListenerLinked, WireLinked
    <3>2. t[k] = w[k] /\ (k # 1 => t[k - 1] = w[k - 1])
      BY <1>2, <2>1, <2>2
    <3> QED
      BY <3>1, <3>2
  <2>3. CASE k = Len(w) + 1
    <3>1. t[k] = Gap /\ (k # 1 => t[k - 1] \in Nat)
      BY <1>2, <1>4, <2>1, <2>3
    <3> QED
      BY <1>0, <1>3, <3>1
  <2>4. k \in 1 .. Len(w) \/ k = Len(w) + 1
    BY <1>2
  <2> QED
    BY <2>2, <2>3, <2>4
<1>7. WireLinked(l)'
  <2> HIDE DEF w
  <2> QED
    BY <1>1, <1>5, <1>6 DEF WireLinked
<1> QED
  BY <1>1, <1>7 DEF ListenerLinked, BatchLinked, CheckedMark

LEMMA ReceiveLinks ==
    ASSUME LinkInv, NEW l \in Listeners, Receive(l)
    PROVE  ListenerLinked(l)'
<1> DEFINE w == wire[l]
           t == wire'[l]
<1>0. Len(log) \in Nat /\ w \in Seq(0 .. Len(log)) /\ ListenerLinked(l) /\ MarkInv
  BY LinkPlaces
<1>1. /\ w # << >> /\ pos'[l] = w[1]
      /\ log' = log /\ first' = first
      /\ srv'[l] = srv[l] /\ scur'[l] = scur[l] /\ checked'[l] = checked[l]
      /\ batch'[l] = batch[l] /\ t = Tail(w) /\ Tip(l)' = Tip(l)
  BY <1>0, ReceiveParts
<1>2. /\ Len(w) \in Nat /\ DOMAIN w = 1 .. Len(w) /\ DOMAIN t = 1 .. Len(w) - 1
      /\ \A k \in 1 .. Len(w) - 1 : t[k] = w[k + 1]
  BY <1>0, <1>1, WireShrinks
<1>3. \A a, b : Linked(a, b)' <=> Linked(a, b)
  BY <1>1 DEF Linked, Hidden, Reused
<1>4. ASSUME NEW k \in DOMAIN t
      PROVE  IF k = 1 THEN Linked(pos'[l], t[1]) ELSE Linked(t[k - 1], t[k])
  <2>1. k + 1 \in DOMAIN w /\ k + 1 # 1 /\ t[k] = w[k + 1] /\ (k + 1) - 1 = k
    BY <1>2
  <2>2. Linked(w[k], w[k + 1])
    BY <1>0, <2>1 DEF ListenerLinked, WireLinked
  <2>3. k = 1 \/ (k - 1 \in 1 .. Len(w) - 1 /\ (k - 1) + 1 = k)
    BY <1>2
  <2>4. k # 1 => t[k - 1] = w[k]
    BY <1>2, <2>3
  <2> QED
    BY <1>1, <2>1, <2>2, <2>4
<1>5. WireLinked(l)'
  <2> HIDE DEF w
  <2> QED
    BY <1>3, <1>4 DEF WireLinked
<1>6. BatchLinked(l)' /\ CheckedMark(l)'
  BY <1>0, <1>1 DEF ListenerLinked, BatchLinked, CheckedMark, Hidden, Reused
<1> QED
  BY <1>5, <1>6 DEF ListenerLinked

LEMMA NextLinkInv == LinkInv /\ [Next]_vars => LinkInv'
<1> SUFFICES ASSUME LinkInv, [Next]_vars PROVE LinkInv'
  OBVIOUS
<1>0. MarkInv /\ MarkInv' /\ TypeInv /\ DatesOrKept
  BY NextMarkInv DEF LinkInv, MarkInv
<1>1. CASE Vanish \/ \E n \in BatchSizes : Write(n)
  <2>1. DatesInv' /\ Grows
    BY <1>0, <1>1, AddKeepsDates, RemoveKeepsDates DEF Write, Vanish, DatesOrKept
  <2>3. "delete" \notin Removals => KeptInv'
    BY <1>0, <1>1, AddKeepsOrder, ExpireKeepsOrder DEF Write, Vanish, DatesOrKept
  <2>2. \A l \in Listeners : ListenerLinked(l)'
    BY <1>0, <1>1, <2>1, StreamStep, StreamLinks
  <2> QED
    BY <1>0, <2>1, <2>2, <2>3 DEF LinkInv, DatesOrKept
<1>2. ASSUME NEW l \in Listeners, Client(l) \/ Server(l) PROVE LinkInv'
  <2>1. log' = log /\ first' = first /\ now' = now
    BY <1>0, <1>2, OneListener
  <2>2. DatesOrKept'
    BY <1>0, <2>1, StreamStill
  <2>3. ListenerLinked(l)'
    BY <1>2, ClosedLinks, PauseLinks, XReadLinks, EmitLinks, EmitGapLinks, ReceiveLinks
       DEF Client, Server
  <2>4. \A m \in Listeners : m # l => ListenerLinked(m)'
    BY <1>2, OtherLinksKept
  <2> QED
    BY <1>0, <2>2, <2>3, <2>4 DEF LinkInv
<1>3. CASE UNCHANGED vars
  <2>1. UNCHANGED <<log, first, now, cursor, pos, srv, scur, blk, batch, checked, wire>>
    BY <1>3 DEF vars, streamVars, clientVars, serverVars
  <2>2. DatesOrKept'
    BY <1>0, <2>1, StreamStill
  <2>3. \A l \in Listeners : ListenerLinked(l)'
    BY <2>1 DEF LinkInv, ListenerLinked, WireLinked, BatchLinked, CheckedMark, Linked,
       Hidden, Reused, Tip
  <2> QED
    BY <1>0, <2>2, <2>3 DEF LinkInv
<1> QED
  BY <1>1, <1>2, <1>3 DEF Next

-----------------------------------------------------------------------------
(* Where silent losses come from *)

\* A batch that is read from the id of an event that is still there begins with the
\* next event.
LEMMA NextIsRead ==
    ASSUME NEW lg \in Seq(Id), NEW f \in 1 .. Len(lg) + 1, DatedIds(lg, f),
           NEW p \in f .. Len(lg), NewerIn(lg, f, lg[p]) # {}
    PROVE  p + 1 \in BatchIn(lg, f, lg[p], Limit)
<1> DEFINE N == NewerIn(lg, f, lg[p])
<1>1. PICK i \in f .. Len(lg) : Before(lg[p], lg[i])
  BY DEF NewerIn
<1>2. /\ Len(lg) \in Nat /\ \A k \in 1 .. Len(lg) : lg[k] \in Id
      /\ Limit \in Nat \ {0} /\ p \in Nat /\ i \in 1 .. Len(lg) /\ p \in 1 .. Len(lg)
  BY SseAssumption
<1>3. \A k \in f .. Len(lg) : Before(lg[p], lg[k]) => k > p
  <2> SUFFICES ASSUME NEW k \in f .. Len(lg), Before(lg[p], lg[k]), ~(k > p) PROVE FALSE
    OBVIOUS
  <2>1. k = p \/ k < p
    BY <1>2
  <2>2. lg[k] = lg[p] \/ Before(lg[k], lg[p])
    BY <1>2, <2>1 DEF DatedIds
  <2>3. lg[k] \in Id /\ lg[p] \in Id
    BY <1>2
  <2> QED
    BY <2>2, <2>3, BeforeIsStrict
<1>4. p + 1 \in 1 .. Len(lg) /\ p + 1 \in f .. Len(lg) /\ p < p + 1
  BY <1>1, <1>2, <1>3
<1>5. p + 1 \in N
  BY <1>4 DEF DatedIds, NewerIn
<1>6. (p + 1) - Limit \notin N
  <2> SUFFICES ASSUME (p + 1) - Limit \in N PROVE FALSE
    OBVIOUS
  <2>1. (p + 1) - Limit \in f .. Len(lg) /\ Before(lg[p], lg[(p + 1) - Limit])
    BY <1>2 DEF NewerIn
  <2>2. (p + 1) - Limit > p
    BY <1>3, <2>1
  <2> QED
    BY <1>2, <2>2
<1> QED
  BY <1>5, <1>6 DEF BatchIn

\* The step that answers a read, and what it answers from.
LEMMA AnsweredRead ==
    ASSUME LinkInv, [Next]_vars, NEW l \in Listeners,
           srv[l] # "emit", srv'[l] = "emit", scur[l] \notin {Latest, Zero}
    PROVE  /\ DatesInv' /\ Grows
           /\ srv[l] \in {"read", "blocked"}
           /\ batch'[l] = BatchIn(log', first', scur[l], Limit)
           /\ NewerIn(log', first', scur[l]) # {}
<1>0. /\ MarkInv /\ TypeInv /\ ListenerMarked(l) /\ StreamInv /\ ListenerOrder(l)
  BY LinkPlaces
<1>1. LinkInv'
  BY NextLinkInv
<1>2. DatesInv'
  BY <1>1 DEF LinkInv, DatesOrKept
<1>3. CASE Vanish \/ \E n \in BatchSizes : Write(n)
  <2>1. /\ Grows /\ srv[l] = "blocked" /\ batch'[l] = Batch(blk[l], Limit)'
        /\ batch'[l] # {} /\ blk'[l] = blk[l]
    BY <1>0, <1>3, StreamStep
  <2>2. blk[l] = scur[l]
    BY <1>0, <2>1 DEF ListenerMarked, ServerMark
  <2>3. batch'[l] = BatchIn(log', first', scur[l], Limit)
    BY <2>1, <2>2 DEF Batch, Newer, Live, BatchIn, NewerIn
  <2>4. NewerIn(log', first', scur[l]) # {}
    BY <2>1, <2>3 DEF BatchIn
  <2> QED
    BY <1>2, <2>1, <2>3, <2>4
<1>4. CASE Client(l) \/ Server(l)
  <2>1. log' = log /\ first' = first
    BY <1>0, <1>4, OneListener
  <2>2. XRead(l)
    BY <1>0, <1>4 DEF Client, Server, Start, Connect, ConnectFault, Cut, EndResponse, Refuse,
       Receive, ReceiveGap, Check, BlockTimeout, Emit, EmitGap, Fault, CloseResponse,
       serverVars, TypeInv, TypeOK
  <2>3. /\ srv[l] = "read" /\ batch'[l] = Batch(scur[l], Limit) /\ Newer(scur[l]) # {}
    BY <1>0, <2>2 DEF XRead, Resolve, TypeInv, TypeOK
  <2>4. /\ batch'[l] = BatchIn(log', first', scur[l], Limit)
        /\ NewerIn(log', first', scur[l]) # {}
    BY <2>1, <2>3 DEF Batch, Newer, Live, BatchIn, NewerIn
  <2>5. Grows
    BY <1>0, <2>1 DEF Grows, StreamInv, StreamType
  <2> QED
    BY <1>2, <2>3, <2>4, <2>5
<1>5. ASSUME NEW m \in Listeners, m # l, Client(m) \/ Server(m) PROVE FALSE
  BY <1>0, <1>5, OneListener
<1>6. CASE UNCHANGED vars
  BY <1>6 DEF vars, serverVars
<1> QED
  BY <1>3, <1>4, <1>5, <1>6 DEF Next

LEMMA LossNeedsARace ==
    ASSUME LinkInv, [Next]_vars, NEW l \in Listeners,
           srv[l] # "emit", srv'[l] = "emit", scur[l] \notin {Latest, Zero},
           checked[l] # 0, <<Sent(l), checked[l]>> \notin Hides, ~(checked[l] < first')
    PROVE  Sent(l) + 1 \in batch'[l]
<1>0. /\ MarkInv /\ ListenerLinked(l) /\ StreamInv /\ Tip(l) \in Nat /\ checked[l] \in Int
      /\ Len(log) \in Nat
  BY LinkPlaces DEF TypeInv, TypeOK
<1>1. /\ DatesInv' /\ Grows
      /\ srv[l] \in {"read", "blocked"}
      /\ batch'[l] = BatchIn(log', first', scur[l], Limit)
      /\ NewerIn(log', first', scur[l]) # {}
  BY AnsweredRead
<1>2. Mark(scur[l], Tip(l)) /\ Sent(l) = Tip(l) /\ checked[l] <= Tip(l)
  <2>1. Mark(scur[l], Tip(l)) /\ Sent(l) = Tip(l)
    BY <1>0, <1>1, ServerPlace
  <2>2. checked[l] <= Tip(l) \/ Hidden(Tip(l), checked[l])
    BY <1>0, <1>1 DEF ListenerLinked, CheckedMark
  <2> QED
    BY <1>0, <2>1, <2>2, HidesIsHidden
<1>3. PICK p \in Nat : p = Tip(l)
  BY <1>0
<1>4. p \in 1 .. Len(log) /\ scur[l] = log[p]
  BY <1>2, <1>3 DEF Mark
<1>5. /\ log' \in Seq(Id) /\ first' \in 1 .. Len(log') + 1 /\ DatedIds(log', first')
  BY <1>1 DEF DatesInv, StreamInv, StreamType, Ascending, Live, Dates, DatedIds
<1>6. p \in 1 .. Len(log') /\ scur[l] = log'[p]
  BY <1>0, <1>1, <1>4, <1>5 DEF Grows
<1>7. p \in first' .. Len(log')
  BY <1>0, <1>2, <1>3, <1>5, <1>6
<1>8. p + 1 \in batch'[l]
  BY <1>1, <1>5, <1>6, <1>7, NextIsRead
<1> QED
  BY <1>2, <1>3, <1>8

\* A read begins with the event after the last one that was sent, unless the key
\* was empty at its trim check or the oldest entry had an id that was used before,
\* or entries were removed between the check and the answer.
THEOREM LossesAreRaces == Spec => SilentLossNeedsARace
<1>1. LinkInv /\ [Next]_vars => LinkInv'
  BY NextLinkInv
<1>2. LinkInv /\ [Next]_vars
      => [\A l \in Listeners :
            srv[l] # "emit" /\ srv'[l] = "emit" /\ scur[l] \notin {Latest, Zero}
            => \/ Sent(l) + 1 \in batch'[l]
               \/ checked[l] = 0
               \/ <<Sent(l), checked[l]>> \in Hides
               \/ checked[l] < first']_vars
  BY LossNeedsARace
<1> QED
  BY <1>1, <1>2, InitLinkInv, PTL DEF Spec, SilentLossNeedsARace

-----------------------------------------------------------------------------
(* The steps of the feed *)

LEMMA InitFeed == Init => Feed!FeedInit
<1> SUFFICES ASSUME Init PROVE Feed!FeedInit
  OBVIOUS
<1>1. Len(log) = 0 /\ first = 1 /\ pos = [l \in Listeners |-> 0]
  BY DEF Init, StreamInit
<1>2. \A l \in Listeners : Status(l) = "idle"
  BY DEF Init, Status, Ended
<1>3. [l \in Listeners |-> Status(l)] = [l \in Listeners |-> "idle"]
  BY <1>2
<1>4. Hides = {}
  BY <1>1 DEF Hides
<1> QED
  BY <1>1, <1>3, <1>4 DEF Feed!FeedInit

\* A step of one listener changes what one application sees.
LEMMA OtherStatus ==
    ASSUME TypeInv, NEW l \in Listeners, Client(l) \/ Server(l), NEW m \in Listeners, m # l
    PROVE  Status(m)' = Status(m)
<1>1. cst'[m] = cst[m] /\ cursor'[m] = cursor[m]
  BY OneListener
<1> QED
  BY <1>1 DEF Status

\* What the feed sees, when it sees nothing.
LEMMA FeedStutters ==
    ASSUME UNCHANGED <<log, first, pos>>, \A l \in Listeners : Status(l)' = Status(l)
    PROVE  UNCHANGED Feed!feedVars
<1>1. [l \in Listeners |-> Status(l)]' = [l \in Listeners |-> Status(l)]
  OBVIOUS
<1>2. Hides' = Hides
  BY DEF Hides, Reused
<1> QED
  BY <1>1, <1>2 DEF Feed!feedVars

LEMMA StreamStepFeed ==
    ASSUME TypeInv, StreamInv', Grows, UNCHANGED clientVars
    PROVE  Feed!Publish
<1>1. /\ Len(log') \in Nat /\ Len(log') >= Len(log) /\ first' \in first .. Len(log') + 1
  BY TypeHasStreamInv DEF Grows, StreamInv, StreamType
<1>2. pos' = pos /\ \A l \in Listeners : Status(l)' = Status(l)
  BY DEF clientVars, Status
<1>3. [l \in Listeners |-> Status(l)]' = [l \in Listeners |-> Status(l)]
  BY <1>2
<1>4. /\ Hides \subseteq Hides'
      /\ \A h \in Hides' \ Hides : h[1] < first' /\ h[2] > Len(log)
  BY TypeHasStreamInv, HidesGrows
<1> QED
  BY <1>1, <1>2, <1>3, <1>4 DEF Feed!Publish

LEMMA ListenerStepFeed ==
    ASSUME LinkInv, NEW l \in Listeners, Client(l) \/ Server(l)
    PROVE  [Feed!FeedNext]_(Feed!feedVars)
<1> DEFINE s == [m \in Listeners |-> Status(m)]
<1>0. /\ TypeInv /\ MarkInv /\ ListenerLinked(l) /\ cst \in [Listeners -> {"idle", "connect", "open"} \cup Ended]
      /\ pos \in [Listeners -> 0 .. Len(log)] /\ Len(log) \in Nat
      /\ cursor \in [Listeners -> Cursor]
  BY LinkPlaces DEF TypeInv, TypeOK
<1>1. /\ s' = [s EXCEPT ![l] = Status(l)']
      /\ UNCHANGED <<log, first>> => UNCHANGED <<log, first, Hides>>
  BY <1>0, OtherStatus DEF Hides, Reused
<1>2. CASE Start(l)
  <2>1. /\ log' = log /\ first' = first /\ cst[l] = "idle" /\ cst'[l] = "connect"
    BY <1>0, <1>2 DEF Start, streamVars
  <2>2. s[l] = "idle" /\ Status(l)' \in {"listening", "latest"}
    BY <2>1 DEF Status, Ended
  <2>3. \E i \in 0 .. Len(log) : pos' = [pos EXCEPT ![l] = i]
    <3>1. CASE pos' = pos
      <4>1. pos' = [pos EXCEPT ![l] = pos[l]] /\ pos[l] \in 0 .. Len(log)
        BY <1>0, <3>1
      <4> QED
        BY <4>1
    <3>2. CASE pos' = [pos EXCEPT ![l] = Len(log)]
      <4>1. Len(log) \in 0 .. Len(log)
        BY <1>0
      <4> QED
        BY <3>2, <4>1
    <3>3. ASSUME NEW i \in 1 .. Len(log), pos' = [pos EXCEPT ![l] = i]
          PROVE  \E k \in 0 .. Len(log) : pos' = [pos EXCEPT ![l] = k]
      <4>1. i \in 0 .. Len(log)
        BY <1>0
      <4> QED
        BY <3>3, <4>1
    <3> QED
      BY <1>2, <3>1, <3>2, <3>3 DEF Start
  <2>4. Feed!Listen(l)
    BY <1>1, <2>1, <2>2, <2>3 DEF Feed!Listen
  <2> QED
    BY <2>4 DEF Feed!FeedNext
<1>3. CASE /\ UNCHANGED <<log, first, pos, cursor>>
           /\ cst'[l] = cst[l] \/ (cst[l] \in {"connect", "open"} /\ cst'[l] \in {"connect", "open"})
  <2>1. Status(l)' = Status(l)
    BY <1>3 DEF Status, Ended
  <2> QED
    BY <1>0, <1>3, <2>1, OtherStatus, FeedStutters
<1>4. CASE /\ UNCHANGED <<log, first, pos, cursor>>
           /\ cst[l] \in {"connect", "open"} /\ cst'[l] \in Ended
  <2>1. s[l] \in {"latest", "listening"} /\ Status(l)' = "ended"
    BY <1>4 DEF Status, Ended
  <2>2. Feed!End(l)
    BY <1>1, <1>4, <2>1 DEF Feed!End
  <2> QED
    BY <2>2 DEF Feed!FeedNext
<1>5. CASE Receive(l)
  <2> DEFINE i == wire[l][1]
  <2>1. /\ i \in 1 .. Len(log) /\ pos[l] < i /\ cst[l] = "open" /\ cst'[l] = "open"
        /\ cursor'[l] \in Id /\ pos'[l] = i /\ log' = log /\ first' = first
        /\ 1 \in DOMAIN wire[l]
    BY <1>0, <1>5, ReceiveParts
  <2>2. pos' = [pos EXCEPT ![l] = i]
    BY <1>0, <1>5, <2>1 DEF Receive
  <2>3. Status(l)' = "listening" /\ s[l] = (IF cursor[l] = Latest THEN "latest" ELSE "listening")
    BY <2>1, IdIsNotLatest DEF Status, Ended
  <2>4. cursor[l] # Latest =>
          \A j \in pos[l] + 1 .. i - 1 : j < first \/ <<pos[l], j>> \in Hides
    <3>1. cursor[l] = Latest \/ Linked(pos[l], i)
      BY <1>0, <2>1 DEF ListenerLinked, WireLinked
    <3>2. pos[l] \in Nat /\ StreamInv
      BY <1>0, LinkPlaces
    <3> HIDE DEF i
    <3> QED
      BY <2>1, <3>1, <3>2, HidesIsHidden DEF Linked
  <2> HIDE DEF i
  <2>5. Feed!Deliver(l, i)
    BY <1>0, <1>1, <2>1, <2>2, <2>3, <2>4 DEF Feed!Deliver
  <2> QED
    BY <2>1, <2>5 DEF Feed!FeedNext
<1>6. CASE Connect(l) \/ EndResponse(l) \/ Server(l)
  BY <1>0, <1>3, <1>6 DEF Connect, EndResponse, Server, Check, XRead, BlockTimeout, Emit,
     EmitGap, streamVars, clientVars
<1>7. CASE ConnectFault(l) \/ Cut(l) \/ Refuse(l) \/ ReceiveGap(l)
  <2>1. UNCHANGED <<log, first, pos, cursor>> /\ cst[l] \in {"connect", "open"}
    BY <1>7 DEF ConnectFault, Cut, Fault, Refuse, ReceiveGap, streamVars
  <2>2. cst'[l] \in Ended \/ cst'[l] = "connect"
    BY <1>0, <1>7 DEF ConnectFault, Cut, Fault, Refuse, ReceiveGap, Ended
  <2> QED
    BY <1>3, <1>4, <2>1, <2>2
<1> QED
  BY <1>2, <1>5, <1>6, <1>7 DEF Client

LEMMA StepFeed ==
    ASSUME LinkInv, [Next]_vars
    PROVE  [Feed!FeedNext]_(Feed!feedVars)
<1>0. TypeInv /\ StreamInv
  BY TypeHasStreamInv DEF LinkInv, MarkInv
<1>1. CASE Vanish \/ \E n \in BatchSizes : Write(n)
  <2>1. StreamInv' /\ Grows /\ UNCHANGED clientVars
    BY <1>0, <1>1, AddKeeps, RemoveKeeps DEF Vanish, Write
  <2> QED
    BY <1>0, <2>1, StreamStepFeed DEF Feed!FeedNext
<1>2. ASSUME NEW l \in Listeners, Client(l) \/ Server(l)
      PROVE  [Feed!FeedNext]_(Feed!feedVars)
  BY <1>2, ListenerStepFeed
<1>3. CASE UNCHANGED vars
  <2>1. UNCHANGED <<log, first, pos>> /\ \A l \in Listeners : Status(l)' = Status(l)
    BY <1>3 DEF vars, streamVars, clientVars, Status
  <2> QED
    BY <2>1, FeedStutters
<1> QED
  BY <1>1, <1>2, <1>3 DEF Next

\* Whatever removes entries, what a listener is handed through _sse_events,
\* event_stream and Store.read is what the feed promises: it passes over an event
\* that is still in Redis only when that is hidden behind the listener's last one,
\* whatever breaks and however it reconnects.
THEOREM Implements == Spec => ImplementsFeed
<1>1. Init => LinkInv /\ Feed!FeedInit
  BY InitLinkInv, InitFeed
<1>2. LinkInv /\ [Next]_vars => LinkInv'
  BY NextLinkInv
<1>3. LinkInv /\ [Next]_vars => [Feed!FeedNext]_(Feed!feedVars)
  BY StepFeed
<1> QED
  BY <1>1, <1>2, <1>3, PTL DEF Spec, ImplementsFeed, Feed!FeedSpec

\* Where streams are trimmed and expire but are not deleted, nothing is ever hidden.
THEOREM OnlyDeletionHides ==
    ASSUME "delete" \notin Removals
    PROVE  Spec => [](Hides = {})
<1>1. LinkInv => Hides = {}
  BY NothingHides DEF LinkInv, DatesOrKept
<1> QED
  BY <1>1, InitLinkInv, NextLinkInv, PTL DEF Spec
=============================================================================
