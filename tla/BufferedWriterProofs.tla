--------------------------- MODULE BufferedWriterProofs ------------------------
(***************************************************************************)
(* What the synchronous writer promises, for every batch size and through  *)
(* any number of failures: no event that was put is lost, and the stream   *)
(* gets them in the order they were put.                                   *)
(***************************************************************************)
EXTENDS BufferedWriter, TLAPS

\* The synchronous writer: a caller is blocked while put_many runs, so that the
\* writer is used by one task at a time.
Synchronous == \A t, u \in Tasks : t = u

-----------------------------------------------------------------------------
(* The inductive invariant *)

\* How many of the events that were put have left the buffer.
Gone == puts - Len(buffer)

\* The buffer holds the newest events, without a hole and in order.
BufferIsTail ==
    /\ Len(buffer) <= puts
    /\ \A k \in 1 .. Len(buffer) : buffer[k] = Gone + k

\* While put_many runs, the buffer is what was sent.
SentIsBuffer == \A t \in Tasks : pc[t] # "idle" => sent[t] = buffer

\* The events that left the buffer are in the stream, and all of them are once
\* put_many has been answered.
GoneAreStored ==
    /\ 1 .. Gone \subseteq InSeq(stored)
    /\ \A t \in Tasks : pc[t] = "stored" => 1 .. puts \subseteq InSeq(stored)

\* A closed writer has nothing left, and nothing under way.
ClosedIsEmpty ==
    state = "closed" => buffer = << >> /\ \A t \in Tasks : pc[t] = "idle"

\* What is in the stream and in the buffer, while no answer that says so is on its
\* way, is in doubt.
HeldIsDoubted ==
    \A t \in Tasks : pc[t] # "stored" =>
      \A k \in DOMAIN stored : stored[k] > Gone => stored[k] \in doubt

WriterInv ==
    /\ TypeOK
    /\ BufferIsTail
    /\ SentIsBuffer
    /\ GoneAreStored
    /\ ClosedIsEmpty
    /\ HeldIsDoubted
    /\ OnlyDoubtfulTwice
    /\ StoredInOrder
-----------------------------------------------------------------------------
(* Type correctness, for any number of tasks *)

\* More numbers make more sequences.
LEMMA SeqsGrow ==
    ASSUME NEW m \in Nat, NEW n \in Nat, m <= n, NEW s \in Seq(1 .. m)
    PROVE  s \in Seq(1 .. n)
  OBVIOUS

LEMMA InitType == Init => TypeOK
  BY WriterAssumption DEF Init, TypeOK

\* Sending a list of events that were put.
LEMMA SendType ==
    ASSUME TypeOK, NEW t \in Tasks, NEW n \in Nat, puts <= n,
           NEW items \in Seq(1 .. n), items # << >>, Send(t, items)
    PROVE  /\ pc' \in [Tasks -> {"idle", "sent", "stored", "failed"}]
           /\ sent' \in [Tasks -> Seq(1 .. n)]
           /\ \A u \in Tasks : pc'[u] = "idle" <=> sent'[u] = << >>
  <1>1. sent \in [Tasks -> Seq(1 .. n)]
    <2>1. puts \in Nat
      BY DEF TypeOK
    <2>2. \A u \in Tasks : sent[u] \in Seq(1 .. n)
      BY <2>1, SeqsGrow DEF TypeOK
    <2>3. QED
      BY <2>2 DEF TypeOK
  <1>2. pc' = [pc EXCEPT ![t] = "sent"] /\ sent' = [sent EXCEPT ![t] = items]
    BY DEF Send
  <1>3. \A u \in Tasks : pc'[u] = "idle" <=> sent'[u] = << >>
    BY <1>1, <1>2 DEF TypeOK
  <1>4. QED
    BY <1>1, <1>2, <1>3 DEF TypeOK

LEMMA NextType == TypeOK /\ [Next]_vars => TypeOK'
  <1> SUFFICES ASSUME TypeOK, [Next]_vars PROVE TypeOK'
    OBVIOUS
  <1>0. puts \in Nat /\ MaxPuts \in Nat /\ MaxFaults \in Nat /\ faults \in Nat
    BY WriterAssumption DEF TypeOK
  <1>1. ASSUME NEW t \in Tasks, Put(t) PROVE TypeOK'
    <2>1. /\ puts' = puts + 1 /\ puts' \in 0 .. MaxPuts
          /\ UNCHANGED <<state, stored, faults>>
      BY <1>0, <1>1 DEF Put, TypeOK
    <2>2. buffer' \in Seq(1 .. puts')
      <3>1. buffer \in Seq(1 .. puts + 1)
        BY <1>0, SeqsGrow DEF TypeOK
      <3>2. puts + 1 \in 1 .. puts + 1
        BY <1>0
      <3>3. QED
        BY <1>1, <2>1, <3>1, <3>2 DEF Put
    <2>3. stored' \in Seq(1 .. puts')
      BY <1>0, <2>1, SeqsGrow DEF TypeOK
    <2>4. /\ pc' \in [Tasks -> {"idle", "sent", "stored", "failed"}]
          /\ sent' \in [Tasks -> Seq(1 .. puts')]
          /\ \A u \in Tasks : pc'[u] = "idle" <=> sent'[u] = << >>
      <3>1. CASE UNCHANGED <<pc, sent>>
        <4>1. \A u \in Tasks : sent[u] \in Seq(1 .. puts')
          BY <1>0, <2>1, SeqsGrow DEF TypeOK
        <4>2. QED
          BY <3>1, <4>1 DEF TypeOK
      <3>2. CASE Send(t, buffer')
        <4>1. PICK items : items = buffer'
          OBVIOUS
        <4>2. PICK n : n = puts'
          OBVIOUS
        <4>3. /\ pc' \in [Tasks -> {"idle", "sent", "stored", "failed"}]
              /\ sent' \in [Tasks -> Seq(1 .. n)]
              /\ \A u \in Tasks : pc'[u] = "idle" <=> sent'[u] = << >>
          <5>1. buffer' # << >>
            BY <1>0, <1>1, SMTT(30) DEF Put, TypeOK
          <5>2. QED
            BY <1>0, <2>1, <2>2, <3>2, <4>1, <4>2, <5>1, SendType
        <4>4. QED
          BY <4>2, <4>3
      <3>3. QED
        BY <1>1, <3>1, <3>2 DEF Put
    <2>6. doubt' \subseteq 1 .. puts'
      BY <1>0, <1>1, <2>1 DEF Put, TypeOK
    <2>5. QED
      BY <2>1, <2>2, <2>3, <2>4, <2>6 DEF TypeOK
  <1>2. ASSUME NEW t \in Tasks, Flush(t) PROVE TypeOK'
    <2>1. buffer \in Seq(1 .. puts)
      BY DEF TypeOK
    <2>2. /\ pc' \in [Tasks -> {"idle", "sent", "stored", "failed"}]
          /\ sent' \in [Tasks -> Seq(1 .. puts)]
          /\ \A u \in Tasks : pc'[u] = "idle" <=> sent'[u] = << >>
      BY <1>0, <1>2, <2>1, SendType DEF Flush
    <2>3. QED
      BY <1>2, <2>2 DEF Flush, TypeOK
  <1>3. ASSUME NEW t \in Tasks, Close(t) PROVE TypeOK'
    <2>1. CASE buffer = << >>
      BY <1>3, <2>1 DEF Close, TypeOK
    <2>2. CASE buffer # << >>
      <3>1. buffer \in Seq(1 .. puts)
        BY DEF TypeOK
      <3>2. /\ pc' \in [Tasks -> {"idle", "sent", "stored", "failed"}]
            /\ sent' \in [Tasks -> Seq(1 .. puts)]
            /\ \A u \in Tasks : pc'[u] = "idle" <=> sent'[u] = << >>
        BY <1>0, <1>3, <2>2, <3>1, SendType DEF Close
      <3>3. QED
        BY <1>3, <2>2, <3>2 DEF Close, TypeOK
    <2>3. QED
      BY <2>1, <2>2
  <1>4. ASSUME NEW t \in Tasks, Succeed(t) PROVE TypeOK'
    BY <1>4 DEF Succeed, TypeOK
  <1>5. ASSUME NEW t \in Tasks, Fail(t) PROVE TypeOK'
    BY <1>5 DEF Fail, TypeOK
  <1>6. ASSUME NEW t \in Tasks, Store(t) PROVE TypeOK'
    <2>1. stored' \in Seq(1 .. puts)
      BY <1>6 DEF Store, TypeOK
    <2>2. QED
      BY <1>6, <2>1 DEF Store, TypeOK
  <1>7. ASSUME NEW t \in Tasks, TooLong(t) PROVE TypeOK'
    BY <1>7 DEF TooLong, TypeOK
  <1>8. ASSUME NEW t \in Tasks, LoseRequest(t) \/ LoseAnswer(t) PROVE TypeOK'
    <2>1. InSeq(sent[t]) \subseteq 1 .. puts
      BY DEF TypeOK, InSeq
    <2>4. /\ doubt \subseteq 1 .. puts
          /\ doubt' = doubt \/ doubt' = doubt \cup InSeq(sent[t])
      BY <1>8 DEF LoseRequest, LoseAnswer, TypeOK
    <2>5. doubt' \subseteq 1 .. puts
      BY <2>1, <2>4
    <2>6. /\ faults' = faults + 1 /\ faults < MaxFaults
          /\ pc[t] # "idle" /\ pc' = [pc EXCEPT ![t] = "failed"]
          /\ UNCHANGED <<puts, buffer, sent, state, stored>>
      BY <1>8 DEF LoseRequest, LoseAnswer
    <2>2. doubt' \subseteq 1 .. puts /\ faults' \in 0 .. MaxFaults
      BY <1>0, <2>5, <2>6 DEF TypeOK
    <2>3. QED
      BY <2>2, <2>6 DEF TypeOK
  <1>12. ASSUME NEW t \in Tasks, Repeat(t) PROVE TypeOK'
    <2>1. InSeq(sent[t]) \subseteq 1 .. puts
      BY DEF TypeOK, InSeq
    <2>2. stored' \in Seq(1 .. puts)
      BY <1>12 DEF Repeat, TypeOK
    <2>5. doubt \subseteq 1 .. puts /\ doubt' = doubt \cup InSeq(sent[t])
      BY <1>12 DEF Repeat, TypeOK
    <2>6. faults' = faults + 1 /\ faults < MaxFaults
      BY <1>12 DEF Repeat
    <2>7. faults' \in 0 .. MaxFaults
      BY <1>0, <2>6
    <2>3. doubt' \subseteq 1 .. puts /\ faults' \in 0 .. MaxFaults
      BY <2>1, <2>5, <2>7
    <2>4. QED
      BY <1>12, <2>2, <2>3 DEF Repeat, TypeOK
  <1>9. ASSUME Abandon PROVE TypeOK'
    BY <1>9 DEF Abandon, TypeOK
  <1>10. CASE UNCHANGED vars
    BY <1>10 DEF vars, TypeOK
  <1>11. QED
    BY <1>1, <1>2, <1>3, <1>4, <1>5, <1>6, <1>7, <1>8, <1>9, <1>10, <1>12 DEF Next

\* Type correctness of the writers, of the asynchronous one too.
THEOREM TypeCorrect == Spec => []TypeOK
  <1>1. QED
    BY InitType, NextType, PTL DEF Spec

-----------------------------------------------------------------------------
(* The invariant is inductive *)

LEMMA InitWriter == Init => WriterInv
  <1> SUFFICES ASSUME Init PROVE WriterInv
    OBVIOUS
  <1>1. TypeOK
    BY InitType
  <1>2. Len(buffer) = 0 /\ Len(stored) = 0 /\ puts = 0
    BY DEF Init
  <1>3. BufferIsTail /\ ClosedIsEmpty /\ StoredInOrder
    BY <1>2 DEF Init, BufferIsTail, ClosedIsEmpty, StoredInOrder, Gone
  <1>4. SentIsBuffer
    BY DEF Init, SentIsBuffer
  <1>5. Gone = 0 /\ \A t \in Tasks : pc[t] = "idle"
    <2>1. Gone = 0
      BY <1>2 DEF Gone
    <2>2. QED
      BY <2>1 DEF Init
  <1>6. GoneAreStored /\ HeldIsDoubted /\ OnlyDoubtfulTwice
    BY <1>2, <1>5 DEF Init, GoneAreStored, HeldIsDoubted, OnlyDoubtfulTwice
  <1>7. QED
    BY <1>1, <1>3, <1>4, <1>6 DEF WriterInv

\* What is in the stream and has not left the buffer is in the buffer.
LEMMA HeldInBuffer ==
    ASSUME WriterInv, NEW k \in DOMAIN stored, stored[k] > Gone
    PROVE  stored[k] \in InSeq(buffer)
  <1>1. /\ puts \in Nat /\ Len(buffer) \in Nat /\ DOMAIN buffer = 1 .. Len(buffer)
        /\ stored[k] \in 1 .. puts
        /\ \A i \in 1 .. Len(buffer) : buffer[i] = Gone + i
    BY DEF WriterInv, TypeOK, BufferIsTail
  <1>2. stored[k] - Gone \in 1 .. Len(buffer)
    BY <1>1 DEF Gone
  <1>3. buffer[stored[k] - Gone] = stored[k]
    <2>1. buffer[stored[k] - Gone] = Gone + (stored[k] - Gone)
      BY <1>1, <1>2
    <2>2. QED
      BY <1>1, <2>1 DEF Gone
  <1>4. QED
    BY <1>1, <1>2, <1>3 DEF InSeq

\* Nothing but putting an event and the return of put_many touches the buffer,
\* and nothing but the request stored changes the stream.
LEMMA OnlyCallMoves ==
    ASSUME WriterInv, Synchronous, TypeOK', NEW t \in Tasks,
           UNCHANGED <<puts, buffer, stored>>,
           state' = "closed" => buffer = << >> /\ pc'[t] = "idle",
           pc'[t] # "idle" => sent'[t] = buffer,
           pc'[t] = "stored" => pc[t] = "stored", doubt \subseteq doubt',
           pc[t] = "stored" /\ pc'[t] # "stored" => InSeq(buffer) \subseteq doubt'
    PROVE  WriterInv'
  <1>1. \A u \in Tasks : u = t
    BY DEF Synchronous
  <1>2. BufferIsTail' /\ StoredInOrder' /\ Gone' = Gone
    BY DEF WriterInv, BufferIsTail, StoredInOrder, Gone
  <1>3. SentIsBuffer' /\ ClosedIsEmpty'
    BY <1>1 DEF SentIsBuffer, ClosedIsEmpty
  <1>4. GoneAreStored'
    BY <1>1, <1>2 DEF WriterInv, GoneAreStored, InSeq
  <1>5. HeldIsDoubted'
    <2> SUFFICES ASSUME pc'[t] # "stored", NEW k \in DOMAIN stored, stored[k] > Gone
                 PROVE  stored[k] \in doubt'
      BY <1>1, <1>2 DEF HeldIsDoubted
    <2>1. CASE pc[t] # "stored"
      BY <2>1 DEF WriterInv, HeldIsDoubted
    <2>2. CASE pc[t] = "stored"
      BY <2>2, HeldInBuffer
    <2>3. QED
      BY <2>1, <2>2
  <1>6. OnlyDoubtfulTwice'
    BY DEF WriterInv, OnlyDoubtfulTwice
  <1>7. QED
    BY <1>2, <1>3, <1>4, <1>5, <1>6 DEF WriterInv

\* put: the event becomes the last of the buffer.
LEMMA PutWriter ==
    ASSUME WriterInv, Synchronous, TypeOK', NEW t \in Tasks, Put(t)
    PROVE  WriterInv'
  <1>1. \A u \in Tasks : u = t
    BY DEF Synchronous
  <1>2. /\ puts \in Nat /\ buffer \in Seq(1 .. puts)
        /\ puts' = puts + 1 /\ buffer' = Append(buffer, puts + 1)
        /\ UNCHANGED <<state, stored, doubt>> /\ state = "open" /\ pc[t] = "idle"
    BY DEF WriterInv, TypeOK, Put
  <1>3. Len(buffer') = Len(buffer) + 1 /\ Gone' = Gone /\ Gone \in Nat
    BY <1>2 DEF WriterInv, BufferIsTail, Gone
  <1>4. BufferIsTail'
    <2>1. Len(buffer') <= puts'
      BY <1>2, <1>3 DEF WriterInv, BufferIsTail
    <2>2. ASSUME NEW k \in 1 .. Len(buffer') PROVE buffer'[k] = Gone + k
      <3>1. CASE k = Len(buffer) + 1
        BY <1>2, <3>1 DEF Gone
      <3>2. CASE k \in 1 .. Len(buffer)
        BY <1>2, <3>2 DEF WriterInv, BufferIsTail
      <3>3. QED
        BY <1>2, <1>3, <2>2, <3>1, <3>2
    <2>3. QED
      BY <1>3, <2>1, <2>2 DEF BufferIsTail
  <1>5. pc'[t] = "idle" \/ (pc'[t] = "sent" /\ sent'[t] = buffer')
    BY <1>2 DEF Put, Send, WriterInv, TypeOK
  <1>6. SentIsBuffer' /\ ClosedIsEmpty'
    BY <1>1, <1>2, <1>5 DEF SentIsBuffer, ClosedIsEmpty
  <1>7. GoneAreStored'
    BY <1>1, <1>2, <1>3, <1>5 DEF WriterInv, GoneAreStored, InSeq
  <1>8. HeldIsDoubted' /\ OnlyDoubtfulTwice'
    BY <1>1, <1>2, <1>3 DEF WriterInv, HeldIsDoubted, OnlyDoubtfulTwice
  <1>9. StoredInOrder'
    BY <1>2 DEF WriterInv, StoredInOrder
  <1>10. QED
    BY <1>4, <1>6, <1>7, <1>8, <1>9 DEF WriterInv

\* The server stores what was sent: the events after those that left the buffer.
LEMMA StoreWriter ==
    ASSUME WriterInv, Synchronous, TypeOK', NEW t \in Tasks,
           pc[t] # "idle", pc'[t] = "stored", stored' = stored \o sent[t],
           UNCHANGED <<puts, buffer, sent, state>>, doubt \subseteq doubt',
           pc[t] = "stored" => InSeq(sent[t]) \subseteq doubt'
    PROVE  WriterInv'
  <1> DEFINE n == Len(stored)
  <1>1. \A u \in Tasks : u = t
    BY DEF Synchronous
  <1>2. /\ puts \in Nat /\ buffer \in Seq(1 .. puts) /\ stored \in Seq(1 .. puts)
        /\ sent[t] = buffer /\ stored' = stored \o buffer
        /\ pc[t] # "idle" /\ pc'[t] = "stored"
    <2>1. sent[t] = buffer
      BY DEF WriterInv, SentIsBuffer
    <2>2. QED
      BY <2>1 DEF WriterInv, TypeOK
  <1>3. /\ Gone' = Gone /\ Gone \in Nat /\ puts = Gone + Len(buffer)
        /\ \A k \in 1 .. Len(buffer) : buffer[k] = Gone + k
        /\ n \in Nat /\ Len(buffer) \in Nat
    BY <1>2 DEF WriterInv, BufferIsTail, Gone
  <1>4. /\ Len(stored') = n + Len(buffer)
        /\ \A k \in 1 .. n : stored'[k] = stored[k]
        /\ \A k \in 1 .. Len(buffer) : stored'[n + k] = Gone + k
    <2>1. /\ Len(stored') = Len(stored) + Len(buffer)
          /\ \A k \in 1 .. Len(stored) : stored'[k] = stored[k]
          /\ \A k \in 1 .. Len(buffer) : stored'[Len(stored) + k] = buffer[k]
      BY <1>2
    <2>2. QED
      BY <1>3, <2>1
  <1>5. DOMAIN stored = 1 .. n /\ DOMAIN stored' = 1 .. (n + Len(buffer))
    BY <1>2, <1>3, <1>4
  <1> HIDE DEF n
  <1>6. \A e \in 1 .. Gone : \E m \in 1 .. n : stored[m] = e
    BY <1>5 DEF WriterInv, GoneAreStored, InSeq
  <1>7. \A e \in 1 .. puts : \E m \in DOMAIN stored' : stored'[m] = e
    <2>1. ASSUME NEW e \in 1 .. puts PROVE \E m \in DOMAIN stored' : stored'[m] = e
      <3>1. CASE e \in 1 .. Gone
        <4>1. PICK m \in 1 .. n : stored[m] = e
          BY <1>6, <3>1
        <4>2. m \in DOMAIN stored' /\ stored'[m] = e
          BY <1>3, <1>4, <1>5, <4>1
        <4>3. QED
          BY <4>2
      <3>2. CASE e > Gone
        <4>1. e - Gone \in 1 .. Len(buffer)
          BY <1>2, <1>3, <3>2
        <4>2. stored'[n + (e - Gone)] = e
          <5>1. stored'[n + (e - Gone)] = Gone + (e - Gone)
            BY <1>4, <4>1
          <5>2. QED
            BY <1>3, <2>1, <5>1
        <4>3. n + (e - Gone) \in DOMAIN stored'
          BY <1>3, <1>5, <4>1
        <4>4. QED
          BY <4>2, <4>3
      <3>3. QED
        BY <1>2, <1>3, <3>1, <3>2
    <2>2. QED
      BY <2>1
  <1>8. BufferIsTail' /\ SentIsBuffer'
    BY <1>1, <1>2, <1>3 DEF WriterInv, BufferIsTail, SentIsBuffer
  <1>9. ClosedIsEmpty'
    BY <1>2 DEF WriterInv, ClosedIsEmpty
  <1>10. GoneAreStored'
    <2>1. 1 .. puts \subseteq InSeq(stored')
      BY <1>7 DEF InSeq
    <2>2. 1 .. Gone \subseteq 1 .. puts
      BY <1>2, <1>3
    <2>3. QED
      BY <1>2, <1>3, <2>1, <2>2 DEF GoneAreStored, InSeq
  <1>11. HeldIsDoubted' /\ OnlyDoubtfulTwice'
    <2>1. HeldIsDoubted'
      BY <1>1, <1>2 DEF HeldIsDoubted
    <2>2. ASSUME NEW i \in DOMAIN stored, stored[i] > Gone PROVE stored[i] \in doubt'
      <3>1. CASE pc[t] = "stored"
        BY <1>2, <2>2, <3>1, HeldInBuffer
      <3>2. CASE pc[t] # "stored"
        BY <2>2, <3>2 DEF WriterInv, HeldIsDoubted
      <3>3. QED
        BY <3>1, <3>2
    <2>3. ASSUME NEW i \in DOMAIN stored', i \notin 1 .. n
          PROVE  i - n \in 1 .. Len(buffer) /\ stored'[i] = Gone + (i - n)
      <3>1. i \in Nat /\ i - n \in 1 .. Len(buffer)
        BY <1>3, <1>5, <2>3
      <3>2. stored'[n + (i - n)] = Gone + (i - n)
        BY <1>4, <3>1
      <3>3. QED
        BY <1>3, <3>1, <3>2, SMTT(30)
    <2>4. ASSUME NEW i \in 1 .. n, NEW j \in DOMAIN stored', j \notin 1 .. n,
                 stored'[i] = stored'[j]
          PROVE  stored'[i] \in doubt'
      <3>1. stored[i] = stored'[i]
        BY <1>4
      <3>2. stored'[j] = Gone + (j - n) /\ j - n \in 1 .. Len(buffer)
        BY <2>3, <2>4
      <3>3. stored[i] > Gone /\ i \in DOMAIN stored
        BY <1>3, <1>5, <2>4, <3>1, <3>2
      <3>4. QED
        BY <2>2, <3>1, <3>3
    <2>5. ASSUME NEW i \in DOMAIN stored', NEW j \in DOMAIN stored', stored'[i] = stored'[j]
          PROVE  i = j \/ stored'[i] \in doubt'
      <3>1. CASE i \in 1 .. n /\ j \in 1 .. n
        <4>1. stored[i] = stored[j] /\ i \in DOMAIN stored /\ j \in DOMAIN stored
          BY <1>4, <1>5, <2>5, <3>1
        <4>2. i = j \/ stored[i] \in doubt
          BY <4>1 DEF WriterInv, OnlyDoubtfulTwice
        <4>3. QED
          BY <1>4, <3>1, <4>2
      <3>2. CASE i \in 1 .. n /\ j \notin 1 .. n
        BY <2>4, <2>5, <3>2
      <3>3. CASE i \notin 1 .. n /\ j \in 1 .. n
        BY <2>4, <2>5, <3>3
      <3>4. CASE i \notin 1 .. n /\ j \notin 1 .. n
        <4>1. i \in Nat /\ j \in Nat
          BY <1>3, <1>5, <2>5
        <4>2. stored'[i] = Gone + (i - n) /\ stored'[j] = Gone + (j - n)
          BY <2>3, <2>5, <3>4
        <4>3. Gone + (i - n) = Gone + (j - n)
          BY <2>5, <4>2
        <4>4. QED
          BY <1>3, <4>1, <4>3
      <3>5. QED
        BY <3>1, <3>2, <3>3, <3>4
    <2>6. QED
      BY <2>1, <2>5 DEF OnlyDoubtfulTwice
  <1>12. StoredInOrder'
    <2>1. ASSUME NEW k \in DOMAIN stored', NEW e \in 1 .. stored'[k]
          PROVE  \E m \in 1 .. k : stored'[m] = e
      <3>1. CASE k \in 1 .. n
        <4>1. PICK m \in 1 .. k : stored[m] = e
          BY <1>4, <1>5, <2>1, <3>1 DEF WriterInv, StoredInOrder
        <4>2. m \in 1 .. n
          BY <1>3, <3>1
        <4>3. QED
          BY <1>4, <4>1, <4>2
      <3>2. CASE k > n
        <4>1. k - n \in 1 .. Len(buffer) /\ k \in Nat
          BY <1>3, <1>5, <3>2
        <4>2. stored'[k] = Gone + (k - n)
          <5>1. stored'[n + (k - n)] = Gone + (k - n)
            BY <1>4, <4>1
          <5>2. n + (k - n) = k
            BY <1>3, <4>1
          <5>3. QED
            BY <5>1, <5>2
        <4>3. CASE e \in 1 .. Gone
          <5>1. PICK m \in 1 .. n : stored[m] = e
            BY <1>6, <4>3
          <5>2. m \in 1 .. k
            BY <1>3, <3>2, <4>1
          <5>3. QED
            BY <1>4, <5>1, <5>2
        <4>4. CASE e > Gone
          <5>1. e - Gone \in 1 .. (k - n)
            BY <1>3, <2>1, <4>1, <4>2, <4>4
          <5>5. n \in Nat /\ Len(buffer) \in Nat /\ k \in Nat /\ e - Gone \in Int
                /\ k - n <= Len(buffer)
            BY <1>3, <4>1, <5>1
          <5>2. e - Gone \in 1 .. Len(buffer) /\ n + (e - Gone) \in 1 .. k
            BY <5>1, <5>5
          <5>3. stored'[n + (e - Gone)] = e
            <6>1. stored'[n + (e - Gone)] = Gone + (e - Gone)
              BY <1>4, <5>2
            <6>2. QED
              BY <1>3, <2>1, <4>1, <4>2, <6>1
          <5>4. QED
            BY <5>2, <5>3
        <4>5. Gone + (k - n) \in Nat /\ e \in 1 .. (Gone + (k - n))
          BY <1>3, <2>1, <4>1, <4>2, SMTT(30)
        <4>6. e \in 1 .. Gone \/ e > Gone
          BY <1>3, <4>5
        <4>7. QED
          BY <4>3, <4>4, <4>6
      <3>3. QED
        BY <1>3, <1>5, <3>1, <3>2
    <2>2. QED
      BY <2>1 DEF StoredInOrder
  <1>13. QED
    BY <1>8, <1>9, <1>10, <1>11, <1>12 DEF WriterInv

\* put_many returns: everything that was put has been stored, so that the buffer
\* may go.
LEMMA SucceedWriter ==
    ASSUME WriterInv, Synchronous, TypeOK', NEW t \in Tasks, Succeed(t)
    PROVE  WriterInv'
  <1>1. \A u \in Tasks : u = t
    BY DEF Synchronous
  <1>2. /\ puts \in Nat /\ UNCHANGED <<puts, stored, doubt>> /\ buffer' = << >>
        /\ pc[t] = "stored" /\ pc'[t] = "idle"
    BY DEF WriterInv, TypeOK, Succeed
  <1>3. Len(buffer') = 0 /\ Gone' = puts
    BY <1>2 DEF Gone
  <1>4. BufferIsTail' /\ SentIsBuffer' /\ ClosedIsEmpty'
    BY <1>1, <1>2, <1>3 DEF BufferIsTail, SentIsBuffer, ClosedIsEmpty
  <1>5. GoneAreStored'
    BY <1>1, <1>2, <1>3 DEF WriterInv, GoneAreStored, InSeq
  <1>6. HeldIsDoubted' /\ OnlyDoubtfulTwice'
    <2>1. \A k \in DOMAIN stored : stored[k] \in 1 .. puts
      BY DEF WriterInv, TypeOK
    <2>2. HeldIsDoubted'
      BY <1>2, <1>3, <2>1 DEF HeldIsDoubted
    <2>3. QED
      BY <1>2, <2>2 DEF WriterInv, OnlyDoubtfulTwice
  <1>7. StoredInOrder'
    BY <1>2 DEF WriterInv, StoredInOrder
  <1>8. QED
    BY <1>4, <1>5, <1>6, <1>7 DEF WriterInv

LEMMA NextWriter == Synchronous /\ WriterInv /\ [Next]_vars => WriterInv'
  <1> SUFFICES ASSUME Synchronous, WriterInv, [Next]_vars PROVE WriterInv'
    OBVIOUS
  <1>1. TypeOK /\ TypeOK'
    BY NextType DEF WriterInv
  <1>2. ASSUME NEW t \in Tasks, Flush(t) PROVE WriterInv'
    <2>1. /\ UNCHANGED <<puts, buffer, stored, state, doubt>> /\ state = "open"
          /\ pc[t] = "idle" /\ pc'[t] = "sent" /\ sent'[t] = buffer
      BY <1>1, <1>2 DEF Flush, Send, TypeOK
    <2>2. QED
      BY <1>1, <2>1, OnlyCallMoves
  <1>3. ASSUME NEW t \in Tasks, Close(t) PROVE WriterInv'
    <2>1. UNCHANGED <<puts, buffer, stored, doubt>> /\ pc[t] = "idle"
      BY <1>3 DEF Close
    <2>2. CASE buffer = << >>
      <3>1. pc'[t] = "idle"
        BY <1>3, <2>1, <2>2 DEF Close
      <3>2. QED
        BY <1>1, <2>1, <2>2, <3>1, OnlyCallMoves
    <2>3. CASE buffer # << >>
      <3>1. state' = "closing" /\ pc'[t] = "sent" /\ sent'[t] = buffer
        BY <1>1, <1>3, <2>3 DEF Close, Send, TypeOK
      <3>2. QED
        BY <1>1, <2>1, <3>1, OnlyCallMoves
    <2>4. QED
      BY <2>2, <2>3
  <1>4. ASSUME NEW t \in Tasks, Fail(t) PROVE WriterInv'
    <2>1. /\ UNCHANGED <<puts, buffer, stored, state, doubt>>
          /\ pc[t] = "failed" /\ pc'[t] = "idle"
      BY <1>1, <1>4 DEF Fail, TypeOK
    <2>2. state = "closed" => buffer = << >>
      BY DEF WriterInv, ClosedIsEmpty
    <2>3. QED
      BY <1>1, <2>1, <2>2, OnlyCallMoves
  <1>5. ASSUME NEW t \in Tasks, TooLong(t) PROVE WriterInv'
    <2>1. /\ UNCHANGED <<puts, buffer, stored, sent, state, doubt>>
          /\ pc[t] = "sent" /\ pc'[t] = "failed"
      BY <1>1, <1>5 DEF TooLong, TypeOK
    <2>2. state # "closed" /\ sent[t] = buffer
      BY <2>1 DEF WriterInv, ClosedIsEmpty, SentIsBuffer
    <2>3. QED
      BY <1>1, <2>1, <2>2, OnlyCallMoves
  <1>6. ASSUME NEW t \in Tasks, LoseRequest(t) \/ LoseAnswer(t) PROVE WriterInv'
    <2>1. pc[t] # "idle" /\ state # "closed" /\ sent[t] = buffer
      BY <1>6 DEF LoseRequest, LoseAnswer, WriterInv, ClosedIsEmpty, SentIsBuffer
    <2>2. /\ UNCHANGED <<puts, buffer, stored, sent, state>>
          /\ pc'[t] = "failed" /\ doubt \subseteq doubt'
          /\ pc[t] = "stored" => InSeq(buffer) \subseteq doubt'
      BY <1>1, <1>6, <2>1 DEF LoseRequest, LoseAnswer, TypeOK
    <2>3. QED
      BY <1>1, <2>1, <2>2, OnlyCallMoves
  <1>9. ASSUME NEW t \in Tasks, Store(t) \/ Repeat(t) PROVE WriterInv'
    <2>1. /\ pc[t] # "idle" /\ pc'[t] = "stored" /\ stored' = stored \o sent[t]
          /\ UNCHANGED <<puts, buffer, sent, state>> /\ doubt \subseteq doubt'
          /\ pc[t] = "stored" => InSeq(sent[t]) \subseteq doubt'
      BY <1>1, <1>9 DEF Store, Repeat, TypeOK
    <2>2. QED
      BY <1>1, <2>1, StoreWriter
  <1>7. CASE Abandon \/ UNCHANGED vars
    <2>1. /\ UNCHANGED <<puts, buffer, stored, sent, pc, doubt>>
          /\ state' = state \/ state' = "abandoned"
      BY <1>7 DEF Abandon, vars
    <2>2. Gone' = Gone
      BY <2>1 DEF Gone
    <2>3. BufferIsTail' /\ SentIsBuffer' /\ ClosedIsEmpty'
      BY <2>1, <2>2 DEF WriterInv, BufferIsTail, SentIsBuffer, ClosedIsEmpty
    <2>4. GoneAreStored' /\ StoredInOrder'
      BY <2>1, <2>2 DEF WriterInv, GoneAreStored, StoredInOrder, InSeq
    <2>6. HeldIsDoubted' /\ OnlyDoubtfulTwice'
      BY <2>1, <2>2 DEF WriterInv, HeldIsDoubted, OnlyDoubtfulTwice
    <2>5. QED
      BY <1>1, <2>3, <2>4, <2>6 DEF WriterInv
  <1>8. QED
    BY <1>1, <1>2, <1>3, <1>4, <1>5, <1>6, <1>7, <1>9,
       PutWriter, SucceedWriter DEF Next

\* The invariant says what the properties say.
LEMMA WriterInvImplies ==
    ASSUME WriterInv
    PROVE  NothingLost /\ OnlyDoubtfulTwice /\ ClosedMeansStored /\ StoredInOrder
  <1>1. /\ puts \in Nat /\ Len(buffer) \in Nat /\ Gone \in Nat
        /\ DOMAIN buffer = 1 .. Len(buffer) /\ DOMAIN stored = 1 .. Len(stored)
    BY DEF WriterInv, TypeOK, BufferIsTail, Gone
  <1>2. NothingLost
    <2>1. ASSUME NEW e \in 1 .. puts PROVE e \in InSeq(stored) \cup InSeq(buffer)
      <3>1. CASE e \in 1 .. Gone
        BY <3>1 DEF WriterInv, GoneAreStored
      <3>2. CASE e > Gone
        <4>1. e - Gone \in 1 .. Len(buffer)
          BY <1>1, <3>2 DEF Gone
        <4>2. buffer[e - Gone] = e
          BY <1>1, <4>1 DEF WriterInv, BufferIsTail
        <4>3. QED
          BY <1>1, <4>1, <4>2 DEF InSeq
      <3>3. QED
        BY <1>1, <3>1, <3>2
    <2>2. QED
      BY <2>1 DEF NothingLost
  <1>3. OnlyDoubtfulTwice
    BY DEF WriterInv
  <1>4. ClosedMeansStored
    BY DEF WriterInv, ClosedIsEmpty, GoneAreStored, ClosedMeansStored, Gone, TypeOK
  <1>5. QED
    BY <1>2, <1>3, <1>4 DEF WriterInv

-----------------------------------------------------------------------------
(* The theorems *)

\* Through any number of failed flushes, lost requests and lost answers, an event
\* given to the synchronous writer is in the stream or still in its buffer.
THEOREM EventsKept == ASSUME Synchronous PROVE Spec => []NothingLost
  <1>1. Synchronous
    OBVIOUS
  <1>2. WriterInv /\ [Next]_vars => WriterInv'
    BY NextWriter
  <1>3. WriterInv => NothingLost
    BY WriterInvImplies
  <1>4. QED
    BY <1>2, <1>3, InitWriter, PTL DEF Spec

\* The synchronous writer's events enter the stream in the order they were put,
\* whatever is flushed again.
THEOREM OrderKept == ASSUME Synchronous PROVE Spec => []StoredInOrder
  <1>1. WriterInv /\ [Next]_vars => WriterInv'
    BY NextWriter
  <1>2. WriterInv => StoredInOrder
    BY WriterInvImplies
  <1>3. QED
    BY <1>1, <1>2, InitWriter, PTL DEF Spec

\* Whatever is lost or refused, and however often it is flushed again, an event of
\* the synchronous writer comes twice only when a batch it was in was stored and
\* the answer was lost.
THEOREM StoredOnce == ASSUME Synchronous PROVE Spec => []OnlyDoubtfulTwice
  <1>1. WriterInv /\ [Next]_vars => WriterInv'
    BY NextWriter
  <1>2. WriterInv => OnlyDoubtfulTwice
    BY WriterInvImplies
  <1>3. QED
    BY <1>1, <1>2, InitWriter, PTL DEF Spec

\* When close of the synchronous writer returns, every event is in the stream.
THEOREM ClosedComplete == ASSUME Synchronous PROVE Spec => []ClosedMeansStored
  <1>1. WriterInv /\ [Next]_vars => WriterInv'
    BY NextWriter
  <1>2. WriterInv => ClosedMeansStored
    BY WriterInvImplies
  <1>3. QED
    BY <1>1, <1>2, InitWriter, PTL DEF Spec

=============================================================================
