---------------------------- MODULE BufferedWriter -----------------------------
(***************************************************************************)
(* BufferedStreamWriter and AsyncBufferedStreamWriter (client.py): events  *)
(* are collected in a list, and put_many sends the whole list once it is   *)
(* long enough.  The list is emptied when the answer is in, so that a      *)
(* flush that fails can be repeated.                                       *)
(*                                                                         *)
(* The two classes are the same program; in the asynchronous one put_many  *)
(* is awaited, and other tasks may use the writer meanwhile.  With a       *)
(* single task the module is the synchronous writer.  Events are numbered  *)
(* in the order they are put.                                              *)
(***************************************************************************)
EXTENDS Integers, Sequences

CONSTANTS
    Tasks,
    MaxBatch,   \* max_batch_size of the writer
    ServerMax,  \* the longest batch the server takes (_MAX_BATCH_EVENTS)
    MaxPuts,    \* bound: events put
    MaxFaults   \* bound: requests and answers that are lost

ASSUME WriterAssumption ==
    /\ MaxBatch \in Nat \ {0}
    /\ ServerMax \in Nat \ {0}
    /\ MaxPuts \in Nat /\ MaxFaults \in Nat

VARIABLES
    puts,    \* how many events were put
    buffer,  \* _buffer
    pc,      \* pc[t]: "idle", or how far the put_many that t awaits has got
    sent,    \* sent[t]: the body of that request
    state,   \* of the writer: "open", "closing", "closed" or "abandoned"
    stored,  \* the events in the stream, in order
    doubt,   \* history: the events of a batch that was stored and whose answer
             \* was lost
    faults   \* faults so far

vars == <<puts, buffer, pc, sent, state, stored, doubt, faults>>

InSeq(s) == {s[k] : k \in DOMAIN s}

Init ==
    /\ puts = 0
    /\ buffer = << >>
    /\ pc = [t \in Tasks |-> "idle"]
    /\ sent = [t \in Tasks |-> << >>]
    /\ state = "open"
    /\ stored = << >>
    /\ doubt = {}
    /\ faults = 0

-----------------------------------------------------------------------------
(* The writer *)

\* Variant, with a bug: only the newest events are sent.
SendNewest(t, items) ==
    /\ pc' = [pc EXCEPT ![t] = "sent"]
    /\ sent' = [sent EXCEPT ![t] =
                  IF Len(items) > MaxBatch
                  THEN SubSeq(items, Len(items) - MaxBatch + 1, Len(items)) ELSE items]

\* flush up to its await: put_many encodes the list as it is now.
Send(t, items) ==
    /\ pc' = [pc EXCEPT ![t] = "sent"]
    /\ sent' = [sent EXCEPT ![t] = items]

\* put: below the batch size it only appends.
Put(t) ==
    /\ state = "open" /\ pc[t] = "idle" /\ puts < MaxPuts
    /\ puts' = puts + 1
    /\ buffer' = Append(buffer, puts + 1)
    /\ IF Len(buffer') < MaxBatch THEN UNCHANGED <<pc, sent>> ELSE Send(t, buffer')
    /\ UNCHANGED <<state, stored, doubt, faults>>

\* Variant, with a bug: an empty buffer is sent too.
FlushEmpty(t) ==
    /\ state = "open" /\ pc[t] = "idle"
    /\ Send(t, buffer)
    /\ UNCHANGED <<puts, buffer, state, stored, doubt, faults>>

\* The application calls flush, for instance after one that failed.
Flush(t) ==
    /\ state = "open" /\ pc[t] = "idle" /\ buffer # << >>
    /\ Send(t, buffer)
    /\ UNCHANGED <<puts, buffer, state, stored, doubt, faults>>

\* close, once no task uses the writer any more. A close that fails may be
\* called again.
Close(t) ==
    /\ state \in {"open", "closing"}
    /\ \A u \in Tasks : pc[u] = "idle"
    /\ IF buffer = << >>
       THEN state' = "closed" /\ UNCHANGED <<pc, sent>>
       ELSE state' = "closing" /\ Send(t, buffer)
    /\ UNCHANGED <<puts, buffer, stored, doubt, faults>>

\* The body of the with statement raises: __exit__ does not flush.
Abandon ==
    /\ state = "open"
    /\ \A u \in Tasks : pc[u] = "idle"
    /\ state' = "abandoned"
    /\ UNCHANGED <<puts, buffer, pc, sent, stored, doubt, faults>>

\* Variant, with a bug: the buffer is kept after a flush that succeeded.
SucceedKeeps(t) ==
    /\ pc[t] = "stored"
    /\ pc' = [pc EXCEPT ![t] = "idle"]
    /\ sent' = [sent EXCEPT ![t] = << >>]
    /\ state' = IF state = "closing" THEN "closed" ELSE state
    /\ UNCHANGED <<puts, buffer, stored, doubt, faults>>

\* put_many returns: the buffer is replaced by an empty one.
Succeed(t) ==
    /\ pc[t] = "stored"
    /\ pc' = [pc EXCEPT ![t] = "idle"]
    /\ sent' = [sent EXCEPT ![t] = << >>]
    /\ buffer' = << >>
    /\ state' = IF state = "closing" THEN "closed" ELSE state
    /\ UNCHANGED <<puts, stored, doubt, faults>>

\* Variant, with a bug: the buffer is emptied whatever put_many does.
FailDrops(t) ==
    /\ pc[t] = "failed"
    /\ pc' = [pc EXCEPT ![t] = "idle"]
    /\ sent' = [sent EXCEPT ![t] = << >>]
    /\ buffer' = << >>
    /\ UNCHANGED <<puts, state, stored, doubt, faults>>

\* Variant, with a bug: close swallows the failure of its flush.
FailSwallowed(t) ==
    /\ pc[t] = "failed"
    /\ pc' = [pc EXCEPT ![t] = "idle"]
    /\ sent' = [sent EXCEPT ![t] = << >>]
    /\ state' = IF state = "closing" THEN "closed" ELSE state
    /\ UNCHANGED <<puts, buffer, stored, doubt, faults>>

\* put_many raises: the buffer is left as it is.
Fail(t) ==
    /\ pc[t] = "failed"
    /\ pc' = [pc EXCEPT ![t] = "idle"]
    /\ sent' = [sent EXCEPT ![t] = << >>]
    /\ UNCHANGED <<puts, buffer, state, stored, doubt, faults>>

-----------------------------------------------------------------------------
(* The request of put_many and its answer *)

\* push_many stores the batch, whole, and answers 201.
Store(t) ==
    /\ pc[t] = "sent" /\ Len(sent[t]) <= ServerMax
    /\ stored' = stored \o sent[t]
    /\ pc' = [pc EXCEPT ![t] = "stored"]
    /\ UNCHANGED <<puts, buffer, sent, state, doubt, faults>>

\* A batch that is too long is answered with 400.
TooLong(t) ==
    /\ pc[t] = "sent" /\ Len(sent[t]) > ServerMax
    /\ pc' = [pc EXCEPT ![t] = "failed"]
    /\ UNCHANGED <<puts, buffer, sent, state, stored, doubt, faults>>

\* The request is lost, or the server refuses it: put_many raises.
LoseRequest(t) ==
    /\ pc[t] = "sent" /\ faults < MaxFaults
    /\ pc' = [pc EXCEPT ![t] = "failed"]
    /\ faults' = faults + 1
    /\ UNCHANGED <<puts, buffer, sent, state, stored, doubt>>

\* The answer is lost, or Redis' answer to the server is: put_many raises too,
\* and cannot tell the difference.
LoseAnswer(t) ==
    /\ pc[t] = "stored" /\ faults < MaxFaults
    /\ pc' = [pc EXCEPT ![t] = "failed"]
    /\ doubt' = doubt \cup InSeq(sent[t])
    /\ faults' = faults + 1
    /\ UNCHANGED <<puts, buffer, sent, state, stored>>

\* Redis' answer to the server is lost, and the server's Redis client repeats
\* the transaction by itself (some versions do).
Repeat(t) ==
    /\ pc[t] = "stored" /\ faults < MaxFaults
    /\ stored' = stored \o sent[t]
    /\ doubt' = doubt \cup InSeq(sent[t])
    /\ faults' = faults + 1
    /\ UNCHANGED <<puts, buffer, pc, sent, state>>

-----------------------------------------------------------------------------
Next ==
    \/ \E t \in Tasks :
         \/ Put(t) \/ Flush(t) \/ Close(t) \/ Succeed(t) \/ Fail(t)
         \/ Store(t) \/ TooLong(t)
         \/ LoseRequest(t) \/ LoseAnswer(t) \/ Repeat(t)
    \/ Abandon

Spec == Init /\ [][Next]_vars

-----------------------------------------------------------------------------
(* Properties *)

\* A task that is not in a call has nothing sent, and no empty batch is sent.
TypeOK ==
    /\ puts \in 0 .. MaxPuts
    /\ buffer \in Seq(1 .. puts)
    /\ pc \in [Tasks -> {"idle", "sent", "stored", "failed"}]
    /\ sent \in [Tasks -> Seq(1 .. puts)]
    /\ state \in {"open", "closing", "closed", "abandoned"}
    /\ stored \in Seq(1 .. puts)
    /\ doubt \subseteq 1 .. puts
    /\ faults \in 0 .. MaxFaults
    /\ \A t \in Tasks : pc[t] = "idle" <=> sent[t] = << >>

\* An event that was put is in the stream or still in the buffer, through every
\* failed flush and whatever was lost on the way.
NothingLost == 1 .. puts \subseteq InSeq(stored) \cup InSeq(buffer)

\* Events enter the stream in the order they were put: when flushes are
\* repeated, an event may come again but never before an older one came.
StoredInOrder ==
    \A k \in DOMAIN stored : \A e \in 1 .. stored[k] :
      \E m \in 1 .. k : stored[m] = e

\* Only what was in doubt is doubled: an event comes twice only when a batch it
\* was in was stored and the answer was lost. What a refused batch, or a request
\* that never arrived, held and a later flush stores comes once.
OnlyDoubtfulTwice ==
    \A k, m \in DOMAIN stored :
      stored[k] = stored[m] => k = m \/ stored[k] \in doubt

\* tests/test_client.py:962, "flushes by batch size and on close": when close
\* returns, every event that was put is in the stream.
ClosedMeansStored == state = "closed" => 1 .. puts \subseteq InSeq(stored)
=============================================================================
