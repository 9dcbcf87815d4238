----------------------------- MODULE RedisStream -----------------------------
(***************************************************************************)
(* One Redis stream key as tonle/store.py uses it: the writes of Store.add *)
(* and Store.add_many (XADD MAXLEN ~ and EXPIRE inside MULTI/EXEC),        *)
(* Store.delete (DEL), the expiry of the key, and the two commands of      *)
(* Store.read: XRANGE for the oldest entry, XREAD for the entries after a  *)
(* cursor.                                                                 *)
(*                                                                         *)
(* An event is known by its place in the order of appends: log[i] is the   *)
(* id Redis gave the i-th event, and the entries still in Redis are those  *)
(* from `first` on.  The key is absent when there are none; Redis then     *)
(* forgets the last id it generated.                                       *)
(***************************************************************************)
EXTENDS Integers, Sequences

CONSTANTS
    MaxLen,      \* STREAM_MAXLEN (config.py)
    BatchSizes,  \* how many events one write appends: 1 for add, more for add_many
    Removals,    \* the ways the whole key may vanish: subset of {"delete", "expire"}
    ClockSteps,  \* by how many ms Redis' clock may have moved since the last write
    MaxEvents    \* bound: events appended in a behaviour

ASSUME StreamAssumption ==
    /\ MaxLen \in Nat \ {0}
    /\ BatchSizes \subseteq Nat \ {0}
    /\ Removals \subseteq {"delete", "expire"}
    /\ ClockSteps \subseteq Nat
    /\ MaxEvents \in Nat

VARIABLES
    log,    \* log[i]: the id of the i-th event ever appended
    first,  \* the place of the oldest entry still in Redis
    now     \* Redis' clock, in ms

streamVars == <<log, first, now>>

-----------------------------------------------------------------------------
(* Ids and cursors. An id "ms-seq" is the pair _parse_cursor_parts makes of *)
(* it; "0" is Zero; "$" (for which it returns None) is Latest.              *)

Id == Nat \X Nat
Zero == <<0, 0>>
Latest == << >>
Cursor == Id \cup {Latest}

Before(a, b) == a[1] < b[1] \/ (a[1] = b[1] /\ a[2] < b[2])

\* Event j has an id that event i, in the same millisecond, had reached: the key
\* was deleted between them, and Redis began to count again.
Reused(i, j) == log[i][1] = log[j][1] /\ log[j][2] <= log[i][2]

\* Who has i's id for a cursor takes j for an older event.
Hides ==
    {h \in (1 .. Len(log)) \X (1 .. Len(log)) : h[1] < h[2] /\ Reused(h[1], h[2])}

Live == first .. Len(log)
Exists == first <= Len(log)
LastId == IF Exists THEN log[Len(log)] ELSE Zero

\* XADD with id *: the clock's millisecond, or the successor of the last id.
NextId(last, ms) == IF last[1] < ms THEN <<ms, 0>> ELSE <<last[1], last[2] + 1>>

\* The ids of n XADDs executed in one transaction, at one reading of the clock.
NewIds(n, ms) ==
    LET one == NextId(LastId, ms)
    IN  [k \in 1 .. n |-> <<one[1], one[2] + k - 1>>]

-----------------------------------------------------------------------------
(* The writes *)

StreamInit == log = << >> /\ first = 1 /\ now = 1

\* Store.add and Store.add_many. MAXLEN ~ trims whole nodes only: it may keep
\* more than MaxLen entries, never fewer (if there were as many).
Add(n) ==
    /\ Len(log) + n <= MaxEvents
    /\ \E d \in ClockSteps :
         /\ now' = now + d
         /\ log' = log \o NewIds(n, now + d)
    /\ first' \in {first} \cup first .. (Len(log) + n - MaxLen + 1)

\* Store.delete.
Delete ==
    /\ "delete" \in Removals
    /\ Exists
    /\ first' = Len(log) + 1
    /\ UNCHANGED <<log, now>>

\* The key reaches the EXPIRE that the last write gave it: STREAM_TTL is at
\* least a second, so the clock has moved since that write.
Expire ==
    /\ "expire" \in Removals
    /\ Exists
    /\ first' = Len(log) + 1
    /\ now' = now + 1
    /\ UNCHANGED log

Remove == Delete \/ Expire

-----------------------------------------------------------------------------
(* The reads *)

\* Variant, with a bug: the comparison is >=, the cursor's own entry is enough.
TrimmedOrAt(c) == c \notin {Latest, Zero} /\ Exists /\ ~Before(log[first], c)

\* Variant, with a bug: no comparison.
NeverTrimmed(c) == FALSE

\* XRANGE - + COUNT 1 (store.py:73) and the comparison that follows it:
\* the oldest entry is newer than the cursor.
Trimmed(c) == c \notin {Latest, Zero} /\ Exists /\ Before(c, log[first])

\* The id XREAD reads after: "$" stands for the last id of the stream.
Resolve(c) == IF c = Latest THEN LastId ELSE c

\* XREAD COUNT limit: the entries newer than c, of which the first `limit` are
\* returned. Ids grow along the live entries, so Newer(c) is an interval.
\* (NewestBatch is a variant, with a bug: the newest ones are returned.)
Newer(c) == {i \in Live : Before(c, log[i])}
NewestBatch(c, limit) == {i \in Newer(c) : i + limit \notin Newer(c)}
Batch(c, limit) == {i \in Newer(c) : i - limit \notin Newer(c)}

=============================================================================
