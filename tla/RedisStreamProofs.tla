-------------------------- MODULE RedisStreamProofs --------------------------
(***************************************************************************)
(* What every reader of a stream may rely on, whatever MaxLen, the batch   *)
(* sizes, the clock and the ways the key vanishes.                         *)
(***************************************************************************)
EXTENDS RedisStream, TLAPS

StreamType == log \in Seq(Id) /\ first \in 1 .. Len(log) + 1 /\ now \in Nat

\* Along the live entries ids grow. (Along all of `log` they need not: after
\* DEL an id may be used again.)
Ascending == \A i, j \in Live : i < j => Before(log[i], log[j])

StreamInv == StreamType /\ Ascending

\* How a step may change the stream: ids stay, entries only leave at the front.
Grows ==
    /\ Len(log) <= Len(log)'
    /\ \A i \in 1 .. Len(log) : log'[i] = log[i]
    /\ first <= first'

\* An id XADD generates is an id, and is newer than the last one.
LEMMA NextIdNewer ==
    ASSUME NEW a \in Id, NEW ms \in Nat
    PROVE  NextId(a, ms) \in Id /\ Before(a, NextId(a, ms))
BY DEF Id, NextId, Before

LEMMA BeforeTransitive ==
    ASSUME NEW a \in Id, NEW b \in Id, NEW c \in Id, Before(a, b), Before(b, c)
    PROVE  Before(a, c)
BY DEF Id, Before

\* No id is before itself, nor two ids before each other.
LEMMA BeforeIsStrict ==
    ASSUME NEW a \in Id, NEW b \in Id, Before(a, b)
    PROVE  a # b /\ ~Before(b, a)
<1>1. a[1] \in Nat /\ a[2] \in Nat /\ b[1] \in Nat /\ b[2] \in Nat
  BY DEF Id
<1> QED
  BY <1>1 DEF Before

\* The ids of one transaction are as many as its XADDs, grow, and are newer
\* than the last id of the stream.
LEMMA NewIdsAscend ==
    ASSUME StreamType, NEW n \in Nat \ {0}, NEW ms \in Nat
    PROVE  /\ NewIds(n, ms) \in Seq(Id)
           /\ Len(NewIds(n, ms)) = n
           /\ \A k \in 1 .. n : Before(LastId, NewIds(n, ms)[k])
           /\ \A k, m \in 1 .. n : k < m => Before(NewIds(n, ms)[k], NewIds(n, ms)[m])
<1> DEFINE one == NextId(LastId, ms)
           ids == [k \in 1 .. n |-> <<one[1], one[2] + k - 1>>]
<1>1. LastId \in Id
  BY DEF LastId, StreamType, Exists, Zero, Id
<1>2. one \in Id /\ Before(LastId, one)
  BY <1>1, NextIdNewer
<1>3. PICK a \in Nat, b \in Nat : one = <<a, b>>
  BY <1>2 DEF Id
<1>4. ids = [k \in 1 .. n |-> <<a, b + k - 1>>]
  BY <1>3
<1> HIDE DEF one, ids
<1>5. \A k \in 1 .. n : ids[k] = <<a, b + (k - 1)>> /\ ids[k] \in Id
  BY <1>4 DEF Id
<1>6. ids \in Seq(Id) /\ Len(ids) = n
  BY <1>4 DEF Id
<1>7. \A k \in 1 .. n : Before(LastId, ids[k])
  BY <1>1, <1>2, <1>3, <1>5 DEF Before, Id
<1>8. \A k, m \in 1 .. n : k < m => Before(ids[k], ids[m])
  BY <1>5 DEF Before
<1>9. NewIds(n, ms) = ids
  BY DEF NewIds, one, ids
<1> QED
  BY <1>6, <1>7, <1>8, <1>9

\* The elements of a concatenation.
LEMMA ConcatParts ==
    ASSUME NEW S, NEW s \in Seq(S), NEW t \in Seq(S)
    PROVE  /\ s \o t \in Seq(S)
           /\ Len(s \o t) = Len(s) + Len(t)
           /\ \A i \in 1 .. Len(s) : (s \o t)[i] = s[i]
           /\ \A i \in Len(s) + 1 .. Len(s) + Len(t) : (s \o t)[i] = t[i - Len(s)]
OBVIOUS

\* Store.add and Store.add_many keep the order, whatever the clock does.
LEMMA AddKeeps ==
    ASSUME StreamInv, NEW n \in BatchSizes, Add(n)
    PROVE  StreamInv' /\ Grows
<1> USE StreamAssumption
<1>1. n \in Nat \ {0}
  OBVIOUS
<1>2. PICK d \in ClockSteps : now' = now + d /\ log' = log \o NewIds(n, now + d)
  BY DEF Add
<1>3. d \in Nat /\ now + d \in Nat
  BY DEF StreamInv, StreamType
<1> DEFINE ids == NewIds(n, now + d)
<1>4. /\ ids \in Seq(Id) /\ Len(ids) = n
      /\ \A k \in 1 .. n : Before(LastId, ids[k])
      /\ \A k, m \in 1 .. n : k < m => Before(ids[k], ids[m])
  BY <1>1, <1>3, NewIdsAscend DEF StreamInv
<1> HIDE DEF ids
<1>5. log \in Seq(Id) /\ first \in 1 .. Len(log) + 1
  BY DEF StreamInv, StreamType
<1>6. /\ log' = log \o ids
      /\ log' \in Seq(Id) /\ Len(log') = Len(log) + n
      /\ \A i \in 1 .. Len(log) : log'[i] = log[i]
      /\ \A i \in Len(log) + 1 .. Len(log) + n : log'[i] = ids[i - Len(log)]
  <2>1. log' = log \o ids
    BY <1>2 DEF ids
  <2> QED
    BY <1>4, <1>5, <2>1, ConcatParts, ZenonT(40)
<1>7. first' \in first .. Len(log) + n
  BY <1>1, <1>5 DEF Add
<1>8. StreamType'
  BY <1>1, <1>2, <1>3, <1>5, <1>6, <1>7 DEF StreamType
<1>9. Grows
  BY <1>1, <1>5, <1>6, <1>7 DEF Grows
<1>10. Ascending'
  <2> SUFFICES ASSUME NEW i \in Live', NEW j \in Live', i < j
               PROVE  Before(log'[i], log'[j])
    BY DEF Ascending
  <2>1. i \in first .. Len(log) + n /\ j \in first .. Len(log) + n
    BY <1>1, <1>5, <1>6, <1>7 DEF Live
  <2>2. CASE j <= Len(log)
    <3>1. i \in Live /\ j \in Live
      BY <1>5, <2>1, <2>2 DEF Live
    <3>2. log'[i] = log[i] /\ log'[j] = log[j]
      BY <1>5, <1>6, <2>1, <2>2
    <3> QED
      BY <3>1, <3>2 DEF StreamInv, Ascending
  <2>3. CASE i <= Len(log) /\ j > Len(log)
    <3>1. /\ log'[i] = log[i] /\ log'[j] = ids[j - Len(log)]
          /\ j - Len(log) \in 1 .. n
      BY <1>1, <1>5, <1>6, <2>1, <2>3
    <3>2. Before(LastId, log'[j])
      BY <1>4, <3>1
    <3>3. Exists /\ LastId = log[Len(log)] /\ Len(log) \in Live /\ i \in Live
      BY <1>5, <2>1, <2>3 DEF Exists, LastId, Live
    <3>4. log[i] \in Id /\ LastId \in Id /\ log'[j] \in Id
      BY <1>1, <1>4, <1>5, <2>1, <2>3, <3>1, <3>3
    <3>5. CASE i = Len(log)
      BY <3>1, <3>2, <3>3, <3>5
    <3>6. CASE i < Len(log)
      <4>1. Before(log[i], LastId)
        BY <3>3, <3>6 DEF StreamInv, Ascending
      <4> QED
        BY <3>1, <3>2, <3>4, <4>1, BeforeTransitive
    <3> QED
      BY <1>5, <2>1, <2>3, <3>5, <3>6
  <2>4. CASE i > Len(log)
    <3>1. /\ log'[i] = ids[i - Len(log)] /\ log'[j] = ids[j - Len(log)]
          /\ i - Len(log) \in 1 .. n /\ j - Len(log) \in 1 .. n
          /\ i - Len(log) < j - Len(log)
      BY <1>1, <1>5, <1>6, <2>1, <2>4
    <3> QED
      BY <1>4, <3>1
  <2> QED
    BY <1>5, <2>1, <2>2, <2>3, <2>4
<1> QED
  BY <1>8, <1>9, <1>10 DEF StreamInv

\* So do Store.delete and the expiry of the key.
LEMMA RemoveKeeps ==
    ASSUME StreamInv, Remove
    PROVE  StreamInv' /\ Grows
<1>1. log' = log /\ first' = Len(log) + 1 /\ now' \in Nat
  BY DEF Remove, Delete, Expire, StreamInv, StreamType
<1>2. StreamType' /\ Grows
  BY <1>1 DEF StreamInv, StreamType, Grows
<1>3. Ascending'
  BY <1>1 DEF StreamInv, StreamType, Ascending, Live
<1> QED
  BY <1>2, <1>3 DEF StreamInv

\* XREAD after the id of an event returns later events only, even when the event
\* is no longer in Redis and its id has been used again.
LEMMA NewerThanEvent ==
    ASSUME StreamInv, NEW p \in 1 .. Len(log)
    PROVE  \A i \in Newer(log[p]) : i > p
<1> SUFFICES ASSUME NEW i \in Newer(log[p]), ~(i > p)
             PROVE  FALSE
  OBVIOUS
<1>1. log \in Seq(Id) /\ first \in 1 .. Len(log) + 1
  BY DEF StreamInv, StreamType
<1>2. i \in Live /\ Before(log[p], log[i])
  BY DEF Newer
<1>3. i \in Nat /\ p \in Nat /\ p \in Live
  BY <1>1, <1>2 DEF Live
<1>4. log[i] \in Id /\ log[p] \in Id
  BY <1>1, <1>2 DEF Live
<1>5. CASE i = p
  BY <1>2, <1>4, <1>5 DEF Before, Id
<1>6. CASE i < p
  <2>1. Before(log[i], log[p])
    BY <1>2, <1>3, <1>6 DEF StreamInv, Ascending
  <2> QED
    BY <1>2, <1>4, <2>1 DEF Before, Id
<1> QED
  BY <1>3, <1>5, <1>6

\* "$" names the newest entry: at the moment it is resolved nothing is newer.
LEMMA NothingAfterLatest ==
    ASSUME StreamInv
    PROVE  LastId \in Id /\ Newer(LastId) = {}
<1>1. LastId \in Id
  BY DEF LastId, StreamInv, StreamType, Exists, Zero, Id
<1>2. CASE Exists
  <2>1. LastId = log[Len(log)] /\ Len(log) \in 1 .. Len(log)
    BY <1>2 DEF LastId, Exists, StreamInv, StreamType
  <2>2. \A i \in Newer(LastId) : i > Len(log)
    BY <2>1, NewerThanEvent
  <2> QED
    BY <1>1, <2>2 DEF Newer, Live, StreamInv, StreamType
<1>3. CASE ~Exists
  BY <1>1, <1>3 DEF Exists, Newer, Live, StreamInv, StreamType
<1> QED
  BY <1>2, <1>3

\* A step of the stream adds to what is newer than an id only new events.
LEMMA NewerGrows ==
    ASSUME StreamInv, StreamInv', Grows, NEW c
    PROVE  \A i \in Newer(c)' : i \in Newer(c) \/ i > Len(log)
<1> SUFFICES ASSUME NEW i \in Newer(c)', ~(i > Len(log))
             PROVE  i \in Newer(c)
  OBVIOUS
<1>1. i \in Live' /\ Before(c, log'[i])
  BY DEF Newer
<1>2. i \in 1 .. Len(log) /\ i \in Live
  BY <1>1 DEF Live, Grows, StreamInv, StreamType
<1> QED
  BY <1>1, <1>2 DEF Newer, Grows

\* A batch is made of live entries newer than the cursor.
LEMMA BatchIsNewer ==
    ASSUME NEW c, NEW limit
    PROVE  Batch(c, limit) \subseteq Newer(c) /\ Newer(c) \subseteq Live
BY DEF Batch, Newer

-----------------------------------------------------------------------------
(* A stream that may be deleted: ids may repeat, but their times do not go back *)

Dates ==
    /\ now >= 1
    /\ \A i \in 1 .. Len(log) : log[i][1] >= 1 /\ log[i][1] <= now
    /\ \A i, j \in 1 .. Len(log) : i < j => log[i][1] <= log[j][1]

DatesInv == StreamInv /\ Dates

LEMMA InitDates == StreamInit => DatesInv
<1> SUFFICES ASSUME StreamInit PROVE DatesInv
  OBVIOUS
<1>1. log \in Seq(Id) /\ Len(log) = 0 /\ first = 1 /\ now = 1
  BY DEF StreamInit
<1> QED
  BY <1>1 DEF DatesInv, StreamInv, StreamType, Ascending, Dates, Live

\* A write bears the time it is made at.
LEMMA AddKeepsDates ==
    ASSUME DatesInv, NEW n \in BatchSizes, Add(n)
    PROVE  DatesInv' /\ Grows
<1> USE StreamAssumption
<1>1. StreamInv' /\ Grows
  BY AddKeeps DEF DatesInv
<1>2. n \in Nat \ {0}
  OBVIOUS
<1>3. PICK d \in ClockSteps : now' = now + d /\ log' = log \o NewIds(n, now + d)
  BY DEF Add
<1>4. /\ d \in Nat /\ now \in Nat /\ now + d \in Nat /\ now >= 1
      /\ log \in Seq(Id) /\ Len(log) \in Nat /\ first \in 1 .. Len(log) + 1
      /\ \A i \in 1 .. Len(log) : log[i] \in Id /\ log[i][1] \in Nat
  BY <1>3 DEF DatesInv, Dates, StreamInv, StreamType, Id
<1> DEFINE ms == now + d
           ids == NewIds(n, ms)
<1>5. ids \in Seq(Id) /\ Len(ids) = n
  BY <1>2, <1>4, NewIdsAscend DEF DatesInv, StreamInv
<1>6. \A k \in 1 .. n : ids[k][1] = ms
  <2>1. PICK a \in Nat, b \in Nat : LastId = <<a, b>> /\ a <= now
    <3>1. CASE Exists
      <4>1. LastId = log[Len(log)] /\ Len(log) \in 1 .. Len(log)
        BY <1>4, <3>1 DEF LastId, Exists
      <4>2. LastId \in Id /\ LastId[1] <= now
        BY <1>4, <4>1 DEF DatesInv, Dates
      <4> QED
        BY <4>2 DEF Id
    <3>2. CASE ~Exists
      BY <1>4, <3>2 DEF LastId, Zero
    <3> QED
      BY <3>1, <3>2
  <2>2. NextId(LastId, ms)[1] = ms
    BY <1>4, <2>1, SMTT(30) DEF NextId
  <2> QED
    BY <2>2 DEF NewIds
<1> HIDE DEF ids
<1>7. /\ Len(log') = Len(log) + n
      /\ \A i \in 1 .. Len(log) : log'[i] = log[i]
      /\ \A i \in Len(log) + 1 .. Len(log) + n :
           i - Len(log) \in 1 .. n /\ log'[i] = ids[i - Len(log)]
  <2>1. log' = log \o ids
    BY <1>3 DEF ids
  <2>2. /\ Len(log') = Len(log) + n
        /\ \A i \in 1 .. Len(log) : log'[i] = log[i]
        /\ \A i \in Len(log) + 1 .. Len(log) + n : log'[i] = ids[i - Len(log)]
    <3>1. log \in Seq(Id) /\ ids \in Seq(Id) /\ Len(ids) = n
      BY <1>4, <1>5
    <3> QED
      BY <2>1, <3>1, ConcatParts, ZenonT(40)
  <2>3. \A i \in Len(log) + 1 .. Len(log) + n : i - Len(log) \in 1 .. n
    BY <1>2, <1>4
  <2> QED
    BY <2>2, <2>3
<1>8. /\ \A i \in 1 .. Len(log) : log'[i][1] = log[i][1] /\ log[i][1] >= 1 /\ log[i][1] <= now
      /\ \A i \in Len(log) + 1 .. Len(log) + n : log'[i][1] = ms
      /\ now' = ms /\ ms >= now
  <2>1. \A i \in 1 .. Len(log) : log'[i][1] = log[i][1] /\ log[i][1] >= 1 /\ log[i][1] <= now
    BY <1>7 DEF DatesInv, Dates
  <2>2. now' = ms /\ ms >= now
    BY <1>3, <1>4
  <2> HIDE DEF ms
  <2> QED
    BY <1>6, <1>7, <2>1, <2>2
<1> HIDE DEF ms
<1>9. ASSUME NEW i \in 1 .. Len(log'), NEW j \in 1 .. Len(log'), i < j
      PROVE  log'[i][1] <= log'[j][1]
  <2>1. CASE j <= Len(log)
    <3>1. i \in 1 .. Len(log) /\ j \in 1 .. Len(log)
      BY <1>4, <1>9, <2>1
    <3>2. log[i][1] <= log[j][1]
      BY <1>9, <3>1 DEF DatesInv, Dates
    <3> QED
      BY <1>8, <3>1, <3>2
  <2>2. CASE j > Len(log)
    <3>1. log'[j][1] = ms
      BY <1>2, <1>4, <1>7, <1>8, <2>2
    <3>2. log'[i][1] = ms \/ log'[i][1] <= now
      BY <1>2, <1>4, <1>7, <1>8
    <3>3. ms \in Int /\ now \in Int /\ log'[i][1] \in Int
      BY <1>2, <1>4, <1>7, <1>8, SMTT(30) DEF ms
    <3> QED
      BY <1>8, <3>1, <3>2, <3>3
  <2> QED
    BY <1>4, <1>7, <2>1, <2>2
<1>10. ASSUME NEW i \in 1 .. Len(log') PROVE log'[i][1] >= 1 /\ log'[i][1] <= now'
  <2>1. ms \in Int /\ i \in Nat
    BY <1>4, <1>7 DEF ms
  <2>2. CASE i <= Len(log)
    BY <1>4, <1>8, <2>1, <2>2
  <2>3. CASE i > Len(log)
    BY <1>2, <1>4, <1>7, <1>8, <2>1, <2>3
  <2> QED
    BY <1>4, <2>1, <2>2, <2>3
<1>11. now' >= 1
  BY <1>4, <1>8 DEF ms
<1> QED
  BY <1>1, <1>9, <1>10, <1>11 DEF DatesInv, Dates

LEMMA RemoveKeepsDates ==
    ASSUME DatesInv, Remove
    PROVE  DatesInv' /\ Grows
<1>1. StreamInv' /\ Grows
  BY RemoveKeeps DEF DatesInv
<1>2. log' = log /\ (now' = now \/ now' = now + 1)
  BY DEF Remove, Delete, Expire
<1>3. now \in Nat /\ log \in Seq(Id) /\ \A i \in 1 .. Len(log) : log[i][1] \in Nat
  BY DEF DatesInv, StreamInv, StreamType, Id
<1> QED
  BY <1>1, <1>2, <1>3 DEF DatesInv, Dates

-----------------------------------------------------------------------------
(* A stream that is never deleted *)

\* Ids grow along all of the log, and bear times that have been. When the key
\* has expired the clock is past them all.
Dated ==
    /\ now >= 1
    /\ \A i \in 1 .. Len(log) : log[i][1] >= 1 /\ log[i][1] <= now
    /\ ~Exists => \A i \in 1 .. Len(log) : log[i][1] < now

Ordered == \A i, j \in 1 .. Len(log) : i < j => Before(log[i], log[j])

KeptInv == StreamInv /\ Dated /\ Ordered

LEMMA InitKept == StreamInit => KeptInv
<1> SUFFICES ASSUME StreamInit PROVE KeptInv
  OBVIOUS
<1>1. log \in Seq(Id) /\ Len(log) = 0 /\ first = 1 /\ now = 1
  BY DEF StreamInit
<1> QED
  BY <1>1 DEF KeptInv, StreamInv, StreamType, Ascending, Dated, Ordered, Live, Exists

\* As long as the clock does not go back, what is appended is newer than all that
\* ever was.
LEMMA AddKeepsOrder ==
    ASSUME KeptInv, NEW n \in BatchSizes, Add(n)
    PROVE  KeptInv' /\ Grows
<1> USE StreamAssumption
<1>1. StreamInv' /\ Grows
  BY AddKeeps DEF KeptInv
<1>2. n \in Nat \ {0}
  OBVIOUS
<1>3. PICK d \in ClockSteps : now' = now + d /\ log' = log \o NewIds(n, now + d)
  BY DEF Add
<1>4. /\ d \in Nat /\ now \in Nat /\ now + d \in Nat
      /\ log \in Seq(Id) /\ Len(log) \in Nat /\ first \in 1 .. Len(log) + 1
      /\ now >= 1
  BY <1>3 DEF KeptInv, Dated, StreamInv, StreamType
<1> DEFINE ms == now + d
           ids == NewIds(n, ms)
<1>5. /\ ids \in Seq(Id) /\ Len(ids) = n
      /\ \A k, m \in 1 .. n : k < m => Before(ids[k], ids[m])
  BY <1>2, <1>4, NewIdsAscend DEF KeptInv, StreamInv
<1>6. \A k \in 1 .. n :
        /\ ids[k][1] = ms
        /\ \A i \in 1 .. Len(log) : Before(log[i], ids[k])
  <2>1. PICK a \in Nat, b \in Nat : LastId = <<a, b>> /\ a <= now
    <3>1. CASE Exists
      <4>1. LastId = log[Len(log)] /\ Len(log) \in 1 .. Len(log)
        BY <1>4, <3>1 DEF LastId, Exists
      <4>2. LastId \in Id /\ LastId[1] <= now
        BY <1>4, <4>1 DEF KeptInv, Dated
      <4> QED
        BY <4>2 DEF Id
    <3>2. CASE ~Exists
      BY <1>4, <3>2 DEF LastId, Zero
    <3> QED
      BY <3>1, <3>2
  <2>2. PICK e \in Nat : NextId(LastId, ms) = <<ms, e>> /\ (a = ms => e > b)
    BY <1>4, <2>1, SMTT(30) DEF NextId
  <2>3. \A k \in 1 .. n : ids[k] = <<ms, e + k - 1>>
    BY <2>2 DEF NewIds
  <2>4. \A k \in 1 .. n : ids[k][1] = ms /\ ids[k][2] >= e /\ ids[k][2] \in Int
    BY <1>2, <2>3
  <2>5. ASSUME NEW k \in 1 .. n, NEW i \in 1 .. Len(log)
        PROVE  Before(log[i], ids[k])
    <3>1. log[i] \in Id /\ log[i][1] <= now
      BY <1>4 DEF KeptInv, Dated
    <3>2. CASE Exists
      <4>1. LastId = log[Len(log)] /\ LastId \in Id
        BY <1>4, <3>2 DEF LastId, Exists
      <4>2. i = Len(log) \/ Before(log[i], LastId)
        BY <1>4, <4>1 DEF KeptInv, Ordered
      <4>3. PICK x \in Nat, y \in Nat : log[i] = <<x, y>>
        BY <3>1 DEF Id
      <4>4. x < a \/ (x = a /\ y <= b)
        BY <2>1, <4>1, <4>2, <4>3 DEF Before
      <4>5. x < ms \/ (x = ms /\ y < e)
        BY <1>4, <2>1, <2>2, <4>4
      <4>6. ids[k][1] = ms /\ ids[k][2] >= e /\ ids[k][2] \in Int
        BY <2>4
      <4> QED
        BY <4>3, <4>5, <4>6 DEF Before
    <3>3. CASE ~Exists
      <4>1. log[i][1] < now
        BY <3>3 DEF KeptInv, Dated
      <4> QED
        BY <1>4, <2>4, <3>1, <4>1, SMTT(30) DEF Before, Id
    <3> QED
      BY <3>2, <3>3
  <2> QED
    BY <2>4, <2>5
<1> HIDE DEF ids
<1>7. /\ Len(log') = Len(log) + n
      /\ \A i \in 1 .. Len(log) : log'[i] = log[i]
      /\ \A i \in Len(log) + 1 .. Len(log) + n :
           i - Len(log) \in 1 .. n /\ log'[i] = ids[i - Len(log)]
  <2>1. log' = log \o ids
    BY <1>3 DEF ids
  <2>2. /\ Len(log') = Len(log) + n
        /\ \A i \in 1 .. Len(log) : log'[i] = log[i]
        /\ \A i \in Len(log) + 1 .. Len(log) + n : log'[i] = ids[i - Len(log)]
    <3>1. log \in Seq(Id) /\ ids \in Seq(Id) /\ Len(ids) = n
      BY <1>4, <1>5
    <3> QED
      BY <2>1, <3>1, ConcatParts, ZenonT(40)
  <2>3. \A i \in Len(log) + 1 .. Len(log) + n : i - Len(log) \in 1 .. n
    BY <1>2, <1>4
  <2> QED
    BY <2>2, <2>3
<1>8. Ordered'
  <2> SUFFICES ASSUME NEW i \in 1 .. Len(log'), NEW j \in 1 .. Len(log'), i < j
               PROVE  Before(log'[i], log'[j])
    BY DEF Ordered
  <2>1. i \in 1 .. Len(log) + n /\ j \in 1 .. Len(log) + n
    BY <1>7
  <2>2. CASE j <= Len(log)
    BY <1>4, <1>7, <2>1, <2>2 DEF KeptInv, Ordered
  <2>3. CASE i <= Len(log) /\ j > Len(log)
    BY <1>2, <1>4, <1>6, <1>7, <2>1, <2>3
  <2>4. CASE i > Len(log)
    <3>1. /\ log'[i] = ids[i - Len(log)] /\ log'[j] = ids[j - Len(log)]
          /\ i - Len(log) \in 1 .. n /\ j - Len(log) \in 1 .. n
          /\ i - Len(log) < j - Len(log)
      BY <1>2, <1>4, <1>7, <2>1, <2>4
    <3> QED
      BY <1>5, <3>1
  <2> QED
    BY <1>4, <2>1, <2>2, <2>3, <2>4
<1>9. Dated'
  <2>1. Exists'
    BY <1>2, <1>4, <1>7, SMTT(30) DEF Add, Exists
  <2>2. now' = ms /\ ms >= now /\ ms >= 1
    BY <1>3, <1>4
  <2>3. ASSUME NEW i \in 1 .. Len(log') PROVE log'[i][1] >= 1 /\ log'[i][1] <= now'
    <3>1. i \in 1 .. Len(log) + n
      BY <1>7
    <3>2. CASE i <= Len(log)
      <4>1. log[i][1] >= 1 /\ log[i][1] <= now /\ log'[i] = log[i] /\ log[i] \in Id
        BY <1>4, <1>7, <3>1, <3>2 DEF KeptInv, Dated
      <4> QED
        BY <1>4, <2>2, <4>1 DEF Id
    <3>3. CASE i > Len(log)
      BY <1>2, <1>4, <1>6, <1>7, <2>2, <3>1, <3>3
    <3> QED
      BY <1>4, <3>1, <3>2, <3>3
  <2> QED
    BY <2>1, <2>2, <2>3 DEF Dated
<1> QED
  BY <1>1, <1>8, <1>9 DEF KeptInv

LEMMA ExpireKeepsOrder ==
    ASSUME KeptInv, Remove, "delete" \notin Removals
    PROVE  KeptInv' /\ Grows
<1>1. StreamInv' /\ Grows
  BY RemoveKeeps DEF KeptInv
<1>2. Exists /\ log' = log /\ now' = now + 1
  BY DEF Remove, Delete, Expire
<1>3. now \in Nat /\ log \in Seq(Id)
  BY DEF KeptInv, StreamInv, StreamType
<1>4. \A i \in 1 .. Len(log) : log[i][1] \in Nat
  BY <1>3 DEF Id
<1>5. Dated'
  BY <1>2, <1>3, <1>4 DEF KeptInv, Dated
<1>6. Ordered'
  BY <1>2 DEF KeptInv, Ordered
<1> QED
  BY <1>1, <1>5, <1>6 DEF KeptInv

\* What is known of the stream, whichever way its key may vanish.
DatesOrKept == DatesInv /\ ("delete" \notin Removals => KeptInv)

LEMMA StreamStill ==
    ASSUME DatesOrKept, UNCHANGED <<log, first, now>>
    PROVE  DatesOrKept'
BY DEF DatesOrKept, DatesInv, KeptInv, StreamInv, StreamType, Ascending, Live, Dates, Dated,
   Ordered, Exists

\* A cursor that tells a place: "0" the start, an event's id that event.
Mark(c, p) == (c = Zero /\ p = 0) \/ (p \in 1 .. Len(log) /\ c = log[p])

\* An id is not "$".
LEMMA IdIsNotLatest == \A c \in Id : c # Latest
BY DEF Id, Latest

\* A cursor goes on telling its place when the log grows.
LEMMA MarkKept ==
    ASSUME StreamInv, Grows, StreamInv', NEW c, NEW p, Mark(c, p)
    PROVE  Mark(c, p)'
BY DEF Mark, Grows, StreamInv, StreamType

\* XREAD from a cursor returns only what comes after the place it tells.
LEMMA NewerThanMark ==
    ASSUME StreamInv, NEW c, NEW p, Mark(c, p)
    PROVE  \A i \in Newer(c) : i > p
<1>1. CASE p = 0
  BY <1>1 DEF Newer, Live, StreamInv, StreamType
<1>2. CASE p \in 1 .. Len(log) /\ c = log[p]
  BY <1>2, NewerThanEvent
<1> QED
  BY <1>1, <1>2 DEF Mark

\* A cursor that is told to be trimmed tells a place that is: also when the key
\* was deleted since and the cursor's id used again.
LEMMA TrimmedIsGone ==
    ASSUME StreamInv, NEW c, NEW p, Mark(c, p), Trimmed(c)
    PROVE  p < first
<1> SUFFICES ASSUME ~(p < first) PROVE FALSE
  OBVIOUS
<1>1. /\ log \in Seq(Id) /\ first \in 1 .. Len(log) + 1 /\ Len(log) \in Nat
      /\ p \in 1 .. Len(log) /\ c = log[p] /\ Before(log[p], log[first]) /\ first <= Len(log)
  BY DEF StreamInv, StreamType, Trimmed, Mark, Exists
<1>2. first \in Newer(log[p])
  BY <1>1 DEF Newer, Live
<1> QED
  BY <1>1, <1>2, NewerThanEvent

\* Redis gave event j an id that event i had reached.
Hidden(i, j) == i \in 1 .. Len(log) /\ j \in 1 .. Len(log) /\ Reused(i, j)

LEMMA HidesIsHidden ==
    ASSUME StreamInv
    PROVE  \A i, j : i < j /\ Hidden(i, j) => <<i, j>> \in Hides
BY DEF Hidden, Hides

\* A step of the stream hides new events only, behind events that are gone.
LEMMA HidesGrows ==
    ASSUME StreamInv, Grows, StreamInv'
    PROVE  /\ Hides \subseteq Hides'
           /\ \A h \in Hides' \ Hides : h[1] < first' /\ h[2] > Len(log)
<1>1. /\ Len(log) \in Nat /\ Len(log') \in Nat /\ Len(log) <= Len(log')
      /\ \A i \in 1 .. Len(log) : log'[i] = log[i]
      /\ \A i \in 1 .. Len(log') : log'[i] \in Id
      /\ first' \in 1 .. Len(log') + 1
  BY DEF StreamInv, StreamType, Grows
<1>2. Hides \subseteq Hides'
  BY <1>1 DEF Hides, Reused
<1>3. ASSUME NEW i \in 1 .. Len(log'), NEW j \in 1 .. Len(log'), i < j,
             Reused(i, j)', <<i, j>> \notin Hides
      PROVE  i < first' /\ j > Len(log)
  <2>1. j > Len(log)
    BY <1>1, <1>3 DEF Hides, Reused
  <2>2. CASE i >= first'
    <3>1. i \in Live' /\ j \in Live'
      BY <1>1, <1>3, <2>2 DEF Live
    <3>2. Before(log'[i], log'[j]) /\ log'[i] \in Id /\ log'[j] \in Id
      BY <1>1, <1>3, <3>1 DEF StreamInv, Ascending
    <3>3. /\ log'[i][1] \in Nat /\ log'[i][2] \in Nat
          /\ log'[j][1] \in Nat /\ log'[j][2] \in Nat
      BY <3>2 DEF Id
    <3> QED
      BY <1>3, <3>2, <3>3 DEF Before, Reused
  <2> QED
    BY <1>1, <2>1, <2>2
<1> QED
  BY <1>2, <1>3 DEF Hides

LEMMA HiddenKept ==
    ASSUME StreamInv, Grows, StreamInv', NEW a, NEW j, Hidden(a, j)
    PROVE  Hidden(a, j)'
BY DEF Hidden, Reused, Grows, StreamInv, StreamType

\* Where the key is never deleted that does not happen.
LEMMA NoneHidden ==
    ASSUME KeptInv, NEW i, NEW j, i < j, Hidden(i, j)
    PROVE  FALSE
<1>1. i \in 1 .. Len(log) /\ j \in 1 .. Len(log) /\ Before(log[i], log[j]) /\ Reused(i, j)
  BY DEF Hidden, KeptInv, Ordered
<1>2. log[i][1] \in Nat /\ log[i][2] \in Nat /\ log[j][2] \in Nat
  BY <1>1, SMTT(30) DEF KeptInv, StreamInv, StreamType, Id
<1> QED
  BY <1>1, <1>2 DEF Before, Reused

LEMMA NothingHides ==
    ASSUME KeptInv
    PROVE  Hides = {}
<1> SUFFICES ASSUME NEW h \in Hides PROVE FALSE
  OBVIOUS
<1>1. PICK i \in 1 .. Len(log), j \in 1 .. Len(log) : h = <<i, j>> /\ i < j /\ Reused(i, j)
  BY DEF Hides
<1> QED
  BY <1>1, NoneHidden DEF Hidden

\* The same notions of any log, so that what follows can be used of the stream
\* before a step and after it.
MarkIn(lg, c, p) == (c = Zero /\ p = 0) \/ (p \in 1 .. Len(lg) /\ c = lg[p])

NewerIn(lg, f, c) == {i \in f .. Len(lg) : Before(c, lg[i])}

BatchIn(lg, f, c, limit) ==
    {i \in NewerIn(lg, f, c) : i - limit \notin NewerIn(lg, f, c)}

HiddenIn(lg, i, j) ==
    /\ i \in 1 .. Len(lg) /\ j \in 1 .. Len(lg)
    /\ lg[i][1] = lg[j][1] /\ lg[j][2] <= lg[i][2]

\* What holds of the ids of the stream.
DatedIds(lg, f) ==
    /\ \A i \in 1 .. Len(lg) : lg[i][1] >= 1
    /\ \A i, j \in 1 .. Len(lg) : i < j => lg[i][1] <= lg[j][1]
    /\ \A i, j \in f .. Len(lg) : i < j => Before(lg[i], lg[j])

LEMMA DatedGrows ==
    ASSUME DatesInv
    PROVE  log \in Seq(Id) /\ first \in 1 .. Len(log) + 1 /\ DatedIds(log, first)
BY DEF DatesInv, StreamInv, StreamType, Ascending, Live, Dates, DatedIds

LEMMA IdParts == \A id \in Id : \E x \in Nat, y \in Nat : id = <<x, y>>
BY DEF Id

\* A batch has no holes: a live event that comes before one of its events and is
\* not in it comes before all of it, and at the cursor's place or before, unless
\* the cursor's event had reached its id.
LEMMA BatchHasNoHoles ==
    ASSUME NEW lg \in Seq(Id), NEW f \in 1 .. Len(lg) + 1, DatedIds(lg, f),
           NEW c \in Id, NEW limit \in Nat \ {0},
           NEW i \in BatchIn(lg, f, c, limit),
           NEW j \in f .. Len(lg), j < i, j \notin BatchIn(lg, f, c, limit)
    PROVE  /\ \A m \in BatchIn(lg, f, c, limit) : j < m
           /\ \A p : MarkIn(lg, c, p) => j <= p \/ HiddenIn(lg, p, j)
<1> DEFINE N == NewerIn(lg, f, c)
<1>1. /\ i \in N /\ i - limit \notin N
      /\ N = {k \in f .. Len(lg) : Before(c, lg[k])} /\ N \subseteq f .. Len(lg)
      /\ \A k \in f .. Len(lg) : k \in 1 .. Len(lg) /\ lg[k] \in Id /\ k \in Nat
  BY DEF BatchIn, NewerIn
<1>2. \A k \in N : \A m \in f .. Len(lg) : k < m => m \in N
  BY <1>1, BeforeTransitive DEF DatedIds
<1>3. j \notin N
  <2> SUFFICES ASSUME j \in N PROVE FALSE
    OBVIOUS
  <2>1. j - limit \in N
    BY DEF BatchIn
  <2>2. i - limit \in f .. Len(lg) /\ j - limit < i - limit
    BY <1>1, <2>1
  <2> QED
    BY <1>1, <1>2, <2>1, <2>2
<1>4. \A m \in BatchIn(lg, f, c, limit) : j < m
  <2> SUFFICES ASSUME NEW m \in N, ~(j < m) PROVE FALSE
    BY DEF BatchIn
  <2>1. m = j \/ m < j
    BY <1>1
  <2> QED
    BY <1>2, <1>3, <2>1
<1>5. \A p : MarkIn(lg, c, p) => j <= p \/ HiddenIn(lg, p, j)
  <2> SUFFICES ASSUME NEW p, MarkIn(lg, c, p), ~(j <= p)
               PROVE  HiddenIn(lg, p, j)
    OBVIOUS
  <2>1. ~Before(c, lg[j])
    BY <1>1, <1>3
  <2>2. lg[j] \in Id
    BY <1>1
  <2>3. PICK x \in Nat, y \in Nat : lg[j] = <<x, y>>
    BY <2>2, IdParts
  <2>4. c # Zero
    <3>1. x >= 1
      BY <1>1, <2>3 DEF DatedIds
    <3> QED
      BY <2>1, <2>3, <3>1 DEF Before, Zero
  <2>5. p \in 1 .. Len(lg) /\ c = lg[p]
    BY <2>4 DEF MarkIn
  <2>6. lg[p] \in Id
    BY <2>5
  <2>7. PICK a \in Nat, b \in Nat : lg[p] = <<a, b>>
    BY <2>6, IdParts
  <2>8. a <= x
    <3>1. p < j /\ j \in 1 .. Len(lg)
      BY <1>1, <2>5
    <3> QED
      BY <2>3, <2>5, <2>7, <3>1 DEF DatedIds
  <2>9. a = x /\ y <= b
    BY <2>1, <2>3, <2>5, <2>7, <2>8 DEF Before
  <2> QED
    BY <1>1, <2>3, <2>5, <2>7, <2>9 DEF HiddenIn
<1> QED
  BY <1>4, <1>5
=============================================================================
