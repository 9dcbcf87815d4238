--------------------------- MODULE AdmissionProofs ---------------------------
(***************************************************************************)
(* What the admission of requests promises, for any requests, keys,        *)
(* limits, window lengths, clocks and interleaving.                        *)
(*                                                                         *)
(* The requests a rate limiter counted under a key fall into buckets, one  *)
(* for each window.  Buckets lie RateWindow apart, none holds more than    *)
(* the limit, and the first request of each is as old as its window.       *)
(*                                                                         *)
(* A Redis key of a quota holds at least what the requests that passed in  *)
(* its window add up to, and at most what all the requests that ran the    *)
(* script do.  The sums of the model are folds over sets of requests: what *)
(* is needed of them is proved first.                                      *)
(***************************************************************************)
EXTENDS Admission, FiniteSetTheorems, TLAPS

-----------------------------------------------------------------------------
(* The rate limits of a process *)

KeySet == Clients \cup Principals

Member(o, p, k, key) == counted[o][k] >= 0 /\ P(o) = p /\ Key(o, k) = key
Bucket(p, k, key, start) == {o \in Requests : Member(o, p, k, key) /\ counted[o][k] = start}

Apart(m, n) == m = n \/ m + RateWindow <= n \/ n + RateWindow <= m

\* The window the limiter holds is the latest bucket.
HeldOK(p, k, key) ==
    LET w == rates[p][k][key]
    IN  /\ w[1] <= now /\ w[2] \in 0 .. LocalMax(k)
        /\ w[1] < 0 => w[1] + RateWindow <= 0
        /\ w[1] >= 0 => /\ Cardinality(Bucket(p, k, key, w[1])) = w[2]
                        /\ \E f \in Bucket(p, k, key, w[1]) : began[f] = w[1]
        /\ \A o \in Requests :
             Member(o, p, k, key) => counted[o][k] = w[1] \/ counted[o][k] + RateWindow <= w[1]

BucketsOK(p, k, key) ==
    \A o \in Requests : Member(o, p, k, key) =>
      /\ LocalMax(k) > 0
      /\ counted[o][k] <= began[o] /\ began[o] < counted[o][k] + RateWindow
      /\ Cardinality(Bucket(p, k, key, counted[o][k])) <= LocalMax(k)
      /\ \E f \in Bucket(p, k, key, counted[o][k]) : began[f] = counted[o][k]
      /\ \A q \in Requests : Member(q, p, k, key) => Apart(counted[o][k], counted[q][k])

LimiterOK(p, k, key) == HeldOK(p, k, key) /\ BucketsOK(p, k, key)

LimiterType ==
    /\ now \in Nat
    /\ call \in [Requests -> Calls]
    /\ call \in Workloads
    /\ st \in [Requests -> Running \cup Outcomes]
    /\ principal \in [Requests -> Principals \cup {None}]
    /\ rates \in [Processes -> [LocalKinds -> [KeySet -> Int \X Int]]]
    /\ began \in [Requests -> Int]
    /\ \A r \in Requests : began[r] <= now
    /\ counted \in [Requests -> [LocalKinds -> Int]]
    /\ \A r \in Requests : st[r] = "new" => \A k \in LocalKinds : counted[r][k] = -1

LimiterInv ==
    /\ LimiterType
    /\ \A p \in Processes, k \in LocalKinds, key \in KeySet : LimiterOK(p, k, key)
    /\ TurnedAwayHasCause

-----------------------------------------------------------------------------
LEMMA LocalMaxType == \A k \in LocalKinds : LocalMax(k) \in Nat
BY AdmissionAssumption DEF LocalKinds, LocalMax

LEMMA KeyType ==
    ASSUME LimiterType, NEW r \in Requests, NEW k \in LocalKinds
    PROVE  Key(r, k) \in KeySet /\ P(r) \in Processes
<1>1. call[r] \in Calls /\ principal[r] \in Principals \cup {None}
  BY DEF LimiterType
<1>2. call[r].client \in Clients /\ call[r].process \in Processes
  BY <1>1 DEF Calls
<1> QED BY <1>1, <1>2 DEF Key, P, KeySet

LEMMA BucketFinite ==
    \A p, k, key, start : IsFiniteSet(Bucket(p, k, key, start))
<1> TAKE p, k, key, start
<1>1. Bucket(p, k, key, start) \subseteq Requests /\ IsFiniteSet(Requests)
  BY AdmissionAssumption DEF Bucket
<1> QED BY <1>1, FS_Subset

\* A limiter whose requests, and whose window, stay as they are stays in order.
LEMMA Untouched ==
    ASSUME LimiterType, NEW p \in Processes, NEW k \in LocalKinds, NEW key \in KeySet,
           LimiterOK(p, k, key), now' \in Nat, now <= now',
           rates'[p][k][key] = rates[p][k][key],
           \A o \in Requests : Member(o, p, k, key)' <=> Member(o, p, k, key),
           \A o \in Requests : Member(o, p, k, key) =>
             counted'[o][k] = counted[o][k] /\ began'[o] = began[o]
    PROVE  LimiterOK(p, k, key)'
<1>1. \A s : Bucket(p, k, key, s)' = Bucket(p, k, key, s)
  BY DEF Bucket
<1>2. \A s : \A f \in Bucket(p, k, key, s) : began'[f] = began[f]
  BY DEF Bucket
<1>3. rates[p][k][key] \in Int \X Int
  BY DEF LimiterType
<1>4. HeldOK(p, k, key)'
  BY <1>1, <1>2, <1>3 DEF LimiterOK, HeldOK, LimiterType
<1>5. BucketsOK(p, k, key)'
  BY <1>1, <1>2 DEF LimiterOK, BucketsOK
<1> QED BY <1>4, <1>5 DEF LimiterOK

\* A window that is over leaves room for a bucket of its own.
LEMMA CurrentWindow ==
    ASSUME LimiterType, NEW p \in Processes, NEW k \in LocalKinds, NEW key \in KeySet,
           LimiterOK(p, k, key)
    PROVE  LET w == rates[p][k][key]
           IN  \/ Current(w) = <<now, 0>> /\ w[1] + RateWindow <= now
               \/ Current(w) = w /\ now < w[1] + RateWindow /\ w[1] >= 0
<1> DEFINE w == rates[p][k][key]
<1>1. w \in Int \X Int /\ now \in Nat /\ RateWindow \in Nat \ {0}
  BY AdmissionAssumption DEF LimiterType
<1>2. w[1] < 0 => w[1] + RateWindow <= 0
  BY DEF LimiterOK, HeldOK
<1> HIDE DEF w
<1>3. \/ Current(w) = <<now, 0>> /\ w[1] + RateWindow <= now
      \/ Current(w) = w /\ now < w[1] + RateWindow /\ w[1] >= 0
  BY <1>1, <1>2 DEF Current
<1> QED BY <1>3 DEF w

\* The limiter that counts r adds it to the bucket of its window.
LEMMA Grown ==
    ASSUME LimiterType, NEW p \in Processes, NEW k \in LocalKinds, NEW key \in KeySet,
           LimiterOK(p, k, key), LocalMax(k) > 0, ~TurnsAway(k, rates[p][k][key]),
           NEW r \in Requests, ~Member(r, p, k, key), P(r)' = p, Key(r, k)' = key,
           now' = now, began'[r] = now,
           \A o \in Requests : o # r =>
             /\ Member(o, p, k, key)' <=> Member(o, p, k, key)
             /\ counted'[o][k] = counted[o][k] /\ began'[o] = began[o],
           counted'[r][k] = Current(rates[p][k][key])[1],
           rates'[p][k][key] =
             <<Current(rates[p][k][key])[1], Current(rates[p][k][key])[2] + 1>>
    PROVE  LimiterOK(p, k, key)'
<1> DEFINE w == rates[p][k][key]
           B(s) == Bucket(p, k, key, s)
<1>1. /\ w \in Int \X Int /\ now \in Nat /\ RateWindow \in Nat \ {0} /\ LocalMax(k) \in Nat
      /\ \A o \in Requests : counted[o][k] \in Int /\ began[o] \in Int
  BY AdmissionAssumption, LocalMaxType DEF LimiterType
<1>2. \/ Current(w) = <<now, 0>> /\ w[1] + RateWindow <= now
      \/ Current(w) = w /\ now < w[1] + RateWindow /\ w[1] >= 0
  BY CurrentWindow
<1>3. /\ w[1] <= now /\ w[2] \in 0 .. LocalMax(k)
      /\ w[1] >= 0 => Cardinality(B(w[1])) = w[2] /\ \E f \in B(w[1]) : began[f] = w[1]
      /\ \A o \in Requests :
           Member(o, p, k, key) => counted[o][k] = w[1] \/ counted[o][k] + RateWindow <= w[1]
  BY DEF LimiterOK, HeldOK
<1>4. PICK start, number : start = Current(w)[1] /\ number = Current(w)[2]
  OBVIOUS
<1>5. /\ ~(number >= LocalMax(k))
      /\ counted'[r][k] = start /\ rates'[p][k][key] = <<start, number + 1>>
  BY <1>4 DEF TurnsAway
<1>6. \/ start = now /\ number = 0 /\ w[1] + RateWindow <= now
      \/ start = w[1] /\ number = w[2] /\ now < w[1] + RateWindow /\ w[1] >= 0
  BY <1>2, <1>4
<1> HIDE DEF w
<1>7. /\ start \in Nat /\ start <= now /\ now < start + RateWindow
      /\ number \in Nat /\ number < LocalMax(k)
  BY <1>1, <1>3, <1>5, <1>6
<1>8. \A o \in Requests :
        Member(o, p, k, key) => counted[o][k] = start \/ counted[o][k] + RateWindow <= start
  BY <1>1, <1>3, <1>6
<1>9. Cardinality(B(start)) = number
  <2>1. CASE start = w[1] /\ number = w[2] /\ w[1] >= 0
    BY <2>1, <1>3
  <2>2. CASE start = now /\ number = 0 /\ w[1] + RateWindow <= now
    <3>1. \A o \in Requests : Member(o, p, k, key) => counted[o][k] # now
      BY <1>1, <1>3, <2>2
    <3>2. B(start) = {}
      BY <2>2, <3>1 DEF Bucket
    <3>3. Cardinality({}) = 0
      BY FS_EmptySet
    <3> QED BY <2>2, <3>2, <3>3
  <2> QED BY <1>6, <2>1, <2>2
<1>10. Member(r, p, k, key)' /\ r \notin B(start)
  BY <1>5, <1>7 DEF Member, Bucket
<1>11. /\ Bucket(p, k, key, start)' = B(start) \cup {r}
       /\ \A s : s # start => Bucket(p, k, key, s)' = B(s)
  BY <1>5, <1>10 DEF Bucket
<1>12. Cardinality(Bucket(p, k, key, start)') = number + 1
  <2>1. IsFiniteSet(B(start))
    BY BucketFinite
  <2>2. Cardinality(B(start) \cup {r}) = Cardinality(B(start)) + 1
    BY <1>10, <2>1, FS_AddElement
  <2> QED BY <1>9, <1>11, <2>2
<1>13. \E f \in Bucket(p, k, key, start)' : began'[f] = start
  <2>1. CASE start = w[1] /\ w[1] >= 0
    <3>1. PICK f \in B(w[1]) : began[f] = w[1]
      BY <1>3, <2>1
    <3>2. f # r /\ f \in Requests
      BY <1>10, <2>1, <3>1 DEF Bucket
    <3> QED BY <1>11, <2>1, <3>1, <3>2
  <2>2. CASE start = now
    BY <1>11, <2>2
  <2> QED BY <1>6, <2>1, <2>2
<1>14. HeldOK(p, k, key)'
  <2>1. rates'[p][k][key][1] = start /\ rates'[p][k][key][2] = number + 1
    BY <1>5
  <2>2. number + 1 \in 0 .. LocalMax(k)
    BY <1>1, <1>7
  <2>3. \A o \in Requests : Member(o, p, k, key)' =>
          counted'[o][k] = start \/ counted'[o][k] + RateWindow <= start
    BY <1>5, <1>8
  <2>4. start <= now' /\ ~(start < 0)
    BY <1>7
  <2>5. Cardinality(Bucket(p, k, key, rates[p][k][key][1])') = number + 1
    BY <1>12, <2>1
  <2>6. \E f \in Bucket(p, k, key, rates[p][k][key][1])' : began'[f] = start
    BY <1>13, <2>1
  <2> QED BY <2>1, <2>2, <2>3, <2>4, <2>5, <2>6 DEF HeldOK
<1>15. BucketsOK(p, k, key)'
  <2> SUFFICES ASSUME NEW o \in Requests, Member(o, p, k, key)'
               PROVE  /\ LocalMax(k) > 0
                      /\ counted'[o][k] <= began'[o]
                      /\ began'[o] < counted'[o][k] + RateWindow
                      /\ Cardinality(Bucket(p, k, key, counted[o][k])') <= LocalMax(k)
                      /\ \E f \in Bucket(p, k, key, counted[o][k])' :
                           began'[f] = counted'[o][k]
                      /\ \A q \in Requests : Member(q, p, k, key)' =>
                           Apart(counted'[o][k], counted'[q][k])
    BY DEF BucketsOK, Apart
  <2>1. \A q \in Requests : Member(q, p, k, key)' =>
          Apart(counted'[o][k], counted'[q][k])
    <3>1. \A q \in Requests : Member(q, p, k, key)' => Apart(start, counted'[q][k])
      BY <1>5, <1>8 DEF Apart
    <3>2. \A q \in Requests :
            Member(q, p, k, key) /\ Member(o, p, k, key) => Apart(counted[o][k], counted[q][k])
      BY DEF LimiterOK, BucketsOK
    <3>3. CASE o = r
      BY <1>5, <3>1, <3>3
    <3>4. CASE o # r
      BY <1>5, <3>1, <3>2, <3>4 DEF Apart
    <3> QED BY <3>3, <3>4
  <2>2. CASE counted'[o][k] = start
    <3>1. start <= began'[o] /\ began'[o] < start + RateWindow
      <4>1. CASE o = r
        BY <1>7, <4>1
      <4>2. CASE o # r
        <5>1. counted[o][k] = start /\ Member(o, p, k, key) /\ began'[o] = began[o]
          BY <2>2, <4>2
        <5> QED BY <5>1 DEF LimiterOK, BucketsOK
      <4> QED BY <4>1, <4>2
    <3>2. Bucket(p, k, key, counted[o][k])' = Bucket(p, k, key, start)'
      BY <2>2
    <3>3. Cardinality(Bucket(p, k, key, counted[o][k])') <= LocalMax(k)
      BY <1>1, <1>7, <1>12, <3>2
    <3>4. \E f \in Bucket(p, k, key, counted[o][k])' : began'[f] = counted'[o][k]
      BY <1>13, <2>2, <3>2
    <3> QED BY <2>1, <2>2, <3>1, <3>3, <3>4
  <2>3. CASE counted'[o][k] # start
    <3>1. o # r /\ Member(o, p, k, key)
      BY <1>5, <2>3
    <3>2. counted'[o][k] = counted[o][k] /\ began'[o] = began[o]
      BY <3>1
    <3>3. Bucket(p, k, key, counted[o][k])' = B(counted[o][k])
      <4>1. PICK s : s = counted[o][k]
        OBVIOUS
      <4>2. Bucket(p, k, key, s)' = B(s)
        BY <1>11, <2>3, <3>2, <4>1
      <4>3. Bucket(p, k, key, counted[o][k])' = Bucket(p, k, key, s)'
        BY <3>2, <4>1
      <4> QED BY <4>1, <4>2, <4>3
    <3>4. PICK f \in B(counted[o][k]) : began[f] = counted[o][k]
      BY <3>1 DEF LimiterOK, BucketsOK
    <3>5. f # r /\ began'[f] = began[f]
      BY <3>4 DEF Bucket
    <3> QED BY <2>1, <3>1, <3>2, <3>3, <3>4, <3>5 DEF LimiterOK, BucketsOK
  <2> QED BY <2>2, <2>3
<1> QED BY <1>14, <1>15 DEF LimiterOK

-----------------------------------------------------------------------------
Recent(p, k, key) ==
    {o \in Requests : Member(o, p, k, key) /\ began[o] \in now - RateWindow + 1 .. now}

\* A limiter turns away only when the bucket of its window is full.
LEMMA Exhausted ==
    ASSUME LimiterType, NEW p \in Processes, NEW k \in LocalKinds, NEW key \in KeySet,
           LimiterOK(p, k, key), TurnsAway(k, rates[p][k][key])
    PROVE  LocalMax(k) > 0 /\ Cardinality(Recent(p, k, key)) >= LocalMax(k)
<1> DEFINE w == rates[p][k][key]
           B == Bucket(p, k, key, w[1])
<1>1. /\ w \in Int \X Int /\ now \in Nat /\ RateWindow \in Nat \ {0} /\ LocalMax(k) \in Nat
      /\ \A o \in Requests : began[o] \in Int /\ began[o] <= now
  BY AdmissionAssumption, LocalMaxType DEF LimiterType
<1>2. LocalMax(k) > 0 /\ Current(w)[2] >= LocalMax(k)
  BY DEF TurnsAway
<1>3. \/ Current(w) = <<now, 0>> /\ w[1] + RateWindow <= now
      \/ Current(w) = w /\ now < w[1] + RateWindow /\ w[1] >= 0
  BY CurrentWindow
<1>4. Current(w) = w /\ now < w[1] + RateWindow /\ w[1] >= 0
  <2>1. <<now, 0>>[2] = 0
    OBVIOUS
  <2> HIDE DEF w
  <2>2. Current(w) # <<now, 0>>
    BY <1>1, <1>2, <2>1
  <2> QED BY <1>3, <2>2
<1>5. Cardinality(B) = w[2]
  BY <1>4 DEF LimiterOK, HeldOK
<1>6. B \subseteq Recent(p, k, key)
  <2> SUFFICES ASSUME NEW o \in B PROVE o \in Recent(p, k, key)
    OBVIOUS
  <2>1. o \in Requests /\ Member(o, p, k, key) /\ counted[o][k] = w[1]
    BY DEF Bucket
  <2>2. counted[o][k] <= began[o]
    BY <2>1 DEF LimiterOK, BucketsOK
  <2>3. began[o] \in now - RateWindow + 1 .. now
    BY <1>1, <1>4, <2>1, <2>2
  <2> QED BY <2>1, <2>3 DEF Recent
<1>7. IsFiniteSet(Recent(p, k, key)) /\ IsFiniteSet(B)
  <2>1. Recent(p, k, key) \subseteq Requests /\ IsFiniteSet(Requests)
    BY AdmissionAssumption DEF Recent
  <2> QED BY <2>1, FS_Subset, BucketFinite
<1>8. Cardinality(B) <= Cardinality(Recent(p, k, key))
  BY <1>6, <1>7, FS_Subset
<1>9. Cardinality(B) \in Nat /\ Cardinality(Recent(p, k, key)) \in Nat
  BY <1>7, FS_CardinalityType
<1>10. w[2] >= LocalMax(k)
  BY <1>2, <1>4
<1> HIDE DEF w, B
<1> QED BY <1>1, <1>2, <1>5, <1>8, <1>9, <1>10

\* What was a good reason to turn a request away stays one while limiters only count.
LEMMA CauseStays ==
    ASSUME LimiterType, TurnedAwayHasCause, NEW r \in Requests, st[r] = "rate-limited",
           call' = call, principal'[r] = principal[r], began'[r] = began[r],
           \A o \in Requests : \A k \in LocalKinds : counted[o][k] >= 0 =>
             counted'[o] = counted[o] /\ began'[o] = began[o] /\ principal'[o] = principal[o]
    PROVE  \E k \in LocalKinds :
             /\ LocalMax(k) > 0
             /\ (k = "auth-failure") <=> (Verdict(r)'.status # 200)
             /\ Cardinality({o \in Rivals(r, k)' :
                  began'[o] \in began'[r] - RateWindow + 1 .. began'[r]}) >= LocalMax(k)
<1>1. PICK k \in LocalKinds :
        /\ LocalMax(k) > 0
        /\ (k = "auth-failure") <=> (Verdict(r).status # 200)
        /\ Cardinality({o \in Rivals(r, k) :
             began[o] \in began[r] - RateWindow + 1 .. began[r]}) >= LocalMax(k)
  BY DEF TurnedAwayHasCause
<1> DEFINE Old == {o \in Rivals(r, k) : began[o] \in began[r] - RateWindow + 1 .. began[r]}
           New == {o \in Rivals(r, k)' : began'[o] \in began'[r] - RateWindow + 1 .. began'[r]}
<1>2. Old \subseteq New
  BY DEF Rivals, P, Key
<1>3. New \subseteq Requests /\ IsFiniteSet(Requests)
  BY AdmissionAssumption DEF Rivals
<1>4. /\ Cardinality(Old) <= Cardinality(New)
      /\ Cardinality(Old) \in Nat /\ Cardinality(New) \in Nat
  <2>1. IsFiniteSet(New)
    BY <1>3, FS_Subset
  <2>2. IsFiniteSet(Old) /\ Cardinality(Old) <= Cardinality(New)
    BY <1>2, <2>1, FS_Subset
  <2> QED BY <2>1, <2>2, FS_CardinalityType
<1>5. Cardinality(Old) >= LocalMax(k)
  BY <1>1
<1>6. LocalMax(k) \in Nat
  BY LocalMaxType
<1> HIDE DEF Old, New
<1>7. Cardinality(New) >= LocalMax(k)
  BY <1>4, <1>5, <1>6
<1>8. Verdict(r)' = Verdict(r)
  BY DEF Verdict
<1> USE DEF New
<1> QED BY <1>1, <1>7, <1>8, ZenonT(40)

-----------------------------------------------------------------------------
\* A step that counts nothing: time passes, or a handler does something else.
LEMMA QuietKeeps ==
    ASSUME LimiterInv, call' = call, rates' = rates, counted' = counted,
           principal' \in [Requests -> Principals \cup {None}], now' \in Nat, now <= now',
           began' \in [Requests -> Int], \A o \in Requests : began'[o] <= now',
           st' \in [Requests -> Running \cup Outcomes],
           \A o \in Requests : st[o] # "new" =>
             began'[o] = began[o] /\ principal'[o] = principal[o],
           \A o \in Requests : st'[o] = "new" => st[o] = "new",
           \A o \in Requests : st'[o] = "rate-limited" => st[o] = "rate-limited"
    PROVE  LimiterInv'
<1>1. LimiterType /\ LimiterType'
  BY DEF LimiterInv, LimiterType
<1>2. \A o \in Requests : \A k \in LocalKinds : counted[o][k] >= 0 =>
        began'[o] = began[o] /\ principal'[o] = principal[o]
  BY <1>1 DEF LimiterType
<1>3. ASSUME NEW p \in Processes, NEW k \in LocalKinds, NEW key \in KeySet
      PROVE  LimiterOK(p, k, key)'
  <2>1. LimiterOK(p, k, key)
    BY DEF LimiterInv
  <2>2. \A o \in Requests : Member(o, p, k, key)' <=> Member(o, p, k, key)
    BY <1>2 DEF Member, P, Key
  <2>3. \A o \in Requests : Member(o, p, k, key) =>
          counted'[o][k] = counted[o][k] /\ began'[o] = began[o]
    BY <1>2 DEF Member
  <2> QED BY <1>1, <2>1, <2>2, <2>3, Untouched
<1>4. TurnedAwayHasCause'
  <2> SUFFICES ASSUME NEW r \in Requests, st'[r] = "rate-limited"
               PROVE  \E k \in LocalKinds :
                        /\ LocalMax(k) > 0
                        /\ (k = "auth-failure") <=> (Verdict(r)'.status # 200)
                        /\ Cardinality({o \in Rivals(r, k)' :
                             began'[o] \in began'[r] - RateWindow + 1 .. began'[r]})
                             >= LocalMax(k)
    BY DEF TurnedAwayHasCause
  <2>1. /\ st[r] = "rate-limited" /\ TurnedAwayHasCause
        /\ began'[r] = began[r] /\ principal'[r] = principal[r]
    BY DEF LimiterInv
  <2> QED BY <1>1, <1>2, <2>1, CauseStays
<1> QED BY <1>1, <1>3, <1>4 DEF LimiterInv

\* A handler that starts is counted by the limiters it asks and that have room, and
\* by no other.
LEMMA CountKeeps ==
    ASSUME LimiterInv, NEW r \in Requests, st[r] = "new",
           call' = call, now' = now, began' = [began EXCEPT ![r] = now],
           NEW x \in Principals \cup {None}, principal' = [principal EXCEPT ![r] = x],
           NEW ks \in SUBSET LocalKinds, NEW key \in [LocalKinds -> KeySet],
           \A k \in LocalKinds : key[k] = Key(r, k)',
           Count(r, ks, key)
    PROVE  /\ rates' \in [Processes -> [LocalKinds -> [KeySet -> Int \X Int]]]
           /\ counted' \in [Requests -> [LocalKinds -> Int]]
           /\ \A o \in Requests : o # r => counted'[o] = counted[o]
           /\ \A p \in Processes, k \in LocalKinds, q \in KeySet : LimiterOK(p, k, q)'
<1> DEFINE own == rates[P(r)]
           By == {k \in ks : LocalMax(k) > 0 /\ ~TurnsAway(k, own[k][key[k]])}
           Start(k) == Current(own[k][key[k]])[1]
           Number(k) == Current(own[k][key[k]])[2] + 1
<1>1. /\ LimiterType /\ P(r) \in Processes /\ P(r)' = P(r) /\ now \in Nat
      /\ own \in [LocalKinds -> [KeySet -> Int \X Int]]
      /\ \A k \in LocalKinds : counted[r][k] = -1
  BY KeyType, r \in Requests, "stream" \in LocalKinds DEF LimiterInv, LimiterType, P, LocalKinds
<1>2. /\ rates' = [rates EXCEPT ![P(r)] = [k \in LocalKinds |->
             IF k \in By THEN [own[k] EXCEPT ![key[k]] = <<Start(k), Number(k)>>] ELSE own[k]]]
      /\ counted' = [counted EXCEPT ![r] = [k \in LocalKinds |->
             IF k \in By THEN Start(k) ELSE -1]]
  BY DEF Count
<1>3. \A k \in LocalKinds : Start(k) \in Int /\ Number(k) \in Int
  <2> TAKE k \in LocalKinds
  <2>1. PICK w : w = own[k][key[k]]
    OBVIOUS
  <2>2. w \in Int \X Int
    BY <1>1, <2>1
  <2>3. Current(w)[1] \in Int /\ Current(w)[2] \in Int
    BY <1>1, <2>2 DEF Current
  <2> QED BY <2>1, <2>3
<1> HIDE DEF By, Start, Number
<1>4. rates' \in [Processes -> [LocalKinds -> [KeySet -> Int \X Int]]]
  <2>1. [k \in LocalKinds |->
             IF k \in By THEN [own[k] EXCEPT ![key[k]] = <<Start(k), Number(k)>>] ELSE own[k]]
          \in [LocalKinds -> [KeySet -> Int \X Int]]
    BY <1>1, <1>3
  <2> QED BY <1>1, <1>2, <2>1 DEF LimiterType
<1>5. /\ counted' \in [Requests -> [LocalKinds -> Int]]
      /\ \A o \in Requests : o # r => counted'[o] = counted[o]
      /\ \A k \in LocalKinds : counted'[r][k] = IF k \in By THEN Start(k) ELSE -1
  BY <1>1, <1>2, <1>3 DEF LimiterType
<1>6. ASSUME NEW p \in Processes, NEW k \in LocalKinds, NEW q \in KeySet
      PROVE  LimiterOK(p, k, q)'
  <2>1. LimiterOK(p, k, q) /\ ~Member(r, p, k, q)
    BY <1>1 DEF LimiterInv, Member
  <2>2. \A o \in Requests : o # r =>
          /\ Member(o, p, k, q)' <=> Member(o, p, k, q)
          /\ counted'[o][k] = counted[o][k] /\ began'[o] = began[o]
    BY <1>1, <1>5 DEF Member, P, Key, LimiterType
  <2>3. CASE p = P(r) /\ k \in By /\ q = key[k]
    <3>1. LocalMax(k) > 0 /\ ~TurnsAway(k, rates[p][k][q])
      BY <2>3 DEF By
    <3>2. /\ rates'[p][k][q] = <<Start(k), Number(k)>>
          /\ counted'[r][k] = Start(k) /\ began'[r] = now
      BY <1>1, <1>2, <1>5, <2>3 DEF LimiterType
    <3>3. /\ rates'[p][k][q] = <<Current(rates[p][k][q])[1], Current(rates[p][k][q])[2] + 1>>
          /\ counted'[r][k] = Current(rates[p][k][q])[1]
      BY <2>3, <3>2 DEF Start, Number
    <3>4. Key(r, k)' = q /\ P(r)' = p
      BY <1>1, <2>3
    <3>5. /\ LimiterType /\ now' = now /\ began'[r] = now
          /\ LimiterOK(p, k, q) /\ ~Member(r, p, k, q)
      BY <1>1, <2>1, <3>2
    <3> HIDE DEF own
    <3> QED BY ONLY <2>2, <3>1, <3>3, <3>4, <3>5, r \in Requests, p \in Processes,
                    k \in LocalKinds, q \in KeySet, Grown
  <2>4. CASE ~(p = P(r) /\ k \in By /\ q = key[k])
    <3>1. rates'[p][k][q] = rates[p][k][q]
      <4>1. CASE p # P(r)
        BY <1>1, <1>2, <4>1 DEF LimiterType
      <4>2. CASE p = P(r) /\ k \notin By
        BY <1>1, <1>2, <4>2 DEF LimiterType
      <4>3. CASE p = P(r) /\ k \in By /\ q # key[k]
        BY <1>1, <1>2, <4>3 DEF LimiterType
      <4> QED BY <2>4, <4>1, <4>2, <4>3
    <3>2. ~Member(r, p, k, q)'
      <4>1. CASE k \in By
        BY <1>1, <2>4, <4>1 DEF Member
      <4>2. CASE k \notin By
        BY <1>5, <4>2 DEF Member
      <4> QED BY <4>1, <4>2
    <3>3. \A o \in Requests : Member(o, p, k, q)' <=> Member(o, p, k, q)
      BY <2>1, <2>2, <3>2
    <3>4. \A o \in Requests : Member(o, p, k, q) =>
            counted'[o][k] = counted[o][k] /\ began'[o] = began[o]
      BY <2>1, <2>2
    <3> QED BY <1>1, <2>1, <3>1, <3>3, <3>4, Untouched
  <2> QED BY <2>3, <2>4
<1> QED BY <1>4, <1>5, <1>6

\* A handler that one of its limiters turns away has a reason to be, and so has every
\* other.
LEMMA StartKeeps ==
    ASSUME LimiterInv, NEW r \in Requests, st[r] = "new",
           call' = call, now' = now, began' = [began EXCEPT ![r] = now],
           NEW x \in Principals \cup {None}, principal' = [principal EXCEPT ![r] = x],
           NEW ks \in SUBSET LocalKinds, NEW key \in [LocalKinds -> KeySet],
           \A k \in LocalKinds : key[k] = Key(r, k)',
           Count(r, ks, key),
           NEW outcome \in (Running \cup Outcomes) \ {"new"}, st' = [st EXCEPT ![r] = outcome],
           outcome = "rate-limited" =>
             \E k \in LocalKinds : /\ TurnsAway(k, rates[P(r)][k][key[k]])
                                   /\ (k = "auth-failure") <=> (Verdict(r).status # 200)
    PROVE  LimiterInv'
<1>1. /\ rates' \in [Processes -> [LocalKinds -> [KeySet -> Int \X Int]]]
      /\ counted' \in [Requests -> [LocalKinds -> Int]]
      /\ \A o \in Requests : o # r => counted'[o] = counted[o]
      /\ \A p \in Processes, k \in LocalKinds, q \in KeySet : LimiterOK(p, k, q)'
  BY CountKeeps, ZenonT(40)
<1>2. LimiterType /\ \A k \in LocalKinds : counted[r][k] = -1
  BY DEF LimiterInv, LimiterType
<1>3. LimiterType'
  <2>1. /\ began' \in [Requests -> Int] /\ \A o \in Requests : began'[o] <= now'
        /\ principal' \in [Requests -> Principals \cup {None}]
        /\ st' \in [Requests -> Running \cup Outcomes]
    BY <1>2 DEF LimiterType
  <2>2. \A o \in Requests : st'[o] = "new" => \A k \in LocalKinds : counted'[o][k] = -1
    BY <1>1, <1>2 DEF LimiterType
  <2> QED BY <1>1, <1>2, <2>1, <2>2 DEF LimiterType
<1>4. \A o \in Requests : o # r => began'[o] = began[o] /\ principal'[o] = principal[o]
  BY <1>2 DEF LimiterType
<1>5. ASSUME NEW o \in Requests, st'[o] = "rate-limited"
      PROVE  \E k \in LocalKinds :
               /\ LocalMax(k) > 0
               /\ (k = "auth-failure") <=> (Verdict(o)'.status # 200)
               /\ Cardinality({m \in Rivals(o, k)' :
                    began'[m] \in began'[o] - RateWindow + 1 .. began'[o]}) >= LocalMax(k)
  <2>1. CASE o # r
    <3>1. st[o] = "rate-limited" /\ TurnedAwayHasCause
      BY <1>2, <1>5, <2>1 DEF LimiterInv, LimiterType
    <3>2. \A m \in Requests : \A k \in LocalKinds : counted[m][k] >= 0 =>
            counted'[m] = counted[m] /\ began'[m] = began[m] /\ principal'[m] = principal[m]
      BY <1>1, <1>2, <1>4
    <3>3. principal'[o] = principal[o] /\ began'[o] = began[o]
      BY <1>4, <2>1
    <3> QED BY <1>2, <3>1, <3>2, <3>3, CauseStays
  <2>2. CASE o = r
    <3>1. outcome = "rate-limited"
      BY <1>2, <1>5, <2>2 DEF LimiterType
    <3>2. PICK k \in LocalKinds : /\ TurnsAway(k, rates[P(r)][k][key[k]])
                                  /\ (k = "auth-failure") <=> (Verdict(r).status # 200)
      BY <3>1
    <3>3. PICK p \in Processes, q \in KeySet : p = P(r) /\ q = key[k]
      BY <1>2, KeyType
    <3>4. LocalMax(k) > 0 /\ Cardinality(Recent(p, k, q)) >= LocalMax(k)
      BY <1>2, <3>2, <3>3, Exhausted DEF LimiterInv
    <3> DEFINE New == {m \in Rivals(r, k)' :
                         began'[m] \in began'[r] - RateWindow + 1 .. began'[r]}
    <3>5. began'[r] = now /\ P(r)' = p /\ Key(r, k)' = q
      BY <1>2, <3>3 DEF LimiterType, P
    <3>6. Recent(p, k, q) \subseteq New
      <4> SUFFICES ASSUME NEW m \in Recent(p, k, q) PROVE m \in New
        OBVIOUS
      <4>1. /\ m \in Requests /\ Member(m, p, k, q)
            /\ began[m] \in now - RateWindow + 1 .. now
        BY DEF Recent
      <4>2. m # r
        BY <1>2, <4>1 DEF Member
      <4>3. counted'[m][k] >= 0 /\ P(m)' = p /\ Key(m, k)' = q
        BY <1>1, <1>4, <4>1, <4>2 DEF Member, P, Key
      <4>4. began'[m] = began[m]
        BY <1>4, <4>1, <4>2
      <4> QED BY <3>5, <4>1, <4>3, <4>4 DEF Rivals
    <3>7. Cardinality(Recent(p, k, q)) <= Cardinality(New)
      <4>1. New \subseteq Requests /\ IsFiniteSet(Requests)
        BY AdmissionAssumption DEF Rivals
      <4>2. IsFiniteSet(New)
        BY <4>1, FS_Subset
      <4> QED BY <3>6, <4>2, FS_Subset
    <3>8. Cardinality(Recent(p, k, q)) \in Nat /\ Cardinality(New) \in Nat
      <4>1. New \subseteq Requests /\ IsFiniteSet(Requests)
        BY AdmissionAssumption DEF Rivals
      <4>2. IsFiniteSet(New) /\ IsFiniteSet(Recent(p, k, q))
        BY <3>6, <4>1, FS_Subset
      <4> QED BY <4>2, FS_CardinalityType
    <3>9. LocalMax(k) \in Nat
      BY LocalMaxType
    <3>10. Cardinality(New) >= LocalMax(k)
      <4> HIDE DEF New
      <4> QED BY <3>4, <3>7, <3>8, <3>9
    <3>11. Verdict(o)' = Verdict(r)
      BY <2>2 DEF Verdict
    <3>12. (k = "auth-failure") <=> (Verdict(o)'.status # 200)
      BY <3>2, <3>11
    <3> QED BY <2>2, <3>4, <3>10, <3>12
  <2> QED BY <2>1, <2>2
<1>6. TurnedAwayHasCause'
  BY <1>5 DEF TurnedAwayHasCause
<1> QED BY <1>1, <1>3, <1>6 DEF LimiterInv

-----------------------------------------------------------------------------
LEMMA InitLimiters == Init => LimiterInv
<1> SUFFICES ASSUME Init PROVE LimiterInv
  OBVIOUS
<1>1. LimiterType
  <2>1. call \in [Requests -> Calls] /\ now = 0
    BY AdmissionAssumption DEF Init
  <2>2. NoWindow \in Int \X Int
    BY AdmissionAssumption DEF NoWindow
  <2>3. rates \in [Processes -> [LocalKinds -> [KeySet -> Int \X Int]]]
    BY <2>2 DEF Init, KeySet
  <2> QED BY <2>1, <2>3 DEF Init, LimiterType, Running
<1>2. ASSUME NEW p \in Processes, NEW k \in LocalKinds, NEW key \in KeySet
      PROVE  LimiterOK(p, k, key)
  <2>1. rates[p][k][key] = <<-RateWindow - 1, 0>>
    BY DEF Init, NoWindow, KeySet
  <2>2. \A o \in Requests : ~Member(o, p, k, key)
    BY DEF Init, Member
  <2>3. HeldOK(p, k, key)
    BY <1>1, <2>1, <2>2, LocalMaxType, AdmissionAssumption DEF HeldOK, LimiterType
  <2> QED BY <2>2, <2>3 DEF LimiterOK, BucketsOK
<1>3. TurnedAwayHasCause
  BY DEF Init, TurnedAwayHasCause
<1> QED BY <1>1, <1>2, <1>3 DEF LimiterInv

LEMMA UncountedLimiters ==
    ASSUME LimiterInv, NEW r \in Requests, BadStreamId(r) \/ AuthRaises(r)
    PROVE  LimiterInv'
<1>1. LimiterType
  BY DEF LimiterInv
<1>2. /\ st[r] = "new" /\ began' = [began EXCEPT ![r] = now]
      /\ UNCHANGED <<now, call, principal, rates, counted>>
      /\ st' = [st EXCEPT ![r] = "bad"]
  BY DEF BadStreamId, AuthRaises, Starts, Ends
<1>3. /\ began' \in [Requests -> Int] /\ \A o \in Requests : began'[o] <= now
      /\ principal' \in [Requests -> Principals \cup {None}]
      /\ st' \in [Requests -> Running \cup Outcomes]
      /\ \A o \in Requests : st[o] # "new" =>
           began'[o] = began[o] /\ principal'[o] = principal[o]
      /\ \A o \in Requests : st'[o] = "new" => st[o] = "new"
      /\ \A o \in Requests : st'[o] = "rate-limited" => st[o] = "rate-limited"
      /\ now' \in Nat /\ now <= now'
  BY <1>1, <1>2 DEF LimiterType, Outcomes
<1> QED BY <1>2, <1>3, QuietKeeps

LEMMA DenyLimiters ==
    ASSUME LimiterInv, NEW r \in Requests, Deny(r)
    PROVE  LimiterInv'
<1>1. LimiterType /\ P(r) \in Processes /\ \A k \in LocalKinds : Key(r, k) \in KeySet
  BY KeyType, "stream" \in LocalKinds DEF LimiterInv, LocalKinds
<1>2. PICK key : key = [k \in LocalKinds |-> Key(r, k)]
  OBVIOUS
<1>3. /\ st[r] = "new" /\ Verdict(r).status # 200
      /\ began' = [began EXCEPT ![r] = now] /\ UNCHANGED <<now, call, principal>>
      /\ Count(r, {"auth-failure"}, key)
  BY <1>2 DEF Deny, Starts
<1>4. /\ key \in [LocalKinds -> KeySet] /\ {"auth-failure"} \in SUBSET LocalKinds
      /\ \A k \in LocalKinds : key[k] = Key(r, k)'
  BY <1>1, <1>2, <1>3 DEF LocalKinds, Key
<1>5. /\ principal[r] \in Principals \cup {None}
      /\ principal' = [principal EXCEPT ![r] = principal[r]]
  BY <1>1, <1>3 DEF LimiterType
<1>6. key["auth-failure"] = call[r].client /\ "auth-failure" \in LocalKinds
  BY <1>2 DEF Key, LocalKinds
<1>7. \E outcome \in (Running \cup Outcomes) \ {"new"} :
        /\ st' = [st EXCEPT ![r] = outcome]
        /\ outcome = "rate-limited" =>
             TurnsAway("auth-failure", rates[P(r)]["auth-failure"][key["auth-failure"]])
  <2>1. CASE TurnsAway("auth-failure", rates[P(r)]["auth-failure"][call[r].client])
    <3>1. st' = [st EXCEPT ![r] = "rate-limited"]
      BY <2>1 DEF Deny, Ends
    <3> QED BY <1>6, <2>1, <3>1 DEF Outcomes
  <2>2. CASE ~TurnsAway("auth-failure", rates[P(r)]["auth-failure"][call[r].client])
    <3>1. st' = [st EXCEPT ![r] = "denied"]
      BY <2>2 DEF Deny, Ends
    <3>2. "denied" \in (Running \cup Outcomes) \ {"new"} /\ "denied" # "rate-limited"
      BY DEF Outcomes
    <3> QED BY <3>1, <3>2
  <2> QED BY <2>1, <2>2
<1>8. PICK outcome \in (Running \cup Outcomes) \ {"new"} :
        /\ st' = [st EXCEPT ![r] = outcome]
        /\ outcome = "rate-limited" =>
             TurnsAway("auth-failure", rates[P(r)]["auth-failure"][key["auth-failure"]])
  BY <1>7
<1>9. outcome = "rate-limited" =>
        \E k \in LocalKinds : /\ TurnsAway(k, rates[P(r)][k][key[k]])
                              /\ (k = "auth-failure") <=> (Verdict(r).status # 200)
  BY <1>3, <1>6, <1>8
<1> QED BY <1>3, <1>4, <1>5, <1>8, <1>9, StartKeeps

LEMMA Named ==
    ASSUME LimiterType, NEW r \in Requests, Verdict(r).status = 200
    PROVE  (IF Verdict(r).principal = None THEN None ELSE Verdict(r).principal.name)
             \in Principals \cup {None}
<1>1. Verdict(r) = VerdictOn(call[r]) /\ call \in Workloads
  BY DEF Verdict, LimiterType
<1>2. Verdict(r).principal # None => Verdict(r).principal.name \in Principals
  BY <1>1, AdmissionAssumption
<1> QED BY <1>2

LEMMA ScrapeLimiters ==
    ASSUME LimiterInv, NEW r \in Requests, Scrape(r)
    PROVE  LimiterInv'
<1>1. LimiterType
  BY DEF LimiterInv
<1>2. /\ st[r] = "new" /\ st' = [st EXCEPT ![r] = "done"] /\ began' = [began EXCEPT ![r] = now]
      /\ \E x \in Principals \cup {None} : principal' = [principal EXCEPT ![r] = x]
      /\ UNCHANGED <<now, call, rates, counted>>
  BY <1>1, Named DEF Scrape, Starts, Ends, Authorized
<1>3. /\ began' \in [Requests -> Int] /\ \A o \in Requests : began'[o] <= now
      /\ principal' \in [Requests -> Principals \cup {None}]
      /\ st' \in [Requests -> Running \cup Outcomes]
      /\ \A o \in Requests : st[o] # "new" =>
           began'[o] = began[o] /\ principal'[o] = principal[o]
      /\ \A o \in Requests : st'[o] = "new" => st[o] = "new"
      /\ \A o \in Requests : st'[o] = "rate-limited" => st[o] = "rate-limited"
      /\ now' \in Nat /\ now <= now'
  BY <1>1, <1>2 DEF LimiterType, Outcomes
<1> QED BY <1>2, <1>3, QuietKeeps

LEMMA BeginLimiters ==
    ASSUME LimiterInv, NEW r \in Requests, Begin(r)
    PROVE  LimiterInv'
<1> DEFINE x == IF Verdict(r).principal = None THEN None ELSE Verdict(r).principal.name
           writes == call[r].kind \in Writes
<1>1. LimiterType
  BY DEF LimiterInv
<1>2. PICK key : key = [k \in LocalKinds |-> Key(r, k)']
  OBVIOUS
<1> DEFINE Turned(k) == TurnsAway(k, rates[P(r)][k][key[k]])
<1>3. PICK ks : ks = {"stream"} \cup (IF writes /\ ~Turned("stream") THEN {"write"} ELSE {})
  OBVIOUS
<1>4. /\ st[r] = "new" /\ Verdict(r).status = 200
      /\ began' = [began EXCEPT ![r] = now] /\ UNCHANGED <<now, call>>
      /\ principal' = [principal EXCEPT ![r] = x]
      /\ Count(r, ks, key)
  BY <1>2, <1>3 DEF Begin, Starts, Authorized
<1>5. x \in Principals \cup {None}
  BY <1>1, <1>4, Named
<1>6. /\ key \in [LocalKinds -> KeySet] /\ ks \in SUBSET LocalKinds
      /\ \A k \in LocalKinds : key[k] = Key(r, k)'
  <2>1. call'[r].client \in Clients
    BY <1>1, <1>4 DEF LimiterType, Calls
  <2>2. principal'[r] \in Principals \cup {None}
    BY <1>1, <1>4, <1>5 DEF LimiterType
  <2>3. \A k \in LocalKinds : Key(r, k)' \in KeySet
    BY <2>1, <2>2 DEF Key, KeySet
  <2> QED BY <1>2, <1>3, <2>3 DEF LocalKinds
<1>7. \E outcome \in (Running \cup Outcomes) \ {"new"} :
        /\ st' = [st EXCEPT ![r] = outcome]
        /\ outcome = "rate-limited" => Turned("stream") \/ Turned("write")
  <2>1. \/ (Turned("stream") \/ Turned("write")) /\ st' = [st EXCEPT ![r] = "rate-limited"]
        \/ \E place \in {"body", "acting", "charging"} : st' = [st EXCEPT ![r] = place]
    BY <1>2, ZenonT(40) DEF Begin, Ends, Continues, ToQuota
  <2>2. CASE (Turned("stream") \/ Turned("write")) /\ st' = [st EXCEPT ![r] = "rate-limited"]
    <3>1. "rate-limited" \in (Running \cup Outcomes) \ {"new"}
      BY DEF Outcomes
    <3> QED BY <2>2, <3>1
  <2>3. CASE \E place \in {"body", "acting", "charging"} : st' = [st EXCEPT ![r] = place]
    <3>1. \A place \in {"body", "acting", "charging"} :
            place \in (Running \cup Outcomes) \ {"new"} /\ place # "rate-limited"
      BY DEF Running
    <3> QED BY <2>3, <3>1
  <2> QED BY <2>1, <2>2, <2>3
<1>8. PICK outcome \in (Running \cup Outcomes) \ {"new"} :
        /\ st' = [st EXCEPT ![r] = outcome]
        /\ outcome = "rate-limited" => Turned("stream") \/ Turned("write")
  BY <1>7
<1>9. outcome = "rate-limited" =>
        \E k \in LocalKinds : /\ TurnsAway(k, rates[P(r)][k][key[k]])
                              /\ (k = "auth-failure") <=> (Verdict(r).status # 200)
  BY <1>4, <1>8 DEF LocalKinds
<1>10. PICK y \in Principals \cup {None} : principal' = [principal EXCEPT ![r] = y]
  BY <1>4, <1>5
<1>11. /\ LimiterInv /\ st[r] = "new"
       /\ call' = call /\ now' = now /\ began' = [began EXCEPT ![r] = now]
       /\ Count(r, ks, key) /\ st' = [st EXCEPT ![r] = outcome]
  BY <1>4, <1>8
<1> QED BY ONLY <1>6, <1>9, <1>10, <1>11, r \in Requests,
                outcome \in (Running \cup Outcomes) \ {"new"}, StartKeeps

\* A handler that is past its start never counts again and is not rate limited.
LEMMA LaterLimiters ==
    ASSUME LimiterInv, NEW r \in Requests,
           ReadBody(r) \/ BadBody(r) \/ Charge(r) \/ ChargeFails(r) \/ Act(r)
    PROVE  LimiterInv'
<1>1. LimiterType
  BY DEF LimiterInv
<1> DEFINE Later == {"acting", "charging", "bad", "over-payload", "over-quota", "error",
                     "done", "failed", "bad-args", "no-room"}
<1>2. /\ st[r] # "new" /\ \E place \in Later : st' = [st EXCEPT ![r] = place]
      /\ UNCHANGED <<now, call, principal, rates, began, counted>>
  <2>1. CASE ReadBody(r)
    BY <2>1 DEF ReadBody, ToQuota, Ends, Continues
  <2>2. CASE BadBody(r)
    BY <2>2, ZenonT(40) DEF BadBody, Ends
  <2>3. CASE Charge(r)
    BY <2>3 DEF Charge, Ends, Continues
  <2>4. CASE ChargeFails(r)
    BY <2>4 DEF ChargeFails, Ends
  <2>5. CASE Act(r)
    <3>1. /\ st[r] = "acting"
          /\ UNCHANGED <<now, call, principal, rates, began, counted>>
          /\ \/ Ends(r, "done", 200, None) \/ Ends(r, "failed", 500, None)
             \/ Ends(r, "bad-args", 400, None)
             \/ \E cause \in {"quota", "connection"} : Ends(r, "no-room", 429, cause)
      BY <2>5, ZenonT(40) DEF Act
    <3>2. \A place, status, cause :
            Ends(r, place, status, cause) => st' = [st EXCEPT ![r] = place]
      BY DEF Ends
    <3>3. \E place \in {"done", "failed", "bad-args", "no-room"} : st' = [st EXCEPT ![r] = place]
      BY <3>1, <3>2
    <3> QED BY <3>1, <3>3
  <2> QED BY <2>1, <2>2, <2>3, <2>4, <2>5
<1>3. PICK place \in Later : st' = [st EXCEPT ![r] = place]
  BY <1>2
<1>4. place \in Running \cup Outcomes /\ place # "new" /\ place # "rate-limited"
  BY DEF Running, Outcomes
<1> HIDE DEF Later
<1>5. /\ began' \in [Requests -> Int] /\ \A o \in Requests : began'[o] <= now'
      /\ principal' \in [Requests -> Principals \cup {None}]
      /\ st' \in [Requests -> Running \cup Outcomes]
      /\ \A o \in Requests : st[o] # "new" =>
           began'[o] = began[o] /\ principal'[o] = principal[o]
      /\ \A o \in Requests : st'[o] = "new" => st[o] = "new"
      /\ \A o \in Requests : st'[o] = "rate-limited" => st[o] = "rate-limited"
      /\ now' \in Nat /\ now <= now'
  BY <1>1, <1>2, <1>3, <1>4 DEF LimiterType
<1> QED BY <1>2, <1>5, QuietKeeps

LEMMA StepLimiters == LimiterInv /\ [Next]_vars => LimiterInv'
<1> SUFFICES ASSUME LimiterInv, [Next]_vars PROVE LimiterInv'
  OBVIOUS
<1>1. LimiterType
  BY DEF LimiterInv
<1>2. CASE Tick \/ UNCHANGED vars
  <2>1. /\ now' \in Nat /\ now <= now'
        /\ UNCHANGED <<call, st, principal, rates, began, counted>>
    BY <1>1, <1>2 DEF Tick, vars, LimiterType
  <2>2. began' \in [Requests -> Int] /\ \A o \in Requests : began'[o] <= now'
    BY <1>1, <2>1 DEF LimiterType
  <2> QED BY <1>1, <2>1, <2>2, QuietKeeps DEF LimiterType
<1>3. ASSUME NEW r \in Requests, BadStreamId(r) \/ AuthRaises(r) PROVE LimiterInv'
  BY <1>3, UncountedLimiters
<1>4. ASSUME NEW r \in Requests, Deny(r) PROVE LimiterInv'
  BY <1>4, DenyLimiters
<1>5. ASSUME NEW r \in Requests, Begin(r) PROVE LimiterInv'
  BY <1>5, BeginLimiters
<1>6. ASSUME NEW r \in Requests, Scrape(r) PROVE LimiterInv'
  BY <1>6, ScrapeLimiters
<1>7. ASSUME NEW r \in Requests,
             ReadBody(r) \/ BadBody(r) \/ Charge(r) \/ ChargeFails(r) \/ Act(r)
      PROVE  LimiterInv'
  BY <1>7, LaterLimiters
<1> QED BY <1>2, <1>3, <1>4, <1>5, <1>6, <1>7 DEF Next

-----------------------------------------------------------------------------
\* Of the buckets around a request only its own and the next reach into the stretch
\* that begins with it, and the first request of its own is outside.
LEMMA TwoBuckets == LimiterInv => RateBound
<1> SUFFICES ASSUME LimiterInv, NEW r \in Requests, NEW k \in LocalKinds, counted[r][k] >= 0
             PROVE  Cardinality({o \in Rivals(r, k) :
                      began[o] \in began[r] .. began[r] + RateWindow - 1}) <= 2 * LocalMax(k) - 1
  BY DEF RateBound
<1> DEFINE p == P(r)
           key == Key(r, k)
           c == counted[r][k]
           B(s) == Bucket(p, k, key, s)
           S == {o \in Rivals(r, k) : began[o] \in began[r] .. began[r] + RateWindow - 1}
<1>1. LimiterType /\ p \in Processes /\ key \in KeySet
  BY KeyType DEF LimiterInv
<1>2. /\ RateWindow \in Nat \ {0} /\ LocalMax(k) \in Nat
      /\ \A o \in Requests : counted[o][k] \in Int /\ began[o] \in Int
  BY <1>1, AdmissionAssumption, LocalMaxType DEF LimiterType
<1>3. BucketsOK(p, k, key)
  BY <1>1 DEF LimiterInv, LimiterOK
<1>4. Member(r, p, k, key)
  BY DEF Member
<1>5. \A o \in S : o \in Requests /\ Member(o, p, k, key)
                   /\ began[r] <= began[o] /\ began[o] <= began[r] + RateWindow - 1
  BY <1>2 DEF Rivals, Member
<1>6. /\ LocalMax(k) > 0 /\ c <= began[r] /\ began[r] < c + RateWindow
      /\ Cardinality(B(c)) <= LocalMax(k)
      /\ \E f \in B(c) : began[f] = c
  BY <1>3, <1>4 DEF BucketsOK
<1>7. \A o \in S : counted[o][k] = c \/ counted[o][k] >= c + RateWindow
  <2> TAKE o \in S
  <2>1. counted[o][k] <= began[o] /\ began[o] < counted[o][k] + RateWindow
    BY <1>3, <1>5 DEF BucketsOK
  <2>2. Apart(c, counted[o][k])
    BY <1>3, <1>4, <1>5 DEF BucketsOK
  <2>3. counted[o][k] \in Int /\ began[o] \in Int /\ began[r] \in Int /\ c \in Int
    BY <1>2, <1>5
  <2> QED BY <1>2, <1>5, <1>6, <2>1, <2>2, <2>3 DEF Apart
<1>8. \A s : IsFiniteSet(B(s)) /\ Cardinality(B(s)) \in Nat
  BY BucketFinite, FS_CardinalityType
<1>9. PICK f \in B(c) : began[f] = c
  BY <1>6
<1>10. CASE \A o \in S : counted[o][k] = c
  <2>1. S \subseteq B(c)
    BY <1>5, <1>10 DEF Bucket
  <2>2. IsFiniteSet(S) /\ Cardinality(S) <= Cardinality(B(c)) /\ Cardinality(S) \in Nat
    BY <1>8, <2>1, FS_Subset, FS_CardinalityType
  <2> HIDE DEF S, B
  <2>3. Cardinality(S) <= 2 * LocalMax(k) - 1
    BY <1>2, <1>6, <1>8, <2>2
  <2> QED BY <2>3 DEF S
<1>11. ASSUME NEW o \in S, counted[o][k] >= c + RateWindow
       PROVE  Cardinality(S) <= 2 * LocalMax(k) - 1
  <2> DEFINE d == counted[o][k]
  <2>1. /\ d <= began[o] /\ Cardinality(B(d)) <= LocalMax(k)
    BY <1>3, <1>5 DEF BucketsOK
  <2>2. d \in Int /\ began[o] \in Int /\ began[r] \in Int /\ c \in Int
    BY <1>2, <1>5
  <2>3. f \notin S
    BY <1>2, <1>5, <1>9, <1>11, <2>1, <2>2
  <2>4. \A m \in S : counted[m][k] = c \/ counted[m][k] = d
    <3> TAKE m \in S
    <3>1. counted[m][k] <= began[m] /\ Apart(d, counted[m][k])
      BY <1>3, <1>5 DEF BucketsOK
    <3>2. counted[m][k] \in Int /\ began[m] \in Int
      BY <1>2, <1>5
    <3>3. began[m] <= began[r] + RateWindow - 1 /\ began[o] <= began[r] + RateWindow - 1
      BY <1>5
    <3>4. counted[m][k] = c \/ counted[m][k] >= c + RateWindow
      BY <1>7
    <3> QED BY <1>2, <1>6, <1>11, <2>1, <2>2, <3>1, <3>2, <3>3, <3>4 DEF Apart
  <2>5. S \subseteq (B(c) \ {f}) \cup B(d)
    BY <1>5, <2>3, <2>4 DEF Bucket
  <2> HIDE DEF S, B, d, c
  <2>6. /\ IsFiniteSet(B(c) \ {f}) /\ Cardinality(B(c) \ {f}) = Cardinality(B(c)) - 1
        /\ Cardinality(B(c) \ {f}) \in Nat
    BY <1>8, <1>9, FS_RemoveElement, FS_CardinalityType
  <2>7. /\ IsFiniteSet((B(c) \ {f}) \cup B(d))
        /\ Cardinality((B(c) \ {f}) \cup B(d)) =
             Cardinality(B(c) \ {f}) + Cardinality(B(d))
               - Cardinality((B(c) \ {f}) \cap B(d))
        /\ Cardinality((B(c) \ {f}) \cap B(d)) \in Nat
    BY <1>8, <2>6, FS_Union, FS_Intersection, FS_CardinalityType
  <2>8. /\ Cardinality(S) <= Cardinality((B(c) \ {f}) \cup B(d))
        /\ Cardinality(S) \in Nat /\ Cardinality((B(c) \ {f}) \cup B(d)) \in Nat
    BY <2>5, <2>7, FS_Subset, FS_CardinalityType
  <2> QED BY <1>2, <1>6, <1>8, <2>1, <2>6, <2>7, <2>8
<1> QED BY <1>7, <1>10, <1>11

LEMMA LimiterInvHolds == Spec => []LimiterInv
<1>1. LimiterInv /\ [Next]_vars => LimiterInv'
  BY StepLimiters
<1> QED BY InitLimiters, <1>1, PTL DEF Spec

\* The limits of a process (FixedWindowRateLimiter), for all limits, window lengths,
\* requests and interleavings: a key gets past one of them less than twice the limit
\* in any stretch of the window's length.
THEOREM RateLimitsHold == Spec => []RateBound
BY LimiterInvHolds, TwoBuckets, PTL

\* A limiter turns a request away only when the request's own key has used the
\* limit up: no other key's requests count against it.
THEOREM RefusalsJustified == Spec => []TurnedAwayHasCause
<1>1. LimiterInv => TurnedAwayHasCause
  BY DEF LimiterInv
<1> QED BY <1>1, LimiterInvHolds, PTL

-----------------------------------------------------------------------------
(* Sums over finite sets *)

\* Sets of subsets of S that hold a subset as soon as they hold all its proper subsets
\* hold every one: induction over a finite set, from the well-founded subset order.
LEMMA SetInduction ==
    ASSUME NEW S, IsFiniteSet(S), NEW F, F \subseteq SUBSET S,
           \A T \in SUBSET S : (\A U \in SUBSET T : U # T => U \in F) => T \in F
    PROVE  F = SUBSET S
<1> SUFFICES ASSUME (SUBSET S) \ F # {} PROVE FALSE
  OBVIOUS
<1>1. \A T \in SUBSET S : IsFiniteSet(T)
  BY FS_Subset
<1>2. (SUBSET S) \ F \subseteq FiniteSubsetsOf(S)
  BY <1>1 DEF FiniteSubsetsOf
<1>3. IsWellFoundedOn(StrictSubsetOrdering(S), FiniteSubsetsOf(S))
  BY FS_StrictSubsetOrderingWellFounded
<1>4. PICK T \in (SUBSET S) \ F : \A U \in (SUBSET S) \ F : ~(<<U, T>> \in StrictSubsetOrdering(S))
  <2> DEFINE R == StrictSubsetOrdering(S)
             D == FiniteSubsetsOf(S)
             G == (SUBSET S) \ F
  <2>1. IsWellFoundedOn(R, D) /\ G \subseteq D /\ G # {}
    BY <1>2, <1>3
  <2> HIDE DEF R, D, G
  <2>2. \E x \in G : \A y \in G : ~(<<y, x>> \in R)
    BY <2>1, WFMin
  <2> QED
    BY <2>2 DEF R, G
<1>5. \A U \in SUBSET T : U # T => U \in F
  BY <1>4 DEF StrictSubsetOrdering
<1> QED
  BY <1>4, <1>5

Sum(f, S) == MapThenSumSet(LAMBDA x : f[x], S)
First(s) == CHOOSE x \in s : TRUE
Step(f, g, s) == IF s = {} THEN 0 ELSE f[First(s)] + g[s \ {First(s)}]
Sums(f, S, g) == g = [s \in SUBSET S |-> Step(f, g, s)]

LEMMA SumIs ==
    ASSUME NEW f, NEW S
    PROVE  Sum(f, S) = (CHOOSE g : Sums(f, S, g))[S]
BY Zenon DEF Sum, Sums, Step, First, MapThenSumSet, MapThenFoldSet

\* What a solution says of the part of it that is about T.
LEMMA SumsRestrict ==
    ASSUME NEW f, NEW S, NEW g, Sums(f, S, g), NEW T, T \subseteq S
    PROVE  Sums(f, T, [s \in SUBSET T |-> g[s]])
<1> DEFINE h == [s \in SUBSET T |-> g[s]]
<1>1. \A s \in SUBSET T : h[s] = Step(f, g, s)
  BY DEF Sums
<1>2. \A s \in SUBSET T : s \ {First(s)} \in SUBSET T
  OBVIOUS
<1>3. \A s \in SUBSET T : Step(f, g, s) = Step(f, h, s)
  BY <1>2 DEF Step
<1> HIDE DEF h
<1>4. h = [s \in SUBSET T |-> Step(f, h, s)]
  BY <1>1, <1>3 DEF h
<1> QED
  BY <1>4 DEF Sums, h

LEMMA FirstIn == \A s : s # {} => First(s) \in s
BY DEF First

LEMMA SumsUnique ==
    ASSUME NEW f, NEW S, IsFiniteSet(S), NEW g, NEW h, Sums(f, S, g), Sums(f, S, h)
    PROVE  g = h
<1> DEFINE F == {s \in SUBSET S : g[s] = h[s]}
<1>1. ASSUME NEW T \in SUBSET S, \A U \in SUBSET T : U # T => U \in F
      PROVE  T \in F
  <2>1. g[T] = Step(f, g, T) /\ h[T] = Step(f, h, T)
    BY DEF Sums
  <2>2. T # {} => T \ {First(T)} \in F
    BY <1>1, FirstIn
  <2>3. Step(f, g, T) = Step(f, h, T)
    BY <2>2 DEF Step
  <2> QED
    BY <2>1, <2>3
<1>2. F \subseteq SUBSET S
  OBVIOUS
<1> HIDE DEF F
<1>3. F = SUBSET S
  BY <1>1, <1>2, SetInduction
<1>4. \A s \in SUBSET S : g[s] = h[s]
  BY <1>3 DEF F
<1> QED
  BY <1>4 DEF Sums

\* A sum that is defined gives the sums of the parts.
LEMMA SumsPart ==
    ASSUME NEW f, NEW S, IsFiniteSet(S), NEW g, Sums(f, S, g), NEW T \in SUBSET S
    PROVE  g[T] = Sum(f, T)
<1> DEFINE h == [s \in SUBSET T |-> g[s]]
           c == CHOOSE k : Sums(f, T, k)
<1>1. Sums(f, T, h)
  BY SumsRestrict
<1>2. Sums(f, T, c)
  BY <1>1
<1>3. IsFiniteSet(T)
  BY FS_Subset
<1>4. h[T] = g[T]
  OBVIOUS
<1> HIDE DEF h, c
<1>5. c = h
  BY <1>1, <1>2, <1>3, SumsUnique
<1>6. Sum(f, T) = c[T]
  BY SumIs DEF c
<1> QED
  BY <1>4, <1>5, <1>6

LEMMA SumsExist ==
    ASSUME NEW f, NEW S, IsFiniteSet(S)
    PROVE  \E g : Sums(f, S, g)
<1> DEFINE F == {T \in SUBSET S : \E g : Sums(f, T, g)}
<1>1. ASSUME NEW T \in SUBSET S, \A U \in SUBSET T : U # T => U \in F
      PROVE  T \in F
  <2> DEFINE g == [s \in SUBSET T |-> IF s = {} THEN 0
                                      ELSE f[First(s)] + Sum(f, s \ {First(s)})]
  <2>1. ASSUME NEW s \in SUBSET T, s # T
        PROVE  g[s] = Sum(f, s)
    <3>1. PICK h : Sums(f, s, h)
      BY <1>1, <2>1
    <3>2. IsFiniteSet(s)
      BY <2>1, FS_Subset
    <3>3. \A U \in SUBSET s : h[U] = Sum(f, U)
      BY <3>1, <3>2, SumsPart, SMTT(30)
    <3>4. h[s] = Step(f, h, s)
      BY <3>1 DEF Sums
    <3>5. s \ {First(s)} \in SUBSET s
      OBVIOUS
    <3>6. h[s] = Sum(f, s) /\ h[s \ {First(s)}] = Sum(f, s \ {First(s)})
      BY <3>3, <3>5
    <3> QED
      BY <3>4, <3>6 DEF Step
  <2>2. \A s \in SUBSET T : s # {} =>
          s \ {First(s)} \in SUBSET T /\ s \ {First(s)} # T
    BY FirstIn
  <2>3. \A s \in SUBSET T : s # {} => Sum(f, s \ {First(s)}) = g[s \ {First(s)}]
    BY <2>1, <2>2
  <2>4. \A s \in SUBSET T : g[s] = IF s = {} THEN 0 ELSE f[First(s)] + Sum(f, s \ {First(s)})
    OBVIOUS
  <2>5. g = [s \in SUBSET T |-> g[s]]
    OBVIOUS
  <2> HIDE DEF g
  <2>6. \A s \in SUBSET T : g[s] = Step(f, g, s)
    BY <2>3, <2>4 DEF Step
  <2>7. Sums(f, T, g)
    BY <2>5, <2>6 DEF Sums
  <2> QED
    BY <2>7
<1>2. F \subseteq SUBSET S
  OBVIOUS
<1> HIDE DEF F
<1>3. F = SUBSET S
  BY <1>1, <1>2, SetInduction
<1>4. S \in F
  BY <1>3
<1> QED
  BY <1>4 DEF F

LEMMA SumEmpty == \A f : Sum(f, {}) = 0
<1> TAKE f
<1>1. IsFiniteSet({})
  BY FS_EmptySet
<1>2. PICK g : Sums(f, {}, g)
  BY <1>1, SumsExist
<1>3. g[{}] = Sum(f, {})
  BY <1>1, <1>2, SumsPart
<1>4. g[{}] = Step(f, g, {})
  BY <1>2 DEF Sums
<1> QED
  BY <1>3, <1>4 DEF Step

LEMMA SumFirst ==
    ASSUME NEW f, NEW S, IsFiniteSet(S), S # {}
    PROVE  Sum(f, S) = f[First(S)] + Sum(f, S \ {First(S)})
<1>1. PICK g : Sums(f, S, g)
  BY SumsExist
<1>2. g[S] = Sum(f, S) /\ g[S \ {First(S)}] = Sum(f, S \ {First(S)})
  <2>1. \A T \in SUBSET S : g[T] = Sum(f, T)
    BY <1>1, SumsPart
  <2> QED
    BY <2>1
<1>3. g[S] = Step(f, g, S)
  BY <1>1 DEF Sums
<1> QED
  BY <1>2, <1>3 DEF Step

\* Any element may be taken out first.
LEMMA SumRemove ==
    ASSUME NEW f, NEW S, IsFiniteSet(S), \A x \in S : f[x] \in Nat
    PROVE  /\ Sum(f, S) \in Nat
           /\ \A x \in S : Sum(f, S) = f[x] + Sum(f, S \ {x})
<1> DEFINE Good(T) == /\ Sum(f, T) \in Nat
                      /\ \A x \in T : Sum(f, T) = f[x] + Sum(f, T \ {x})
           F == {T \in SUBSET S : Good(T)}
<1>1. ASSUME NEW T \in SUBSET S, \A U \in SUBSET T : U # T => U \in F
      PROVE  Good(T)
  <2>1. CASE T = {}
    BY <2>1, SumEmpty
  <2>2. CASE T # {}
    <3> DEFINE y == First(T)
    <3>1. y \in T /\ f[y] \in Nat
      BY <2>2, FirstIn
    <3>2. IsFiniteSet(T)
      BY FS_Subset
    <3>3. Sum(f, T) = f[y] + Sum(f, T \ {y})
      BY <2>2, <3>2, SumFirst
    <3> HIDE DEF y
    <3>4. \A x \in T : Good(T \ {x})
      <4> TAKE x \in T
      <4>1. T \ {x} \in SUBSET T /\ T \ {x} # T
        OBVIOUS
      <4> QED
        BY <1>1, <4>1
    <3> HIDE DEF F
    <3>5. Sum(f, T) \in Nat
      BY <3>1, <3>3, <3>4
    <3>6. ASSUME NEW x \in T, x # y
          PROVE  Sum(f, T) = f[x] + Sum(f, T \ {x})
      <4> DEFINE rest == Sum(f, (T \ {y}) \ {x})
      <4>1. (T \ {y}) \ {x} = (T \ {x}) \ {y}
        OBVIOUS
      <4>2. Sum(f, T \ {y}) = f[x] + rest
        BY <3>1, <3>4, <3>6
      <4>3. Sum(f, T \ {x}) = f[y] + rest
        BY <3>1, <3>4, <3>6, <4>1
      <4>4. f[x] \in Nat /\ f[y] \in Nat
        BY <3>1
      <4>5. rest \in Nat
        <5>1. (T \ {y}) \ {x} \in SUBSET T /\ (T \ {y}) \ {x} # T
          BY <3>1
        <5> QED
          BY <1>1, <5>1 DEF F
      <4> HIDE DEF rest
      <4> QED
        BY <3>3, <4>2, <4>3, <4>4, <4>5
    <3> QED
      BY <3>3, <3>5, <3>6
  <2> QED
    BY <2>1, <2>2
<1>2. F \subseteq SUBSET S
  OBVIOUS
<1>3. \A T \in SUBSET S : (\A U \in SUBSET T : U # T => U \in F) => T \in F
  BY <1>1
<1> HIDE DEF F, Good
<1>4. F = SUBSET S
  BY <1>2, <1>3, SetInduction
<1>5. Good(S)
  BY <1>4 DEF F
<1> QED
  BY <1>5 DEF Good

\* One more element adds its value.
LEMMA SumAdd ==
    ASSUME NEW f, NEW S, IsFiniteSet(S), \A x \in S : f[x] \in Nat,
           NEW e, e \notin S, f[e] \in Nat
    PROVE  Sum(f, S \cup {e}) = Sum(f, S) + f[e]
<1>1. IsFiniteSet(S \cup {e}) /\ \A x \in S \cup {e} : f[x] \in Nat
  BY FS_AddElement
<1>2. (S \cup {e}) \ {e} = S
  OBVIOUS
<1>3. Sum(f, S \cup {e}) = f[e] + Sum(f, (S \cup {e}) \ {e})
  BY <1>1, SumRemove
<1>4. Sum(f, S) \in Nat
  BY SumRemove
<1>5. Sum(f, S \cup {e}) = f[e] + Sum(f, S)
  BY <1>2, <1>3
<1> QED
  BY <1>4, <1>5

LEMMA SumMonotone ==
    ASSUME NEW f, NEW S, IsFiniteSet(S), \A x \in S : f[x] \in Nat
    PROVE  \A T \in SUBSET S : Sum(f, T) <= Sum(f, S)
<1> DEFINE F == {U \in SUBSET S : \A T \in SUBSET U : Sum(f, T) <= Sum(f, U)}
<1>1. \A T \in SUBSET S : IsFiniteSet(T) /\ Sum(f, T) \in Nat
  <2> TAKE T \in SUBSET S
  <2>1. IsFiniteSet(T) /\ \A x \in T : f[x] \in Nat
    BY FS_Subset
  <2> QED
    BY <2>1, SumRemove
<1>2. ASSUME NEW U \in SUBSET S, \A V \in SUBSET U : V # U => V \in F
      PROVE  U \in F
  <2> SUFFICES ASSUME NEW T \in SUBSET U, T # U PROVE Sum(f, T) <= Sum(f, U)
    BY <1>1
  <2>1. PICK x \in U : x \notin T
    OBVIOUS
  <2>2. U \ {x} \in SUBSET U /\ U \ {x} # U /\ T \in SUBSET (U \ {x})
    BY <2>1
  <2>3. Sum(f, T) <= Sum(f, U \ {x})
    BY <1>2, <2>2
  <2>4. IsFiniteSet(U) /\ (\A y \in U : f[y] \in Nat)
    BY <1>1
  <2>5. Sum(f, U) = f[x] + Sum(f, U \ {x})
    BY <2>1, <2>4, SumRemove
  <2>6. Sum(f, T) \in Nat /\ Sum(f, U \ {x}) \in Nat /\ f[x] \in Nat
    BY <1>1, <2>1, <2>2, <2>4
  <2> QED
    BY <2>3, <2>5, <2>6
<1>3. F \subseteq SUBSET S
  OBVIOUS
<1> HIDE DEF F
<1>4. F = SUBSET S
  BY <1>2, <1>3, SetInduction
<1> QED
  BY <1>4 DEF F

LEMMA Division ==
    ASSUME NEW a \in Nat, NEW w \in Nat \ {0}
    PROVE  /\ a \div w \in Nat
           /\ (a \div w) * w <= a
           /\ a < (a \div w) * w + w
OBVIOUS

LEMMA DivisionGrows ==
    ASSUME NEW a \in Nat, NEW b \in Nat, a <= b, NEW w \in Nat \ {0}
    PROVE  a \div w <= b \div w
OBVIOUS

-----------------------------------------------------------------------------
(* What a tenant's requests add up to *)

Bytes(c) == Sum(c.events, DOMAIN c.events)

Amounts(q) == [r \in Requests |-> Amount(r, q)]
Active(q, rs) == {r \in rs : q \in ActiveQuotas(r)}

Spelled(r, q) ==
    CASE q = RequestQuota -> 1
      [] q = WriteQuota -> IF call[r].kind \in Writes THEN 1 ELSE 0
      [] q = ByteQuota -> IF call[r].kind \in Pushes THEN Bytes(call[r]) ELSE 0

LEMMA AmountIs == \A r, q : Amount(r, q) = Spelled(r, q)
BY Zenon DEF Amount, Spelled, Bytes, Sum

LEMMA AmountIsNext == (\A r, q : Amount(r, q) = Spelled(r, q))'
BY AmountIs, PTL

LEMMA AmountKept ==
    ASSUME call' = call
    PROVE  /\ \A r : \A q \in Quotas : Amount(r, q)' = Amount(r, q)
           /\ \A q \in Quotas : Amounts(q)' = Amounts(q)
           /\ \A r : ActiveQuotas(r)' = ActiveQuotas(r)
<1>1. \A r : \A q \in Quotas : Amount(r, q)' = Amount(r, q)
  BY AmountIs, AmountIsNext DEF Spelled, Quotas, RequestQuota, WriteQuota, ByteQuota
<1>2. \A q \in Quotas : Amounts(q)' = Amounts(q)
  BY <1>1 DEF Amounts
<1>3. \A r : ActiveQuotas(r)' = ActiveQuotas(r)
  BY <1>1 DEF ActiveQuotas
<1> QED
  BY <1>1, <1>2, <1>3

\* The size of a body is a number.
LEMMA AmountType ==
    ASSUME call \in [Requests -> Calls]
    PROVE  \A r \in Requests : \A q \in Quotas : Amount(r, q) \in Nat
<1> SUFFICES ASSUME NEW r \in Requests, NEW q \in Quotas PROVE Spelled(r, q) \in Nat
  BY AmountIs
<1>1. call[r].events \in Seq(Nat)
  BY DEF Calls
<1>2. PICK e : e = call[r].events
  OBVIOUS
<1>3. DOMAIN e = 1 .. Len(e) /\ Len(e) \in Nat /\ \A i \in DOMAIN e : e[i] \in Nat
  BY <1>1, <1>2
<1>4. IsFiniteSet(DOMAIN e)
  BY <1>3, FS_Interval
<1>5. Bytes(call[r]) \in Nat
  BY <1>2, <1>3, <1>4, SumRemove DEF Bytes
<1> QED
  BY <1>5 DEF Spelled, Quotas, RequestQuota, WriteQuota, ByteQuota

\* Total is a sum of the amounts of the requests.
LEMMA TotalIs ==
    \A q, rs : rs \in SUBSET Requests => Total(q, rs) = Sum(Amounts(q), Active(q, rs))
<1> SUFFICES ASSUME NEW q, NEW rs \in SUBSET Requests
             PROVE  Total(q, rs) = Sum(Amounts(q), Active(q, rs))
  OBVIOUS
<1> DEFINE X == Active(q, rs)
           Folds(g) == g = [s \in SUBSET X |-> IF s = {} THEN 0
                              ELSE Amount(First(s), q) + g[s \ {First(s)}]]
           c == CHOOSE g : Folds(g)
<1>1. Total(q, rs) = c[X]
  BY Zenon DEF Total, MapThenSumSet, MapThenFoldSet, Active, First
<1>2. X \subseteq Requests /\ IsFiniteSet(X)
  BY AdmissionAssumption, FS_Subset DEF Active
<1>3. \A s \in SUBSET X : s # {} => Amount(First(s), q) = Amounts(q)[First(s)]
  BY <1>2, FirstIn DEF Amounts
<1>4. \A g : Folds(g) <=> Sums(Amounts(q), X, g)
  <2> TAKE g
  <2>1. \A s \in SUBSET X : Step(Amounts(q), g, s) =
          IF s = {} THEN 0 ELSE Amount(First(s), q) + g[s \ {First(s)}]
    BY <1>3 DEF Step
  <2> HIDE DEF X
  <2> QED
    BY <2>1 DEF Sums
<1>5. \E g : Folds(g)
  BY <1>2, <1>4, SumsExist
<1>6. Folds(c)
  BY <1>5
<1> HIDE DEF X, Folds, c
<1>7. c[X] = Sum(Amounts(q), X)
  <2>1. PICK a, S : a = Amounts(q) /\ S = X
    OBVIOUS
  <2>2. Sums(a, S, c) /\ IsFiniteSet(S) /\ S \in SUBSET S
    BY <1>2, <1>4, <1>6, <2>1
  <2>3. c[S] = Sum(a, S)
    BY <2>2, SumsPart
  <2> QED
    BY <2>1, <2>3
<1> QED
  BY <1>1, <1>7 DEF X

LEMMA TotalIsNext ==
    (\A q, rs : rs \in SUBSET Requests => Total(q, rs) = Sum(Amounts(q), Active(q, rs)))'
BY TotalIs, PTL

-----------------------------------------------------------------------------
(* The quotas *)

Settled == PastQuota \cup {"over-quota", "error"}

Share(q, w, states) == {r \in Requests : st[r] \in states /\ window[r] = w /\ q \in ActiveQuotas(r)}
Spent(q, w, states) == Sum(Amounts(q), Share(q, w, states))

QuotaType ==
    /\ now \in 0 .. Horizon
    /\ call \in Workloads
    /\ call \in [Requests -> Calls]
    /\ st \in [Requests -> Running \cup Outcomes]
    /\ window \in [Requests -> Windows]
    /\ readAt \in [Requests -> Nat]
    /\ \A r \in Requests : readAt[r] <= now
    /\ counts \in [Quotas \X Windows -> Nat \X Nat]

\* A window is read off a clock that is at most MaxDelay old when the script runs.
Clocked ==
    \A r \in Requests : st[r] = "charging" =>
      /\ now <= readAt[r] + MaxDelay
      /\ window[r] = (readAt[r] + Skew[P(r)]) \div Window

\* A key that was charged lives on after the end of its window on some clock.
Stamped ==
    \A q \in Quotas, w \in Windows : counts[<<q, w>>][1] > 0 =>
      \E p \in Processes : w * Window + Window + TtlBuffer <= counts[<<q, w>>][2] + Skew[p]

\* No key holds more than what was asked of it.
Asked ==
    \A q \in Quotas, w \in Windows : counts[<<q, w>>][1] <= Spent(q, w, Settled)

\* No request passes without being charged for.
Paid ==
    \A q \in Quotas, w \in Windows :
      /\ Spent(q, w, PastQuota) <= counts[<<q, w>>][1]
      /\ Limit[q] > 0 => Spent(q, w, PastQuota) <= Limit[q]

Refused ==
    \A r \in Requests, w \in Windows : st[r] = "over-quota" /\ window[r] = w =>
      \E q \in Quotas : q \in ActiveQuotas(r) /\ Spent(q, w, Settled) > Limit[q]

QuotaInv == QuotaType /\ Clocked /\ Stamped /\ Asked /\ Refused

\* The buffer of the EXPIRE is as long as the clocks may differ and a call may take.
Buffered == \A p, o \in Processes : Skew[p] - Skew[o] + MaxDelay <= TtlBuffer

LEMMA TotalSpent ==
    ASSUME NEW q, NEW w, NEW states
    PROVE  Total(q, In(w, states)) = Spent(q, w, states)
<1>1. In(w, states) \in SUBSET Requests
  BY DEF In
<1>2. Active(q, In(w, states)) = Share(q, w, states)
  BY DEF Active, In, Share
<1> QED
  BY <1>1, <1>2, TotalIs DEF Spent

LEMMA ShareFinite ==
    ASSUME call \in [Requests -> Calls], NEW q \in Quotas, NEW w, NEW states
    PROVE  /\ IsFiniteSet(Share(q, w, states)) /\ Share(q, w, states) \subseteq Requests
           /\ \A r \in Requests : Amounts(q)[r] = Amount(r, q) /\ Amounts(q)[r] \in Nat
           /\ Spent(q, w, states) \in Nat
<1>1. IsFiniteSet(Share(q, w, states)) /\ Share(q, w, states) \subseteq Requests
  BY AdmissionAssumption, FS_Subset DEF Share
<1>2. \A r \in Requests : Amounts(q)[r] = Amount(r, q) /\ Amounts(q)[r] \in Nat
  BY AmountType DEF Amounts
<1>3. PICK S : S = Share(q, w, states)
  OBVIOUS
<1>4. Sum(Amounts(q), S) \in Nat
  BY <1>1, <1>2, <1>3, SumRemove
<1> QED
  BY <1>1, <1>2, <1>3, <1>4 DEF Spent

\* A step that moves no regulated request into or out of states spends nothing.
LEMMA ShareStays ==
    ASSUME call' = call, NEW states,
           \A r \in Requests : ActiveQuotas(r) # {} =>
             /\ st'[r] \in states <=> st[r] \in states
             /\ st[r] \in states => window'[r] = window[r]
    PROVE  \A q \in Quotas : \A w : Spent(q, w, states)' = Spent(q, w, states)
<1> TAKE q \in Quotas
<1> TAKE w
<1>1. \A r : ActiveQuotas(r)' = ActiveQuotas(r)
  BY AmountKept
<1>2. Amounts(q)' = Amounts(q)
  BY AmountKept
<1>3. Share(q, w, states)' = Share(q, w, states)
  BY <1>1 DEF Share
<1> QED
  BY <1>2, <1>3 DEF Spent

\* A request that leaves the script for states spends its amount of each quota.
Moves(r, outcome) == st' = [st EXCEPT ![r] = outcome]

LEMMA ShareGrows ==
    ASSUME call' = call, window' = window, call \in [Requests -> Calls],
           st \in [Requests -> Running \cup Outcomes],
           NEW r \in Requests, NEW outcome, NEW states,
           Moves(r, outcome), st[r] \notin states
    PROVE  \A q \in Quotas : \A w :
             Spent(q, w, states)' =
               IF outcome \in states /\ w = window[r] /\ q \in ActiveQuotas(r)
               THEN Spent(q, w, states) + Amount(r, q) ELSE Spent(q, w, states)
<1> TAKE q \in Quotas
<1> TAKE w
<1>1. \A o : ActiveQuotas(o)' = ActiveQuotas(o)
  BY AmountKept
<1>2. Amounts(q)' = Amounts(q)
  BY AmountKept
<1>3. PICK S : S = Share(q, w, states)
  OBVIOUS
<1>4. r \notin S /\ Spent(q, w, states) = Sum(Amounts(q), S)
  BY <1>3 DEF Share, Spent
<1>5. CASE outcome \in states /\ w = window[r] /\ q \in ActiveQuotas(r)
  <2>1. Share(q, w, states)' = S \cup {r}
    BY <1>1, <1>3, <1>5 DEF Share, Moves
  <2>2. /\ IsFiniteSet(S) /\ \A o \in S : Amounts(q)[o] \in Nat
        /\ Amounts(q)[r] \in Nat /\ Amounts(q)[r] = Amount(r, q)
    BY <1>3, ShareFinite
  <2>3. Sum(Amounts(q), S \cup {r}) = Sum(Amounts(q), S) + Amounts(q)[r]
    BY <1>4, <2>2, SumAdd
  <2>4. Spent(q, w, states)' = Sum(Amounts(q), S \cup {r})
    BY <1>2, <2>1 DEF Spent
  <2> QED
    BY <1>4, <1>5, <2>2, <2>3, <2>4
<1>6. CASE ~(outcome \in states /\ w = window[r] /\ q \in ActiveQuotas(r))
  <2>1. Share(q, w, states)' = S
    BY <1>1, <1>3, <1>6 DEF Share, Moves
  <2>2. Spent(q, w, states)' = Sum(Amounts(q), S)
    BY <1>2, <2>1 DEF Spent
  <2> QED
    BY <1>4, <1>6, <2>2
<1> QED
  BY <1>5, <1>6

\* What a handler's step other than the call of the script does to the quotas.
Asks(r) ==
    /\ st[r] \in {"new", "body"} /\ st' = [st EXCEPT ![r] = "charging"]
    /\ window' = [window EXCEPT ![r] = Clock(r) \div Window]
    /\ readAt' = [readAt EXCEPT ![r] = now]

Passes(r) ==
    \E outcome \in (Running \cup Outcomes) \ {"charging", "over-quota"} :
      /\ st[r] # "charging" /\ st' = [st EXCEPT ![r] = outcome]
      /\ \/ ActiveQuotas(r) = {}
         \/ st[r] \in PastQuota /\ outcome \in PastQuota
         \/ st[r] \notin Settled /\ outcome \notin Settled
      /\ UNCHANGED <<window, readAt>>

LEMMA ToQuotaParts ==
    ASSUME NEW r, st[r] \in {"new", "body"}, ToQuota(r)
    PROVE  Asks(r) \/ Passes(r)
<1>1. CASE ActiveQuotas(r) = {}
  <2>1. /\ st' = [st EXCEPT ![r] = "acting"] /\ UNCHANGED <<window, readAt>>
        /\ "acting" \in (Running \cup Outcomes) \ {"charging", "over-quota"}
        /\ st[r] # "charging"
    BY <1>1 DEF ToQuota, Continues, Running
  <2> QED
    BY <1>1, <2>1 DEF Passes
<1>2. CASE ActiveQuotas(r) # {}
  BY <1>2 DEF ToQuota, Continues, Asks
<1> QED
  BY <1>1, <1>2

\* A handler that ends, or waits for a body, before it has a quota to ask.
Stops(r) ==
    /\ st[r] \in {"new", "body"} /\ UNCHANGED <<window, readAt>>
    /\ \E outcome \in {"denied", "rate-limited", "bad", "over-payload", "body"} :
         st' = [st EXCEPT ![r] = outcome]

LEMMA StopsParts ==
    ASSUME NEW r, Stops(r)
    PROVE  Passes(r)
<1>0. PICK outcome \in {"denied", "rate-limited", "bad", "over-payload", "body"} :
        st' = [st EXCEPT ![r] = outcome]
  BY DEF Stops
<1>1. /\ outcome \in (Running \cup Outcomes) \ {"charging", "over-quota"}
      /\ outcome \notin Settled /\ st[r] \notin Settled /\ st[r] # "charging"
  BY DEF Running, Outcomes, Settled, PastQuota, Stops
<1> QED
  BY <1>0, <1>1 DEF Passes, Stops

LEMMA QuietParts ==
    ASSUME QuotaType, NEW r \in Requests,
           \/ BadStreamId(r) \/ AuthRaises(r) \/ Deny(r) \/ Begin(r) \/ Scrape(r)
           \/ ReadBody(r) \/ BadBody(r) \/ Act(r)
    PROVE  (Asks(r) \/ Passes(r)) /\ UNCHANGED <<now, call, counts>>
<1>1. CASE BadStreamId(r) \/ AuthRaises(r)
  <2>1. /\ st[r] = "new" /\ st' = [st EXCEPT ![r] = "bad"]
        /\ UNCHANGED <<window, readAt>> /\ UNCHANGED <<now, call, counts>>
    BY <1>1 DEF BadStreamId, AuthRaises, Starts, Ends
  <2>2. Stops(r)
    BY <2>1 DEF Stops
  <2> QED
    BY <2>1, <2>2, StopsParts
<1>2. CASE Deny(r)
  <2>1. /\ st[r] = "new" /\ UNCHANGED <<window, readAt>> /\ UNCHANGED <<now, call, counts>>
    BY <1>2 DEF Deny, Starts
  <2>2. \E outcome \in {"denied", "rate-limited"} : st' = [st EXCEPT ![r] = outcome]
    BY <1>2, ZenonT(40) DEF Deny, Ends
  <2>3. Stops(r)
    BY <2>1, <2>2 DEF Stops
  <2> QED
    BY <2>1, <2>3, StopsParts
<1>3. CASE Begin(r)
  <2>1. /\ st[r] = "new" /\ UNCHANGED <<now, call, counts>>
    BY <1>3 DEF Begin, Starts
  <2>2. \/ st' = [st EXCEPT ![r] = "rate-limited"] /\ UNCHANGED <<window, readAt>>
        \/ st' = [st EXCEPT ![r] = "body"] /\ UNCHANGED <<window, readAt>>
        \/ ToQuota(r)
    BY <1>3, ZenonT(40) DEF Begin, Ends, Continues
  <2>3. Stops(r) \/ ToQuota(r)
    BY <2>1, <2>2 DEF Stops
  <2> QED
    BY <2>1, <2>3, StopsParts, ToQuotaParts
<1>4. CASE Scrape(r)
  <2>1. /\ st[r] = "new" /\ st' = [st EXCEPT ![r] = "done"] /\ call[r].kind = "metrics"
        /\ UNCHANGED <<window, readAt>> /\ UNCHANGED <<now, call, counts>>
    BY <1>4 DEF Scrape, Starts, Ends
  <2>2. call[r].stream \notin Regulated
    BY <2>1, AdmissionAssumption DEF QuotaType
  <2>3. ActiveQuotas(r) = {}
    BY <2>2 DEF ActiveQuotas
  <2>4. "done" \in (Running \cup Outcomes) \ {"charging", "over-quota"} /\ st[r] # "charging"
    BY <2>1 DEF Outcomes
  <2> QED
    BY <2>1, <2>3, <2>4 DEF Passes
<1>5. CASE ReadBody(r)
  <2>1. /\ st[r] = "body" /\ UNCHANGED <<now, call, counts>>
        /\ \/ ToQuota(r)
           \/ st' = [st EXCEPT ![r] = "over-payload"] /\ UNCHANGED <<window, readAt>>
    BY <1>5 DEF ReadBody, Ends
  <2>2. Stops(r) \/ ToQuota(r)
    BY <2>1 DEF Stops
  <2> QED
    BY <2>1, <2>2, StopsParts, ToQuotaParts
<1>6. CASE BadBody(r)
  <2>1. /\ st[r] = "body" /\ UNCHANGED <<window, readAt>> /\ UNCHANGED <<now, call, counts>>
        /\ st' = [st EXCEPT ![r] = "bad"]
    BY <1>6, ZenonT(40) DEF BadBody, Ends
  <2>2. Stops(r)
    BY <2>1 DEF Stops
  <2> QED
    BY <2>1, <2>2, StopsParts
<1>7. CASE Act(r)
  <2>1. /\ st[r] = "acting" /\ UNCHANGED <<window, readAt>> /\ UNCHANGED <<now, call, counts>>
        /\ \/ Ends(r, "done", 200, None) \/ Ends(r, "failed", 500, None)
           \/ Ends(r, "bad-args", 400, None)
           \/ \E cause \in {"quota", "connection"} : Ends(r, "no-room", 429, cause)
    BY <1>7, ZenonT(40) DEF Act
  <2>2. \A place, status, cause :
          Ends(r, place, status, cause) => st' = [st EXCEPT ![r] = place]
    BY DEF Ends
  <2>3. \E outcome \in {"done", "failed", "bad-args", "no-room"} : st' = [st EXCEPT ![r] = outcome]
    BY <2>1, <2>2
  <2>4. \A outcome \in {"done", "failed", "bad-args", "no-room"} :
          outcome \in PastQuota /\ outcome \in (Running \cup Outcomes) \ {"charging", "over-quota"}
    BY DEF PastQuota, Outcomes
  <2>5. st[r] \in PastQuota /\ st[r] # "charging"
    BY <2>1 DEF PastQuota
  <2> QED
    BY <2>1, <2>3, <2>4, <2>5 DEF Passes
<1> QED
  BY <1>1, <1>2, <1>3, <1>4, <1>5, <1>6, <1>7

\* The script was run, or the call of it failed before.
LEMMA ChargeParts ==
    ASSUME NEW r \in Requests, Charge(r) \/ ChargeFails(r)
    PROVE  \E outcome \in {"acting", "over-quota", "error"} :
             /\ st[r] = "charging" /\ st' = [st EXCEPT ![r] = outcome]
             /\ readAt' = [readAt EXCEPT ![r] = 0]
             /\ UNCHANGED <<now, call, window>>
             /\ ChargeScript(r) \/ (outcome = "error" /\ UNCHANGED counts)
             /\ outcome = "acting" => \A q \in Quotas : ~Over(r, q)
             /\ outcome = "over-quota" => \E q \in Quotas : Over(r, q)
<1>1. CASE Charge(r)
  <2>1. /\ st[r] = "charging" /\ ChargeScript(r) /\ readAt' = [readAt EXCEPT ![r] = 0]
        /\ UNCHANGED <<now, call, window>>
    BY <1>1 DEF Charge
  <2>2. CASE \E q \in Quotas : Over(r, q)
    <3>1. st' = [st EXCEPT ![r] = "over-quota"]
      BY <1>1, <2>2 DEF Charge, Ends
    <3> QED
      BY <2>1, <2>2, <3>1
  <2>3. CASE ~\E q \in Quotas : Over(r, q)
    <3>1. st' = [st EXCEPT ![r] = "acting"]
      BY <1>1, <2>3 DEF Charge, Continues
    <3> QED
      BY <2>1, <2>3, <3>1
  <2> QED
    BY <2>2, <2>3
<1>2. CASE ChargeFails(r)
  <2>1. /\ st[r] = "charging"
        /\ ChargeScript(r) \/ UNCHANGED counts
        /\ readAt' = [readAt EXCEPT ![r] = 0]
        /\ UNCHANGED <<now, call, window>> /\ st' = [st EXCEPT ![r] = "error"]
    BY <1>2 DEF ChargeFails, Ends
  <2> QED
    BY <2>1
<1> QED
  BY <1>1, <1>2

-----------------------------------------------------------------------------
LEMMA HighestSkew ==
    ASSUME NEW p \in Processes
    PROVE  Max({Skew[o] : o \in Processes}) \in Nat /\ Skew[p] <= Max({Skew[o] : o \in Processes})
<1> DEFINE K(T) == {Skew[o] : o \in T}
           F == {T \in SUBSET Processes : T # {} => \E m \in K(T) : \A k \in K(T) : k <= m}
<1>1. Skew \in [Processes -> Nat] /\ IsFiniteSet(Processes)
  BY AdmissionAssumption
<1>2. ASSUME NEW T \in SUBSET Processes, \A U \in SUBSET T : U # T => U \in F
      PROVE  T \in F
  <2> SUFFICES ASSUME T # {} PROVE \E m \in K(T) : \A k \in K(T) : k <= m
    OBVIOUS
  <2>1. PICK o \in T : TRUE
    OBVIOUS
  <2>2. T \ {o} \in F
    BY <1>2, <2>1
  <2>3. CASE T = {o}
    BY <1>1, <2>3
  <2>4. CASE T # {o}
    <3>1. PICK m \in K(T \ {o}) : \A k \in K(T \ {o}) : k <= m
      BY <2>1, <2>2, <2>4
    <3>2. m \in Nat /\ Skew[o] \in Nat /\ m \in K(T) /\ Skew[o] \in K(T)
      BY <1>1, <2>1, <3>1
    <3>3. \A k \in K(T) : k = Skew[o] \/ k \in K(T \ {o})
      OBVIOUS
    <3>4. \A k \in K(T) : k \in Nat
      BY <1>1
    <3> HIDE DEF K
    <3>5. CASE m <= Skew[o]
      <4>1. \A k \in K(T) : k <= Skew[o]
        BY <3>1, <3>2, <3>3, <3>4, <3>5
      <4> QED
        BY <3>2, <4>1
    <3>6. CASE Skew[o] <= m
      <4>1. \A k \in K(T) : k <= m
        BY <3>1, <3>2, <3>3, <3>4, <3>6
      <4> QED
        BY <3>2, <4>1
    <3> QED
      BY <3>2, <3>5, <3>6
  <2> QED
    BY <2>3, <2>4
<1>3. F \subseteq SUBSET Processes
  OBVIOUS
<1> HIDE DEF F
<1>4. F = SUBSET Processes
  BY <1>1, <1>2, <1>3, SetInduction
<1>5. PICK m \in K(Processes) : \A k \in K(Processes) : k <= m
  BY <1>4 DEF F
<1>6. \A k \in K(Processes) : k \in Nat
  BY <1>1
<1>7. Skew[p] \in K(Processes)
  OBVIOUS
<1>8. \A k \in K(Processes) : m >= k
  BY <1>5, <1>6
<1> HIDE DEF K
<1>9. Max(K(Processes)) \in K(Processes) /\ \A k \in K(Processes) : Max(K(Processes)) >= k
  BY <1>8 DEF Max
<1>10. Max(K(Processes)) \in Nat /\ Skew[p] <= Max(K(Processes))
  BY <1>6, <1>7, <1>9
<1> QED
  BY <1>10 DEF K

\* The window a clock is in is one of Windows.
LEMMA WindowType ==
    ASSUME NEW t \in 0 .. Horizon, NEW p \in Processes
    PROVE  (t + Skew[p]) \div Window \in Windows
<1> DEFINE m == Max({Skew[o] : o \in Processes})
<1>1. m \in Nat /\ Skew[p] <= m
  BY HighestSkew
<1>2. t \in Nat /\ Horizon \in Nat /\ Skew[p] \in Nat /\ Window \in Nat \ {0} /\ t <= Horizon
  BY AdmissionAssumption
<1> HIDE DEF m
<1>3. t + Skew[p] \in Nat /\ Horizon + m \in Nat /\ t + Skew[p] <= Horizon + m
  BY <1>1, <1>2
<1>4. /\ (t + Skew[p]) \div Window \in Nat /\ (Horizon + m) \div Window \in Nat
      /\ (t + Skew[p]) \div Window <= (Horizon + m) \div Window
  BY <1>2, <1>3, Division, DivisionGrows
<1>5. (t + Skew[p]) \div Window \in 0 .. (Horizon + m) \div Window
  BY <1>4
<1> QED
  BY <1>5 DEF Windows, m

LEMMA SpentStays ==
    ASSUME NEW r \in Requests, QuotaType, Asks(r) \/ Passes(r), call' = call
    PROVE  \A q \in Quotas : \A w : /\ Spent(q, w, PastQuota)' = Spent(q, w, PastQuota)
                                    /\ Spent(q, w, Settled)' = Spent(q, w, Settled)
<1>1. st \in [Requests -> Running \cup Outcomes] /\ window \in [Requests -> Windows]
  BY DEF QuotaType
<1>2. PastQuota \subseteq Settled /\ {"new", "body", "charging"} \cap Settled = {}
  BY DEF PastQuota, Settled
<1>3. ASSUME NEW o \in Requests, ActiveQuotas(o) # {}
      PROVE  /\ st'[o] \in PastQuota <=> st[o] \in PastQuota
             /\ st'[o] \in Settled <=> st[o] \in Settled
             /\ st[o] \in Settled => window'[o] = window[o]
  <2>1. CASE Asks(r)
    <3>1. CASE o = r
      BY <1>1, <1>2, <2>1, <3>1 DEF Asks
    <3>2. CASE o # r
      BY <1>1, <2>1, <3>2 DEF Asks
    <3> QED
      BY <3>1, <3>2
  <2>2. CASE Passes(r)
    <3>1. PICK outcome : /\ st' = [st EXCEPT ![r] = outcome]
                         /\ \/ ActiveQuotas(r) = {}
                            \/ st[r] \in PastQuota /\ outcome \in PastQuota
                            \/ st[r] \notin Settled /\ outcome \notin Settled
                         /\ window' = window
      BY <2>2 DEF Passes
    <3>2. CASE o = r
      BY <1>1, <1>2, <1>3, <3>1, <3>2
    <3>3. CASE o # r
      BY <1>1, <3>1, <3>3
    <3> QED
      BY <3>2, <3>3
  <2> QED
    BY <2>1, <2>2
<1>4. \A q \in Quotas : \A w : Spent(q, w, PastQuota)' = Spent(q, w, PastQuota)
  <2>1. \A o \in Requests : ActiveQuotas(o) # {} =>
          /\ st'[o] \in PastQuota <=> st[o] \in PastQuota
          /\ st[o] \in PastQuota => window'[o] = window[o]
    BY <1>2, <1>3
  <2> QED
    BY <2>1, ShareStays
<1>5. \A q \in Quotas : \A w : Spent(q, w, Settled)' = Spent(q, w, Settled)
  BY <1>3, ShareStays
<1> QED
  BY <1>4, <1>5

LEMMA QuietType ==
    ASSUME NEW r \in Requests, QuotaType, Clocked, Asks(r) \/ Passes(r),
           UNCHANGED <<now, call, counts>>
    PROVE  /\ QuotaType' /\ Clocked'
           /\ \A o \in Requests : st'[o] = "over-quota" =>
                st[o] = "over-quota" /\ window'[o] = window[o]
<1>1. /\ st \in [Requests -> Running \cup Outcomes] /\ window \in [Requests -> Windows]
      /\ readAt \in [Requests -> Nat] /\ now \in 0 .. Horizon /\ now \in Nat
      /\ \A o \in Requests : readAt[o] <= now
      /\ Horizon \in Nat /\ MaxDelay \in Nat /\ P(r) \in Processes
  BY AdmissionAssumption DEF QuotaType, P, Calls
<1>2. \A o : P(o)' = P(o)
  BY DEF P
<1>3. /\ st' \in [Requests -> Running \cup Outcomes] /\ window' \in [Requests -> Windows]
      /\ readAt' \in [Requests -> Nat] /\ \A o \in Requests : readAt'[o] <= now'
  <2>1. CASE Asks(r)
    <3>1. Clock(r) \div Window \in Windows
      BY <1>1, WindowType DEF Clock
    <3>2. "charging" \in Running \cup Outcomes
      BY DEF Running
    <3> QED
      BY <1>1, <2>1, <3>1, <3>2 DEF Asks
  <2>2. CASE Passes(r)
    BY <1>1, <2>2 DEF Passes
  <2> QED
    BY <2>1, <2>2
<1>4. Clocked'
  <2> SUFFICES ASSUME NEW o \in Requests, st'[o] = "charging"
               PROVE  /\ now <= readAt'[o] + MaxDelay
                      /\ window'[o] = (readAt'[o] + Skew[P(o)]) \div Window
    BY <1>2 DEF Clocked
  <2>1. CASE st[o] = "charging" /\ readAt'[o] = readAt[o] /\ window'[o] = window[o]
    BY <2>1 DEF Clocked
  <2>2. CASE o = r /\ Asks(r)
    BY <1>1, <2>2 DEF Asks, Clock
  <2>3. CASE ~(o = r /\ Asks(r))
    <3>1. st[o] = "charging" /\ readAt'[o] = readAt[o] /\ window'[o] = window[o]
      BY <1>1, <2>3 DEF Asks, Passes
    <3> QED
      BY <2>1, <3>1
  <2> QED
    BY <2>2, <2>3
<1>5. QuotaType'
  BY <1>3 DEF QuotaType
<1>6. \A o \in Requests : st'[o] = "over-quota" => st[o] = "over-quota" /\ window'[o] = window[o]
  <2>1. CASE Asks(r)
    BY <1>1, <2>1 DEF Asks
  <2>2. CASE Passes(r)
    BY <1>1, <2>2 DEF Passes
  <2> QED
    BY <2>1, <2>2
<1> QED
  BY <1>4, <1>5, <1>6

\* What the keys hold, what was spent and who was refused stay as they are.
LEMMA TallyStays ==
    ASSUME call' = call, counts' = counts,
           \A q \in Quotas : \A w : /\ Spent(q, w, PastQuota)' = Spent(q, w, PastQuota)
                                    /\ Spent(q, w, Settled)' = Spent(q, w, Settled),
           \A o \in Requests : st'[o] = "over-quota" =>
             st[o] = "over-quota" /\ window'[o] = window[o],
           Stamped, Asked, Refused
    PROVE  Stamped' /\ Asked' /\ Refused' /\ (Paid => Paid')
<1>1. Stamped'
  BY DEF Stamped
<1>2. Asked'
  BY DEF Asked
<1>3. Paid => Paid'
  BY DEF Paid
<1>4. Refused'
  <2> SUFFICES ASSUME NEW o \in Requests, NEW w \in Windows, st'[o] = "over-quota", window'[o] = w
               PROVE  \E q \in Quotas : q \in ActiveQuotas(o)' /\ Spent(q, w, Settled)' > Limit[q]
    BY DEF Refused
  <2>1. st[o] = "over-quota" /\ window[o] = w
    OBVIOUS
  <2>2. PICK q \in Quotas : q \in ActiveQuotas(o) /\ Spent(q, w, Settled) > Limit[q]
    BY <2>1 DEF Refused
  <2>3. q \in ActiveQuotas(o)' /\ Spent(q, w, Settled)' = Spent(q, w, Settled)
    BY <2>2, AmountKept
  <2> QED
    BY <2>2, <2>3
<1> QED
  BY <1>1, <1>2, <1>3, <1>4

-----------------------------------------------------------------------------
LEMMA ScriptParts ==
    ASSUME QuotaType, NEW r \in Requests, ChargeScript(r)
    PROVE  /\ counts' \in [Quotas \X Windows -> Nat \X Nat]
           /\ \A q \in Quotas : Stored(counts[<<q, window[r]>>]) \in {0, counts[<<q, window[r]>>][1]}
           /\ \A q \in Quotas, w \in Windows :
                counts'[<<q, w>>] =
                  IF q \in Charged(r) /\ w = window[r]
                  THEN <<Stored(counts[<<q, w>>]) + Amount(r, q),
                         IF Stored(counts[<<q, w>>]) = 0 THEN now + Window + TtlBuffer
                         ELSE counts[<<q, w>>][2]>>
                  ELSE counts[<<q, w>>]
<1>1. /\ window[r] \in Windows /\ now \in Nat /\ TtlBuffer \in Nat /\ Window \in Nat
      /\ counts \in [Quotas \X Windows -> Nat \X Nat]
      /\ \A q \in Quotas : Amount(r, q) \in Nat
  BY AmountType, AdmissionAssumption DEF QuotaType
<1>2. \A q \in Quotas, w \in Windows :
        /\ counts[<<q, w>>][1] \in Nat /\ counts[<<q, w>>][2] \in Nat
        /\ Stored(counts[<<q, w>>]) \in {0, counts[<<q, w>>][1]}
  BY <1>1 DEF Stored
<1>3. Charged(r) \subseteq Quotas
  BY DEF Charged, ActiveQuotas
<1>4. \A q \in Quotas, w \in Windows :
        counts'[<<q, w>>] =
          IF q \in Charged(r) /\ w = window[r]
          THEN <<Stored(counts[<<q, w>>]) + Amount(r, q),
                 IF Stored(counts[<<q, w>>]) = 0 THEN now + Window + TtlBuffer
                 ELSE counts[<<q, w>>][2]>>
          ELSE counts[<<q, w>>]
  BY DEF ChargeScript, Incremented
<1>5. DOMAIN counts' = Quotas \X Windows /\ counts' = [k \in Quotas \X Windows |-> counts'[k]]
  BY DEF ChargeScript
<1>6. \A q \in Quotas, w \in Windows : counts'[<<q, w>>] \in Nat \X Nat
  <2> TAKE q \in Quotas, w \in Windows
  <2>1. Stored(counts[<<q, w>>]) \in Nat /\ now + Window + TtlBuffer \in Nat
    BY <1>1, <1>2
  <2>2. counts[<<q, w>>] \in Nat \X Nat
    BY <1>1
  <2>3. PICK a, b, v \in Nat : a = Amount(r, q) /\ b = Stored(counts[<<q, w>>])
                              /\ v = now + Window + TtlBuffer
    BY <1>1, <2>1
  <2>4. counts[<<q, w>>][2] \in Nat
    BY <1>2
  <2>5. b + a \in Nat
    OBVIOUS
  <2>6. CASE q \in Charged(r) /\ w = window[r]
    <3>1. counts'[<<q, w>>] = <<b + a, IF b = 0 THEN v ELSE counts[<<q, w>>][2]>>
      BY <1>4, <2>3, <2>6
    <3> QED
      BY <2>4, <2>5, <3>1
  <2>7. CASE ~(q \in Charged(r) /\ w = window[r])
    BY <1>4, <2>2, <2>7
  <2> QED
    BY <2>6, <2>7
<1>7. counts' \in [Quotas \X Windows -> Nat \X Nat]
  <2>1. \A k \in Quotas \X Windows : counts'[k] \in Nat \X Nat
    BY <1>6
  <2> QED
    BY <1>5, <2>1
<1> QED
  BY <1>1, <1>2, <1>4, <1>7

\* What the script makes of a key that holds v until e: b is what is stored of it.
KeyChange(r, outcome, q, w, a, b, v, e) ==
    LET asked == <<b + a, IF b = 0 THEN now + Window + TtlBuffer ELSE e>>
    IN  /\ a = Amount(r, q) /\ counts[<<q, w>>] = <<v, e>>
        /\ b = Stored(counts[<<q, w>>]) /\ b \in {0, v}
        /\ \/ counts'[<<q, w>>] = <<v, e>>
           \/ w = window[r] /\ q \in ActiveQuotas(r) /\ counts'[<<q, w>>] = asked
        /\ outcome # "error" /\ q \in Charged(r) /\ w = window[r] =>
             counts'[<<q, w>>] = asked

LEMMA KeyAfter ==
    ASSUME QuotaType, NEW r \in Requests, NEW outcome,
           ChargeScript(r) \/ (outcome = "error" /\ UNCHANGED counts),
           NEW q \in Quotas, NEW w \in Windows
    PROVE  \E a, b, v, e \in Nat : KeyChange(r, outcome, q, w, a, b, v, e)
<1>1. counts[<<q, w>>] \in Nat \X Nat /\ Amount(r, q) \in Nat
  BY AmountType DEF QuotaType
<1>2. PICK a, v, e \in Nat : a = Amount(r, q) /\ counts[<<q, w>>] = <<v, e>>
  BY <1>1
<1>3. PICK b \in Nat : b = Stored(counts[<<q, w>>]) /\ b \in {0, v}
  BY <1>2 DEF Stored
<1> DEFINE asked == <<b + a, IF b = 0 THEN now + Window + TtlBuffer ELSE e>>
<1>4. CASE ChargeScript(r)
  <2>1. Charged(r) \subseteq ActiveQuotas(r)
    BY DEF Charged
  <2>2. counts'[<<q, w>>] =
          IF q \in Charged(r) /\ w = window[r]
          THEN <<Stored(counts[<<q, w>>]) + Amount(r, q),
                 IF Stored(counts[<<q, w>>]) = 0 THEN now + Window + TtlBuffer
                 ELSE counts[<<q, w>>][2]>>
          ELSE counts[<<q, w>>]
    BY <1>4, ScriptParts
  <2>3. counts[<<q, w>>][2] = e
    BY <1>2
  <2>4. counts'[<<q, w>>] = IF q \in Charged(r) /\ w = window[r] THEN asked ELSE <<v, e>>
    BY <1>2, <1>3, <2>2, <2>3
  <2> HIDE DEF asked
  <2>5. \/ counts'[<<q, w>>] = <<v, e>>
        \/ w = window[r] /\ q \in ActiveQuotas(r) /\ counts'[<<q, w>>] = asked
    BY <2>1, <2>4
  <2>6. q \in Charged(r) /\ w = window[r] => counts'[<<q, w>>] = asked
    BY <2>4
  <2> QED
    BY <1>2, <1>3, <2>5, <2>6 DEF KeyChange, asked
<1>5. CASE outcome = "error" /\ UNCHANGED counts
  BY <1>2, <1>3, <1>5 DEF KeyChange
<1> QED
  BY <1>4, <1>5

LEMMA ChargeKeeps ==
    ASSUME QuotaInv, NEW r \in Requests, Charge(r) \/ ChargeFails(r)
    PROVE  QuotaInv'
<1>1. PICK outcome \in {"acting", "over-quota", "error"} :
        /\ st[r] = "charging" /\ st' = [st EXCEPT ![r] = outcome]
        /\ readAt' = [readAt EXCEPT ![r] = 0]
        /\ UNCHANGED <<now, call, window>>
        /\ ChargeScript(r) \/ (outcome = "error" /\ UNCHANGED counts)
        /\ outcome = "acting" => \A q \in Quotas : ~Over(r, q)
        /\ outcome = "over-quota" => \E q \in Quotas : Over(r, q)
  BY ChargeParts
<1>2. /\ QuotaType /\ call \in [Requests -> Calls] /\ now \in Nat
      /\ st \in [Requests -> Running \cup Outcomes] /\ window \in [Requests -> Windows]
      /\ window[r] \in Windows /\ outcome \in Settled /\ outcome \in Running \cup Outcomes
      /\ st[r] \notin Settled
  BY <1>1, AdmissionAssumption DEF QuotaInv, QuotaType, Settled, PastQuota, Running, Outcomes
<1>3. QuotaType'
  <2>1. counts' \in [Quotas \X Windows -> Nat \X Nat]
    BY <1>1, <1>2, ScriptParts DEF QuotaType
  <2>2. readAt' \in [Requests -> Nat] /\ \A o \in Requests : readAt'[o] <= now'
    BY <1>1, <1>2 DEF QuotaType
  <2>3. st' \in [Requests -> Running \cup Outcomes]
    BY <1>1, <1>2
  <2> QED
    BY <1>1, <1>2, <2>1, <2>2, <2>3 DEF QuotaType
<1>4. Clocked'
  <2> SUFFICES ASSUME NEW o \in Requests, st'[o] = "charging"
               PROVE  /\ now' <= readAt'[o] + MaxDelay
                      /\ window'[o] = (readAt'[o] + Skew[P(o)']) \div Window
    BY DEF Clocked
  <2>1. o # r /\ st[o] = "charging"
    BY <1>1, <1>2
  <2>2. readAt'[o] = readAt[o] /\ window'[o] = window[o] /\ P(o)' = P(o) /\ now' = now
    BY <1>1, <2>1 DEF P
  <2> QED
    BY <2>1, <2>2 DEF QuotaInv, Clocked
<1>5. \A q \in Quotas : \A w :
        Spent(q, w, Settled)' = IF w = window[r] /\ q \in ActiveQuotas(r)
                                THEN Spent(q, w, Settled) + Amount(r, q) ELSE Spent(q, w, Settled)
  <2>1. Moves(r, outcome) /\ call' = call /\ window' = window
    BY <1>1 DEF Moves
  <2> QED
    BY <1>2, <2>1, ShareGrows
<1>6. \A q \in Quotas : \A w : Spent(q, w, Settled) \in Nat /\ Amount(r, q) \in Nat
  BY <1>2, ShareFinite, AmountType
<1>7. Asked'
  <2> SUFFICES ASSUME NEW q \in Quotas, NEW w \in Windows
               PROVE  counts'[<<q, w>>][1] <= Spent(q, w, Settled)'
    BY DEF Asked
  <2>0. PICK a, b, v, e \in Nat : KeyChange(r, outcome, q, w, a, b, v, e)
    BY <1>1, <1>2, KeyAfter
  <2>1. /\ a = Amount(r, q) /\ counts[<<q, w>>] = <<v, e>> /\ b \in {0, v}
        /\ \/ counts'[<<q, w>>] = <<v, e>>
           \/ /\ w = window[r] /\ q \in ActiveQuotas(r)
              /\ counts'[<<q, w>>][1] = b + a
    BY <2>0 DEF KeyChange
  <2>2. PICK x, y \in Nat : x = Spent(q, w, Settled) /\ y = Spent(q, w, Settled)' /\ v <= x
    <3>1. counts[<<q, w>>][1] <= Spent(q, w, Settled)
      BY DEF QuotaInv, Asked
    <3>2. Spent(q, w, Settled)' \in Nat
      BY <1>5, <1>6
    <3> QED
      BY <1>6, <2>1, <3>1, <3>2
  <2>3. y \in {x, x + a} /\ (w = window[r] /\ q \in ActiveQuotas(r) => y = x + a)
    BY <1>5, <2>1, <2>2
  <2>4. CASE counts'[<<q, w>>] = <<v, e>>
    <3>1. v <= y
      BY <2>2, <2>3
    <3> QED
      BY <2>2, <2>4, <3>1
  <2>5. CASE w = window[r] /\ q \in ActiveQuotas(r) /\ counts'[<<q, w>>][1] = b + a
    <3>1. b + a <= y
      BY <2>1, <2>2, <2>3, <2>5
    <3> QED
      BY <2>2, <2>5, <3>1
  <2> QED
    BY <2>1, <2>4, <2>5
<1>8. Stamped'
  <2> SUFFICES ASSUME NEW q \in Quotas, NEW w \in Windows, counts'[<<q, w>>][1] > 0
               PROVE  \E p \in Processes :
                        w * Window + Window + TtlBuffer <= counts'[<<q, w>>][2] + Skew[p]
    BY DEF Stamped
  <2>0. PICK a, b, v, e \in Nat : KeyChange(r, outcome, q, w, a, b, v, e)
    BY <1>1, <1>2, KeyAfter
  <2>1. /\ counts[<<q, w>>] = <<v, e>> /\ b \in {0, v}
        /\ \/ counts'[<<q, w>>] = <<v, e>>
           \/ /\ w = window[r]
              /\ counts'[<<q, w>>][2] = IF b = 0 THEN now + Window + TtlBuffer ELSE e
    BY <2>0 DEF KeyChange
  <2>2. CASE v > 0 /\ counts'[<<q, w>>][2] = e
    <3>1. counts[<<q, w>>][1] > 0 /\ counts[<<q, w>>][2] = e
      BY <2>1, <2>2
    <3> QED
      BY <2>2, <3>1 DEF QuotaInv, Stamped
  <2>3. CASE w = window[r] /\ counts'[<<q, w>>][2] = now + Window + TtlBuffer
    <3> DEFINE t == readAt[r] + Skew[P(r)]
    <3>1. /\ P(r) \in Processes /\ Skew[P(r)] \in Nat /\ readAt[r] \in Nat /\ readAt[r] <= now
          /\ Window \in Nat \ {0} /\ TtlBuffer \in Nat
      BY <1>2, AdmissionAssumption DEF QuotaType, P, Calls
    <3>2. w = t \div Window
      BY <1>1, <2>3 DEF QuotaInv, Clocked
    <3>3. t \in Nat /\ t <= now + Skew[P(r)]
      BY <1>2, <3>1
    <3> HIDE DEF t
    <3>4. (t \div Window) * Window <= t /\ t \div Window \in Nat
      BY <3>1, <3>3, Division
    <3>5. PICK m \in Int : m = w * Window /\ m <= t
      BY <3>1, <3>2, <3>4
    <3>6. m + Window + TtlBuffer <= now + Window + TtlBuffer + Skew[P(r)]
      BY <1>2, <3>1, <3>3, <3>5
    <3> QED
      BY <2>3, <3>1, <3>5, <3>6
  <2>4. counts'[<<q, w>>] = <<v, e>> => v > 0
    OBVIOUS
  <2>5. b # 0 => v > 0
    BY <2>1
  <2>6. counts'[<<q, w>>] = <<v, e>> => counts'[<<q, w>>][2] = e
    OBVIOUS
  <2> QED
    BY <2>1, <2>2, <2>3, <2>4, <2>5, <2>6
<1>9. Refused'
  <2> SUFFICES ASSUME NEW o \in Requests, NEW w \in Windows, st'[o] = "over-quota", window'[o] = w
               PROVE  \E q \in Quotas : q \in ActiveQuotas(o)' /\ Spent(q, w, Settled)' > Limit[q]
    BY DEF Refused
  <2>1. window[o] = w /\ call' = call
    BY <1>1
  <2>2. CASE st[o] = "over-quota"
    <3>1. PICK q \in Quotas : q \in ActiveQuotas(o) /\ Spent(q, w, Settled) > Limit[q]
      BY <2>1, <2>2 DEF QuotaInv, Refused
    <3>2. q \in ActiveQuotas(o)'
      BY <2>1, <3>1, AmountKept
    <3>3. PICK x, a, m \in Nat : /\ x = Spent(q, w, Settled) /\ a = Amount(r, q)
                                 /\ m = Limit[q] /\ x > m
      BY <1>6, <3>1, AdmissionAssumption
    <3>5. PICK y \in Nat : y = Spent(q, w, Settled)' /\ y \in {x, x + a}
      BY <1>5, <3>3
    <3>4. y > m
      BY <3>3, <3>5
    <3> QED
      BY <3>2, <3>3, <3>4, <3>5
  <2>3. CASE st[o] # "over-quota"
    <3>1. o = r /\ outcome = "over-quota"
      BY <1>1, <1>2, <2>3
    <3>2. PICK q \in Quotas : Over(r, q)
      BY <1>1, <3>1
    <3>3. q \in ActiveQuotas(r) /\ Incremented(r, q) > Limit[q] /\ q \in ActiveQuotas(o)'
      BY <2>1, <3>1, <3>2, AmountKept DEF Over
    <3>0. PICK a, b, v, e \in Nat : KeyChange(r, outcome, q, w, a, b, v, e)
      BY <1>1, <1>2, KeyAfter
    <3>4. /\ a = Amount(r, q) /\ counts[<<q, w>>] = <<v, e>> /\ b \in {0, v}
          /\ b = Stored(counts[<<q, window[r]>>])
      BY <2>1, <3>0, <3>1 DEF KeyChange
    <3>5. PICK m \in Nat : m = Limit[q]
      BY AdmissionAssumption
    <3>6. b + a > m
      BY <3>3, <3>4, <3>5 DEF Incremented
    <3>7. PICK x \in Nat : x = Spent(q, w, Settled) /\ v <= x
      <4>1. counts[<<q, w>>][1] <= Spent(q, w, Settled)
        BY DEF QuotaInv, Asked
      <4> QED
        BY <1>6, <3>4, <4>1
    <3>8. Spent(q, w, Settled)' = x + a
      BY <1>5, <2>1, <3>1, <3>3, <3>4, <3>7
    <3>9. x + a > m
      BY <3>4, <3>6, <3>7
    <3> QED
      BY <3>3, <3>5, <3>8, <3>9
  <2> QED
    BY <2>2, <2>3
<1> QED
  BY <1>3, <1>4, <1>7, <1>8, <1>9 DEF QuotaInv

\* A key lives on while a request may still be charged to it.
LEMMA StoredIsAll ==
    ASSUME Buffered, QuotaType, Clocked, Stamped,
           NEW r \in Requests, st[r] = "charging", NEW q \in Quotas
    PROVE  Stored(counts[<<q, window[r]>>]) = counts[<<q, window[r]>>][1]
<1>1. window[r] \in Windows /\ counts[<<q, window[r]>>] \in Nat \X Nat
  BY DEF QuotaType
<1>2. PICK v, e \in Nat : counts[<<q, window[r]>>] = <<v, e>>
  BY <1>1
<1>3. CASE v = 0
  BY <1>2, <1>3 DEF Stored
<1>4. CASE v > 0
  <2> DEFINE t == readAt[r] + Skew[P(r)]
  <2>1. /\ P(r) \in Processes /\ Skew \in [Processes -> Nat] /\ Skew[P(r)] \in Nat
        /\ readAt[r] \in Nat /\ now \in Nat /\ MaxDelay \in Nat
        /\ Window \in Nat \ {0} /\ TtlBuffer \in Nat
    BY AdmissionAssumption DEF QuotaType, P, Calls
  <2>2. now <= readAt[r] + MaxDelay /\ window[r] = t \div Window
    BY DEF Clocked
  <2>3. t \in Nat
    BY <2>1
  <2> HIDE DEF t
  <2>4. t < (t \div Window) * Window + Window /\ t \div Window \in Nat
    BY <2>1, <2>3, Division
  <2>5. PICK m \in Int : m = window[r] * Window /\ t < m + Window
    BY <2>1, <2>2, <2>4
  <2>6. PICK p \in Processes : window[r] * Window + Window + TtlBuffer <= e + Skew[p]
    BY <1>1, <1>2, <1>4 DEF Stamped
  <2>7. Skew[p] \in Nat /\ Skew[p] - Skew[P(r)] + MaxDelay <= TtlBuffer
    BY <2>1 DEF Buffered
  <2>8. now < e
    BY <1>2, <2>1, <2>2, <2>5, <2>6, <2>7 DEF t
  <2> QED
    BY <1>2, <2>8 DEF Stored
<1> QED
  BY <1>2, <1>3, <1>4

LEMMA ChargePays ==
    ASSUME Buffered, QuotaInv, Paid, NEW r \in Requests, Charge(r) \/ ChargeFails(r)
    PROVE  Paid'
<1>1. PICK outcome \in {"acting", "over-quota", "error"} :
        /\ st[r] = "charging" /\ Moves(r, outcome) /\ UNCHANGED <<now, call, window>>
        /\ ChargeScript(r) \/ (outcome = "error" /\ UNCHANGED counts)
        /\ outcome = "acting" => \A q \in Quotas : ~Over(r, q)
  BY ChargeParts DEF Moves
<1>2. /\ QuotaType /\ call \in [Requests -> Calls] /\ window[r] \in Windows
      /\ st \in [Requests -> Running \cup Outcomes] /\ st[r] \notin PastQuota
      /\ outcome \in PastQuota <=> outcome = "acting"
  BY <1>1 DEF QuotaInv, QuotaType, PastQuota
<1>3. \A q \in Quotas : \A w :
        Spent(q, w, PastQuota)' = IF outcome \in PastQuota /\ w = window[r] /\ q \in ActiveQuotas(r)
                                  THEN Spent(q, w, PastQuota) + Amount(r, q)
                                  ELSE Spent(q, w, PastQuota)
  BY <1>1, <1>2, ShareGrows
<1> SUFFICES ASSUME NEW q \in Quotas, NEW w \in Windows
             PROVE  /\ Spent(q, w, PastQuota)' <= counts'[<<q, w>>][1]
                    /\ Limit[q] > 0 => Spent(q, w, PastQuota)' <= Limit[q]
  BY DEF Paid
<1>4. PICK a, b, v, e \in Nat : KeyChange(r, outcome, q, w, a, b, v, e)
  BY <1>1, <1>2, KeyAfter
<1>5. PICK x, m \in Nat : /\ x = Spent(q, w, PastQuota) /\ m = Limit[q]
                          /\ x <= v /\ (m > 0 => x <= m)
  <2>1. Spent(q, w, PastQuota) \in Nat /\ Limit[q] \in Nat
    BY <1>2, ShareFinite, AdmissionAssumption
  <2>2. counts[<<q, w>>][1] = v
    BY <1>4 DEF KeyChange
  <2> QED
    BY <2>1, <2>2 DEF Paid
<1>6. w = window[r] => b = v
  <2>1. w = window[r] => Stored(counts[<<q, w>>]) = counts[<<q, w>>][1]
    BY <1>1, StoredIsAll DEF QuotaInv
  <2> QED
    BY <1>4, <2>1 DEF KeyChange
<1>7. CASE outcome = "acting" /\ w = window[r] /\ q \in ActiveQuotas(r)
  <2>1. q \in Charged(r) /\ ~Over(r, q)
    <3>1. \A o \in 1 .. q - 1 : o \in Quotas
      BY DEF Quotas
    <3> QED
      BY <1>1, <1>7, <3>1 DEF Charged
  <2>2. counts'[<<q, w>>][1] = v + a
    BY <1>4, <1>6, <1>7, <2>1 DEF KeyChange
  <2>3. Spent(q, w, PastQuota)' = x + a
    BY <1>2, <1>3, <1>4, <1>5, <1>7 DEF KeyChange
  <2>4. Incremented(r, q) = v + a
    BY <1>4, <1>6, <1>7 DEF KeyChange, Incremented
  <2>5. ~(v + a > m)
    BY <1>5, <1>7, <2>1, <2>4 DEF Over
  <2>6. x + a <= v + a /\ x + a <= m
    BY <1>5, <2>5
  <2> QED
    BY <1>5, <2>2, <2>3, <2>6
<1>8. CASE ~(outcome = "acting" /\ w = window[r] /\ q \in ActiveQuotas(r))
  <2>1. Spent(q, w, PastQuota)' = x
    BY <1>2, <1>3, <1>5, <1>8
  <2>2. counts'[<<q, w>>][1] \in {v, v + a}
    BY <1>4, <1>6 DEF KeyChange
  <2>3. v <= v + a
    OBVIOUS
  <2>4. x <= counts'[<<q, w>>][1]
    BY <1>5, <2>2, <2>3
  <2> QED
    BY <1>5, <2>1, <2>4
<1> QED
  BY <1>7, <1>8

LEMMA InitQuota == Init => QuotaInv /\ Paid
<1> SUFFICES ASSUME Init PROVE QuotaInv /\ Paid
  OBVIOUS
<1>1. call \in Workloads /\ call \in [Requests -> Calls] /\ Horizon \in Nat
  BY AdmissionAssumption DEF Init
<1>2. /\ now = 0 /\ st = [r \in Requests |-> "new"] /\ window = [r \in Requests |-> 0]
      /\ readAt = [r \in Requests |-> 0]
      /\ counts = [k \in Quotas \X Windows |-> <<0, 0>>]
  BY DEF Init, Absent
<1>3. \A r \in Requests : 0 \in Windows
  <2> TAKE r \in Requests
  <2>1. P(r) \in Processes
    BY <1>1 DEF P, Calls
  <2>2. (0 + Skew[P(r)]) \div Window \in Windows
    BY <1>1, <2>1, WindowType
  <2>3. Max({Skew[p] : p \in Processes}) \in Nat
    BY <2>1, HighestSkew
  <2>4. PICK m \in Nat : m = Max({Skew[p] : p \in Processes})
    BY <2>3
  <2>5. (Horizon + m) \div Window \in Nat
    <3>1. Horizon + m \in Nat /\ Window \in Nat \ {0}
      BY <1>1, AdmissionAssumption
    <3> QED
      BY <3>1, Division
  <2>6. 0 \in 0 .. (Horizon + m) \div Window
    BY <2>5
  <2> QED
    BY <2>4, <2>6 DEF Windows
<1>4. QuotaType
  BY <1>1, <1>2, <1>3 DEF QuotaType, Running
<1>5. Clocked /\ Stamped /\ Refused
  BY <1>2 DEF Clocked, Stamped, Refused
<1>6. \A q \in Quotas : \A w : Spent(q, w, PastQuota) = 0 /\ Spent(q, w, Settled) \in Nat
  <2> TAKE q \in Quotas
  <2> TAKE w
  <2>1. Share(q, w, PastQuota) = {}
    BY <1>2 DEF Share, PastQuota
  <2> QED
    BY <1>1, <2>1, ShareFinite, SumEmpty DEF Spent
<1>7. \A q \in Quotas, w \in Windows : counts[<<q, w>>][1] = 0
  BY <1>2
<1>8. Asked
  <2> SUFFICES ASSUME NEW q \in Quotas, NEW w \in Windows
               PROVE  counts[<<q, w>>][1] <= Spent(q, w, Settled)
    BY DEF Asked
  <2>1. PICK x \in Nat : x = Spent(q, w, Settled)
    BY <1>6
  <2> QED
    BY <1>7, <2>1
<1>9. Paid
  <2> SUFFICES ASSUME NEW q \in Quotas, NEW w \in Windows
               PROVE  /\ Spent(q, w, PastQuota) <= counts[<<q, w>>][1]
                      /\ Limit[q] > 0 => Spent(q, w, PastQuota) <= Limit[q]
    BY DEF Paid
  <2>1. PICK m \in Nat : m = Limit[q]
    BY AdmissionAssumption
  <2>2. Spent(q, w, PastQuota) = 0 /\ counts[<<q, w>>][1] = 0
    BY <1>6, <1>7
  <2> QED
    BY <2>1, <2>2
<1> QED
  BY <1>4, <1>5, <1>8, <1>9 DEF QuotaInv

LEMMA TickKeeps ==
    ASSUME QuotaInv, Tick \/ UNCHANGED vars
    PROVE  QuotaInv' /\ (Paid => Paid')
<1>1. UNCHANGED <<call, st, window, readAt, counts>>
  BY DEF Tick, vars
<1>2. QuotaType' /\ Clocked'
  <2>1. /\ now \in 0 .. Horizon /\ Horizon \in Nat /\ MaxDelay \in Nat
        /\ readAt \in [Requests -> Nat] /\ \A o \in Requests : readAt[o] <= now
    BY AdmissionAssumption DEF QuotaInv, QuotaType
  <2>2. /\ now' \in 0 .. Horizon /\ now <= now'
        /\ \A o \in Requests : st[o] = "charging" => now' <= readAt[o] + MaxDelay
    <3>1. CASE Tick
      BY <2>1, <3>1 DEF Tick
    <3>2. CASE UNCHANGED vars
      BY <2>1, <3>2 DEF vars, QuotaInv, Clocked
    <3> QED
      BY <3>1, <3>2
  <2>3. \A o \in Requests : readAt[o] <= now'
    BY <2>1, <2>2
  <2>4. \A o : P(o)' = P(o)
    BY <1>1 DEF P
  <2> QED
    BY <1>1, <2>2, <2>3, <2>4 DEF QuotaInv, QuotaType, Clocked
<1>3. \A q \in Quotas : \A w : /\ Spent(q, w, PastQuota)' = Spent(q, w, PastQuota)
                               /\ Spent(q, w, Settled)' = Spent(q, w, Settled)
  <2>1. \A states : \A o \in Requests : ActiveQuotas(o) # {} =>
          /\ st'[o] \in states <=> st[o] \in states
          /\ st[o] \in states => window'[o] = window[o]
    BY <1>1
  <2> QED
    BY <1>1, <2>1, ShareStays
<1>4. Stamped' /\ Asked' /\ Refused' /\ (Paid => Paid')
  BY <1>1, <1>3, TallyStays DEF QuotaInv
<1> QED
  BY <1>2, <1>4 DEF QuotaInv

LEMMA StepQuota == QuotaInv /\ [Next]_vars => QuotaInv' /\ (Buffered /\ Paid => Paid')
<1> SUFFICES ASSUME QuotaInv, [Next]_vars PROVE QuotaInv' /\ (Buffered /\ Paid => Paid')
  OBVIOUS
<1>1. CASE Tick \/ UNCHANGED vars
  BY <1>1, TickKeeps
<1>2. ASSUME NEW r \in Requests,
             \/ BadStreamId(r) \/ AuthRaises(r) \/ Deny(r) \/ Begin(r) \/ Scrape(r)
             \/ ReadBody(r) \/ BadBody(r) \/ Act(r)
      PROVE  QuotaInv' /\ (Paid => Paid')
  <2>1. QuotaType /\ Clocked
    BY DEF QuotaInv
  <2>2. (Asks(r) \/ Passes(r)) /\ UNCHANGED <<now, call, counts>>
    BY <1>2, <2>1, QuietParts
  <2>3. /\ QuotaType' /\ Clocked'
        /\ \A o \in Requests : st'[o] = "over-quota" => st[o] = "over-quota" /\ window'[o] = window[o]
    BY <2>1, <2>2, QuietType
  <2>4. call' = call /\ counts' = counts
    BY <2>2
  <2>5. \A q \in Quotas : \A w : /\ Spent(q, w, PastQuota)' = Spent(q, w, PastQuota)
                                 /\ Spent(q, w, Settled)' = Spent(q, w, Settled)
    BY <2>1, <2>2, <2>4, SpentStays
  <2>6. Stamped' /\ Asked' /\ Refused' /\ (Paid => Paid')
    BY <2>3, <2>4, <2>5, TallyStays DEF QuotaInv
  <2> QED
    BY <2>3, <2>6 DEF QuotaInv
<1>3. ASSUME NEW r \in Requests, Charge(r) \/ ChargeFails(r)
      PROVE  QuotaInv' /\ (Buffered /\ Paid => Paid')
  BY <1>3, ChargeKeeps, ChargePays
<1> QED
  BY <1>1, <1>2, <1>3 DEF Next

LEMMA QuotaInvHolds == Spec => []QuotaInv
<1>1. Init => QuotaInv
  BY InitQuota
<1>2. QuotaInv /\ [Next]_vars => QuotaInv'
  BY StepQuota
<1> QED
  BY <1>1, <1>2, PTL DEF Spec

\* No tenant's window admits more than its limits, on however many processes and
\* whatever their clocks, as long as the buffer of the EXPIRE covers the difference of
\* the clocks and the time a call takes (RedisTenantQuotaLimiter.check_many).
THEOREM QuotasHold == ASSUME Buffered PROVE Spec => []QuotaHolds
<1>1. QuotaInv /\ Paid /\ [Next]_vars => (QuotaInv /\ Paid)'
  BY StepQuota
<1>2. QuotaInv /\ Paid => QuotaHolds
  <2> SUFFICES ASSUME QuotaInv, Paid, NEW q \in Quotas, NEW w \in Windows, Limit[q] > 0
               PROVE  Total(q, In(w, PastQuota)) <= Limit[q]
    BY DEF QuotaHolds
  <2> QED
    BY TotalSpent DEF Paid
<1> QED
  BY <1>1, <1>2, InitQuota, PTL DEF Spec

\* Nobody is refused by a quota that the tenant's own requests did not exceed: what
\* another check stopped, or another window, is not charged.
THEOREM RejectionsJustified == Spec => []RejectionHasCause
<1>1. QuotaInv => RejectionHasCause
  <2> SUFFICES ASSUME QuotaInv, NEW r \in Requests, st[r] = "over-quota"
               PROVE  \E q \in ActiveQuotas(r) :
                        Total(q, In(window[r], PastQuota \cup {"over-quota", "error"})) > Limit[q]
    BY DEF RejectionHasCause
  <2>1. window[r] \in Windows
    BY DEF QuotaInv, QuotaType
  <2>2. PICK q \in Quotas : q \in ActiveQuotas(r) /\ Spent(q, window[r], Settled) > Limit[q]
    BY <2>1 DEF QuotaInv, Refused
  <2>3. Total(q, In(window[r], Settled)) > Limit[q]
    BY <2>2, TotalSpent
  <2> QED
    BY <2>2, <2>3 DEF Settled
<1> QED
  BY <1>1, QuotaInvHolds, PTL

-----------------------------------------------------------------------------
(* The metrics *)

\* The statuses and causes a handler may end with: the refusals have a cause of their
\* own kind, the other answers none.
Matched(status, cause) ==
    \/ status \in {200, 400, 408, 500} /\ cause = None
    \/ status \in {401, 403} /\ cause = "auth"
    \/ status \in {413, 429} /\ cause \in Causes \ {"auth"}

MetricsInv ==
    /\ metrics \in [Processes -> [requests : [Statuses -> Nat], causes : [Causes -> Nat]]]
    /\ RefusalsCounted

Tallied(m) ==
    /\ m.requests[401] + m.requests[403] = m.causes["auth"]
    /\ m.requests[413] + m.requests[429] =
         m.causes["auth-failure"] + m.causes["stream"] + m.causes["write"] + m.causes["payload"]
           + m.causes["policy"] + m.causes["quota"] + m.causes["connection"]

LEMMA EndsTallies ==
    ASSUME MetricsInv, NEW r, P(r) \in Processes, NEW outcome, NEW status, NEW cause,
           Matched(status, cause), Ends(r, outcome, status, cause)
    PROVE  MetricsInv'
<1> DEFINE Tally == [requests : [Statuses -> Nat], causes : [Causes -> Nat]]
<1>1. PICK m \in Tally : m = metrics[P(r)]
  BY DEF MetricsInv
<1>2. PICK p \in Processes : p = P(r)
  OBVIOUS
<1>3. Tallied(m)
  BY <1>1 DEF MetricsInv, RefusalsCounted, Tallied
<1> DEFINE n == [requests |-> [m.requests EXCEPT ![status] = @ + 1],
                 causes |-> IF cause = None THEN m.causes ELSE [m.causes EXCEPT ![cause] = @ + 1]]
<1>4. status \in Statuses /\ (cause = None \/ cause \in Causes)
  BY DEF Matched, Statuses, Causes
<1>5. n \in Tally /\ Tallied(n)
  <2>1. CASE status \in {200, 400, 408, 500} /\ cause = None
    BY <1>3, <2>1 DEF Tallied, Statuses
  <2>2. CASE status \in {401, 403} /\ cause = "auth"
    BY <1>3, <2>2, CauseAssumption DEF Tallied, Statuses, Causes, LocalKinds
  <2>3. CASE status \in {413, 429} /\ cause \in Causes \ {"auth"}
    BY <1>3, <2>3, CauseAssumption DEF Tallied, Statuses, Causes, LocalKinds
  <2> QED
    BY <2>1, <2>2, <2>3 DEF Matched
<1>6. metrics' \in [Processes -> Tally] /\ \A o \in Processes : Tallied(metrics'[o])
  <2>1. metrics \in [Processes -> Tally]
    BY DEF MetricsInv
  <2>2. PICK a : a = [metrics EXCEPT ![p].requests[status] = @ + 1]
    OBVIOUS
  <2>3. metrics' = IF cause = None THEN a ELSE [a EXCEPT ![p].causes[cause] = @ + 1]
    BY <1>2, <2>2 DEF Ends
  <2>4. PICK b \in Tally : b = [requests |-> [m.requests EXCEPT ![status] = @ + 1],
                               causes |-> m.causes]
    <3>1. [m.requests EXCEPT ![status] = @ + 1] \in [Statuses -> Nat]
      BY <1>4
    <3> QED
      BY <3>1
  <2>5. a \in [Processes -> Tally] /\ a[p] = b /\ \A o \in Processes \ {p} : a[o] = metrics[o]
    BY <1>1, <1>2, <1>4, <2>1, <2>2, <2>4
  <2>6. /\ metrics' \in [Processes -> Tally] /\ metrics'[p] = n
        /\ \A o \in Processes \ {p} : metrics'[o] = a[o]
    <3>1. CASE cause = None
      BY <2>3, <2>4, <2>5, <3>1
    <3>2. CASE cause # None
      <4>1. metrics' = [a EXCEPT ![p].causes[cause] = @ + 1]
        BY <2>3, <3>2
      <4>2. n = [b EXCEPT !.causes = [m.causes EXCEPT ![cause] = m.causes[cause] + 1]]
        BY <2>4, <3>2
      <4>3. b.causes = m.causes
        BY <2>4
      <4> QED
        BY <1>4, <1>5, <2>5, <3>2, <4>1, <4>2, <4>3
    <3> QED
      BY <3>1, <3>2
  <2>7. \A o \in Processes : Tallied(metrics[o])
    BY DEF MetricsInv, RefusalsCounted, Tallied
  <2> HIDE DEF n, Tally
  <2> QED
    BY <1>5, <2>5, <2>6, <2>7
<1> QED
  BY <1>6 DEF MetricsInv, RefusalsCounted, Tallied, Tally

\* A verdict is a grant, one of the two denials, or an exception.
LEMMA VerdictStatus ==
    \A c : c \in Calls => VerdictOn(c).status \in {200, 401, 403, 500}
<1>1. \A a, token, clock : Match(a, token, clock).status \in {200, 401, 500}
  <2> TAKE a, token, clock
  <2>1. \/ \E x : Match(a, token, clock) = Granted(x)
        \/ \E status \in {401, 500} : Match(a, token, clock) = Denied(status)
    <3>1. CASE token.form # "ticket"
      <4> DEFINE met == SelectSeq(a.entries, LAMBDA e : Raises(e, token) \/ e.token = token.value)
      <4>1. Match(a, token, clock) =
              CASE met = <<>> -> Denied(401)
                [] met # <<>> /\ Raises(Head(met), token) -> Denied(500)
                [] OTHER -> Granted(Head(met).principal)
        BY <3>1 DEF Match
      <4> HIDE DEF met
      <4> QED
        BY <4>1
    <3>2. CASE token.form = "ticket"
      BY <3>2 DEF Match
    <3> QED
      BY <3>1, <3>2
  <2> QED
    BY <2>1 DEF Granted, Denied
<1>2. \A a, token, scope, clock : AuthorizeGlobal(a, token, scope, clock).status \in {200, 401, 403, 500}
  <2> TAKE a, token, scope, clock
  <2>1. \/ AuthorizeGlobal(a, token, scope, clock) = Match(a, token, clock)
        \/ AuthorizeGlobal(a, token, scope, clock) = Denied(401)
        \/ AuthorizeGlobal(a, token, scope, clock) = Denied(403)
    BY DEF AuthorizeGlobal
  <2> QED
    BY <1>1, <2>1 DEF Denied
<1>3. \A a, token, scope, stream, clock :
        Authorize(a, token, scope, stream, clock).status \in {200, 401, 403, 500}
  <2> TAKE a, token, scope, stream, clock
  <2>1. \/ Authorize(a, token, scope, stream, clock) = AuthorizeGlobal(a, token, scope, clock)
        \/ Authorize(a, token, scope, stream, clock) = Denied(403)
    BY Zenon DEF Authorize
  <2> QED
    BY <1>2, <2>1 DEF Denied
<1>4. Granted(None).status = 200
  BY DEF Granted
<1>5. /\ \A a, token, scope, stream, clock :
           AuthorizeRequest(a, token, scope, stream, clock).status \in {200, 401, 403, 500}
      /\ \A a, token, scope, clock :
           AuthorizeGlobalRequest(a, token, scope, clock).status \in {200, 401, 403, 500}
  BY <1>2, <1>3, <1>4 DEF AuthorizeRequest, AuthorizeGlobalRequest
<1> TAKE c
<1>6. c \in Calls => c.kind \in Reads \cup Pushes \cup {"delete", "metrics"}
  BY DEF Calls, Writes
<1> QED
  BY <1>5, <1>6 DEF VerdictOn

\* Every step answers at most once, and with a status that its cause goes with.
Answers(r) ==
    \/ UNCHANGED metrics
    \/ \E outcome, status, cause : Matched(status, cause) /\ Ends(r, outcome, status, cause)

LEMMA StartAnswers ==
    ASSUME call \in [Requests -> Calls], NEW r \in Requests,
           BadStreamId(r) \/ AuthRaises(r) \/ Deny(r) \/ Begin(r) \/ Scrape(r)
    PROVE  Answers(r)
<1>1. CASE BadStreamId(r) \/ AuthRaises(r)
  BY <1>1 DEF BadStreamId, AuthRaises, Answers, Matched
<1>2. CASE Deny(r)
  <2>1. Verdict(r).status \in {401, 403}
    BY <1>2 DEF Deny
  <2>2. Ends(r, "rate-limited", 429, "auth-failure") \/ Ends(r, "denied", Verdict(r).status, "auth")
    BY <1>2, ZenonT(40) DEF Deny
  <2>3. Matched(429, "auth-failure") /\ Matched(Verdict(r).status, "auth")
    BY <2>1 DEF Matched, Causes, LocalKinds
  <2> QED
    BY <2>2, <2>3 DEF Answers
<1>3. CASE Begin(r)
  <2>1. \/ UNCHANGED metrics
        \/ Ends(r, "rate-limited", 429, "write") \/ Ends(r, "rate-limited", 429, "stream")
    BY <1>3, ZenonT(40) DEF Begin, ToQuota, Continues
  <2>2. Matched(429, "write") /\ Matched(429, "stream")
    BY DEF Matched, Causes, LocalKinds
  <2> QED
    BY <2>1, <2>2 DEF Answers
<1>4. CASE Scrape(r)
  BY <1>4 DEF Scrape, Answers, Matched
<1> QED
  BY <1>1, <1>2, <1>3, <1>4

LEMMA LaterAnswers ==
    ASSUME NEW r \in Requests,
           ReadBody(r) \/ BadBody(r) \/ Charge(r) \/ ChargeFails(r) \/ Act(r)
    PROVE  Answers(r)
<1>1. CASE ReadBody(r)
  <2>1. PolicyStatus(r) \in {200, 429, 413}
    BY DEF PolicyStatus
  <2>2. \/ UNCHANGED metrics
        \/ PolicyStatus(r) # 200 /\ Ends(r, "over-payload", PolicyStatus(r), "policy")
    BY <1>1, ZenonT(40) DEF ReadBody, ToQuota, Continues
  <2>3. PolicyStatus(r) # 200 => Matched(PolicyStatus(r), "policy")
    BY <2>1 DEF Matched, Causes, LocalKinds
  <2> QED
    BY <2>2, <2>3 DEF Answers
<1>2. CASE BadBody(r)
  <2>1. PICK status \in {400, 408, 413, 500} :
          Ends(r, "bad", status, IF status = 413 THEN "payload" ELSE None)
    BY <1>2, ZenonT(40) DEF BadBody
  <2>2. Matched(status, IF status = 413 THEN "payload" ELSE None)
    BY DEF Matched, Causes, LocalKinds
  <2> QED
    BY <2>1, <2>2 DEF Answers
<1>3. CASE Charge(r)
  <2>1. UNCHANGED metrics \/ Ends(r, "over-quota", 429, "quota")
    BY <1>3, ZenonT(40) DEF Charge, Continues
  <2>2. Matched(429, "quota")
    BY DEF Matched, Causes, LocalKinds
  <2> QED
    BY <2>1, <2>2 DEF Answers
<1>4. CASE ChargeFails(r)
  <2>1. Ends(r, "error", 500, None) /\ Matched(500, None)
    BY <1>4 DEF ChargeFails, Matched
  <2> QED
    BY <2>1 DEF Answers
<1>5. CASE Act(r)
  <2>1. \/ Ends(r, "done", 200, None) \/ Ends(r, "failed", 500, None)
        \/ Ends(r, "bad-args", 400, None)
        \/ \E cause \in {"quota", "connection"} : Ends(r, "no-room", 429, cause)
    BY <1>5, ZenonT(40) DEF Act
  <2>2. /\ Matched(200, None) /\ Matched(500, None) /\ Matched(400, None)
        /\ \A cause \in {"quota", "connection"} : Matched(429, cause)
    BY DEF Matched, Causes, LocalKinds
  <2> QED
    BY <2>1, <2>2 DEF Answers
<1> QED
  BY <1>1, <1>2, <1>3, <1>4, <1>5

LEMMA InitMetrics == Init => MetricsInv
<1> SUFFICES ASSUME Init PROVE MetricsInv
  OBVIOUS
<1>1. metrics = [p \in Processes |-> [requests |-> [s \in Statuses |-> 0],
                                     causes |-> [c \in Causes |-> 0]]]
  BY DEF Init
<1>2. {401, 403, 413, 429} \subseteq Statuses
  BY DEF Statuses
<1>3. {"auth", "auth-failure", "stream", "write", "payload", "policy", "quota", "connection"}
        \subseteq Causes
  BY DEF Causes, LocalKinds
<1> QED
  BY <1>1, <1>2, <1>3 DEF MetricsInv, RefusalsCounted

LEMMA StepMetrics == call \in [Requests -> Calls] /\ MetricsInv /\ [Next]_vars => MetricsInv'
<1> SUFFICES ASSUME call \in [Requests -> Calls], MetricsInv, [Next]_vars PROVE MetricsInv'
  OBVIOUS
<1>1. CASE UNCHANGED metrics
  BY <1>1 DEF MetricsInv, RefusalsCounted
<1>2. ASSUME NEW r \in Requests, Answers(r) PROVE MetricsInv'
  <2>1. P(r) \in Processes
    BY DEF P, Calls
  <2> QED
    BY <1>1, <1>2, <2>1, EndsTallies DEF Answers
<1>3. CASE Tick \/ UNCHANGED vars
  BY <1>1, <1>3 DEF Tick, vars
<1>4. ASSUME NEW r \in Requests,
             BadStreamId(r) \/ AuthRaises(r) \/ Deny(r) \/ Begin(r) \/ Scrape(r)
      PROVE  MetricsInv'
  BY <1>2, <1>4, StartAnswers
<1>5. ASSUME NEW r \in Requests,
             ReadBody(r) \/ BadBody(r) \/ Charge(r) \/ ChargeFails(r) \/ Act(r)
      PROVE  MetricsInv'
  BY <1>2, <1>5, LaterAnswers
<1> QED
  BY <1>3, <1>4, <1>5 DEF Next

-----------------------------------------------------------------------------
(* Types *)

\* What was counted was counted in a window that had begun.
Entered == \A r \in Requests : began[r] >= -1 /\ \A k \in LocalKinds : counted[r][k] >= -1

LEMMA CountEnters ==
    ASSUME LimiterInv, Entered, NEW r \in Requests, began' = [began EXCEPT ![r] = now],
           NEW ks, NEW key \in [LocalKinds -> KeySet], Count(r, ks, key)
    PROVE  Entered'
<1> DEFINE own == rates[P(r)]
           By == {k \in ks : LocalMax(k) > 0 /\ ~TurnsAway(k, own[k][key[k]])}
           Start(k) == Current(own[k][key[k]])[1]
<1>1. /\ LimiterType /\ P(r) \in Processes /\ now \in Nat
  BY KeyType, "stream" \in LocalKinds DEF LimiterInv, LimiterType, LocalKinds
<1>2. counted' = [counted EXCEPT ![r] = [k \in LocalKinds |-> IF k \in By THEN Start(k) ELSE -1]]
  BY DEF Count
<1>3. ASSUME NEW k \in LocalKinds PROVE Start(k) >= -1
  <2>1. PICK q \in KeySet : q = key[k]
    OBVIOUS
  <2>2. LimiterOK(P(r), k, q)
    BY <1>1 DEF LimiterInv
  <2>3. PICK w : w = rates[P(r)][k][q]
    OBVIOUS
  <2>4. \/ Current(w) = <<now, 0>>
        \/ Current(w) = w /\ w[1] >= 0
    BY <1>1, <2>2, <2>3, CurrentWindow
  <2>5. w \in Int \X Int
    BY <1>1, <2>3 DEF LimiterType
  <2>6. Current(w)[1] >= -1
    BY <1>1, <2>4, <2>5
  <2> QED
    BY <2>1, <2>3, <2>6
<1> HIDE DEF By, Start
<1> QED
  BY <1>1, <1>2, <1>3 DEF Entered, LimiterType

LEMMA StepEntered == LimiterInv /\ Entered /\ [Next]_vars => Entered'
<1> SUFFICES ASSUME LimiterInv, Entered, [Next]_vars PROVE Entered'
  OBVIOUS
<1>1. LimiterType
  BY DEF LimiterInv
<1>2. CASE UNCHANGED <<began, counted>>
  BY <1>2 DEF Entered
<1>3. CASE Tick \/ UNCHANGED vars
  BY <1>2, <1>3 DEF Tick, vars
<1>4. ASSUME NEW r \in Requests, BadStreamId(r) \/ AuthRaises(r) \/ Scrape(r) PROVE Entered'
  <2>1. began' = [began EXCEPT ![r] = now] /\ UNCHANGED counted
    BY <1>4 DEF BadStreamId, AuthRaises, Scrape, Starts
  <2> QED
    BY <1>1, <2>1 DEF Entered, LimiterType
<1>5. ASSUME NEW r \in Requests, Deny(r) PROVE Entered'
  <2>1. PICK key : key = [k \in LocalKinds |-> Key(r, k)]
    OBVIOUS
  <2>2. Count(r, {"auth-failure"}, key) /\ began' = [began EXCEPT ![r] = now]
    BY <1>5, <2>1 DEF Deny, Starts
  <2>3. key \in [LocalKinds -> KeySet]
    BY <1>1, <2>1, KeyType
  <2> QED
    BY <2>2, <2>3, CountEnters
<1>6. ASSUME NEW r \in Requests, Begin(r) PROVE Entered'
  <2>1. PICK key : key = [k \in LocalKinds |-> Key(r, k)']
    OBVIOUS
  <2>2. /\ began' = [began EXCEPT ![r] = now] /\ UNCHANGED call
        /\ \E ks : Count(r, ks, key)
    BY <1>6, <2>1 DEF Begin, Starts
  <2>3. LimiterType'
    BY <1>6, BeginLimiters DEF LimiterInv
  <2>4. key \in [LocalKinds -> KeySet]
    <3>1. call'[r].client \in Clients /\ principal'[r] \in Principals \cup {None}
      BY <2>3 DEF LimiterType, Calls
    <3>2. \A k \in LocalKinds : Key(r, k)' \in KeySet
      BY <3>1 DEF Key, KeySet
    <3> QED
      BY <2>1, <3>2
  <2> QED
    BY <2>2, <2>4, CountEnters
<1>7. ASSUME NEW r \in Requests,
             ReadBody(r) \/ BadBody(r) \/ Charge(r) \/ ChargeFails(r) \/ Act(r)
      PROVE  Entered'
  BY <1>2, <1>7 DEF ReadBody, BadBody, Charge, ChargeFails, Act
<1> QED
  BY <1>3, <1>4, <1>5, <1>6, <1>7 DEF Next

AdmissionInv == LimiterInv /\ QuotaInv /\ MetricsInv /\ Entered

LEMMA InvTypes == AdmissionInv => TypeOK
<1> SUFFICES ASSUME AdmissionInv PROVE TypeOK
  OBVIOUS
<1>1. LimiterType /\ QuotaType /\ MetricsInv /\ Entered
  BY DEF AdmissionInv, LimiterInv, QuotaInv
<1>2. ASSUME NEW p \in Processes, NEW k \in LocalKinds, NEW key \in KeySet
      PROVE  rates[p][k][key][1] <= now /\ rates[p][k][key][2] \in 0 .. LocalMax(k)
  BY DEF AdmissionInv, LimiterInv, LimiterOK, HeldOK
<1>3. counted \in [Requests -> [LocalKinds -> -1 .. now]]
  <2>1. ASSUME NEW r \in Requests, NEW k \in LocalKinds
        PROVE  counted[r][k] \in -1 .. now
    <3>1. CASE counted[r][k] >= 0
      <4>1. PICK p \in Processes, key \in KeySet : p = P(r) /\ key = Key(r, k)
        BY <1>1, KeyType
      <4>2. Member(r, p, k, key) /\ BucketsOK(p, k, key)
        BY <3>1, <4>1 DEF Member, AdmissionInv, LimiterInv, LimiterOK
      <4>3. counted[r][k] <= began[r] /\ began[r] <= now
        BY <1>1, <4>2 DEF BucketsOK, LimiterType
      <4> QED
        BY <1>1, <3>1, <4>3 DEF LimiterType
    <3>2. CASE counted[r][k] < 0
      BY <1>1, <3>2 DEF LimiterType, Entered
    <3> QED
      BY <1>1, <3>1, <3>2 DEF LimiterType
  <2> QED
    BY <1>1, <2>1 DEF LimiterType
<1>4. began \in [Requests -> -1 .. now] /\ readAt \in [Requests -> 0 .. now]
  BY <1>1 DEF LimiterType, QuotaType, Entered
<1> QED
  BY <1>1, <1>2, <1>3, <1>4 DEF TypeOK, LimiterType, QuotaType, MetricsInv, KeySet

LEMMA AdmissionInvHolds == Spec => []AdmissionInv
<1>1. Init => AdmissionInv
  <2>1. Init => Entered
    BY DEF Init, Entered
  <2> QED
    BY <2>1, InitLimiters, InitQuota, InitMetrics DEF AdmissionInv
<1>2. AdmissionInv /\ [Next]_vars => AdmissionInv'
  BY StepLimiters, StepQuota, StepMetrics, StepEntered DEF AdmissionInv, LimiterInv, LimiterType
<1> QED
  BY <1>1, <1>2, PTL DEF Spec

\* The variables of the admission keep their types, for all constants.
THEOREM TypeCorrect == Spec => []TypeOK
BY AdmissionInvHolds, InvTypes, PTL

\* The refusals the handlers record are the refusals the middleware counts
\* (metrics.py), on every process and at every moment.
THEOREM RefusalsMatch == Spec => []RefusalsCounted
<1>1. AdmissionInv => RefusalsCounted
  BY DEF AdmissionInv, MetricsInv
<1> QED
  BY <1>1, AdmissionInvHolds, PTL
=============================================================================
