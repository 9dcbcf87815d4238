------------------------------ MODULE Admission -----------------------------
(***************************************************************************)
(* How a request on a stream is admitted: the first half of the handlers   *)
(* of api.py, from the authorization (Auth) over the rate limits each      *)
(* process keeps (FixedWindowRateLimiter) and the checks of the body to    *)
(* the windows of a tenant's quota that all processes share in Redis       *)
(* (RedisTenantQuotaLimiter, quotas.py), and what the metrics of a process *)
(* say of it (metrics.py).                                                 *)
(*                                                                         *)
(* A call is [kind, process, client, token, stream, events]: the handler,  *)
(* the process it runs in, its _client_identity, its bearer token and, for *)
(* a push, the encoded sizes of its events.  One tenant, with the streams  *)
(* Regulated, has a quota policy.  A handler computes the number of the    *)
(* quota window from its own clock and only then awaits the script that    *)
(* charges it, so the script may run when the window is over.              *)
(***************************************************************************)
EXTENDS Integers, Sequences, FiniteSets, FiniteSetsExt

CONSTANTS
    Requests,
    Workloads,    \* the calls the requests may be: a set of functions on Requests
    Processes, Clients, Principals,
    Streams,      \* the well-formed stream ids
    Environment,  \* what get_authenticator reads
    None,
    MaxEventBytes,\* MAX_EVENT_BYTES
    MaxBatch,     \* _MAX_BATCH_EVENTS
    MaxRequests,  \* max_events of request_rate_limiter; 0 disables it
    MaxWrites,    \* max_events of write_rate_limiter; 0 disables it
    MaxFailures,  \* max_events of auth_failure_rate_limiter; 0 disables it
    RateWindow,   \* RATE_LIMIT_WINDOW_SECONDS
    Regulated,    \* the streams of the tenant with a policy
    Limit,        \* Limit[q]: its limit for quota q; 0 disables it
    PolicyBatch,  \* its max_batch_events; 0 disables it
    PolicyBytes,  \* its max_event_bytes; 0 disables it
    Window,       \* its window_seconds
    TtlBuffer,    \* _TTL_BUFFER_SECONDS
    Skew,         \* Skew[p]: how far the clock of p is ahead of Redis'
    MaxDelay,     \* bound: time from reading the clock to running the script
    Horizon       \* bound: the last instant

INSTANCE Auth

\* Quotas in the order check_many passes them.
Quotas == 1 .. 3
RequestQuota == 1
WriteQuota == 2
ByteQuota == 3

Reads == {"poll", "sse", "info"}
Pushes == {"push", "push_many"}
Writes == Pushes \cup {"delete"}

Calls == [kind : Reads \cup Writes \cup {"metrics"}, process : Processes, client : Clients,
          token : {None} \cup [form : {"static", "foreign"}, value : STRING],
          stream : Streams \cup {None}, events : Seq(Nat)]

\* The scope the handler asks for; metrics asks for no stream.
VerdictOn(c) ==
    LET a == GetAuthenticator(Environment)
    IN  CASE c.kind \in Reads -> AuthorizeRequest(a, c.token, ReadScope, c.stream, 0)
          [] c.kind \in Pushes -> AuthorizeRequest(a, c.token, "streams:write", c.stream, 0)
          [] c.kind = "delete" -> AuthorizeRequest(a, c.token, "streams:delete", c.stream, 0)
          [] c.kind = "metrics" -> AuthorizeGlobalRequest(a, c.token, "metrics:read", 0)

ASSUME AdmissionAssumption ==
    /\ IsFiniteSet(Requests) /\ IsFiniteSet(Processes)
    /\ None \notin Streams
    /\ \A w \in Workloads : /\ w \in [Requests -> Calls]
                          /\ \A r \in Requests : w[r].kind = "metrics" => w[r].stream = None
    /\ \A w \in Workloads : \A r \in Requests :
         LET verdict == VerdictOn(w[r])
         IN  verdict.status = 200 /\ verdict.principal # None
               => verdict.principal.name \in Principals
    /\ None \notin Principals
    /\ Startable(Environment)
    /\ MaxEventBytes \in Nat /\ MaxBatch \in Nat
    /\ MaxRequests \in Nat /\ MaxWrites \in Nat /\ MaxFailures \in Nat
    /\ RateWindow \in Nat \ {0} /\ Window \in Nat \ {0}
    /\ Regulated \subseteq Streams
    /\ Limit \in [Quotas -> Nat] /\ PolicyBatch \in Nat /\ PolicyBytes \in Nat
    /\ TtlBuffer \in Nat
    /\ Skew \in [Processes -> Nat]
    /\ MaxDelay \in Nat /\ Horizon \in Nat

VARIABLES
    now,      \* the time by Redis' clock
    call,     \* the workload
    st,       \* where the handler of r is, or how it ended
    principal,\* request.state.principal by name; None before, or without authenticator
    rates,    \* rates[p][kind][key]: the window <<start, count>> of a local limiter
    began,    \* history: when the handler of r started, or -1
    counted,  \* history: counted[r][kind]: the start of the window that counted r, or -1
    window,   \* window[r]: the quota window r read off its clock
    readAt,   \* readAt[r]: when it did; 0 once the script was called
    counts,   \* counts[<<q, w>>]: <<value, expiry>> of the Redis key of window w
    metrics   \* metrics[p]: requests by status (the middleware) and refusals by cause

vars == <<now, call, st, principal, rates, began, counted, window, readAt, counts, metrics>>

P(r) == call[r].process
Clock(r) == now + Skew[P(r)]
Windows == 0 .. (Horizon + Max({Skew[p] : p \in Processes})) \div Window

\* No entry in _windows: a window that started too long ago to matter.
NoWindow == <<-RateWindow - 1, 0>>
Absent == <<0, 0>>
LocalKinds == {"auth-failure", "stream", "write"}
Statuses == {200, 400, 401, 403, 408, 413, 429, 500}
Causes == LocalKinds \cup {"auth", "payload", "quota", "policy", "connection"}
\* A refusal without a cause is none of the refusals with one.
ASSUME CauseAssumption == None \notin Causes

Running == {"new", "body", "charging", "acting"}
Outcomes == {"denied", "rate-limited", "bad", "over-payload", "over-quota", "error",
             "bad-args", "no-room", "failed", "done"}

Init ==
    /\ now = 0
    /\ call \in Workloads
    /\ st = [r \in Requests |-> "new"]
    /\ principal = [r \in Requests |-> None]
    /\ rates = [p \in Processes |-> [k \in LocalKinds |->
                  [key \in Clients \cup Principals |-> NoWindow]]]
    /\ began = [r \in Requests |-> -1]
    /\ counted = [r \in Requests |-> [k \in LocalKinds |-> -1]]
    /\ window = [r \in Requests |-> 0]
    /\ readAt = [r \in Requests |-> 0]
    /\ counts = [k \in Quotas \X Windows |-> Absent]
    /\ metrics = [p \in Processes |-> [requests |-> [s \in Statuses |-> 0],
                                       causes |-> [c \in Causes |-> 0]]]

\* The handler of r ends: it records why it refused, if it did (cause None if not),
\* and the middleware the status.
Ends(r, outcome, status, cause) ==
    /\ st' = [st EXCEPT ![r] = outcome]
    /\ LET answered == [metrics EXCEPT ![P(r)].requests[status] = @ + 1]
       IN  metrics' = IF cause = None THEN answered
                      ELSE [answered EXCEPT ![P(r)].causes[cause] = @ + 1]

Continues(r, place) ==
    /\ st' = [st EXCEPT ![r] = place]
    /\ UNCHANGED metrics

-----------------------------------------------------------------------------
(* FixedWindowRateLimiter.check *)

LocalMax(k) ==
    CASE k = "auth-failure" -> MaxFailures
      [] k = "stream" -> MaxRequests
      [] k = "write" -> MaxWrites

\* Variants, with bugs: a window is forgotten an instant early, or late.
CurrentForgets(w) == IF now - w[1] >= RateWindow - 1 THEN <<now, 0>> ELSE w
CurrentKeeps(w) == IF now - w[1] > RateWindow THEN <<now, 0>> ELSE w

\* _prune: a window that lasted RateWindow is forgotten; the next one starts now.
Current(w) == IF now - w[1] >= RateWindow THEN <<now, 0>> ELSE w

\* Variant, with a bug: one request too many.
TurnsAwayOffByOne(k, w) == LocalMax(k) > 0 /\ Current(w)[2] > LocalMax(k)

TurnsAway(k, w) == LocalMax(k) > 0 /\ Current(w)[2] >= LocalMax(k)

\* The limiters ks of r's process, in their windows of the keys key[k], count r; one
\* that turns it away does not.
Count(r, ks, key) ==
    LET own == rates[P(r)]
        By == {k \in ks : LocalMax(k) > 0 /\ ~TurnsAway(k, own[k][key[k]])}
        Start(k) == Current(own[k][key[k]])[1]
        Number(k) == Current(own[k][key[k]])[2] + 1
    IN  /\ rates' = [rates EXCEPT ![P(r)] = [k \in LocalKinds |->
             IF k \in By THEN [own[k] EXCEPT ![key[k]] = <<Start(k), Number(k)>>] ELSE own[k]]]
        /\ counted' = [counted EXCEPT ![r] = [k \in LocalKinds |->
             IF k \in By THEN Start(k) ELSE -1]]

-----------------------------------------------------------------------------
(* The synchronous start of a handler *)

Verdict(r) == VerdictOn(call[r])

\* _principal_identity; _client_identity for failed authentications.
Key(r, k) ==
    IF k = "auth-failure" \/ principal[r] = None THEN call[r].client ELSE principal[r]

Amount(r, q) ==
    LET c == call[r]
    IN  CASE q = RequestQuota -> 1
          [] q = WriteQuota -> IF c.kind \in Writes THEN 1 ELSE 0
          [] q = ByteQuota -> IF c.kind \in Pushes
                              THEN MapThenSumSet(LAMBDA i : c.events[i], DOMAIN c.events)
                              ELSE 0

ActiveQuotas(r) ==
    {q \in Quotas : call[r].stream \in Regulated /\ Limit[q] > 0 /\ Amount(r, q) > 0}

\* Up to the await of the script: without an active quota there is none.
ToQuota(r) ==
    IF ActiveQuotas(r) = {}
    THEN Continues(r, "acting") /\ UNCHANGED <<window, readAt>>
    ELSE /\ Continues(r, "charging")
         /\ window' = [window EXCEPT ![r] = Clock(r) \div Window]
         /\ readAt' = [readAt EXCEPT ![r] = now]

Starts(r) ==
    /\ st[r] = "new"
    /\ began' = [began EXCEPT ![r] = now]
    /\ UNCHANGED <<now, call, counts>>

\* _read_stream_id: 400 before anything else is asked.
Addressed(r) == call[r].stream # None \/ call[r].kind = "metrics"

BadStreamId(r) ==
    /\ Starts(r) /\ ~Addressed(r)
    /\ Ends(r, "bad", 400, None)
    /\ UNCHANGED <<principal, rates, counted, window, readAt>>

\* The authorization raises something else than AuthError.
AuthRaises(r) ==
    /\ Starts(r) /\ Addressed(r) /\ Verdict(r).status = 500
    /\ Ends(r, "bad", 500, None)
    /\ UNCHANGED <<principal, rates, counted, window, readAt>>

\* The verdict is 200: the handler remembers whose request it is.
Authorized(r) ==
    LET verdict == Verdict(r)
    IN  /\ verdict.status = 200
        /\ principal' = [principal EXCEPT ![r] =
             IF verdict.principal = None THEN None ELSE verdict.principal.name]

\* Variant, with a bug: a denial the limiter turns away is recorded as a denial.
DenyRecorded(r) ==
    LET key == [k \in LocalKinds |-> Key(r, k)]
    IN  /\ Starts(r) /\ Addressed(r) /\ Verdict(r).status \in {401, 403}
        /\ Count(r, {"auth-failure"}, key)
        /\ IF TurnsAway("auth-failure", rates[P(r)]["auth-failure"][call[r].client])
           THEN Ends(r, "rate-limited", 429, "auth")
           ELSE Ends(r, "denied", Verdict(r).status, "auth")
        /\ UNCHANGED <<principal, window, readAt>>

\* AuthError: 401 or 403, or 429 to a client with too many of them.
Deny(r) ==
    LET key == [k \in LocalKinds |-> Key(r, k)]
    IN  /\ Starts(r) /\ Addressed(r) /\ Verdict(r).status \in {401, 403}
        /\ Count(r, {"auth-failure"}, key)
        /\ IF TurnsAway("auth-failure", rates[P(r)]["auth-failure"][call[r].client])
           THEN Ends(r, "rate-limited", 429, "auth-failure")
           ELSE Ends(r, "denied", Verdict(r).status, "auth")
        /\ UNCHANGED <<principal, window, readAt>>

\* A request the write limit turns away has been counted by the request limit, and
\* one of either limit is recorded under the name of its handler.
Begin(r) ==
    LET key == [k \in LocalKinds |-> Key(r, k)']
        Turned(k) == TurnsAway(k, rates[P(r)][k][key[k]])
        writes == call[r].kind \in Writes
    IN  /\ Starts(r) /\ Addressed(r) /\ call[r].kind # "metrics" /\ Authorized(r)
        /\ Count(r, {"stream"} \cup (IF writes /\ ~Turned("stream") THEN {"write"} ELSE {}), key)
        /\ IF Turned("stream") \/ (writes /\ Turned("write"))
           THEN /\ Ends(r, "rate-limited", 429, IF writes THEN "write" ELSE "stream")
                /\ UNCHANGED <<window, readAt>>
           ELSE IF call[r].kind \in Pushes
           THEN Continues(r, "body") /\ UNCHANGED <<window, readAt>>
           ELSE ToQuota(r)

\* metrics, which no limiter and no quota counts, unless it is denied.
Scrape(r) ==
    /\ Starts(r) /\ call[r].kind = "metrics" /\ Authorized(r)
    /\ Ends(r, "done", 200, None)
    /\ UNCHANGED <<rates, counted, window, readAt>>

-----------------------------------------------------------------------------
(* The body *)

Acceptable(events) ==
    /\ Len(events) \in 1 .. MaxBatch
    /\ \A i \in DOMAIN events : events[i] <= MaxEventBytes

\* _check_tenant_payload_quotas: 429 for the batch, 413 for an event, 200 if neither.
PolicyStatus(r) ==
    LET events == call[r].events
    IN  CASE call[r].stream \notin Regulated -> 200
          [] PolicyBatch > 0 /\ Len(events) > PolicyBatch -> 429
          [] PolicyBytes > 0 /\ \E i \in DOMAIN events : events[i] > PolicyBytes -> 413
          [] OTHER -> 200

\* The body is read (its await) and the events in it are in order.
ReadBody(r) ==
    /\ st[r] = "body" /\ Acceptable(call[r].events)
    /\ IF PolicyStatus(r) = 200
       THEN ToQuota(r)
       ELSE /\ Ends(r, "over-payload", PolicyStatus(r), "policy")
            /\ UNCHANGED <<window, readAt>>
    /\ UNCHANGED <<now, call, principal, rates, began, counted, counts>>

\* It is not JSON or not what it should be, times out, or is too large, or the
\* client goes away, which the handler does not catch.
BadBody(r) ==
    /\ st[r] = "body"
    /\ \E status \in {400, 408, 413, 500} :
         Ends(r, "bad", status, IF status = 413 THEN "payload" ELSE None)
    /\ UNCHANGED <<now, call, principal, rates, began, counted, window, readAt, counts>>

-----------------------------------------------------------------------------
(* RedisTenantQuotaLimiter *)

\* The value a key has after INCRBY: a key that expired starts from nothing.
\* (OverAtLimit is a variant, with a bug: the limit itself is too much.)
Stored(key) == IF now < key[2] THEN key[1] ELSE 0
Incremented(r, q) == Stored(counts[<<q, window[r]>>]) + Amount(r, q)
OverAtLimit(r, q) == q \in ActiveQuotas(r) /\ Incremented(r, q) >= Limit[q]
Over(r, q) == q \in ActiveQuotas(r) /\ Incremented(r, q) > Limit[q]

\* The quotas the script charges: all up to the first that is exceeded.
Charged(r) == {q \in ActiveQuotas(r) : \A o \in 1 .. q - 1 : ~Over(r, o)}

\* Variant, with a bug: the key expires with its window.
ChargeScriptNoBuffer(r) ==
    counts' = [k \in Quotas \X Windows |->
                 IF k[1] \in Charged(r) /\ k[2] = window[r]
                 THEN <<Incremented(r, k[1]),
                        IF Stored(counts[k]) = 0 THEN now + Window ELSE counts[k][2]>>
                 ELSE counts[k]]

\* _INCR_MANY_WITH_EXPIRE_SCRIPT; EXPIRE is set by the first INCRBY of a key.
ChargeScript(r) ==
    counts' = [k \in Quotas \X Windows |->
                 IF k[1] \in Charged(r) /\ k[2] = window[r]
                 THEN <<Incremented(r, k[1]),
                        IF Stored(counts[k]) = 0 THEN now + Window + TtlBuffer
                        ELSE counts[k][2]>>
                 ELSE counts[k]]

Charge(r) ==
    /\ st[r] = "charging"
    /\ ChargeScript(r)
    /\ readAt' = [readAt EXCEPT ![r] = 0]
    /\ IF \E q \in Quotas : Over(r, q)
       THEN Ends(r, "over-quota", 429, "quota")
       ELSE Continues(r, "acting")
    /\ UNCHANGED <<now, call, principal, rates, began, counted, window>>

\* The call fails, before or after the script ran.
ChargeFails(r) ==
    /\ st[r] = "charging"
    /\ ChargeScript(r) \/ UNCHANGED counts
    /\ readAt' = [readAt EXCEPT ![r] = 0]
    /\ Ends(r, "error", 500, None)
    /\ UNCHANGED <<now, call, principal, rates, began, counted, window>>

\* What the request is for: the store (RedisStream), or an open connection
\* (ConnectionLeases). poll and sse look at their arguments only now.
Act(r) ==
    LET connects == call[r].kind \in {"poll", "sse"}
    IN  /\ st[r] = "acting"
        /\ \/ Ends(r, "done", 200, None)
           \/ Ends(r, "failed", 500, None)
           \/ connects /\ Ends(r, "bad-args", 400, None)
           \/ connects /\ \E cause \in {"quota", "connection"} : Ends(r, "no-room", 429, cause)
        /\ UNCHANGED <<now, call, principal, rates, began, counted, window, readAt, counts>>

-----------------------------------------------------------------------------
\* Time passes; a call to Redis takes at most MaxDelay.
Tick ==
    /\ now < Horizon
    /\ \A r \in Requests : st[r] = "charging" => now - readAt[r] < MaxDelay
    /\ now' = now + 1
    /\ UNCHANGED <<call, st, principal, rates, began, counted, window, readAt, counts, metrics>>

Next ==
    \/ Tick
    \/ \E r \in Requests :
         \/ BadStreamId(r) \/ AuthRaises(r) \/ Deny(r) \/ Begin(r) \/ Scrape(r)
         \/ ReadBody(r) \/ BadBody(r) \/ Charge(r) \/ ChargeFails(r) \/ Act(r)

Spec == Init /\ [][Next]_vars

-----------------------------------------------------------------------------
(* Properties *)

TypeOK ==
    /\ now \in 0 .. Horizon
    /\ call \in Workloads
    /\ st \in [Requests -> Running \cup Outcomes]
    /\ principal \in [Requests -> Principals \cup {None}]
    /\ \A p \in Processes : \A k \in LocalKinds : \A key \in Clients \cup Principals :
         LET w == rates[p][k][key] IN w[1] <= now /\ w[2] \in 0 .. LocalMax(k)
    /\ began \in [Requests -> -1 .. now]
    /\ counted \in [Requests -> [LocalKinds -> -1 .. now]]
    /\ window \in [Requests -> Windows]
    /\ readAt \in [Requests -> 0 .. now]
    /\ counts \in [Quotas \X Windows -> Nat \X Nat]
    /\ metrics \in [Processes -> [requests : [Statuses -> Nat], causes : [Causes -> Nat]]]

In(w, states) == {r \in Requests : st[r] \in states /\ window[r] = w}
Total(q, rs) ==
    MapThenSumSet(LAMBDA r : Amount(r, q), {r \in rs : q \in ActiveQuotas(r)})
PastQuota == {"acting", "bad-args", "no-room", "failed", "done"}

\* Over all processes, whatever their clocks and however late a script runs, the
\* requests that pass the quota in a window stay within the tenant's limits: a key
\* outlives every request that may still charge it.
QuotaHolds ==
    \A q \in Quotas, w \in Windows : Limit[q] > 0 => Total(q, In(w, PastQuota)) <= Limit[q]

\* A tenant is turned away only when its own requests of that window, with those
\* that were turned away or failed, exceed a limit: what the authorization, the
\* rate limits or the checks of the body stopped is not charged.
RejectionHasCause ==
    \A r \in Requests :
      st[r] = "over-quota" =>
        \E q \in ActiveQuotas(r) :
          Total(q, In(window[r], PastQuota \cup {"over-quota", "error"})) > Limit[q]

Rivals(r, k) ==
    {o \in Requests : counted[o][k] >= 0 /\ P(o) = P(r) /\ Key(o, k) = Key(r, k)}

\* A key gets past one limiter of one process at most 2 * max - 1 times in any
\* stretch of RateWindow: a window starts with the first request after the last
\* one was over, so that one request of the older window is outside the stretch.
RateBound ==
    \A r \in Requests : \A k \in LocalKinds :
      counted[r][k] >= 0 =>
        Cardinality({o \in Rivals(r, k) : began[o] \in began[r] .. began[r] + RateWindow - 1})
          <= 2 * LocalMax(k) - 1

\* Nobody is turned away by a rate limit without having used it up within the last
\* RateWindow: not for what other keys did on the same process, nor for what a
\* client was denied before it had a valid token.
TurnedAwayHasCause ==
    \A r \in Requests :
      st[r] = "rate-limited" =>
        \E k \in LocalKinds :
          /\ LocalMax(k) > 0
          /\ (k = "auth-failure") <=> (Verdict(r).status # 200)
          /\ Cardinality({o \in Rivals(r, k) :
               began[o] \in began[r] - RateWindow + 1 .. began[r]}) >= LocalMax(k)

\* What the handlers record as refused is what the middleware saw refused: on each
\* process every 401 and 403 is an authentication that was denied, every 413 and 429
\* has one cause, and no cause is recorded for a request that was not refused.
RefusalsCounted ==
    \A p \in Processes :
      LET answers == metrics[p].requests
          causes == metrics[p].causes
      IN  /\ answers[401] + answers[403] = causes["auth"]
          /\ answers[413] + answers[429] =
               causes["auth-failure"] + causes["stream"] + causes["write"] + causes["payload"]
                 + causes["policy"] + causes["quota"] + causes["connection"]
=============================================================================
