# tonle in TLA+

Tonle exposes Redis streams over HTTP: applications push JSON events to a stream, and
listeners follow it by Server-Sent Events or by long polling, resuming from the id of the last
event they saw. This directory holds TLA+ models of the parts of it that are hard to test, the
TLC configurations that check them, and proofs checked by TLAPS.

## The system

| Part | State | Operations | Talks to |
|---|---|---|---|
| Store (`tonle/store.py`) | one Redis stream per key, its trimming and expiry | `add`, `add_many`, `read`, `delete` | Redis |
| SSE endpoint (`api.py` `sse`, `event_stream`) | `current_last_id`, the batch being written, a lease and a slot | one generator per response, awaiting Redis and the network | store, leases, client |
| Long-poll endpoint (`api.py` `poll`) | a lease and a slot while it waits | one read per request | store, leases, client |
| Readers (`client.py` `Stream`, `AsyncStream`) | the cursor, the attempt counter | `events` over SSE or long poll, with retries | the two endpoints |
| Buffered writers (`client.py`) | `_buffer` | `put`, `flush`, `close` | `push_many` |
| Connection limits (`api.py` `ConnectionLimiter`) | counters in each process | `acquire`, `release` | `sse`, `poll` |
| Connection leases (`quotas.py` `RedisConnectionLeaseLimiter`) | sorted sets in Redis | `acquire`, `refresh`, `release`, each a Lua script | `sse`, `poll` of all processes |
| Rate limits (`api.py` `FixedWindowRateLimiter`) | windows in each process | `check` | every handler |
| Window quotas (`quotas.py` `RedisTenantQuotaLimiter`) | counters in Redis, one per window | `check_many` | every handler |
| Authentication (`auth.py`) | tokens and secrets, read once | `authorize`, read tickets | every handler |
| SSE text (`api.py` `_sse_message`, `client.py` `_SSEParser`) | the lines of the message being read | `feed_line` | endpoint and reader |
| Metrics (`metrics.py`, `MetricsMiddleware`) | counters of each process | `record_*` | every handler |
| Gateway example (`examples/gateway.py`) | snapshots of jobs | merge and publish, hand out tickets | writers, customers, the API |
| Health, info, lifespan, configuration | settings, the Redis client | - | - |
| Other example scripts, deployment | - | - | the client and the API |

What is hard about it: every `await` of a handler lets writers, expiry and other requests run;
the trim check and the read are two Redis commands; responses break at any point and listeners
reconnect; several processes share limits through Redis while each dies and restarts by itself;
leases and windows depend on clocks. `PROJECT.json` lists these hazards at their lines.

What makes each part correct:

- delivery: in order, no duplicate, nothing passed over that Redis still has, a gap only when
  events are gone, and whatever stays in Redis arrives;
- writers: an event that was put is never dropped silently, and enters the stream in order;
- limits: a slot is freed exactly once, a lease lives as long as its connection, and no admission
  exceeds a limit over all processes;
- admission: no window admits more than its limit, nobody is refused without a cause, and the counters say
  what was refused;
- tickets: a planned rotation refuses no valid ticket of the old secret, and none at all if the servers are told
  first; a secret that was removed reads nothing;
- the gateway: overlapping updates of a job do not undo each other.

## Modules

| Module | What it is | Code |
|---|---|---|
| `RedisStream` | the stream of one key | `store.py`, and Redis as `store.py` uses it |
| `EventFeed` | abstract: what following a stream promises | - |
| `SseDelivery` | SSE listeners, responses, `event_stream`; implements `EventFeed` | `client.py` `_sse_events`, `api.py` `sse` |
| `PollDelivery` | long-poll listeners and `poll`; implements `EventFeed` | `client.py` `_long_poll_events`, `api.py` `poll` |
| `BufferedWriter` | both buffered writers over `put_many` and `push_many` | `client.py`, `api.py` `push_many` |
| `ConnectionLeases` (`MCConnectionLeases`) | local limits and shared leases over several processes | `api.py`, `quotas.py` |
| `Auth` | tokens, scopes, prefixes and read tickets, as operators | `auth.py` |
| `Admission` (`MCAdmission`) | authorization, rate limits, body checks, window quotas and counters of all handlers; uses `Auth` | `api.py`, `quotas.py`, `metrics.py` |
| `Gateway` | snapshots and publishes | `examples/gateway.py` |
| `ReadTickets` (`MCReadTickets`) | tickets, responses and the rotation of their secret; composes `Gateway` and `Auth` | `auth.py`, `api.py`, `examples/gateway.py` |
| `SseCodec` (`MCSseCodec`) | the lines of a response and their parser | `api.py`, `client.py` |
| `RedisStreamProofs`, `SseDeliveryProofs`, `PollDeliveryProofs`, `BufferedWriterProofs`, `ConnectionLeasesProofs`, `AdmissionProofs`, `ReadTicketsProofs`, `SseCodecProofs` | lemmas and theorems | - |

Operators whose comment starts with "Variant, with a bug" (and `NewestBatch`, `OverAtLimit`) are
not used by the specifications. Each is a mutation of the definition after it, used to see that a
property notices the bug.

### The stream: `RedisStream`

An event is its place in the order of appends. `log[i]` is the id Redis gave it; `first` is the
place of the oldest entry that is left. `Add` is the MULTI/EXEC of `add` and `add_many`: `MAXLEN ~`
may trim any number of entries as long as `MaxLen` remain. `Delete` is `Store.delete`, `Expire` the
end of `STREAM_TTL`; an absent key forgets its last id, so that after `Delete` an id can be used
again. `Trimmed` is the XRANGE with its comparison, `Batch` the XREAD. `Latest` is the cursor `$`.
The cursor `+` is left out.

### SSE: `SseDelivery`

The client is in `connect` (it wants a response), `open`, or ended by an exception: `raised` (its
retries are used up), `refused` (4xx) or `trimmed` (a gap). `att` is the loop variable `attempt`:
as in the code it survives a successful connection and starts again only when a response ends
cleanly (`EndResponse`). The server is at one of its awaits: `check` (XRANGE), `read` (XREAD),
`blocked` (inside XREAD BLOCK), `emit` (between two `yield`s) or `gap`. `wire` holds what was written
and not yet read; it is lost with the response. `Write` wakes the readers blocked on the key, as
Redis does. The keep-alive comment carries no state and is left out, and so are the disconnect
checks: a response whose client is gone ends in the same step (`CloseResponse`).

`EventFeed` keeps of this only what an application sees: what was published, what is still in
Redis, the place of each listener, and which events hide others. It allows a listener to pass over an event only when that
event is gone, or hidden behind the listener's last one: after `Store.delete` Redis counts again, and an event written within the
same millisecond may get an id that is not above the cursor (`Hides`). `EventFeed` says of such pairs that the first event is
withdrawn and the second new when the pair appears. The mapping takes `pos` as the place, `first` as the oldest entry and `Hides`
as the hidden pairs. A listener that started at `$` and was handed nothing yet may be moved on, because each read resolves `$` anew.

### Long poll: `PollDelivery`

One request and one answer at a time; `Answer` hands over a batch, `Yield` gives its events to the
application and moves the cursor after the last one, and `PollFault` loses a request or an answer.

### Writers: `BufferedWriter`

`Send` is `flush` up to its call of `put_many`, `Succeed` and `Fail` the rest of it. With one task this
is `BufferedStreamWriter`; with more it is `AsyncBufferedStreamWriter`, whose `put` may run while
another task's flush is awaited. `LoseRequest` and `LoseAnswer` look the same to the client; in `Repeat` Redis' answer is lost
on its way to the server, whose Redis client may run the transaction again. `doubt` remembers what was stored without an answer.

### Limits: `ConnectionLeases`

Each of the three scripts is one atomic step on `zset`. A call reads the clock of its process, which is ahead of the slowest by `Skew`, and its
script runs up to `Delay` later: `ClockOf` is what it then takes for now, to purge others' leases and to score its own. `left` is
the score, as the time until the slowest clock reaches it. A call may fail before or after its script ran. `timer` bounds how long a handler stays where it
is: a read at most `ReadTimeout` or `PollTimeout`, a call of Redis `Delay` more, and `event_stream` at its yields at most
`Suspension`, which is up to the client: nothing in the code bounds it, and when it exceeds the room the ttl has for it (30 s by
default) the lease runs out while the response is open, another connection is admitted over the limit, and the next refresh does
not restore the lease (`RefreshScript`). `total` and `byStream` are the counters of each process; `Crash` resets them and leaves the leases. `Tick` passes a unit of
time where no timer has run down.

Streams and principals belong to no tenant in the keys of `_connection_keys`, so tenants with
different policies meet in them, and each script sets the EXPIRE of a key to its own ttl plus a buffer.

### Authentication: `Auth`

Operators, no state: an authenticator is what `get_authenticator` made of the environment, once. A read ticket is its
payload with the secret that signed it, since a signature verifies exactly under the secret that made it.
`Match` keeps the order of `_match_principal`: static tokens, then the secrets, then scope and expiry. A token
that is not ASCII makes `secrets.compare_digest` raise (`Raises`): it is answered with 500 where it reaches a comparison, and not with 401.

### Admission: `Admission`

A call is one of the seven handlers with a stream, a token and the sizes of its events. `BadStreamId`, `Deny` and `Begin` are
the synchronous start of a handler: stream id, authorization, the limiter of failed authentications (by address), the
request and the write limit (by principal); `AuthRaises` is the start that ends with the exception of `Raises`. A limiter is counted before the next one is asked, and so is in the model.
`ReadBody` and `BadBody` are the body, its limits and the payload quotas of the tenant; `ReadBody` also computes the
window from the process' clock (`Skew`), and `Charge` runs the script up to `MaxDelay` later. `Act` is the rest of the
handler as far as it is answered. `metrics` (`Scrape`) asks for a scope and for no stream, and no limiter counts it.
Every end of a handler records its status, as the middleware does after it, and its cause. The statuses 201, 204 and 409 are
a 200 here.

The HELP text of `tonle_payload_too_large_total` says "Total 413 payload rejections", but an event over the tenant's
`max_event_bytes` is a 413 that counts as a tenant quota rejection only; `RefusalsCounted` is stated over both.

### The gateway: `Gateway`

An update is known by the fields it sets and a field of a snapshot by the update that last set it. `Accept` is the part of
`publish_job_event` between its two awaits, `StoreEvent` and `Answer` the publish, `PublishFails` a publish that raises whether
it was stored or not. `Restart` forgets the snapshots. Two overlapping publishes may be stored in the other order than their
snapshots; `clean` names the jobs without them.

### Tickets: `ReadTickets`

The gateway signs tickets for the jobs of a customer's tenant; `OpenRead` checks one, for any stream, with the clock of its
process. An open response is not checked again, and outlives its ticket. The rotation has three steps: each process gets the new
secret and keeps the old one (`DeployBoth`), the gateway signs with the new one (`SignWithNew`), each process loses the old one (`Retire`).
`plan` says what an operator waits for. "minting first" is the order of tonle's `README.md:224-227` and `RUNBOOKS.md:222-224`: the gateway signs,
then the processes are told. Until one is, it refuses the new tickets (run `minting_first`). "verifiers first" is the other order, in
which `SignWithNew` waits for all processes. In both, `Retire` waits until the last ticket of the old secret is over; in
an "emergency" (`RUNBOOKS.md:225`) no step waits for another. `refused` remembers the tickets that were refused while they had time left.

### The text of a response: `SseCodec`

A message is its lines; `Feed` gives the parser one, `Cut` ends the response anywhere. httpx ends a line also at
U+0085, U+2028 and U+2029, which orjson writes as they are: the payloads in `Broken` hold one of them.

## Runs

| Run | Instance | Shows |
|---|---|---|
| `sse` | 1 listener, 3 events, writes of 1 and 2, limit 2, 1 retry, 2 faults, expiry and deletion | refinement of `EventFeed`, true gaps, losses in silence only in the two known races, delivery in the end |
| `sse_trim_race` | as `sse` without faults, `MaxLen` 1, no deletion or expiry | violated: a trim between XRANGE and XREAD is not announced |
| `sse_retry_budget` | 2 retries, 3 faults | violated: attempts spent before a connection count against the next break |
| `poll` | 1 listener, 3 events, 2 faults, expiry and deletion, clock that may stand still | the same promises over long poll |
| `writer` | 1 task, 5 events, batches of 2, server limit 3, 3 faults | nothing is lost, order, doubles only what was in doubt, close means stored |
| `async_writer` | 2 tasks, 3 events | violated: an event put during another task's flush is dropped |
| `leases` | 2 tenants on 2 processes, clocks 1 apart, calls, reads and suspensions of up to 1; two of three SSE connections (ttls 15 and 16), three long polls (7 and 8), or three connections without a lease | exact counters, leases held, limits over all processes |
| `poll_lease` | polls longer than the ttl | violated: an expired poll lease admits one too many |
| `admission` | 2 processes with clocks 1 apart, five workloads of 4 requests, horizon 2 | quotas, causes of refusals, the bound of the local windows, counters that agree with the answers |
| `read_tickets` | 2 processes a second behind and ahead of the gateway, 2 updates of a job, 1 ticket, lifetime 1, leeway 1, horizon 4, three plans | no update undone, planned rotations keep tickets, no response with a retired secret |
| `minting_first` | the same, the plan of the documents | violated: a process that is not told yet refuses a valid new ticket |
| `sse_codec` | 2 events, one with a line separator, and a gap | violated: the listener ends with a parse error |

Each violated run is a disagreement with a sentence of the documentation or a test, quoted in
`PROJECT.json` under `findings`.

Why the bounds are enough. Listeners share the stream and the bound on faults, and no step of
one changes the state of another, so one listener suffices for the properties of a listener (the proofs are
for any number). Three events,
written one or two at a time with `MaxLen` 1, give a batch of two, a trim within a batch, a trim of
everything a listener waits for, and a write after it. Two faults with one retry give a retry that
succeeds and one that ends the iteration. Redis' clock stands still in `sse`, so that after a deletion an id is used again and
hides an event (it moves on when a key expires); in `poll` it may also move on. In `leases` each scope has a limit that is
reached alone (tenant, stream and principal), and two tenants whose ttls differ by the buffer share a principal. The ttl of 15
has exactly the room for half of it, a read, a suspension, five late calls and the skew, and the 7 of the polls for a poll, three
calls and the skew: a unit less, and a lease is lost. A process has room for two connections and for one on each stream, so
two polls on one stream meet the one limit alone, and connections on three streams the other. `admission` starts with one of five workloads, one for each way to be
refused: `Quota` (a tenant spends its quota on two processes), `Rates` (a principal at its request and write limits, next to a scrape), `Failures` (denials behind one
address, and among them a good token and one that is not ASCII), `Refused` (batches and events over a policy),
`Bursts` (four requests of one principal around the end of a window, whose limit of two lets three through within a window's length: the bound is reached). A quota window of one unit, a script that may be one late and clocks one apart
charge a window after it is over; a rate window of two and the horizon of two give a request on each side of a
boundary. In `read_tickets` a lifetime and a leeway of one let a retirement come too early within four instants, under each plan; one
ticket suffices since tickets do not interact, and two updates overlap, fail and restart in every order. Five events with batches of two and a server limit of three make
a buffer that grows over the server's limit after failures. `CHECK_DEADLOCK FALSE` is
set where every behaviour ends: the bounded writes, faults and requests are used up.

Fairness, in `SseDelivery` and `PollDelivery` only: the steps of a server generator are weakly fair
(the event loop runs every coroutine that can run, and a BLOCK elapses); a client that asks gets some
answer; a client reads what arrived. Nothing is assumed of writers, faults or refusals.
`EventuallyDelivered` says that an event reaches every listener unless it is removed or the
listener's iteration ended.

`SseCodec` has a violated run only; that every other payload is read back is a theorem (`ReadBack`).

## Proofs

Every invariant and every action property the runs check is a theorem of its specification, for all values of the
constants that meet the assumption of the module (`StreamAssumption`, `SseAssumption`, `LeaseAssumption`, ...: types, and what
the parsers of the configuration enforce). Where a theorem needs more, the condition is named below. Only liveness is left to TLC.

| Module | Theorem | States | Under |
|---|---|---|---|
| `SseDeliveryProofs` | `TypeCorrect`, `GapsAreTrue` | `TypeOK`, `GapIsTrue` | - |
| | `LossesAreRaces`, `Implements` | `SilentLossNeedsARace`, `ImplementsFeed` | - |
| | `OnlyDeletionHides` | `Hides = {}` | no `"delete"` |
| `PollDeliveryProofs` | `TypeCorrect`, `GapsAreTrue`, `Implements` | `TypeOK`, `GapIsTrue`, `ImplementsFeed` | - |
| | `OnlyDeletionHides` | `Hides = {}` | no `"delete"` |
| `BufferedWriterProofs` | `TypeCorrect` | `TypeOK` | - |
| | `EventsKept`, `OrderKept`, `StoredOnce`, `ClosedComplete` | `NothingLost`, `StoredInOrder`, `OnlyDoubtfulTwice`, `ClosedMeansStored` | `Synchronous` |
| `ConnectionLeasesProofs` | `TypeCorrect`, `SlotsExact` | `TypeOK`, `LocalCountsExact` | - |
| | `LeasesHeld`, `LimitsShared` | `LeaseHeld`, `AdmittedWithinLimits` | `Timely`, `SharedKeys` |
| `AdmissionProofs` | `TypeCorrect`, `RateLimitsHold`, `RefusalsJustified` | `TypeOK`, `RateBound`, `TurnedAwayHasCause` | - |
| | `RejectionsJustified`, `RefusalsMatch` | `RejectionHasCause`, `RefusalsCounted` | - |
| | `QuotasHold` | `QuotaHolds` | `Buffered` |
| `ReadTicketsProofs` | `TypeCorrect`, `UpdatesKept`, `StreamEndsWithSnapshot` | `TypeOK`, `NoUpdateLost`, `LastEventIsSnapshot` | - |
| | `RotationKeepsTickets`, `RetiredSecretIsUseless` | `PlannedRotationKeepsTickets`, `RetiredSecretReadsNothing` | - |
| `SseCodecProofs` | `ReadBack` | `EveryPayloadReadable`, and the messages in order | `Readable` |

### The stream

`RedisStreamProofs` proves what every reader relies on, and both reader modules cite. The live ids grow (`AddKeeps`, `RemoveKeeps`),
a read after the id of an event returns later events only, even if that id was used again (`NewerThanEvent`), `$` stands for an id
nothing is newer than (`NothingAfterLatest`), and a cursor whose trim check fails belongs to an event that is gone (`TrimmedIsGone`).
A cursor that is not `$` marks a place (`Mark`): it is "0" before the first event, or the id of the event at that place. Without a
deletion the ids grow along the whole log, also over an expiry, since the clock has moved when a key expires (`KeptInv`), and an
XREAD returns an interval of what is live (`BatchHasNoHoles`).

### SSE

`TypeOK` alone is not inductive, because the type of a new log needs the order of the old one; `TypeInv` adds `Ascending`.

That nothing is handed over out of order needs `OrderInv`: what is in flight is in order and later than what was handed over (`WireOrder`); what a read may still
return, from the client's cursor, the server's cursor or the id a blocked XREAD waits on, and what was read and not yet written, is
later than all of that (`CursorOrder`); and a listener without an open response has nothing in flight (`Closed`). `CursorOrder` speaks of
cursors through `Newer`, the set of live events a cursor would be given, and not through the order of ids: after `Store.delete` ids
may repeat, and the statement still holds.

`GapsAreTrue` needs `MarkInv`, which ties the cursors to the places of events: the server's cursor is the id of the last event in flight, or the
client's (`ServerMark`), a gap is the last message of its response, and what it names stays gone (`GapMark`).

`Implements` and `LossesAreRaces` need `LinkInv`, which follows an event through the places it is in. An event that is live and
missing from a batch, below one that is in it, is not above the place of the server's cursor, or its id was used before (`BatchLinked`); so what is
written follows on what was written before, except for events that are gone or hidden so (`WireLinked`), and so does what is received. Ids never go back in time, so that an id that is used again is one of the same millisecond (`DatesInv`), and
a pair of events gets hidden only when its second one is written and its first one is gone (`HidesGrows`); without a deletion none
ever is (`OnlyDeletionHides`). The steps map to
`EventFeed` thus: a write, the expiry or the deletion is `Publish`, `Start` is `Listen`, `Receive` is `Deliver`, whatever ends an iteration is `End`, and everything
else stutters. For `LossesAreRaces`, `CheckedMark` remembers that a cursor which passed the trim check named an event that was there.

### Long poll

The same argument with fewer places: events are on their way only as the answer of a poll or in the client's hands (`HandlerOK`), and the
cursor names the last event handed over, except while a batch is being yielded (`CursorMark`). What was read, and what a blocked XREAD may
return, is later than that event (`ReadPast`), also when ids repeat. `Yield` is `Deliver`.

### Writers

`Synchronous` says that there is one task: this is `BufferedStreamWriter`, whose caller is blocked while `put_many` runs. The run `async_writer`
shows that `EventsKept` fails for two. `WriterInv` says that the buffer is the tail of what was put (`BufferIsTail`), that nothing is put while a batch is
under way (`SentIsBuffer`), and that what left the buffer is stored (`GoneAreStored`). `NothingLost` alone is not inductive: that `Succeed` may
drop what it sent needs the last two. For `StoredOnce`, `HeldIsDoubted` says that an event which is in the stream and still in the buffer is in doubt,
unless the answer that says so is on its way: a batch that was refused or never arrived left nothing in the stream to double.

### Limits

`SlotsExact`: `SlotInv`, the property with the types, is inductive. A slot is taken and freed by one element of `OpenOn` at a time, and
`Crash` empties both sides.

`LeasesHeld` and `LimitsShared` have two conditions, for any clocks and delays. `Timely`: the ttl of an SSE connection has room for half of it, a read, the suspension
at the yields, five calls of Redis, and what any clock is ahead of its process'; that of a poll for the poll, three calls and the same
(`poll_lease` shows what happens otherwise. The code enforces neither: the defaults, 30 s and polls of up to
60 s, do not meet the second, and nothing but its client ends a suspension). `SharedKeys`: the ttls of tenants that meet in a key differ by no more than the
buffer of the EXPIRE, and either all of them take leases or none. `LeaseHeld` is not inductive: `LeaseInv` adds how long a lease must last on
every clock for the position of the handler (`SseBudget`, `Budget`), that a key lives as long as the leases in it (`Stored`), and that no score
is beyond its ttl on its own process' clock.

### Admission

Rate limits. The requests a limiter counted under one key fall into buckets, one for each window it had. `LimiterInv` says that buckets lie
`RateWindow` apart, that none holds more than the limit, and that the first request of a bucket is as old as its window. A stretch of
`RateWindow` meets at most two buckets, and if two, misses the first request of the older one: `2 * max - 1`.

Quotas. Two invariants hold the value of a Redis key between two sums. `Asked`: it is at most what all requests that ran the script in its
window ask for, whether they passed, were refused or failed after it. This gives `RejectionHasCause` without any condition on clocks: an expired key only
counts less. `Paid`: it is at least what the requests that passed ask for, and that is within the limit. This is where a key that expires too
early would break the quota, and the condition `Buffered` comes in: `TtlBuffer` (`_TTL_BUFFER_SECONDS`, 5 s) covers the difference of any two
clocks and the time from reading a clock to running the script. The code does not enforce it; it holds where the clocks of the servers are synchronized
and Redis answers within seconds. `Stamped` says that a charged key lives until the buffer after the end of its window on the clock of some process, and `Clocked` that
a script never runs later than `MaxDelay` after its window was read; so no script that still charges a window finds its key expired (`StoredIsAll`).

The sums are folds over sets of requests (`MapThenSumSet`). That a sum grows by the amount of a request that joins it (`SumAdd`) is induction over a
finite set; the induction theorems of the library have an operator as parameter, so it is done with a set of subsets
(`SetInduction`), from the well-founded order of subsets, and a fold is tied to its recursion by its unique solution (`SumsUnique`, `SumsExist`).

Counters. `MetricsInv` is `RefusalsCounted` with the types. Every action ends with a pair of status and cause that goes together (`Matched`), also for
the verdicts `Auth` can give (`VerdictStatus`).

### The gateway and the tickets

`GatewayInv` is about the gateway alone; its steps are steps of `ReadTickets`, or stutter there (`GatewayInside`). `OneAtATime` strengthens
`LastEventIsSnapshot`: a clean job has at most one handler at work, and its event is the snapshot.

`TicketInv` holds for any processes whose clocks are within the leeway of the gateway's (`TicketAssumption`), and for all three plans. `Rotation` says which
secrets a process has at each step: in a planned rotation a ticket of the old secret is over before its secret is removed, and, when the
processes are told first, they know the new one as soon as the gateway signs with it.

### The text of a response

`Readable`: no payload holds a line separator. The invariant determines the parser from the message being read and the
number of its lines that were fed (`After`); every cut and keep-alive keeps it.

### Only model-checked

`EventuallyDelivered` of `SseDelivery` and `PollDelivery`: liveness under fairness is out of this prover's reach. The
violated runs are counterexamples and need no proof.

## Not modelled

- Configuration (`config.py`, the parsing of policies and of `TONLE_AUTH_TOKENS`): read once at start, no behaviour after that. The
  values are the constants of the modules, with the bounds the parsers enforce as their assumptions.
- Of the metrics: durations, the gauges of open connections (beside the limiters of `ConnectionLeases`), trim gaps, Redis errors, and
  the text of `/metrics`. A Redis error is recorded next to answers of several kinds, so it is the cause of none. The record of the middleware
  is merged with the end of its handler.
- `healthz` answers and `readyz` pings Redis: they take part in nothing.
- Starlette starts the body of a response after the slot and the lease are taken; that it always does is assumed (hazard at
  `api.py:825`). The timeout of a request's body touches no state of the system.
- The load generator and the other scripts call the client and hold no state of the system; Docker, Fly and monitoring
  files are configuration.
- Redis, its client library, httpx, orjson, HMAC, HTTP and the ASGI server are modelled as far as the code relies on them, and marked
  external.

## Plan

A listener that starts at `$`: what may be skipped before its first event, as a property of its own.
