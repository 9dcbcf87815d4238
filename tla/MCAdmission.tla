----------------------------- MODULE MCAdmission -----------------------------
(***************************************************************************)
(* Two processes whose clocks differ, the principals ann and bob behind    *)
(* one address, a tenant "t" with a policy and a tenant "u" without.       *)
(***************************************************************************)
EXTENDS Admission

CONSTANTS r1, r2, r3, r4, p1, p2

MCRequests == {r1, r2, r3, r4}
MCSkew == [p \in {p1, p2} |-> IF p = p1 THEN 0 ELSE 1]
MCLimit == <<2, 1, 2>>

Principal(name, scopes, prefixes) ==
    [name |-> name, scopes |-> scopes, prefixes |-> prefixes, stream_ids |-> {}]
All == {"streams:read", "streams:write", "streams:delete", "metrics:read"}

MCEnvironment ==
    [entries |-> <<[token |-> "b", plain |-> FALSE,
                    principal |-> Principal("bob", {"streams:read", "streams:write"}, {{"t:1"}})],
                   [token |-> "a", plain |-> TRUE, principal |-> Principal("ann", All, {})]>>,
     active |-> None, previous |-> {}, leeway |-> 0, required |-> TRUE]

Static(value) == [form |-> "static", value |-> value]
Call(kind, process, token, stream, events) ==
    [kind |-> kind, process |-> process, client |-> "ip", token |-> token,
     stream |-> stream, events |-> events]

\* The tenant's writes on both processes, more than its quotas admit.
Quota == [r \in MCRequests |->
    CASE r = r1 -> Call("push", p1, Static("a"), "t:1", <<1>>)
      [] r = r2 -> Call("delete", p1, Static("a"), "t:1", <<>>)
      [] r = r3 -> Call("push", p1, Static("a"), None, <<1>>)
      [] r = r4 -> Call("push_many", p2, Static("b"), "t:1", <<1, 1>>)]

\* One principal's requests on one process, of which its limits admit two; metrics
\* is no business of theirs.
Rates == [r \in MCRequests |->
    CASE r = r1 -> Call("push", p1, Static("a"), "u:1", <<1>>)
      [] r = r2 -> Call("delete", p1, Static("a"), "u:1", <<>>)
      [] r = r3 -> Call("info", p1, Static("a"), "u:1", <<>>)
      [] r = r4 -> Call("metrics", p1, Static("a"), None, <<>>)]

\* One principal reads more often than the limit admits: two requests late in one
\* window and two early in the next fall in one stretch.
Bursts == [r \in MCRequests |->
    IF r = r4 THEN Call("poll", p1, Static("a"), "t:1", <<>>)
              ELSE Call("info", p1, Static("a"), "u:1", <<>>)]

\* A client without a token, with one that is not ASCII, with one for other streams,
\* and with a good one.
Failures == [r \in MCRequests |->
    CASE r = r1 -> Call("poll", p1, None, "u:1", <<>>)
      [] r = r2 -> Call("metrics", p1, [form |-> "foreign", value |-> "x"], None, <<>>)
      [] r = r3 -> Call("poll", p1, Static("b"), "u:1", <<>>)
      [] r = r4 -> Call("poll", p1, Static("a"), "u:1", <<>>)]

\* A batch and an event the policy refuses, next to a push that is in order and a
\* listener.
Refused == [r \in MCRequests |->
    CASE r = r1 -> Call("sse", p1, Static("b"), "t:1", <<>>)
      [] r = r2 -> Call("push_many", p2, Static("b"), "t:1", <<1, 1, 1>>)
      [] r = r3 -> Call("push", p2, Static("b"), "t:1", <<3>>)
      [] r = r4 -> Call("push", p2, Static("a"), "t:1", <<2>>)]

MCWorkloads == {Quota, Rates, Bursts, Failures, Refused}
=============================================================================
