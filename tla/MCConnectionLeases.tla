-------------------------- MODULE MCConnectionLeases -----------------------------
(***************************************************************************)
(* Two server processes, the clock of p2 a unit ahead; two tenants, whose  *)
(* ttls differ by TtlBuffer.  Which requests are made differs:             *)
(*                                                                         *)
(* Streams: two of three SSE connections.  c1 and c2 meet in a tenant's    *)
(* limit, c2 and c3 in a stream's, c1 and c3 in the set of a principal     *)
(* that has room for both, but not in a stream.                            *)
(* Polls: c4 to c6 meet in the limit of a principal; c4 and c6 follow one  *)
(* stream on a process with room for both, but not on that stream.         *)
(* Free: c7 to c9 need no lease and follow three streams on one process,   *)
(* which has room for two of them.                                         *)
(***************************************************************************)
EXTENDS ConnectionLeases

CONSTANTS c1, c2, c3, c4, c5, c6, c7, c8, c9, p1, p2

Free == {c7, c8, c9}
Polls == {c4, c5, c6}

MCWorkloads == {{c1, c2}, {c1, c3}, {c2, c3}, Polls, Free}
PollWorkloads == {Polls}

MCProcessOf == [c \in Connections |-> IF c \in {c2, c5} THEN p2 ELSE p1]
MCSkew == [p \in {p1, p2} |-> IF p = p2 THEN 1 ELSE 0]
MCKindOf == [c \in Connections |-> IF c \in Polls THEN "long-poll" ELSE "sse"]
MCStreamOf ==
    [c \in Connections |->
       CASE c = c9 -> "s3" [] c \in {c2, c3, c5, c8} -> "s2" [] OTHER -> "s1"]
TenantOf == [c \in Connections |-> IF c \in {c3, c5} THEN "u" ELSE "t"]
PrincipalOf == [c \in Connections |-> IF c = c2 THEN "bob" ELSE "ann"]

\* _connection_keys without the global key, which never has a limit.
MCKeysOf ==
    [c \in Connections |->
       IF c \in Free THEN {}
       ELSE {<<KindOf[c], "tenant", TenantOf[c]>>, <<KindOf[c], "stream", StreamOf[c]>>,
             <<KindOf[c], "principal", PrincipalOf[c]>>}]
MCKeys == UNION {MCKeysOf[c] : c \in Connections}
MCLimitOf ==
    [c \in Connections |->
       [k \in MCKeys |-> IF k[2] = "principal" THEN 2 ELSE IF c \in Polls THEN 0 ELSE 1]]

\* For tenant t, as short as LeaseHeld allows.
MCTtl ==
    [c \in Connections |->
       (IF c \in Polls THEN 7 ELSE 15) + (IF TenantOf[c] = "u" THEN TtlBuffer ELSE 0)]
=============================================================================
