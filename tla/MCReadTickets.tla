---------------------------- MODULE MCReadTickets ----------------------------
(***************************************************************************)
(* Two processes whose clocks are a second behind and ahead of the         *)
(* gateway's, a customer whose tenant has one of two jobs, one ticket,     *)
(* and two updates of that job, the second of which overwrites one field   *)
(* of the first and keeps another.                                         *)
(***************************************************************************)
EXTENDS ReadTickets

CONSTANTS p1, p2, u1, u2, j1, j2, ann, writer

MCProcesses == {p1, p2}
MCUpdates == {u1, u2}
MCJobOf == [u \in MCUpdates |-> j1]
MCSets == [u \in MCUpdates |-> IF u = u1 THEN {"status", "progress"} ELSE {"progress"}]
MCJobsOf == [c \in {ann} |-> {j1}]
MCSkew == [p \in MCProcesses |-> IF p = p1 THEN -1 ELSE 1]

\* The gateway's own static token.
MCEntries ==
    <<[token |-> writer, plain |-> TRUE,
       principal |-> [name |-> "writer", scopes |-> {"streams:write"},
                      prefixes |-> {{j1, j2}}, stream_ids |-> {}]]>>
=============================================================================
