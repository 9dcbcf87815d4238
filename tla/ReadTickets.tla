----------------------------- MODULE ReadTickets -----------------------------
(***************************************************************************)
(* Customers read job streams with the tickets the gateway signs, while    *)
(* time passes, processes restart and an operator rotates the secret: the  *)
(* gateway (Gateway), the processes of tonle that check the tickets with   *)
(* what they read from their environment when they started (Auth), and the *)
(* SSE responses they serve.                                               *)
(*                                                                         *)
(* A ticket is checked when a response opens and not again (api.py:813).   *)
(* Clocks differ: that of process p is ahead of the gateway's by Skew[p],  *)
(* which may be negative.  The documents have the gateway sign with the    *)
(* new secret first and the processes told of it next ("minting first":    *)
(* README.md:224-227, RUNBOOKS.md:222); an operator may as well tell the   *)
(* processes first ("verifiers first").  An emergency rotation             *)
(* (RUNBOOKS.md:225) waits for nothing.                                    *)
(***************************************************************************)
EXTENDS Gateway, FiniteSets

CONSTANTS
    Processes,
    Old, New,     \* the two secrets
    None,
    Entries,      \* TONLE_AUTH_TOKENS
    Customers,
    JobsOf,       \* JobsOf[c]: the jobs of the tenant of customer c
    Lifetime,     \* GATEWAY_TICKET_TTL_SECONDS
    Leeway,       \* TONLE_READ_TICKET_LEEWAY_SECONDS
    Skew,
    Plans,        \* the rotations there are
    MaxTickets,   \* bound: tickets issued
    Horizon       \* bound: the last instant

INSTANCE Auth

\* What the gateway can sign, and what a process can have in its cache.
Tickets == [form : {"ticket"}, secret : {Old, New}, scope : {ReadScope},
            stream_id : Jobs, exp : Nat, sub : Customers]
Authenticators == [entries : {Entries}, secrets : SUBSET {Old, New}, leeway : {Leeway}]

ASSUME TicketAssumption ==
    /\ Old # New /\ None \notin {Old, New} \cup Customers
    /\ None \notin Tickets /\ None \notin Authenticators
    /\ JobsOf \in [Customers -> SUBSET Jobs]
    /\ Lifetime \in Nat /\ Leeway \in Nat
    /\ Skew \in [Processes -> -Leeway .. Leeway]
    /\ MaxTickets \in Nat /\ Horizon \in Nat

ASSUME PlanAssumption ==
    Plans \subseteq {"minting first", "verifiers first", "emergency"}

VARIABLES
    now,      \* the gateway's clock
    plan,     \* the rotation under way
    signing,  \* <<secret, since>>: what the gateway signs with
    auth,     \* auth[p]: the authenticator p cached
    tickets,  \* the tickets issued
    reads,    \* the open responses: where, and with which ticket
    refused   \* history: tickets refused while they had time left

ticketVars == <<now, plan, signing, auth, tickets, reads, refused>>
vars == <<gatewayVars, ticketVars>>

Env(active, previous) ==
    [entries |-> Entries, active |-> active, previous |-> previous, leeway |-> Leeway,
     required |-> TRUE]

Init ==
    /\ GatewayInit
    /\ now = 0
    /\ plan \in Plans
    /\ signing = <<Old, 0>>
    /\ auth = [p \in Processes |-> GetAuthenticator(Env(Old, {}))]
    /\ tickets = {}
    /\ reads = {}
    /\ refused = {}

-----------------------------------------------------------------------------
(* Customers *)

\* issue_stream_ticket: the job is of the customer's tenant and has a snapshot.
IssueTicket(c, j) ==
    LET t == CreateReadTicket(signing[1], j, now + Lifetime, c)
    IN  /\ j \in JobsOf[c] \cap Known
        /\ Cardinality(tickets) < MaxTickets
        /\ tickets' = tickets \cup {t}
        /\ UNCHANGED <<gatewayVars, now, plan, signing, auth, reads, refused>>

\* The start of sse at process p, for any stream: the response opens, or 401 or 403.
OpenRead(p, t, j) ==
    LET verdict == AuthorizeRequest(auth[p], t, ReadScope, j, now + Skew[p])
    IN  /\ IF verdict.status = 200
           THEN /\ reads' = reads \cup {[process |-> p, ticket |-> t]}
                /\ UNCHANGED refused
           ELSE /\ refused' = IF j = t.stream_id /\ now <= t.exp
                              THEN refused \cup {t} ELSE refused
                /\ UNCHANGED reads
        /\ UNCHANGED <<gatewayVars, now, plan, signing, auth, tickets>>

\* A response ends, for whatever reason; its ticket's expiry is none.
EndRead(r) ==
    /\ reads' = reads \ {r}
    /\ UNCHANGED <<gatewayVars, now, plan, signing, auth, tickets, refused>>

-----------------------------------------------------------------------------
(* The operator *)

\* A process starts again with another environment: its responses are gone.
Deploy(p, env) ==
    /\ Startable(env)
    /\ auth' = [auth EXCEPT ![p] = GetAuthenticator(env)]
    /\ reads' = {r \in reads : r.process # p}
    /\ UNCHANGED <<gatewayVars, now, plan, signing, tickets, refused>>

\* The new secret is active, the old one still accepted.
DeployBoth(p) ==
    /\ plan = "minting first" => signing[1] = New
    /\ plan = "verifiers first" => signing[1] = Old
    /\ Deploy(p, Env(New, {Old}))

\* The gateway, restarted, signs with the new secret.
SignWithNew ==
    /\ signing[1] = Old
    /\ plan = "verifiers first" => \A p \in Processes : auth[p].secrets = {Old, New}
    /\ signing' = <<New, now>>
    /\ Restart
    /\ UNCHANGED <<now, plan, auth, tickets, reads, refused>>

\* The old secret is removed; if that was planned, once no ticket it signed is valid.
Retire(p) ==
    /\ signing[1] = New
    /\ plan # "emergency" => now > signing[2] + Lifetime + Leeway
    /\ Deploy(p, Env(New, {}))

Tick ==
    /\ now < Horizon
    /\ now' = now + 1
    /\ UNCHANGED <<gatewayVars, plan, signing, auth, tickets, reads, refused>>

Next ==
    \/ Tick \/ SignWithNew
    \/ \E p \in Processes : DeployBoth(p) \/ Retire(p)
    \/ \E c \in Customers, j \in Jobs : IssueTicket(c, j)
    \/ \E p \in Processes, t \in tickets, j \in Jobs : OpenRead(p, t, j)
    \/ \E r \in reads : EndRead(r)
    \/ GatewayNext /\ UNCHANGED ticketVars

Spec == Init /\ [][Next]_vars

-----------------------------------------------------------------------------
(* Properties *)

TypeOK ==
    /\ GatewayTypeOK
    /\ now \in 0 .. Horizon
    /\ plan \in Plans
    /\ signing \in {Old, New} \X (0 .. now)
    /\ auth \in [Processes -> Authenticators]
    /\ tickets \subseteq Tickets /\ Cardinality(tickets) <= MaxTickets
    /\ \A t \in tickets : t.exp <= now + Lifetime
    /\ \A r \in reads : r.process \in Processes /\ r.ticket \in tickets
    /\ refused \subseteq tickets

\* In a planned rotation no process, whatever step of it it has reached and whatever
\* its clock says within the leeway, refuses a ticket of the old secret for its own
\* stream before the time the gateway gave it is over. Neither does it refuse one of
\* the new secret, provided the processes are told of that before the gateway uses it.
PlannedRotationKeepsTickets ==
    /\ plan = "verifiers first" => refused = {}
    /\ plan = "minting first" => \A t \in refused : t.secret = New

\* README.md:224-227 and RUNBOOKS.md:222-232 take it that a planned rotation breaks
\* no valid client, in the order they give.
NoValidTicketRefused == plan # "emergency" => refused = {}

\* RUNBOOKS.md:208: in every rotation, as soon as a process is deployed without the
\* old secret nobody reads from it with a ticket the old secret signed, neither
\* through a response that was open nor through one opened since.
RetiredSecretReadsNothing ==
    \A r \in reads : r.ticket.secret \in auth[r.process].secrets
=============================================================================
