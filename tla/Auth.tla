-------------------------------- MODULE Auth --------------------------------
(***************************************************************************)
(* Who may do what (auth.py): the Authenticator a process builds from its  *)
(* environment, static tokens with scopes and prefixes, and read tickets.  *)
(*                                                                         *)
(* A bearer token is [form |-> "static", value |-> ...] or a read ticket:  *)
(* its payload and the secret that signed it, since a signature verifies   *)
(* exactly under the secret that made it.  A header that is no bearer      *)
(* token, or too long, is a static token nobody has.  A token of the form  *)
(* "foreign" is a static one that is not ASCII.  An entry is [token,       *)
(* plain, principal]: plain when it was configured as it is, and not by    *)
(* its SHA-256.  A prefix is the set of the stream ids that start with it. *)
(* Clocks count whole seconds, as int() leaves them.                       *)
(***************************************************************************)
EXTENDS Integers, Sequences

CONSTANT None   \* no secret, no header, no principal, no authenticator

ReadScope == "streams:read"

Granted(principal) == [status |-> 200, principal |-> principal]
Denied(status) == [status |-> status, principal |-> None]

-----------------------------------------------------------------------------
(* Read tickets *)

\* Variant, with a bug: the expiry is rounded up.
CreateLasting(secret, stream, exp, sub) ==
    [form |-> "ticket", secret |-> secret, scope |-> ReadScope,
     stream_id |-> stream, exp |-> exp + 1, sub |-> sub]

\* create_read_ticket: the scope is fixed, the expiry a whole second.
CreateReadTicket(secret, stream, exp, sub) ==
    [form |-> "ticket", secret |-> secret, scope |-> ReadScope,
     stream_id |-> stream, exp |-> exp, sub |-> sub]

\* Tickets without a subject share the name, and with it rate limits and leases.
TicketPrincipal(t) ==
    [name |-> IF t.sub = None THEN "read-ticket" ELSE t.sub,
     scopes |-> {ReadScope}, prefixes |-> {}, stream_ids |-> {t.stream_id}]

Expired(t, leeway, clock) == t.exp + leeway < clock

-----------------------------------------------------------------------------
(* get_authenticator: env is what os.getenv gives when the process starts *)

\* What makes the first call, at startup, raise.
Startable(env) ==
    /\ env.active = None => env.previous = {}
    /\ env.leeway >= 0
    /\ env.required => env.entries # <<>> \/ env.active # None

\* Variant, with a bug: previous secrets are parsed and not used.
ActiveOnly(env) == IF env.active = None THEN {} ELSE {env.active}

Accepted(env) == IF env.active = None THEN {} ELSE {env.active} \cup env.previous

GetAuthenticator(env) ==
    IF env.entries = <<>> /\ Accepted(env) = {} THEN None
    ELSE [entries |-> env.entries, secrets |-> Accepted(env), leeway |-> env.leeway]

-----------------------------------------------------------------------------
(* Authenticator *)

\* Variant, with a bug: the signature is not compared.
MatchUnsigned(a, token, clock) ==
    IF token.form # "ticket" \/ token.scope # ReadScope \/ Expired(token, a.leeway, clock)
    THEN Denied(401) ELSE Granted(TicketPrincipal(token))

\* compare_digest raises TypeError when one of two strings is not ASCII, which no
\* handler catches. (So it does for the signature of a ticket; tickets are ASCII.)
Raises(e, token) == e.plain /\ token.form = "foreign"

\* _match_principal: the first entry with that token, or a ticket that one of the
\* secrets verifies. An expired one is refused without asking the other secrets.
Match(a, token, clock) ==
    IF token.form # "ticket"
    THEN LET met == SelectSeq(a.entries, LAMBDA e : Raises(e, token) \/ e.token = token.value)
         IN  CASE met = <<>> -> Denied(401)
               [] met # <<>> /\ Raises(Head(met), token) -> Denied(500)
               [] OTHER -> Granted(Head(met).principal)
    ELSE IF \/ token.secret \notin a.secrets
            \/ token.scope # ReadScope
            \/ Expired(token, a.leeway, clock)
         THEN Denied(401) ELSE Granted(TicketPrincipal(token))

AuthorizeGlobal(a, token, scope, clock) ==
    LET found == IF token = None THEN Denied(401) ELSE Match(a, token, clock)
    IN  IF found.status = 200 /\ scope \notin found.principal.scopes
        THEN Denied(403) ELSE found

\* An empty set of stream ids, or of prefixes, allows every stream.
Covers(principal, stream) ==
    /\ principal.stream_ids # {} => stream \in principal.stream_ids
    /\ principal.prefixes # {} => \E prefix \in principal.prefixes : stream \in prefix

Authorize(a, token, scope, stream, clock) ==
    LET found == AuthorizeGlobal(a, token, scope, clock)
    IN  IF found.status = 200 /\ ~Covers(found.principal, stream)
        THEN Denied(403) ELSE found

\* authorize_request: without an authenticator everybody may do everything.
AuthorizeRequest(a, token, scope, stream, clock) ==
    IF a = None THEN Granted(None) ELSE Authorize(a, token, scope, stream, clock)

AuthorizeGlobalRequest(a, token, scope, clock) ==
    IF a = None THEN Granted(None) ELSE AuthorizeGlobal(a, token, scope, clock)
=============================================================================
