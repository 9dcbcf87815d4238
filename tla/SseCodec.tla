------------------------------ MODULE SseCodec ------------------------------
(***************************************************************************)
(* The text of an SSE response: what _sse_message and the keep-alives put  *)
(* on the wire (api.py), how httpx cuts it into lines, and what _SSEParser *)
(* makes of the lines (client.py).  SseDelivery takes a message for one    *)
(* unit; here a response may be cut between any two of its lines.          *)
(*                                                                         *)
(* orjson leaves U+0085, U+2028 and U+2029 in a string as they are, and    *)
(* httpx ends a line at each of them, as str.splitlines does: the JSON of  *)
(* a payload in Broken arrives as two lines, and only the first of them    *)
(* starts with "data:".                                                    *)
(***************************************************************************)
EXTENDS Integers, Sequences

CONSTANTS
    Messages,  \* what the server has for the listener; Messages[i].id = i
    Broken,    \* the payloads with a line separator in one of their strings
    Fragment,  \* a piece of text that is not JSON
    None

VARIABLES
    at,       \* the message on the wire that is being read
    fed,      \* how many of its lines the parser was fed
    parser,   \* _event_type, _event_id and _data_lines
    cursor,   \* current_last_id
    yielded,  \* the events the listener was handed
    status

vars == <<at, fed, parser, cursor, yielded, status>>

Line(field, value) == [field |-> field, value |-> value]
Blank == Line("", None)
Comment == Line(":", None)

\* _sse_message, cut into lines.
Body(m) ==
    IF m.data \in Broken
    THEN <<Line("id", m.id), Line("data", Fragment), Line("text", Fragment), Blank>>
    ELSE <<Line("id", m.id), Line("data", m.data), Blank>>

Lines(m) ==
    IF m.type = "message" THEN Body(m) ELSE <<Line("event", m.type)>> \o Body(m)

-----------------------------------------------------------------------------
(* _SSEParser *)

Fresh == [type |-> "message", id |-> None, data |-> <<>>]

\* orjson.loads of the joined data lines, Fragment if that raises.
Loads(lines) == IF Len(lines) = 1 THEN lines[1] ELSE Fragment

Dispatched(p) ==
    IF p.data = <<>> \/ p.id = None THEN None
    ELSE [type |-> p.type, id |-> p.id, data |-> Loads(p.data)]

\* feed_line: the parser it leaves and the event it returns.
FeedLine(p, line) ==
    IF line.field = "" THEN [parser |-> Fresh, event |-> Dispatched(p)]
    ELSE [event |-> None,
          parser |-> CASE line.field = "id" -> [p EXCEPT !.id = line.value]
                       [] line.field = "event" -> [p EXCEPT !.type = line.value]
                       [] line.field = "data" -> [p EXCEPT !.data = Append(@, line.value)]
                       [] OTHER -> p]

-----------------------------------------------------------------------------
(* _sse_events *)

Init ==
    /\ at = 1 /\ fed = 0
    /\ parser = Fresh
    /\ cursor = 0
    /\ yielded = <<>>
    /\ status = "reading"

\* A JSONDecodeError is no RequestError: it leaves the loop of retries.
Dispatch(event) ==
    IF event = None THEN UNCHANGED <<cursor, yielded, status>>
    ELSE IF event.data = Fragment THEN status' = "raised" /\ UNCHANGED <<cursor, yielded>>
    ELSE IF event.type = "gap" THEN status' = "trimmed" /\ UNCHANGED <<cursor, yielded>>
    ELSE /\ cursor' = event.id
         /\ yielded' = Append(yielded, [id |-> event.id, data |-> event.data])
         /\ UNCHANGED status

\* The next line of the response.
Feed ==
    /\ status = "reading" /\ at <= Len(Messages)
    /\ LET lines == Lines(Messages[at])
           result == FeedLine(parser, lines[fed + 1])
           whole == fed + 1 = Len(lines)
       IN  /\ parser' = result.parser
           /\ Dispatch(result.event)
           /\ at' = IF whole THEN at + 1 ELSE at
           /\ fed' = IF whole THEN 0 ELSE fed + 1

\* ": keep-alive", which the server writes between two messages.
KeepAlive ==
    /\ status = "reading" /\ fed = 0
    /\ LET result == FeedLine(FeedLine(parser, Comment).parser, Blank)
       IN  parser' = result.parser /\ Dispatch(result.event)
    /\ UNCHANGED <<at, fed>>

\* The response ends, in the middle of a message or not: the next one starts after
\* the cursor, with a parser of its own.
Cut ==
    /\ status = "reading"
    /\ at' = cursor + 1 /\ fed' = 0
    /\ parser' = Fresh
    /\ UNCHANGED <<cursor, yielded, status>>

Next == Feed \/ KeepAlive \/ Cut

Spec == Init /\ [][Next]_vars

-----------------------------------------------------------------------------
(* Properties *)

\* What a listener is handed are the messages as the server has them, in order, once
\* each: a message that was cut off half way is read again whole.
Delivered ==
    /\ cursor = Len(yielded)
    /\ \A i \in DOMAIN yielded : yielded[i] = [id |-> i, data |-> Messages[i].data]

\* No payload the server accepts ends the listener with a parse error. (Restarted
\* from its cursor it would meet the same message again.)
EveryPayloadReadable == status # "raised"
=============================================================================
