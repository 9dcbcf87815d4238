------------------------------ MODULE EventFeed -----------------------------
(***************************************************************************)
(* What the service promises the readers of one stream, whatever the       *)
(* transport.  Events are numbered in the order they were published; the   *)
(* oldest ones are withdrawn as time goes by.  A listener is handed events *)
(* of increasing number and passes over an event only when that event is   *)
(* withdrawn, or hidden behind the last one the listener knows of, until   *)
(* its iteration ends with an exception.                                   *)
(***************************************************************************)
EXTENDS Integers

CONSTANT Listeners

VARIABLES
    published,  \* how many events were published
    oldest,     \* the number of the oldest event that was not withdrawn
    hidden,     \* pairs of events, the second of which is hidden behind the first
    status,     \* status[l]: "idle", "latest", "listening" or "ended"
    pos         \* pos[l]: the number of the last event l knows of

feedVars == <<published, oldest, hidden, status, pos>>

FeedInit ==
    /\ published = 0
    /\ oldest = 1
    /\ hidden = {}
    /\ status = [l \in Listeners |-> "idle"]
    /\ pos = [l \in Listeners |-> 0]

\* Events are published, withdrawn, or both.  A new one may be hidden behind events
\* that are withdrawn, none that was there before ever is.
Publish ==
    /\ published' \in Nat /\ published' >= published
    /\ oldest' \in oldest .. (published' + 1)
    /\ hidden \subseteq hidden'
    /\ \A h \in hidden' \ hidden : h[1] < oldest' /\ h[2] > published
    /\ UNCHANGED <<status, pos>>

\* The application starts to listen: after some event, or for what comes next.
Listen(l) ==
    /\ status[l] = "idle"
    /\ \E s \in {"listening", "latest"} : status' = [status EXCEPT ![l] = s]
    /\ \E i \in 0 .. published : pos' = [pos EXCEPT ![l] = i]
    /\ UNCHANGED <<published, oldest, hidden>>

\* A listener is handed event i; it has been handed every event between the
\* last one and this one, or they are withdrawn or hidden.  (A listener that wants
\* what comes next has no last one, until it asks again from the event it got.)
Deliver(l, i) ==
    /\ i > pos[l]
    /\ \/ status[l] = "latest"
       \/ /\ status[l] = "listening"
          /\ \A j \in (pos[l] + 1) .. (i - 1) : j < oldest \/ <<pos[l], j>> \in hidden
    /\ \E s \in {status[l], "listening"} : status' = [status EXCEPT ![l] = s]
    /\ pos' = [pos EXCEPT ![l] = i]
    /\ UNCHANGED <<published, oldest, hidden>>

\* The iteration ends with an exception.
End(l) ==
    /\ status[l] \in {"latest", "listening"}
    /\ status' = [status EXCEPT ![l] = "ended"]
    /\ UNCHANGED <<published, oldest, hidden, pos>>

FeedNext ==
    \/ Publish
    \/ \E l \in Listeners :
         Listen(l) \/ End(l) \/ \E i \in 1 .. published : Deliver(l, i)

FeedSpec == FeedInit /\ [][FeedNext]_feedVars
=============================================================================
