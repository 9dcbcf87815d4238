-------------------------- MODULE ReadTicketsProofs --------------------------
(***************************************************************************)
(* The gateway alone, for any jobs, updates and fields: it loses no update *)
(* and, while the publishes of a job neither overlap nor fail, leaves the  *)
(* snapshot at the end of the job's stream.  Then what a rotation of the   *)
(* read-ticket secret keeps, for any processes, clocks, customers, jobs    *)
(* and lifetimes, and that the gateway inside it keeps what it keeps alone.*)
(***************************************************************************)
EXTENDS ReadTickets, FiniteSetTheorems, TLAPS

-----------------------------------------------------------------------------
(* The gateway: its invariant *)

\* In a clean job there is at most one publish under way: it carries the snapshot,
\* and once it is stored, or when there is none, the stream ends with the snapshot.
EndsWithSnapshot(j) == stream[j] # <<>> /\ stream[j][Len(stream[j])] = snapshot[j]

InOrder(j) ==
    /\ \A u, w \in Forwarding(j) : u = w
    /\ \A u \in Forwarding(j) :
         event[u] = snapshot[j] /\ (work[u] = "stored" => EndsWithSnapshot(j))
    /\ Forwarding(j) = {} /\ stream[j] # <<>> => EndsWithSnapshot(j)

OneAtATime == \A j \in clean : InOrder(j)

GatewayInv == GatewayTypeOK /\ NoUpdateLost /\ OneAtATime

-----------------------------------------------------------------------------
\* Merging keeps a snapshot a snapshot.
LEMMA MergeType ==
    ASSUME NEW s \in Snapshots, NEW u \in Updates
    PROVE  Merge(s, u) \in Snapshots
BY DEF Merge, Snapshots

LEMMA NoSnapshotType == NoSnapshot \in Snapshots
BY DEF NoSnapshot, Snapshots

\* The gateway starts with nothing.
LEMMA GatewayInvInit == GatewayInit => GatewayInv
<1> SUFFICES ASSUME GatewayInit PROVE GatewayInv
  OBVIOUS
<1>1. GatewayTypeOK
  BY NoSnapshotType DEF GatewayInit, GatewayTypeOK
<1>2. NoUpdateLost
  BY GatewayAssumption DEF GatewayInit, NoUpdateLost, NoSnapshot
<1>3. OneAtATime
  BY DEF GatewayInit, OneAtATime, InOrder, Forwarding
<1> QED BY <1>1, <1>2, <1>3 DEF GatewayInv

\* Every step preserves the types.
LEMMA TypeNext == GatewayTypeOK /\ [GatewayNext]_gatewayVars => GatewayTypeOK'
<1> SUFFICES ASSUME GatewayTypeOK, [GatewayNext]_gatewayVars PROVE GatewayTypeOK'
  OBVIOUS
<1> USE DEF GatewayTypeOK
<1>1. ASSUME NEW u \in Updates, Accept(u) PROVE GatewayTypeOK'
  <2>1. JobOf[u] \in Jobs
    BY GatewayAssumption
  <2>2. Merge(snapshot[JobOf[u]], u) \in Snapshots
    BY <2>1, MergeType
  <2>3. accepted' \in Seq(Updates)
    BY <1>1 DEF Accept
  <2> QED BY <1>1, <2>1, <2>2, <2>3 DEF Accept
<1>2. ASSUME NEW u \in Updates, StoreEvent(u) PROVE GatewayTypeOK'
  <2>1. JobOf[u] \in Jobs
    BY GatewayAssumption
  <2>2. Append(stream[JobOf[u]], event[u]) \in Seq(Snapshots)
    BY <2>1
  <2> QED BY <1>2, <2>1, <2>2 DEF StoreEvent
<1>3. ASSUME NEW u \in Updates, Answer(u) PROVE GatewayTypeOK'
  BY <1>3 DEF Answer
<1>4. ASSUME NEW u \in Updates, PublishFails(u) PROVE GatewayTypeOK'
  BY <1>4 DEF PublishFails
<1>5. CASE Restart
  BY <1>5, NoSnapshotType DEF Restart
<1>6. CASE UNCHANGED gatewayVars
  BY <1>6 DEF gatewayVars
<1> QED BY <1>1, <1>2, <1>3, <1>4, <1>5, <1>6 DEF GatewayNext

\* Every step keeps the last update of each field: only accepting one and starting
\* again touch a snapshot.
LEMMA LostNext ==
    GatewayTypeOK /\ NoUpdateLost /\ [GatewayNext]_gatewayVars => NoUpdateLost'
<1> SUFFICES ASSUME GatewayTypeOK, NoUpdateLost, [GatewayNext]_gatewayVars
             PROVE  NoUpdateLost'
  OBVIOUS
<1>1. ASSUME NEW u \in Updates, Accept(u) PROVE NoUpdateLost'
  <2> DEFINE n == Len(accepted)
             Setting(j, f) ==
               {i \in DOMAIN accepted : JobOf[accepted[i]] = j /\ f \in Sets[accepted[i]]}
             Later(j, f) ==
               {i \in DOMAIN accepted' : JobOf[accepted'[i]] = j /\ f \in Sets[accepted'[i]]}
  <2>1. /\ n \in Nat /\ DOMAIN accepted = 1 .. n /\ DOMAIN accepted' = 1 .. n + 1
        /\ accepted'[n + 1] = u
        /\ \A i \in 1 .. n : accepted'[i] = accepted[i]
    BY <1>1 DEF Accept, GatewayTypeOK
  <2>2. JobOf[u] \in Jobs
    BY GatewayAssumption
  <2>3. snapshot' = [snapshot EXCEPT ![JobOf[u]] = Merge(@, u)] /\ snapshot \in [Jobs -> Snapshots]
    BY <1>1 DEF Accept, GatewayTypeOK
  <2> SUFFICES ASSUME NEW j \in Jobs, NEW f \in Fields
               PROVE  /\ snapshot'[j][f] \in Updates <=> Later(j, f) # {}
                      /\ \A i \in Later(j, f) :
                           (\A k \in Later(j, f) : k <= i) => snapshot'[j][f] = accepted'[i]
    BY DEF NoUpdateLost
  <2>4. /\ snapshot[j][f] \in Updates <=> Setting(j, f) # {}
        /\ \A i \in Setting(j, f) :
             (\A k \in Setting(j, f) : k <= i) => snapshot[j][f] = accepted[i]
    BY DEF NoUpdateLost
  <2>5. CASE j = JobOf[u] /\ f \in Sets[u]
    <3>1. n + 1 \in Later(j, f)
      BY <2>1, <2>5
    <3>2. snapshot'[j][f] = u
      BY <2>2, <2>3, <2>5 DEF Merge
    <3>3. ASSUME NEW i \in Later(j, f), \A k \in Later(j, f) : k <= i
          PROVE  i = n + 1
      <4>1. i \in 1 .. n + 1 /\ n + 1 <= i
        BY <3>1, <3>3, <2>1
      <4> QED BY <4>1, <2>1
    <3> QED BY <3>1, <3>2, <3>3, <2>1
  <2>6. CASE ~(j = JobOf[u] /\ f \in Sets[u])
    <3>1. Later(j, f) = Setting(j, f)
      BY <2>1, <2>6
    <3>2. \/ snapshot'[j][f] = snapshot[j][f]
          \/ snapshot'[j][f] = Queued /\ snapshot[j][f] = Unset
      BY <2>2, <2>3, <2>6 DEF Merge
    <3>3. CASE snapshot'[j][f] = snapshot[j][f]
      BY <3>1, <3>3, <2>1, <2>4
    <3>4. CASE snapshot'[j][f] = Queued /\ snapshot[j][f] = Unset
      BY <3>1, <3>4, <2>4, GatewayAssumption
    <3> QED BY <3>2, <3>3, <3>4
  <2> QED BY <2>5, <2>6
<1>2. CASE Restart
  BY <1>2, GatewayAssumption DEF Restart, NoUpdateLost, NoSnapshot
<1>3. ASSUME UNCHANGED <<snapshot, accepted>> PROVE NoUpdateLost'
  BY <1>3 DEF NoUpdateLost
<1> QED BY <1>1, <1>2, <1>3
    DEF GatewayNext, StoreEvent, Answer, PublishFails, gatewayVars

\* Every step keeps a clean job in order: a second publish, a failed one and a
\* restart take its job out of clean.
LEMMA OneNext ==
    GatewayTypeOK /\ OneAtATime /\ [GatewayNext]_gatewayVars => OneAtATime'
<1> SUFFICES ASSUME GatewayTypeOK, OneAtATime, [GatewayNext]_gatewayVars,
                    NEW j \in clean'
             PROVE  InOrder(j)'
  BY DEF OneAtATime
<1>1. ASSUME j \in clean, Forwarding(j)' = Forwarding(j),
             \A u \in Forwarding(j) : event'[u] = event[u] /\ work'[u] = work[u],
             stream'[j] = stream[j], snapshot'[j] = snapshot[j]
      PROVE  InOrder(j)'
  BY <1>1 DEF OneAtATime, InOrder, EndsWithSnapshot
<1>2. ASSUME NEW u \in Updates, Accept(u) PROVE InOrder(j)'
  <2>1. CASE JobOf[u] = j
    <3>1. Forwarding(j) = {} /\ j \in Jobs
      BY <1>2, <2>1, GatewayAssumption DEF Accept
    <3>2. /\ event'[u] = snapshot'[j]
          /\ work'[u] = "publishing"
          /\ \A w \in Updates : w # u => work'[w] = work[w]
      BY <1>2, <2>1, <3>1 DEF Accept, GatewayTypeOK
    <3>3. Forwarding(j)' = {u}
      BY <2>1, <3>1, <3>2 DEF Forwarding
    <3> QED BY <3>2, <3>3 DEF InOrder
  <2>2. CASE JobOf[u] # j
    <3>1. j \in clean /\ stream' = stream /\ snapshot'[j] = snapshot[j]
      BY <1>2, <2>2 DEF Accept, GatewayTypeOK
    <3>2. \A w \in Updates : w # u => work'[w] = work[w] /\ event'[w] = event[w]
      BY <1>2 DEF Accept, GatewayTypeOK
    <3>3. Forwarding(j)' = Forwarding(j)
          /\ \A w \in Forwarding(j) : event'[w] = event[w] /\ work'[w] = work[w]
      BY <2>2, <3>2 DEF Forwarding
    <3> QED BY <1>1, <3>1, <3>3
  <2> QED BY <2>1, <2>2
<1>3. ASSUME NEW u \in Updates, StoreEvent(u) PROVE InOrder(j)'
  <2>1. j \in clean /\ j \in Jobs /\ snapshot' = snapshot /\ event' = event
    BY <1>3 DEF StoreEvent, GatewayTypeOK
  <2>2. Forwarding(j)' = Forwarding(j)
    BY <1>3 DEF StoreEvent, Forwarding, GatewayTypeOK
  <2>3. CASE JobOf[u] = j
    <3>1. u \in Forwarding(j)
      BY <1>3, <2>3 DEF StoreEvent, Forwarding
    <3>2. \A w \in Forwarding(j) : w = u
      BY <2>1, <3>1 DEF OneAtATime, InOrder
    <3>3. event[u] = snapshot[j]
      BY <2>1, <3>1 DEF OneAtATime, InOrder
    <3>4. stream'[j] = Append(stream[j], snapshot[j]) /\ stream[j] \in Seq(Snapshots)
          /\ snapshot[j] \in Snapshots
      BY <1>3, <2>1, <2>3, <3>3 DEF StoreEvent, GatewayTypeOK
    <3>5. EndsWithSnapshot(j)'
      BY <2>1, <3>4 DEF EndsWithSnapshot
    <3> QED BY <2>1, <2>2, <3>1, <3>2, <3>3, <3>5 DEF InOrder
  <2>4. CASE JobOf[u] # j
    <3>1. stream'[j] = stream[j]
      BY <1>3, <2>1, <2>4 DEF StoreEvent, GatewayTypeOK
    <3>2. \A w \in Forwarding(j) : work'[w] = work[w]
      BY <1>3, <2>4 DEF StoreEvent, Forwarding, GatewayTypeOK
    <3> QED BY <1>1, <2>1, <2>2, <3>1, <3>2
  <2> QED BY <2>3, <2>4
<1>4. ASSUME NEW u \in Updates, Answer(u) PROVE InOrder(j)'
  <2>1. /\ j \in clean /\ snapshot' = snapshot /\ event' = event /\ stream' = stream
        /\ work'[u] = "published"
        /\ \A w \in Updates : w # u => work'[w] = work[w]
    BY <1>4 DEF Answer, GatewayTypeOK
  <2>2. CASE JobOf[u] = j
    <3>1. u \in Forwarding(j) /\ work[u] = "stored"
      BY <1>4, <2>2 DEF Answer, Forwarding
    <3>2. EndsWithSnapshot(j) /\ \A w \in Forwarding(j) : w = u
      BY <2>1, <3>1 DEF OneAtATime, InOrder
    <3>3. Forwarding(j)' = {}
      BY <2>1, <3>2 DEF Forwarding
    <3>4. EndsWithSnapshot(j)'
      BY <2>1, <3>2 DEF EndsWithSnapshot
    <3> QED BY <3>3, <3>4 DEF InOrder
  <2>3. CASE JobOf[u] # j
    <3>1. Forwarding(j)' = Forwarding(j) /\ \A w \in Forwarding(j) : work'[w] = work[w]
      BY <2>1, <2>3 DEF Forwarding
    <3> QED BY <1>1, <2>1, <3>1
  <2> QED BY <2>2, <2>3
<1>5. ASSUME NEW u \in Updates, PublishFails(u) PROVE InOrder(j)'
  <2>1. /\ j \in clean /\ JobOf[u] # j
        /\ snapshot' = snapshot /\ event' = event /\ stream' = stream
        /\ \A w \in Updates : w # u => work'[w] = work[w]
    BY <1>5 DEF PublishFails, GatewayTypeOK
  <2>2. Forwarding(j)' = Forwarding(j) /\ \A w \in Forwarding(j) : work'[w] = work[w]
    BY <2>1 DEF Forwarding
  <2> QED BY <1>1, <2>1, <2>2
<1>6. CASE Restart
  BY <1>6 DEF Restart
<1>7. CASE UNCHANGED gatewayVars
  BY <1>1, <1>7 DEF gatewayVars, Forwarding
<1> QED BY <1>2, <1>3, <1>4, <1>5, <1>6, <1>7 DEF GatewayNext

\* One inductive invariant for both.
LEMMA GatewayInvNext == GatewayInv /\ [GatewayNext]_gatewayVars => GatewayInv'
BY TypeNext, LostNext, OneNext DEF GatewayInv

LEMMA LastOfGatewayInv == GatewayInv => LastEventIsSnapshot
BY DEF GatewayInv, OneAtATime, InOrder, EndsWithSnapshot, LastEventIsSnapshot

\* The gateway alone, whatever its jobs, its updates and the fields they set, and
\* however their handlers interleave, fail and die: each field of a snapshot is of
\* the last update merged that set it, and the last event of a job whose publishes
\* neither overlapped nor failed is the job's snapshot.
LEMMA GatewayKeepsUpdates ==
    GatewaySpec => [](GatewayTypeOK /\ NoUpdateLost /\ LastEventIsSnapshot)
<1>1. GatewayInv => GatewayTypeOK /\ NoUpdateLost /\ LastEventIsSnapshot
  BY LastOfGatewayInv DEF GatewayInv
<1> QED BY <1>1, GatewayInvInit, GatewayInvNext, PTL DEF GatewaySpec

-----------------------------------------------------------------------------
(* The rotation: its invariant *)

\* The step of the rotation a process has reached.
StepTaken(p) == auth[p].secrets \in {{Old}, {Old, New}, {New}}

\* The old secret is accepted until the gateway no longer signs with it and, in a
\* planned rotation, no ticket it signed is valid; the new one, if the processes are
\* told first, as soon as the gateway signs with it.
Rotation ==
    /\ \A p \in Processes : StepTaken(p)
    /\ signing[1] = Old =>
         /\ \A t \in tickets : t.secret = Old
         /\ \A p \in Processes : Old \in auth[p].secrets
    /\ signing[1] = New =>
         /\ \A t \in tickets : t.secret = Old => t.exp <= signing[2] + Lifetime
         /\ plan # "emergency" => \A p \in Processes :
              Old \notin auth[p].secrets => now > signing[2] + Lifetime + Leeway
         /\ plan = "verifiers first" => \A p \in Processes : New \in auth[p].secrets

ReadsOfTickets ==
    \A r \in reads : r.process \in Processes /\ r.ticket \in tickets

TicketType ==
    /\ now \in 0 .. Horizon
    /\ plan \in Plans
    /\ signing \in {Old, New} \X (0 .. now)
    /\ auth \in [Processes -> Authenticators]
    /\ IsFiniteSet(tickets) /\ tickets \subseteq Tickets
    /\ Cardinality(tickets) <= MaxTickets
    /\ \A t \in tickets : t.exp <= now + Lifetime
    /\ ReadsOfTickets
    /\ refused \subseteq tickets

TicketInv ==
    /\ TicketType /\ Rotation
    /\ PlannedRotationKeepsTickets /\ RetiredSecretReadsNothing

-----------------------------------------------------------------------------
\* What a process caches in each step of the rotation.
LEMMA Cached ==
    /\ GetAuthenticator(Env(Old, {})) =
         [entries |-> Entries, secrets |-> {Old}, leeway |-> Leeway]
    /\ GetAuthenticator(Env(New, {Old})) =
         [entries |-> Entries, secrets |-> {Old, New}, leeway |-> Leeway]
    /\ GetAuthenticator(Env(New, {})) =
         [entries |-> Entries, secrets |-> {New}, leeway |-> Leeway]
<1>1. None # Old /\ None # New
  BY TicketAssumption
<1>2. /\ Accepted(Env(Old, {})) = {Old}
      /\ Accepted(Env(New, {Old})) = {Old, New}
      /\ Accepted(Env(New, {})) = {New}
  BY <1>1 DEF Accepted, Env
<1> QED BY <1>2 DEF GetAuthenticator, Env

\* A ticket opens its own stream exactly while its secret is accepted and its
\* expiry, with the leeway, is not past.
LEMMA Verdict ==
    ASSUME NEW a \in Authenticators, NEW t \in Tickets, NEW j, NEW clock \in Int
    PROVE  AuthorizeRequest(a, t, ReadScope, j, clock).status = 200 <=>
             t.secret \in a.secrets /\ clock <= t.exp + Leeway /\ j = t.stream_id
<1>1. a # None /\ t # None
  BY TicketAssumption
<1>2. /\ t.form = "ticket" /\ t.scope = ReadScope /\ t.exp \in Nat /\ a.leeway = Leeway
      /\ Leeway \in Nat
  BY TicketAssumption DEF Tickets, Authenticators
<1>3. Match(a, t, clock) =
        IF t.secret \in a.secrets /\ clock <= t.exp + Leeway
        THEN Granted(TicketPrincipal(t)) ELSE Denied(401)
  BY <1>2 DEF Match, Expired
<1>4. Covers(TicketPrincipal(t), j) <=> j = t.stream_id
  BY DEF Covers, TicketPrincipal
<1>5. ReadScope \in TicketPrincipal(t).scopes
  BY DEF TicketPrincipal
<1>6. AuthorizeGlobal(a, t, ReadScope, clock) = Match(a, t, clock)
  BY <1>1, <1>3, <1>5 DEF AuthorizeGlobal, Granted, Denied
<1> QED BY <1>1, <1>3, <1>4, <1>6 DEF AuthorizeRequest, Authorize, Granted, Denied

-----------------------------------------------------------------------------
\* The gateway inside the rotation takes the steps it takes alone.
LEMMA GatewayInside == Spec => GatewaySpec
<1>1. Init => GatewayInit
  BY DEF Init
<1>2. [Next]_vars => [GatewayNext]_gatewayVars
  <2> SUFFICES ASSUME [Next]_vars PROVE [GatewayNext]_gatewayVars
    OBVIOUS
  <2> USE DEF gatewayVars
  <2>1. CASE Tick
    BY <2>1 DEF Tick
  <2>2. CASE SignWithNew
    BY <2>2 DEF SignWithNew, GatewayNext
  <2>3. ASSUME NEW p \in Processes, DeployBoth(p) \/ Retire(p)
        PROVE  [GatewayNext]_gatewayVars
    BY <2>3 DEF DeployBoth, Retire, Deploy
  <2>4. ASSUME NEW c \in Customers, NEW j \in Jobs, IssueTicket(c, j)
        PROVE  [GatewayNext]_gatewayVars
    BY <2>4 DEF IssueTicket
  <2>5. ASSUME NEW p \in Processes, NEW t \in tickets, NEW j \in Jobs, OpenRead(p, t, j)
        PROVE  [GatewayNext]_gatewayVars
    BY <2>5 DEF OpenRead
  <2>6. ASSUME NEW r \in reads, EndRead(r) PROVE [GatewayNext]_gatewayVars
    BY <2>6 DEF EndRead
  <2>7. CASE UNCHANGED vars
    BY <2>7 DEF vars
  <2> QED BY <2>1, <2>2, <2>3, <2>4, <2>5, <2>6, <2>7 DEF Next
<1> QED BY <1>1, <1>2, PTL DEF Spec, GatewaySpec

-----------------------------------------------------------------------------
LEMMA TicketInvInit == Init => TicketInv
<1> SUFFICES ASSUME Init PROVE TicketInv
  OBVIOUS
<1>1. /\ now = 0 /\ signing = <<Old, 0>> /\ tickets = {} /\ reads = {} /\ refused = {}
      /\ plan \in Plans
      /\ auth = [p \in Processes |->
                   [entries |-> Entries, secrets |-> {Old}, leeway |-> Leeway]]
  BY Cached DEF Init
<1>2. TicketType
  <2>1. IsFiniteSet(tickets) /\ Cardinality(tickets) = 0
    BY <1>1, FS_EmptySet
  <2> QED BY <1>1, <2>1, TicketAssumption DEF TicketType, ReadsOfTickets, Authenticators
<1>3. Rotation
  BY <1>1, TicketAssumption DEF Rotation, StepTaken
<1> QED BY <1>1, <1>2, <1>3
    DEF TicketInv, PlannedRotationKeepsTickets, RetiredSecretReadsNothing

\* A new ticket has the secret the gateway signs with, is for a job of the
\* customer's tenant, and is new.
LEMMA IssueKeeps ==
    ASSUME TicketInv, NEW c \in Customers, NEW j \in Jobs, IssueTicket(c, j)
    PROVE  TicketInv'
<1> DEFINE t == CreateReadTicket(signing[1], j, now + Lifetime, c)
<1>1. /\ tickets' = tickets \cup {t} /\ j \in JobsOf[c]
      /\ Cardinality(tickets) < MaxTickets
      /\ UNCHANGED <<now, plan, signing, auth, reads, refused>>
  BY DEF IssueTicket
<1>2. /\ now \in Nat /\ Lifetime \in Nat /\ MaxTickets \in Nat /\ Horizon \in Nat
      /\ signing[1] \in {Old, New} /\ signing[2] \in 0 .. now
  BY TicketAssumption DEF TicketInv, TicketType
<1>3. /\ t \in Tickets /\ t.secret = signing[1] /\ t.exp = now + Lifetime
      /\ t.stream_id = j /\ t.sub = c
  BY <1>2 DEF CreateReadTicket, Tickets
<1> HIDE DEF t
<1>4. TicketType'
  <2>1. IsFiniteSet(tickets)
    BY DEF TicketInv, TicketType
  <2>2. IsFiniteSet(tickets') /\ Cardinality(tickets') <= Cardinality(tickets) + 1
    <3>1. /\ IsFiniteSet(tickets \cup {t})
          /\ Cardinality(tickets \cup {t}) =
               IF t \in tickets THEN Cardinality(tickets) ELSE Cardinality(tickets) + 1
      BY <2>1, FS_AddElement
    <3>2. Cardinality(tickets) \in Nat
      BY <2>1, FS_CardinalityType
    <3> QED BY <1>1, <3>1, <3>2
  <2>3. Cardinality(tickets') <= MaxTickets
    BY <1>1, <1>2, <2>1, <2>2, FS_CardinalityType
  <2> QED BY <1>1, <1>2, <1>3, <2>2, <2>3 DEF TicketInv, TicketType, ReadsOfTickets
<1>5. Rotation'
  BY <1>1, <1>2, <1>3, TicketAssumption DEF TicketInv, Rotation, StepTaken
<1> QED BY <1>1, <1>4, <1>5
    DEF TicketInv, PlannedRotationKeepsTickets, RetiredSecretReadsNothing

\* In a planned rotation no ticket of the old secret is refused while it has time left.
LEMMA OpenKeeps ==
    ASSUME TicketInv, NEW p \in Processes, NEW t \in tickets, NEW j \in Jobs,
           OpenRead(p, t, j)
    PROVE  TicketInv'
<1> DEFINE verdict == AuthorizeRequest(auth[p], t, ReadScope, j, now + Skew[p])
           r == [process |-> p, ticket |-> t]
<1>1. UNCHANGED <<now, plan, signing, auth, tickets>>
  BY DEF OpenRead
<1>2. /\ now \in Nat /\ Lifetime \in Nat /\ Leeway \in Nat /\ Skew[p] \in -Leeway .. Leeway
      /\ signing[1] \in {Old, New} /\ signing[2] \in 0 .. now
  BY TicketAssumption DEF TicketInv, TicketType
<1>3. t \in Tickets /\ t.exp \in Nat /\ auth[p] \in Authenticators
  BY DEF TicketInv, TicketType, Tickets
<1>4. verdict.status = 200 <=>
        t.secret \in auth[p].secrets /\ now + Skew[p] <= t.exp + Leeway /\ j = t.stream_id
  BY <1>2, <1>3, Verdict
<1>5. CASE verdict.status = 200
  <2>1. reads' = reads \cup {r} /\ refused' = refused
    BY <1>5 DEF OpenRead
  <2>2. r.process = p /\ r.ticket = t
    OBVIOUS
  <2> HIDE DEF r
  <2>4. TicketType'
    BY <1>1, <1>2, <2>1, <2>2 DEF TicketInv, TicketType, ReadsOfTickets
  <2>5. RetiredSecretReadsNothing'
    BY <1>1, <1>4, <1>5, <2>1, <2>2 DEF TicketInv, RetiredSecretReadsNothing
  <2> QED BY <1>1, <2>1, <2>4, <2>5
      DEF TicketInv, Rotation, StepTaken, PlannedRotationKeepsTickets
<1>6. CASE verdict.status # 200
  <2>1. reads' = reads
    BY <1>6 DEF OpenRead
  <2>2. refused' = IF j = t.stream_id /\ now <= t.exp THEN refused \cup {t} ELSE refused
    BY <1>6 DEF OpenRead
  <2>3. TicketType'
    BY <1>1, <2>1, <2>2 DEF TicketInv, TicketType, ReadsOfTickets
  <2>4. ASSUME plan # "emergency", t.secret = Old \/ plan = "verifiers first",
               j = t.stream_id, now <= t.exp
        PROVE  FALSE
    <3> j = t.stream_id /\ now <= t.exp
      BY <2>4
    <3>1. t.secret \notin auth[p].secrets
      BY <1>2, <1>3, <1>4, <1>6
    <3>2. signing[1] = New
      BY <1>2, <3>1 DEF TicketInv, Rotation
    <3>3. t.secret = Old /\ Old \notin auth[p].secrets
      BY <1>3, <2>4, <3>1, <3>2 DEF TicketInv, Rotation, Tickets
    <3>4. now > signing[2] + Lifetime + Leeway /\ t.exp <= signing[2] + Lifetime
      BY <2>4, <3>2, <3>3 DEF TicketInv, Rotation
    <3> QED BY <1>2, <1>3, <3>4
  <2>5. PlannedRotationKeepsTickets'
    BY <1>1, <1>3, <2>2, <2>4 DEF TicketInv, PlannedRotationKeepsTickets, Tickets
  <2> QED BY <1>1, <2>1, <2>3, <2>5
      DEF TicketInv, Rotation, StepTaken, RetiredSecretReadsNothing
<1> QED BY <1>5, <1>6

\* A process that starts again has no open response.
LEMMA DeployKeeps ==
    ASSUME TicketInv, NEW p \in Processes, DeployBoth(p) \/ Retire(p)
    PROVE  TicketInv'
<1>1. PICK S \in SUBSET {Old, New} :
        /\ auth' = [auth EXCEPT
                      ![p] = [entries |-> Entries, secrets |-> S, leeway |-> Leeway]]
        /\ \/ S = {Old, New}
           \/ /\ S = {New} /\ signing[1] = New
              /\ plan # "emergency" => now > signing[2] + Lifetime + Leeway
  BY Cached DEF DeployBoth, Retire, Deploy
<1>2. /\ reads' = {r \in reads : r.process # p}
      /\ UNCHANGED <<now, plan, signing, tickets, refused>>
  BY DEF DeployBoth, Retire, Deploy
<1>3. /\ auth \in [Processes -> Authenticators] /\ auth' \in [Processes -> Authenticators]
      /\ auth'[p].secrets = S
      /\ \A o \in Processes : o # p => auth'[o] = auth[o]
  BY <1>1 DEF TicketInv, TicketType, Authenticators
<1>4. TicketType'
  BY <1>2, <1>3 DEF TicketInv, TicketType, ReadsOfTickets
<1>5. Rotation'
  BY <1>1, <1>2, <1>3, TicketAssumption DEF TicketInv, Rotation, StepTaken
<1>6. RetiredSecretReadsNothing'
  BY <1>2, <1>3 DEF TicketInv, TicketType, ReadsOfTickets, RetiredSecretReadsNothing
<1> QED BY <1>2, <1>4, <1>5, <1>6
    DEF TicketInv, PlannedRotationKeepsTickets

\* From now on no ticket of the old secret is issued.
LEMMA SignKeeps == TicketInv /\ SignWithNew => TicketInv'
<1> SUFFICES ASSUME TicketInv, SignWithNew PROVE TicketInv'
  OBVIOUS
<1>1. /\ signing[1] = Old /\ signing' = <<New, now>>
      /\ plan = "verifiers first" => \A p \in Processes : auth[p].secrets = {Old, New}
      /\ UNCHANGED <<now, plan, auth, tickets, reads, refused>>
  BY DEF SignWithNew
<1>2. now \in Nat /\ Lifetime \in Nat
  BY TicketAssumption DEF TicketInv, TicketType
<1>3. TicketType'
  <2>1. signing' \in {Old, New} \X (0 .. now')
    <3>1. signing' = <<New, now>> /\ now' = now
      BY <1>1
    <3> QED BY <1>2, <3>1
  <2> QED BY <1>1, <2>1 DEF TicketInv, TicketType, ReadsOfTickets
<1>4. signing'[1] = New /\ signing'[2] = now
  BY <1>1
<1>5. Rotation'
  BY <1>1, <1>2, <1>4, TicketAssumption DEF TicketInv, TicketType, Rotation, StepTaken
<1> QED BY <1>1, <1>3, <1>5
    DEF TicketInv, PlannedRotationKeepsTickets, RetiredSecretReadsNothing

LEMMA TickKeeps == TicketInv /\ Tick => TicketInv'
<1> SUFFICES ASSUME TicketInv, Tick PROVE TicketInv'
  OBVIOUS
<1>1. /\ now' = now + 1 /\ now < Horizon
      /\ UNCHANGED <<plan, signing, auth, tickets, reads, refused>>
  BY DEF Tick
<1>2. now \in Nat /\ Lifetime \in Nat /\ Leeway \in Nat /\ Horizon \in Nat
      /\ signing[2] \in 0 .. now
  BY TicketAssumption DEF TicketInv, TicketType
<1>3. \A t \in tickets : t.exp \in Nat
  BY DEF TicketInv, TicketType, Tickets
<1>4. TicketType'
  BY <1>1, <1>2, <1>3 DEF TicketInv, TicketType, ReadsOfTickets
<1>5. Rotation'
  <2>1. now > signing[2] + Lifetime + Leeway => now' > signing'[2] + Lifetime + Leeway
    BY <1>1, <1>2
  <2> QED BY <1>1, <2>1 DEF TicketInv, Rotation, StepTaken
<1> QED BY <1>1, <1>4, <1>5
    DEF TicketInv, PlannedRotationKeepsTickets, RetiredSecretReadsNothing

LEMMA TicketInvNext == TicketInv /\ [Next]_vars => TicketInv'
<1> SUFFICES ASSUME TicketInv, [Next]_vars PROVE TicketInv'
  OBVIOUS
<1>1. ASSUME NEW r \in reads, EndRead(r) PROVE TicketInv'
  BY <1>1 DEF EndRead, TicketInv, TicketType, ReadsOfTickets, Rotation, StepTaken,
     PlannedRotationKeepsTickets, RetiredSecretReadsNothing
<1>2. ASSUME UNCHANGED ticketVars PROVE TicketInv'
  BY <1>2 DEF ticketVars, TicketInv, TicketType, ReadsOfTickets, Rotation, StepTaken,
     PlannedRotationKeepsTickets, RetiredSecretReadsNothing
<1>3. UNCHANGED vars => UNCHANGED ticketVars
  BY DEF vars
<1> QED BY <1>1, <1>2, <1>3, IssueKeeps, OpenKeeps, DeployKeeps, SignKeeps, TickKeeps
    DEF Next

-----------------------------------------------------------------------------
\* Everything the gateway's and the rotation's invariants say together.
LEMMA RotationIsSafe ==
    Spec => [](/\ TypeOK /\ NoUpdateLost /\ LastEventIsSnapshot
               /\ PlannedRotationKeepsTickets /\ RetiredSecretReadsNothing)
<1>1. Spec => []TicketInv
  BY TicketInvInit, TicketInvNext, PTL DEF Spec
<1>2. Spec => [](GatewayTypeOK /\ NoUpdateLost /\ LastEventIsSnapshot)
  BY GatewayInside, GatewayKeepsUpdates, PTL
<1>3. TicketInv /\ GatewayTypeOK => TypeOK
  BY DEF TicketInv, TicketType, ReadsOfTickets, TypeOK
<1>4. TicketInv => PlannedRotationKeepsTickets /\ RetiredSecretReadsNothing
  BY DEF TicketInv
<1> QED BY <1>1, <1>2, <1>3, <1>4, PTL

\* The types, with no bound on the clocks' skew but the leeway; no ticket outlives
\* its lifetime.
THEOREM TypeCorrect == Spec => []TypeOK
BY RotationIsSafe, PTL

\* With the rotation, its restarts and the readers around it, the gateway still
\* loses no update (_merge_snapshot), however handlers interleave, fail and die.
THEOREM UpdatesKept == Spec => []NoUpdateLost
BY RotationIsSafe, PTL

\* While a job's publishes neither overlap nor fail, its stream ends with its
\* snapshot (publish_job_event).
THEOREM StreamEndsWithSnapshot == Spec => []LastEventIsSnapshot
BY RotationIsSafe, PTL

\* For any processes whose clocks differ from the gateway's by no more than the
\* leeway: a planned rotation refuses no valid ticket of the old secret in either
\* order, and none of the new one if the processes learn of it before the gateway
\* (get_authenticator). In the order of the documents they do refuse some.
THEOREM RotationKeepsTickets == Spec => []PlannedRotationKeepsTickets
BY RotationIsSafe, PTL

\* In every rotation, a secret that was removed from a process reads nothing from
\* it: neither a response that was open nor one opened since.
THEOREM RetiredSecretIsUseless == Spec => []RetiredSecretReadsNothing
BY RotationIsSafe, PTL
=============================================================================
