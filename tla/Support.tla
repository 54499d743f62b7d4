------------------------------- MODULE Support -------------------------------
(***************************************************************************)
(* Incidents and the notifications that follow them: a buyer reports a     *)
(* paid sub-order (incidents.service.ts), an administrator walks through   *)
(* the inbox and resolves it (admin-incidents.service.ts), the recipients  *)
(* read what they were told (notifications.service.ts), and the            *)
(* controllers send the mails once the transaction has committed.          *)
(*                                                                         *)
(* A transaction is split at its reads; its rows appear at its commit, so  *)
(* a crash before it leaves nothing, and one after it loses the mails.     *)
(***************************************************************************)
EXTENDS Integers, FiniteSets

CONSTANTS
    Session,        \* server sessions, each handling one request at a time
    Admin,
    Buyer,
    SubOrder,       \* paid sub-orders
    BuyerOf,        \* [SubOrder -> Buyer]
    Incident,       \* ids, in the order of created_at
    Nobody,         \* the resolver of an open incident
    Limit,          \* incidents on a page of the inbox
    MaxRequests     \* bound on the requests served and the walks begun

ASSUME SupportAssumption ==
    /\ BuyerOf \in [SubOrder -> Buyer]
    /\ Incident \subseteq Nat
    /\ IsFiniteSet(Incident)
    /\ Admin \cap Buyer = {}
    /\ Nobody \notin Admin
    /\ Limit \in Nat \ {0}
    /\ MaxRequests \in Nat

VARIABLES
    cancelled,      \* sub-orders a buyer or a producer has cancelled
    admin,          \* not yet an administrator, one, or deleted
    incident,       \* incidents rows
    notice,         \* how many notifications rows there are of each kind
    readAt,         \* how often read_at has been written
    mail,           \* how many mails have been sent
    request,        \* what each session is doing
    served,         \* requests so far
    walk,           \* an administrator going through the inbox
    audience,       \* history: administrators when the incident committed
    late,           \* history: incidents whose team changed before the commit
    twice           \* history: notices two requests found unread

vars == <<cancelled, admin, incident, notice, readAt, mail, request, served,
          walk, audience, late, twice>>

-----------------------------------------------------------------------------
\* The audit of the resolution is there when, and only when, it is RESOLVED.
IncidentRow == [status: {"none", "OPEN"}, target: SubOrder, by: {Nobody}]
                 \cup [status: {"RESOLVED"}, target: SubOrder, by: Admin]

\* INCIDENT_REPORTED to an administrator, INCIDENT_RESOLVED to the reporter.
Notice == [about: Incident, to: Admin \cup Buyer]

admins == {a \in Admin : admin[a] = "active"}

Exists(i) == incident[i].status # "none"
Committed == {i \in Incident : Exists(i)}
Reporter(i) == BuyerOf[incident[i].target]

\* listIncidents and getIncidentDetail are scoped to the reporter.
Own(b) == {i \in Committed : Reporter(i) = b}

\* What toDetailRow and buildAdminDetailView take from the incident itself:
\* its status, its audit, which sub-order it is about and who reported it.  The
\* status, the tracking number and the mode of the sub-order they show beside
\* it are read live, and go on changing (OrderFulfilment).
Audit(i) == [status |-> incident[i].status, resolution |-> incident[i].by,
             about |-> incident[i].target, reporter |-> Reporter(i)]

ToReporter(i) == [about |-> i, to |-> Reporter(i)]
ToAdmins(i, team) == {[about |-> i, to |-> a] : a \in team}

Idle == [at |-> "idle"]

Report == [at: {"insert"}, target: SubOrder]
FanOut == [at: {"commit"}, target: SubOrder, id: Incident, team: SUBSET Admin]
Resolve == [at: {"resolve"}, id: Incident, by: Admin]
Dispatch == [at: {"dispatch"}, pending: SUBSET Notice]
Mark == [at: {"mark"}, notice: Notice]
Bootstrap == [at: {"bootstrap"}, by: Admin]

Request == {Idle} \cup Report \cup FanOut \cup Resolve \cup Dispatch \cup Mark
             \cup Bootstrap

At(c, label) == request[c].at = label

Begin(c, r) ==
    /\ At(c, "idle")
    /\ served < MaxRequests
    /\ served' = served + 1
    /\ request' = [request EXCEPT ![c] = r]

Become(c, r) ==
    /\ request' = [request EXCEPT ![c] = r]
    /\ UNCHANGED served

-----------------------------------------------------------------------------
\* createIncident: the one predicate on the target ...
Eligible(s) == s \notin cancelled

ReadTarget(c, s) ==
    /\ Eligible(s)
    /\ Begin(c, [at |-> "insert", target |-> s])
    /\ UNCHANGED <<cancelled, admin, incident, notice, readAt, mail, walk, audience, late, twice>>

\* ... the insert, seen by nobody yet, and the administrators to tell ...
Newest(i) ==
    /\ \A j \in Committed : j < i
    /\ \A d \in Session : At(d, "commit") => request[d].id < i

InsertIncident(c, i) ==
    /\ At(c, "insert")
    /\ Newest(i)
    /\ Become(c, [at |-> "commit", target |-> request[c].target, id |-> i, team |-> admins])
    /\ UNCHANGED <<cancelled, admin, incident, notice, readAt, mail, walk, audience, late, twice>>

\* Mutation of the next: the row is committed before the administrators are told.
ToldLater(old, keys) == old

\* createNotification, the sole writer of notifications.
Told(old, keys) == [k \in Notice |-> IF k \in keys THEN old[k] + 1 ELSE old[k]]

\* ... the commit of the incident with one notification for each of them.
CommitIncident(c) ==
    /\ At(c, "commit")
    /\ LET r == request[c]
           keys == ToAdmins(r.id, r.team)
       IN /\ incident' = [incident EXCEPT ![r.id] =
                 [status |-> "OPEN", target |-> r.target, by |-> Nobody]]
          /\ notice' = Told(notice, keys)
          /\ audience' = [audience EXCEPT ![r.id] = admins]
          /\ late' = IF r.team = admins THEN late ELSE late \cup {r.id}
          /\ Become(c, [at |-> "dispatch", pending |-> keys])
    /\ UNCHANGED <<cancelled, admin, readAt, mail, walk, twice>>

-----------------------------------------------------------------------------
\* resolveIncident: the existence check, then the conditional claim, the audit
\* and the notification in one commit.
ReadIncident(c, i, a) ==
    /\ Exists(i)
    /\ a \in admins
    /\ Begin(c, [at |-> "resolve", id |-> i, by |-> a])
    /\ UNCHANGED <<cancelled, admin, incident, notice, readAt, mail, walk, audience, late, twice>>

\* Mutation of the next: the update is not conditional.
ClaimsAny(i) == TRUE

Claims(i) == incident[i].status = "OPEN" /\ incident[i].by = Nobody

\* Mutation of the next: the audit fields are left out of the update.
Unaudited(row, a) == [row EXCEPT !.status = "RESOLVED"]

Resolved(row, a) == [row EXCEPT !.status = "RESOLVED", !.by = a]

ResolveIncident(c) ==
    /\ At(c, "resolve")
    /\ Claims(request[c].id)
    /\ LET i == request[c].id
           keys == {ToReporter(i)}
       IN /\ incident' = [incident EXCEPT ![i] = Resolved(@, request[c].by)]
          /\ notice' = Told(notice, keys)
          /\ Become(c, [at |-> "dispatch", pending |-> keys])
    /\ UNCHANGED <<cancelled, admin, readAt, mail, walk, audience, late, twice>>

\* IncidentAlreadyResolvedError
RefuseResolve(c) ==
    /\ At(c, "resolve")
    /\ ~Claims(request[c].id)
    /\ Become(c, Idle)
    /\ UNCHANGED <<cancelled, admin, incident, notice, readAt, mail, walk, audience, late, twice>>

-----------------------------------------------------------------------------
\* dispatchEmails, called by the controllers after the commit: each mail on its
\* own, in any order, and one that fails is dropped.
Send(c, k, succeeds) ==
    /\ At(c, "dispatch")
    /\ k \in request[c].pending
    /\ mail' = IF succeeds THEN [mail EXCEPT ![k] = @ + 1] ELSE mail
    /\ Become(c, [request[c] EXCEPT !.pending = @ \ {k}])
    /\ UNCHANGED <<cancelled, admin, incident, notice, readAt, walk, audience, late, twice>>

Respond(c) ==
    /\ At(c, "dispatch")
    /\ request[c].pending = {}
    /\ Become(c, Idle)
    /\ UNCHANGED <<cancelled, admin, incident, notice, readAt, mail, walk, audience, late, twice>>

\* The process ends: what has not committed is gone, and so are the mails.
Crash(c) ==
    /\ ~At(c, "idle")
    /\ Become(c, Idle)
    /\ UNCHANGED <<cancelled, admin, incident, notice, readAt, mail, walk, audience, late, twice>>

-----------------------------------------------------------------------------
\* Mutation of the next: every PATCH writes.
AnyOwned(k) == notice[k] > 0

\* markAsRead: findOwnedOrThrow, and nothing to do when it is read already.
Unread(k) == notice[k] > 0 /\ readAt[k] = 0

ReadNotice(c, k) ==
    /\ Unread(k)
    /\ Begin(c, [at |-> "mark", notice |-> k])
    /\ UNCHANGED <<cancelled, admin, incident, notice, readAt, mail, walk, audience, late, twice>>

MarkAsRead(c) ==
    /\ At(c, "mark")
    /\ LET k == request[c].notice
       IN /\ readAt' = [readAt EXCEPT ![k] = @ + 1]
          /\ twice' = IF \E d \in Session \ {c} : request[d] = request[c]
                      THEN twice \cup {k} ELSE twice
    /\ Become(c, Idle)
    /\ UNCHANGED <<cancelled, admin, incident, notice, mail, walk, audience, late>>

-----------------------------------------------------------------------------
\* listAllIncidents: page n of the inbox, the newest first.
Rank(i, rows) == Cardinality({j \in rows : j > i})

\* Mutation of the next: the pages are counted from one.
PageFromOne(n, rows) == {i \in rows : Rank(i, rows) \div Limit = n}

Page(n, rows) == {i \in rows : Rank(i, rows) \div Limit = n - 1}

TotalPages(total) == (total + Limit - 1) \div Limit

NoWalk == [at |-> "idle"]

\* known: what was there at the start.  rows and count are the two statements
\* of Promise.all, unordered.  torn: the count was taken before the rows.
Walk == [at: {"walk"}, page: Nat \ {0}, known: SUBSET Incident,
         seen: SUBSET Incident, rows: BOOLEAN, total: {0 - 1} \cup Nat, torn: BOOLEAN]

Walking == walk.at = "walk"
Counted == walk.total >= 0

StartWalk ==
    /\ ~Walking
    /\ Committed # {}
    /\ served < MaxRequests
    /\ served' = served + 1
    /\ walk' = [at |-> "walk", page |-> 1, known |-> Committed, seen |-> {},
                rows |-> FALSE, total |-> 0 - 1, torn |-> FALSE]
    /\ UNCHANGED <<cancelled, admin, incident, notice, readAt, mail, request,
                   audience, late, twice>>

ListRows ==
    /\ Walking
    /\ ~walk.rows
    /\ walk' = [walk EXCEPT !.rows = TRUE,
                            !.seen = @ \cup Page(walk.page, Committed),
                            !.torn = @ \/ (Counted /\ walk.total # Cardinality(Committed))]
    /\ UNCHANGED <<cancelled, admin, incident, notice, readAt, mail, request, served,
                   audience, late, twice>>

CountRows ==
    /\ Walking
    /\ ~Counted
    /\ walk' = [walk EXCEPT !.total = Cardinality(Committed)]
    /\ UNCHANGED <<cancelled, admin, incident, notice, readAt, mail, request, served,
                   audience, late, twice>>

\* The response: the administrator goes on to the next page, if there is one.
Complete == walk.rows /\ Counted
LastPage == Complete /\ walk.page >= TotalPages(walk.total)

NextPage ==
    /\ Walking
    /\ Complete
    /\ walk' = IF LastPage THEN NoWalk
               ELSE [walk EXCEPT !.page = @ + 1, !.rows = FALSE, !.total = 0 - 1]
    /\ UNCHANGED <<cancelled, admin, incident, notice, readAt, mail, request, served,
                   audience, late, twice>>

-----------------------------------------------------------------------------
\* cancelOrder and cancelSubOrder: module OrderFulfilment.
CancelSubOrder(s) ==
    /\ s \notin cancelled
    /\ cancelled' = cancelled \cup {s}
    /\ UNCHANGED <<admin, incident, notice, readAt, mail, request, served, walk,
                   audience, late, twice>>

\* scripts/create-admin.ts counts the administrators, then inserts one.
CountAdmins(c, a) ==
    /\ admins = {}
    /\ admin[a] = "none"
    /\ \A d \in Session : At(d, "bootstrap") => request[d].by # a
    /\ Begin(c, [at |-> "bootstrap", by |-> a])
    /\ UNCHANGED <<cancelled, admin, incident, notice, readAt, mail, walk, audience, late, twice>>

CreateAdmin(c) ==
    /\ At(c, "bootstrap")
    /\ admin' = [admin EXCEPT ![request[c].by] = "active"]
    /\ Become(c, Idle)
    /\ UNCHANGED <<cancelled, incident, notice, readAt, mail, walk, audience, late, twice>>

\* docs/admin-recovery.md: an administrator who is lost is deleted by hand.
DeleteAdmin(a) ==
    /\ a \in admins
    /\ admin' = [admin EXCEPT ![a] = "deleted"]
    /\ UNCHANGED <<cancelled, incident, notice, readAt, mail, request, served, walk,
                   audience, late, twice>>

-----------------------------------------------------------------------------
Init ==
    /\ cancelled = {}
    /\ admin \in [Admin -> {"none", "active"}]
    /\ \E s \in SubOrder :
          incident = [i \in Incident |-> [status |-> "none", target |-> s, by |-> Nobody]]
    /\ notice = [k \in Notice |-> 0]
    /\ readAt = [k \in Notice |-> 0]
    /\ mail = [k \in Notice |-> 0]
    /\ request = [c \in Session |-> Idle]
    /\ served = 0
    /\ walk = NoWalk
    /\ audience = [i \in Incident |-> {}]
    /\ late = {}
    /\ twice = {}

Next ==
    \/ \E c \in Session :
          \/ \E s \in SubOrder : ReadTarget(c, s)
          \/ \E i \in Incident : InsertIncident(c, i)
          \/ \E i \in Incident, a \in Admin : ReadIncident(c, i, a)
          \/ \E a \in Admin : CountAdmins(c, a)
          \/ \E k \in Notice : ReadNotice(c, k)
          \/ \E k \in Notice, succeeds \in BOOLEAN : Send(c, k, succeeds)
          \/ CommitIncident(c) \/ ResolveIncident(c) \/ RefuseResolve(c)
          \/ Respond(c) \/ Crash(c) \/ MarkAsRead(c) \/ CreateAdmin(c)
    \/ StartWalk \/ ListRows \/ CountRows \/ NextPage
    \/ \E s \in SubOrder : CancelSubOrder(s)
    \/ \E a \in Admin : DeleteAdmin(a)

Spec == Init /\ [][Next]_vars

-----------------------------------------------------------------------------
\* Every variable has its type.
TypeOK ==
    /\ cancelled \subseteq SubOrder
    /\ admin \in [Admin -> {"none", "active", "deleted"}]
    /\ incident \in [Incident -> IncidentRow]
    /\ notice \in [Notice -> Nat]
    /\ readAt \in [Notice -> Nat]
    /\ mail \in [Notice -> Nat]
    /\ request \in [Session -> Request]
    /\ served \in 0 .. MaxRequests
    /\ walk \in {NoWalk} \cup Walk
    /\ audience \in [Incident -> SUBSET Admin]
    /\ late \subseteq Incident
    /\ twice \subseteq Notice

\* The first administrator's resolution is final (resolveIncident): once
\* RESOLVED, an incident keeps its status and its audit, whoever else tries and
\* whatever becomes of its sub-order, and nothing gives its id to another.
ResolutionIsFinal ==
    [][\A i \in Incident :
          incident[i].status = "RESOLVED" => Audit(i)' = Audit(i)]_vars

\* An incident and its notifications commit together, once: every administrator
\* there was is told of the report, the reporter of the resolution and of
\* nothing before it, no other buyer of anything, and no mail is sent that no
\* notification backs.
NoticesMatchIncidents ==
    /\ \A i \in Incident : \A a \in audience[i] :
          i \in late \/ notice[[about |-> i, to |-> a]] = 1
    /\ \A i \in Incident, b \in Buyer :
          notice[[about |-> i, to |-> b]] =
             IF i \in Own(b) /\ incident[i].status = "RESOLVED" THEN 1 ELSE 0
    /\ \A k \in Notice : mail[k] <= notice[k]

\* A notification keeps its read_at, however often it is marked as read, unless
\* two requests both found it unread.
ReadStampKept == \A k \in Notice \ twice : readAt[k] <= 1

\* An administrator who pages to the end of the inbox has been shown every
\* incident that was there at the start, although reports arrive meanwhile.
\* The exception is a page whose total was counted before its rows were read.
WalkSeesAll ==
    Walking /\ LastPage /\ ~walk.torn => walk.known \subseteq walk.seen
=============================================================================
