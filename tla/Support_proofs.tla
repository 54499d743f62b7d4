--------------------------- MODULE Support_proofs ---------------------------
(* Theorems about Support, for any sessions, administrators, buyers and    *)
(* incidents.                                                              *)
EXTENDS Support, FiniteSetTheorems, TLAPS

\* The kind of a request follows from where it is.
LEMMA RequestKind ==
    ASSUME TypeOK, NEW c \in Session
    PROVE  /\ At(c, "idle") => request[c] = Idle
           /\ At(c, "insert") => request[c] \in Report
           /\ At(c, "commit") => request[c] \in FanOut
           /\ At(c, "resolve") => request[c] \in Resolve
           /\ At(c, "dispatch") => request[c] \in Dispatch
           /\ At(c, "mark") => request[c] \in Mark
           /\ At(c, "bootstrap") => request[c] \in Bootstrap
  <1>1. request[c] \in Request
    BY DEF TypeOK
  <1> QED
    BY <1>1 DEF Request, At, Idle, Report, FanOut, Resolve, Dispatch, Mark, Bootstrap

\* A session that begins or goes on leaves the others where they are.
LEMMA BeginType ==
    ASSUME TypeOK, NEW c \in Session, NEW r \in Request, Begin(c, r)
    PROVE  /\ request' \in [Session -> Request]
           /\ served' \in 0 .. MaxRequests
           /\ request[c] = Idle /\ request'[c] = r
           /\ \A d \in Session \ {c} : request'[d] = request[d]
  BY SupportAssumption, RequestKind DEF TypeOK, Begin

LEMMA BecomeType ==
    ASSUME TypeOK, NEW c \in Session, NEW r \in Request, Become(c, r)
    PROVE  /\ request' \in [Session -> Request]
           /\ served' \in 0 .. MaxRequests
           /\ request'[c] = r
           /\ \A d \in Session \ {c} : request'[d] = request[d]
  BY DEF TypeOK, Become

LEMMA IdleIsRequest == Idle \in Request
  BY DEF Request

\* The notices about an incident are well formed.
LEMMA NoticeOfIncident ==
    ASSUME TypeOK, NEW i \in Incident
    PROVE  /\ Reporter(i) \in Buyer
           /\ ToReporter(i) \in Notice
           /\ \A team \in SUBSET Admin : ToAdmins(i, team) \in SUBSET Notice
  <1>1. incident[i].target \in SubOrder
    BY DEF TypeOK, IncidentRow
  <1>2. Reporter(i) \in Buyer
    BY <1>1, SupportAssumption DEF Reporter
  <1> QED
    BY <1>2 DEF ToReporter, ToAdmins, Notice

LEMMA ToldType ==
    ASSUME TypeOK, NEW keys \in SUBSET Notice
    PROVE  Told(notice, keys) \in [Notice -> Nat]
  BY DEF TypeOK, Told

-----------------------------------------------------------------------------
(* Type correctness                                                        *)

LEMMA InitType == Init => TypeOK
  <1> SUFFICES ASSUME Init PROVE TypeOK
    OBVIOUS
  <1>1. incident \in [Incident -> IncidentRow]
    BY DEF Init, IncidentRow
  <1>2. admin \in [Admin -> {"none", "active", "deleted"}]
    BY DEF Init
  <1> QED
    BY <1>1, <1>2, SupportAssumption DEF Init, TypeOK, Request

\* The report of an incident.
LEMMA ReportType ==
    ASSUME TypeOK, NEW c \in Session,
           \/ \E s \in SubOrder : ReadTarget(c, s)
           \/ \E i \in Incident : InsertIncident(c, i)
           \/ CommitIncident(c)
    PROVE  TypeOK'
  <1>1. ASSUME NEW s \in SubOrder, ReadTarget(c, s)
        PROVE  TypeOK'
    <2>1. [at |-> "insert", target |-> s] \in Request
      BY DEF Request, Report
    <2> QED
      BY <1>1, <2>1, BeginType DEF ReadTarget, TypeOK
  <1>2. ASSUME NEW i \in Incident, InsertIncident(c, i)
        PROVE  TypeOK'
    <2> DEFINE r == [at |-> "commit", target |-> request[c].target, id |-> i,
                     team |-> admins]
    <2>1. request[c].target \in SubOrder
      BY <1>2, RequestKind DEF InsertIncident, Report
    <2>2. r \in Request
      BY <2>1 DEF Request, FanOut, admins
    <2>3. Become(c, r)
      BY <1>2 DEF InsertIncident
    <2> HIDE DEF r
    <2> QED
      BY <1>2, <2>2, <2>3, BecomeType DEF InsertIncident, TypeOK
  <1>3. CASE CommitIncident(c)
    <2> DEFINE r == request[c]
               keys == ToAdmins(r.id, r.team)
               s == [at |-> "dispatch", pending |-> keys]
               row == [status |-> "OPEN", target |-> r.target, by |-> Nobody]
    <2>1. r \in FanOut
      BY <1>3, RequestKind DEF CommitIncident
    <2>2. r.id \in Incident /\ r.target \in SubOrder /\ r.team \in SUBSET Admin
      BY <2>1 DEF FanOut
    <2>3. keys \in SUBSET Notice
      BY <2>2, NoticeOfIncident
    <2>4. s \in Request
      BY <2>3 DEF Request, Dispatch
    <2>5. Become(c, s)
      BY <1>3 DEF CommitIncident
    <2>6. row \in IncidentRow
      BY <2>2 DEF IncidentRow
    <2>7. incident' = [incident EXCEPT ![r.id] = row] /\ notice' = Told(notice, keys)
      BY <1>3 DEF CommitIncident
    <2>8. audience' \in [Incident -> SUBSET Admin] /\ late' \subseteq Incident
      BY <1>3, <2>2 DEF CommitIncident, TypeOK, admins
    <2> HIDE DEF r, keys, s, row
    <2>9. request' \in [Session -> Request] /\ served' \in 0 .. MaxRequests
      BY <2>4, <2>5, BecomeType
    <2>10. incident' \in [Incident -> IncidentRow]
      BY <2>2, <2>6, <2>7 DEF TypeOK
    <2>11. notice' \in [Notice -> Nat]
      BY <2>3, <2>7, ToldType
    <2> QED
      BY <1>3, <2>8, <2>9, <2>10, <2>11 DEF CommitIncident, TypeOK
  <1> QED
    BY <1>1, <1>2, <1>3

\* The resolution.
LEMMA ResolveType ==
    ASSUME TypeOK, NEW c \in Session,
           \/ \E i \in Incident, a \in Admin : ReadIncident(c, i, a)
           \/ ResolveIncident(c) \/ RefuseResolve(c)
    PROVE  TypeOK'
  <1>1. ASSUME NEW i \in Incident, NEW a \in Admin, ReadIncident(c, i, a)
        PROVE  TypeOK'
    <2>1. [at |-> "resolve", id |-> i, by |-> a] \in Request
      BY DEF Request, Resolve
    <2> QED
      BY <1>1, <2>1, BeginType DEF ReadIncident, TypeOK
  <1>2. CASE ResolveIncident(c)
    <2> DEFINE i == request[c].id
               a == request[c].by
               keys == {ToReporter(i)}
               s == [at |-> "dispatch", pending |-> keys]
    <2>1. i \in Incident /\ a \in Admin
      BY <1>2, RequestKind DEF ResolveIncident, Resolve
    <2>2. keys \in SUBSET Notice
      BY <2>1, NoticeOfIncident
    <2>3. s \in Request
      BY <2>2 DEF Request, Dispatch
    <2>4. Become(c, s)
      BY <1>2 DEF ResolveIncident
    <2>5. notice' = Told(notice, keys)
      BY <1>2 DEF ResolveIncident
    <2>6. incident[i] \in [status: {"OPEN"}, target: SubOrder, by: {Nobody}]
      BY <1>2, <2>1 DEF ResolveIncident, Claims, TypeOK, IncidentRow
    <2>7. Resolved(incident[i], a) \in IncidentRow
      BY <2>1, <2>6 DEF Resolved, IncidentRow
    <2>8. incident' \in [Incident -> IncidentRow]
      BY <1>2, <2>1, <2>7 DEF ResolveIncident, TypeOK
    <2> HIDE DEF i, a, keys, s
    <2>9. request' \in [Session -> Request] /\ served' \in 0 .. MaxRequests
      BY <2>3, <2>4, BecomeType
    <2>10. notice' \in [Notice -> Nat]
      BY <2>2, <2>5, ToldType
    <2> QED
      BY <1>2, <2>8, <2>9, <2>10 DEF ResolveIncident, TypeOK
  <1>3. CASE RefuseResolve(c)
    BY <1>3, IdleIsRequest, BecomeType DEF RefuseResolve, TypeOK
  <1> QED
    BY <1>1, <1>2, <1>3

\* Mails, crashes and reads.
LEMMA DispatchType ==
    ASSUME TypeOK, NEW c \in Session,
           \/ \E k \in Notice, succeeds \in BOOLEAN : Send(c, k, succeeds)
           \/ Respond(c) \/ Crash(c)
           \/ \E k \in Notice : ReadNotice(c, k)
           \/ MarkAsRead(c)
    PROVE  TypeOK'
  <1>1. ASSUME NEW k \in Notice, NEW succeeds \in BOOLEAN, Send(c, k, succeeds)
        PROVE  TypeOK'
    <2> DEFINE s == [request[c] EXCEPT !.pending = @ \ {k}]
    <2>1. request[c] \in Dispatch
      BY <1>1, RequestKind DEF Send
    <2>2. s \in Request
      BY <2>1 DEF Request, Dispatch
    <2>3. Become(c, s)
      BY <1>1 DEF Send
    <2>4. mail' \in [Notice -> Nat]
      BY <1>1 DEF Send, TypeOK
    <2> HIDE DEF s
    <2> QED
      BY <1>1, <2>2, <2>3, <2>4, BecomeType DEF Send, TypeOK
  <1>2. CASE Respond(c)
    BY <1>2, IdleIsRequest, BecomeType DEF Respond, TypeOK
  <1>3. CASE Crash(c)
    BY <1>3, IdleIsRequest, BecomeType DEF Crash, TypeOK
  <1>4. ASSUME NEW k \in Notice, ReadNotice(c, k)
        PROVE  TypeOK'
    <2>1. [at |-> "mark", notice |-> k] \in Request
      BY DEF Request, Mark
    <2> QED
      BY <1>4, <2>1, BeginType DEF ReadNotice, TypeOK
  <1>5. CASE MarkAsRead(c)
    <2>1. request[c].notice \in Notice
      BY <1>5, RequestKind DEF MarkAsRead, Mark
    <2>2. readAt' \in [Notice -> Nat] /\ twice' \subseteq Notice
      BY <1>5, <2>1 DEF MarkAsRead, TypeOK
    <2> QED
      BY <1>5, <2>2, IdleIsRequest, BecomeType DEF MarkAsRead, TypeOK
  <1> QED
    BY <1>1, <1>2, <1>3, <1>4, <1>5

\* Administrators.
LEMMA AdminType ==
    ASSUME TypeOK,
           \/ \E c \in Session :
                 (\E a \in Admin : CountAdmins(c, a)) \/ CreateAdmin(c)
           \/ \E s \in SubOrder : CancelSubOrder(s)
           \/ \E a \in Admin : DeleteAdmin(a)
    PROVE  TypeOK'
  <1>1. ASSUME NEW c \in Session, NEW a \in Admin, CountAdmins(c, a)
        PROVE  TypeOK'
    <2>1. [at |-> "bootstrap", by |-> a] \in Request
      BY DEF Request, Bootstrap
    <2> QED
      BY <1>1, <2>1, BeginType DEF CountAdmins, TypeOK
  <1>2. ASSUME NEW c \in Session, CreateAdmin(c)
        PROVE  TypeOK'
    BY <1>2, IdleIsRequest, BecomeType DEF CreateAdmin, TypeOK
  <1>3. ASSUME NEW s \in SubOrder, CancelSubOrder(s)
        PROVE  TypeOK'
    BY <1>3 DEF CancelSubOrder, TypeOK
  <1>4. ASSUME NEW a \in Admin, DeleteAdmin(a)
        PROVE  TypeOK'
    BY <1>4 DEF DeleteAdmin, TypeOK
  <1> QED
    BY <1>1, <1>2, <1>3, <1>4

\* The pages of the inbox.
LEMMA WalkType ==
    ASSUME TypeOK, StartWalk \/ ListRows \/ CountRows \/ NextPage
    PROVE  TypeOK'
  <1>1. Committed \in SUBSET Incident
    BY DEF Committed
  <1>2. IsFiniteSet(Committed)
    BY <1>1, SupportAssumption, FS_Subset
  <1>3. Cardinality(Committed) \in Nat
    BY <1>2, FS_CardinalityType
  <1>4. Walking => walk \in Walk
    BY DEF TypeOK, Walking, NoWalk
  <1>5. CASE StartWalk
    <2>1. walk' \in Walk
      BY <1>1, <1>5 DEF StartWalk, Walk
    <2>2. served' \in 0 .. MaxRequests
      BY <1>5, SupportAssumption DEF StartWalk, TypeOK
    <2> QED
      BY <1>5, <2>1, <2>2 DEF StartWalk, TypeOK
  <1>6. CASE ListRows
    <2>1. Page(walk.page, Committed) \in SUBSET Incident
      BY <1>1 DEF Page
    <2>2. walk' \in Walk
      BY <1>4, <1>6, <2>1 DEF ListRows, Walk
    <2> QED
      BY <1>6, <2>2 DEF ListRows, TypeOK
  <1>7. CASE CountRows
    <2>1. walk' \in Walk
      BY <1>3, <1>4, <1>7 DEF CountRows, Walk
    <2> QED
      BY <1>7, <2>1 DEF CountRows, TypeOK
  <1>8. CASE NextPage
    <2> DEFINE p == walk.page + 1
               none == 0 - 1
               next == [walk EXCEPT !.page = p, !.rows = FALSE, !.total = none]
    <2>0. walk \in Walk /\ p \in Nat \ {0} /\ none \in {0 - 1} \cup Nat
      BY <1>4, <1>8 DEF NextPage, Walk
    <2>1. next \in Walk
      <3> HIDE DEF p, none
      <3> QED BY <2>0 DEF Walk
    <2>2. walk' = IF LastPage THEN NoWalk ELSE next
      BY <1>8 DEF NextPage
    <2> HIDE DEF next
    <2>3. walk' \in {NoWalk} \cup Walk
      BY <2>1, <2>2
    <2> QED
      BY <1>8, <2>3 DEF NextPage, TypeOK
  <1> QED
    BY <1>5, <1>6, <1>7, <1>8

LEMMA StepType == TypeOK /\ [Next]_vars => TypeOK'
  <1> SUFFICES ASSUME TypeOK, [Next]_vars PROVE TypeOK'
    OBVIOUS
  <1>1. CASE Next
    BY <1>1, ReportType, ResolveType, DispatchType, AdminType, WalkType DEF Next
  <1>2. CASE UNCHANGED vars
    BY <1>2 DEF vars, TypeOK
  <1> QED
    BY <1>1, <1>2

\* Every reachable state of the support module is well typed; in particular an
\* incident has a resolver exactly when it is RESOLVED.
THEOREM TypeCorrect == Spec => []TypeOK
  BY InitType, StepType, PTL DEF Spec

-----------------------------------------------------------------------------
(* Incidents and what is told of them                                      *)

\* An incident that is not committed has told nobody ...
SilentInv ==
    \A i \in Incident : incident[i].status = "none" =>
       /\ audience[i] = {}
       /\ \A k \in Notice : k.about = i => notice[k] = 0

\* ... and at most one session is about to commit it.
FreshInv ==
    \A c \in Session : At(c, "commit") =>
       /\ incident[request[c].id].status = "none"
       /\ \A d \in Session \ {c} :
             At(d, "commit") => request[d].id # request[c].id

\* A mail that is to be sent has its notification, has not been sent, and is
\* on one session's list.
PendingInv ==
    \A c \in Session : At(c, "dispatch") =>
       \A k \in request[c].pending :
          /\ notice[k] = 1
          /\ mail[k] = 0
          /\ \A d \in Session \ {c} : At(d, "dispatch") => k \notin request[d].pending

TellInv == TypeOK /\ SilentInv /\ FreshInv /\ PendingInv /\ NoticesMatchIncidents

\* What a step does that tells nobody anything.
Quiet ==
    /\ UNCHANGED <<incident, notice, mail, audience, late>>
    /\ \A d \in Session :
          \/ request'[d] = request[d]
          \/ request'[d].at \notin {"commit", "dispatch"}

LEMMA QuietTell == TellInv /\ Quiet /\ TypeOK' => TellInv'
  <1> SUFFICES ASSUME TellInv, Quiet, TypeOK' PROVE TellInv'
    OBVIOUS
  <1>1. \A d \in Session :
           /\ At(d, "commit")' => At(d, "commit") /\ request'[d] = request[d]
           /\ At(d, "dispatch")' => At(d, "dispatch") /\ request'[d] = request[d]
    BY DEF Quiet, At
  <1>2. SilentInv'
    BY DEF TellInv, SilentInv, Quiet
  <1>3. FreshInv'
    <2> SUFFICES ASSUME NEW c \in Session, At(c, "commit")'
                 PROVE  /\ incident'[request'[c].id].status = "none"
                        /\ \A d \in Session \ {c} :
                              At(d, "commit")' => request'[d].id # request'[c].id
      BY DEF FreshInv
    <2>1. At(c, "commit") /\ request'[c] = request[c] /\ incident' = incident
      BY <1>1 DEF Quiet
    <2> QED
      BY <1>1, <2>1 DEF TellInv, FreshInv
  <1>4. PendingInv'
    <2> SUFFICES ASSUME NEW c \in Session, At(c, "dispatch")', NEW k \in request'[c].pending
                 PROVE  /\ notice'[k] = 1
                        /\ mail'[k] = 0
                        /\ \A d \in Session \ {c} :
                              At(d, "dispatch")' => k \notin request'[d].pending
      BY DEF PendingInv
    <2>1. At(c, "dispatch") /\ request'[c] = request[c] /\ notice' = notice /\ mail' = mail
      BY <1>1 DEF Quiet
    <2> QED
      BY <1>1, <2>1 DEF TellInv, PendingInv
  <1>5. NoticesMatchIncidents'
    BY DEF TellInv, NoticesMatchIncidents, Own, Committed, Exists, Reporter, Quiet
  <1> QED
    BY <1>2, <1>3, <1>4, <1>5 DEF TellInv

\* Every step but the four that tell.
LEMMA QuietSteps ==
    ASSUME TypeOK, [Next]_vars
    PROVE  \/ Quiet
           \/ \E c \in Session :
                 \/ \E i \in Incident : InsertIncident(c, i)
                 \/ CommitIncident(c) \/ ResolveIncident(c)
                 \/ \E k \in Notice, succeeds \in BOOLEAN : Send(c, k, succeeds)
  <1>1. ASSUME NEW c \in Session, NEW r \in Request, Begin(c, r) \/ Become(c, r),
               r.at \notin {"commit", "dispatch"},
               UNCHANGED <<incident, notice, mail, audience, late>>
        PROVE  Quiet
    BY <1>1, BeginType, BecomeType DEF Quiet
  <1>2. ASSUME NEW c \in Session, NEW s \in SubOrder, ReadTarget(c, s)
        PROVE  Quiet
    <2>1. [at |-> "insert", target |-> s] \in Request
      BY DEF Request, Report
    <2> QED
      BY <1>1, <1>2, <2>1 DEF ReadTarget
  <1>3. ASSUME NEW c \in Session, NEW i \in Incident, NEW a \in Admin, ReadIncident(c, i, a)
        PROVE  Quiet
    <2>1. [at |-> "resolve", id |-> i, by |-> a] \in Request
      BY DEF Request, Resolve
    <2> QED
      BY <1>1, <1>3, <2>1 DEF ReadIncident
  <1>4. ASSUME NEW c \in Session, NEW a \in Admin, CountAdmins(c, a)
        PROVE  Quiet
    <2>1. [at |-> "bootstrap", by |-> a] \in Request
      BY DEF Request, Bootstrap
    <2> QED
      BY <1>1, <1>4, <2>1 DEF CountAdmins
  <1>5. ASSUME NEW c \in Session, NEW k \in Notice, ReadNotice(c, k)
        PROVE  Quiet
    <2>1. [at |-> "mark", notice |-> k] \in Request
      BY DEF Request, Mark
    <2> QED
      BY <1>1, <1>5, <2>1 DEF ReadNotice
  <1>6. ASSUME NEW c \in Session,
               RefuseResolve(c) \/ Respond(c) \/ Crash(c) \/ MarkAsRead(c) \/ CreateAdmin(c)
        PROVE  Quiet
    <2>1. Become(c, Idle) /\ UNCHANGED <<incident, notice, mail, audience, late>>
      BY <1>6 DEF RefuseResolve, Respond, Crash, MarkAsRead, CreateAdmin
    <2> QED
      BY <1>1, <2>1, IdleIsRequest DEF Idle
  <1>7. CASE StartWalk \/ ListRows \/ CountRows \/ NextPage
    BY <1>7 DEF StartWalk, ListRows, CountRows, NextPage, Quiet
  <1>8. CASE \/ \E s \in SubOrder : CancelSubOrder(s)
             \/ \E a \in Admin : DeleteAdmin(a)
    BY <1>8 DEF CancelSubOrder, DeleteAdmin, Quiet
  <1>9. CASE UNCHANGED vars
    BY <1>9 DEF vars, Quiet
  <1>10. CASE Next
    BY <1>2, <1>3, <1>4, <1>5, <1>6, <1>7, <1>8, <1>10 DEF Next
  <1> QED
    BY <1>9, <1>10

LEMMA InsertTell ==
    ASSUME TellInv, TypeOK', NEW c \in Session, NEW i \in Incident, InsertIncident(c, i)
    PROVE  TellInv'
  <1> DEFINE r == [at |-> "commit", target |-> request[c].target, id |-> i,
                   team |-> admins]
  <1>1. /\ request'[c] = r
        /\ \A d \in Session \ {c} : request'[d] = request[d]
        /\ UNCHANGED <<incident, notice, mail, audience, late>>
    BY DEF InsertIncident, Become, TellInv, TypeOK
  <1>2. r.at = "commit" /\ r.id = i
    OBVIOUS
  <1>3. ~Exists(i) /\ \A d \in Session : At(d, "commit") => request[d].id # i
    <2>1. \A d \in Session : At(d, "commit") => request[d].id \in Nat
      BY RequestKind, SupportAssumption DEF TellInv, FanOut
    <2> QED
      BY <2>1, SupportAssumption DEF InsertIncident, Newest, Committed
  <1> HIDE DEF r
  <1>4. SilentInv' /\ FreshInv'
    <2>1. \A d \in Session \ {c} : At(d, "commit")' <=> At(d, "commit")
      BY <1>1 DEF At
    <2>2. SilentInv'
      BY <1>1 DEF TellInv, SilentInv
    <2>3. FreshInv'
      BY <1>1, <1>2, <1>3, <2>1 DEF TellInv, FreshInv, Exists
    <2> QED
      BY <2>2, <2>3
  <1>5. PendingInv'
    BY <1>1, <1>2 DEF TellInv, PendingInv, At
  <1>6. NoticesMatchIncidents'
    BY <1>1 DEF TellInv, NoticesMatchIncidents, Own, Committed, Exists, Reporter
  <1> QED
    BY <1>4, <1>5, <1>6 DEF TellInv

\* What the commit of an incident does to the rows.
LEMMA CommitTell ==
    ASSUME TellInv, TypeOK', NEW c \in Session, CommitIncident(c)
    PROVE  TellInv'
  <1> DEFINE r == request[c]
             i == r.id
             keys == ToAdmins(i, r.team)
             s == [at |-> "dispatch", pending |-> keys]
  <1>1. i \in Incident /\ r.target \in SubOrder /\ r.team \in SUBSET Admin /\ At(c, "commit")
    BY RequestKind DEF CommitIncident, TellInv, FanOut
  <1>2. keys \in SUBSET Notice
    BY <1>1, NoticeOfIncident DEF TellInv
  <1>3. /\ request'[c] = s
        /\ \A d \in Session \ {c} : request'[d] = request[d]
        /\ mail' = mail
    BY DEF CommitIncident, Become, TellInv, TypeOK
  <1>4. /\ incident'[i].status = "OPEN"
        /\ \A j \in Incident \ {i} : incident'[j] = incident[j]
    BY <1>1 DEF CommitIncident, TellInv, TypeOK
  <1>5. /\ audience'[i] = admins
        /\ \A j \in Incident \ {i} : audience'[j] = audience[j]
        /\ late' = IF r.team = admins THEN late ELSE late \cup {i}
    BY <1>1 DEF CommitIncident, TellInv, TypeOK
  <1>6. /\ \A k \in keys : notice'[k] = notice[k] + 1
        /\ \A k \in Notice \ keys : notice'[k] = notice[k]
    BY <1>2 DEF CommitIncident, Told
  <1>7. \A k \in keys : k.about = i /\ k.to \in Admin
    BY <1>1 DEF ToAdmins
  <1>8. /\ incident[i].status = "none"
        /\ audience[i] = {} /\ \A k \in Notice : k.about = i => notice[k] = 0
    BY <1>1 DEF TellInv, FreshInv, SilentInv
  <1>9. \A k \in keys : notice'[k] = 1 /\ mail[k] = 0
    <2>1. \A k \in keys : notice[k] = 0 /\ mail[k] <= notice[k] /\ mail[k] \in Nat
      BY <1>2, <1>7, <1>8 DEF TellInv, NoticesMatchIncidents, TypeOK
    <2> QED
      BY <1>6, <2>1
  <1>10. \A d \in Session \ {c} : At(d, "dispatch") => request[d].pending \cap keys = {}
    <2> SUFFICES ASSUME NEW d \in Session \ {c}, At(d, "dispatch"),
                        NEW k \in request[d].pending, k \in keys
                 PROVE  FALSE
      OBVIOUS
    <2>1. notice[k] = 1
      BY DEF TellInv, PendingInv
    <2> QED
      BY <1>2, <1>7, <1>8, <2>1
  <1>11. \A d \in Session : At(d, "commit") => request[d].id \in Incident
    BY RequestKind DEF TellInv, FanOut
  <1>12. \A k \in Notice : k.about \in Incident
    BY DEF Notice
  <1>13. s.at = "dispatch" /\ s.pending = keys
    OBVIOUS
  <1>14. r.target = incident'[i].target
    BY <1>1 DEF CommitIncident, TellInv, TypeOK
  <1>15. i \notin late' => \A a \in admins : [about |-> i, to |-> a] \in keys
    BY <1>5 DEF ToAdmins
  <1>16. \A d \in Session \ {c} : At(d, "commit") => request[d].id # i
    BY <1>1 DEF TellInv, FreshInv
  <1> HIDE DEF i, keys, s, r
  <1>17. SilentInv'
    <2> SUFFICES ASSUME NEW j \in Incident, incident'[j].status = "none"
                 PROVE  /\ audience'[j] = {}
                        /\ \A k \in Notice : k.about = j => notice'[k] = 0
      BY DEF SilentInv
    <2>1. j # i
      BY <1>4
    <2>2. audience'[j] = {} /\ \A k \in Notice : k.about = j => notice[k] = 0
      BY <1>4, <1>5, <2>1 DEF TellInv, SilentInv
    <2> QED
      BY <1>6, <1>7, <2>1, <2>2
  <1>18. FreshInv'
    <2> SUFFICES ASSUME NEW d \in Session, At(d, "commit")'
                 PROVE  /\ incident'[request'[d].id].status = "none"
                        /\ \A e \in Session \ {d} :
                              At(e, "commit")' => request'[e].id # request'[d].id
      BY DEF FreshInv
    <2>1. \A e \in Session : At(e, "commit")' =>
             e # c /\ At(e, "commit") /\ request'[e] = request[e]
      BY <1>3, <1>13 DEF At
    <2>2. request[d].id \in Incident \ {i}
      BY <1>11, <1>16, <2>1
    <2> QED
      BY <1>4, <2>1, <2>2 DEF TellInv, FreshInv
  <1>19. PendingInv'
    <2> SUFFICES ASSUME NEW d \in Session, At(d, "dispatch")',
                        NEW k \in request'[d].pending
                 PROVE  /\ notice'[k] = 1
                        /\ mail'[k] = 0
                        /\ \A e \in Session \ {d} :
                              At(e, "dispatch")' => k \notin request'[e].pending
      BY DEF PendingInv
    <2>1. \A e \in Session \ {c} : At(e, "dispatch")' <=> At(e, "dispatch")
      BY <1>3 DEF At
    <2>2. CASE d = c
      BY <1>3, <1>9, <1>10, <1>13, <2>1, <2>2
    <2>3. CASE d # c
      <3>1. At(d, "dispatch") /\ k \in request[d].pending
        BY <1>3, <2>1, <2>3
      <3>2. k \in Notice \ keys
        BY <1>10, <2>3, <3>1, RequestKind DEF TellInv, Dispatch
      <3> QED
        BY <1>3, <1>6, <1>13, <2>1, <2>3, <3>1, <3>2 DEF TellInv, PendingInv
    <2> QED
      BY <2>2, <2>3
  <1>20. NoticesMatchIncidents'
    <2>1. \A j \in Incident : \A a \in audience'[j] :
             j \in late' \/ notice'[[about |-> j, to |-> a]] = 1
      <3> SUFFICES ASSUME NEW j \in Incident, NEW a \in audience'[j], j \notin late'
                   PROVE  notice'[[about |-> j, to |-> a]] = 1
        OBVIOUS
      <3>1. CASE j = i
        BY <1>5, <1>9, <1>15, <3>1
      <3>2. CASE j # i
        <4>1. a \in audience[j] /\ a \in Admin /\ j \notin late
          BY <1>5, <3>2 DEF TellInv, TypeOK
        <4>2. [about |-> j, to |-> a] \in Notice \ keys
          BY <1>7, <3>2, <4>1 DEF Notice
        <4> QED
          BY <1>6, <4>1, <4>2 DEF TellInv, NoticesMatchIncidents
      <3> QED
        BY <3>1, <3>2
    <2>2. ASSUME NEW j \in Incident, NEW b \in Buyer
          PROVE  notice'[[about |-> j, to |-> b]] =
                    IF j \in Own(b)' /\ incident'[j].status = "RESOLVED" THEN 1 ELSE 0
      <3>1. [about |-> j, to |-> b] \in Notice \ keys
        BY <1>7, SupportAssumption DEF Notice
      <3>2. notice'[[about |-> j, to |-> b]] =
               IF j \in Own(b) /\ incident[j].status = "RESOLVED" THEN 1 ELSE 0
        BY <1>6, <3>1 DEF TellInv, NoticesMatchIncidents
      <3>3. CASE j = i
        BY <1>4, <1>8, <3>2, <3>3 DEF Own, Committed, Exists
      <3>4. CASE j # i
        <4>1. incident'[j] = incident[j]
          BY <1>4, <3>4
        <4>2. j \in Own(b)' <=> j \in Own(b)
          BY <4>1 DEF Own, Committed, Exists, Reporter
        <4> QED
          BY <3>2, <4>1, <4>2
      <3> QED
        BY <3>3, <3>4
    <2>3. \A k \in Notice : mail'[k] <= notice'[k]
      <3>1. \A k \in Notice : mail[k] <= notice[k]
        BY DEF TellInv, NoticesMatchIncidents
      <3> QED
        BY <1>3, <1>6, <1>9, <3>1
    <2> QED
      BY <2>1, <2>2, <2>3 DEF NoticesMatchIncidents
  <1> QED
    BY <1>17, <1>18, <1>19, <1>20 DEF TellInv

\* The claim of an open incident tells its reporter, and nobody else.
LEMMA ResolveTell ==
    ASSUME TellInv, TypeOK', NEW c \in Session, ResolveIncident(c)
    PROVE  TellInv'
  <1> DEFINE i == request[c].id
             key == ToReporter(i)
             s == [at |-> "dispatch", pending |-> {key}]
  <1>1. i \in Incident /\ request[c].by \in Admin
    BY RequestKind DEF ResolveIncident, TellInv, Resolve
  <1>2. key \in Notice /\ Reporter(i) \in Buyer /\ key = [about |-> i, to |-> Reporter(i)]
    BY <1>1, NoticeOfIncident DEF TellInv, ToReporter
  <1>3. /\ request'[c] = s
        /\ \A d \in Session \ {c} : request'[d] = request[d]
        /\ mail' = mail /\ audience' = audience /\ late' = late
    BY DEF ResolveIncident, Become, TellInv, TypeOK
  <1>4. incident[i].status = "OPEN"
    BY DEF ResolveIncident, Claims
  <1>5. \A j \in Incident \ {i} : incident'[j] = incident[j]
    BY <1>1 DEF ResolveIncident, TellInv, TypeOK
  <1>6. incident'[i].status = "RESOLVED" /\ incident'[i].target = incident[i].target
    <2>1. incident[i] \in IncidentRow /\ incident'[i] = Resolved(incident[i], request[c].by)
      BY <1>1 DEF ResolveIncident, TellInv, TypeOK
    <2> QED
      BY <2>1 DEF Resolved, IncidentRow
  <1>7. /\ notice'[key] = notice[key] + 1
        /\ \A k \in Notice \ {key} : notice'[k] = notice[k]
    BY <1>2 DEF ResolveIncident, Told
  <1>8. notice[key] = 0
    BY <1>1, <1>2, <1>4 DEF TellInv, NoticesMatchIncidents
  <1>9. mail[key] = 0
    BY <1>2, <1>8 DEF TellInv, NoticesMatchIncidents, TypeOK
  <1>10. \A d \in Session \ {c} : At(d, "dispatch") => key \notin request[d].pending
    BY <1>8 DEF TellInv, PendingInv
  <1>11. s.at = "dispatch" /\ s.pending = {key}
    OBVIOUS
  <1>12. \A d \in Session : At(d, "commit") => request[d].id \in Incident \ {i}
    BY <1>4, RequestKind DEF TellInv, FreshInv, FanOut
  <1>13. \A d \in Session : At(d, "dispatch") => request[d].pending \subseteq Notice
    BY RequestKind DEF TellInv, Dispatch
  <1> HIDE DEF i, key, s
  <1>14. SilentInv'
    <2> SUFFICES ASSUME NEW j \in Incident, incident'[j].status = "none"
                 PROVE  /\ audience'[j] = {}
                        /\ \A k \in Notice : k.about = j => notice'[k] = 0
      BY DEF SilentInv
    <2>1. j # i /\ incident[j].status = "none"
      BY <1>5, <1>6
    <2>2. key.about = i
      BY <1>2
    <2> QED
      BY <1>3, <1>7, <2>1, <2>2 DEF TellInv, SilentInv
  <1>15. FreshInv'
    <2> SUFFICES ASSUME NEW d \in Session, At(d, "commit")'
                 PROVE  /\ incident'[request'[d].id].status = "none"
                        /\ \A e \in Session \ {d} :
                              At(e, "commit")' => request'[e].id # request'[d].id
      BY DEF FreshInv
    <2>1. \A e \in Session : At(e, "commit")' =>
             e # c /\ At(e, "commit") /\ request'[e] = request[e]
      BY <1>3, <1>11 DEF At
    <2> QED
      BY <1>5, <1>12, <2>1 DEF TellInv, FreshInv
  <1>16. PendingInv'
    <2> SUFFICES ASSUME NEW d \in Session, At(d, "dispatch")',
                        NEW k \in request'[d].pending
                 PROVE  /\ notice'[k] = 1
                        /\ mail'[k] = 0
                        /\ \A e \in Session \ {d} :
                              At(e, "dispatch")' => k \notin request'[e].pending
      BY DEF PendingInv
    <2>1. \A e \in Session \ {c} : At(e, "dispatch")' <=> At(e, "dispatch")
      BY <1>3 DEF At
    <2>2. CASE d = c
      BY <1>3, <1>7, <1>8, <1>9, <1>10, <1>11, <2>1, <2>2
    <2>3. CASE d # c
      <3>1. At(d, "dispatch") /\ k \in request[d].pending
        BY <1>3, <2>1, <2>3
      <3>2. k \in Notice \ {key}
        BY <1>10, <1>13, <2>3, <3>1
      <3> QED
        BY <1>3, <1>7, <1>11, <2>1, <2>3, <3>1, <3>2 DEF TellInv, PendingInv
    <2> QED
      BY <2>2, <2>3
  <1>17. NoticesMatchIncidents'
    <2>1. \A j \in Incident : \A a \in audience'[j] :
             j \in late' \/ notice'[[about |-> j, to |-> a]] = 1
      <3> SUFFICES ASSUME NEW j \in Incident, NEW a \in audience[j], j \notin late
                   PROVE  notice'[[about |-> j, to |-> a]] = 1
        BY <1>3
      <3>1. a \in Admin
        BY DEF TellInv, TypeOK
      <3>2. [about |-> j, to |-> a] \in Notice \ {key}
        BY <1>2, <3>1, SupportAssumption DEF Notice
      <3> QED
        BY <1>7, <3>2 DEF TellInv, NoticesMatchIncidents
    <2>2. ASSUME NEW j \in Incident, NEW b \in Buyer
          PROVE  notice'[[about |-> j, to |-> b]] =
                    IF j \in Own(b)' /\ incident'[j].status = "RESOLVED" THEN 1 ELSE 0
      <3>1. [about |-> j, to |-> b] \in Notice
        BY DEF Notice
      <3>2. notice[[about |-> j, to |-> b]] =
               IF j \in Own(b) /\ incident[j].status = "RESOLVED" THEN 1 ELSE 0
        BY DEF TellInv, NoticesMatchIncidents
      <3>3. CASE j = i
        <4>1. j \in Own(b)' <=> Reporter(i) = b
          BY <1>1, <1>6, <3>3 DEF Own, Committed, Exists, Reporter
        <4>2. CASE Reporter(i) = b
          BY <1>2, <1>6, <1>7, <1>8, <3>3, <4>1, <4>2
        <4>3. CASE Reporter(i) # b
          <5>1. [about |-> j, to |-> b] # key
            BY <1>2, <4>3
          <5> QED
            BY <1>4, <1>7, <3>1, <3>2, <3>3, <4>1, <4>3, <5>1
        <4> QED
          BY <4>2, <4>3
      <3>4. CASE j # i
        <4>1. incident'[j] = incident[j] /\ [about |-> j, to |-> b] # key
          BY <1>2, <1>5, <3>4
        <4>2. j \in Own(b)' <=> j \in Own(b)
          BY <4>1 DEF Own, Committed, Exists, Reporter
        <4> QED
          BY <1>7, <3>1, <3>2, <4>1, <4>2
      <3> QED
        BY <3>3, <3>4
    <2>3. \A k \in Notice : mail'[k] <= notice'[k]
      <3>1. \A k \in Notice : mail[k] <= notice[k]
        BY DEF TellInv, NoticesMatchIncidents
      <3> QED
        BY <1>3, <1>7, <1>8, <1>9, <3>1
    <2> QED
      BY <2>1, <2>2, <2>3 DEF NoticesMatchIncidents
  <1> QED
    BY <1>14, <1>15, <1>16, <1>17 DEF TellInv

\* A mail leaves its list when it is sent, or dropped.
LEMMA SendTell ==
    ASSUME TellInv, TypeOK', NEW c \in Session, NEW k \in Notice,
           NEW succeeds \in BOOLEAN, Send(c, k, succeeds)
    PROVE  TellInv'
  <1>1. /\ \A d \in Session \ {c} : request'[d] = request[d]
        /\ UNCHANGED <<incident, notice, audience, late>>
        /\ At(c, "dispatch") /\ k \in request[c].pending
    BY DEF Send, Become, TellInv, TypeOK
  <1>2. request'[c].at = "dispatch" /\ request'[c].pending = request[c].pending \ {k}
    <2>1. request[c] \in Dispatch /\ request'[c] = [request[c] EXCEPT !.pending = @ \ {k}]
      BY RequestKind DEF Send, Become, TellInv, TypeOK
    <2> QED
      BY <2>1 DEF Dispatch
  <1>3. /\ notice[k] = 1 /\ mail[k] = 0
        /\ \A d \in Session \ {c} : At(d, "dispatch") => k \notin request[d].pending
    BY <1>1 DEF TellInv, PendingInv
  <1>4. mail'[k] \in {0, 1} /\ \A l \in Notice \ {k} : mail'[l] = mail[l]
    BY <1>3 DEF Send, TellInv, TypeOK
  <1>5. \A d \in Session : At(d, "dispatch") => request[d].pending \subseteq Notice
    BY RequestKind DEF TellInv, Dispatch
  <1>6. SilentInv'
    BY <1>1 DEF TellInv, SilentInv
  <1>7. FreshInv'
    <2>1. \A e \in Session : At(e, "commit")' =>
             e # c /\ At(e, "commit") /\ request'[e] = request[e]
      BY <1>1, <1>2 DEF At
    <2> QED
      BY <1>1, <2>1 DEF TellInv, FreshInv
  <1>8. PendingInv'
    <2> SUFFICES ASSUME NEW d \in Session, At(d, "dispatch")',
                        NEW l \in request'[d].pending
                 PROVE  /\ notice'[l] = 1
                        /\ mail'[l] = 0
                        /\ \A e \in Session \ {d} :
                              At(e, "dispatch")' => l \notin request'[e].pending
      BY DEF PendingInv
    <2>1. \A e \in Session : At(e, "dispatch")' <=> At(e, "dispatch")
      BY <1>1, <1>2 DEF At
    <2>2. \A e \in Session : At(e, "dispatch") => request'[e].pending \subseteq request[e].pending
      BY <1>1, <1>2
    <2>3. At(d, "dispatch") /\ l \in request[d].pending /\ l \in Notice \ {k}
      BY <1>1, <1>2, <1>3, <1>5, <2>1
    <2> QED
      BY <1>1, <1>4, <2>1, <2>2, <2>3 DEF TellInv, PendingInv
  <1>9. NoticesMatchIncidents'
    <2>1. \A l \in Notice : mail'[l] <= notice'[l]
      BY <1>1, <1>3, <1>4 DEF TellInv, NoticesMatchIncidents
    <2>2. \A j \in Incident, b \in Buyer : j \in Own(b)' <=> j \in Own(b)
      BY <1>1 DEF Own, Committed, Exists, Reporter
    <2> QED
      BY <1>1, <2>1, <2>2 DEF TellInv, NoticesMatchIncidents
  <1> QED
    BY <1>6, <1>7, <1>8, <1>9 DEF TellInv

LEMMA InitTell == Init => TellInv
  <1> SUFFICES ASSUME Init PROVE TellInv
    OBVIOUS
  <1>1. \A i \in Incident : incident[i].status = "none" /\ audience[i] = {}
    BY DEF Init
  <1>2. \A k \in Notice : notice[k] = 0 /\ mail[k] = 0
    BY DEF Init
  <1>3. \A c \in Session : ~At(c, "commit") /\ ~At(c, "dispatch")
    BY DEF Init, At, Idle
  <1>4. \A i \in Incident, b \in Buyer : [about |-> i, to |-> b] \in Notice
    BY DEF Notice
  <1>5. NoticesMatchIncidents
    BY <1>1, <1>2, <1>4 DEF NoticesMatchIncidents, Own, Committed, Exists
  <1>6. SilentInv /\ FreshInv /\ PendingInv
    BY <1>1, <1>2, <1>3 DEF SilentInv, FreshInv, PendingInv
  <1> QED
    BY <1>5, <1>6, InitType DEF TellInv

LEMMA TellStep == TellInv /\ [Next]_vars => TellInv'
  <1> SUFFICES ASSUME TellInv, [Next]_vars PROVE TellInv'
    OBVIOUS
  <1>1. TypeOK /\ TypeOK'
    BY StepType DEF TellInv
  <1> QED
    BY <1>1, QuietSteps, QuietTell, InsertTell, CommitTell, ResolveTell, SendTell

\* Incidents and what is told of them commit together: every administrator of
\* the moment is told of a report once, its reporter of the resolution once and
\* not before, no other buyer of anything; no mail is without a notification.
THEOREM NoticesMatch == Spec => []NoticesMatchIncidents
  <1>1. TellInv => NoticesMatchIncidents
    BY DEF TellInv
  <1> QED
    BY <1>1, InitTell, TellStep, PTL DEF Spec

-----------------------------------------------------------------------------
(* The resolution                                                          *)

LEMMA ResolutionStep ==
    ASSUME TellInv, TypeOK', [Next]_vars, NEW i \in Incident,
           incident[i].status = "RESOLVED"
    PROVE  Audit(i)' = Audit(i)
  <1>1. incident'[i] = incident[i]
    <2>1. CASE Quiet
      BY <2>1 DEF Quiet
    <2>2. ASSUME NEW c \in Session,
                 \/ \E j \in Incident : InsertIncident(c, j)
                 \/ \E k \in Notice, succeeds \in BOOLEAN : Send(c, k, succeeds)
          PROVE  incident'[i] = incident[i]
      BY <2>2 DEF InsertIncident, Send
    <2>3. ASSUME NEW c \in Session, CommitIncident(c)
          PROVE  incident'[i] = incident[i]
      <3>1. request[c].id \in Incident
        BY <2>3, RequestKind DEF CommitIncident, TellInv, FanOut
      <3>2. incident[request[c].id].status = "none"
        BY <2>3 DEF CommitIncident, TellInv, FreshInv
      <3> QED
        BY <2>3, <3>1, <3>2 DEF CommitIncident, TellInv, TypeOK
    <2>4. ASSUME NEW c \in Session, ResolveIncident(c)
          PROVE  incident'[i] = incident[i]
      <3>1. incident[request[c].id].status = "OPEN"
        BY <2>4 DEF ResolveIncident, Claims
      <3> QED
        BY <2>4, <3>1 DEF ResolveIncident, TellInv, TypeOK
    <2> QED
      BY <2>1, <2>2, <2>3, <2>4, QuietSteps DEF TellInv
  <1> QED
    BY <1>1 DEF Audit, Reporter

\* The first resolution is final: no later request changes the status or the
\* audit of a RESOLVED incident, whoever sends it and however they interleave.
THEOREM ResolutionFinal == Spec => ResolutionIsFinal
  <1>1. TellInv /\ [Next]_vars =>
           [\A i \in Incident :
               incident[i].status = "RESOLVED" => Audit(i)' = Audit(i)]_vars
    <2> SUFFICES ASSUME TellInv, [Next]_vars, NEW i \in Incident,
                        incident[i].status = "RESOLVED"
                 PROVE  Audit(i)' = Audit(i)
      OBVIOUS
    <2>1. TypeOK'
      BY StepType DEF TellInv
    <2> QED
      BY <2>1, ResolutionStep
  <1> QED
    BY <1>1, InitTell, TellStep, PTL DEF Spec, ResolutionIsFinal

-----------------------------------------------------------------------------
(* The time of the first read                                              *)

\* A notice that is read has no request about to mark it, races aside.
StampInv ==
    \A k \in Notice \ twice :
       \/ readAt[k] = 0
       \/ /\ readAt[k] = 1
          /\ \A c \in Session : At(c, "mark") => request[c].notice # k

\* What a step does that marks nothing.
Unmarking ==
    /\ UNCHANGED <<readAt, twice>>
    /\ \A d \in Session : request'[d] = request[d] \/ request'[d].at # "mark"

LEMMA UnmarkingSteps ==
    ASSUME TypeOK, [Next]_vars
    PROVE  \/ Unmarking
           \/ \E c \in Session : MarkAsRead(c) \/ \E k \in Notice : ReadNotice(c, k)
  <1>1. ASSUME NEW c \in Session, NEW r \in Request, Begin(c, r) \/ Become(c, r),
               r.at # "mark", UNCHANGED <<readAt, twice>>
        PROVE  Unmarking
    BY <1>1, BeginType, BecomeType DEF Unmarking
  <1>2. ASSUME NEW c \in Session, NEW s \in SubOrder, ReadTarget(c, s)
        PROVE  Unmarking
    <2>1. [at |-> "insert", target |-> s] \in Request
      BY DEF Request, Report
    <2> QED
      BY <1>1, <1>2, <2>1 DEF ReadTarget
  <1>3. ASSUME NEW c \in Session, NEW i \in Incident, NEW a \in Admin, ReadIncident(c, i, a)
        PROVE  Unmarking
    <2>1. [at |-> "resolve", id |-> i, by |-> a] \in Request
      BY DEF Request, Resolve
    <2> QED
      BY <1>1, <1>3, <2>1 DEF ReadIncident
  <1>4. ASSUME NEW c \in Session, NEW a \in Admin, CountAdmins(c, a)
        PROVE  Unmarking
    <2>1. [at |-> "bootstrap", by |-> a] \in Request
      BY DEF Request, Bootstrap
    <2> QED
      BY <1>1, <1>4, <2>1 DEF CountAdmins
  <1>5. ASSUME NEW c \in Session,
               \/ \E i \in Incident : InsertIncident(c, i)
               \/ CommitIncident(c) \/ ResolveIncident(c)
               \/ \E k \in Notice, succeeds \in BOOLEAN : Send(c, k, succeeds)
        PROVE  Unmarking
    <2>1. ASSUME NEW r, r.at # "mark", Become(c, r), UNCHANGED <<readAt, twice>>
          PROVE  Unmarking
      BY <2>1 DEF Become, Unmarking, TypeOK
    <2>2. CASE \E i \in Incident : InsertIncident(c, i)
      BY <2>1, <2>2 DEF InsertIncident
    <2>3. CASE CommitIncident(c) \/ ResolveIncident(c)
      BY <2>1, <2>3 DEF CommitIncident, ResolveIncident
    <2>4. CASE \E k \in Notice, succeeds \in BOOLEAN : Send(c, k, succeeds)
      <3>1. request[c] \in Dispatch
        BY <2>4, RequestKind DEF Send
      <3>2. \A k \in Notice : [request[c] EXCEPT !.pending = @ \ {k}].at # "mark"
        BY <3>1 DEF Dispatch
      <3> QED
        BY <2>1, <2>4, <3>2 DEF Send
    <2> QED
      BY <1>5, <2>2, <2>3, <2>4
  <1>6. ASSUME NEW c \in Session,
               RefuseResolve(c) \/ Respond(c) \/ Crash(c) \/ CreateAdmin(c)
        PROVE  Unmarking
    <2>1. Become(c, Idle) /\ UNCHANGED <<readAt, twice>>
      BY <1>6 DEF RefuseResolve, Respond, Crash, CreateAdmin
    <2> QED
      BY <1>1, <2>1, IdleIsRequest DEF Idle
  <1>7. CASE StartWalk \/ ListRows \/ CountRows \/ NextPage
    BY <1>7 DEF StartWalk, ListRows, CountRows, NextPage, Unmarking
  <1>8. CASE \/ \E s \in SubOrder : CancelSubOrder(s)
             \/ \E a \in Admin : DeleteAdmin(a)
    BY <1>8 DEF CancelSubOrder, DeleteAdmin, Unmarking
  <1>9. CASE UNCHANGED vars
    BY <1>9 DEF vars, Unmarking
  <1>10. CASE Next
    BY <1>2, <1>3, <1>4, <1>5, <1>6, <1>7, <1>8, <1>10 DEF Next
  <1> QED
    BY <1>9, <1>10

LEMMA StampStep == TypeOK /\ StampInv /\ [Next]_vars => StampInv'
  <1> SUFFICES ASSUME TypeOK, StampInv, [Next]_vars PROVE StampInv'
    OBVIOUS
  <1>1. CASE Unmarking
    BY <1>1 DEF Unmarking, StampInv, At
  <1>2. ASSUME NEW c \in Session, NEW k \in Notice, ReadNotice(c, k)
        PROVE  StampInv'
    <2> DEFINE r == [at |-> "mark", notice |-> k]
    <2>1. /\ request'[c] = r
          /\ \A d \in Session \ {c} : request'[d] = request[d]
          /\ readAt' = readAt /\ twice' = twice /\ readAt[k] = 0
      BY <1>2 DEF ReadNotice, Unread, Begin, TypeOK
    <2>2. r.notice = k
      OBVIOUS
    <2> HIDE DEF r
    <2> QED
      BY <2>1, <2>2 DEF StampInv, At
  <1>3. ASSUME NEW c \in Session, MarkAsRead(c)
        PROVE  StampInv'
    <2> DEFINE k == request[c].notice
    <2>1. request[c] \in Mark /\ k \in Notice /\ At(c, "mark")
      BY <1>3, RequestKind DEF MarkAsRead, Mark
    <2>2. /\ readAt'[k] = readAt[k] + 1
          /\ \A l \in Notice \ {k} : readAt'[l] = readAt[l]
          /\ request'[c] = Idle
          /\ \A d \in Session \ {c} : request'[d] = request[d]
          /\ twice' = IF \E d \in Session \ {c} : request[d] = request[c]
                      THEN twice \cup {k} ELSE twice
      BY <1>3, <2>1 DEF MarkAsRead, Become, TypeOK
    <2>3. Idle.at # "mark"
      BY DEF Idle
    <2>4. \A d \in Session : At(d, "mark") /\ request[d].notice = k => request[d] = request[c]
      <3>1. \A d \in Session : At(d, "mark") => request[d] \in Mark
        BY RequestKind
      <3> QED
        BY <2>1, <3>1 DEF Mark
    <2>5. ASSUME NEW l \in Notice \ twice'
          PROVE  (\/ readAt[l] = 0
                  \/ /\ readAt[l] = 1
                     /\ \A d \in Session : At(d, "mark") => request[d].notice # l)'
      <3>1. l \in Notice \ twice
        BY <2>2
      <3>2. CASE l = k
        <4>1. readAt[l] = 0
          BY <2>1, <3>1, <3>2 DEF StampInv
        <4>2. readAt'[l] = 1
          BY <2>2, <3>2, <4>1
        <4>3. \A d \in Session \ {c} : request[d] # request[c]
          BY <2>2, <3>2
        <4>4. \A d \in Session : At(d, "mark")' => d # c /\ At(d, "mark")
          BY <2>2, <2>3 DEF At
        <4> QED
          BY <2>2, <2>4, <3>2, <4>2, <4>3, <4>4
      <3>3. CASE l # k
        <4>1. \A d \in Session : At(d, "mark")' => d # c /\ At(d, "mark")
          BY <2>2, <2>3 DEF At
        <4> QED
          BY <2>2, <3>1, <3>3, <4>1 DEF StampInv
      <3> QED
        BY <3>2, <3>3
    <2> QED
      BY <2>5 DEF StampInv
  <1> QED
    BY <1>1, <1>2, <1>3, UnmarkingSteps

\* A notification is stamped at most once, unless two requests found it unread.
THEOREM StampKept == Spec => []ReadStampKept
  <1>1. Init => StampInv
    BY DEF Init, StampInv
  <1>2. TypeOK /\ StampInv => ReadStampKept
    BY DEF StampInv, ReadStampKept, TypeOK
  <1> QED
    BY <1>1, <1>2, InitType, StepType, StampStep, PTL DEF Spec

-----------------------------------------------------------------------------
(* The walk through the inbox.  An incident only ever moves down the list, *)
(* so one that the pages read so far did not show is still further on.     *)

Unseen == walk.known \ walk.seen

\* The pages whose rows have been read.
Passed == IF walk.rows THEN walk.page ELSE walk.page - 1

WalkInv ==
    Walking =>
       /\ walk.known \subseteq Committed
       /\ \A i \in Unseen : Limit * Passed <= Rank(i, Committed)
       /\ Complete /\ ~walk.torn
             => \A i \in Unseen : Limit * walk.page < walk.total

LEMMA QuotientBounds ==
    ASSUME NEW r \in Nat, NEW n \in Nat \ {0}
    PROVE  /\ r \div n \in Nat
           /\ n * (r \div n) <= r
           /\ r < n * (r \div n) + n
  OBVIOUS

LEMMA FactorsGrow ==
    ASSUME NEW a \in Nat, NEW b \in Nat, NEW n \in Nat, a <= b
    PROVE  n * a <= n * b
  OBVIOUS

\* A rank past the pages before m, and not on page m, is past page m.
LEMMA PastPage ==
    ASSUME NEW r \in Nat, NEW m \in Nat, Limit * m <= r, r \div Limit # m
    PROVE  Limit * (m + 1) <= r
  <1> DEFINE q == r \div Limit
  <1>1. q \in Nat /\ Limit * q <= r /\ r < Limit * q + Limit
    BY SupportAssumption, QuotientBounds
  <1>2. q # m
    OBVIOUS
  <1> HIDE DEF q
  <1>3. CASE q < m
    <2>1. Limit * (q + 1) <= Limit * m
      BY <1>1, <1>3, SupportAssumption, FactorsGrow
    <2>2. Limit * (q + 1) = Limit * q + Limit
      BY <1>1, SupportAssumption
    <2>3. Limit * q \in Nat /\ Limit * m \in Nat
      BY <1>1, SupportAssumption
    <2> QED
      BY <1>1, <2>1, <2>2, <2>3, SupportAssumption
  <1>4. CASE m < q
    <2>1. Limit * (m + 1) <= Limit * q
      BY <1>1, <1>4, SupportAssumption, FactorsGrow
    <2>2. Limit * (m + 1) \in Nat /\ Limit * q \in Nat
      BY <1>1, SupportAssumption
    <2> QED
      BY <1>1, <2>1, <2>2
  <1> QED
    BY <1>1, <1>2, <1>3, <1>4

\* A total beyond page m makes more than m pages.
LEMMA MorePages ==
    ASSUME NEW total \in Nat, NEW m \in Nat, Limit * m < total
    PROVE  m < TotalPages(total)
  <1> DEFINE r == total + Limit - 1
             q == r \div Limit
  <1>1. r \in Nat /\ Limit * m + Limit <= r
    BY SupportAssumption
  <1>2. q \in Nat /\ r < Limit * q + Limit
    BY <1>1, SupportAssumption, QuotientBounds
  <1>3. TotalPages(total) = q
    BY DEF TotalPages
  <1> HIDE DEF r, q
  <1>4. CASE q <= m
    <2>1. Limit * q <= Limit * m
      BY <1>2, <1>4, SupportAssumption, FactorsGrow
    <2>2. Limit * q \in Nat /\ Limit * m \in Nat
      BY <1>2, SupportAssumption
    <2> QED
      BY <1>1, <1>2, <2>1, <2>2, SupportAssumption
  <1> QED
    BY <1>2, <1>3, <1>4

\* New incidents only push the others down, and the last one is on the list.
LEMMA RankGrows ==
    ASSUME NEW rows \in SUBSET Incident, NEW more \in SUBSET Incident,
           rows \subseteq more, NEW i \in Incident
    PROVE  /\ Rank(i, rows) \in Nat
           /\ Rank(i, rows) <= Rank(i, more)
           /\ i \in rows => Rank(i, rows) < Cardinality(rows)
  <1> DEFINE above(S) == {j \in S : j > i}
  <1>1. IsFiniteSet(rows) /\ IsFiniteSet(more)
    BY SupportAssumption, FS_Subset
  <1>2. /\ IsFiniteSet(above(rows)) /\ IsFiniteSet(above(more))
        /\ above(rows) \subseteq above(more)
    BY <1>1, FS_Subset
  <1>3. /\ Cardinality(above(rows)) \in Nat
        /\ Cardinality(above(rows)) <= Cardinality(above(more))
    <2> HIDE DEF above
    <2> QED
      BY <1>2, FS_CardinalityType, FS_Subset
  <1>4. ASSUME i \in rows PROVE Cardinality(above(rows)) < Cardinality(rows)
    <2>1. above(rows) \subseteq rows /\ above(rows) # rows
      BY <1>4, SupportAssumption
    <2>2. Cardinality(rows) \in Nat
      BY <1>1, FS_CardinalityType
    <2> HIDE DEF above
    <2>3. /\ Cardinality(above(rows)) <= Cardinality(rows)
          /\ Cardinality(above(rows)) # Cardinality(rows)
      BY <1>1, <2>1, FS_Subset
    <2> QED
      BY <1>3, <2>2, <2>3
  <1> QED
    BY <1>3, <1>4 DEF Rank

LEMMA CommittedGrows ==
    ASSUME TypeOK, [Next]_vars
    PROVE  Committed \subseteq Committed' /\ Committed' \subseteq Incident
  <1>1. ASSUME NEW c \in Session, CommitIncident(c)
        PROVE  Committed \subseteq Committed'
    <2>1. request[c].id \in Incident
      BY <1>1, RequestKind DEF CommitIncident, FanOut
    <2> QED
      BY <1>1, <2>1 DEF CommitIncident, Committed, Exists, TypeOK
  <1>2. ASSUME NEW c \in Session, ResolveIncident(c)
        PROVE  Committed \subseteq Committed'
    <2>1. /\ request[c].id \in Incident
          /\ incident[request[c].id] \in IncidentRow
      BY <1>2, RequestKind DEF ResolveIncident, Resolve, TypeOK
    <2>2. Resolved(incident[request[c].id], request[c].by).status # "none"
      BY <2>1 DEF Resolved, IncidentRow
    <2> QED
      BY <1>2, <2>1, <2>2 DEF ResolveIncident, Committed, Exists, TypeOK
  <1>3. (\A c \in Session : ~CommitIncident(c) /\ ~ResolveIncident(c))
            => UNCHANGED incident
    BY DEF Next, ReadTarget, InsertIncident, ReadIncident, CountAdmins, ReadNotice,
       Send, RefuseResolve, Respond, Crash, MarkAsRead, CreateAdmin, StartWalk,
       ListRows, CountRows, NextPage, CancelSubOrder, DeleteAdmin, vars
  <1> QED
    BY <1>1, <1>2, <1>3 DEF Committed, Exists

LEMMA InitWalk == Init => WalkInv
  BY DEF Init, WalkInv, Walking, NoWalk

\* Where every incident of the walk stands in a well-typed state.
LEMMA RankOfKnown ==
    ASSUME TypeOK, WalkInv, Walking
    PROVE  /\ walk \in Walk
           /\ Cardinality(Committed) \in Nat
           /\ \A i \in walk.known :
                 /\ i \in Incident /\ i \in Committed
                 /\ Rank(i, Committed) \in Nat
                 /\ Rank(i, Committed) < Cardinality(Committed)
  <1>1. walk \in Walk
    BY DEF TypeOK, Walking, NoWalk
  <1>2. Committed \in SUBSET Incident
    BY DEF Committed
  <1>3. IsFiniteSet(Committed)
    BY <1>2, SupportAssumption, FS_Subset
  <1> QED
    BY <1>1, <1>2, <1>3, RankGrows, FS_CardinalityType DEF WalkInv, Walk

\* The steps of everyone else.
LEMMA QuietWalk ==
    ASSUME TypeOK, WalkInv, [Next]_vars, UNCHANGED walk
    PROVE  WalkInv'
  <1> SUFFICES ASSUME Walking PROVE WalkInv'
    BY DEF WalkInv, Walking
  <1>1. walk.known \subseteq Committed'
    BY CommittedGrows DEF WalkInv
  <1>2. ASSUME NEW i \in Unseen
        PROVE  Limit * Passed <= Rank(i, Committed')
    <2>1. i \in Incident
      BY RankOfKnown DEF Unseen
    <2>2. /\ Rank(i, Committed) \in Nat /\ Rank(i, Committed') \in Nat
          /\ Rank(i, Committed) <= Rank(i, Committed')
      BY <2>1, CommittedGrows, RankGrows
    <2>3. Limit * Passed <= Rank(i, Committed)
      BY DEF WalkInv
    <2>4. Limit * Passed \in Int
      BY RankOfKnown, SupportAssumption DEF Passed, Walk
    <2> QED
      BY <2>2, <2>3, <2>4
  <1>3. Passed' = Passed /\ Unseen' = Unseen
    BY DEF Passed, Unseen
  <1> QED
    BY <1>1, <1>2, <1>3 DEF WalkInv, Walking, Complete, Counted, Rank

LEMMA StartStep ==
    ASSUME TypeOK, StartWalk PROVE WalkInv'
  <1>1. /\ walk'.known = Committed /\ walk'.page = 1 /\ walk'.rows = FALSE
        /\ Committed' = Committed /\ Committed \in SUBSET Incident
    BY DEF StartWalk, Committed, Exists
  <1>2. Passed' = 0
    BY <1>1 DEF Passed
  <1>3. \A i \in Unseen' : Rank(i, Committed') \in Nat
    BY <1>1, RankGrows DEF Unseen
  <1>4. \A i \in Unseen' : Limit * Passed' <= Rank(i, Committed')
    BY <1>2, <1>3, SupportAssumption
  <1> QED
    BY <1>1, <1>4 DEF WalkInv, Complete, Rank

LEMMA ListStep ==
    ASSUME TypeOK, WalkInv, ListRows PROVE WalkInv'
  <1>0. Walking /\ walk \in Walk /\ ~walk.rows
    BY RankOfKnown DEF ListRows
  <1>1. /\ walk'.known = walk.known /\ walk'.page = walk.page
        /\ walk'.rows = TRUE /\ walk'.total = walk.total
        /\ walk'.seen = walk.seen \cup Page(walk.page, Committed)
        /\ walk'.torn = (walk.torn \/ (Counted /\ walk.total # Cardinality(Committed)))
        /\ Committed' = Committed
    BY <1>0 DEF ListRows, Walk, Committed, Exists
  <1>2. /\ walk.page \in Nat /\ walk.page - 1 \in Nat
        /\ Limit * walk.page \in Int
    BY <1>0, SupportAssumption DEF Walk
  <1>3. ASSUME NEW i \in Unseen' PROVE Limit * walk.page <= Rank(i, Committed)
    <2>1. /\ i \in Unseen /\ i \in walk.known
          /\ i \notin Page(walk.page, Committed)
      BY <1>1 DEF Unseen
    <2>2. i \in Committed /\ Rank(i, Committed) \in Nat
      BY <1>0, <2>1, RankOfKnown
    <2>3. Rank(i, Committed) \div Limit # walk.page - 1
      BY <2>1, <2>2 DEF Page
    <2>4. Limit * (walk.page - 1) <= Rank(i, Committed)
      BY <1>0, <2>1 DEF WalkInv, Passed
    <2>5. Limit * ((walk.page - 1) + 1) <= Rank(i, Committed)
      BY <1>2, <2>2, <2>3, <2>4, PastPage
    <2>6. (walk.page - 1) + 1 = walk.page
      BY <1>2
    <2> QED
      BY <2>5, <2>6
  <1>4. Passed' = walk.page
    BY <1>1 DEF Passed
  <1>5. ASSUME Complete', ~walk'.torn, NEW i \in Unseen'
        PROVE  Limit * walk.page < walk.total
    <2>1. walk.total = Cardinality(Committed)
      BY <1>1, <1>5 DEF Complete, Counted
    <2>2. /\ Rank(i, Committed) \in Nat /\ Cardinality(Committed) \in Nat
          /\ Rank(i, Committed) < Cardinality(Committed)
      BY <1>0, <1>1, RankOfKnown DEF Unseen
    <2> QED
      BY <1>2, <1>3, <2>1, <2>2
  <1> QED
    BY <1>0, <1>1, <1>3, <1>4, <1>5 DEF WalkInv, Rank

LEMMA CountStep ==
    ASSUME TypeOK, WalkInv, CountRows PROVE WalkInv'
  <1>0. Walking /\ walk \in Walk
    BY RankOfKnown DEF CountRows
  <1>1. /\ walk'.known = walk.known /\ walk'.page = walk.page
        /\ walk'.rows = walk.rows /\ walk'.seen = walk.seen
        /\ walk'.total = Cardinality(Committed)
        /\ Committed' = Committed
    BY <1>0 DEF CountRows, Walk, Committed, Exists
  <1>2. Passed' = Passed /\ Unseen' = Unseen
    BY <1>1 DEF Passed, Unseen
  <1>3. ASSUME Complete', NEW i \in Unseen
        PROVE  Limit * walk.page < Cardinality(Committed)
    <2>1. Limit * walk.page <= Rank(i, Committed)
      BY <1>0, <1>1, <1>3 DEF WalkInv, Passed, Complete
    <2>2. /\ Rank(i, Committed) \in Nat /\ Cardinality(Committed) \in Nat
          /\ Rank(i, Committed) < Cardinality(Committed)
      BY <1>0, RankOfKnown DEF Unseen
    <2>3. Limit * walk.page \in Int
      BY <1>0, SupportAssumption DEF Walk
    <2> QED
      BY <2>1, <2>2, <2>3
  <1> QED
    BY <1>0, <1>1, <1>2, <1>3 DEF WalkInv, Rank

LEMMA NextPageStep ==
    ASSUME TypeOK, WalkInv, NextPage PROVE WalkInv'
  <1>0. Walking /\ walk \in Walk /\ walk.rows
    BY RankOfKnown DEF NextPage, Complete
  <1>1. CASE LastPage
    BY <1>1 DEF NextPage, WalkInv, Walking, NoWalk
  <1>2. CASE ~LastPage
    <2>1. /\ walk'.known = walk.known /\ walk'.page = walk.page + 1
          /\ walk'.rows = FALSE /\ walk'.seen = walk.seen
          /\ Committed' = Committed
      BY <1>0, <1>2 DEF NextPage, Walk, Committed, Exists
    <2>2. Passed' = Passed
      BY <1>0, <2>1 DEF Passed, Walk
    <2>3. Unseen' = Unseen /\ ~Complete'
      BY <2>1 DEF Unseen, Complete
    <2> QED
      BY <1>0, <2>1, <2>2, <2>3 DEF WalkInv, Rank
  <1> QED
    BY <1>1, <1>2

LEMMA WalkStep == TypeOK /\ WalkInv /\ [Next]_vars => WalkInv'
  <1>1. [Next]_vars => StartWalk \/ ListRows \/ CountRows \/ NextPage \/ UNCHANGED walk
    BY DEF Next, ReadTarget, InsertIncident, CommitIncident, ReadIncident,
       CountAdmins, ReadNotice, Send, ResolveIncident, RefuseResolve, Respond,
       Crash, MarkAsRead, CreateAdmin, CancelSubOrder, DeleteAdmin, vars
  <1> QED
    BY <1>1, QuietWalk, StartStep, ListStep, CountStep, NextPageStep

\* An administrator who pages to the end has seen all that was there at the
\* start, for any page size and any number of reports arriving meanwhile.
THEOREM WalkComplete == Spec => []WalkSeesAll
  <1>1. ASSUME TypeOK, WalkInv PROVE WalkSeesAll
    <2> SUFFICES ASSUME Walking, LastPage, ~walk.torn, NEW i \in Unseen
                 PROVE  FALSE
      BY DEF WalkSeesAll, Unseen
    <2>1. Limit * walk.page < walk.total
      BY <1>1 DEF WalkInv, LastPage
    <2>2. walk.page \in Nat /\ walk.total \in Nat
      BY <1>1, RankOfKnown DEF Walk, LastPage, Complete, Counted
    <2>3. TotalPages(walk.total) \in Int
      BY <2>2, SupportAssumption DEF TotalPages
    <2> QED
      BY <2>1, <2>2, <2>3, MorePages DEF LastPage
  <1> QED
    BY <1>1, InitType, StepType, InitWalk, WalkStep, PTL DEF Spec
=============================================================================
