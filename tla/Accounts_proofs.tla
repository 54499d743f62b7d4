-------------------------- MODULE Accounts_proofs --------------------------
(* Theorems about Accounts, for every number of sessions, users and        *)
(* addresses and whatever the users' carts hold.                           *)
EXTENDS Accounts, TLAPS

\* The kind of a request follows from its phase.
LEMMA RequestKind ==
    ASSUME TypeOK, NEW c \in Session
    PROVE  /\ Phase(c) \in Operation \cup {"createUser", "verifyEmail",
                                           "setConsumer", "setProducer"}
                => request[c] \in Admitted
           /\ Phase(c) \in {"demote", "write"} => request[c] \in Edit
           /\ Phase(c) \in {"retire", "promote"} => request[c] \in Removal
           /\ Phase(c) \in {"preflight", "upsert", "charge", "bind"}
                => request[c] \in Intent
           /\ Phase(c) # "idle" => request[c].user \in User
  <1>1. request[c] \in Request
    BY DEF TypeOK
  <1> QED
    BY <1>1 DEF Request, Phase, Idle, Admitted, Edit, Removal, Intent,
                Operation, Onboarding, Shopping

\* A session that goes to a request leaves the others where they are.
LEMMA GotoType ==
    ASSUME TypeOK, NEW c \in Session, NEW r \in Request, Goto(c, r)
    PROVE  /\ request' \in [Session -> Request]
           /\ request'[c] = r
           /\ \A d \in Session \ {c} : request'[d] = request[d]
  BY DEF TypeOK, Goto

LEMMA IdleIsRequest == Idle \in Request
  BY DEF Request

-----------------------------------------------------------------------------
(* Type correctness                                                        *)

LEMMA InitType == Init => TypeOK
  BY DEF Init, TypeOK, UserRow, NoRow, Role, AddressRow, Unused, Request

\* The three actions that move a session without writing anything else.
LEMMA AccountStepType ==
    ASSUME TypeOK, NEW c \in Session,
           \/ \E u \in User, op \in Operation : Admit(c, u, op)
           \/ Abandon(c)
           \/ FindBySub(c)
           \/ \E verified \in BOOLEAN : CreateUser(c, verified)
           \/ \E verified \in BOOLEAN : VerifyEmail(c, verified)
           \/ ReadRole(c)
           \/ SetConsumer(c)
           \/ \E nif \in Nif : SetProducer(c, nif)
           \/ UpdateProfile(c)
    PROVE  TypeOK'
  <1>1. ASSUME NEW u \in User, NEW op \in Operation, Admit(c, u, op)
        PROVE  TypeOK'
    <2>1. [phase |-> op, user |-> u] \in Request
      BY DEF Request, Admitted
    <2>2. request' \in [Session -> Request]
      BY <1>1, <2>1, GotoType DEF Admit
    <2>3. overlapped' \subseteq User
      BY <1>1 DEF Admit, TypeOK
    <2> QED
      BY <1>1, <2>2, <2>3
         DEF Admit, TypeOK, AccountsUnchanged, BookUnchanged, CheckoutUnchanged
  <1>2. CASE Abandon(c)
    BY <1>2, IdleIsRequest, GotoType
       DEF Abandon, TypeOK, AccountsUnchanged, BookUnchanged,
           CheckoutUnchanged, HistoryUnchanged
  <1>3. CASE FindBySub(c)
    <2> DEFINE u == request[c].user
               next == CASE AccountState(u) = "ABSENT" ->
                              [phase |-> "createUser", user |-> u]
                         [] AccountState(u) = "ACTIVE" ->
                              [phase |-> "verifyEmail", user |-> u]
                         [] OTHER -> Idle
    <2>1. u \in User
      BY <1>3, RequestKind DEF FindBySub
    <2>2. next \in Request
      BY <2>1 DEF Request, Admitted
    <2>3. Goto(c, next)
      BY <1>3 DEF FindBySub
    <2>4. request' \in [Session -> Request]
      BY <2>2, <2>3, GotoType
    <2> QED
      BY <1>3, <2>4
         DEF FindBySub, TypeOK, AccountsUnchanged, BookUnchanged,
             CheckoutUnchanged, HistoryUnchanged
  <1>4. ASSUME NEW verified \in BOOLEAN, CreateUser(c, verified)
        PROVE  TypeOK'
    <2>1. request[c].user \in User
      BY <1>4, RequestKind DEF CreateUser
    <2>2. [NoRow EXCEPT !.role = "PENDING_ROLE", !.email = TRUE,
                        !.verified = verified] \in UserRow
      BY DEF NoRow, UserRow, Role
    <2>3. user' \in [User -> UserRow]
      BY <1>4, <2>1, <2>2 DEF CreateUser, TypeOK
    <2> QED
      BY <1>4, <2>3, IdleIsRequest, GotoType
         DEF CreateUser, TypeOK, BookUnchanged, CheckoutUnchanged,
             HistoryUnchanged
  <1>5. ASSUME NEW verified \in BOOLEAN, VerifyEmail(c, verified)
        PROVE  TypeOK'
    <2>1. user' \in [User -> UserRow]
      BY <1>5 DEF VerifyEmail, TypeOK, UserRow
    <2> QED
      BY <1>5, <2>1, IdleIsRequest, GotoType
         DEF VerifyEmail, TypeOK, BookUnchanged, CheckoutUnchanged,
             HistoryUnchanged
  <1>6. CASE ReadRole(c)
    <2> DEFINE u == request[c].user
               to == IF Phase(c) = "consumer" THEN "setConsumer"
                                              ELSE "setProducer"
               next == IF Active(u) /\ user[u].role = "PENDING_ROLE"
                       THEN [phase |-> to, user |-> u] ELSE Idle
    <2>1. u \in User
      BY <1>6, RequestKind DEF ReadRole, Onboarding
    <2>2. next \in Request
      BY <2>1 DEF Request, Admitted
    <2>3. Goto(c, next)
      BY <1>6 DEF ReadRole
    <2>4. request' \in [Session -> Request]
      BY <2>2, <2>3, GotoType
    <2> QED
      BY <1>6, <2>4
         DEF ReadRole, TypeOK, AccountsUnchanged, BookUnchanged,
             CheckoutUnchanged, HistoryUnchanged
  <1>7. CASE SetConsumer(c)
    <2> DEFINE u == request[c].user
    <2>0. u \in User
      BY <1>7, RequestKind DEF SetConsumer
    <2>1. user' \in [User -> UserRow]
      BY <1>7, <2>0 DEF SetConsumer, TypeOK, UserRow, Role
    <2> QED
      BY <1>7, <2>1, IdleIsRequest, GotoType
         DEF SetConsumer, TypeOK, BookUnchanged, CheckoutUnchanged,
             HistoryUnchanged
  <1>8. ASSUME NEW nif \in Nif, SetProducer(c, nif)
        PROVE  TypeOK'
    <2>1. user' \in [User -> UserRow]
      BY <1>8 DEF SetProducer, TypeOK, UserRow, Role, AccountsUnchanged
    <2>2. producer' \in [User -> Nif \cup {NoNif}]
      BY <1>8 DEF SetProducer, TypeOK, AccountsUnchanged
    <2> QED
      BY <1>8, <2>1, <2>2, IdleIsRequest, GotoType
         DEF SetProducer, TypeOK, BookUnchanged, CheckoutUnchanged,
             HistoryUnchanged
  <1>9. CASE UpdateProfile(c)
    <2>1. user' \in [User -> UserRow]
      BY <1>9 DEF UpdateProfile, TypeOK, UserRow
    <2> QED
      BY <1>9, <2>1, IdleIsRequest, GotoType
         DEF UpdateProfile, TypeOK, BookUnchanged, CheckoutUnchanged,
             HistoryUnchanged
  <1> QED
    BY <1>1, <1>2, <1>3, <1>4, <1>5, <1>6, <1>7, <1>8, <1>9

\* What an edit of the book leaves in the table, if it is committed.
LEMMA CommitType ==
    ASSUME TypeOK, NEW book \in [AddressId -> AddressRow], Commit(book)
    PROVE  address' \in [AddressId -> AddressRow]
  BY DEF Commit, TypeOK

LEMMA DemotedType ==
    ASSUME TypeOK, NEW c \in Session
    PROVE  Demoted(c) \in [AddressId -> AddressRow]
  BY DEF Demoted, TypeOK, AddressRow

LEMMA BookStepType ==
    ASSUME TypeOK, NEW c \in Session,
           \/ \E wanted \in BOOLEAN : CountAddresses(c, wanted)
           \/ \E a \in AddressId, isDefault \in {"keep", "yes", "no"} :
                FindForUpdate(c, a, isDefault)
           \/ MatchDefaults(c)
           \/ \E a \in AddressId : InsertAddress(c, a)
           \/ \E content \in BOOLEAN : UpdateAddress(c, content)
           \/ \E a \in AddressId : FindForRemoval(c, a)
           \/ RetireAddress(c)
           \/ PromoteHeir(c)
    PROVE  TypeOK'
  <1> DEFINE u == request[c].user
  <1>1. ASSUME NEW wanted \in BOOLEAN, CountAddresses(c, wanted)
        PROVE  TypeOK'
    <2> DEFINE isDefault == wanted \/ Book(u) = {}
               next == [phase |-> IF isDefault /\ Book(u) # {} THEN "demote"
                                                               ELSE "write",
                        user |-> u, address |-> NewAddress,
                        isDefault |-> IF isDefault THEN "yes" ELSE "no",
                        others |-> {}]
    <2>1. u \in User
      BY <1>1, RequestKind DEF CountAddresses
    <2>2. next \in Request
      BY <2>1 DEF Request, Edit
    <2>3. Goto(c, next)
      BY <1>1 DEF CountAddresses
    <2>4. request' \in [Session -> Request]
      BY <2>2, <2>3, GotoType
    <2> QED
      BY <1>1, <2>4
         DEF CountAddresses, TypeOK, AccountsUnchanged, BookUnchanged,
             CheckoutUnchanged, HistoryUnchanged
  <1>2. ASSUME NEW a \in AddressId, NEW isDefault \in {"keep", "yes", "no"},
               FindForUpdate(c, a, isDefault)
        PROVE  TypeOK'
    <2> DEFINE next == [phase |-> IF isDefault = "yes" /\ ~ address[a].isDefault
                                  THEN "demote" ELSE "write",
                        user |-> u, address |-> a,
                        isDefault |-> isDefault, others |-> {}]
    <2>1. u \in User
      BY <1>2, RequestKind DEF FindForUpdate
    <2>2. next \in Request
      BY <2>1 DEF Request, Edit
    <2>3. Goto(c, next)
      BY <1>2 DEF FindForUpdate
    <2>4. request' \in [Session -> Request]
      BY <2>2, <2>3, GotoType
    <2> QED
      BY <1>2, <2>4
         DEF FindForUpdate, TypeOK, AccountsUnchanged, BookUnchanged,
             CheckoutUnchanged, HistoryUnchanged
  <1>3. CASE MatchDefaults(c)
    <2> DEFINE found == Defaults(u) \ {request[c].address}
               next == [request[c] EXCEPT !.phase = "write", !.others = found]
    <2>1. request[c] \in Edit /\ found \subseteq AddressId
      BY <1>3, RequestKind DEF MatchDefaults, Defaults, Book
    <2>2. next \in Edit
      BY <2>1 DEF Edit
    <2>3. next \in Request
      BY <2>2 DEF Request
    <2>4. Goto(c, next)
      BY <1>3 DEF MatchDefaults
    <2>5. request' \in [Session -> Request]
      BY <2>3, <2>4, GotoType
    <2> QED
      BY <1>3, <2>5
         DEF MatchDefaults, TypeOK, AccountsUnchanged, BookUnchanged,
             CheckoutUnchanged, HistoryUnchanged
  <1>4. ASSUME NEW a \in AddressId, InsertAddress(c, a)
        PROVE  TypeOK'
    <2> DEFINE row == [owner |-> u, active |-> TRUE,
                       isDefault |-> request[c].isDefault = "yes",
                       personal |-> TRUE]
               book == [Demoted(c) EXCEPT ![a] = row]
    <2>1. u \in User
      BY <1>4, RequestKind DEF InsertAddress
    <2>2. row \in AddressRow
      BY <2>1 DEF AddressRow
    <2>3. book \in [AddressId -> AddressRow]
      BY <2>2, DemotedType
    <2>4. Commit(book)
      BY <1>4 DEF InsertAddress
    <2>5. address' \in [AddressId -> AddressRow]
      BY <2>3, <2>4, CommitType
    <2> QED
      BY <1>4, <2>5, IdleIsRequest, GotoType
         DEF InsertAddress, TypeOK, AccountsUnchanged, CheckoutUnchanged,
             HistoryUnchanged
  <1>5. ASSUME NEW content \in BOOLEAN, UpdateAddress(c, content)
        PROVE  TypeOK'
    <2> DEFINE r == request[c]
               row == Patched(address[r.address], r.isDefault, content)
               book == [Demoted(c) EXCEPT ![r.address] = row]
    <2>1. r \in Edit /\ r.address \in AddressId
      BY <1>5, RequestKind DEF UpdateAddress, Edit
    <2>2. row \in AddressRow
      BY <2>1 DEF Patched, AddressRow, TypeOK
    <2>3. book \in [AddressId -> AddressRow]
      BY <2>2, DemotedType
    <2>4. Commit(book)
      BY <1>5 DEF UpdateAddress
    <2>5. address' \in [AddressId -> AddressRow]
      BY <2>3, <2>4, CommitType
    <2> QED
      BY <1>5, <2>5, IdleIsRequest, GotoType
         DEF UpdateAddress, TypeOK, AccountsUnchanged, CheckoutUnchanged,
             HistoryUnchanged
  <1>6. ASSUME NEW a \in AddressId, FindForRemoval(c, a)
        PROVE  TypeOK'
    <2> DEFINE next == [phase |-> "retire", user |-> u, address |-> a,
                        wasDefault |-> address[a].isDefault,
                        heir |-> NewAddress]
    <2>1. u \in User /\ address[a].isDefault \in BOOLEAN
      BY <1>6, RequestKind DEF FindForRemoval, TypeOK, AddressRow
    <2>2. next \in Request
      BY <2>1 DEF Request, Removal
    <2>3. Goto(c, next)
      BY <1>6 DEF FindForRemoval
    <2>4. request' \in [Session -> Request]
      BY <2>2, <2>3, GotoType
    <2> QED
      BY <1>6, <2>4
         DEF FindForRemoval, TypeOK, AccountsUnchanged, BookUnchanged,
             CheckoutUnchanged, HistoryUnchanged
  <1>7. CASE RetireAddress(c)
    <2> DEFINE r == request[c]
    <2>1. r \in Removal
      BY <1>7, RequestKind DEF RetireAddress
    <2>2. CASE r.wasDefault /\ Siblings(c) # {}
      <3>1. PICK heir \in Newest(c) :
              Goto(c, [r EXCEPT !.phase = "promote", !.heir = heir])
        BY <1>7, <2>2 DEF RetireAddress
      <3>2. heir \in AddressId
        BY DEF Newest, Siblings, Book
      <3>3. [r EXCEPT !.phase = "promote", !.heir = heir] \in Removal
        BY <2>1, <3>2 DEF Removal
      <3>4. request' \in [Session -> Request]
        BY <3>1, <3>3, GotoType DEF Request
      <3>5. address' = address
        BY <1>7, <2>2 DEF RetireAddress, BookUnchanged
      <3> QED
        BY <1>7, <3>4, <3>5
           DEF RetireAddress, TypeOK, AccountsUnchanged, CheckoutUnchanged,
               HistoryUnchanged
    <2>3. CASE ~ (r.wasDefault /\ Siblings(c) # {})
      <3>1. /\ Goto(c, Idle)
            /\ address' = [address EXCEPT ![r.address] = Retired(@)]
        BY <1>7, <2>3 DEF RetireAddress
      <3>2. address' \in [AddressId -> AddressRow]
        BY <3>1 DEF Retired, TypeOK, AddressRow
      <3> QED
        BY <1>7, <3>1, <3>2, IdleIsRequest, GotoType
           DEF RetireAddress, TypeOK, AccountsUnchanged, CheckoutUnchanged,
               HistoryUnchanged
    <2> QED
      BY <2>2, <2>3
  <1>8. CASE PromoteHeir(c)
    <2> DEFINE r == request[c]
               gone == [address EXCEPT ![r.address] = Retired(@)]
               book == [gone EXCEPT ![r.heir].isDefault = TRUE]
    <2>1. gone \in [AddressId -> AddressRow]
      BY DEF Retired, TypeOK, AddressRow
    <2>2. Commit(book)
      BY <1>8 DEF PromoteHeir
    <2> HIDE DEF gone
    <2>3. book \in [AddressId -> AddressRow]
      BY <2>1 DEF AddressRow
    <2>4. address' \in [AddressId -> AddressRow]
      BY <2>2, <2>3, CommitType
    <2> QED
      BY <1>8, <2>4, IdleIsRequest, GotoType
         DEF PromoteHeir, TypeOK, AccountsUnchanged, CheckoutUnchanged,
             HistoryUnchanged
  <1> QED
    BY <1>1, <1>2, <1>3, <1>4, <1>5, <1>6, <1>7, <1>8

LEMMA CheckoutStepType ==
    ASSUME TypeOK, NEW c \in Session,
           \/ \E a \in AddressId : ReadAddress(c, a)
           \/ Preflight(c)
           \/ UpsertCheckout(c)
           \/ StripeAnswers(c)
           \/ BindIntent(c)
    PROVE  TypeOK'
  <1> DEFINE r == request[c]
  <1>1. ASSUME NEW a \in AddressId, ReadAddress(c, a)
        PROVE  TypeOK'
    <2> DEFINE next == [phase |-> "preflight", user |-> r.user, address |-> a]
    <2>1. r.user \in User
      BY <1>1, RequestKind DEF ReadAddress
    <2>2. next \in Request
      BY <2>1 DEF Request, Intent
    <2>3. Goto(c, next)
      BY <1>1 DEF ReadAddress
    <2>4. request' \in [Session -> Request]
      BY <2>2, <2>3, GotoType
    <2> QED
      BY <1>1, <2>4
         DEF ReadAddress, TypeOK, AccountsUnchanged, BookUnchanged,
             CheckoutUnchanged, HistoryUnchanged
  <1>2. CASE Preflight(c)
    <2> DEFINE next == IF \A v \in Parties(r.user) : Active(v)
                       THEN [r EXCEPT !.phase = "upsert"] ELSE Idle
    <2>1. r \in Intent
      BY <1>2, RequestKind DEF Preflight
    <2>2. [r EXCEPT !.phase = "upsert"] \in Intent
      BY <2>1 DEF Intent
    <2>3. next \in Request
      BY <2>2 DEF Request
    <2>4. Goto(c, next)
      BY <1>2 DEF Preflight
    <2>5. request' \in [Session -> Request]
      BY <2>3, <2>4, GotoType
    <2> QED
      BY <1>2, <2>5
         DEF Preflight, TypeOK, AccountsUnchanged, BookUnchanged,
             CheckoutUnchanged, HistoryUnchanged
  <1>3. CASE UpsertCheckout(c)
    <2>1. r \in Intent
      BY <1>3, RequestKind DEF UpsertCheckout
    <2>2. [r EXCEPT !.phase = "charge"] \in Intent
      BY <2>1 DEF Intent
    <2>3. request' \in [Session -> Request]
      BY <1>3, <2>2, GotoType DEF UpsertCheckout, Request
    <2>4. checkout' \in [AddressId -> {"none", "personal", "redacted"}]
      BY <1>3 DEF UpsertCheckout, TypeOK
    <2> QED
      BY <1>3, <2>3, <2>4
         DEF UpsertCheckout, TypeOK, AccountsUnchanged, BookUnchanged,
             HistoryUnchanged
  <1>4. CASE StripeAnswers(c)
    <2>1. r \in Intent
      BY <1>4, RequestKind DEF StripeAnswers
    <2>2. [r EXCEPT !.phase = "bind"] \in Intent
      BY <2>1 DEF Intent
    <2>3. request' \in [Session -> Request]
      BY <1>4, <2>2, GotoType DEF StripeAnswers, Request
    <2> QED
      BY <1>4, <2>3
         DEF StripeAnswers, TypeOK, AccountsUnchanged, BookUnchanged,
             CheckoutUnchanged, HistoryUnchanged
  <1>5. CASE BindIntent(c)
    <2>1. r.address \in AddressId
      BY <1>5, RequestKind DEF BindIntent, Intent
    <2>2. bound' \subseteq AddressId
      BY <1>5, <2>1 DEF BindIntent, TypeOK
    <2> QED
      BY <1>5, <2>2, IdleIsRequest, GotoType
         DEF BindIntent, TypeOK, AccountsUnchanged, BookUnchanged,
             HistoryUnchanged
  <1> QED
    BY <1>1, <1>2, <1>3, <1>4, <1>5

LEMMA AdminStepType ==
    ASSUME TypeOK, NEW u \in User,
           ActivateUser(u) \/ DeactivateUser(u) \/ DeleteUser(u)
    PROVE  TypeOK'
  <1>1. CASE ActivateUser(u)
    <2>1. user' \in [User -> UserRow]
      BY <1>1 DEF ActivateUser, TypeOK, UserRow
    <2> QED
      BY <1>1, <2>1 DEF ActivateUser, TypeOK, BookUnchanged,
                        CheckoutUnchanged, HistoryUnchanged
  <1>2. CASE DeactivateUser(u)
    <2>1. user' \in [User -> UserRow]
      BY <1>2 DEF DeactivateUser, TypeOK, UserRow
    <2> QED
      BY <1>2, <2>1 DEF DeactivateUser, TypeOK, BookUnchanged,
                        CheckoutUnchanged, HistoryUnchanged
  <1>3. CASE DeleteUser(u)
    <2>1. user' \in [User -> UserRow]
      <3> DEFINE row == [user[u] EXCEPT !.deletedAt = TRUE, !.names = FALSE,
                                        !.email = FALSE, !.verified = FALSE]
      <3>1. user[u] \in UserRow
        BY DEF TypeOK
      <3>2. row \in UserRow
        BY <3>1 DEF UserRow
      <3>3. user' = [user EXCEPT ![u] = row]
        BY <1>3 DEF DeleteUser, TypeOK
      <3> HIDE DEF row
      <3> QED
        BY <3>2, <3>3 DEF TypeOK
    <2>2. address' \in [AddressId -> AddressRow]
      <3>1. \A a \in AddressId : Redacted(address[a]) \in AddressRow
        BY DEF Redacted, TypeOK, AddressRow
      <3> QED
        BY <1>3, <3>1 DEF DeleteUser, TypeOK
    <2>3. checkout' \in [AddressId -> {"none", "personal", "redacted"}]
      BY <1>3 DEF DeleteUser, TypeOK
    <2>4. late' \subseteq User
      BY <1>3 DEF DeleteUser, TypeOK
    <2> QED
      BY <1>3, <2>1, <2>2, <2>3, <2>4 DEF DeleteUser, TypeOK
  <1> QED
    BY <1>1, <1>2, <1>3

LEMMA StepType == TypeOK /\ [Next]_vars => TypeOK'
  <1>1. TypeOK /\ UNCHANGED vars => TypeOK'
    BY DEF vars, TypeOK
  <1> QED
    BY <1>1, AccountStepType, BookStepType, CheckoutStepType, AdminStepType
       DEF Next

\* Rows and requests keep their types whatever races.
THEOREM TypeCorrect == Spec => []TypeOK
  BY InitType, StepType, PTL DEF Spec

-----------------------------------------------------------------------------
(* The unique index: whatever an edit saw, it commits only a table that    *)
(* satisfies the index; retiring and redacting only remove defaults.       *)

LEMMA FewerDefaults ==
    ASSUME OneDefaultPerUser(address),
           NEW book \in [AddressId -> AddressRow],
           \A a \in AddressId :
              book[a].active /\ book[a].isDefault =>
                 /\ address[a].active /\ address[a].isDefault
                 /\ book[a].owner = address[a].owner
    PROVE  OneDefaultPerUser(book)
  BY DEF OneDefaultPerUser

LEMMA StepIndex ==
    TypeOK /\ OneDefaultPerUser(address) /\ [Next]_vars
      => OneDefaultPerUser(address')
  <1> SUFFICES ASSUME TypeOK, OneDefaultPerUser(address), [Next]_vars
               PROVE  OneDefaultPerUser(address')
    OBVIOUS
  <1>1. ASSUME NEW book, Commit(book) PROVE OneDefaultPerUser(address')
    BY <1>1 DEF Commit
  <1>2. ASSUME NEW c \in Session, NEW a \in AddressId, InsertAddress(c, a)
        PROVE  OneDefaultPerUser(address')
    BY <1>1, <1>2 DEF InsertAddress
  <1>3. ASSUME NEW c \in Session, NEW content \in BOOLEAN,
               UpdateAddress(c, content)
        PROVE  OneDefaultPerUser(address')
    BY <1>1, <1>3 DEF UpdateAddress
  <1>4. ASSUME NEW c \in Session, PromoteHeir(c)
        PROVE  OneDefaultPerUser(address')
    BY <1>1, <1>4 DEF PromoteHeir
  <1>5. ASSUME NEW c \in Session, RetireAddress(c)
        PROVE  OneDefaultPerUser(address')
    <2> DEFINE r == request[c]
    <2>1. \/ address' = address
          \/ address' = [address EXCEPT ![r.address] = Retired(@)]
      BY <1>5 DEF RetireAddress, BookUnchanged
    <2>2. r.address \in AddressId
      BY <1>5, RequestKind DEF RetireAddress, Removal
    <2>3. CASE address' = [address EXCEPT ![r.address] = Retired(@)]
      <3>1. address' \in [AddressId -> AddressRow]
        BY <2>3 DEF Retired, TypeOK, AddressRow
      <3>2. \A a \in AddressId :
              address'[a].active /\ address'[a].isDefault => address'[a] = address[a]
        BY <2>2, <2>3 DEF Retired, TypeOK, AddressRow
      <3> QED
        BY <3>1, <3>2, FewerDefaults
    <2> QED
      BY <2>1, <2>3
  <1>6. ASSUME NEW u \in User, DeleteUser(u)
        PROVE  OneDefaultPerUser(address')
    <2>1. address' \in [AddressId -> AddressRow]
      BY <1>6 DEF DeleteUser, Redacted, TypeOK, AddressRow
    <2>2. \A a \in AddressId :
            address'[a].active /\ address'[a].isDefault => address'[a] = address[a]
      BY <1>6 DEF DeleteUser, Redacted, TypeOK, AddressRow
    <2> QED
      BY <2>1, <2>2, FewerDefaults
  <1>7. CASE UNCHANGED address
    BY <1>7
  <1> QED
    BY <1>2, <1>3, <1>4, <1>5, <1>6, <1>7
       DEF Next, vars, Admit, Abandon, FindBySub, CreateUser, VerifyEmail,
           ReadRole, SetConsumer, SetProducer, UpdateProfile, CountAddresses,
           FindForUpdate, MatchDefaults, FindForRemoval, ReadAddress,
           Preflight, UpsertCheckout, StripeAnswers, BindIntent, ActivateUser,
           DeactivateUser, BookUnchanged

\* P-4 from above: a user never has two default addresses, whatever requests
\* on the address book race (addresses.service.ts, R-2).
THEOREM DefaultsUnique == Spec => []AtMostOneDefault
  <1>1. Init => OneDefaultPerUser(address)
    BY DEF Init, OneDefaultPerUser, Unused
  <1>2. OneDefaultPerUser(address) => AtMostOneDefault
    BY DEF OneDefaultPerUser, AtMostOneDefault, Defaults, Book
  <1>3. OneDefaultPerUser(address)' <=> OneDefaultPerUser(address')
    BY DEF OneDefaultPerUser
  <1> QED
    BY <1>1, <1>2, <1>3, StepIndex, TypeCorrect, PTL DEF Spec
-----------------------------------------------------------------------------
(* The pending checkouts.  Between the lock of the preflight and its       *)
(* upsert the buyer stays active, because whoever ends an account takes    *)
(* the same lock; that is all that keeps the address of a deleted user     *)
(* from being written back.                                                *)

Gone(u) == AccountState(u) = "DELETED"
IntentPhase == {"preflight", "upsert", "charge", "bind"}

AbsentIsBlank ==
    \A u \in User : user[u].role = "NONE" =>
        ~ user[u].deletedAt /\ ~ user[u].deactivatedAt

CheckoutContent ==
    \A a \in AddressId :
        /\ checkout[a] # "none" => address[a].owner \in User
        /\ checkout[a] = "personal" => ~ Gone(address[a].owner)
        /\ checkout[a] = "redacted" => Gone(address[a].owner)

\* A request for a charge is about an address of its user, who is active
\* while the preflight holds the locks.
IntentOwned(c) ==
    /\ Phase(c) \in IntentPhase =>
         address[request[c].address].owner = request[c].user
    /\ Phase(c) = "upsert" => Active(request[c].user)
    /\ Phase(c) \in {"charge", "bind"} =>
         checkout[request[c].address] # "none"

EditOwned(c) ==
    Phase(c) \in {"demote", "write"} /\ request[c].address # NewAddress =>
        address[request[c].address].owner = request[c].user

RequestsOwned == \A c \in Session : IntentOwned(c) /\ EditOwned(c)

CheckoutInv ==
    TypeOK /\ AbsentIsBlank /\ CheckoutContent /\ RequestsOwned

\* An address never changes hands.
LEMMA OwnerIsKept ==
    ASSUME TypeOK, [Next]_vars
    PROVE  \A a \in AddressId :
              address[a].owner # Nobody => address'[a].owner = address[a].owner
  <1>1. ASSUME NEW c \in Session, NEW b \in AddressId, InsertAddress(c, b),
               NEW a \in AddressId, address[a].owner # Nobody
        PROVE  address'[a].owner = address[a].owner
    <2>1. a # b
      BY <1>1 DEF InsertAddress, Unused
    <2>2. Demoted(c)[a].owner = address[a].owner
      BY DEF Demoted, TypeOK, AddressRow
    <2> QED
      BY <1>1, <2>1, <2>2 DEF InsertAddress, Commit, Demoted
  <1>2. ASSUME NEW c \in Session, NEW content \in BOOLEAN,
               UpdateAddress(c, content), NEW a \in AddressId
        PROVE  address'[a].owner = address[a].owner
    <2>1. Demoted(c)[a].owner = address[a].owner
      BY DEF Demoted, TypeOK, AddressRow
    <2>2. Patched(address[a], request[c].isDefault, content).owner
            = address[a].owner
      BY DEF Patched, TypeOK, AddressRow
    <2>3. \/ address' = address
          \/ address' = [Demoted(c) EXCEPT ![request[c].address] =
                           Patched(address[request[c].address],
                                   request[c].isDefault, content)]
      BY <1>2 DEF UpdateAddress, Commit
    <2>4. DOMAIN Demoted(c) = AddressId
      BY DEF Demoted
    <2> QED
      BY <2>1, <2>2, <2>3, <2>4
  <1>3. ASSUME NEW c \in Session, PromoteHeir(c), NEW a \in AddressId
        PROVE  address'[a].owner = address[a].owner
    <2> DEFINE r == request[c]
               gone == [address EXCEPT ![r.address] = Retired(@)]
    <2>1. address' = address \/ address' = [gone EXCEPT ![r.heir].isDefault = TRUE]
      BY <1>3 DEF PromoteHeir, Commit
    <2>2. gone \in [AddressId -> AddressRow] /\ gone[a].owner = address[a].owner
      BY DEF Retired, TypeOK, AddressRow
    <2> HIDE DEF gone
    <2> QED
      BY <2>1, <2>2 DEF AddressRow
  <1>4. ASSUME NEW c \in Session, RetireAddress(c), NEW a \in AddressId
        PROVE  address'[a].owner = address[a].owner
    <2>1. \/ address' = address
          \/ address' = [address EXCEPT ![request[c].address] = Retired(@)]
      BY <1>4 DEF RetireAddress, BookUnchanged
    <2>2. Retired(address[a]).owner = address[a].owner
      BY DEF Retired, TypeOK, AddressRow
    <2> QED
      BY <2>1, <2>2 DEF TypeOK
  <1>5. ASSUME NEW u \in User, DeleteUser(u), NEW a \in AddressId
        PROVE  address'[a].owner = address[a].owner
    BY <1>5 DEF DeleteUser, Redacted, TypeOK, AddressRow
  <1>6. CASE UNCHANGED address
    BY <1>6
  <1> QED
    BY <1>1, <1>2, <1>3, <1>4, <1>5, <1>6
       DEF Next, vars, Admit, Abandon, FindBySub, CreateUser, VerifyEmail,
           ReadRole, SetConsumer, SetProducer, UpdateProfile, CountAddresses,
           FindForUpdate, MatchDefaults, FindForRemoval, ReadAddress,
           Preflight, UpsertCheckout, StripeAnswers, BindIntent, ActivateUser,
           DeactivateUser, BookUnchanged

\* What the updates by id do to the state of an account.
LEMMA SessionKeepsAccounts ==
    ASSUME TypeOK, AbsentIsBlank, NEW c \in Session,
           \/ \E verified \in BOOLEAN : CreateUser(c, verified)
           \/ \E verified \in BOOLEAN : VerifyEmail(c, verified)
           \/ SetConsumer(c)
           \/ \E nif \in Nif : SetProducer(c, nif)
           \/ UpdateProfile(c)
    PROVE  /\ AbsentIsBlank'
           /\ \A v \in User : /\ Gone(v)' <=> Gone(v)
                              /\ Active(v) => Active(v)'
  <1> DEFINE u == request[c].user
  <1>0. u \in User
    BY RequestKind DEF CreateUser, VerifyEmail, SetConsumer, SetProducer,
                       UpdateProfile
  <1>1. ASSUME NEW verified \in BOOLEAN, CreateUser(c, verified)
        PROVE  \/ user' = user
               \/ /\ AccountState(u) = "ABSENT"
                  /\ \A v \in User \ {u} : user'[v] = user[v]
                  /\ user'[u].role = "PENDING_ROLE"
                  /\ ~ user'[u].deletedAt /\ ~ user'[u].deactivatedAt
    BY <1>0, <1>1 DEF CreateUser, NoRow, TypeOK
  <1>2. ASSUME ~ \E verified \in BOOLEAN : CreateUser(c, verified)
        PROVE  /\ \A v \in User \ {u} : user'[v] = user[v]
               /\ user'[u].role = "NONE" => user[u].role = "NONE"
               /\ user'[u].deletedAt = user[u].deletedAt
               /\ user'[u].deactivatedAt = user[u].deactivatedAt
    <2>1. ASSUME NEW verified \in BOOLEAN, VerifyEmail(c, verified)
          PROVE  user' = [user EXCEPT ![u].verified = verified]
      BY <2>1 DEF VerifyEmail
    <2>2. CASE SetConsumer(c)
      <3>1. user' = [user EXCEPT ![u] = [user[u] EXCEPT !.role = "CONSUMER",
                                                        !.names = TRUE]]
        BY <2>2 DEF SetConsumer, TypeOK
      <3> QED
        BY <1>0, <3>1 DEF TypeOK, UserRow
    <2>3. ASSUME NEW nif \in Nif, SetProducer(c, nif)
          PROVE  \/ user' = user
                 \/ user' = [user EXCEPT ![u] =
                               [user[u] EXCEPT !.role = "PRODUCER",
                                               !.names = TRUE]]
      BY <2>3 DEF SetProducer, AccountsUnchanged, TypeOK
    <2>4. CASE UpdateProfile(c)
      BY <1>0, <2>4 DEF UpdateProfile, TypeOK, UserRow
    <2>5. CASE \E verified \in BOOLEAN : VerifyEmail(c, verified)
      <3>1. PICK verified \in BOOLEAN : VerifyEmail(c, verified)
        BY <2>5
      <3>2. user' = [user EXCEPT ![u].verified = verified]
        BY <2>1, <3>1
      <3> QED
        BY <1>0, <3>2 DEF TypeOK, UserRow
    <2>6. CASE \E nif \in Nif : SetProducer(c, nif)
      <3> DEFINE row == [user[u] EXCEPT !.role = "PRODUCER", !.names = TRUE]
      <3>1. user' = user \/ user' = [user EXCEPT ![u] = row]
        BY <2>3, <2>6
      <3>2. /\ row.role = "PRODUCER"
            /\ row.deletedAt = user[u].deletedAt
            /\ row.deactivatedAt = user[u].deactivatedAt
        BY <1>0 DEF TypeOK, UserRow
      <3> HIDE DEF row
      <3> QED
        BY <1>0, <3>1, <3>2 DEF TypeOK
    <2> QED
      BY <1>2, <2>2, <2>4, <2>5, <2>6
  <1>3. CASE \E verified \in BOOLEAN : CreateUser(c, verified)
    BY <1>0, <1>1, <1>3 DEF AbsentIsBlank, Gone, Active, AccountState
  <1>4. CASE ~ \E verified \in BOOLEAN : CreateUser(c, verified)
    <2>1. AbsentIsBlank'
      BY <1>0, <1>2, <1>4 DEF AbsentIsBlank
    <2>2. \A v \in User : /\ Gone(v)' <=> Gone(v)
                          /\ Active(v) => Active(v)'
      BY <1>0, <1>2, <1>4 DEF AbsentIsBlank, Gone, Active, AccountState
    <2> QED
      BY <2>1, <2>2
  <1> QED
    BY <1>3, <1>4

\* All that the inductive step needs of a step that writes no checkout.
LEMMA CheckoutFrame ==
    ASSUME TypeOK, TypeOK', CheckoutContent, RequestsOwned,
           UNCHANGED checkout,
           \A a \in AddressId :
              address[a].owner # Nobody => address'[a].owner = address[a].owner,
           \A v \in User : Gone(v)' <=> Gone(v),
           \A d \in Session :
              \/ /\ request'[d] = request[d]
                 /\ Phase(d) = "upsert" => Active(request[d].user)'
              \/ IntentOwned(d)' /\ EditOwned(d)'
    PROVE  CheckoutContent' /\ RequestsOwned'
  <1>1. \A a \in AddressId : address'[a].owner \in User \cup {Nobody}
    BY DEF TypeOK, AddressRow
  <1>2. CheckoutContent'
    BY DataAssumption DEF CheckoutContent, Gone
  <1>3. ASSUME NEW d \in Session, request'[d] = request[d],
               Phase(d) = "upsert" => Active(request[d].user)'
        PROVE  IntentOwned(d)'
    <2>0. Phase(d)' = Phase(d)
      BY <1>3 DEF Phase
    <2>1. CASE Phase(d) \in IntentPhase
      <3>1. request[d] \in Intent
        BY <2>1, RequestKind DEF IntentPhase
      <3>2. /\ address[request[d].address].owner = request[d].user
            /\ Phase(d) \in {"charge", "bind"} =>
                 checkout[request[d].address] # "none"
        BY <2>1 DEF RequestsOwned, IntentOwned
      <3>3. request[d].address \in AddressId /\ request[d].user # Nobody
        BY <3>1, DataAssumption DEF Intent
      <3>4. address'[request[d].address].owner = request[d].user
        BY <3>2, <3>3
      <3> QED
        BY <1>3, <2>0, <3>2, <3>4 DEF IntentOwned
    <2>2. CASE Phase(d) \notin IntentPhase
      BY <2>0, <2>2 DEF IntentOwned, IntentPhase
    <2> QED
      BY <2>1, <2>2
  <1>4. ASSUME NEW d \in Session, request'[d] = request[d]
        PROVE  EditOwned(d)'
    <2>0. Phase(d)' = Phase(d)
      BY <1>4 DEF Phase
    <2> SUFFICES ASSUME Phase(d) \in {"demote", "write"},
                        request[d].address # NewAddress
                 PROVE  address'[request[d].address].owner = request[d].user
      BY <1>4, <2>0 DEF EditOwned
    <2>1. request[d] \in Edit
      BY RequestKind
    <2>2. request[d].address \in AddressId /\ request[d].user # Nobody
      BY <2>1, DataAssumption DEF Edit
    <2>3. address[request[d].address].owner = request[d].user
      BY DEF RequestsOwned, EditOwned
    <2> QED
      BY <2>2, <2>3
  <1> QED
    BY <1>2, <1>3, <1>4 DEF RequestsOwned

\* A session outside the phases of a charge or an edit owes nothing.
LEMMA Unowned ==
    ASSUME NEW c \in Session,
           request'[c].phase \notin IntentPhase \cup {"demote", "write"}
    PROVE  IntentOwned(c)' /\ EditOwned(c)'
  BY DEF IntentOwned, EditOwned, Phase, IntentPhase

LEMMA InitCheckout == Init => CheckoutInv
  BY InitType DEF Init, CheckoutInv, AbsentIsBlank, NoRow, CheckoutContent,
                  RequestsOwned, IntentOwned, EditOwned, IntentPhase, Phase,
                  Idle

\* Others stay where they are; c leaves the lock of the preflight, if it held
\* it, and the accounts are as active as they were.
LEMMA OthersStay ==
    ASSUME TypeOK, RequestsOwned, NEW c \in Session, NEW r \in Request,
           Goto(c, r), \A v \in User : Active(v) => Active(v)'
    PROVE  \A d \in Session \ {c} :
              /\ request'[d] = request[d]
              /\ Phase(d) = "upsert" => Active(request[d].user)'
  <1> TAKE d \in Session \ {c}
  <1>1. request'[d] = request[d]
    BY GotoType
  <1>2. ASSUME Phase(d) = "upsert" PROVE Active(request[d].user)'
    <2>1. Active(request[d].user) /\ request[d].user \in User
      BY <1>2, RequestKind DEF RequestsOwned, IntentOwned
    <2>2. \A v \in User : Active(v)' => (v = request[d].user => Active(request[d].user)')
      BY <1>1 DEF Active, AccountState
    <2> QED
      BY <2>1, <2>2
  <1> QED
    BY <1>1, <1>2

\* Steps that write no user row and no checkout, and end or go on outside the
\* phases that own an address.
LEMMA QuietStep ==
    ASSUME CheckoutInv, TypeOK', [Next]_vars, NEW c \in Session,
           NEW r \in Request, Goto(c, r),
           r.phase \notin IntentPhase \cup {"demote", "write"},
           UNCHANGED <<user, checkout>>
    PROVE  CheckoutInv'
  <1>1. /\ \A v \in User : Gone(v)' <=> Gone(v)
        /\ \A v \in User : Active(v) => Active(v)'
        /\ AbsentIsBlank'
    BY DEF Gone, Active, AccountState, AbsentIsBlank, CheckoutInv
  <1>2. request'[c] = r
    BY GotoType DEF CheckoutInv
  <1>3. IntentOwned(c)' /\ EditOwned(c)'
    BY <1>2, Unowned
  <1>4. \A d \in Session \ {c} :
          /\ request'[d] = request[d]
          /\ Phase(d) = "upsert" => Active(request[d].user)'
    BY <1>1, OthersStay DEF CheckoutInv
  <1>5. CheckoutContent' /\ RequestsOwned'
    BY <1>1, <1>3, <1>4, OwnerIsKept, CheckoutFrame DEF CheckoutInv
  <1> QED
    BY <1>1, <1>5 DEF CheckoutInv

\* The same for a step that enters such a phase and is about an address the
\* user owns.
LEMMA OwningStep ==
    ASSUME CheckoutInv, TypeOK', [Next]_vars, NEW c \in Session,
           NEW r \in Request, Goto(c, r),
           IntentOwned(c)', EditOwned(c)',
           UNCHANGED <<user, checkout>>
    PROVE  CheckoutInv'
  <1>1. /\ \A v \in User : Gone(v)' <=> Gone(v)
        /\ \A v \in User : Active(v) => Active(v)'
        /\ AbsentIsBlank'
    BY DEF Gone, Active, AccountState, AbsentIsBlank, CheckoutInv
  <1>2. \A d \in Session \ {c} :
          /\ request'[d] = request[d]
          /\ Phase(d) = "upsert" => Active(request[d].user)'
    BY <1>1, OthersStay DEF CheckoutInv
  <1>3. CheckoutContent' /\ RequestsOwned'
    BY <1>1, <1>2, OwnerIsKept, CheckoutFrame DEF CheckoutInv
  <1> QED
    BY <1>1, <1>3 DEF CheckoutInv

LEMMA AccountStepCheckout ==
    ASSUME CheckoutInv, TypeOK', [Next]_vars, NEW c \in Session,
           \/ \E u \in User, op \in Operation : Admit(c, u, op)
           \/ Abandon(c)
           \/ FindBySub(c)
           \/ \E verified \in BOOLEAN : CreateUser(c, verified)
           \/ \E verified \in BOOLEAN : VerifyEmail(c, verified)
           \/ ReadRole(c)
           \/ SetConsumer(c)
           \/ \E nif \in Nif : SetProducer(c, nif)
           \/ UpdateProfile(c)
    PROVE  CheckoutInv'
  <1>1. ASSUME NEW u \in User, NEW op \in Operation, Admit(c, u, op)
        PROVE  CheckoutInv'
    <2>1. [phase |-> op, user |-> u] \in Request
      BY DEF Request, Admitted
    <2>2. op \notin IntentPhase \cup {"demote", "write"}
      BY DEF Operation, Onboarding, Shopping, IntentPhase
    <2> QED
      BY <1>1, <2>1, <2>2, QuietStep
         DEF Admit, AccountsUnchanged, CheckoutUnchanged
  <1>2. CASE Abandon(c)
    BY <1>2, IdleIsRequest, QuietStep
       DEF Abandon, Idle, IntentPhase, AccountsUnchanged, CheckoutUnchanged
  <1>3. CASE FindBySub(c)
    <2> DEFINE u == request[c].user
               next == CASE AccountState(u) = "ABSENT" ->
                              [phase |-> "createUser", user |-> u]
                         [] AccountState(u) = "ACTIVE" ->
                              [phase |-> "verifyEmail", user |-> u]
                         [] OTHER -> Idle
    <2>1. u \in User
      BY <1>3, RequestKind DEF FindBySub, CheckoutInv
    <2>2. next \in Request /\ next.phase \in {"createUser", "verifyEmail", "idle"}
      BY <2>1 DEF Request, Admitted, Idle
    <2>3. Goto(c, next) /\ UNCHANGED <<user, checkout>>
      BY <1>3 DEF FindBySub, AccountsUnchanged, CheckoutUnchanged
    <2> QED
      BY <2>2, <2>3, QuietStep DEF IntentPhase
  <1>4. CASE ReadRole(c)
    <2> DEFINE u == request[c].user
               to == IF Phase(c) = "consumer" THEN "setConsumer"
                                              ELSE "setProducer"
               next == IF Active(u) /\ user[u].role = "PENDING_ROLE"
                       THEN [phase |-> to, user |-> u] ELSE Idle
    <2>1. u \in User
      BY <1>4, RequestKind DEF ReadRole, Onboarding, CheckoutInv
    <2>2. next \in Request /\ next.phase \in {"setConsumer", "setProducer", "idle"}
      BY <2>1 DEF Request, Admitted, Idle
    <2>3. Goto(c, next) /\ UNCHANGED <<user, checkout>>
      BY <1>4 DEF ReadRole, AccountsUnchanged, CheckoutUnchanged
    <2> QED
      BY <2>2, <2>3, QuietStep DEF IntentPhase
  <1>5. CASE \/ \E verified \in BOOLEAN : CreateUser(c, verified)
             \/ \E verified \in BOOLEAN : VerifyEmail(c, verified)
             \/ SetConsumer(c)
             \/ \E nif \in Nif : SetProducer(c, nif)
             \/ UpdateProfile(c)
    <2>1. /\ AbsentIsBlank'
          /\ \A v \in User : Gone(v)' <=> Gone(v)
          /\ \A v \in User : Active(v) => Active(v)'
      BY <1>5, SessionKeepsAccounts DEF CheckoutInv
    <2>2. Goto(c, Idle) /\ UNCHANGED <<address, checkout>>
      BY <1>5 DEF CreateUser, VerifyEmail, SetConsumer, SetProducer,
                  UpdateProfile, BookUnchanged, CheckoutUnchanged
    <2>3. request'[c].phase = "idle"
      BY <2>2, IdleIsRequest, GotoType DEF Idle, CheckoutInv
    <2>4. IntentOwned(c)' /\ EditOwned(c)'
      BY <2>3, Unowned DEF IntentPhase
    <2>5. \A d \in Session \ {c} :
            /\ request'[d] = request[d]
            /\ Phase(d) = "upsert" => Active(request[d].user)'
      BY <2>1, <2>2, IdleIsRequest, OthersStay DEF CheckoutInv
    <2>6. CheckoutContent' /\ RequestsOwned'
      BY <2>1, <2>2, <2>4, <2>5, CheckoutFrame DEF CheckoutInv
    <2> QED
      BY <2>1, <2>6 DEF CheckoutInv
  <1> QED
    BY <1>1, <1>2, <1>3, <1>4, <1>5

LEMMA BookStepCheckout ==
    ASSUME CheckoutInv, TypeOK', [Next]_vars, NEW c \in Session,
           \/ \E wanted \in BOOLEAN : CountAddresses(c, wanted)
           \/ \E a \in AddressId, isDefault \in {"keep", "yes", "no"} :
                FindForUpdate(c, a, isDefault)
           \/ MatchDefaults(c)
           \/ \E a \in AddressId : InsertAddress(c, a)
           \/ \E content \in BOOLEAN : UpdateAddress(c, content)
           \/ \E a \in AddressId : FindForRemoval(c, a)
           \/ RetireAddress(c)
           \/ PromoteHeir(c)
    PROVE  CheckoutInv'
  <1> DEFINE u == request[c].user
  <1>0. /\ TypeOK
        /\ request'[c] \in Request
        /\ UNCHANGED <<user, checkout>>
        /\ Goto(c, request'[c])
    BY DEF CheckoutInv, TypeOK, CountAddresses, FindForUpdate, MatchDefaults,
           InsertAddress, UpdateAddress, FindForRemoval, RetireAddress,
           PromoteHeir, AccountsUnchanged, CheckoutUnchanged, Goto
  <1>1. ASSUME NEW wanted \in BOOLEAN, CountAddresses(c, wanted)
        PROVE  CheckoutInv'
    <2>1. /\ request'[c].phase \in {"demote", "write"}
          /\ request'[c].address = NewAddress
      BY <1>0, <1>1 DEF CountAddresses, Goto, TypeOK
    <2>2. IntentOwned(c)' /\ EditOwned(c)'
      BY <2>1 DEF IntentOwned, EditOwned, IntentPhase, Phase
    <2> QED
      BY <1>0, <2>2, OwningStep
  <1>2. ASSUME NEW a \in AddressId, NEW isDefault \in {"keep", "yes", "no"},
               FindForUpdate(c, a, isDefault)
        PROVE  CheckoutInv'
    <2>1. /\ request'[c].phase \in {"demote", "write"}
          /\ request'[c].address = a
          /\ request'[c].user = u
          /\ address'[a].owner = u
      BY <1>0, <1>2 DEF FindForUpdate, Goto, TypeOK, Book, BookUnchanged
    <2>2. IntentOwned(c)' /\ EditOwned(c)'
      BY <2>1 DEF IntentOwned, EditOwned, IntentPhase, Phase
    <2> QED
      BY <1>0, <2>2, OwningStep
  <1>3. CASE MatchDefaults(c)
    <2>1. request[c] \in Edit
      BY <1>0, <1>3, RequestKind DEF MatchDefaults
    <2>2. /\ request'[c].phase = "write"
          /\ request'[c].address = request[c].address
          /\ request'[c].user = u
          /\ address' = address
      BY <1>0, <1>3, <2>1 DEF MatchDefaults, Goto, TypeOK, Edit, BookUnchanged
    <2>3. request[c].address # NewAddress =>
            address[request[c].address].owner = u
      BY <1>3 DEF MatchDefaults, CheckoutInv, RequestsOwned, EditOwned
    <2>4. IntentOwned(c)' /\ EditOwned(c)'
      BY <2>2, <2>3 DEF IntentOwned, EditOwned, IntentPhase, Phase
    <2> QED
      BY <1>0, <2>4, OwningStep
  <1>4. CASE \/ \E a \in AddressId : InsertAddress(c, a)
             \/ \E content \in BOOLEAN : UpdateAddress(c, content)
             \/ \E a \in AddressId : FindForRemoval(c, a)
             \/ PromoteHeir(c)
    <2>1. ASSUME NEW a \in AddressId, InsertAddress(c, a)
          PROVE  request'[c].phase = "idle"
      BY <1>0, <2>1 DEF InsertAddress, Goto, Idle, TypeOK
    <2>2. ASSUME NEW content \in BOOLEAN, UpdateAddress(c, content)
          PROVE  request'[c].phase = "idle"
      BY <1>0, <2>2 DEF UpdateAddress, Goto, Idle, TypeOK
    <2>3. ASSUME NEW a \in AddressId, FindForRemoval(c, a)
          PROVE  request'[c].phase = "retire"
      BY <1>0, <2>3 DEF FindForRemoval, Goto, TypeOK
    <2>4. CASE PromoteHeir(c)
      <3>1. request'[c].phase = "idle"
        BY <1>0, <2>4 DEF PromoteHeir, Goto, Idle, TypeOK
      <3> QED
        BY <1>0, <3>1, QuietStep DEF IntentPhase
    <2>5. request'[c].phase \in {"idle", "retire"} \/ PromoteHeir(c)
      BY <1>4, <2>1, <2>2, <2>3
    <2> QED
      BY <1>0, <2>4, <2>5, QuietStep DEF IntentPhase
  <1>5. CASE RetireAddress(c)
    <2>1. request[c] \in Removal
      BY <1>0, <1>5, RequestKind DEF RetireAddress
    <2>2. \/ Goto(c, Idle)
          \/ \E heir \in Newest(c) :
               Goto(c, [request[c] EXCEPT !.phase = "promote", !.heir = heir])
      BY <1>5 DEF RetireAddress
    <2>3. ASSUME NEW heir \in Newest(c),
                 Goto(c, [request[c] EXCEPT !.phase = "promote", !.heir = heir])
          PROVE  request'[c].phase = "promote"
      <3> DEFINE next == [request[c] EXCEPT !.phase = "promote", !.heir = heir]
      <3>1. next.phase = "promote"
        BY <2>1 DEF Removal
      <3> HIDE DEF next
      <3> QED
        BY <1>0, <2>3, <3>1 DEF Goto, TypeOK, next
    <2>4. Goto(c, Idle) => request'[c].phase = "idle"
      BY <1>0 DEF Goto, Idle, TypeOK
    <2>5. request'[c].phase \in {"idle", "promote"}
      BY <2>2, <2>3, <2>4
    <2> QED
      BY <1>0, <2>5, QuietStep DEF IntentPhase
  <1> QED
    BY <1>1, <1>2, <1>3, <1>4, <1>5

\* Only a preflight that finds every party active goes on to the upsert.
LEMMA ChargeStepCheckout ==
    ASSUME CheckoutInv, TypeOK', [Next]_vars, NEW c \in Session,
           \/ \E a \in AddressId : ReadAddress(c, a)
           \/ Preflight(c)
           \/ UpsertCheckout(c)
           \/ StripeAnswers(c)
           \/ BindIntent(c)
    PROVE  CheckoutInv'
  <1> DEFINE u == request[c].user
             x == request[c].address
  <1>0. /\ TypeOK
        /\ request'[c] \in Request
        /\ UNCHANGED user
        /\ Goto(c, request'[c])
    BY DEF CheckoutInv, TypeOK, ReadAddress, Preflight, UpsertCheckout,
           StripeAnswers, BindIntent, AccountsUnchanged, Goto
  <1>1. ASSUME NEW a \in AddressId, ReadAddress(c, a)
        PROVE  CheckoutInv'
    <2>1. /\ request'[c].phase = "preflight"
          /\ request'[c].address = a
          /\ request'[c].user = u
          /\ address'[a].owner = u
          /\ UNCHANGED checkout
      BY <1>0, <1>1 DEF ReadAddress, Goto, TypeOK, Book, BookUnchanged,
                        CheckoutUnchanged
    <2>2. IntentOwned(c)' /\ EditOwned(c)'
      BY <2>1 DEF IntentOwned, EditOwned, IntentPhase, Phase
    <2> QED
      BY <1>0, <2>1, <2>2, OwningStep
  <1>2. CASE \/ Preflight(c) \/ UpsertCheckout(c) \/ StripeAnswers(c)
             \/ BindIntent(c)
    <2>1. request[c] \in Intent /\ Phase(c) \in IntentPhase
      BY <1>0, <1>2, RequestKind
         DEF Preflight, UpsertCheckout, StripeAnswers, BindIntent, IntentPhase
    <2>2. /\ address[x].owner = u
          /\ Phase(c) = "upsert" => Active(u)
          /\ Phase(c) \in {"charge", "bind"} => checkout[x] # "none"
      BY <2>1 DEF CheckoutInv, RequestsOwned, IntentOwned
    <2>3. UNCHANGED address
      BY <1>2 DEF Preflight, UpsertCheckout, StripeAnswers, BindIntent,
                  BookUnchanged
    <2>4. CASE Preflight(c)
      <3>1. CASE \A v \in Parties(u) : Active(v)
        <4>1. Goto(c, [request[c] EXCEPT !.phase = "upsert"])
          BY <2>4, <3>1 DEF Preflight
        <4>2. /\ request'[c].phase = "upsert"
              /\ request'[c].address = x
              /\ request'[c].user = u
          BY <1>0, <2>1, <4>1 DEF Goto, TypeOK, Intent
        <4>3. Active(u)'
          BY <1>0, <3>1, <4>2 DEF Parties, Active, AccountState
        <4>4. Active(request[c].user)'
          BY <1>0, <3>1, <4>2 DEF Parties, Active, AccountState
        <4>5. IntentOwned(c)' /\ EditOwned(c)'
          BY <2>2, <2>3, <4>2, <4>4 DEF IntentOwned, EditOwned, Phase
        <4> QED
          BY <1>0, <2>4, <4>5, OwningStep DEF Preflight, CheckoutUnchanged
      <3>2. CASE ~ \A v \in Parties(u) : Active(v)
        BY <2>4, <3>2, IdleIsRequest, QuietStep
           DEF Preflight, Idle, IntentPhase, CheckoutUnchanged,
               AccountsUnchanged
      <3> QED
        BY <3>1, <3>2
    <2>5. CASE UpsertCheckout(c)
      <3>1. /\ request'[c].phase = "charge"
            /\ request'[c].address = x
            /\ request'[c].user = u
        BY <1>0, <2>1, <2>5 DEF UpsertCheckout, Goto, TypeOK, Intent
      <3>2. /\ x \in AddressId /\ u \in User
            /\ Active(u)
        BY <2>1, <2>2, <2>5 DEF Intent, UpsertCheckout
      <3>3. /\ checkout'[x] = IF checkout[x] = "none" THEN "personal"
                                                     ELSE checkout[x]
            /\ \A a \in AddressId \ {x} : checkout'[a] = checkout[a]
        BY <1>0, <2>5, <3>2 DEF UpsertCheckout, TypeOK
      <3>4. \A a \in AddressId : Gone(address[a].owner)' <=> Gone(address[a].owner)
        BY <1>0, <2>3 DEF Gone, AccountState
      <3>5. CheckoutContent'
        BY <2>2, <2>3, <3>2, <3>3, <3>4
           DEF CheckoutContent, CheckoutInv, Gone, Active
      <3>6. IntentOwned(c)' /\ EditOwned(c)'
        BY <2>2, <2>3, <3>1, <3>3, <3>2 DEF IntentOwned, EditOwned, Phase
      <3>7. ASSUME NEW d \in Session \ {c}
            PROVE  IntentOwned(d)' /\ EditOwned(d)'
        <4>1. request'[d] = request[d] /\ UNCHANGED <<user, address>>
          BY <1>0, <2>3, <2>5 DEF UpsertCheckout, Goto, TypeOK
        <4>2. Active(request[d].user)' <=> Active(request[d].user)
          BY <4>1 DEF Active, AccountState
        <4>3. Phase(d) \in {"charge", "bind"} =>
                request[d].address \in AddressId
          BY <1>0, RequestKind DEF Intent
        <4>4. IntentOwned(d) /\ EditOwned(d)
          BY DEF CheckoutInv, RequestsOwned
        <4> QED
          BY <3>3, <4>1, <4>2, <4>3, <4>4
             DEF IntentOwned, EditOwned, Phase
      <3>8. AbsentIsBlank'
        BY <1>0 DEF CheckoutInv, AbsentIsBlank
      <3> QED
        BY <3>5, <3>6, <3>7, <3>8 DEF CheckoutInv, RequestsOwned
    <2>6. CASE StripeAnswers(c)
      <3>1. /\ request'[c].phase = "bind"
            /\ request'[c].address = x
            /\ request'[c].user = u
            /\ UNCHANGED checkout
        BY <1>0, <2>1, <2>6 DEF StripeAnswers, Goto, TypeOK, Intent,
                                CheckoutUnchanged
      <3>2. IntentOwned(c)' /\ EditOwned(c)'
        BY <2>2, <2>3, <2>6, <3>1 DEF IntentOwned, EditOwned, Phase,
                                      StripeAnswers
      <3> QED
        BY <1>0, <3>1, <3>2, OwningStep
    <2>7. CASE BindIntent(c)
      BY <2>7, IdleIsRequest, QuietStep
         DEF BindIntent, Idle, IntentPhase, AccountsUnchanged
    <2> QED
      BY <1>2, <2>4, <2>5, <2>6, <2>7
  <1> QED
    BY <1>1, <1>2

\* A deactivation waits for the preflights that hold the row; a deletion takes
\* the checkouts of the user's addresses with it.
LEMMA AdminStepCheckout ==
    ASSUME CheckoutInv, TypeOK', [Next]_vars, NEW u \in User,
           ActivateUser(u) \/ DeactivateUser(u) \/ DeleteUser(u)
    PROVE  CheckoutInv'
  <1>0. /\ TypeOK /\ AbsentIsBlank /\ CheckoutContent /\ RequestsOwned
        /\ UNCHANGED request
        /\ UserFree(u)
        /\ user[u].role # "NONE"
    BY DEF CheckoutInv, ActivateUser, DeactivateUser, DeleteUser, Onboarded
  <1>1. \A v \in User \ {u} : user'[v] = user[v]
    BY <1>0 DEF ActivateUser, DeactivateUser, DeleteUser, TypeOK
  <1>2. user'[u].role = user[u].role
    BY <1>0 DEF ActivateUser, DeactivateUser, DeleteUser, TypeOK, UserRow
  <1>3. AbsentIsBlank'
    BY <1>0, <1>1, <1>2 DEF AbsentIsBlank
  <1>4. \A v \in User \ {u} : /\ Gone(v)' <=> Gone(v)
                             /\ Active(v)' <=> Active(v)
    BY <1>1 DEF Gone, Active, AccountState
  <1>5. ASSUME NEW d \in Session, Phase(d) = "upsert"
        PROVE  Active(request[d].user)'
    <2>1. Active(request[d].user) /\ request[d].user \in User \ {u}
      BY <1>0, <1>5, RequestKind
         DEF RequestsOwned, IntentOwned, UserFree, Parties
    <2>2. Active(request[d].user)' <=> Active(request[d].user)
      BY <1>0, <1>1, <2>1 DEF Active, AccountState
    <2> QED
      BY <2>1, <2>2
  <1>6. CASE ActivateUser(u) \/ DeactivateUser(u)
    <2>1. /\ UNCHANGED <<address, checkout>>
          /\ ~ Gone(u)
          /\ user'[u].deletedAt = user[u].deletedAt
      BY <1>0, <1>6
         DEF ActivateUser, DeactivateUser, Gone, TypeOK, UserRow,
             BookUnchanged, CheckoutUnchanged
    <2>2. ~ Gone(u)'
      BY <1>0, <1>2, <2>1 DEF Gone, AccountState
    <2>3. \A v \in User : Gone(v)' <=> Gone(v)
      <3> TAKE v \in User
      <3>1. CASE v = u
        BY <2>1, <2>2, <3>1 DEF Gone, AccountState
      <3>2. CASE v # u
        BY <1>1, <3>2 DEF Gone, AccountState
      <3> QED
        BY <3>1, <3>2
    <2>4. \A d \in Session :
            /\ request'[d] = request[d]
            /\ Phase(d) = "upsert" => Active(request[d].user)'
      BY <1>0, <1>5
    <2>5. \A a \in AddressId :
            address[a].owner # Nobody => address'[a].owner = address[a].owner
      BY <2>1
    <2>6. CheckoutContent' /\ RequestsOwned'
      BY <1>0, <2>1, <2>3, <2>4, <2>5, CheckoutFrame
    <2> QED
      BY <1>3, <2>6 DEF CheckoutInv
  <1>7. CASE DeleteUser(u)
    <2>1. user'[u].deletedAt
      BY <1>0, <1>7 DEF DeleteUser, TypeOK, UserRow
    <2>2. Gone(u)'
      BY <1>0, <1>2, <2>1 DEF Gone, AccountState
    <2>3. \A a \in AddressId : address'[a].owner = address[a].owner
      <3> TAKE a \in AddressId
      <3>1. address'[a] = address[a] \/ address'[a] = Redacted(address[a])
        BY <1>7 DEF DeleteUser
      <3>2. Redacted(address[a]).owner = address[a].owner
        BY <1>0 DEF Redacted, TypeOK, AddressRow
      <3> QED
        BY <3>1, <3>2
    <2>4. \A a \in AddressId :
            /\ checkout'[a] = "none" <=> checkout[a] = "none"
            /\ address[a].owner = u => checkout'[a] # "personal"
            /\ address[a].owner # u => checkout'[a] = checkout[a]
      BY <1>0, <1>7 DEF DeleteUser, TypeOK
    <2>5. CheckoutContent'
      <3> SUFFICES ASSUME NEW a \in AddressId
                   PROVE  /\ checkout'[a] # "none" => address'[a].owner \in User
                          /\ checkout'[a] = "personal" => ~ Gone(address[a].owner)'
                          /\ checkout'[a] = "redacted" => Gone(address[a].owner)'
        BY DEF CheckoutContent
      <3> DEFINE v == address[a].owner
      <3>1. address'[a].owner = v
        BY <2>3
      <3>2. CASE v = u
        <4>1. Gone(address[a].owner)'
          BY <2>2, <3>1, <3>2 DEF Gone, AccountState
        <4> QED
          BY <2>4, <3>1, <3>2, <4>1
      <3>3. CASE v # u
        <4>1. checkout[a] = "none" \/ v \in User
          BY <1>0 DEF CheckoutContent
        <4>2. v \in User => (Gone(address[a].owner)' <=> Gone(v))
          BY <1>1, <3>1, <3>3 DEF Gone, AccountState
        <4> QED
          BY <1>0, <2>4, <3>1, <3>3, <4>1, <4>2 DEF CheckoutContent
      <3> QED
        BY <3>2, <3>3
    <2>6. ASSUME NEW d \in Session
          PROVE  IntentOwned(d)' /\ EditOwned(d)'
      <3>1. IntentOwned(d) /\ EditOwned(d) /\ Phase(d)' = Phase(d)
        BY <1>0 DEF RequestsOwned, Phase
      <3>2. Phase(d) \in IntentPhase => request[d].address \in AddressId
        BY <1>0, RequestKind DEF IntentPhase, Intent
      <3>3. Phase(d) \in {"demote", "write"} =>
              request[d].address \in AddressId \cup {NewAddress}
        BY <1>0, RequestKind DEF Edit
      <3> QED
        BY <1>0, <1>5, <2>3, <2>4, <3>1, <3>2, <3>3
           DEF IntentOwned, EditOwned, IntentPhase
    <2> QED
      BY <1>3, <2>5, <2>6 DEF CheckoutInv, RequestsOwned
  <1> QED
    BY <1>6, <1>7

LEMMA StepCheckout == CheckoutInv /\ [Next]_vars => CheckoutInv'
  <1> SUFFICES ASSUME CheckoutInv, [Next]_vars PROVE CheckoutInv'
    OBVIOUS
  <1>1. TypeOK'
    BY StepType DEF CheckoutInv
  <1>2. CASE UNCHANGED vars
    BY <1>1, <1>2 DEF CheckoutInv, AbsentIsBlank, CheckoutContent, Gone,
                      RequestsOwned, IntentOwned, EditOwned, Phase, Active,
                      AccountState, vars
  <1>3. CASE \E u \in User :
                ActivateUser(u) \/ DeactivateUser(u) \/ DeleteUser(u)
    BY <1>1, <1>3, AdminStepCheckout
  <1> QED
    BY <1>1, <1>2, <1>3, AccountStepCheckout, BookStepCheckout,
       ChargeStepCheckout DEF Next

LEMMA CheckoutsAreSafe == Spec => []CheckoutInv
  BY InitCheckout, StepCheckout, PTL DEF Spec

\* The personal data copied into a pending checkout never outlives the
\* account, for any number of sessions, addresses and sellers.
THEOREM CheckoutsStayRedacted == Spec => []CheckoutsRedacted
  <1>1. CheckoutInv => CheckoutsRedacted
    BY DEF CheckoutInv, CheckoutContent, CheckoutsRedacted, Gone
  <1> QED
    BY <1>1, CheckoutsAreSafe, PTL

\* A charge is bound only to a checkout that still shows its address.
THEOREM ChargesShowTheirAddress == Spec => BindsChosenAddress
  <1>1. ASSUME CheckoutInv, [Next]_vars, NEW a \in AddressId,
               a \in bound' \ bound
        PROVE  checkout'[a] = "personal"
    <2>1. PICK c \in Session : BindIntent(c)
      BY <1>1 DEF Next, vars, Admit, Abandon, FindBySub, CreateUser,
            VerifyEmail, ReadRole, SetConsumer, SetProducer, UpdateProfile,
            CountAddresses, FindForUpdate, MatchDefaults, InsertAddress,
            UpdateAddress, FindForRemoval, RetireAddress, PromoteHeir,
            ReadAddress, Preflight, UpsertCheckout, StripeAnswers,
            ActivateUser, DeactivateUser, DeleteUser, CheckoutUnchanged
    <2>2. /\ a = request[c].address
          /\ \A v \in Parties(request[c].user) : Active(v)
          /\ checkout' = checkout
      BY <1>1, <2>1 DEF BindIntent
    <2>3. /\ address[a].owner = request[c].user
          /\ checkout[a] # "none"
      BY <1>1, <2>1, <2>2 DEF BindIntent, CheckoutInv, RequestsOwned,
                              IntentOwned, IntentPhase
    <2>4. Active(address[a].owner)
      BY <2>2, <2>3 DEF Parties
    <2>5. checkout[a] # "redacted"
      BY <1>1, <2>4 DEF CheckoutInv, CheckoutContent, Gone, Active
    <2> QED
      BY <1>1, <2>2, <2>3, <2>5 DEF CheckoutInv, TypeOK
  <1>2. CheckoutInv /\ [Next]_vars =>
          [\A a \in AddressId :
             a \in bound' \ bound => checkout'[a] = "personal"]_vars
    BY <1>1
  <1> QED
    BY <1>2, CheckoutsAreSafe, PTL DEF Spec, BindsChosenAddress

-----------------------------------------------------------------------------
(* Requests that follow one another.  A session is idle after a write by   *)
(* id, and a user with two sessions at work is in `overlapped` for good.   *)

\* How the sessions move: one at a time, for the user they were admitted for.
LEMMA RequestMoves ==
    ASSUME TypeOK, [Next]_vars
    PROVE  \/ UNCHANGED <<request, overlapped>>
           \/ \E c \in Session :
                /\ \A d \in Session \ {c} : request'[d] = request[d]
                /\ \/ request'[c] = Idle /\ overlapped' = overlapped
                   \/ /\ Phase(c) # "idle" /\ overlapped' = overlapped
                      /\ request'[c].user = request[c].user
                   \/ \E u \in User, op \in Operation : Admit(c, u, op)
  <1> DEFINE Moved(c) ==
        /\ \A d \in Session \ {c} : request'[d] = request[d]
        /\ \/ request'[c] = Idle /\ overlapped' = overlapped
           \/ /\ Phase(c) # "idle" /\ overlapped' = overlapped
              /\ request'[c].user = request[c].user
           \/ \E u \in User, op \in Operation : Admit(c, u, op)
  <1>1. ASSUME NEW c \in Session, NEW r, Goto(c, r), overlapped' = overlapped,
               r = Idle \/ (Phase(c) # "idle" /\ r.user = request[c].user)
        PROVE  Moved(c)
    BY <1>1 DEF Goto, TypeOK
  <1>2. ASSUME NEW c \in Session, NEW u \in User, NEW op \in Operation,
               Admit(c, u, op)
        PROVE  Moved(c)
    BY <1>2 DEF Admit, Goto, TypeOK
  <1>3. ASSUME NEW c \in Session,
               \/ Abandon(c)
               \/ \E verified \in BOOLEAN : CreateUser(c, verified)
               \/ \E verified \in BOOLEAN : VerifyEmail(c, verified)
               \/ SetConsumer(c)
               \/ \E nif \in Nif : SetProducer(c, nif)
               \/ UpdateProfile(c)
               \/ \E a \in AddressId : InsertAddress(c, a)
               \/ \E content \in BOOLEAN : UpdateAddress(c, content)
               \/ PromoteHeir(c)
               \/ BindIntent(c)
        PROVE  Moved(c)
    <2>1. Goto(c, Idle) /\ overlapped' = overlapped
      BY <1>3 DEF Abandon, CreateUser, VerifyEmail, SetConsumer, SetProducer,
                  UpdateProfile, InsertAddress, UpdateAddress, PromoteHeir,
                  BindIntent, HistoryUnchanged
    <2> QED
      BY <1>1, <2>1
  <1>4. ASSUME NEW c \in Session, FindBySub(c) \/ ReadRole(c)
        PROVE  Moved(c)
    <2>1. CASE FindBySub(c)
      BY <1>1, <2>1 DEF FindBySub, HistoryUnchanged
    <2>2. CASE ReadRole(c)
      BY <1>1, <2>2 DEF ReadRole, HistoryUnchanged, Onboarding
    <2> QED
      BY <1>4, <2>1, <2>2
  <1>5. ASSUME NEW c \in Session,
               \/ \E wanted \in BOOLEAN : CountAddresses(c, wanted)
               \/ \E a \in AddressId, isDefault \in {"keep", "yes", "no"} :
                    FindForUpdate(c, a, isDefault)
               \/ \E a \in AddressId : FindForRemoval(c, a)
               \/ \E a \in AddressId : ReadAddress(c, a)
        PROVE  Moved(c)
    <2>1. ASSUME NEW wanted \in BOOLEAN, CountAddresses(c, wanted)
          PROVE  Moved(c)
      BY <1>1, <2>1 DEF CountAddresses, HistoryUnchanged
    <2>2. ASSUME NEW a \in AddressId, NEW isDefault \in {"keep", "yes", "no"},
                 FindForUpdate(c, a, isDefault)
          PROVE  Moved(c)
      BY <1>1, <2>2 DEF FindForUpdate, HistoryUnchanged
    <2>3. ASSUME NEW a \in AddressId, FindForRemoval(c, a)
          PROVE  Moved(c)
      BY <1>1, <2>3 DEF FindForRemoval, HistoryUnchanged
    <2>4. ASSUME NEW a \in AddressId, ReadAddress(c, a)
          PROVE  Moved(c)
      BY <1>1, <2>4 DEF ReadAddress, HistoryUnchanged
    <2> HIDE DEF Moved
    <2> QED
      BY <1>5, <2>1, <2>2, <2>3, <2>4
  <1>6. ASSUME NEW c \in Session,
               \/ MatchDefaults(c) \/ RetireAddress(c) \/ Preflight(c)
               \/ UpsertCheckout(c) \/ StripeAnswers(c)
        PROVE  Moved(c)
    <2>1. Phase(c) # "idle" /\ overlapped' = overlapped
      BY <1>6 DEF MatchDefaults, RetireAddress, Preflight, UpsertCheckout,
                  StripeAnswers, HistoryUnchanged
    <2>2. request[c] \in Edit \cup Removal \cup Intent
      BY <1>6, RequestKind DEF MatchDefaults, RetireAddress, Preflight,
                               UpsertCheckout, StripeAnswers
    <2>3. \E r : Goto(c, r) /\ (r = Idle \/ r.user = request[c].user)
      <3>1. CASE MatchDefaults(c)
        <4>1. request[c] \in Edit
          BY <3>1, RequestKind DEF MatchDefaults
        <4> DEFINE r == [request[c] EXCEPT !.phase = "write",
                           !.others = Defaults(request[c].user) \ {request[c].address}]
        <4>2. r.user = request[c].user
          BY <4>1 DEF Edit
        <4>3. Goto(c, r)
          BY <3>1 DEF MatchDefaults
        <4> QED
          BY <4>2, <4>3
      <3>2. CASE RetireAddress(c)
        <4>1. request[c] \in Removal
          BY <3>2, RequestKind DEF RetireAddress
        <4>2. \A heir : [request[c] EXCEPT !.phase = "promote", !.heir = heir].user
                          = request[c].user
          BY <4>1 DEF Removal
        <4>3. \/ Goto(c, Idle)
              \/ \E heir \in Newest(c) :
                   Goto(c, [request[c] EXCEPT !.phase = "promote", !.heir = heir])
          BY <3>2 DEF RetireAddress
        <4> QED
          BY <4>2, <4>3
      <3>3. CASE Preflight(c) \/ UpsertCheckout(c) \/ StripeAnswers(c)
        <4>1. request[c] \in Intent
          BY <3>3, RequestKind DEF Preflight, UpsertCheckout, StripeAnswers
        <4> QED
          BY <3>3, <4>1 DEF Preflight, UpsertCheckout, StripeAnswers, Intent
      <3> QED
        BY <1>6, <3>1, <3>2, <3>3
    <2> QED
      BY <1>1, <2>1, <2>3
  <1>7. ASSUME UNCHANGED vars PROVE UNCHANGED <<request, overlapped>>
    BY <1>7 DEF vars
  <1>8. ASSUME NEW u \in User,
               ActivateUser(u) \/ DeactivateUser(u) \/ DeleteUser(u)
        PROVE  UNCHANGED <<request, overlapped>>
    BY <1>8 DEF ActivateUser, DeactivateUser, DeleteUser, HistoryUnchanged
  <1>9. UNCHANGED <<request, overlapped>> \/ \E c \in Session : Moved(c)
    <2> HIDE DEF Moved
    <2>1. ASSUME NEW c \in Session,
                 \/ \E a \in AddressId, isDefault \in {"keep", "yes", "no"} :
                      FindForUpdate(c, a, isDefault)
                 \/ \E wanted \in BOOLEAN : CountAddresses(c, wanted)
                 \/ \E a \in AddressId :
                      FindForRemoval(c, a) \/ ReadAddress(c, a) \/ InsertAddress(c, a)
                 \/ \E content \in BOOLEAN : UpdateAddress(c, content)
                 \/ MatchDefaults(c) \/ RetireAddress(c) \/ PromoteHeir(c)
                 \/ Preflight(c) \/ UpsertCheckout(c) \/ StripeAnswers(c)
                 \/ BindIntent(c)
          PROVE  Moved(c)
      BY <1>3, <1>5, <1>6, <2>1
    <2>2. ASSUME NEW c \in Session,
                 \/ \E u \in User, op \in Operation : Admit(c, u, op)
                 \/ Abandon(c) \/ FindBySub(c) \/ ReadRole(c)
                 \/ \E verified \in BOOLEAN : CreateUser(c, verified)
                 \/ \E verified \in BOOLEAN : VerifyEmail(c, verified)
                 \/ SetConsumer(c) \/ UpdateProfile(c)
                 \/ \E nif \in Nif : SetProducer(c, nif)
          PROVE  Moved(c)
      BY <1>2, <1>3, <1>4, <2>2
    <2> QED
      BY <1>7, <1>8, <2>1, <2>2 DEF Next
  <1> QED
    BY <1>9

\* What a session does by itself.
SessionStep(c) ==
    \/ \E u \in User, op \in Operation : Admit(c, u, op)
    \/ Abandon(c) \/ FindBySub(c) \/ ReadRole(c) \/ SetConsumer(c) \/ UpdateProfile(c)
    \/ \E verified \in BOOLEAN : CreateUser(c, verified)
    \/ \E verified \in BOOLEAN : VerifyEmail(c, verified)
    \/ \E nif \in Nif : SetProducer(c, nif)
    \/ \E wanted \in BOOLEAN : CountAddresses(c, wanted)
    \/ \E a \in AddressId, isDefault \in {"keep", "yes", "no"} :
         FindForUpdate(c, a, isDefault)
    \/ \E a \in AddressId : InsertAddress(c, a) \/ FindForRemoval(c, a) \/ ReadAddress(c, a)
    \/ \E content \in BOOLEAN : UpdateAddress(c, content)
    \/ MatchDefaults(c) \/ RetireAddress(c) \/ PromoteHeir(c)
    \/ Preflight(c) \/ UpsertCheckout(c) \/ StripeAnswers(c) \/ BindIntent(c)

LEMMA OwnStep ==
    ASSUME TypeOK, [Next]_vars, NEW c \in Session
    PROVE  request'[c] = request[c] \/ SessionStep(c)
  <1>1. ASSUME NEW d \in Session \ {c}, SessionStep(d) PROVE request'[c] = request[c]
    <2>1. CASE \/ \E u \in User, op \in Operation : Admit(d, u, op)
               \/ Abandon(d) \/ FindBySub(d) \/ ReadRole(d) \/ SetConsumer(d)
               \/ UpdateProfile(d)
               \/ \E verified \in BOOLEAN : CreateUser(d, verified)
               \/ \E verified \in BOOLEAN : VerifyEmail(d, verified)
               \/ \E nif \in Nif : SetProducer(d, nif)
      BY <2>1 DEF Admit, Abandon, FindBySub, ReadRole, SetConsumer, UpdateProfile,
                  CreateUser, VerifyEmail, SetProducer, Goto, TypeOK
    <2>2. CASE \/ \E wanted \in BOOLEAN : CountAddresses(d, wanted)
               \/ \E a \in AddressId, isDefault \in {"keep", "yes", "no"} :
                    FindForUpdate(d, a, isDefault)
               \/ \E a \in AddressId : \/ InsertAddress(d, a) \/ FindForRemoval(d, a)
                                       \/ ReadAddress(d, a)
               \/ \E content \in BOOLEAN : UpdateAddress(d, content)
      BY <2>2 DEF CountAddresses, FindForUpdate, InsertAddress, FindForRemoval,
                  ReadAddress, UpdateAddress, Goto, TypeOK
    <2>3. CASE \/ MatchDefaults(d) \/ RetireAddress(d) \/ PromoteHeir(d)
               \/ Preflight(d) \/ UpsertCheckout(d) \/ StripeAnswers(d) \/ BindIntent(d)
      BY <2>3 DEF MatchDefaults, RetireAddress, PromoteHeir, Preflight,
                  UpsertCheckout, StripeAnswers, BindIntent, Goto, TypeOK
    <2> QED
      BY <1>1, <2>1, <2>2, <2>3 DEF SessionStep
  <1>2. ASSUME NEW u \in User, ActivateUser(u) \/ DeactivateUser(u) \/ DeleteUser(u)
        PROVE  request'[c] = request[c]
    BY <1>2 DEF ActivateUser, DeactivateUser, DeleteUser
  <1>3. CASE UNCHANGED vars
    BY <1>3 DEF vars
  <1>4. CASE \E d \in Session : SessionStep(d)
    BY <1>1, <1>4
  <1> QED
    <2>1. CASE \E d \in Session :
                \/ \E u \in User, op \in Operation : Admit(d, u, op)
                \/ Abandon(d) \/ FindBySub(d)
                \/ \E verified \in BOOLEAN : CreateUser(d, verified) \/ VerifyEmail(d, verified)
                \/ ReadRole(d) \/ SetConsumer(d)
                \/ \E nif \in Nif : SetProducer(d, nif)
                \/ UpdateProfile(d)
      BY <1>4, <2>1 DEF SessionStep
    <2>2. CASE \E d \in Session :
                \/ \E wanted \in BOOLEAN : CountAddresses(d, wanted)
                \/ \E a \in AddressId, isDefault \in {"keep", "yes", "no"} :
                     FindForUpdate(d, a, isDefault)
                \/ MatchDefaults(d)
                \/ \E a \in AddressId : InsertAddress(d, a)
                \/ \E content \in BOOLEAN : UpdateAddress(d, content)
                \/ \E a \in AddressId : FindForRemoval(d, a)
                \/ RetireAddress(d) \/ PromoteHeir(d)
      BY <1>4, <2>2 DEF SessionStep
    <2>3. CASE \E d \in Session :
                \/ \E a \in AddressId : ReadAddress(d, a)
                \/ Preflight(d) \/ UpsertCheckout(d) \/ StripeAnswers(d) \/ BindIntent(d)
      BY <1>4, <2>3 DEF SessionStep
    <2> QED
      BY <1>2, <1>3, <2>1, <2>2, <2>3 DEF Next

\* Two sessions at work for one user are on record.
OverlapsKnown ==
    \A c, d \in Session :
        c # d /\ Phase(c) # "idle" /\ Busy(d, request[c].user)
            => request[c].user \in overlapped

LEMMA StepOverlaps ==
    ASSUME TypeOK, OverlapsKnown, [Next]_vars
    PROVE  OverlapsKnown' /\ overlapped \subseteq overlapped'
  <1>1. CASE UNCHANGED <<request, overlapped>>
    BY <1>1 DEF OverlapsKnown, Phase, Busy
  <1>2. ASSUME NEW c \in Session,
               \A d \in Session \ {c} : request'[d] = request[d],
               \/ request'[c] = Idle /\ overlapped' = overlapped
               \/ /\ Phase(c) # "idle" /\ overlapped' = overlapped
                  /\ request'[c].user = request[c].user
        PROVE  OverlapsKnown' /\ overlapped \subseteq overlapped'
    BY <1>2 DEF OverlapsKnown, Phase, Busy, Idle
  <1>3. ASSUME NEW c \in Session, NEW u \in User, NEW op \in Operation,
               \A d \in Session \ {c} : request'[d] = request[d],
               Admit(c, u, op)
        PROVE  OverlapsKnown' /\ overlapped \subseteq overlapped'
    <2>1. request'[c].user = u
      BY <1>3 DEF Admit, Goto, TypeOK
    <2>2. overlapped' = IF InFlight(u) THEN overlapped \cup {u} ELSE overlapped
      BY <1>3 DEF Admit
    <2>3. \A d \in Session \ {c} : Busy(d, u) => u \in overlapped'
      BY <2>2 DEF InFlight
    <2> QED
      BY <1>3, <2>1, <2>2, <2>3 DEF OverlapsKnown, Phase, Busy
  <1> QED
    BY <1>1, <1>2, <1>3, RequestMoves

LEMMA LateGrows == [Next]_vars => late \subseteq late'
  BY DEF Next, vars, Admit, Abandon, FindBySub, CreateUser, VerifyEmail,
         ReadRole, SetConsumer, SetProducer, UpdateProfile, CountAddresses,
         FindForUpdate, MatchDefaults, InsertAddress, UpdateAddress,
         FindForRemoval, RetireAddress, PromoteHeir, ReadAddress, Preflight,
         UpsertCheckout, StripeAnswers, BindIntent, ActivateUser,
         DeactivateUser, DeleteUser, HistoryUnchanged

-----------------------------------------------------------------------------
(* The role and the producers row.                                         *)

\* Who writes a role: a first sync of nobody, or an onboarding that has read it.
RoleKept(u) == user'[u].role = user[u].role /\ producer'[u] = producer[u]
Synced(u) ==
    /\ user[u].role = "NONE" /\ user'[u].role = "PENDING_ROLE"
    /\ producer'[u] = producer[u]
Onboards(c, u) ==
    /\ request[c].user = u /\ request'[c] = Idle
    /\ \/ /\ Phase(c) = "setConsumer"
          /\ user'[u].role = "CONSUMER" /\ producer'[u] = producer[u]
       \/ /\ Phase(c) = "setProducer"
          /\ user'[u].role = "PRODUCER" /\ producer'[u] # NoNif

LEMMA RoleMoves ==
    ASSUME TypeOK, [Next]_vars, NEW u \in User
    PROVE  RoleKept(u) \/ Synced(u) \/ \E c \in Session : Onboards(c, u)
  <1>1. ASSUME NEW c \in Session, NEW verified \in BOOLEAN, CreateUser(c, verified)
        PROVE  RoleKept(u) \/ Synced(u)
    <2>1. CASE user' = user
      BY <1>1, <2>1 DEF CreateUser, RoleKept
    <2>2. CASE user' # user
      BY <1>1, <2>2 DEF CreateUser, RoleKept, Synced, NoRow, AccountState, TypeOK
    <2> QED
      BY <2>1, <2>2
  <1>2. ASSUME NEW c \in Session, NEW verified \in BOOLEAN, VerifyEmail(c, verified)
        PROVE  RoleKept(u)
    BY <1>2 DEF VerifyEmail, RoleKept, TypeOK, UserRow
  <1>3. ASSUME NEW c \in Session, SetConsumer(c)
        PROVE  RoleKept(u) \/ Onboards(c, u)
    <2> DEFINE v == request[c].user
               row == [user[v] EXCEPT !.role = "CONSUMER", !.names = TRUE]
    <2>1. v \in User /\ request'[c] = Idle
      BY <1>3, RequestKind, IdleIsRequest, GotoType DEF SetConsumer
    <2>2. user' = [user EXCEPT ![v] = row] /\ UNCHANGED producer
      BY <1>3, <2>1 DEF SetConsumer, TypeOK
    <2>3. row.role = "CONSUMER"
      BY <2>1 DEF TypeOK, UserRow
    <2> HIDE DEF row
    <2> QED
      BY <1>3, <2>1, <2>2, <2>3 DEF SetConsumer, RoleKept, Onboards, TypeOK
  <1>4. ASSUME NEW c \in Session, NEW nif \in Nif, SetProducer(c, nif)
        PROVE  RoleKept(u) \/ Onboards(c, u)
    <2> DEFINE v == request[c].user
               row == [user[v] EXCEPT !.role = "PRODUCER", !.names = TRUE]
    <2>1. v \in User /\ request'[c] = Idle
      BY <1>4, RequestKind, IdleIsRequest, GotoType DEF SetProducer
    <2>2. \/ UNCHANGED <<user, producer>>
          \/ /\ user' = [user EXCEPT ![v] = row]
             /\ producer' = [producer EXCEPT ![v] = nif]
      BY <1>4, <2>1 DEF SetProducer, AccountsUnchanged, TypeOK
    <2>3. row.role = "PRODUCER" /\ nif # NoNif
      BY <2>1, DataAssumption DEF TypeOK, UserRow
    <2> HIDE DEF row
    <2> QED
      BY <1>4, <2>1, <2>2, <2>3 DEF SetProducer, RoleKept, Onboards, TypeOK
  <1>5. ASSUME NEW c \in Session, UpdateProfile(c)
        PROVE  RoleKept(u)
    BY <1>5 DEF UpdateProfile, RoleKept, TypeOK, UserRow
  <1>6. ASSUME NEW v \in User, ActivateUser(v) \/ DeactivateUser(v) \/ DeleteUser(v)
        PROVE  RoleKept(u)
    BY <1>6 DEF ActivateUser, DeactivateUser, DeleteUser, RoleKept, TypeOK, UserRow
  <1>7. ASSUME UNCHANGED <<user, producer>> PROVE RoleKept(u)
    BY <1>7 DEF RoleKept
  <1> QED
    BY <1>1, <1>2, <1>3, <1>4, <1>5, <1>6, <1>7
       DEF Next, vars, Admit, Abandon, FindBySub, ReadRole, CountAddresses,
           FindForUpdate, MatchDefaults, InsertAddress, UpdateAddress,
           FindForRemoval, RetireAddress, PromoteHeir, ReadAddress, Preflight,
           UpsertCheckout, StripeAnswers, BindIntent, AccountsUnchanged

\* An onboarding past its read finds the role still to be chosen, unless the
\* user has sent another.
RoleRead(c) ==
    Phase(c) \in {"setConsumer", "setProducer"} =>
        \/ request[c].user \in overlapped
        \/ user[request[c].user].role = "PENDING_ROLE"

RegisterInv ==
    /\ TypeOK
    /\ OverlapsKnown
    /\ \A c \in Session : RoleRead(c)
    /\ ProducersAreRegistered

\* Only a read of the role leads to its write.
LEMMA EntersWrite ==
    ASSUME TypeOK, [Next]_vars, NEW c \in Session,
           request'[c].phase \in {"setConsumer", "setProducer"}
    PROVE  request'[c] = request[c] \/ ReadRole(c)
  <1> DEFINE Elsewhere == request'[c].phase \notin {"setConsumer", "setProducer"}
  <1>1. ASSUME NEW r, Goto(c, r), r.phase \notin {"setConsumer", "setProducer"}
        PROVE  Elsewhere
    BY <1>1 DEF Goto, TypeOK
  <1>2. CASE Goto(c, Idle)
    BY <1>1, <1>2 DEF Idle
  <1>3. ASSUME NEW u \in User, NEW op \in Operation, Admit(c, u, op)
        PROVE  Elsewhere
    BY <1>1, <1>3 DEF Admit, Operation, Onboarding, Shopping
  <1>4. CASE FindBySub(c)
    <2> DEFINE r == CASE AccountState(request[c].user) = "ABSENT" ->
                           [phase |-> "createUser", user |-> request[c].user]
                      [] AccountState(request[c].user) = "ACTIVE" ->
                           [phase |-> "verifyEmail", user |-> request[c].user]
                      [] OTHER -> Idle
    <2>1. Goto(c, r)
      BY <1>4 DEF FindBySub
    <2>2. r.phase \in {"createUser", "verifyEmail", "idle"}
      BY DEF Idle
    <2> QED
      BY <1>1, <2>1, <2>2
  <1>5. ASSUME NEW wanted \in BOOLEAN, CountAddresses(c, wanted)
        PROVE  Elsewhere
    BY <1>1, <1>5 DEF CountAddresses
  <1>6. ASSUME NEW a \in AddressId, NEW isDefault \in {"keep", "yes", "no"},
               FindForUpdate(c, a, isDefault)
        PROVE  Elsewhere
    BY <1>1, <1>6 DEF FindForUpdate
  <1>7. ASSUME NEW a \in AddressId, FindForRemoval(c, a) \/ ReadAddress(c, a)
        PROVE  Elsewhere
    BY <1>1, <1>7 DEF FindForRemoval, ReadAddress
  <1>8. CASE MatchDefaults(c)
    <2>1. request[c] \in Edit
      BY <1>8, RequestKind DEF MatchDefaults
    <2> QED
      BY <1>8, <2>1 DEF MatchDefaults, Goto, TypeOK, Edit
  <1>9. CASE RetireAddress(c)
    <2>1. request[c] \in Removal
      BY <1>9, RequestKind DEF RetireAddress
    <2>2. \A heir : [request[c] EXCEPT !.phase = "promote", !.heir = heir].phase
                      = "promote"
      BY <2>1 DEF Removal
    <2> QED
      BY <1>1, <1>2, <1>9, <2>2 DEF RetireAddress
  <1>10. CASE Preflight(c) \/ UpsertCheckout(c) \/ StripeAnswers(c)
    <2>1. request[c] \in Intent
      BY <1>10, RequestKind DEF Preflight, UpsertCheckout, StripeAnswers
    <2> QED
      BY <1>10, <2>1 DEF Preflight, UpsertCheckout, StripeAnswers, Intent,
                         Goto, TypeOK, Idle
  <1>11. CASE \/ Abandon(c)
              \/ \E verified \in BOOLEAN : CreateUser(c, verified)
              \/ \E verified \in BOOLEAN : VerifyEmail(c, verified)
              \/ SetConsumer(c)
              \/ \E nif \in Nif : SetProducer(c, nif)
              \/ UpdateProfile(c)
              \/ \E a \in AddressId : InsertAddress(c, a)
              \/ \E content \in BOOLEAN : UpdateAddress(c, content)
              \/ PromoteHeir(c)
              \/ BindIntent(c)
    BY <1>2, <1>11 DEF Abandon, CreateUser, VerifyEmail, SetConsumer, SetProducer,
         UpdateProfile, InsertAddress, UpdateAddress, PromoteHeir, BindIntent
  <1> QED
    BY <1>3, <1>4, <1>5, <1>6, <1>7, <1>8, <1>9, <1>10, <1>11, OwnStep
       DEF SessionStep

LEMMA StepRegister == RegisterInv /\ [Next]_vars => RegisterInv'
  <1> SUFFICES ASSUME RegisterInv, [Next]_vars PROVE RegisterInv'
    OBVIOUS
  <1>0. /\ TypeOK /\ OverlapsKnown /\ \A c \in Session : RoleRead(c)
        /\ ProducersAreRegistered
    BY DEF RegisterInv
  <1>1. TypeOK'
    BY <1>0, StepType
  <1>2. OverlapsKnown' /\ overlapped \subseteq overlapped' /\ late \subseteq late'
    BY <1>0, StepOverlaps, LateGrows
  <1>3. ASSUME NEW c \in Session PROVE RoleRead(c)'
    <2> SUFFICES ASSUME request'[c].phase \in {"setConsumer", "setProducer"}
                 PROVE  \/ request'[c].user \in overlapped'
                        \/ user'[request'[c].user].role = "PENDING_ROLE"
      BY DEF RoleRead, Phase
    <2>1. CASE ReadRole(c)
      <3> DEFINE u == request[c].user
      <3>1. u \in User
        BY <1>0, <2>1, RequestKind DEF ReadRole, Onboarding
      <3>2. CASE user[u].role = "PENDING_ROLE"
        <4>1. request'[c].user = u /\ user' = user
          BY <1>0, <2>1, <3>2 DEF ReadRole, Goto, TypeOK, AccountsUnchanged, Idle
        <4> QED
          BY <3>2, <4>1
      <3>3. CASE user[u].role # "PENDING_ROLE"
        BY <1>0, <2>1, <3>3 DEF ReadRole, Goto, TypeOK, Idle
      <3> QED
        BY <3>2, <3>3
    <2>2. CASE request'[c] = request[c]
      <3> DEFINE u == request[c].user
      <3>1. /\ Phase(c) \in {"setConsumer", "setProducer"}
            /\ u \in User
            /\ u \in overlapped \/ user[u].role = "PENDING_ROLE"
        BY <1>0, <2>2, RequestKind DEF RoleRead, Phase
      <3>2. ASSUME NEW d \in Session, Onboards(d, u) PROVE u \in overlapped
        <4>1. d # c
          BY <2>2, <3>1, <3>2 DEF Onboards, Idle
        <4>2. Busy(d, u)
          BY <3>2 DEF Onboards, Busy
        <4> QED
          BY <1>0, <3>1, <4>1, <4>2 DEF OverlapsKnown
      <3>3. u \in overlapped \/ RoleKept(u) \/ Synced(u)
        BY <1>0, <3>1, <3>2, RoleMoves
      <3> QED
        BY <1>2, <2>2, <3>1, <3>3 DEF RoleKept, Synced
    <2> QED
      BY <1>0, <2>1, <2>2, EntersWrite
  <1>4. ASSUME NEW u \in User
        PROVE  /\ user'[u].role = "PRODUCER" => producer'[u] # NoNif
               /\ producer'[u] # NoNif /\ u \notin overlapped' \cup late' =>
                    user'[u].role = "PRODUCER"
    <2>1. /\ user[u].role = "PRODUCER" => producer[u] # NoNif
          /\ producer[u] # NoNif /\ u \notin overlapped \cup late =>
               user[u].role = "PRODUCER"
      BY <1>0 DEF ProducersAreRegistered
    <2>2. CASE RoleKept(u) \/ Synced(u)
      BY <1>2, <2>1, <2>2 DEF RoleKept, Synced
    <2>3. ASSUME NEW c \in Session, Onboards(c, u)
          PROVE  /\ user'[u].role = "PRODUCER" => producer'[u] # NoNif
                 /\ producer'[u] # NoNif /\ u \notin overlapped' \cup late' =>
                      user'[u].role = "PRODUCER"
      <3>1. u \in overlapped \/ user[u].role = "PENDING_ROLE"
        BY <1>0, <2>3 DEF RoleRead, Onboards
      <3> QED
        BY <1>2, <2>1, <2>3, <3>1 DEF Onboards
    <2> QED
      BY <1>0, <2>2, <2>3, RoleMoves
  <1> QED
    BY <1>1, <1>2, <1>3, <1>4 DEF RegisterInv, ProducersAreRegistered

\* A PRODUCER has a producers row and, but for overlapping onboardings, nobody
\* else has (onboarding.service.ts).
THEOREM RegistrationHolds == Spec => []ProducersAreRegistered
  <1>1. Init => RegisterInv
    BY InitType DEF Init, RegisterInv, OverlapsKnown, RoleRead, Phase, Busy, Idle,
                    ProducersAreRegistered, NoRow
  <1>2. RegisterInv => ProducersAreRegistered
    BY DEF RegisterInv
  <1> QED
    BY <1>1, <1>2, StepRegister, PTL DEF Spec

-----------------------------------------------------------------------------
(* The tombstone.  Once nothing of the user was in flight at the deletion, *)
(* loadUser lets in no more than a sync, which ends at its first read.     *)

Settled(u) ==
    /\ Onboarded(u)
    /\ ~ user[u].names /\ ~ user[u].email /\ ~ user[u].verified
    /\ \A a \in AddressId : address[a].owner = u =>
          ~ address[a].personal /\ ~ address[a].active
    /\ \A c \in Session : Busy(c, u) => Phase(c) = "sync"

RedactInv == CheckoutInv /\ \A u \in User \ late : Gone(u) => Settled(u)

\* An address gains content, or a place in the book, by the edit of its owner.
LEMMA ContentMoves ==
    ASSUME TypeOK, RequestsOwned, [Next]_vars, NEW a \in AddressId
    PROVE  \/ /\ address'[a].owner = address[a].owner
              /\ address'[a].personal => address[a].personal
              /\ address'[a].active => address[a].active
           \/ \E c \in Session :
                 Phase(c) = "write" /\ request[c].user = address'[a].owner
  <1> DEFINE Fewer(row) == /\ row.owner = address[a].owner
                           /\ row.personal => address[a].personal
                           /\ row.active => address[a].active
             Written == \E c \in Session :
                 Phase(c) = "write" /\ request[c].user = address'[a].owner
  <1>0. address[a] \in AddressRow
    BY DEF TypeOK
  <1>1. ASSUME NEW c \in Session, NEW b \in AddressId, InsertAddress(c, b)
        PROVE  Fewer(address'[a]) \/ Written
    <2>1. DOMAIN Demoted(c) = AddressId /\ Fewer(Demoted(c)[a])
      BY <1>0 DEF Demoted, AddressRow
    <2>2. CASE address' = address
      BY <2>2
    <2>3. CASE address' # address /\ a # b
      BY <1>1, <2>1, <2>3 DEF InsertAddress, Commit
    <2>4. CASE address' # address /\ a = b
      <3>1. address'[a].owner = request[c].user
        BY <1>1, <2>1, <2>4 DEF InsertAddress, Commit
      <3> QED
        BY <1>1, <3>1 DEF InsertAddress
    <2> QED
      BY <2>2, <2>3, <2>4
  <1>2. ASSUME NEW c \in Session, NEW content \in BOOLEAN, UpdateAddress(c, content)
        PROVE  Fewer(address'[a]) \/ Written
    <2>1. DOMAIN Demoted(c) = AddressId /\ Fewer(Demoted(c)[a])
      BY <1>0 DEF Demoted, AddressRow
    <2>2. CASE address' = address
      BY <2>2
    <2>3. CASE address' # address /\ a # request[c].address
      BY <1>2, <2>1, <2>3 DEF UpdateAddress, Commit
    <2>4. CASE address' # address /\ a = request[c].address
      <3>1. address[a].owner = request[c].user
        BY <1>2, <2>4 DEF UpdateAddress, RequestsOwned, EditOwned
      <3>2. Patched(address[a], request[c].isDefault, content).owner = address[a].owner
        BY <1>0 DEF Patched, AddressRow
      <3>3. address'[a].owner = address[a].owner
        BY <1>2, <2>1, <2>4, <3>2 DEF UpdateAddress, Commit
      <3> QED
        BY <1>2, <3>1, <3>3 DEF UpdateAddress
    <2> QED
      BY <2>2, <2>3, <2>4
  <1>3. ASSUME NEW c \in Session, PromoteHeir(c)
        PROVE  Fewer(address'[a])
    <2> DEFINE r == request[c]
               gone == [address EXCEPT ![r.address] = Retired(@)]
    <2>1. address' = address \/ address' = [gone EXCEPT ![r.heir].isDefault = TRUE]
      BY <1>3 DEF PromoteHeir, Commit
    <2>2. gone \in [AddressId -> AddressRow] /\ Fewer(gone[a])
      BY <1>0 DEF Retired, TypeOK, AddressRow
    <2> HIDE DEF gone
    <2> QED
      BY <2>1, <2>2 DEF AddressRow
  <1>4. ASSUME NEW c \in Session, RetireAddress(c)
        PROVE  Fewer(address'[a])
    <2>1. \/ address' = address
          \/ address' = [address EXCEPT ![request[c].address] = Retired(@)]
      BY <1>4 DEF RetireAddress, BookUnchanged
    <2>2. Fewer(Retired(address[a]))
      BY <1>0 DEF Retired, AddressRow
    <2> QED
      BY <2>1, <2>2 DEF TypeOK
  <1>5. ASSUME NEW u \in User, DeleteUser(u)
        PROVE  Fewer(address'[a])
    BY <1>0, <1>5 DEF DeleteUser, Redacted, AddressRow
  <1>6. ASSUME UNCHANGED address
        PROVE  Fewer(address'[a])
    BY <1>6
  <1>7. Fewer(address'[a]) \/ Written
    <2> HIDE DEF Fewer, Written
    <2> QED
      BY <1>1, <1>2, <1>3, <1>4, <1>5, <1>6
         DEF Next, vars, Admit, Abandon, FindBySub, CreateUser, VerifyEmail,
             ReadRole, SetConsumer, SetProducer, UpdateProfile, CountAddresses,
             FindForUpdate, MatchDefaults, FindForRemoval, ReadAddress,
             Preflight, UpsertCheckout, StripeAnswers, BindIntent, ActivateUser,
             DeactivateUser, BookUnchanged
  <1> QED
    BY <1>7

\* Nobody but the administrator ends an account.
LEMMA DeletionEnds ==
    ASSUME TypeOK, AbsentIsBlank, [Next]_vars, NEW u \in User, Gone(u)', ~ Gone(u)
    PROVE  DeleteUser(u)
  <1>1. ASSUME user'[u] = user[u] PROVE FALSE
    BY <1>1 DEF Gone, AccountState
  <1>2. ASSUME NEW v \in User, ActivateUser(v) PROVE FALSE
    <2>1. user'[u].deletedAt = user[u].deletedAt /\ user'[u].role = user[u].role
      BY <1>2 DEF ActivateUser, TypeOK, UserRow
    <2> QED
      BY <2>1 DEF Gone, AccountState
  <1>3. ASSUME NEW v \in User, DeactivateUser(v) PROVE FALSE
    <2>1. user'[u].deletedAt = user[u].deletedAt /\ user'[u].role = user[u].role
      BY <1>3 DEF DeactivateUser, TypeOK, UserRow
    <2> QED
      BY <2>1 DEF Gone, AccountState
  <1>4. ASSUME NEW v \in User, DeleteUser(v) PROVE v = u
    BY <1>1, <1>4 DEF DeleteUser, TypeOK
  <1>5. ASSUME NEW c \in Session,
               \/ \E verified \in BOOLEAN : CreateUser(c, verified)
               \/ \E verified \in BOOLEAN : VerifyEmail(c, verified)
               \/ SetConsumer(c)
               \/ \E nif \in Nif : SetProducer(c, nif)
               \/ UpdateProfile(c)
        PROVE  FALSE
    BY <1>5, SessionKeepsAccounts
  <1> QED
    BY <1>1, <1>2, <1>3, <1>4, <1>5
       DEF Next, vars, Admit, Abandon, FindBySub, ReadRole, CountAddresses,
           FindForUpdate, MatchDefaults, InsertAddress, UpdateAddress,
           FindForRemoval, RetireAddress, PromoteHeir, ReadAddress, Preflight,
           UpsertCheckout, StripeAnswers, BindIntent, AccountsUnchanged

\* The row of a tombstone is not written.
LEMMA TombstoneKept ==
    ASSUME TypeOK, [Next]_vars, NEW u \in User, Gone(u),
           \A c \in Session : Busy(c, u) => Phase(c) = "sync"
    PROVE  user'[u] = user[u]
  <1>1. ASSUME NEW c \in Session,
               \/ \E verified \in BOOLEAN : CreateUser(c, verified)
               \/ \E verified \in BOOLEAN : VerifyEmail(c, verified)
               \/ SetConsumer(c)
               \/ \E nif \in Nif : SetProducer(c, nif)
               \/ UpdateProfile(c)
        PROVE  user'[u] = user[u]
    <2>1. request[c].user # u
      BY <1>1 DEF CreateUser, VerifyEmail, SetConsumer, SetProducer,
                  UpdateProfile, Busy
    <2> QED
      BY <1>1, <2>1 DEF CreateUser, VerifyEmail, SetConsumer, SetProducer,
                        UpdateProfile, AccountsUnchanged, TypeOK
  <1>2. ASSUME NEW v \in User, ActivateUser(v) \/ DeactivateUser(v) \/ DeleteUser(v)
        PROVE  user'[u] = user[u]
    <2>1. v # u
      BY <1>2 DEF ActivateUser, DeactivateUser, DeleteUser, Gone
    <2> QED
      BY <1>2, <2>1 DEF ActivateUser, DeactivateUser, DeleteUser, TypeOK
  <1>3. ASSUME user' = user PROVE user'[u] = user[u]
    BY <1>3
  <1> QED
    BY <1>1, <1>2, <1>3
       DEF Next, vars, Admit, Abandon, FindBySub, ReadRole, CountAddresses,
           FindForUpdate, MatchDefaults, InsertAddress, UpdateAddress,
           FindForRemoval, RetireAddress, PromoteHeir, ReadAddress, Preflight,
           UpsertCheckout, StripeAnswers, BindIntent, AccountsUnchanged

\* Nor is it served: a sync of it ends, and nothing else is admitted.
LEMMA TombstoneUnserved ==
    ASSUME TypeOK, [Next]_vars, NEW u \in User, Gone(u),
           \A c \in Session : Busy(c, u) => Phase(c) = "sync",
           NEW c \in Session, request'[c].phase # "idle", request'[c].user = u
    PROVE  request'[c].phase = "sync"
  <1>1. CASE request'[c] = request[c]
    BY <1>1 DEF Busy, Phase
  <1>2. ASSUME NEW v \in User, NEW op \in Operation, Admit(c, v, op)
        PROVE  request'[c].phase = "sync"
    <2>1. request'[c] = [phase |-> op, user |-> v]
      BY <1>2 DEF Admit, Goto, TypeOK
    <2> QED
      BY <1>2, <2>1 DEF Admit, MayEnter, Active, Gone
  <1>3. ASSUME Phase(c) # "idle", request'[c].user = request[c].user,
               request'[c] # request[c]
        PROVE  FALSE
    <2>1. Phase(c) = "sync" /\ request[c].user = u
      BY <1>3 DEF Busy
    <2>2. FindBySub(c) \/ Abandon(c)
      <3>1. /\ ~ \E v \in User, op \in Operation : Admit(c, v, op)
            /\ ~ ReadRole(c) /\ ~ SetConsumer(c) /\ ~ UpdateProfile(c)
            /\ ~ \E verified \in BOOLEAN : CreateUser(c, verified)
            /\ ~ \E verified \in BOOLEAN : VerifyEmail(c, verified)
            /\ ~ \E nif \in Nif : SetProducer(c, nif)
            /\ ~ \E wanted \in BOOLEAN : CountAddresses(c, wanted)
            /\ ~ \E a \in AddressId, isDefault \in {"keep", "yes", "no"} :
                   FindForUpdate(c, a, isDefault)
            /\ ~ MatchDefaults(c)
            /\ ~ \E a \in AddressId : InsertAddress(c, a)
            /\ ~ \E content \in BOOLEAN : UpdateAddress(c, content)
            /\ ~ \E a \in AddressId : FindForRemoval(c, a)
            /\ ~ RetireAddress(c) /\ ~ PromoteHeir(c)
            /\ ~ \E a \in AddressId : ReadAddress(c, a)
            /\ ~ Preflight(c) /\ ~ UpsertCheckout(c) /\ ~ StripeAnswers(c)
            /\ ~ BindIntent(c)
        BY <2>1 DEF Admit, ReadRole, SetConsumer, UpdateProfile, CreateUser,
             VerifyEmail, SetProducer, CountAddresses, FindForUpdate,
             MatchDefaults, InsertAddress, UpdateAddress, FindForRemoval,
             RetireAddress, PromoteHeir, ReadAddress, Preflight,
             UpsertCheckout, StripeAnswers, BindIntent, Onboarding
      <3> QED
        BY <1>3, <3>1, OwnStep DEF SessionStep
    <2>3. request'[c] = Idle
      BY <2>1, <2>2 DEF FindBySub, Abandon, Gone, Goto, TypeOK
    <2> QED
      BY <2>3 DEF Idle
  <1> QED
    BY <1>1, <1>2, <1>3, RequestMoves DEF Idle

LEMMA StepRedact == RedactInv /\ [Next]_vars => RedactInv'
  <1> SUFFICES ASSUME RedactInv, [Next]_vars PROVE RedactInv'
    OBVIOUS
  <1>0. TypeOK /\ AbsentIsBlank /\ RequestsOwned /\ CheckoutInv
    BY DEF RedactInv, CheckoutInv
  <1>1. CheckoutInv'
    BY <1>0, StepCheckout
  <1>2. ASSUME NEW u \in User, u \notin late', Gone(u)'
        PROVE  /\ user'[u].role \in {"CONSUMER", "PRODUCER"}
               /\ ~ user'[u].names /\ ~ user'[u].email /\ ~ user'[u].verified
               /\ \A a \in AddressId : address'[a].owner = u =>
                     ~ address'[a].personal /\ ~ address'[a].active
               /\ \A c \in Session :
                     request'[c].phase # "idle" /\ request'[c].user = u
                        => request'[c].phase = "sync"
    <2>1. u \notin late
      BY <1>2, LateGrows
    <2>2. CASE Gone(u)
      <3>1. Settled(u)
        BY <2>1, <2>2 DEF RedactInv
      <3>2. user'[u] = user[u]
        BY <1>0, <2>2, <3>1, TombstoneKept DEF Settled
      <3>3. ASSUME NEW a \in AddressId, address'[a].owner = u
            PROVE  ~ address'[a].personal /\ ~ address'[a].active
        BY <1>0, <3>1, <3>3, ContentMoves DEF Settled, Busy
      <3>4. ASSUME NEW c \in Session, request'[c].phase # "idle", request'[c].user = u
            PROVE  request'[c].phase = "sync"
        BY <1>0, <2>2, <3>1, <3>4, TombstoneUnserved DEF Settled
      <3> QED
        BY <3>1, <3>2, <3>3, <3>4 DEF Settled, Onboarded
    <2>3. CASE ~ Gone(u)
      <3>1. DeleteUser(u)
        BY <1>0, <1>2, <2>3, DeletionEnds
      <3>2. ~ InFlight(u) /\ request' = request
        BY <1>2, <3>1 DEF DeleteUser
      <3>3. \A c \in Session : ~ (request'[c].phase # "idle" /\ request'[c].user = u)
        BY <3>2 DEF InFlight, Busy, Phase
      <3>4. /\ user'[u].role = user[u].role
            /\ ~ user'[u].names /\ ~ user'[u].email /\ ~ user'[u].verified
        BY <1>0, <3>1 DEF DeleteUser, TypeOK, UserRow
      <3>5. \A a \in AddressId : address'[a].owner = u =>
               ~ address'[a].personal /\ ~ address'[a].active
        BY <1>0, <3>1 DEF DeleteUser, OwnedBy, Redacted, TypeOK, AddressRow
      <3> QED
        BY <3>1, <3>3, <3>4, <3>5 DEF DeleteUser, Onboarded
    <2> QED
      BY <2>2, <2>3
  <1>3. ASSUME NEW u \in User, u \notin late', Gone(u)' PROVE Settled(u)'
    BY <1>2, <1>3 DEF Settled, Onboarded, Busy, Phase
  <1> QED
    BY <1>1, <1>3 DEF RedactInv

\* A deletion leaves nothing personal and nothing in the book, for any number
\* of users, sessions and addresses, unless it met a request of the user.
THEOREM TombstonesRedacted == Spec => []RedactionHolds
  <1>1. Init => RedactInv
    BY InitCheckout DEF Init, RedactInv, Gone, AccountState, NoRow
  <1>2. RedactInv => RedactionHolds
    <2> SUFFICES ASSUME RedactInv, NEW u \in User \ late, Gone(u)
                 PROVE  /\ u \in Listed("DELETED") \ (Listed("ACTIVE") \cup Listed("DEACTIVATED"))
                        /\ ~ user[u].names /\ ~ user[u].email /\ ~ user[u].verified
                        /\ \A a \in AddressId : address[a].owner = u =>
                             ~ address[a].personal /\ ~ address[a].active
      BY DEF RedactionHolds, Gone
    <2>1. Settled(u)
      BY DEF RedactInv
    <2>2. user[u].deletedAt
      BY DEF Gone, AccountState, RedactInv, CheckoutInv, TypeOK, UserRow
    <2> QED
      BY <2>1, <2>2 DEF Settled, Listed
  <1> QED
    BY <1>1, <1>2, StepRedact, PTL DEF Spec

-----------------------------------------------------------------------------
(* The default of a book whose requests come one after the other.  What an *)
(* edit or a removal has read still holds when it writes, because no other *)
(* session of the user has written since.                                  *)

Serial(u) == u \notin overlapped \cup late

\* The rows a request holds the ids of are its user's.
RowsOwned(c) ==
    /\ Phase(c) = "write" => \A b \in request[c].others :
                                address[b].owner = request[c].user
    /\ Phase(c) \in {"retire", "promote"} =>
          address[request[c].address].owner = request[c].user
    /\ Phase(c) = "promote" =>
          /\ request[c].heir \in AddressId
          /\ address[request[c].heir].owner = request[c].user

\* What a request of a serial user has read is still so.
DemoteReady(c) ==
    LET r == request[c] IN
    /\ r.isDefault = "yes"
    /\ r.address # NewAddress => r.address \in Book(r.user)

WriteReady(c) ==
    LET r == request[c] IN
    /\ r.address # NewAddress => r.address \in Book(r.user)
    /\ r.isDefault # "yes" => r.others = {}
    /\ r.isDefault # "yes" /\ r.address = NewAddress => Book(r.user) # {}
    /\ r.isDefault = "no" /\ r.address # NewAddress =>
          ~ address[r.address].isDefault

RemovalReady(c) ==
    LET r == request[c] IN
    /\ r.address \in Book(r.user)
    /\ r.wasDefault = address[r.address].isDefault
    /\ Phase(c) = "promote" => r.heir \in Book(r.user) \ {r.address}

Ready(c) ==
    Serial(request[c].user) =>
        /\ Phase(c) = "demote" => DemoteReady(c)
        /\ Phase(c) = "write" => WriteReady(c)
        /\ Phase(c) \in {"retire", "promote"} => RemovalReady(c)

SerialInv ==
    /\ CheckoutInv /\ OverlapsKnown
    /\ \A c \in Session : RowsOwned(c) /\ Ready(c)
    /\ SerialBookHasDefault

Writes(c) ==
    \/ \E a \in AddressId : InsertAddress(c, a)
    \/ \E content \in BOOLEAN : UpdateAddress(c, content)
    \/ RetireAddress(c)
    \/ PromoteHeir(c)

\* The rows of a user are written by the user's own sessions, and by the
\* deletion of the user.
LEMMA BookMoves ==
    ASSUME TypeOK, RequestsOwned, \A c \in Session : RowsOwned(c), [Next]_vars,
           NEW u \in User
    PROVE  \/ \A a \in AddressId :
                 address[a].owner = u \/ address'[a].owner = u
                    => address'[a] = address[a]
           \/ DeleteUser(u)
           \/ \E c \in Session : request[c].user = u /\ Writes(c)
  <1> DEFINE Kept == \A a \in AddressId :
                 address[a].owner = u \/ address'[a].owner = u
                    => address'[a] = address[a]
  <1>1. ASSUME NEW c \in Session, NEW b \in AddressId, InsertAddress(c, b),
               request[c].user # u
        PROVE  Kept
    <2> SUFFICES ASSUME NEW a \in AddressId,
                        address[a].owner = u \/ address'[a].owner = u
                 PROVE  address'[a] = address[a]
      OBVIOUS
    <2>1. DOMAIN Demoted(c) = AddressId
      BY DEF Demoted
    <2>2. address[a].owner # u => Demoted(c)[a].owner # u
      BY DEF Demoted, TypeOK, AddressRow
    <2>3. address[a].owner = u => Demoted(c)[a] = address[a]
      BY <1>1 DEF Demoted, RowsOwned, InsertAddress
    <2>4. address[b].owner # u
      BY <1>1, DataAssumption DEF InsertAddress, Unused
    <2> QED
      BY <1>1, <2>1, <2>2, <2>3, <2>4 DEF InsertAddress, Commit
  <1>2. ASSUME NEW c \in Session, NEW content \in BOOLEAN, UpdateAddress(c, content),
               request[c].user # u
        PROVE  Kept
    <2> SUFFICES ASSUME NEW a \in AddressId,
                        address[a].owner = u \/ address'[a].owner = u
                 PROVE  address'[a] = address[a]
      OBVIOUS
    <2>1. DOMAIN Demoted(c) = AddressId
      BY DEF Demoted
    <2>2. address[a].owner # u => Demoted(c)[a].owner # u
      BY DEF Demoted, TypeOK, AddressRow
    <2>3. address[a].owner = u => Demoted(c)[a] = address[a]
      BY <1>2 DEF Demoted, RowsOwned, UpdateAddress
    <2>4. request[c].address \in AddressId =>
            /\ address[request[c].address].owner # u
            /\ Patched(address[request[c].address], request[c].isDefault, content).owner # u
      BY <1>2 DEF UpdateAddress, RequestsOwned, EditOwned, Patched, TypeOK, AddressRow
    <2>5. request[c].address \in AddressId
      BY <1>2, RequestKind DEF UpdateAddress, Edit
    <2> QED
      BY <1>2, <2>1, <2>2, <2>3, <2>4, <2>5 DEF UpdateAddress, Commit
  <1>3. ASSUME NEW c \in Session, RetireAddress(c), request[c].user # u
        PROVE  Kept
    <2>1. request[c].address \in AddressId /\ address[request[c].address].owner # u
      BY <1>3, RequestKind DEF RetireAddress, RowsOwned, Removal
    <2>2. \/ address' = address
          \/ address' = [address EXCEPT ![request[c].address] = Retired(@)]
      BY <1>3 DEF RetireAddress, BookUnchanged
    <2>3. Retired(address[request[c].address]).owner # u
      BY <2>1 DEF Retired, TypeOK, AddressRow
    <2> QED
      BY <2>1, <2>2, <2>3 DEF TypeOK
  <1>4. ASSUME NEW c \in Session, PromoteHeir(c), request[c].user # u
        PROVE  Kept
    <2> DEFINE r == request[c]
               gone == [address EXCEPT ![r.address] = Retired(@)]
    <2>1. /\ r.address \in AddressId /\ address[r.address].owner # u
          /\ r.heir \in AddressId /\ address[r.heir].owner # u
      BY <1>4, RequestKind DEF PromoteHeir, RowsOwned, Removal
    <2>2. address' = address \/ address' = [gone EXCEPT ![r.heir].isDefault = TRUE]
      BY <1>4 DEF PromoteHeir, Commit
    <2>3. /\ gone \in [AddressId -> AddressRow]
          /\ gone[r.address].owner = address[r.address].owner
          /\ \A a \in AddressId \ {r.address} : gone[a] = address[a]
      BY <2>1 DEF Retired, TypeOK, AddressRow
    <2> HIDE DEF gone
    <2> QED
      BY <2>1, <2>2, <2>3 DEF AddressRow
  <1>5. ASSUME NEW v \in User, DeleteUser(v), v # u
        PROVE  Kept
    BY <1>5 DEF DeleteUser, OwnedBy, Redacted, TypeOK, AddressRow
  <1>6. ASSUME UNCHANGED address
        PROVE  Kept
    BY <1>6
  <1>7. Kept \/ DeleteUser(u) \/ \E c \in Session : request[c].user = u /\ Writes(c)
    <2> HIDE DEF Kept
    <2> QED
      BY <1>1, <1>2, <1>3, <1>4, <1>5, <1>6
         DEF Writes, Next, vars, Admit, Abandon, FindBySub, CreateUser, VerifyEmail,
             ReadRole, SetConsumer, SetProducer, UpdateProfile, CountAddresses,
             FindForUpdate, MatchDefaults, FindForRemoval, ReadAddress,
             Preflight, UpsertCheckout, StripeAnswers, BindIntent, ActivateUser,
             DeactivateUser, BookUnchanged
  <1> QED
    BY <1>7

\* The four writes leave the book of a serial user with a default, and end the
\* request or go on to the promotion.
LEMMA WriteKeepsDefault ==
    ASSUME SerialInv, NEW c \in Session, Writes(c), NEW u \in User,
           request[c].user = u, Serial(u), Book(u)' # {}
    PROVE  Defaults(u)' # {}
  <1> DEFINE r == request[c]
             x == request[c].address
  <1>0. /\ TypeOK
        /\ Book(u) # {} => Defaults(u) # {}
        /\ Phase(c) = "write" => WriteReady(c)
        /\ Phase(c) \in {"retire", "promote"} => RemovalReady(c)
    BY DEF SerialInv, CheckoutInv, SerialBookHasDefault, Serial, Ready
  <1>1. ASSUME NEW a \in AddressId, address'[a].owner = u, address'[a].active,
               address'[a].isDefault
        PROVE  Defaults(u)' # {}
    BY <1>1 DEF Defaults, Book
  <1>2. CASE address' = address
    BY <1>0, <1>2 DEF Defaults, Book
  <1>3. ASSUME NEW a \in AddressId, InsertAddress(c, a), address' # address
        PROVE  Defaults(u)' # {}
    <2>1. /\ address' = [Demoted(c) EXCEPT ![a] =
               [owner |-> u, active |-> TRUE, isDefault |-> r.isDefault = "yes",
                personal |-> TRUE]]
          /\ DOMAIN Demoted(c) = AddressId
      BY <1>3 DEF InsertAddress, Commit, Demoted
    <2>2. CASE r.isDefault = "yes"
      BY <1>1, <2>1, <2>2
    <2>3. CASE r.isDefault # "yes"
      <3>1. Book(u) # {} /\ r.others = {}
        BY <1>0, <1>3, <2>3 DEF InsertAddress, WriteReady
      <3>2. PICK b \in AddressId : b \in Defaults(u)
        BY <1>0, <3>1 DEF Defaults, Book
      <3>3. b # a
        BY <1>3, <3>2, DataAssumption DEF InsertAddress, Unused, Defaults, Book
      <3>4. address'[b] = address[b]
        BY <2>1, <3>1, <3>3 DEF Demoted
      <3> QED
        BY <1>1, <3>2, <3>4 DEF Defaults, Book
    <2> QED
      BY <2>2, <2>3
  <1>4. ASSUME NEW content \in BOOLEAN, UpdateAddress(c, content), address' # address
        PROVE  Defaults(u)' # {}
    <2> DEFINE row == Patched(address[x], r.isDefault, content)
    <2>1. /\ address' = [Demoted(c) EXCEPT ![x] = row]
          /\ DOMAIN Demoted(c) = AddressId
      BY <1>4 DEF UpdateAddress, Commit, Demoted
    <2>2. x \in Book(u) /\ WriteReady(c) /\ x # NewAddress
      BY <1>0, <1>4 DEF UpdateAddress, WriteReady
    <2>3. /\ x \in AddressId
          /\ address'[x].owner = u /\ address'[x].active
          /\ address'[x].isDefault = IF r.isDefault = "keep"
                                      THEN address[x].isDefault
                                      ELSE r.isDefault = "yes"
      <3>1. x \in AddressId /\ address[x] \in AddressRow
            /\ address[x].owner = u /\ address[x].active
        BY <1>0, <2>2 DEF Book, TypeOK
      <3>2. /\ row.owner = u /\ row.active
            /\ row.isDefault = IF r.isDefault = "keep" THEN address[x].isDefault
                                                       ELSE r.isDefault = "yes"
        BY <3>1 DEF Patched, AddressRow
      <3> HIDE DEF row
      <3> QED
        BY <2>1, <3>1, <3>2
    <2>4. CASE r.isDefault = "yes"
      BY <1>1, <2>3, <2>4
    <2>5. CASE r.isDefault # "yes"
      <3>1. Demoted(c) = address
        BY <1>0, <2>2, <2>5 DEF WriteReady, Demoted, TypeOK
      <3>2. PICK b \in AddressId : b \in Defaults(u)
        BY <1>0, <2>2 DEF Defaults, Book
      <3>3. CASE b # x
        <4>1. address'[b] = address[b]
          BY <2>1, <3>1, <3>3
        <4> QED
          BY <1>1, <3>2, <4>1 DEF Defaults, Book
      <3>4. CASE b = x
        <4>1. r.isDefault \in {"keep", "no"}
          BY <1>0, <1>4, <2>5, RequestKind DEF UpdateAddress, Edit
        <4>2. r.isDefault = "keep"
          BY <2>2, <3>2, <3>4, <4>1 DEF WriteReady, Defaults
        <4> QED
          BY <1>1, <2>3, <3>2, <3>4, <4>2 DEF Defaults
      <3> QED
        BY <3>3, <3>4
    <2> QED
      BY <2>4, <2>5
  <1>5. ASSUME RetireAddress(c), address' # address
        PROVE  Defaults(u)' # {}
    <2>1. /\ address' = [address EXCEPT ![x] = Retired(@)]
          /\ ~ r.wasDefault \/ Siblings(c) = {}
      BY <1>5 DEF RetireAddress, BookUnchanged
    <2>2. /\ x \in AddressId /\ x \in Book(u)
          /\ r.wasDefault = address[x].isDefault
      BY <1>0, <1>5 DEF RetireAddress, RemovalReady, Book
    <2>3. ~ address'[x].active /\ \A a \in AddressId \ {x} : address'[a] = address[a]
      BY <1>0, <2>1, <2>2 DEF Retired, TypeOK, AddressRow
    <2>4. PICK b \in AddressId : address'[b].owner = u /\ address'[b].active
      BY DEF Book
    <2>5. b \in Siblings(c)
      BY <2>3, <2>4 DEF Siblings, Book
    <2>6. PICK d \in AddressId : d \in Defaults(u)
      BY <1>0, <2>2 DEF Defaults, Book
    <2>7. d # x
      BY <2>1, <2>2, <2>5, <2>6 DEF Defaults
    <2> QED
      BY <1>1, <2>3, <2>6, <2>7 DEF Defaults, Book
  <1>6. ASSUME PromoteHeir(c), address' # address
        PROVE  Defaults(u)' # {}
    <2> DEFINE gone == [address EXCEPT ![x] = Retired(@)]
    <2>1. address' = [gone EXCEPT ![r.heir].isDefault = TRUE]
      BY <1>6 DEF PromoteHeir, Commit
    <2>2. r.heir \in Book(u) \ {x}
      BY <1>0, <1>6 DEF PromoteHeir, RemovalReady
    <2>3. r.heir \in AddressId /\ gone \in [AddressId -> AddressRow]
          /\ gone[r.heir] = address[r.heir]
      BY <1>0, <2>2 DEF Retired, TypeOK, AddressRow, Book
    <2>4. address[r.heir].owner = u /\ address[r.heir].active
      BY <2>2 DEF Book
    <2> HIDE DEF gone
    <2> QED
      BY <1>1, <2>1, <2>3, <2>4 DEF AddressRow
  <1> QED
    BY <1>2, <1>3, <1>4, <1>5, <1>6 DEF Writes

\* A request that stays where it is stays ready: the rows it is about are
\* written by another session of a user with two, or by the deletion of a user
\* with one.
LEMMA ReadyStays ==
    ASSUME SerialInv, OverlapsKnown, [Next]_vars, NEW d \in Session,
           request'[d] = request[d]
    PROVE  RowsOwned(d)' /\ Ready(d)'
  <1> DEFINE r == request[d]
             u == request[d].user
  <1>0. /\ TypeOK /\ RequestsOwned
        /\ \A c \in Session : RowsOwned(c) /\ Ready(c)
        /\ Phase(d)' = Phase(d)
    BY DEF SerialInv, CheckoutInv, Phase
  <1> SUFFICES ASSUME Phase(d) \in {"demote", "write", "retire", "promote"}
               PROVE  RowsOwned(d)' /\ Ready(d)'
    BY <1>0 DEF RowsOwned, Ready
  <1>1. r \in Edit \/ r \in Removal
    BY <1>0, RequestKind
  <1>2. u \in User /\ u # Nobody
    BY <1>1, DataAssumption DEF Edit, Removal
  <1>3. \A a \in AddressId : address[a].owner = u => address'[a].owner = u
    BY <1>0, <1>2, OwnerIsKept
  <1>4. /\ Phase(d) = "write" => r.others \subseteq AddressId
        /\ Phase(d) \in {"retire", "promote"} => r.address \in AddressId
    BY <1>0, RequestKind DEF Edit, Removal
  <1>5. RowsOwned(d)'
    BY <1>0, <1>3, <1>4 DEF RowsOwned
  <1>6. Ready(d)'
    <2> SUFFICES ASSUME Serial(u)' PROVE Ready(d)'
      BY DEF Ready, Serial
    <2>1. u \notin overlapped' \cup late'
      BY DEF Serial
    <2>2. Serial(u)
      BY <1>0, <2>1, StepOverlaps, LateGrows DEF Serial
    <2>3. ASSUME DeleteUser(u) PROVE FALSE
      BY <1>2, <2>1, <2>3 DEF DeleteUser, InFlight, Busy
    <2>4. ASSUME NEW c \in Session, request[c].user = u, Writes(c) PROVE FALSE
      <3>1. Phase(c) \in {"write", "retire", "promote"}
        BY <2>4 DEF Writes, InsertAddress, UpdateAddress, RetireAddress, PromoteHeir
      <3>2. CASE c # d
        BY <2>2, <2>4, <3>1, <3>2 DEF OverlapsKnown, Busy, Serial
      <3>3. CASE c = d
        <4>1. CASE RetireAddress(d)
          <5>1. r \in Removal /\ r.phase = "retire"
            BY <1>0, <4>1, RequestKind DEF RetireAddress, Phase
          <5>2. \A heir : [r EXCEPT !.phase = "promote", !.heir = heir].phase = "promote"
            BY <5>1 DEF Removal
          <5>3. \/ request'[d] = Idle
                \/ \E heir \in Newest(d) :
                     request'[d] = [r EXCEPT !.phase = "promote", !.heir = heir]
            BY <1>0, <4>1 DEF RetireAddress, Goto, TypeOK
          <5>4. CASE request'[d] = Idle
            BY <5>1, <5>4 DEF Idle
          <5>5. ASSUME NEW heir \in Newest(d),
                       request'[d] = [r EXCEPT !.phase = "promote", !.heir = heir]
                PROVE  FALSE
            <6>1. request'[d].phase = "promote"
              BY <5>2, <5>5
            <6> QED
              BY <5>1, <6>1
          <5> QED
            BY <5>3, <5>4, <5>5
        <4>2. CASE ~ RetireAddress(d)
          <5>1. Goto(d, Idle)
            BY <2>4, <3>3, <4>2 DEF Writes, InsertAddress, UpdateAddress, PromoteHeir
          <5> QED
            BY <1>0, <3>1, <3>3, <5>1 DEF Goto, Idle, Phase, TypeOK
        <4> QED
          BY <4>1, <4>2
      <3> QED
        BY <3>2, <3>3
    <2>5. \A a \in AddressId :
             address[a].owner = u \/ address'[a].owner = u => address'[a] = address[a]
      BY <1>0, <1>2, <2>3, <2>4, BookMoves
    <2>6. Book(u)' = Book(u)
      BY <2>5 DEF Book
    <2>7. /\ Phase(d) = "demote" => DemoteReady(d)
          /\ Phase(d) = "write" => WriteReady(d)
          /\ Phase(d) \in {"retire", "promote"} => RemovalReady(d)
      BY <1>0, <2>2 DEF Ready
    <2>8. Phase(d) = "demote" => DemoteReady(d)'
      BY <2>6, <2>7 DEF DemoteReady, Book
    <2>9. Phase(d) = "write" => WriteReady(d)'
      BY <2>5, <2>6, <2>7 DEF WriteReady, Book
    <2>10. Phase(d) \in {"retire", "promote"} => RemovalReady(d)'
      BY <1>0, <2>5, <2>6, <2>7 DEF RemovalReady, Book
    <2> QED
      BY <1>0, <2>8, <2>9, <2>10 DEF Ready
  <1> QED
    BY <1>5, <1>6

\* A request is ready for what it does next when it has just read.
LEMMA MoverReady ==
    ASSUME SerialInv, [Next]_vars, NEW c \in Session, SessionStep(c)
    PROVE  RowsOwned(c)' /\ Ready(c)'
  <1> DEFINE u == request[c].user
             Done == RowsOwned(c)' /\ Ready(c)'
  <1>0. /\ TypeOK /\ RequestsOwned /\ OverlapsKnown /\ RowsOwned(c) /\ Ready(c)
    BY DEF SerialInv, CheckoutInv
  <1>1. overlapped \subseteq overlapped' /\ late \subseteq late'
    BY <1>0, StepOverlaps, LateGrows
  <1>2. ASSUME NEW r, Goto(c, r), r.phase \notin {"demote", "write", "retire", "promote"}
        PROVE  Done
    <2>1. request'[c] = r
      BY <1>0, <1>2 DEF Goto, TypeOK
    <2> QED
      BY <1>2, <2>1 DEF RowsOwned, Ready, Phase
  <1>3. CASE Goto(c, Idle)
    BY <1>2, <1>3 DEF Idle
  <1>4. ASSUME NEW v \in User, NEW op \in Operation, Admit(c, v, op)
        PROVE  Done
    BY <1>2, <1>4 DEF Admit, Operation, Onboarding, Shopping
  <1>5. CASE FindBySub(c)
    <2> DEFINE r == CASE AccountState(u) = "ABSENT" ->
                           [phase |-> "createUser", user |-> u]
                      [] AccountState(u) = "ACTIVE" ->
                           [phase |-> "verifyEmail", user |-> u]
                      [] OTHER -> Idle
    <2>1. Goto(c, r)
      BY <1>5 DEF FindBySub
    <2>2. r.phase \in {"createUser", "verifyEmail", "idle"}
      BY DEF Idle
    <2> QED
      BY <1>2, <2>1, <2>2
  <1>6. CASE ReadRole(c)
    <2> DEFINE to == IF Phase(c) = "consumer" THEN "setConsumer" ELSE "setProducer"
               r == IF Active(u) /\ user[u].role = "PENDING_ROLE"
                    THEN [phase |-> to, user |-> u] ELSE Idle
    <2>1. Goto(c, r)
      BY <1>6 DEF ReadRole
    <2>2. r.phase \in {"setConsumer", "setProducer", "idle"}
      BY DEF Idle
    <2> QED
      BY <1>2, <2>1, <2>2
  <1>7. ASSUME NEW a \in AddressId, ReadAddress(c, a)
        PROVE  Done
    BY <1>2, <1>7 DEF ReadAddress
  <1>8. CASE Preflight(c) \/ UpsertCheckout(c) \/ StripeAnswers(c)
    <2>1. request[c] \in Intent
      BY <1>0, <1>8, RequestKind DEF Preflight, UpsertCheckout, StripeAnswers
    <2>2. request'[c].phase \in {"upsert", "charge", "bind", "idle"}
      BY <1>0, <1>8, <2>1 DEF Preflight, UpsertCheckout, StripeAnswers, Intent,
                              Goto, TypeOK, Idle
    <2> QED
      BY <2>2 DEF RowsOwned, Ready, Phase
  <1>9. CASE \/ Abandon(c)
             \/ \E verified \in BOOLEAN : CreateUser(c, verified)
             \/ \E verified \in BOOLEAN : VerifyEmail(c, verified)
             \/ SetConsumer(c)
             \/ \E nif \in Nif : SetProducer(c, nif)
             \/ UpdateProfile(c)
             \/ \E a \in AddressId : InsertAddress(c, a)
             \/ \E content \in BOOLEAN : UpdateAddress(c, content)
             \/ PromoteHeir(c)
             \/ BindIntent(c)
    BY <1>3, <1>9 DEF Abandon, CreateUser, VerifyEmail, SetConsumer, SetProducer,
         UpdateProfile, InsertAddress, UpdateAddress, PromoteHeir, BindIntent
  <1>10. ASSUME NEW wanted \in BOOLEAN, CountAddresses(c, wanted)
         PROVE  Done
    <2> PICK r : r = request'[c]
      OBVIOUS
    <2>1. /\ r.phase \in {"demote", "write"}
          /\ r.user = u /\ r.address = NewAddress /\ r.others = {}
          /\ r.phase = "demote" => r.isDefault = "yes"
          /\ r.isDefault # "yes" => Book(u) # {}
          /\ address' = address
      BY <1>0, <1>10 DEF CountAddresses, Goto, TypeOK, BookUnchanged
    <2>2. r.isDefault = "yes" \/ Book(r.user)' # {}
      BY <2>1 DEF Book
    <2> QED
      BY <2>1, <2>2 DEF RowsOwned, Ready, DemoteReady, WriteReady, Phase, Book
  <1>11. ASSUME NEW a \in AddressId, NEW isDefault \in {"keep", "yes", "no"},
                FindForUpdate(c, a, isDefault)
         PROVE  Done
    <2> PICK r : r = request'[c]
      OBVIOUS
    <2>1. /\ r.phase \in {"demote", "write"}
          /\ r.user = u /\ r.address = a /\ r.others = {}
          /\ r.phase = "demote" => r.isDefault = "yes"
          /\ r.isDefault = "no" => ~ address[a].isDefault
          /\ a \in Book(u)
          /\ address' = address
      BY <1>0, <1>11 DEF FindForUpdate, Refused, Goto, TypeOK, BookUnchanged
    <2>2. a \in Book(r.user)' /\ a # NewAddress
      BY <2>1, DataAssumption DEF Book
    <2> QED
      BY <2>1, <2>2 DEF RowsOwned, Ready, DemoteReady, WriteReady, Phase
  <1>12. CASE MatchDefaults(c)
    <2> PICK r : r = request'[c]
      OBVIOUS
    <2>1. request[c] \in Edit /\ Phase(c) = "demote"
      BY <1>0, <1>12, RequestKind DEF MatchDefaults
    <2>2. /\ r.phase = "write" /\ r.user = u
          /\ r.address = request[c].address /\ r.isDefault = request[c].isDefault
          /\ r.others \subseteq Defaults(u)
          /\ address' = address
      BY <1>0, <1>12, <2>1 DEF MatchDefaults, Goto, TypeOK, Edit, BookUnchanged
    <2>3. RowsOwned(c)'
      BY <2>2 DEF RowsOwned, Phase, Defaults, Book
    <2>4. ASSUME Serial(r.user)' PROVE WriteReady(c)'
      <3>1. DemoteReady(c)
        BY <1>0, <1>1, <2>1, <2>2, <2>4 DEF Serial, Ready
      <3> QED
        BY <2>2, <3>1 DEF DemoteReady, WriteReady, Book
    <2> QED
      BY <2>2, <2>3, <2>4 DEF Ready, Phase, Serial
  <1>13. ASSUME NEW a \in AddressId, FindForRemoval(c, a)
         PROVE  Done
    <2> PICK r : r = request'[c]
      OBVIOUS
    <2>1. /\ r.phase = "retire" /\ r.user = u /\ r.address = a
          /\ r.wasDefault = address[a].isDefault
          /\ a \in Book(u)
          /\ address' = address
      BY <1>0, <1>13 DEF FindForRemoval, Goto, TypeOK, BookUnchanged
    <2> QED
      BY <2>1 DEF RowsOwned, Ready, RemovalReady, Phase, Book
  <1>14. CASE RetireAddress(c)
    <2>1. request[c] \in Removal /\ Phase(c) = "retire"
      BY <1>0, <1>14, RequestKind DEF RetireAddress
    <2>2. CASE Goto(c, Idle)
      BY <1>3, <2>2
    <2>3. ASSUME NEW heir \in Newest(c), address' = address,
                 Goto(c, [request[c] EXCEPT !.phase = "promote", !.heir = heir])
          PROVE  Done
      <3> DEFINE next == [request[c] EXCEPT !.phase = "promote", !.heir = heir]
      <3>1. /\ next.phase = "promote" /\ next.user = u /\ next.heir = heir
            /\ next.address = request[c].address
            /\ next.wasDefault = request[c].wasDefault
        BY <2>1 DEF Removal
      <3>2. request'[c] = next
        BY <1>0, <2>3 DEF Goto, TypeOK
      <3> HIDE DEF next
      <3>3. heir \in Book(u) \ {request[c].address} /\ heir \in AddressId
        BY DEF Newest, Siblings, Book
      <3>4. address[request[c].address].owner = u
        BY <1>0, <2>1 DEF RowsOwned
      <3>5. RowsOwned(c)'
        BY <2>3, <3>1, <3>2, <3>3, <3>4 DEF RowsOwned, Phase, Book
      <3> PICK r : r = request'[c]
        OBVIOUS
      <3>6. ASSUME Serial(r.user)' PROVE RemovalReady(c)'
        <4>1. RemovalReady(c)
          BY <1>0, <1>1, <2>1, <3>1, <3>2, <3>6 DEF Serial, Ready
        <4> QED
          BY <2>3, <3>1, <3>2, <3>3, <4>1 DEF RemovalReady, Book
      <3> QED
        BY <3>1, <3>2, <3>5, <3>6 DEF Ready, Phase, Serial
    <2> QED
      BY <1>14, <2>2, <2>3 DEF RetireAddress, BookUnchanged
  <1> QED
    BY <1>4, <1>5, <1>6, <1>7, <1>8, <1>9, <1>10, <1>11, <1>12, <1>13, <1>14
       DEF SessionStep

LEMMA StepSerial == SerialInv /\ [Next]_vars => SerialInv'
  <1> SUFFICES ASSUME SerialInv, [Next]_vars PROVE SerialInv'
    OBVIOUS
  <1>0. /\ CheckoutInv /\ OverlapsKnown /\ TypeOK /\ RequestsOwned
        /\ \A c \in Session : RowsOwned(c)
    BY DEF SerialInv, CheckoutInv
  <1>1. CheckoutInv'
    BY <1>0, StepCheckout
  <1>2. /\ OverlapsKnown'
        /\ overlapped \subseteq overlapped' /\ late \subseteq late'
    BY <1>0, StepOverlaps, LateGrows
  <1>3. ASSUME NEW c \in Session PROVE RowsOwned(c)' /\ Ready(c)'
    BY <1>0, OwnStep, ReadyStays, MoverReady
  <1>4. ASSUME NEW u \in User, u \notin overlapped' \cup late', Book(u)' # {}
        PROVE  Defaults(u)' # {}
    <2>1. Serial(u)
      BY <1>2, <1>4 DEF Serial
    <2>2. CASE \A a \in AddressId :
                 address[a].owner = u \/ address'[a].owner = u
                    => address'[a] = address[a]
      <3>1. Book(u)' = Book(u) /\ Defaults(u)' = Defaults(u)
        BY <2>2 DEF Book, Defaults
      <3> QED
        BY <1>4, <2>1, <3>1 DEF SerialInv, SerialBookHasDefault, Serial
    <2>3. CASE DeleteUser(u)
      <3>1. \A a \in AddressId : ~ (address'[a].owner = u /\ address'[a].active)
        BY <1>0, <2>3 DEF DeleteUser, OwnedBy, Redacted, TypeOK, AddressRow
      <3> QED
        BY <1>4, <3>1 DEF Book
    <2>4. CASE \E c \in Session : request[c].user = u /\ Writes(c)
      BY <1>4, <2>1, <2>4, WriteKeepsDefault
    <2> QED
      BY <1>0, <2>2, <2>3, <2>4, BookMoves
  <1> QED
    BY <1>1, <1>2, <1>3, <1>4 DEF SerialInv, SerialBookHasDefault

\* The other half of P-4 for users whose requests follow one another, with any
\* number of addresses: a book that is not empty has a default.
THEOREM SerialBooksHaveDefault == Spec => []SerialBookHasDefault
  <1>1. Init => SerialInv
    BY InitCheckout DEF Init, SerialInv, OverlapsKnown, RowsOwned, Ready, Phase,
         Busy, Idle, SerialBookHasDefault, Book, Unused
  <1>2. SerialInv => SerialBookHasDefault
    BY DEF SerialInv
  <1> QED
    BY <1>1, <1>2, StepSerial, PTL DEF Spec
=============================================================================
