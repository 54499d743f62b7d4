------------------------------ MODULE Accounts ------------------------------
(***************************************************************************)
(* A user account from its first `syncFromClaims` (auth.service.ts)        *)
(* through onboarding, the address book and `createPaymentIntent` to       *)
(* `deleteUser` (admin-users.service.ts), which leaves a tombstone from    *)
(* which everything personal has been removed.                             *)
(*                                                                         *)
(* `loadUser` decides at the door whether the caller may go on; what       *)
(* follows are single statements and short READ COMMITTED transactions.    *)
(* A transaction is split at its reads: what a statement saw is kept in    *)
(* request[c] and may be stale when it is used.  Its writes are one step,  *)
(* except where a row lock is held over a further statement.               *)
(***************************************************************************)
EXTENDS Integers, FiniteSets

CONSTANTS
    Session,        \* server sessions, each handling one request at a time
    User,
    SellersOf,      \* [User -> SUBSET User], who sells what is in the cart
    AddressId,      \* in the order of created_at, which is the order of ids
    NewAddress,     \* in place of an id: the address about to be created
    Nobody,         \* the owner of an id not used yet
    Nif,            \* tax numbers of producers
    NoNif           \* there is no producers row

ASSUME DataAssumption ==
    /\ SellersOf \in [User -> SUBSET User]
    /\ AddressId \subseteq Nat
    /\ NewAddress \notin AddressId
    /\ Nobody \notin User
    /\ NoNif \notin Nif

VARIABLES
    user,           \* users rows
    producer,       \* producers.nif of the user
    address,        \* addresses rows
    checkout,       \* content of the pending_checkouts row for an address
    bound,          \* those whose provider_ref is set
    request,        \* what each session is doing
    overlapped,     \* history: users who had two requests in flight
    late            \* history: users deleted with a request in flight

vars == <<user, producer, address, checkout, bound, request, overlapped, late>>

-----------------------------------------------------------------------------
Role == {"NONE", "PENDING_ROLE", "CONSUMER", "PRODUCER"}

\* names: first or last name is set.  email: it is the user's own.
UserRow == [role: Role, deletedAt: BOOLEAN, deactivatedAt: BOOLEAN,
            names: BOOLEAN, email: BOOLEAN, verified: BOOLEAN]

NoRow == [role |-> "NONE", deletedAt |-> FALSE, deactivatedAt |-> FALSE,
          names |-> FALSE, email |-> FALSE, verified |-> FALSE]

\* active: deleted_at is null.  personal: line1 and the rest are not redacted.
AddressRow == [owner: User \cup {Nobody}, active: BOOLEAN,
               isDefault: BOOLEAN, personal: BOOLEAN]

Unused == [owner |-> Nobody, active |-> FALSE, isDefault |-> FALSE,
           personal |-> FALSE]

Onboarding == {"consumer", "producer"}
Shopping == {"profile", "create", "update", "delete", "intent"}
Operation == {"sync"} \cup Onboarding \cup Shopping

Idle == [phase |-> "idle"]

\* Admitted by loadUser, or between the read of the user and its update.
Admitted == [phase: Operation \cup {"createUser", "verifyEmail",
                                    "setConsumer", "setProducer"},
             user: User]

\* create and update; others: the defaults the demoting UPDATE has matched.
Edit == [phase: {"demote", "write"}, user: User,
         address: AddressId \cup {NewAddress},
         isDefault: {"keep", "yes", "no"}, others: SUBSET AddressId]

\* softDeleteWithPromotion; heir: the sibling to promote.
Removal == [phase: {"retire", "promote"}, user: User, address: AddressId,
            wasDefault: BOOLEAN, heir: AddressId \cup {NewAddress}]

Intent == [phase: {"preflight", "upsert", "charge", "bind"}, user: User,
           address: AddressId]

Request == {Idle} \cup Admitted \cup Edit \cup Removal \cup Intent

TypeOK ==
    /\ user \in [User -> UserRow]
    /\ producer \in [User -> Nif \cup {NoNif}]
    /\ address \in [AddressId -> AddressRow]
    /\ checkout \in [AddressId -> {"none", "personal", "redacted"}]
    /\ bound \subseteq AddressId
    /\ request \in [Session -> Request]
    /\ overlapped \subseteq User
    /\ late \subseteq User

Init ==
    /\ user = [u \in User |-> NoRow]
    /\ producer = [u \in User |-> NoNif]
    /\ address = [a \in AddressId |-> Unused]
    /\ checkout = [a \in AddressId |-> "none"]
    /\ bound = {}
    /\ request = [c \in Session |-> Idle]
    /\ overlapped = {}
    /\ late = {}

-----------------------------------------------------------------------------
AccountState(u) ==
    IF user[u].role = "NONE" THEN "ABSENT"
    ELSE IF user[u].deletedAt THEN "DELETED"
    ELSE IF user[u].deactivatedAt THEN "DEACTIVATED"
    ELSE "ACTIVE"

Active(u) == AccountState(u) = "ACTIVE"
Onboarded(u) == user[u].role \in {"CONSUMER", "PRODUCER"}

\* listUsers of the administrator, under a status filter.
Listed(status) == {u \in User :
    /\ Onboarded(u)
    /\ user[u].deletedAt <=> status = "DELETED"
    /\ status # "DELETED" => (user[u].deactivatedAt <=> status = "DEACTIVATED")}

Book(u) == {a \in AddressId : address[a].owner = u /\ address[a].active}
Defaults(u) == {a \in Book(u) : address[a].isDefault}

Phase(c) == request[c].phase
Busy(c, u) == Phase(c) # "idle" /\ request[c].user = u
InFlight(u) == \E c \in Session : Busy(c, u)

\* What a checkout locks, in the order of the ids.
Parties(u) == {u} \cup SellersOf[u]

\* Row locks an open transaction holds between two of its steps.  Mutation of
\* the first: the checkout reads the users without locking them.
NeverLocked(u) == TRUE

UserFree(u) ==
    \A c \in Session : Phase(c) = "upsert" => u \notin Parties(request[c].user)
PartiesFree(u) == \A v \in Parties(u) : UserFree(v)
AddressFree(a) ==
    \A c \in Session : Phase(c) = "promote" => request[c].address # a

\* The index one_default_address_per_user, and its mutation: no index.
NoIndex(book) == TRUE

OneDefaultPerUser(book) ==
    \A a, b \in AddressId :
        /\ book[a].active /\ book[a].isDefault
        /\ book[b].active /\ book[b].isDefault
        /\ book[a].owner = book[b].owner
        => a = b

Goto(c, next) == request' = [request EXCEPT ![c] = next]

AccountsUnchanged == UNCHANGED <<user, producer>>
BookUnchanged == UNCHANGED address
CheckoutUnchanged == UNCHANGED <<checkout, bound>>
HistoryUnchanged == UNCHANGED <<overlapped, late>>

-----------------------------------------------------------------------------
(* The door: loadUser, onboardingGate, requireRole.                        *)

MayEnter(u, op) ==
    \/ op = "sync" /\ AccountState(u) # "DEACTIVATED"
    \/ op \in Onboarding /\ Active(u)
    \/ op \in Shopping /\ Active(u) /\ Onboarded(u)

Admit(c, u, op) ==
    /\ Phase(c) = "idle"
    /\ MayEnter(u, op)
    /\ Goto(c, [phase |-> op, user |-> u])
    /\ overlapped' = IF InFlight(u) THEN overlapped \cup {u} ELSE overlapped
    /\ UNCHANGED late
    /\ AccountsUnchanged /\ BookUnchanged /\ CheckoutUnchanged

\* A rejected input, a failed Stripe call, a lost connection or an expired
\* transaction: whatever is open is rolled back.
Abandon(c) ==
    /\ Phase(c) # "idle"
    /\ Goto(c, Idle)
    /\ AccountsUnchanged /\ BookUnchanged /\ CheckoutUnchanged
    /\ HistoryUnchanged

-----------------------------------------------------------------------------
(* syncFromClaims                                                          *)

FindBySub(c) ==
    /\ Phase(c) = "sync"
    /\ LET u == request[c].user IN
       Goto(c, CASE AccountState(u) = "ABSENT" ->
                      [phase |-> "createUser", user |-> u]
                 [] AccountState(u) = "ACTIVE" ->
                      [phase |-> "verifyEmail", user |-> u]
                 [] OTHER -> Idle)
    /\ AccountsUnchanged /\ BookUnchanged /\ CheckoutUnchanged
    /\ HistoryUnchanged

\* auth0_sub is unique: of two first syncs the second insert fails.
CreateUser(c, verified) ==
    /\ Phase(c) = "createUser"
    /\ LET u == request[c].user IN
       user' = IF AccountState(u) = "ABSENT"
               THEN [user EXCEPT ![u] =
                       [NoRow EXCEPT !.role = "PENDING_ROLE", !.email = TRUE,
                                     !.verified = verified]]
               ELSE user
    /\ Goto(c, Idle)
    /\ UNCHANGED producer
    /\ BookUnchanged /\ CheckoutUnchanged /\ HistoryUnchanged

\* updateEmailVerified: by id, whatever the row has become.
VerifyEmail(c, verified) ==
    /\ Phase(c) = "verifyEmail"
    /\ LET u == request[c].user IN
       /\ UserFree(u)
       /\ user' = [user EXCEPT ![u].verified = verified]
    /\ Goto(c, Idle)
    /\ UNCHANGED producer
    /\ BookUnchanged /\ CheckoutUnchanged /\ HistoryUnchanged

-----------------------------------------------------------------------------
(* completeConsumer, completeProducer, updateMe                            *)

\* Mutation: the role is not read again.
ReadUserOnly(c) ==
    /\ Phase(c) \in Onboarding
    /\ LET u == request[c].user
           next == IF Phase(c) = "consumer" THEN "setConsumer"
                                            ELSE "setProducer"
       IN  Goto(c, IF Active(u) THEN [phase |-> next, user |-> u] ELSE Idle)
    /\ AccountsUnchanged /\ BookUnchanged /\ CheckoutUnchanged
    /\ HistoryUnchanged

ReadRole(c) ==
    /\ Phase(c) \in Onboarding
    /\ LET u == request[c].user
           next == IF Phase(c) = "consumer" THEN "setConsumer"
                                            ELSE "setProducer"
       IN  Goto(c, IF Active(u) /\ user[u].role = "PENDING_ROLE"
                   THEN [phase |-> next, user |-> u]
                   ELSE Idle)
    /\ AccountsUnchanged /\ BookUnchanged /\ CheckoutUnchanged
    /\ HistoryUnchanged

\* completeConsumerOnboarding: by id, whatever the row has become.
SetConsumer(c) ==
    /\ Phase(c) = "setConsumer"
    /\ LET u == request[c].user IN
       /\ UserFree(u)
       /\ user' = [user EXCEPT ![u].role = "CONSUMER", ![u].names = TRUE]
    /\ Goto(c, Idle)
    /\ UNCHANGED producer
    /\ BookUnchanged /\ CheckoutUnchanged /\ HistoryUnchanged

\* producers.user_id and producers.nif are unique.
MayRegister(u, nif) ==
    /\ producer[u] = NoNif
    /\ \A v \in User : producer[v] # nif

SetProducer(c, nif) ==
    /\ Phase(c) = "setProducer"
    /\ LET u == request[c].user IN
       /\ UserFree(u)
       /\ IF MayRegister(u, nif)
          THEN /\ producer' = [producer EXCEPT ![u] = nif]
               /\ user' = [user EXCEPT ![u].role = "PRODUCER",
                                       ![u].names = TRUE]
          ELSE AccountsUnchanged
    /\ Goto(c, Idle)
    /\ BookUnchanged /\ CheckoutUnchanged /\ HistoryUnchanged

\* The UPDATE matches active users only.
UpdateProfile(c) ==
    /\ Phase(c) = "profile"
    /\ LET u == request[c].user IN
       /\ UserFree(u)
       /\ user' = IF Active(u) THEN [user EXCEPT ![u].names = TRUE] ELSE user
    /\ Goto(c, Idle)
    /\ UNCHANGED producer
    /\ BookUnchanged /\ CheckoutUnchanged /\ HistoryUnchanged

-----------------------------------------------------------------------------
(* The address book: create, update, softDeleteWithPromotion               *)

\* create: the count, and what follows from it.
CountAddresses(c, wanted) ==
    /\ Phase(c) = "create"
    /\ LET u == request[c].user
           isDefault == wanted \/ Book(u) = {}
       IN  Goto(c, [phase |-> IF isDefault /\ Book(u) # {} THEN "demote"
                                                           ELSE "write",
                    user |-> u, address |-> NewAddress,
                    isDefault |-> IF isDefault THEN "yes" ELSE "no",
                    others |-> {}])
    /\ AccountsUnchanged /\ BookUnchanged /\ CheckoutUnchanged
    /\ HistoryUnchanged

\* update: the ownership check, and the refusal to demote the default.
\* Mutation: the default may be demoted.
NeverRefused(a, isDefault) == FALSE

Refused(a, isDefault) == isDefault = "no" /\ address[a].isDefault

FindForUpdate(c, a, isDefault) ==
    /\ Phase(c) = "update"
    /\ a \in Book(request[c].user)
    /\ ~ Refused(a, isDefault)
    /\ Goto(c, [phase |-> IF isDefault = "yes" /\ ~ address[a].isDefault
                          THEN "demote" ELSE "write",
                user |-> request[c].user, address |-> a,
                isDefault |-> isDefault, others |-> {}])
    /\ AccountsUnchanged /\ BookUnchanged /\ CheckoutUnchanged
    /\ HistoryUnchanged

\* The rows the demoting updateMany matches when it starts.  Mutation: the
\* target is matched too, instead of left out.
MatchTargetToo(c) ==
    /\ Phase(c) = "demote"
    /\ Goto(c, [request[c] EXCEPT !.phase = "write",
                    !.others = Defaults(request[c].user) \cup {request[c].address}])
    /\ AccountsUnchanged /\ BookUnchanged /\ CheckoutUnchanged
    /\ HistoryUnchanged

MatchDefaults(c) ==
    /\ Phase(c) = "demote"
    /\ Goto(c, [request[c] EXCEPT !.phase = "write",
                    !.others = Defaults(request[c].user) \ {request[c].address}])
    /\ AccountsUnchanged /\ BookUnchanged /\ CheckoutUnchanged
    /\ HistoryUnchanged

\* PostgreSQL evaluates the WHERE clause again on the rows it has locked.
Demoted(c) ==
    [a \in AddressId |->
       IF a \in request[c].others /\ address[a].active
       THEN [address[a] EXCEPT !.isDefault = FALSE]
       ELSE address[a]]

\* A violation of the index (P2002) rolls the transaction back.
Commit(book) == address' = IF OneDefaultPerUser(book) THEN book ELSE address

InsertAddress(c, a) ==
    /\ Phase(c) = "write" /\ request[c].address = NewAddress
    /\ address[a] = Unused
    /\ \A b \in AddressId : b < a => address[b] # Unused
    /\ \A b \in request[c].others : AddressFree(b)
    /\ UserFree(request[c].user)
    /\ Commit([Demoted(c) EXCEPT ![a] =
                 [owner |-> request[c].user, active |-> TRUE,
                  isDefault |-> request[c].isDefault = "yes",
                  personal |-> TRUE]])
    /\ Goto(c, Idle)
    /\ AccountsUnchanged /\ CheckoutUnchanged /\ HistoryUnchanged

\* By id, whatever the row has become.
Patched(row, isDefault, content) ==
    [row EXCEPT !.isDefault = IF isDefault = "keep" THEN @
                                                    ELSE isDefault = "yes",
                !.personal = @ \/ content]

UpdateAddress(c, content) ==
    /\ Phase(c) = "write" /\ request[c].address # NewAddress
    /\ \A b \in request[c].others \cup {request[c].address} : AddressFree(b)
    /\ LET r == request[c] IN
       Commit([Demoted(c) EXCEPT ![r.address] =
                 Patched(address[r.address], r.isDefault, content)])
    /\ Goto(c, Idle)
    /\ AccountsUnchanged /\ CheckoutUnchanged /\ HistoryUnchanged

FindForRemoval(c, a) ==
    /\ Phase(c) = "delete"
    /\ a \in Book(request[c].user)
    /\ Goto(c, [phase |-> "retire", user |-> request[c].user, address |-> a,
                wasDefault |-> address[a].isDefault, heir |-> NewAddress])
    /\ AccountsUnchanged /\ BookUnchanged /\ CheckoutUnchanged
    /\ HistoryUnchanged

Retired(row) == [row EXCEPT !.active = FALSE, !.isDefault = FALSE]

Siblings(c) == Book(request[c].user) \ {request[c].address}
Newest(c) == {a \in Siblings(c) : \A b \in Siblings(c) : b <= a}

\* The deleting UPDATE by id; with no sibling to promote the work is done.
RetireAddress(c) ==
    /\ Phase(c) = "retire"
    /\ LET r == request[c] IN
       /\ AddressFree(r.address)
       /\ IF r.wasDefault /\ Siblings(c) # {}
          THEN /\ \E heir \in Newest(c) :
                    Goto(c, [r EXCEPT !.phase = "promote", !.heir = heir])
               /\ BookUnchanged
          ELSE /\ Goto(c, Idle)
               /\ address' = [address EXCEPT ![r.address] = Retired(@)]
    /\ AccountsUnchanged /\ CheckoutUnchanged /\ HistoryUnchanged

\* The promoting UPDATE, by id, whatever the heir has become; and the commit.
PromoteHeir(c) ==
    /\ Phase(c) = "promote"
    /\ LET r == request[c] IN
       /\ AddressFree(r.heir)
       /\ Commit([address EXCEPT ![r.address] = Retired(@),
                                 ![r.heir].isDefault = TRUE])
    /\ Goto(c, Idle)
    /\ AccountsUnchanged /\ CheckoutUnchanged /\ HistoryUnchanged

-----------------------------------------------------------------------------
(* createPaymentIntent, for a cart that is shipped to an address           *)

\* Steps 1 to 6b; the fingerprint names the address.
ReadAddress(c, a) ==
    /\ Phase(c) = "intent"
    /\ a \in Book(request[c].user)
    /\ Goto(c, [phase |-> "preflight", user |-> request[c].user,
                address |-> a])
    /\ AccountsUnchanged /\ BookUnchanged /\ CheckoutUnchanged
    /\ HistoryUnchanged

\* lockAndAssertOwnersActive
Preflight(c) ==
    /\ Phase(c) = "preflight"
    /\ PartiesFree(request[c].user)
    /\ Goto(c, IF \A v \in Parties(request[c].user) : Active(v)
               THEN [request[c] EXCEPT !.phase = "upsert"]
               ELSE Idle)
    /\ AccountsUnchanged /\ BookUnchanged /\ CheckoutUnchanged
    /\ HistoryUnchanged

\* An existing row is left as it is.
UpsertCheckout(c) ==
    /\ Phase(c) = "upsert"
    /\ checkout' = [checkout EXCEPT ![request[c].address] =
                      IF @ = "none" THEN "personal" ELSE @]
    /\ Goto(c, [request[c] EXCEPT !.phase = "charge"])
    /\ UNCHANGED bound
    /\ AccountsUnchanged /\ BookUnchanged /\ HistoryUnchanged

StripeAnswers(c) ==
    /\ Phase(c) = "charge"
    /\ Goto(c, [request[c] EXCEPT !.phase = "bind"])
    /\ AccountsUnchanged /\ BookUnchanged /\ CheckoutUnchanged
    /\ HistoryUnchanged

\* Step 7b locks and asserts again.  Mutation: it only binds.
BindUnchecked(c) ==
    /\ Phase(c) = "bind"
    /\ bound' = bound \cup {request[c].address}
    /\ Goto(c, Idle)
    /\ UNCHANGED checkout
    /\ AccountsUnchanged /\ BookUnchanged /\ HistoryUnchanged

BindIntent(c) ==
    /\ Phase(c) = "bind"
    /\ PartiesFree(request[c].user)
    /\ bound' = IF \A v \in Parties(request[c].user) : Active(v)
                THEN bound \cup {request[c].address}
                ELSE bound
    /\ Goto(c, Idle)
    /\ UNCHANGED checkout
    /\ AccountsUnchanged /\ BookUnchanged /\ HistoryUnchanged

-----------------------------------------------------------------------------
(* The administrator: activateUser, deactivateUser, deleteUser.  Each holds *)
(* the lock of the users row from its first statement to its commit.       *)

ActivateUser(u) ==
    /\ Onboarded(u) /\ UserFree(u)
    /\ AccountState(u) = "DEACTIVATED"
    /\ user' = [user EXCEPT ![u].deactivatedAt = FALSE]
    /\ UNCHANGED <<producer, request>>
    /\ BookUnchanged /\ CheckoutUnchanged /\ HistoryUnchanged

DeactivateUser(u) ==
    /\ Onboarded(u) /\ UserFree(u)
    /\ AccountState(u) = "ACTIVE"
    /\ user' = [user EXCEPT ![u].deactivatedAt = TRUE]
    /\ UNCHANGED <<producer, request>>
    /\ BookUnchanged /\ CheckoutUnchanged /\ HistoryUnchanged

Redacted(row) == [row EXCEPT !.active = FALSE, !.isDefault = FALSE,
                             !.personal = FALSE]

\* The addresses the redaction reaches, and its mutation: those listed.
ListedBy(u) == Book(u)

OwnedBy(u) == {a \in AddressId : address[a].owner = u}

\* The guard on active orders is in PaymentWebhooks; here a user may have none
\* at any time.
DeleteUser(u) ==
    /\ Onboarded(u) /\ UserFree(u)
    /\ AccountState(u) # "DELETED"
    /\ \A a \in OwnedBy(u) : AddressFree(a)
    /\ user' = [user EXCEPT ![u].deletedAt = TRUE, ![u].names = FALSE,
                            ![u].email = FALSE, ![u].verified = FALSE]
    /\ address' = [a \in AddressId |->
                     IF a \in OwnedBy(u) THEN Redacted(address[a])
                                         ELSE address[a]]
    /\ checkout' = [a \in AddressId |->
                      IF address[a].owner = u /\ checkout[a] = "personal"
                      THEN "redacted" ELSE checkout[a]]
    /\ late' = IF InFlight(u) THEN late \cup {u} ELSE late
    /\ UNCHANGED <<producer, bound, request, overlapped>>

-----------------------------------------------------------------------------
Next ==
    \/ \E c \in Session :
         \/ \E u \in User, op \in Operation : Admit(c, u, op)
         \/ Abandon(c)
         \/ FindBySub(c)
         \/ \E verified \in BOOLEAN : CreateUser(c, verified)
         \/ \E verified \in BOOLEAN : VerifyEmail(c, verified)
         \/ ReadRole(c)
         \/ SetConsumer(c)
         \/ \E nif \in Nif : SetProducer(c, nif)
         \/ UpdateProfile(c)
         \/ \E wanted \in BOOLEAN : CountAddresses(c, wanted)
         \/ \E a \in AddressId, isDefault \in {"keep", "yes", "no"} :
              FindForUpdate(c, a, isDefault)
         \/ MatchDefaults(c)
         \/ \E a \in AddressId : InsertAddress(c, a)
         \/ \E content \in BOOLEAN : UpdateAddress(c, content)
         \/ \E a \in AddressId : FindForRemoval(c, a)
         \/ RetireAddress(c)
         \/ PromoteHeir(c)
         \/ \E a \in AddressId : ReadAddress(c, a)
         \/ Preflight(c)
         \/ UpsertCheckout(c)
         \/ StripeAnswers(c)
         \/ BindIntent(c)
    \/ \E u \in User : ActivateUser(u) \/ DeactivateUser(u) \/ DeleteUser(u)

Spec == Init /\ [][Next]_vars

-----------------------------------------------------------------------------
(* The tombstones an administrator can list keep nothing personal          *)
(* (account-lifecycle, "Approved tombstone redaction"), unless a request   *)
(* of the user had passed loadUser before the deletion and finishes after  *)
(* it, and every deleted account is listed as one.                         *)
RedactionHolds ==
    \A u \in User \ late : AccountState(u) = "DELETED" =>
        /\ u \in Listed("DELETED") \ (Listed("ACTIVE") \cup Listed("DEACTIVATED"))
        /\ ~ user[u].names /\ ~ user[u].email /\ ~ user[u].verified
        /\ \A a \in AddressId : address[a].owner = u =>
             ~ address[a].personal /\ ~ address[a].active

\* The address copied into a pending checkout is redacted with the account,
\* even by a deletion that runs between the read of the address and the
\* upsert, or during the call to Stripe (createPaymentIntent, 6c).
CheckoutsRedacted ==
    \A a \in AddressId : checkout[a] = "personal" =>
        AccountState(address[a].owner) # "DELETED"

\* A charge is never bound to a checkout whose address is gone
\* (createPaymentIntent, 7b).
BindsChosenAddress ==
    [][\A a \in AddressId :
         a \in bound' \ bound => checkout'[a] = "personal"]_vars

\* One default at most among the addresses a user has, whatever races
\* (addresses.service.ts, P-4 and R-2).
AtMostOneDefault ==
    \A u \in User : \A a, b \in Defaults(u) : a = b

\* The other half of P-4: a user who has addresses has a default among them,
\* as long as the user's requests come one after the other.
SerialBookHasDefault ==
    \A u \in User \ (overlapped \cup late) :
        Book(u) # {} => Defaults(u) # {}

\* A PRODUCER has a producers row, and only a PRODUCER has one unless two
\* onboardings overlapped (onboarding.service.ts).
ProducersAreRegistered ==
    \A u \in User :
        /\ user[u].role = "PRODUCER" => producer[u] # NoNif
        /\ producer[u] # NoNif /\ u \notin overlapped \cup late =>
             user[u].role = "PRODUCER"

\* The claim of addresses.service.ts:7-9 for requests in any order: an active
\* user with addresses has exactly one default.
BookHasDefault ==
    \A u \in User :
        Active(u) /\ Book(u) # {} => Cardinality(Defaults(u)) = 1
=============================================================================
