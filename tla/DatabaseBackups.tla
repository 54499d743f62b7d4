-------------------------- MODULE DatabaseBackups --------------------------
(***************************************************************************)
(* The backups of the database: the lock directory of operation-lease.ts,  *)
(* the creation of a backup and the startup reconciliation of              *)
(* database-backups.service.ts, over the files of artifact-store.ts.       *)
(*                                                                         *)
(* A step is what a process does to the file system between two awaits.    *)
(* Processes of one host share the files, any of them can be killed at any *)
(* step, and any step can meet an I/O error; files are published by rename *)
(* and what was published survives.  A pid may be used again.              *)
(***************************************************************************)
EXTENDS Integers, FiniteSets

CONSTANTS
    Pid,            \* the server processes
    Operation,      \* operation ids; each has the backup id created with it
    Startup,        \* what a process does before it serves
    Nobody,
    MaxAlive,       \* bound on the processes that run at the same time
    MaxStarting,    \* bound on those of them that start at the same time
    MaxFaults       \* bound on kills and I/O errors

\* no directory; a directory without info.json; an info.json still empty.
Unowned == {"free", "bare", "torn"}

ASSUME BackupAssumption ==
    /\ Startup \notin Operation
    /\ Nobody \notin Pid
    /\ Unowned \cap Pid = {}
    /\ MaxAlive \in Nat
    /\ MaxStarting \in Nat
    /\ MaxFaults \in Nat

VARIABLES
    lock,           \* .lease/global.lock and what its info.json says
    receipt,        \* operations/<operationId>.json
    archives,       \* archives/<id>.dump
    manifests,      \* manifests/<id>.v1.json
    temps,          \* what lies in .tmp
    proc,           \* what each process is doing
    holder,         \* history: the process that made the lock directory
    faults          \* history: kills and I/O errors, up to MaxFaults

files == <<receipt, archives, manifests, temps>>
vars == <<lock, files, proc, holder, faults>>

Status == {"ACCEPTED", "RUNNING", "SUCCEEDED", "FAILED"}
Stage == {"none", "DUMPING", "HASHING", "PUBLISHING"}
NoReceipt == [status |-> "none"]

Terminal == {"SUCCEEDED", "FAILED"}
Settled(o) == receipt[o] = NoReceipt \/ receipt[o].status \in Terminal

\* getOperation: the view of a receipt, or 404.
Polled(o) == receipt[o]

Dead == [at |-> "dead"]
Serving == [at |-> "serving"]

Reclaiming == {"read", "check", "unlink", "rmdir"}
Leasing == {"mkdir", "info", "write", "release", "leave"}
Pipeline == {"run", "dump", "hash", "archive", "publish", "manifest", "succeed"}
Running == Pipeline \cup {"accept", "fail", "tidy"}
Holding == Running \cup (Leasing \ {"mkdir"}) \cup {"reconcile"}

\* owner: the pid read from info.json; left: the receipts to reconcile;
\* skipped: those that could not be read; failed: the process will exit.
StartupTask == [at: Reclaiming \cup Leasing \cup {"reconcile"}, job: {Startup},
                owner: Pid \cup {Nobody}, left: SUBSET Operation,
                skipped: SUBSET Operation, failed: BOOLEAN]
CreateTask == [at: Leasing \cup Running, job: Operation,
               owner: {Nobody}, left: {{}}, skipped: {{}}, failed: {FALSE}]

TypeOK ==
    /\ lock \in Unowned \cup Pid
    /\ receipt \in [Operation -> {NoReceipt} \cup [status: Status, stage: Stage]]
    /\ archives \subseteq Operation
    /\ manifests \subseteq Operation
    /\ temps \subseteq Operation \X {"dump", "json"}
    /\ proc \in [Pid -> {Dead, Serving} \cup StartupTask \cup CreateTask]
    /\ holder \in Pid \cup {Nobody}
    /\ faults \in 0 .. MaxFaults

Init ==
    /\ lock = "free"
    /\ receipt = [o \in Operation |-> NoReceipt]
    /\ archives = {}
    /\ manifests = {}
    /\ temps = {}
    /\ proc = [p \in Pid |-> Dead]
    /\ holder = Nobody
    /\ faults = 0

At(p) == proc[p].at
Alive == {p \in Pid : At(p) # "dead"}
Starting == {p \in Alive : At(p) # "serving" /\ proc[p].job = Startup}
Job(p) == proc[p].job

Become(p, s) == proc' = [proc EXCEPT ![p] = s]
Goto(p, at) == Become(p, [proc[p] EXCEPT !.at = at])

\* A startup that cannot go on exits the process, a request only fails.
GiveUp(p) == Become(p, IF Job(p) = Startup THEN Dead ELSE Serving)

Fault == faults < MaxFaults /\ faults' = faults + 1

-----------------------------------------------------------------------------
(* reclaimDeadLease, at startup only *)

Boot(p) ==
    /\ At(p) = "dead"
    /\ Cardinality(Alive) < MaxAlive
    /\ Cardinality(Starting) < MaxStarting
    /\ Become(p, [at |-> "read", job |-> Startup, owner |-> Nobody,
                  left |-> {}, skipped |-> {}, failed |-> FALSE])
    /\ UNCHANGED <<lock, files, holder, faults>>

\* A missing info.json counts as no lease; an empty one makes JSON.parse throw.
ReadLease(p) ==
    /\ At(p) = "read"
    /\ CASE lock \in {"free", "bare"} -> Goto(p, "mkdir")
         [] lock = "torn"             -> GiveUp(p)
         [] OTHER -> Become(p, [proc[p] EXCEPT !.at = "check", !.owner = lock])
    /\ UNCHANGED <<lock, files, holder, faults>>

\* Mutation: a lease of another boot is taken for a dead one.
OtherBoot(p) == proc[p].owner # p
ConfirmedDead(p) == proc[p].owner \notin Alive

CheckOwner(p) ==
    /\ At(p) = "check"
    /\ Goto(p, IF ConfirmedDead(p) THEN "unlink" ELSE "mkdir")
    /\ UNCHANGED <<lock, files, holder, faults>>

\* rm -r of the lock directory, here and in release: its file, then itself.
UnlinkInfo(p) ==
    /\ At(p) \in {"unlink", "release"}
    /\ lock' = IF lock = "free" THEN "free" ELSE "bare"
    /\ Goto(p, IF At(p) = "unlink" THEN "rmdir" ELSE "leave")
    /\ UNCHANGED <<files, holder, faults>>

RemoveLock ==
    IF lock = "bare" THEN lock' = "free" /\ holder' = Nobody
                     ELSE UNCHANGED <<lock, holder>>

ReclaimLease(p) ==
    /\ At(p) = "rmdir"
    /\ RemoveLock
    /\ Goto(p, "mkdir")
    /\ UNCHANGED <<files, faults>>

-----------------------------------------------------------------------------
(* acquireLease and release *)

\* mkdir: EEXIST is the conflict.
MakeLock(p) ==
    /\ At(p) = "mkdir"
    /\ IF lock = "free"
       THEN lock' = "bare" /\ holder' = p /\ Goto(p, "info")
       ELSE UNCHANGED <<lock, holder>> /\ GiveUp(p)
    /\ UNCHANGED <<files, faults>>

\* writeFile opens info.json, empty, and then writes it.
OpenInfo(p) ==
    /\ At(p) = "info"
    /\ IF lock = "free" THEN UNCHANGED lock /\ GiveUp(p)
                        ELSE lock' = "torn" /\ Goto(p, "write")
    /\ UNCHANGED <<files, holder, faults>>

\* Mutation: info.json names the operation where the owner is expected.
WriteOperation(p) ==
    /\ At(p) = "write"
    /\ lock' = IF lock = "torn" THEN Job(p) ELSE lock
    /\ Goto(p, "reconcile")
    /\ UNCHANGED <<files, holder, faults>>

WriteInfo(p) ==
    /\ At(p) = "write"
    /\ lock' = IF lock = "torn" THEN p ELSE lock
    /\ IF Job(p) = Startup
       THEN Become(p, [proc[p] EXCEPT !.at = "reconcile",
                          !.left = {o \in Operation : receipt[o] # NoReceipt}])
       ELSE Goto(p, "accept")
    /\ UNCHANGED <<files, holder, faults>>

\* The end of release.
ReleaseLease(p) ==
    /\ At(p) = "leave"
    /\ RemoveLock
    /\ Become(p, IF proc[p].failed THEN Dead ELSE Serving)
    /\ UNCHANGED <<files, faults>>

\* An I/O error in acquireLease or release leaves the lock as it is.
LeaseError(p) ==
    /\ At(p) \in {"info", "write", "release", "leave", "unlink", "rmdir"}
    /\ Fault
    /\ GiveUp(p)
    /\ UNCHANGED <<lock, files, holder>>

-----------------------------------------------------------------------------
(* reconcileBackupOperations *)

\* Mutation: the receipt's last stage is taken for a published manifest.
ReachedPublishing(o) == receipt[o].stage = "PUBLISHING"

\* readCompletedManifest: a manifest, and the archive it describes.
Published(o) == o \in manifests /\ o \in archives

Reconciled(o) ==
    IF Published(o) THEN [status |-> "SUCCEEDED", stage |-> "PUBLISHING"]
                    ELSE [receipt[o] EXCEPT !.status = "FAILED"]

\* Mutations: only RUNNING operations are looked at, or terminal ones as well.
ReconcileRunning(p, o) ==
    /\ At(p) = "reconcile"
    /\ o \in proc[p].left
    /\ receipt' = IF receipt[o].status = "RUNNING"
                  THEN [receipt EXCEPT ![o] = Reconciled(o)] ELSE receipt
    /\ Become(p, [proc[p] EXCEPT !.left = @ \ {o}])
    /\ UNCHANGED <<lock, archives, manifests, temps, holder, faults>>

ReconcileAll(p, o) ==
    /\ At(p) = "reconcile"
    /\ o \in proc[p].left
    /\ receipt' = [receipt EXCEPT ![o] = Reconciled(o)]
    /\ Become(p, [proc[p] EXCEPT !.left = @ \ {o}])
    /\ UNCHANGED <<lock, archives, manifests, temps, holder, faults>>

Reconcile(p, o) ==
    /\ At(p) = "reconcile"
    /\ o \in proc[p].left
    /\ receipt' = IF Settled(o) THEN receipt
                  ELSE [receipt EXCEPT ![o] = Reconciled(o)]
    /\ Become(p, [proc[p] EXCEPT !.left = @ \ {o}])
    /\ UNCHANGED <<lock, archives, manifests, temps, holder, faults>>

\* readReceiptForReconciliation: any error of the read counts as no receipt.
SkipReceipt(p, o) ==
    /\ At(p) = "reconcile"
    /\ o \in proc[p].left
    /\ Fault
    /\ Become(p, [proc[p] EXCEPT !.left = @ \ {o}, !.skipped = @ \cup {o}])
    /\ UNCHANGED <<lock, files, holder>>

CleanTemps(p) ==
    /\ At(p) = "reconcile"
    /\ proc[p].left = {}
    /\ \/ (\E t \in temps : temps' = temps \ {t}) /\ UNCHANGED proc
       \/ temps = {} /\ UNCHANGED temps /\ Goto(p, "release")
    /\ UNCHANGED <<lock, receipt, archives, manifests, holder, faults>>

-----------------------------------------------------------------------------
(* create, and its runner *)

\* create is refused with 409 while another operation holds the lease, which
\* leaves no trace; so the operation that counts is the one of the process.
BeginCreate(p, o) ==
    /\ At(p) = "serving"
    /\ receipt[o] = NoReceipt
    /\ \A q \in Pid : At(q) \notin {"dead", "serving"} => Job(q) # o
    /\ Become(p, [at |-> "mkdir", job |-> o, owner |-> Nobody,
                  left |-> {}, skipped |-> {}, failed |-> FALSE])
    /\ UNCHANGED <<lock, files, holder, faults>>

Persist(o, status, stage) ==
    receipt' = [receipt EXCEPT ![o] = [status |-> status, stage |-> stage]]

Accept(p) ==
    /\ At(p) = "accept"
    /\ Persist(Job(p), "ACCEPTED", "none")
    /\ Goto(p, "run")
    /\ UNCHANGED <<lock, archives, manifests, temps, holder, faults>>

\* transitionStage: the receipt says what the pipeline does next.
Transition(p, at, status, stage, next) ==
    /\ At(p) = at
    /\ Persist(Job(p), status, stage)
    /\ Goto(p, next)
    /\ UNCHANGED <<lock, archives, manifests, temps, holder, faults>>

TransitionStage(p) ==
    \/ Transition(p, "run", "RUNNING", "DUMPING", "dump")
    \/ Transition(p, "hash", "RUNNING", "HASHING", "archive")
    \/ Transition(p, "publish", "RUNNING", "PUBLISHING", "manifest")
    \/ Transition(p, "succeed", "SUCCEEDED", "PUBLISHING", "tidy")

\* pg_dump writes the temporary file.
Dump(p) ==
    /\ At(p) = "dump"
    /\ temps' = temps \cup {<<Job(p), "dump">>}
    /\ Goto(p, "hash")
    /\ UNCHANGED <<lock, receipt, archives, manifests, holder, faults>>

\* The dump becomes the archive, unless another process has removed it.
PublishArchive(p) ==
    LET dump == <<Job(p), "dump">>
    IN  /\ At(p) = "archive"
        /\ IF dump \in temps
           THEN archives' = archives \cup {Job(p)} /\ Goto(p, "publish")
           ELSE UNCHANGED archives /\ Goto(p, "fail")
        /\ temps' = temps \ {dump}
        /\ UNCHANGED <<lock, receipt, manifests, holder, faults>>

\* The checksum is read from the archive at its final path.
PublishManifest(p) ==
    /\ At(p) = "manifest"
    /\ Job(p) \in archives
    /\ manifests' = manifests \cup {Job(p)}
    /\ Goto(p, "succeed")
    /\ UNCHANGED <<lock, receipt, archives, temps, holder, faults>>

\* What a write or a dump that is cut short can leave in .tmp.
Written(p) ==
    CASE At(p) = "reconcile" -> proc[p].left \X {"json"}
      [] At(p) \in {"accept", "run", "hash", "publish", "manifest", "succeed", "fail"}
                             -> {<<Job(p), "json">>}
      [] At(p) = "dump"      -> {<<Job(p), "dump">>}
      [] OTHER               -> {}
Litter(p) == {temps} \cup {temps \cup {t} : t \in Written(p)}

\* The deadline aborts the pipeline, the tool or a write fails: catch.
PipelineError(p) ==
    /\ At(p) \in Pipeline
    /\ Fault
    /\ temps' \in Litter(p)
    /\ Goto(p, "fail")
    /\ UNCHANGED <<lock, receipt, archives, manifests, holder>>

\* The receipt of create, or a receipt of the reconciliation, is not written:
\* the lease is released, and the request or the startup fails.
PersistError(p) ==
    /\ At(p) \in {"accept", "reconcile"}
    /\ Fault
    /\ temps' \in Litter(p)
    /\ Become(p, [proc[p] EXCEPT !.at = "release", !.failed = Job(p) = Startup])
    /\ UNCHANGED <<lock, receipt, archives, manifests, holder>>

\* failCreateOperation.
FailOperation(p) ==
    /\ At(p) = "fail"
    /\ Persist(Job(p), "FAILED", receipt[Job(p)].stage)
    /\ Goto(p, "tidy")
    /\ UNCHANGED <<lock, archives, manifests, temps, holder, faults>>

\* The FAILED receipt is not written either: only a log line remains.
FailUnrecorded(p) ==
    /\ At(p) = "fail"
    /\ Fault
    /\ temps' \in Litter(p)
    /\ Goto(p, "tidy")
    /\ UNCHANGED <<lock, receipt, archives, manifests, holder>>

\* finally: the dump is removed, best effort.
RemoveDump(p) ==
    /\ At(p) = "tidy"
    /\ \/ temps' = temps \ {<<Job(p), "dump">>} /\ UNCHANGED faults
       \/ Fault /\ UNCHANGED temps
    /\ Goto(p, "release")
    /\ UNCHANGED <<lock, receipt, archives, manifests, holder>>

-----------------------------------------------------------------------------
\* The process is killed, or shut down: the shutdown waits for open requests,
\* not for the runner.
Kill(p) ==
    /\ At(p) # "dead"
    /\ Fault
    /\ temps' \in Litter(p)
    /\ Become(p, Dead)
    /\ UNCHANGED <<lock, receipt, archives, manifests, holder>>

Step(p) ==
    \/ ReadLease(p) \/ CheckOwner(p) \/ UnlinkInfo(p) \/ ReclaimLease(p)
    \/ MakeLock(p) \/ OpenInfo(p) \/ WriteInfo(p) \/ ReleaseLease(p)
    \/ (\E o \in Operation : Reconcile(p, o)) \/ CleanTemps(p)
    \/ Accept(p) \/ TransitionStage(p)
    \/ Dump(p) \/ PublishArchive(p) \/ PublishManifest(p)
    \/ FailOperation(p) \/ RemoveDump(p)

Next == \E p \in Pid :
    \/ Boot(p) \/ Step(p) \/ Kill(p)
    \/ \E o \in Operation : BeginCreate(p, o) \/ SkipReceipt(p, o)
    \/ LeaseError(p) \/ PipelineError(p) \/ PersistError(p) \/ FailUnrecorded(p)

Spec == Init /\ [][Next]_vars

\* A process goes on, and when no process runs somebody starts one.
Fairness == /\ \A p \in Pid : WF_vars(Step(p))
            /\ WF_vars(Alive = {} /\ \E p \in Pid : Boot(p))

FairSpec == Spec /\ Fairness

-----------------------------------------------------------------------------
(* Safety *)

\* A SUCCEEDED receipt has its manifest, and a manifest its archive, whatever
\* was killed or failed in between (publish order and readCompletedManifest).
BackupsAreComplete ==
    \A o \in Operation :
        /\ receipt[o] # NoReceipt /\ receipt[o].status = "SUCCEEDED"
              => o \in manifests
        /\ o \in manifests => o \in archives

\* What a poll reported as SUCCEEDED or FAILED is never revised, by the runner
\* or by a later startup (reconcileBackupOperations).
OutcomeIsFinal ==
    [][\A o \in Operation : Polled(o).status \in Terminal
                               => Polled(o)' = Polled(o)]_vars

\* When a startup lets the process serve, no receipt that it could read is left
\* open and .tmp is empty: it ran alone, over all that others left behind.
ServesReconciled ==
    [][\A p \in Starting : proc'[p] = Serving =>
          /\ \A o \in Operation \ proc[p].skipped : Settled(o)'
          /\ temps' = {}]_vars

\* The lock directory is the abstract lease: one process at a time creates or
\* reconciles, under a lease that nobody takes from it.
Lease == INSTANCE OperationLease WITH
             alive <- Alive,
             inside <- {p \in Pid : At(p) \in Holding}
FollowsLease == Lease!Spec

(* What the comments say of the lease *)

\* "if a lease exists and its `ownerPid` is confirmed dead, removes the lock
\* directory": the lease of a dead process is reclaimed sooner or later.
DeadLeaseReclaimed ==
    holder # Nobody /\ holder \notin Alive ~> holder = Nobody \/ holder \in Alive
=============================================================================
