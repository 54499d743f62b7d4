----------------------- MODULE DatabaseBackups_proofs -----------------------
(***************************************************************************)
(* Proofs about DatabaseBackups, for any number of processes, operations   *)
(* and faults.  Types and completeness hold however many processes run and *)
(* start at the same time; what rests on the lease, in a RollingDeployment.*)
(***************************************************************************)
EXTENDS DatabaseBackups, FiniteSetTheorems, TLAPS

Task == {Dead, Serving} \cup StartupTask \cup CreateTask
Receipt == {NoReceipt} \cup [status: Status, stage: Stage]
Temp == Operation \X {"dump", "json"}

\* A runner has persisted the receipt of its operation.
RunnersHaveReceipts ==
    \A p \in Pid : At(p) \in Pipeline \cup {"fail"} => receipt[Job(p)] # NoReceipt

TypeInv == TypeOK /\ RunnersHaveReceipts

-----------------------------------------------------------------------------
(* How a step changes its process *)

\* Only a startup reclaims and reconciles, only a creation runs the pipeline.
LEMMA TaskKind ==
    ASSUME TypeOK, NEW p \in Pid
    PROVE  /\ At(p) \in Reclaiming \cup {"reconcile"} => proc[p] \in StartupTask
           /\ At(p) \in Running => proc[p] \in CreateTask
           /\ At(p) \in Leasing => proc[p] \in StartupTask \cup CreateTask
  <1>1. CASE proc[p] \in {Dead, Serving}
    BY <1>1 DEF At, Dead, Serving, Reclaiming, Leasing, Running, Pipeline
  <1>2. CASE proc[p] \in StartupTask
    <2>1. At(p) \in Reclaiming \cup Leasing \cup {"reconcile"}
      BY <1>2 DEF At, StartupTask
    <2>2. At(p) \notin Running
      BY <2>1 DEF Reclaiming, Leasing, Running, Pipeline
    <2> QED
      BY <1>2, <2>2
  <1>3. CASE proc[p] \in CreateTask
    <2>1. At(p) \in Leasing \cup Running
      BY <1>3 DEF At, CreateTask
    <2>2. At(p) \notin Reclaiming \cup {"reconcile"}
      BY <2>1 DEF Reclaiming, Leasing, Running, Pipeline
    <2> QED
      BY <1>3, <2>2
  <1> QED
    BY <1>1, <1>2, <1>3 DEF TypeOK

LEMMA BecomeType ==
    ASSUME TypeOK, NEW p \in Pid, NEW s \in Task, Become(p, s)
    PROVE  /\ proc' \in [Pid -> Task]
           /\ proc'[p] = s
           /\ \A q \in Pid \ {p} : proc'[q] = proc[q]
  BY DEF TypeOK, Become, Task

\* Moving on inside a task.
LEMMA GotoType ==
    ASSUME TypeOK, NEW p \in Pid, NEW at, Goto(p, at),
           \/ proc[p] \in StartupTask /\ at \in Reclaiming \cup Leasing \cup {"reconcile"}
           \/ proc[p] \in CreateTask /\ at \in Leasing \cup Running
    PROVE  /\ proc' \in [Pid -> Task]
           /\ proc'[p].at = at /\ proc'[p].job = Job(p)
           /\ \A q \in Pid \ {p} : proc'[q] = proc[q]
  <1> DEFINE s == [proc[p] EXCEPT !.at = at]
  <1>1. s \in Task /\ s.at = at /\ s.job = Job(p)
    BY DEF StartupTask, CreateTask, Task, Job
  <1>2. Become(p, s)
    BY DEF Goto
  <1> HIDE DEF s
  <1> QED
    BY <1>1, <1>2, BecomeType

LEMMA GiveUpType ==
    ASSUME TypeOK, NEW p \in Pid, GiveUp(p)
    PROVE  /\ proc' \in [Pid -> Task]
           /\ proc'[p] \in {Dead, Serving}
           /\ \A q \in Pid \ {p} : proc'[q] = proc[q]
  BY BecomeType DEF GiveUp, Task

\* The faults stay within their bound.
LEMMA FaultType == TypeOK /\ Fault => faults' \in 0 .. MaxFaults
  BY BackupAssumption DEF TypeOK, Fault

\* What a step leaves behind is a temporary file of an operation.
LEMMA LitterType ==
    ASSUME TypeOK, NEW p \in Pid, temps' \in Litter(p)
    PROVE  temps' \subseteq Temp
  <1>1. At(p) = "reconcile" => proc[p].left \subseteq Operation
    BY TaskKind DEF StartupTask
  <1>2. At(p) \in Running => Job(p) \in Operation
    BY TaskKind DEF CreateTask, Job
  <1>3. Written(p) \subseteq Temp
    BY <1>1, <1>2 DEF Written, Temp, Running, Pipeline
  <1> QED
    BY <1>3 DEF TypeOK, Litter, Temp

-----------------------------------------------------------------------------
(* Types *)

\* What is to be shown of a step of p.
LEMMA Assemble ==
    ASSUME TypeInv, NEW p \in Pid,
           lock' \in Unowned \cup Pid,
           receipt' \in [Operation -> Receipt],
           \A o \in Operation : receipt[o] # NoReceipt => receipt'[o] # NoReceipt,
           archives' \subseteq Operation,
           manifests' \subseteq Operation,
           temps' \subseteq Temp,
           proc' \in [Pid -> Task],
           \A q \in Pid \ {p} : proc'[q] = proc[q],
           proc'[p].at \in Pipeline \cup {"fail"} => receipt'[proc'[p].job] # NoReceipt,
           holder' \in Pid \cup {Nobody},
           faults' \in 0 .. MaxFaults
    PROVE  TypeInv'
  <1>1. TypeOK'
    BY DEF TypeOK, Receipt, Temp, Task
  <1>2. ASSUME NEW q \in Pid \ {p}, At(q) \in Pipeline \cup {"fail"}
        PROVE  receipt'[Job(q)] # NoReceipt
    <2>1. Job(q) \in Operation
      BY <1>2, TaskKind DEF TypeInv, CreateTask, Job, Running
    <2> QED
      BY <1>2, <2>1 DEF TypeInv, RunnersHaveReceipts
  <1>3. RunnersHaveReceipts'
    BY <1>2 DEF RunnersHaveReceipts, At, Job
  <1> QED
    BY <1>1, <1>3 DEF TypeInv

\* A step that leaves the files alone and does not enter the pipeline.
LEMMA FilesKept ==
    ASSUME TypeInv, NEW p \in Pid, UNCHANGED files,
           lock' \in Unowned \cup Pid,
           proc' \in [Pid -> Task],
           \A q \in Pid \ {p} : proc'[q] = proc[q],
           proc'[p].at \notin Pipeline \cup {"fail"},
           holder' \in Pid \cup {Nobody},
           faults' \in 0 .. MaxFaults
    PROVE  TypeInv'
  BY Assemble DEF files, TypeInv, TypeOK, Receipt, Temp

\* A step that leaves all but .tmp, the process and the faults alone.
LEMMA TempsOnly ==
    ASSUME TypeInv, NEW p \in Pid,
           UNCHANGED <<lock, receipt, archives, manifests, holder>>,
           temps' \subseteq Temp,
           proc' \in [Pid -> Task],
           \A q \in Pid \ {p} : proc'[q] = proc[q],
           proc'[p].at \in Pipeline \cup {"fail"} => receipt[proc'[p].job] # NoReceipt,
           faults' \in 0 .. MaxFaults
    PROVE  TypeInv'
  BY Assemble DEF TypeInv, TypeOK, Receipt

\* The actions on the lease.
LEMMA LeaseStepType ==
    ASSUME TypeInv, NEW p \in Pid,
           \/ Boot(p) \/ ReadLease(p) \/ CheckOwner(p) \/ UnlinkInfo(p)
           \/ ReclaimLease(p) \/ MakeLock(p) \/ OpenInfo(p) \/ WriteInfo(p)
           \/ ReleaseLease(p) \/ LeaseError(p)
    PROVE  TypeInv'
  <1> USE DEF TypeInv
  <1>a. TypeOK
    OBVIOUS
  <1>b. /\ lock \in Unowned \cup Pid
        /\ holder \in Pid \cup {Nobody}
        /\ faults \in 0 .. MaxFaults
        /\ "free" \in Unowned /\ "bare" \in Unowned /\ "torn" \in Unowned
    BY DEF TypeOK, Unowned
  <1> DEFINE Outside == Reclaiming \cup Leasing \cup {"reconcile", "dead", "serving"}
  <1>c. /\ \A at \in Outside \cup {"accept"} : at \notin Pipeline \cup {"fail"}
        /\ Dead.at \in Outside /\ Serving.at \in Outside
    BY DEF Reclaiming, Leasing, Pipeline, Dead, Serving
  <1>1. CASE Boot(p)
    <2> DEFINE s == [at |-> "read", job |-> Startup, owner |-> Nobody,
                     left |-> {}, skipped |-> {}, failed |-> FALSE]
    <2>1. s \in Task /\ s.at = "read"
      BY DEF Task, StartupTask, Reclaiming
    <2>2. Become(p, s)
      BY <1>1 DEF Boot
    <2> HIDE DEF s
    <2>3. /\ proc' \in [Pid -> Task] /\ proc'[p].at = "read"
          /\ \A q \in Pid \ {p} : proc'[q] = proc[q]
      BY <2>1, <2>2, BecomeType
    <2> QED
      BY <1>1, <1>b, <2>3, FilesKept DEF Boot, Pipeline
  <1>2. CASE ReadLease(p)
    <2>1. proc[p] \in StartupTask
      BY <1>2, TaskKind DEF ReadLease, Reclaiming
    <2>2. CASE Goto(p, "mkdir") \/ GiveUp(p)
      BY <1>2, <1>b, <1>c, <2>1, <2>2, GotoType, GiveUpType, FilesKept
         DEF ReadLease, Leasing
    <2>3. ASSUME lock \in Pid,
                 Become(p, [proc[p] EXCEPT !.at = "check", !.owner = lock])
          PROVE  TypeInv'
      <3> DEFINE s == [proc[p] EXCEPT !.at = "check", !.owner = lock]
      <3>1. s \in Task /\ s.at = "check"
        BY <2>1, <2>3 DEF Task, StartupTask, Reclaiming
      <3>2. Become(p, s)
        BY <2>3
      <3> HIDE DEF s
      <3>3. /\ proc' \in [Pid -> Task] /\ proc'[p].at = "check"
            /\ \A q \in Pid \ {p} : proc'[q] = proc[q]
        BY <3>1, <3>2, BecomeType
      <3> QED
        BY <1>2, <1>b, <3>3, FilesKept DEF ReadLease, Pipeline
    <2> QED
      BY <1>2, <1>b, <2>2, <2>3 DEF ReadLease, Unowned
  <1>3. CASE CheckOwner(p)
    <2>1. proc[p] \in StartupTask
      BY <1>3, TaskKind DEF CheckOwner, Reclaiming
    <2>2. PICK at \in {"unlink", "mkdir"} : Goto(p, at)
      BY <1>3 DEF CheckOwner
    <2>3. /\ proc' \in [Pid -> Task] /\ proc'[p].at = at
          /\ \A q \in Pid \ {p} : proc'[q] = proc[q]
      BY <2>1, <2>2, GotoType DEF Reclaiming, Leasing
    <2> QED
      BY <1>3, <1>b, <2>3, FilesKept DEF CheckOwner, Pipeline
  <1>4. CASE UnlinkInfo(p)
    <2>1. PICK at \in {"rmdir", "leave"} :
             Goto(p, at) /\ (at = "rmdir" <=> At(p) = "unlink")
      BY <1>4 DEF UnlinkInfo
    <2>2. \/ proc[p] \in StartupTask
          \/ proc[p] \in CreateTask /\ at = "leave"
      BY <1>4, <2>1, TaskKind DEF UnlinkInfo, Reclaiming, Leasing
    <2>3. /\ proc' \in [Pid -> Task] /\ proc'[p].at = at
          /\ \A q \in Pid \ {p} : proc'[q] = proc[q]
      BY <2>1, <2>2, GotoType DEF Reclaiming, Leasing
    <2> QED
      BY <1>4, <1>b, <2>3, FilesKept DEF UnlinkInfo, Pipeline
  <1>5. CASE ReclaimLease(p)
    <2>1. proc[p] \in StartupTask
      BY <1>5, TaskKind DEF ReclaimLease, Reclaiming
    <2>2. /\ proc' \in [Pid -> Task] /\ proc'[p].at = "mkdir"
          /\ \A q \in Pid \ {p} : proc'[q] = proc[q]
      BY <1>5, <2>1, GotoType DEF ReclaimLease, Leasing
    <2> QED
      BY <1>5, <1>b, <2>2, FilesKept DEF ReclaimLease, RemoveLock, Pipeline
  <1>6. CASE MakeLock(p)
    <2>1. proc[p] \in StartupTask \cup CreateTask
      BY <1>6, TaskKind DEF MakeLock, Leasing
    <2>2. Goto(p, "info") \/ GiveUp(p)
      BY <1>6 DEF MakeLock
    <2>3. /\ proc' \in [Pid -> Task]
          /\ proc'[p].at \in Outside
          /\ \A q \in Pid \ {p} : proc'[q] = proc[q]
      BY <1>c, <2>1, <2>2, GotoType, GiveUpType DEF Leasing
    <2> QED
      BY <1>6, <1>b, <1>c, <2>3, FilesKept DEF MakeLock
  <1>7. CASE OpenInfo(p)
    <2>1. proc[p] \in StartupTask \cup CreateTask
      BY <1>7, TaskKind DEF OpenInfo, Leasing
    <2>2. Goto(p, "write") \/ GiveUp(p)
      BY <1>7 DEF OpenInfo
    <2>3. /\ proc' \in [Pid -> Task]
          /\ proc'[p].at \in Outside
          /\ \A q \in Pid \ {p} : proc'[q] = proc[q]
      BY <1>c, <2>1, <2>2, GotoType, GiveUpType DEF Leasing
    <2> QED
      BY <1>7, <1>b, <1>c, <2>3, FilesKept DEF OpenInfo
  <1>8. CASE WriteInfo(p)
    <2>1. lock' \in Unowned \cup Pid
      BY <1>8, <1>b DEF WriteInfo
    <2>2. CASE Job(p) = Startup
      <3> DEFINE s == [proc[p] EXCEPT !.at = "reconcile",
                          !.left = {o \in Operation : receipt[o] # NoReceipt}]
      <3>1. proc[p] \in StartupTask
        BY <1>8, <2>2, TaskKind, BackupAssumption DEF WriteInfo, Leasing, CreateTask, Job
      <3>2. s \in Task /\ s.at = "reconcile"
        BY <3>1 DEF Task, StartupTask
      <3>3. Become(p, s)
        BY <1>8, <2>2 DEF WriteInfo
      <3> HIDE DEF s
      <3>4. /\ proc' \in [Pid -> Task] /\ proc'[p].at = "reconcile"
            /\ \A q \in Pid \ {p} : proc'[q] = proc[q]
        BY <3>2, <3>3, BecomeType
      <3> QED
        BY <1>8, <1>b, <1>c, <2>1, <3>4, FilesKept DEF WriteInfo
    <2>3. CASE Job(p) # Startup
      <3>1. proc[p] \in CreateTask
        BY <1>8, <2>3, TaskKind DEF WriteInfo, Leasing, StartupTask, Job
      <3>2. /\ proc' \in [Pid -> Task] /\ proc'[p].at = "accept"
            /\ \A q \in Pid \ {p} : proc'[q] = proc[q]
        BY <1>8, <2>3, <3>1, GotoType DEF WriteInfo, Running
      <3> QED
        BY <1>8, <1>b, <1>c, <2>1, <3>2, FilesKept DEF WriteInfo
    <2> QED
      BY <2>2, <2>3
  <1>9. CASE ReleaseLease(p)
    <2>1. \E s \in {Dead, Serving} : Become(p, s)
      BY <1>9 DEF ReleaseLease
    <2>2. /\ proc' \in [Pid -> Task] /\ proc'[p] \in {Dead, Serving}
          /\ \A q \in Pid \ {p} : proc'[q] = proc[q]
      BY <2>1, BecomeType DEF Task
    <2> QED
      BY <1>9, <1>b, <1>c, <2>2, FilesKept DEF ReleaseLease, RemoveLock
  <1>10. CASE LeaseError(p)
    <2>1. /\ proc' \in [Pid -> Task] /\ proc'[p] \in {Dead, Serving}
          /\ \A q \in Pid \ {p} : proc'[q] = proc[q]
      BY <1>10, GiveUpType DEF LeaseError
    <2>2. faults' \in 0 .. MaxFaults
      BY <1>10, FaultType DEF LeaseError
    <2> QED
      BY <1>10, <1>b, <1>c, <2>1, <2>2, FilesKept DEF LeaseError
  <1> QED
    BY <1>1, <1>2, <1>3, <1>4, <1>5, <1>6, <1>7, <1>8, <1>9, <1>10

\* The receipt that a reconciliation writes.
LEMMA ReconciledType ==
    ASSUME TypeOK, NEW o \in Operation, ~Settled(o)
    PROVE  /\ Reconciled(o) \in [status: Status, stage: Stage]
           /\ Reconciled(o) # NoReceipt
           /\ Reconciled(o).status = "SUCCEEDED" => Published(o)
  <1>1. receipt[o] \in [status: Status, stage: Stage]
    BY DEF TypeOK, Settled
  <1>2. CASE Published(o)
    BY <1>2 DEF Reconciled, Status, Stage, NoReceipt
  <1>3. CASE ~Published(o)
    <2> DEFINE r == [receipt[o] EXCEPT !.status = "FAILED"]
    <2>1. r \in [status: Status, stage: Stage] /\ r.status = "FAILED"
      BY <1>1 DEF Status
    <2>2. Reconciled(o) = r
      BY <1>3 DEF Reconciled
    <2>3. NoReceipt.status = "none"
      BY DEF NoReceipt
    <2> QED
      BY <2>1, <2>2, <2>3
  <1> QED
    BY <1>2, <1>3

\* A receipt persisted for the operation of p.
LEMMA PersistType ==
    ASSUME TypeOK, NEW o \in Operation, NEW status \in Status, NEW stage \in Stage,
           Persist(o, status, stage)
    PROVE  /\ receipt' \in [Operation -> Receipt]
           /\ receipt'[o] = [status |-> status, stage |-> stage]
           /\ receipt'[o] # NoReceipt
           /\ \A q \in Operation \ {o} : receipt'[q] = receipt[q]
  BY DEF TypeOK, Persist, Receipt, NoReceipt, Status

\* The actions of reconcileBackupOperations.
LEMMA ReconcileStepType ==
    ASSUME TypeInv, NEW p \in Pid,
           (\E o \in Operation : Reconcile(p, o) \/ SkipReceipt(p, o)) \/ CleanTemps(p)
    PROVE  TypeInv'
  <1> USE DEF TypeInv
  <1>a. "reconcile" \notin Pipeline \cup {"fail"} /\ "release" \notin Pipeline \cup {"fail"}
    BY DEF Pipeline
  <1>b. proc[p] \in StartupTask
    BY TaskKind DEF Reconcile, SkipReceipt, CleanTemps
  <1>1. ASSUME NEW o \in Operation, Reconcile(p, o)
        PROVE  TypeInv'
    <2> DEFINE s == [proc[p] EXCEPT !.left = @ \ {o}]
    <2>1. s \in Task /\ s.at = "reconcile"
      BY <1>1, <1>b DEF Reconcile, At, Task, StartupTask
    <2>2. Become(p, s)
      BY <1>1 DEF Reconcile
    <2> HIDE DEF s
    <2>3. /\ proc' \in [Pid -> Task] /\ proc'[p].at = "reconcile"
          /\ \A q \in Pid \ {p} : proc'[q] = proc[q]
      BY <2>1, <2>2, BecomeType
    <2>4. /\ receipt' \in [Operation -> Receipt]
          /\ \A q \in Operation : receipt[q] # NoReceipt => receipt'[q] # NoReceipt
      <3>1. CASE Settled(o)
        BY <1>1, <3>1 DEF Reconcile, TypeOK, Receipt
      <3>2. CASE ~Settled(o)
        <4>1. receipt' = [receipt EXCEPT ![o] = Reconciled(o)]
          BY <1>1, <3>2 DEF Reconcile
        <4> QED
          BY <3>2, <4>1, ReconciledType DEF TypeOK, Receipt
      <3> QED
        BY <3>1, <3>2
    <2> QED
      BY <1>1, <1>a, <2>3, <2>4, Assemble DEF Reconcile, TypeOK, Temp
  <1>2. ASSUME NEW o \in Operation, SkipReceipt(p, o)
        PROVE  TypeInv'
    <2> DEFINE s == [proc[p] EXCEPT !.left = @ \ {o}, !.skipped = @ \cup {o}]
    <2>1. s \in Task /\ s.at = "reconcile"
      BY <1>2, <1>b DEF SkipReceipt, At, Task, StartupTask
    <2>2. Become(p, s)
      BY <1>2 DEF SkipReceipt
    <2> HIDE DEF s
    <2>3. /\ proc' \in [Pid -> Task] /\ proc'[p].at = "reconcile"
          /\ \A q \in Pid \ {p} : proc'[q] = proc[q]
      BY <2>1, <2>2, BecomeType
    <2>4. faults' \in 0 .. MaxFaults
      BY <1>2, FaultType DEF SkipReceipt
    <2> QED
      BY <1>2, <1>a, <2>3, <2>4, FilesKept DEF SkipReceipt, TypeOK
  <1>3. CASE CleanTemps(p)
    <2>1. temps' \subseteq Temp
      BY <1>3 DEF CleanTemps, TypeOK, Temp
    <2>2. CASE UNCHANGED proc
      BY <1>3, <1>a, <2>1, <2>2, TempsOnly DEF CleanTemps, TypeOK, At, Task
    <2>3. CASE Goto(p, "release")
      <3>1. /\ proc' \in [Pid -> Task] /\ proc'[p].at = "release"
            /\ \A q \in Pid \ {p} : proc'[q] = proc[q]
        BY <1>b, <2>3, GotoType DEF Leasing
      <3> QED
        BY <1>3, <1>a, <2>1, <3>1, TempsOnly DEF CleanTemps, TypeOK
    <2> QED
      BY <1>3, <2>2, <2>3 DEF CleanTemps
  <1> QED
    BY <1>1, <1>2, <1>3

\* Where a runner goes next, and what it has by then.
LEMMA RunnerGoto ==
    ASSUME TypeInv, NEW p \in Pid, At(p) \in Running,
           NEW at \in Running \cup {"release"}, Goto(p, at)
    PROVE  /\ Job(p) \in Operation
           /\ proc' \in [Pid -> Task]
           /\ proc'[p].at = at /\ proc'[p].job = Job(p)
           /\ \A q \in Pid \ {p} : proc'[q] = proc[q]
  <1>1. proc[p] \in CreateTask
    BY TaskKind DEF TypeInv
  <1>2. Job(p) \in Operation
    BY <1>1 DEF CreateTask, Job
  <1> QED
    BY <1>1, <1>2, GotoType DEF TypeInv, Leasing

\* create accepts an operation, or its runner takes a step.
LEMMA CreateStepType ==
    ASSUME TypeInv, NEW p \in Pid,
           \/ \E o \in Operation : BeginCreate(p, o)
           \/ Accept(p) \/ TransitionStage(p) \/ Dump(p)
           \/ PublishArchive(p) \/ PublishManifest(p)
           \/ FailOperation(p) \/ RemoveDump(p)
    PROVE  TypeInv'
  <1> USE DEF TypeInv
  <1>a. /\ lock \in Unowned \cup Pid /\ holder \in Pid \cup {Nobody}
        /\ faults \in 0 .. MaxFaults
        /\ archives \subseteq Operation /\ manifests \subseteq Operation
        /\ temps \subseteq Temp
    BY DEF TypeOK, Temp
  <1>b. Pipeline \subseteq Running /\ {"accept", "fail", "tidy"} \subseteq Running
    BY DEF Running
  <1>1. ASSUME NEW o \in Operation, BeginCreate(p, o)
        PROVE  TypeInv'
    <2> DEFINE s == [at |-> "mkdir", job |-> o, owner |-> Nobody,
                     left |-> {}, skipped |-> {}, failed |-> FALSE]
    <2>1. s \in Task /\ s.at = "mkdir"
      BY DEF Task, CreateTask, Leasing
    <2>2. Become(p, s)
      BY <1>1 DEF BeginCreate
    <2> HIDE DEF s
    <2>3. /\ proc' \in [Pid -> Task] /\ proc'[p].at = "mkdir"
          /\ \A q \in Pid \ {p} : proc'[q] = proc[q]
      BY <2>1, <2>2, BecomeType
    <2> QED
      BY <1>1, <1>a, <2>3, FilesKept DEF BeginCreate, Pipeline
  <1>2. ASSUME NEW at \in Running, NEW status \in Status, NEW stage \in Stage,
               NEW next \in Running, Transition(p, at, status, stage, next)
        PROVE  TypeInv'
    <2>1. /\ Job(p) \in Operation
          /\ proc' \in [Pid -> Task]
          /\ proc'[p].at = next /\ proc'[p].job = Job(p)
          /\ \A q \in Pid \ {p} : proc'[q] = proc[q]
      BY <1>2, RunnerGoto DEF Transition
    <2>2. /\ receipt' \in [Operation -> Receipt]
          /\ receipt'[Job(p)] # NoReceipt
          /\ \A q \in Operation \ {Job(p)} : receipt'[q] = receipt[q]
      BY <1>2, <2>1, PersistType DEF Transition
    <2> QED
      BY <1>2, <1>a, <2>1, <2>2, Assemble DEF Transition
  <1>3. Accept(p) => Transition(p, "accept", "ACCEPTED", "none", "run")
    BY DEF Accept, Transition
  <1>4. CASE Accept(p) \/ TransitionStage(p)
    BY <1>2, <1>3, <1>4 DEF TransitionStage, Running, Pipeline, Status, Stage
  <1>5. CASE FailOperation(p)
    <2>1. /\ Job(p) \in Operation
          /\ receipt[Job(p)] # NoReceipt
      BY <1>5, TaskKind DEF FailOperation, RunnersHaveReceipts, Running, CreateTask, Job
    <2>2. receipt[Job(p)].stage \in Stage
      BY <2>1 DEF TypeOK
    <2>3. Transition(p, "fail", "FAILED", receipt[Job(p)].stage, "tidy")
      BY <1>5 DEF FailOperation, Transition
    <2> QED
      BY <1>2, <1>b, <2>2, <2>3 DEF Status
  <1>6. CASE Dump(p)
    <2>1. /\ Job(p) \in Operation /\ receipt[Job(p)] # NoReceipt
          /\ proc' \in [Pid -> Task]
          /\ proc'[p].at = "hash" /\ proc'[p].job = Job(p)
          /\ \A q \in Pid \ {p} : proc'[q] = proc[q]
      BY <1>6, RunnerGoto DEF Dump, Running, Pipeline, RunnersHaveReceipts
    <2>2. temps' \subseteq Temp
      BY <1>6, <1>a, <2>1 DEF Dump, Temp
    <2> QED
      BY <1>6, <1>a, <2>1, <2>2, TempsOnly DEF Dump
  <1>7. CASE PublishArchive(p)
    <2>1. PICK at \in {"publish", "fail"} : Goto(p, at)
      BY <1>7 DEF PublishArchive
    <2>2. /\ Job(p) \in Operation /\ receipt[Job(p)] # NoReceipt
          /\ proc' \in [Pid -> Task]
          /\ proc'[p].at = at /\ proc'[p].job = Job(p)
          /\ \A q \in Pid \ {p} : proc'[q] = proc[q]
      BY <1>7, <2>1, RunnerGoto DEF PublishArchive, Running, Pipeline, RunnersHaveReceipts
    <2>3. archives' \subseteq Operation /\ temps' \subseteq Temp
      BY <1>7, <1>a, <2>2 DEF PublishArchive
    <2> QED
      BY <1>7, <1>a, <2>2, <2>3, Assemble DEF PublishArchive, TypeOK, Receipt
  <1>8. CASE PublishManifest(p)
    <2>1. /\ Job(p) \in Operation /\ receipt[Job(p)] # NoReceipt
          /\ proc' \in [Pid -> Task]
          /\ proc'[p].at = "succeed" /\ proc'[p].job = Job(p)
          /\ \A q \in Pid \ {p} : proc'[q] = proc[q]
      BY <1>8, RunnerGoto DEF PublishManifest, Running, Pipeline, RunnersHaveReceipts
    <2>2. manifests' \subseteq Operation
      BY <1>8, <1>a, <2>1 DEF PublishManifest
    <2> QED
      BY <1>8, <1>a, <2>1, <2>2, Assemble DEF PublishManifest, TypeOK, Receipt
  <1>9. CASE RemoveDump(p)
    <2>1. /\ proc' \in [Pid -> Task] /\ proc'[p].at = "release"
          /\ \A q \in Pid \ {p} : proc'[q] = proc[q]
      BY <1>9, <1>b, RunnerGoto DEF RemoveDump
    <2>2. temps' \subseteq Temp /\ faults' \in 0 .. MaxFaults
      BY <1>9, <1>a, FaultType DEF RemoveDump
    <2> QED
      BY <1>9, <2>1, <2>2, TempsOnly DEF RemoveDump, Pipeline
  <1> QED
    BY <1>1, <1>4, <1>5, <1>6, <1>7, <1>8, <1>9

\* An I/O error or a kill.
LEMMA FaultStepType ==
    ASSUME TypeInv, NEW p \in Pid,
           PipelineError(p) \/ PersistError(p) \/ FailUnrecorded(p) \/ Kill(p)
    PROVE  TypeInv'
  <1> USE DEF TypeInv
  <1>a. temps' \subseteq Temp /\ faults' \in 0 .. MaxFaults
    BY LitterType, FaultType DEF PipelineError, PersistError, FailUnrecorded, Kill
  <1>1. CASE PipelineError(p) \/ FailUnrecorded(p)
    <2>1. PICK at \in {"fail", "tidy"} : Goto(p, at)
      BY <1>1 DEF PipelineError, FailUnrecorded
    <2>2. At(p) \in Pipeline \cup {"fail"} /\ Pipeline \cup {"fail", "tidy"} \subseteq Running
      BY <1>1 DEF PipelineError, FailUnrecorded, Running
    <2>3. /\ receipt[Job(p)] # NoReceipt
          /\ proc' \in [Pid -> Task]
          /\ proc'[p].at = at /\ proc'[p].job = Job(p)
          /\ \A q \in Pid \ {p} : proc'[q] = proc[q]
      BY <2>1, <2>2, RunnerGoto DEF RunnersHaveReceipts
    <2> QED
      BY <1>1, <1>a, <2>3, TempsOnly DEF PipelineError, FailUnrecorded
  <1>2. CASE PersistError(p)
    <2> DEFINE s == [proc[p] EXCEPT !.at = "release", !.failed = Job(p) = Startup]
    <2>1. s \in Task /\ s.at = "release"
      <3>1. CASE At(p) = "reconcile"
        <4>1. proc[p] \in StartupTask
          BY <3>1, TaskKind
        <4> QED
          BY <4>1 DEF Task, StartupTask, Leasing
      <3>2. CASE At(p) = "accept"
        <4>1. proc[p] \in CreateTask
          BY <3>2, TaskKind DEF Running
        <4>2. (Job(p) = Startup) = FALSE
          BY <4>1, BackupAssumption DEF CreateTask, Job
        <4>3. s = [proc[p] EXCEPT !.at = "release", !.failed = FALSE]
          BY <4>2
        <4> QED
          BY <4>1, <4>3 DEF Task, CreateTask, Leasing
      <3> QED
        BY <1>2, <3>1, <3>2 DEF PersistError
    <2>2. Become(p, s)
      BY <1>2 DEF PersistError
    <2> HIDE DEF s
    <2>3. /\ proc' \in [Pid -> Task] /\ proc'[p].at = "release"
          /\ \A q \in Pid \ {p} : proc'[q] = proc[q]
      BY <2>1, <2>2, BecomeType
    <2> QED
      BY <1>2, <1>a, <2>3, TempsOnly DEF PersistError, Pipeline
  <1>3. CASE Kill(p)
    <2>1. /\ proc' \in [Pid -> Task] /\ proc'[p].at = "dead"
          /\ \A q \in Pid \ {p} : proc'[q] = proc[q]
      BY <1>3, BecomeType DEF Kill, Task, Dead
    <2> QED
      BY <1>3, <1>a, <2>1, TempsOnly DEF Kill, Pipeline
  <1> QED
    BY <1>1, <1>2, <1>3

LEMMA StepType == TypeInv /\ [Next]_vars => TypeInv'
  <1> SUFFICES ASSUME TypeInv, [Next]_vars PROVE TypeInv'
    OBVIOUS
  <1>1. CASE UNCHANGED vars
    BY <1>1 DEF vars, files, TypeInv, TypeOK, RunnersHaveReceipts, At, Job
  <1>2. CASE Next
    BY <1>2, LeaseStepType, ReconcileStepType, CreateStepType, FaultStepType
       DEF Next, Step
  <1> QED
    BY <1>1, <1>2

LEMMA InitType == Init => TypeInv
  <1> SUFFICES ASSUME Init PROVE TypeInv
    OBVIOUS
  <1>1. TypeOK
    BY BackupAssumption DEF Init, TypeOK, Unowned
  <1>2. \A p \in Pid : At(p) = "dead"
    BY DEF Init, At, Dead
  <1> QED
    BY <1>1, <1>2 DEF TypeInv, RunnersHaveReceipts, Pipeline

LEMMA TypeInvariant == Spec => []TypeInv
  BY InitType, StepType, PTL DEF Spec

\* Receipts, files and lease stay what the code takes them for; in particular
\* only a startup reconciles and only a creation runs the pipeline.
THEOREM TypeCorrect == Spec => []TypeOK
  <1>1. TypeInv => TypeOK
    BY DEF TypeInv
  <1> QED
    BY <1>1, TypeInvariant, PTL

-----------------------------------------------------------------------------
(* Completeness of the backups *)

\* A runner about to report success has published its manifest.
SuccessIsEarned ==
    \A p \in Pid : At(p) = "succeed" => Job(p) \in manifests

CompleteInv == BackupsAreComplete /\ SuccessIsEarned

\* What is to be shown of a step of p.
LEMMA CompleteFrame ==
    ASSUME CompleteInv, NEW p \in Pid,
           archives \subseteq archives', manifests \subseteq manifests',
           manifests' \ manifests \subseteq archives',
           \A o \in Operation :
              \/ receipt'[o] = receipt[o]
              \/ receipt'[o].status = "SUCCEEDED" => o \in manifests',
           \A q \in Pid \ {p} : proc'[q] = proc[q],
           proc'[p].at = "succeed" => proc'[p].job \in manifests'
    PROVE  CompleteInv'
  <1>1. BackupsAreComplete'
    BY DEF CompleteInv, BackupsAreComplete
  <1>2. SuccessIsEarned'
    BY DEF CompleteInv, SuccessIsEarned, At, Job
  <1> QED
    BY <1>1, <1>2 DEF CompleteInv

\* A step that writes no receipt and publishes nothing.
LEMMA NothingPublished ==
    ASSUME CompleteInv, NEW p \in Pid,
           UNCHANGED <<receipt, archives, manifests>>,
           \A q \in Pid \ {p} : proc'[q] = proc[q],
           proc'[p].at # "succeed"
    PROVE  CompleteInv'
  BY CompleteFrame

\* Where Goto leads, whatever the task.
LEMMA GotoAt ==
    ASSUME TypeOK, NEW p \in Pid, At(p) \notin {"dead", "serving"},
           NEW at, Goto(p, at)
    PROVE  /\ proc'[p].at = at /\ proc'[p].job = Job(p)
           /\ \A q \in Pid \ {p} : proc'[q] = proc[q]
  <1>1. proc[p] \in StartupTask \cup CreateTask
    BY DEF TypeOK, At, Dead, Serving
  <1>2. proc' = [proc EXCEPT ![p] = [proc[p] EXCEPT !.at = at]]
    BY DEF Goto, Become
  <1> QED
    BY <1>1, <1>2 DEF StartupTask, CreateTask, Job, TypeOK

\* Neither the lease nor a new request leads into the pipeline.
LEMMA LeaseNeverSucceeds ==
    ASSUME TypeOK, NEW p \in Pid,
           \/ Boot(p) \/ ReadLease(p) \/ CheckOwner(p) \/ UnlinkInfo(p)
           \/ ReclaimLease(p) \/ MakeLock(p) \/ OpenInfo(p) \/ WriteInfo(p)
           \/ ReleaseLease(p) \/ LeaseError(p)
           \/ \E o \in Operation : BeginCreate(p, o)
    PROVE  /\ proc'[p].at # "succeed"
           /\ \A q \in Pid \ {p} : proc'[q] = proc[q]
           /\ UNCHANGED <<receipt, archives, manifests>>
  <1>a. UNCHANGED <<receipt, archives, manifests>>
    BY DEF Boot, ReadLease, CheckOwner, UnlinkInfo, ReclaimLease, MakeLock,
       OpenInfo, WriteInfo, ReleaseLease, LeaseError, BeginCreate, files
  <1>1. ASSUME At(p) \notin {"dead", "serving"},
               NEW at \in {"mkdir", "unlink", "rmdir", "leave", "info", "write",
                           "accept"},
               Goto(p, at)
        PROVE  /\ proc'[p].at # "succeed"
               /\ \A q \in Pid \ {p} : proc'[q] = proc[q]
    BY <1>1, GotoAt
  <1>2. CASE GiveUp(p)
    BY <1>a, <1>2, GiveUpType DEF Dead, Serving
  <1>3. CASE Boot(p)
    BY <1>3, <1>a DEF Boot, Become, TypeOK
  <1>4. CASE ReadLease(p)
    <2>1. proc[p] \in StartupTask
      BY <1>4, TaskKind DEF ReadLease, Reclaiming
    <2>2. CASE Become(p, [proc[p] EXCEPT !.at = "check", !.owner = lock])
      BY <1>a, <2>1, <2>2 DEF Become, StartupTask, TypeOK
    <2> QED
      BY <1>1, <1>2, <1>4, <1>a, <2>2 DEF ReadLease
  <1>5. CASE CheckOwner(p) \/ UnlinkInfo(p) \/ ReclaimLease(p)
    <2>1. \E at \in {"mkdir", "unlink", "rmdir", "leave"} : Goto(p, at)
      BY <1>5 DEF CheckOwner, UnlinkInfo, ReclaimLease
    <2>2. At(p) \notin {"dead", "serving"}
      BY <1>5 DEF CheckOwner, UnlinkInfo, ReclaimLease
    <2> QED
      BY <1>1, <1>a, <2>1, <2>2
  <1>6. CASE MakeLock(p) \/ OpenInfo(p)
    BY <1>1, <1>2, <1>6, <1>a DEF MakeLock, OpenInfo
  <1>7. CASE WriteInfo(p)
    <2>1. proc[p] \in StartupTask \cup CreateTask
      BY <1>7, TaskKind DEF WriteInfo, Leasing
    <2>2. CASE Job(p) = Startup
      <3> DEFINE left == {o \in Operation : receipt[o] # NoReceipt}
      <3>1. Become(p, [proc[p] EXCEPT !.at = "reconcile", !.left = left])
        BY <1>7, <2>2 DEF WriteInfo
      <3> HIDE DEF left
      <3> QED
        BY <1>a, <2>1, <3>1 DEF Become, StartupTask, CreateTask, TypeOK
    <2>3. CASE Job(p) # Startup
      BY <1>1, <1>7, <1>a, <2>3 DEF WriteInfo
    <2> QED
      BY <2>2, <2>3
  <1>8. CASE ReleaseLease(p)
    BY <1>8, <1>a DEF ReleaseLease, Become, TypeOK, Dead, Serving
  <1>9. CASE LeaseError(p)
    BY <1>2, <1>9 DEF LeaseError
  <1>10. ASSUME NEW o \in Operation, BeginCreate(p, o)
         PROVE  /\ proc'[p].at # "succeed"
                /\ \A q \in Pid \ {p} : proc'[q] = proc[q]
    BY <1>10 DEF BeginCreate, Become, TypeOK
  <1> QED
    BY <1>3, <1>4, <1>5, <1>6, <1>7, <1>8, <1>9, <1>10, <1>a

LEMMA StepComplete == TypeInv /\ CompleteInv /\ [Next]_vars => CompleteInv'
  <1> SUFFICES ASSUME TypeInv, CompleteInv, [Next]_vars PROVE CompleteInv'
    OBVIOUS
  <1> USE DEF TypeInv
  <1>1. ASSUME NEW p \in Pid,
               \/ Boot(p) \/ ReadLease(p) \/ CheckOwner(p) \/ UnlinkInfo(p)
               \/ ReclaimLease(p) \/ MakeLock(p) \/ OpenInfo(p) \/ WriteInfo(p)
               \/ ReleaseLease(p) \/ LeaseError(p)
               \/ \E o \in Operation : BeginCreate(p, o)
        PROVE  CompleteInv'
    BY <1>1, LeaseNeverSucceeds, NothingPublished
  <1>2. ASSUME NEW p \in Pid, NEW o \in Operation, Reconcile(p, o)
        PROVE  CompleteInv'
    <2>1. proc[p] \in StartupTask
      BY <1>2, TaskKind DEF Reconcile
    <2>2. /\ proc'[p].at = "reconcile"
          /\ \A q \in Pid \ {p} : proc'[q] = proc[q]
      BY <1>2, <2>1 DEF Reconcile, Become, At, StartupTask, TypeOK
    <2>3. \A q \in Operation :
             \/ receipt'[q] = receipt[q]
             \/ receipt'[q].status = "SUCCEEDED" => q \in manifests
      <3>1. CASE Settled(o)
        BY <1>2, <3>1 DEF Reconcile
      <3>2. CASE ~Settled(o)
        <4>1. receipt' = [receipt EXCEPT ![o] = Reconciled(o)]
          BY <1>2, <3>2 DEF Reconcile
        <4> QED
          BY <3>2, <4>1, ReconciledType DEF TypeOK, Published
      <3> QED
        BY <3>1, <3>2
    <2> QED
      BY <1>2, <2>2, <2>3, CompleteFrame DEF Reconcile
  <1>3. ASSUME NEW p \in Pid, CleanTemps(p)
        PROVE  CompleteInv'
    <2>1. At(p) = "reconcile"
      BY <1>3 DEF CleanTemps
    <2>2. UNCHANGED proc \/ Goto(p, "release")
      BY <1>3 DEF CleanTemps
    <2>3. /\ proc'[p].at # "succeed"
          /\ \A q \in Pid \ {p} : proc'[q] = proc[q]
      BY <2>1, <2>2, GotoAt DEF At
    <2> QED
      BY <1>3, <2>3, NothingPublished DEF CleanTemps
  <1>4. ASSUME NEW p \in Pid, NEW at \in Running, NEW status \in Status,
               NEW stage \in Stage, NEW next \in Running,
               Transition(p, at, status, stage, next), next # "succeed",
               status = "SUCCEEDED" => Job(p) \in manifests
        PROVE  CompleteInv'
    <2>1. /\ Job(p) \in Operation
          /\ proc'[p].at = next
          /\ \A q \in Pid \ {p} : proc'[q] = proc[q]
      BY <1>4, RunnerGoto DEF Transition
    <2>2. /\ receipt'[Job(p)] = [status |-> status, stage |-> stage]
          /\ \A q \in Operation \ {Job(p)} : receipt'[q] = receipt[q]
      BY <1>4, <2>1, PersistType DEF Transition
    <2> QED
      BY <1>4, <2>1, <2>2, CompleteFrame DEF Transition
  <1>5. ASSUME NEW p \in Pid, Accept(p) \/ TransitionStage(p)
        PROVE  CompleteInv'
    <2>1. Accept(p) => Transition(p, "accept", "ACCEPTED", "none", "run")
      BY DEF Accept, Transition
    <2>2. Transition(p, "succeed", "SUCCEEDED", "PUBLISHING", "tidy")
             => Job(p) \in manifests
      BY DEF Transition, CompleteInv, SuccessIsEarned
    <2> QED
      BY <1>4, <1>5, <2>1, <2>2
         DEF TransitionStage, Running, Pipeline, Status, Stage
  <1>6. ASSUME NEW p \in Pid, FailOperation(p)
        PROVE  CompleteInv'
    <2>1. Job(p) \in Operation /\ receipt[Job(p)] # NoReceipt
      BY <1>6, TaskKind DEF FailOperation, RunnersHaveReceipts, Running, CreateTask, Job
    <2>2. receipt[Job(p)].stage \in Stage
      BY <2>1 DEF TypeOK
    <2>3. Transition(p, "fail", "FAILED", receipt[Job(p)].stage, "tidy")
      BY <1>6 DEF FailOperation, Transition
    <2> QED
      BY <1>4, <2>2, <2>3 DEF Status, Running
  <1>7. ASSUME NEW p \in Pid,
               \/ Dump(p) \/ RemoveDump(p)
               \/ PipelineError(p) \/ FailUnrecorded(p)
        PROVE  CompleteInv'
    <2>1. At(p) \notin {"dead", "serving"}
      BY <1>7 DEF Dump, RemoveDump, PipelineError, FailUnrecorded, Pipeline
    <2>2. PICK at \in {"hash", "release", "fail", "tidy"} : Goto(p, at)
      BY <1>7 DEF Dump, RemoveDump, PipelineError, FailUnrecorded
    <2>3. /\ proc'[p].at # "succeed"
          /\ \A q \in Pid \ {p} : proc'[q] = proc[q]
      BY <2>1, <2>2, GotoAt
    <2> QED
      BY <1>7, <2>3, NothingPublished
         DEF Dump, RemoveDump, PipelineError, FailUnrecorded
  <1>8. ASSUME NEW p \in Pid, PublishArchive(p)
        PROVE  CompleteInv'
    <2>1. PICK at \in {"publish", "fail"} : Goto(p, at)
      BY <1>8 DEF PublishArchive
    <2>2. /\ proc'[p].at # "succeed"
          /\ \A q \in Pid \ {p} : proc'[q] = proc[q]
      BY <1>8, <2>1, GotoAt DEF PublishArchive
    <2>3. archives \subseteq archives' /\ UNCHANGED <<receipt, manifests>>
      BY <1>8 DEF PublishArchive
    <2> QED
      BY <2>2, <2>3, CompleteFrame
  <1>9. ASSUME NEW p \in Pid, PublishManifest(p)
        PROVE  CompleteInv'
    <2>1. /\ proc'[p].job = Job(p)
          /\ \A q \in Pid \ {p} : proc'[q] = proc[q]
      BY <1>9, GotoAt DEF PublishManifest
    <2>2. /\ UNCHANGED <<receipt, archives>>
          /\ manifests' = manifests \cup {Job(p)}
          /\ Job(p) \in archives
      BY <1>9 DEF PublishManifest
    <2> QED
      BY <2>1, <2>2, CompleteFrame
  <1>10. ASSUME NEW p \in Pid, PersistError(p) \/ Kill(p)
         PROVE  CompleteInv'
    <2>1. \E s : Become(p, s)
      BY <1>10 DEF PersistError, Kill
    <2>2. \A q \in Pid \ {p} : proc'[q] = proc[q]
      BY <2>1 DEF Become, TypeOK
    <2>3. CASE Kill(p)
      BY <2>2, <2>3, NothingPublished DEF Kill, Become, TypeOK, Dead
    <2>4. CASE PersistError(p)
      <3>1. proc[p] \in StartupTask \cup CreateTask
        BY <2>4, TaskKind DEF PersistError, Running
      <3>2. proc'[p].at = "release"
        BY <2>4, <3>1 DEF PersistError, Become, StartupTask, CreateTask, TypeOK
      <3> QED
        BY <2>2, <2>4, <3>2, NothingPublished DEF PersistError
    <2> QED
      BY <1>10, <2>3, <2>4
  <1>11. ASSUME NEW p \in Pid, NEW o \in Operation, SkipReceipt(p, o)
         PROVE  CompleteInv'
    <2>1. proc[p] \in StartupTask
      BY <1>11, TaskKind DEF SkipReceipt
    <2>2. /\ proc'[p].at = "reconcile"
          /\ \A q \in Pid \ {p} : proc'[q] = proc[q]
      BY <1>11, <2>1 DEF SkipReceipt, Become, At, StartupTask, TypeOK
    <2> QED
      BY <1>11, <2>2, NothingPublished DEF SkipReceipt, files
  <1>12. CASE UNCHANGED vars
    BY <1>12 DEF vars, files, CompleteInv, BackupsAreComplete, SuccessIsEarned, At, Job
  <1> QED
    BY <1>1, <1>2, <1>3, <1>5, <1>6, <1>7, <1>8, <1>9, <1>10, <1>11,
       <1>12 DEF Next, Step

\* Whatever is killed or fails, and however many processes meet, a SUCCEEDED
\* receipt has a manifest and a manifest has its archive.
THEOREM BackupsComplete == Spec => []BackupsAreComplete
  <1>1. Init => CompleteInv
    BY DEF Init, CompleteInv, BackupsAreComplete, SuccessIsEarned, At, Dead, NoReceipt
  <1>2. TypeInv /\ CompleteInv /\ [Next]_vars => CompleteInv'
    BY StepComplete
  <1>3. CompleteInv => BackupsAreComplete
    BY DEF CompleteInv
  <1> QED
    BY <1>1, <1>2, <1>3, TypeInvariant, PTL DEF Spec

-----------------------------------------------------------------------------
(* What a step of a process may do, apart from the archives and manifests  *)

Tasked(p) == At(p) \notin {"dead", "serving"}
GoesOn(p, at) == Tasked(p) /\ proc'[p].at = at /\ proc'[p].job = Job(p)
Books == <<receipt, temps>>

Boots(p) ==
    /\ At(p) = "dead" /\ proc'[p].at = "read" /\ proc'[p].job = Startup
    /\ Cardinality(Alive) < MaxAlive /\ Cardinality(Starting) < MaxStarting
    /\ UNCHANGED <<lock, holder, Books>>

Requests(p) ==
    LET o == proc'[p].job
    IN  /\ At(p) = "serving" /\ proc'[p].at = "mkdir"
        /\ o \in Operation /\ receipt[o] = NoReceipt
        /\ \A q \in Pid : Tasked(q) => Job(q) # o
        /\ UNCHANGED <<lock, holder, Books>>

\* Gives up, or is killed.
Stops(p) ==
    /\ At(p) # "dead" /\ proc'[p] \in {Dead, Serving}
    /\ Tasked(p) /\ Job(p) = Startup => proc'[p] = Dead
    /\ At(p) \notin Running \cup {"reconcile"} => UNCHANGED temps
    /\ UNCHANGED <<lock, holder, receipt>>

Reads(p) ==
    /\ At(p) = "read"
    /\ \/ GoesOn(p, "mkdir")
       \/ GoesOn(p, "check") /\ lock \in Pid /\ proc'[p].owner = lock
    /\ UNCHANGED <<lock, holder, Books>>

Checks(p) ==
    /\ At(p) = "check"
    /\ GoesOn(p, IF proc[p].owner \in Alive THEN "mkdir" ELSE "unlink")
    /\ UNCHANGED <<lock, holder, Books>>

Makes(p) ==
    /\ At(p) = "mkdir" /\ GoesOn(p, "info")
    /\ lock = "free" /\ lock' = "bare" /\ holder' = p
    /\ UNCHANGED Books

Opens(p) ==
    /\ At(p) = "info" /\ GoesOn(p, "write")
    /\ lock' = "torn"
    /\ UNCHANGED <<holder, Books>>

Writes(p) ==
    /\ At(p) = "write"
    /\ lock' = IF lock = "torn" THEN p ELSE lock
    /\ \/ /\ Job(p) = Startup /\ GoesOn(p, "reconcile")
          /\ proc'[p].left = {o \in Operation : receipt[o] # NoReceipt}
       \/ Job(p) # Startup /\ GoesOn(p, "accept")
    /\ UNCHANGED <<holder, Books>>

Unlinks(p) ==
    /\ \/ At(p) = "unlink" /\ GoesOn(p, "rmdir")
       \/ /\ At(p) = "release" /\ GoesOn(p, "leave")
          /\ proc'[p].skipped = proc[p].skipped
          /\ proc'[p].failed = proc[p].failed
    /\ lock' = IF lock = "free" THEN "free" ELSE "bare"
    /\ UNCHANGED <<holder, Books>>

Removes(p) ==
    /\ \/ At(p) = "rmdir" /\ GoesOn(p, "mkdir")
       \/ /\ At(p) = "leave"
          /\ proc'[p] = IF proc[p].failed THEN Dead ELSE Serving
    /\ RemoveLock
    /\ UNCHANGED Books

Reconciles(p) ==
    /\ At(p) = "reconcile" /\ Job(p) = Startup
    /\ \/ \E o \in Operation :
             /\ GoesOn(p, "reconcile")
             /\ proc'[p].left = proc[p].left \ {o}
             /\ \/ /\ proc'[p].skipped = proc[p].skipped
                   /\ receipt' = IF Settled(o) THEN receipt
                                 ELSE [receipt EXCEPT ![o] = Reconciled(o)]
                \/ /\ proc'[p].skipped = proc[p].skipped \cup {o}
                   /\ UNCHANGED receipt
       \/ proc'[p] = proc[p] /\ UNCHANGED receipt
       \/ /\ GoesOn(p, "release") /\ UNCHANGED receipt
          /\ \/ proc'[p].failed
             \/ /\ proc'[p].skipped = proc[p].skipped
                /\ proc[p].left = {} /\ temps' = {}
    /\ UNCHANGED <<lock, holder>>

Runs(p) ==
    /\ At(p) \in Running /\ Job(p) \in Operation
    /\ \/ UNCHANGED receipt /\ GoesOn(p, "release")
       \/ /\ At(p) \in Pipeline \cup {"fail"} /\ UNCHANGED receipt
          /\ \E at \in Pipeline \cup {"fail", "tidy"} : GoesOn(p, at)
       \/ /\ At(p) \in Pipeline \cup {"accept", "fail"}
          /\ \E status \in Status, stage \in Stage :
                /\ Persist(Job(p), status, stage)
                /\ \/ GoesOn(p, "tidy")
                   \/ status \notin Terminal /\ \E at \in Pipeline : GoesOn(p, at)
    /\ UNCHANGED <<lock, holder>>

Moves(p) ==
    /\ \A q \in Pid \ {p} : proc'[q] = proc[q]
    /\ \/ Boots(p) \/ Requests(p) \/ Stops(p) \/ Reads(p) \/ Checks(p)
       \/ Makes(p) \/ Opens(p) \/ Writes(p) \/ Unlinks(p) \/ Removes(p)
       \/ Reconciles(p) \/ Runs(p)

\* Goto inside a task, in these terms.
LEMMA GotoGoesOn ==
    ASSUME TypeOK, NEW p \in Pid, Tasked(p), NEW at, Goto(p, at)
    PROVE  /\ GoesOn(p, at)
           /\ proc'[p].skipped = proc[p].skipped /\ proc'[p].failed = proc[p].failed
           /\ \A q \in Pid \ {p} : proc'[q] = proc[q]
  <1>1. proc[p] \in StartupTask \cup CreateTask
    BY DEF TypeOK, At, Dead, Serving, Tasked
  <1>2. proc' = [proc EXCEPT ![p] = [proc[p] EXCEPT !.at = at]]
    BY DEF Goto, Become
  <1> QED
    BY <1>1, <1>2 DEF StartupTask, CreateTask, Job, TypeOK, GoesOn

LEMMA GiveUpStops ==
    ASSUME TypeOK, NEW p \in Pid, Tasked(p), GiveUp(p),
           UNCHANGED <<lock, holder, receipt, temps>>
    PROVE  Moves(p)
  BY DEF GiveUp, Become, TypeOK, Moves, Stops, Tasked

LEMMA LeaseMoves ==
    ASSUME TypeInv, NEW p \in Pid,
           \/ ReadLease(p) \/ CheckOwner(p) \/ UnlinkInfo(p)
           \/ ReclaimLease(p) \/ MakeLock(p) \/ OpenInfo(p) \/ WriteInfo(p)
           \/ ReleaseLease(p) \/ LeaseError(p)
    PROVE  Moves(p)
  <1>a. TypeOK /\ Tasked(p) /\ UNCHANGED Books
    BY DEF TypeInv, Tasked, ReadLease, CheckOwner, UnlinkInfo, ReclaimLease, MakeLock,
       OpenInfo, WriteInfo, ReleaseLease, LeaseError, files, Books
  <1>b. proc[p] \in StartupTask \cup CreateTask
    BY <1>a DEF TypeOK, At, Dead, Serving, Tasked
  <1>1. CASE ReadLease(p)
    <2>1. CASE Goto(p, "mkdir")
      BY <1>a, <1>1, <2>1, GotoGoesOn DEF ReadLease, Moves, Reads
    <2>2. CASE GiveUp(p)
      BY <1>a, <1>1, <2>2, GiveUpStops DEF ReadLease, Books
    <2>3. CASE /\ lock \notin Unowned
               /\ Become(p, [proc[p] EXCEPT !.at = "check", !.owner = lock])
      <3>1. lock \in Pid
        BY <1>a, <2>3 DEF TypeOK
      <3>2. /\ GoesOn(p, "check") /\ proc'[p].owner = lock
            /\ \A q \in Pid \ {p} : proc'[q] = proc[q]
        BY <1>a, <1>b, <2>3
           DEF Become, StartupTask, CreateTask, TypeOK, GoesOn, Job
      <3> QED
        BY <1>a, <1>1, <3>1, <3>2 DEF ReadLease, Moves, Reads
    <2> QED
      BY <1>1, <2>1, <2>2, <2>3 DEF ReadLease, Unowned
  <1>2. CASE CheckOwner(p)
    BY <1>a, <1>2, GotoGoesOn DEF CheckOwner, ConfirmedDead, Moves, Checks
  <1>3. CASE UnlinkInfo(p)
    BY <1>a, <1>3, GotoGoesOn DEF UnlinkInfo, Moves, Unlinks
  <1>4. CASE ReclaimLease(p)
    BY <1>a, <1>4, GotoGoesOn DEF ReclaimLease, Moves, Removes
  <1>5. CASE MakeLock(p)
    <2>1. CASE lock = "free"
      BY <1>a, <1>5, <2>1, GotoGoesOn DEF MakeLock, Moves, Makes
    <2>2. CASE lock # "free"
      BY <1>a, <1>5, <2>2, GiveUpStops DEF MakeLock, Books
    <2> QED
      BY <2>1, <2>2
  <1>6. CASE OpenInfo(p)
    <2>1. CASE lock = "free"
      BY <1>a, <1>6, <2>1, GiveUpStops DEF OpenInfo, Books
    <2>2. CASE lock # "free"
      BY <1>a, <1>6, <2>2, GotoGoesOn DEF OpenInfo, Moves, Opens
    <2> QED
      BY <2>1, <2>2
  <1>7. CASE WriteInfo(p)
    <2>1. CASE Job(p) = Startup
      <3> DEFINE left == {o \in Operation : receipt[o] # NoReceipt}
      <3>1. Become(p, [proc[p] EXCEPT !.at = "reconcile", !.left = left])
        BY <1>7, <2>1 DEF WriteInfo
      <3>2. /\ GoesOn(p, "reconcile") /\ proc'[p].left = left
            /\ \A q \in Pid \ {p} : proc'[q] = proc[q]
        <4> HIDE DEF left
        <4> QED
          BY <1>a, <1>b, <3>1
             DEF Become, StartupTask, CreateTask, TypeOK, GoesOn, Job
      <3> QED
        BY <1>a, <1>7, <2>1, <3>2 DEF WriteInfo, Moves, Writes
    <2>2. CASE Job(p) # Startup
      BY <1>a, <1>7, <2>2, GotoGoesOn DEF WriteInfo, Moves, Writes
    <2> QED
      BY <2>1, <2>2
  <1>8. CASE ReleaseLease(p)
    <2>1. /\ proc'[p] = IF proc[p].failed THEN Dead ELSE Serving
          /\ \A q \in Pid \ {p} : proc'[q] = proc[q]
      BY <1>a, <1>8 DEF ReleaseLease, Become, TypeOK
    <2> QED
      BY <1>a, <1>8, <2>1 DEF ReleaseLease, Moves, Removes
  <1>9. CASE LeaseError(p)
    BY <1>a, <1>9, GiveUpStops DEF LeaseError, Books
  <1> QED
    BY <1>1, <1>2, <1>3, <1>4, <1>5, <1>6, <1>7, <1>8, <1>9

\* A process starts, begins a request, or is killed.
LEMMA LifeMoves ==
    ASSUME TypeInv, NEW p \in Pid,
           Boot(p) \/ Kill(p) \/ \E o \in Operation : BeginCreate(p, o)
    PROVE  Moves(p)
  <1>a. TypeOK
    BY DEF TypeInv
  <1>1. CASE Boot(p)
    <2>1. /\ proc'[p].at = "read" /\ proc'[p].job = Startup
          /\ \A q \in Pid \ {p} : proc'[q] = proc[q]
      BY <1>a, <1>1 DEF Boot, Become, TypeOK
    <2> QED
      BY <1>1, <2>1 DEF Boot, Moves, Boots, files, Books
  <1>2. CASE Kill(p)
    <2>1. /\ proc'[p] = Dead
          /\ \A q \in Pid \ {p} : proc'[q] = proc[q]
      BY <1>a, <1>2 DEF Kill, Become, TypeOK
    <2>2. At(p) \notin Running \cup {"reconcile"} => UNCHANGED temps
      BY <1>2 DEF Kill, Litter, Written, Running, Pipeline
    <2> QED
      BY <1>2, <2>1, <2>2 DEF Kill, Moves, Stops
  <1>3. ASSUME NEW o \in Operation, BeginCreate(p, o)
        PROVE  Moves(p)
    <2>1. /\ proc'[p].at = "mkdir" /\ proc'[p].job = o
          /\ \A q \in Pid \ {p} : proc'[q] = proc[q]
      BY <1>a, <1>3 DEF BeginCreate, Become, TypeOK
    <2> QED
      BY <1>3, <2>1 DEF BeginCreate, Moves, Requests, Tasked, files, Books
  <1> QED
    BY <1>1, <1>2, <1>3

LEMMA ReconcileMoves ==
    ASSUME TypeInv, NEW p \in Pid,
           \/ \E o \in Operation : Reconcile(p, o) \/ SkipReceipt(p, o)
           \/ CleanTemps(p)
    PROVE  Moves(p)
  <1>a. TypeOK /\ At(p) = "reconcile" /\ Tasked(p)
    BY DEF TypeInv, Reconcile, SkipReceipt, CleanTemps, Tasked
  <1>b. proc[p] \in StartupTask /\ Job(p) = Startup
    BY <1>a, TaskKind DEF StartupTask, Job
  <1>1. ASSUME NEW o \in Operation, Reconcile(p, o)
        PROVE  Moves(p)
    <2>1. /\ GoesOn(p, "reconcile") /\ proc'[p].left = proc[p].left \ {o}
          /\ proc'[p].skipped = proc[p].skipped
          /\ \A q \in Pid \ {p} : proc'[q] = proc[q]
      BY <1>a, <1>b, <1>1
         DEF Reconcile, Become, StartupTask, TypeOK, GoesOn, Job, At
    <2> QED
      BY <1>a, <1>b, <1>1, <2>1 DEF Reconcile, Moves, Reconciles
  <1>2. ASSUME NEW o \in Operation, SkipReceipt(p, o)
        PROVE  Moves(p)
    <2>1. /\ GoesOn(p, "reconcile") /\ proc'[p].left = proc[p].left \ {o}
          /\ proc'[p].skipped = proc[p].skipped \cup {o}
          /\ \A q \in Pid \ {p} : proc'[q] = proc[q]
      BY <1>a, <1>b, <1>2
         DEF SkipReceipt, Become, StartupTask, TypeOK, GoesOn, Job, At
    <2> QED
      BY <1>a, <1>b, <1>2, <2>1 DEF SkipReceipt, Moves, Reconciles, files
  <1>3. CASE CleanTemps(p)
    <2>1. CASE UNCHANGED proc
      BY <1>a, <1>b, <1>3, <2>1 DEF CleanTemps, Moves, Reconciles
    <2>2. CASE temps = {} /\ UNCHANGED temps /\ Goto(p, "release")
      BY <1>a, <1>b, <1>3, <2>2, GotoGoesOn DEF CleanTemps, Moves, Reconciles
    <2> QED
      BY <1>3, <2>1, <2>2 DEF CleanTemps
  <1> QED
    BY <1>1, <1>2, <1>3

LEMMA RunnerMoves ==
    ASSUME TypeInv, NEW p \in Pid,
           \/ Accept(p) \/ TransitionStage(p) \/ Dump(p) \/ PublishArchive(p)
           \/ PublishManifest(p) \/ FailOperation(p) \/ RemoveDump(p)
           \/ PipelineError(p) \/ PersistError(p) \/ FailUnrecorded(p)
    PROVE  Moves(p)
  <1>a. TypeOK
    BY DEF TypeInv
  <1>b. ASSUME At(p) \in Running
        PROVE  Job(p) \in Operation /\ Tasked(p) /\ proc[p] \in CreateTask
    BY <1>a, <1>b, TaskKind DEF CreateTask, Job, Tasked, Running, Pipeline
  <1>1. ASSUME NEW at \in Pipeline \cup {"accept", "fail"}, NEW status \in Status,
               NEW stage \in Stage, NEW next, Transition(p, at, status, stage, next),
               next = "tidy" \/ (status \notin Terminal /\ next \in Pipeline)
        PROVE  Moves(p)
    <2>1. At(p) \in Running
      BY <1>1 DEF Transition, Running
    <2>2. GoesOn(p, next) /\ \A q \in Pid \ {p} : proc'[q] = proc[q]
      BY <1>a, <1>b, <1>1, <2>1, GotoGoesOn DEF Transition
    <2> QED
      BY <1>b, <1>1, <2>1, <2>2 DEF Transition, Moves, Runs
  <1>2. CASE Accept(p) \/ TransitionStage(p)
    <2>1. Accept(p) => Transition(p, "accept", "ACCEPTED", "none", "run")
      BY DEF Accept, Transition
    <2> QED
      BY <1>1, <1>2, <2>1 DEF TransitionStage, Pipeline, Status, Stage, Terminal
  <1>3. CASE FailOperation(p)
    <2>1. receipt[Job(p)].stage \in Stage
      <3>1. At(p) \in Running /\ At(p) \in Pipeline \cup {"fail"}
        BY <1>3 DEF FailOperation, Running
      <3>2. receipt[Job(p)] # NoReceipt
        BY <3>1 DEF TypeInv, RunnersHaveReceipts
      <3> QED
        BY <1>a, <1>b, <3>1, <3>2 DEF TypeOK
    <2>2. Transition(p, "fail", "FAILED", receipt[Job(p)].stage, "tidy")
      BY <1>3 DEF FailOperation, Transition
    <2> QED
      BY <1>1, <2>1, <2>2 DEF Status
  <1>4. CASE \/ Dump(p) \/ PublishArchive(p) \/ PublishManifest(p)
             \/ PipelineError(p) \/ FailUnrecorded(p)
    <2>1. /\ At(p) \in Pipeline \cup {"fail"}
          /\ UNCHANGED <<receipt, lock, holder>>
      BY <1>4 DEF Dump, PublishArchive, PublishManifest, PipelineError,
         FailUnrecorded, Pipeline
    <2>2. PICK at \in Pipeline \cup {"fail", "tidy"} : Goto(p, at)
      BY <1>4 DEF Dump, PublishArchive, PublishManifest, PipelineError,
         FailUnrecorded, Pipeline
    <2>3. At(p) \in Running
      BY <2>1 DEF Running
    <2>4. GoesOn(p, at) /\ \A q \in Pid \ {p} : proc'[q] = proc[q]
      BY <1>a, <1>b, <2>2, <2>3, GotoGoesOn
    <2> QED
      BY <1>b, <2>1, <2>3, <2>4 DEF Moves, Runs
  <1>5. CASE RemoveDump(p)
    <2>1. At(p) \in Running
      BY <1>5 DEF RemoveDump, Running
    <2>2. GoesOn(p, "release") /\ \A q \in Pid \ {p} : proc'[q] = proc[q]
      BY <1>a, <1>b, <1>5, <2>1, GotoGoesOn DEF RemoveDump
    <2> QED
      BY <1>b, <1>5, <2>1, <2>2 DEF RemoveDump, Moves, Runs
  <1>6. CASE PersistError(p)
    <2>1. proc[p] \in StartupTask \cup CreateTask /\ Tasked(p)
      BY <1>a, <1>6, TaskKind DEF PersistError, Running, Tasked
    <2>2. /\ GoesOn(p, "release") /\ proc'[p].failed = (Job(p) = Startup)
          /\ \A q \in Pid \ {p} : proc'[q] = proc[q]
      BY <1>a, <1>6, <2>1
         DEF PersistError, Become, StartupTask, CreateTask, TypeOK, GoesOn, Job
    <2>3. CASE At(p) = "reconcile"
      <3>1. Job(p) = Startup
        BY <1>a, <2>3, TaskKind DEF StartupTask, Job
      <3> QED
        BY <1>6, <2>2, <2>3, <3>1 DEF PersistError, Moves, Reconciles
    <2>4. CASE At(p) = "accept"
      <3>1. At(p) \in Running
        BY <2>4 DEF Running
      <3> QED
        BY <1>b, <1>6, <2>2, <3>1 DEF PersistError, Moves, Runs
    <2> QED
      BY <1>6, <2>3, <2>4 DEF PersistError
  <1> QED
    BY <1>2, <1>3, <1>4, <1>5, <1>6

LEMMA NextMoves ==
    ASSUME TypeInv, [Next]_vars
    PROVE  (\E p \in Pid : Moves(p)) \/ UNCHANGED vars
  BY LeaseMoves, LifeMoves, ReconcileMoves, RunnerMoves DEF Next, Step

-----------------------------------------------------------------------------
(* The lease.  A startup removes the lock by its path some time after it   *)
(* read the owner, so that it removes the lock it judged is true only of a *)
(* deployment like the following: one process starts at a time, beside at  *)
(* most one that still runs.                                               *)

RollingDeployment == MaxAlive <= 2 /\ MaxStarting <= 1

CrewInv ==
    /\ IsFiniteSet(Alive)
    /\ \A p, q \in Starting : p = q
    /\ \A p, q, r \in Alive : p = q \/ q = r \/ p = r

\* What the process does agrees with what the lock says.
Owns(p) ==
    /\ At(p) \in Holding => holder = p
    /\ At(p) \in {"info", "leave"} => lock = "bare"
    /\ At(p) = "write" => lock = "torn"
    /\ At(p) \in Running \cup {"reconcile", "release"} => lock = p

\* The lock a startup has read: its owner is dead or the startup itself, and
\* holds it still; or else there is nobody but those two.
Judges(p) ==
    LET owner == proc[p].owner
    IN  \/ holder = owner /\ owner \in Pid /\ owner \notin Alive \ {p}
        \/ holder \in {owner, Nobody} /\ Alive \subseteq {p, owner}

\* The lock a startup is removing has no live owner and will get no new one.
Reclaims(p) ==
    /\ holder \notin Alive
    /\ holder = Nobody => Alive \subseteq {p}

LeaseInv ==
    /\ CrewInv
    /\ lock = "free" <=> holder = Nobody
    /\ lock \in Pid => holder = lock
    /\ \A p \in Pid : /\ Owns(p)
                      /\ At(p) = "check" => Judges(p)
                      /\ At(p) \in {"unlink", "rmdir"} => Reclaims(p)

LEMMA AtMostOne ==
    ASSUME NEW S, IsFiniteSet(S), Cardinality(S) < 2
    PROVE  \A x, y \in S : x = y
  <1> SUFFICES ASSUME NEW x \in S, NEW y \in S, x # y PROVE FALSE
    OBVIOUS
  <1>1. IsFiniteSet(S \ {x}) /\ Cardinality(S \ {x}) = Cardinality(S) - 1
    BY FS_RemoveElement
  <1>2. Cardinality(S) \in Nat /\ Cardinality(S \ {x}) \in Nat
    BY <1>1, FS_CardinalityType
  <1>3. Cardinality(S \ {x}) = 0
    BY <1>1, <1>2
  <1> QED
    BY <1>1, <1>3, FS_EmptySet

\* Startups are among the tasks of live processes, and a lease is held by one.
LEMMA Places ==
    ASSUME TypeInv, NEW p \in Pid
    PROVE  /\ p \in Alive <=> At(p) # "dead"
           /\ p \in Starting <=> Tasked(p) /\ Job(p) = Startup
           /\ At(p) \in Reclaiming \cup {"reconcile"} => p \in Starting
           /\ At(p) \in Holding => Tasked(p)
  <1>1. At(p) \in Reclaiming \cup {"reconcile"} => Job(p) = Startup /\ Tasked(p)
    BY TaskKind DEF TypeInv, StartupTask, Job, Tasked, Reclaiming
  <1> QED
    BY <1>1 DEF Alive, Starting, Tasked, Holding, Running, Pipeline, Leasing, Job

\* How a step changes who is alive and who is starting.
LEMMA CrewMoves ==
    ASSUME TypeInv, NEW p \in Pid, Moves(p)
    PROVE  /\ Boots(p) => Alive' = Alive \cup {p} /\ Starting' = Starting \cup {p}
           /\ ~Boots(p) => Alive' \subseteq Alive /\ Starting' \subseteq Starting
           /\ \A q \in Pid \ {p} : /\ At(q)' = At(q) /\ Job(q)' = Job(q)
                                   /\ q \in Alive' <=> q \in Alive
                                   /\ q \in Starting' <=> q \in Starting
  <1>1. \A q \in Pid \ {p} : /\ At(q)' = At(q) /\ Job(q)' = Job(q)
                             /\ q \in Alive' <=> q \in Alive
                             /\ q \in Starting' <=> q \in Starting
    BY DEF Moves, At, Job, Alive, Starting
  <1>2. ASSUME Boots(p) PROVE p \in Alive' /\ p \in Starting'
    BY <1>2 DEF Boots, At, Alive, Starting
  <1>3. ASSUME ~Boots(p) PROVE p \in Alive' => p \in Alive
    BY <1>3 DEF Moves, Requests, Stops, Reads, Checks, Makes, Opens, Writes,
       Unlinks, Removes, Reconciles, Runs, GoesOn, Tasked, At, Alive, Running, Pipeline
  <1>4. ASSUME ~Boots(p) PROVE p \in Starting' => p \in Starting
    <2>1. CASE Requests(p)
      BY <2>1, BackupAssumption DEF Requests, Starting
    <2>2. CASE proc'[p] \in {Dead, Serving}
      BY <2>2 DEF Starting, Alive, At, Dead, Serving
    <2>3. CASE proc'[p] = proc[p] \/ \E at : GoesOn(p, at)
      BY <2>3 DEF GoesOn, Tasked, Starting, Alive, At, Job
    <2> QED
      BY <1>4, <2>1, <2>2, <2>3 DEF Moves, Stops, Reads, Checks, Makes, Opens,
         Writes, Unlinks, Removes, Reconciles, Runs
  <1> QED
    BY <1>1, <1>2, <1>3, <1>4 DEF Alive, Starting

LEMMA StepCrew ==
    ASSUME RollingDeployment, TypeInv, CrewInv, NEW p \in Pid, Moves(p)
    PROVE  CrewInv'
  <1>1. CASE Boots(p)
    <2>1. Starting \subseteq Alive
      BY DEF Starting
    <2>2. IsFiniteSet(Starting)
      BY <2>1, FS_Subset DEF CrewInv
    <2>3. Cardinality(Alive) \in Nat /\ Cardinality(Starting) \in Nat
      BY <2>2, FS_CardinalityType DEF CrewInv
    <2>4. Cardinality(Alive) < 2 /\ Cardinality(Starting) = 0
      BY <1>1, <2>3, BackupAssumption DEF Boots, RollingDeployment
    <2>5. Starting = {} /\ \A q, r \in Alive : q = r
      BY <2>2, <2>4, AtMostOne, FS_EmptySet DEF CrewInv
    <2>6. Alive' = Alive \cup {p} /\ Starting' = Starting \cup {p}
      BY <1>1, CrewMoves
    <2>7. IsFiniteSet(Alive')
      BY <2>6, FS_AddElement DEF CrewInv
    <2> QED
      BY <2>5, <2>6, <2>7 DEF CrewInv
  <1>2. CASE ~Boots(p)
    <2>1. Alive' \subseteq Alive /\ Starting' \subseteq Starting
      BY <1>2, CrewMoves
    <2>2. IsFiniteSet(Alive')
      BY <2>1, FS_Subset DEF CrewInv
    <2> QED
      BY <2>1, <2>2 DEF CrewInv
  <1> QED
    BY <1>1, <1>2

\* One process at a time works under the lease.
LEMMA OneHolder ==
    ASSUME TypeInv, LeaseInv, NEW p \in Pid, NEW q \in Pid,
           At(p) \in Holding, At(q) \in Holding
    PROVE  p = q
  BY DEF LeaseInv, Owns

\* A place on the lease is a place in Holding.
LEMMA OwnsIfHolding ==
    ASSUME NEW p \in Pid
    PROVE  At(p) \notin Holding => Owns(p)
  BY DEF Owns, Holding, Running, Leasing

\* A process that is not the one to move: it keeps its place when the lock and
\* the holder stay, or when it has none and only the holder's word counts.
LEMMA OthersStand ==
    ASSUME RollingDeployment, TypeInv, LeaseInv, NEW p \in Pid, Moves(p),
           CrewInv', UNCHANGED holder, NEW q \in Pid \ {p},
           UNCHANGED lock \/ At(q) \notin Holding
    PROVE  /\ Owns(q)'
           /\ At(q)' = "check" => Judges(q)'
           /\ At(q)' \in {"unlink", "rmdir"} => Reclaims(q)'
  <1>1. /\ proc'[q] = proc[q] /\ At(q)' = At(q)
        /\ q \in Starting' <=> q \in Starting
    BY CrewMoves DEF Moves
  <1>2. Owns(q)'
    <2>1. CASE UNCHANGED lock
      BY <1>1, <2>1 DEF LeaseInv, Owns
    <2>2. CASE At(q) \notin Holding
      BY <1>1, <2>2 DEF Owns, Holding, Running, Leasing
    <2> QED
      BY <2>1, <2>2
  <1>3. ASSUME At(q) \in {"check", "unlink", "rmdir"}
        PROVE  Alive' \subseteq Alive
    <2>1. q \in Starting
      BY <1>3, Places DEF Reclaiming
    <2>2. ~Boots(p)
      <3>1. Boots(p) => p \in Starting' /\ q \in Starting'
        BY <1>1, <2>1, CrewMoves
      <3> QED
        BY <3>1 DEF CrewInv
    <2> QED
      BY <2>2, CrewMoves
  <1>4. ASSUME At(q) = "check" PROVE Judges(q)'
    <2>1. Judges(q)
      BY <1>4 DEF LeaseInv
    <2> QED
      BY <1>1, <1>3, <1>4, <2>1 DEF Judges
  <1>5. ASSUME At(q) \in {"unlink", "rmdir"} PROVE Reclaims(q)'
    <2>1. Reclaims(q)
      BY <1>5 DEF LeaseInv
    <2> QED
      BY <1>3, <1>5, <2>1 DEF Reclaims
  <1> QED
    BY <1>1, <1>2, <1>4, <1>5

\* Steps that leave the lock directory alone.
LEMMA SameLock ==
    ASSUME RollingDeployment, TypeInv, LeaseInv, NEW p \in Pid, Moves(p),
           \/ Boots(p) \/ Requests(p) \/ Stops(p) \/ Reads(p) \/ Checks(p)
           \/ Reconciles(p) \/ Runs(p)
    PROVE  LeaseInv'
  <1>1. CrewInv'
    BY StepCrew DEF LeaseInv
  <1>2. UNCHANGED <<lock, holder>>
    BY DEF Boots, Requests, Stops, Reads, Checks, Reconciles, Runs
  <1>3. \A q \in Pid \ {p} : /\ Owns(q)'
                             /\ At(q)' = "check" => Judges(q)'
                             /\ At(q)' \in {"unlink", "rmdir"} => Reclaims(q)'
    BY <1>1, <1>2, OthersStand
  <1>4. At(p)' = proc'[p].at
    BY DEF At
  <1>5. /\ Owns(p)'
        /\ At(p)' = "check" => Judges(p)'
        /\ At(p)' \in {"unlink", "rmdir"} => Reclaims(p)'
    <2>1. CASE Boots(p) \/ Requests(p) \/ Stops(p)
      <3>1. At(p)' \in {"read", "mkdir", "dead", "serving"}
        BY <1>4, <2>1 DEF Boots, Requests, Stops, Dead, Serving
      <3> QED
        BY <3>1 DEF Owns, Holding, Running, Pipeline, Leasing
    <2>2. CASE Reads(p)
      <3>1. CASE GoesOn(p, "mkdir")
        BY <1>4, <3>1 DEF GoesOn, Owns, Holding, Running, Pipeline, Leasing
      <3>2. CASE GoesOn(p, "check") /\ lock \in Pid /\ proc'[p].owner = lock
        <4>1. At(p)' = "check"
          BY <1>4, <3>2 DEF GoesOn
        <4>2. holder' = proc'[p].owner /\ proc'[p].owner \in Pid
          BY <1>2, <3>2 DEF LeaseInv
        <4>3. p \in Alive'
          BY <4>1 DEF Alive
        <4>4. Judges(p)'
          BY <1>1, <4>2, <4>3 DEF CrewInv, Judges
        <4> QED
          BY <4>1, <4>4 DEF Owns, Holding, Running, Pipeline, Leasing
      <3> QED
        BY <2>2, <3>1, <3>2 DEF Reads
    <2>3. CASE Checks(p)
      <3>1. CASE proc[p].owner \in Alive
        BY <1>4, <2>3, <3>1 DEF Checks, GoesOn, Owns, Holding, Running, Pipeline, Leasing
      <3>2. CASE proc[p].owner \notin Alive
        <4>1. At(p)' = "unlink"
          BY <1>4, <2>3, <3>2 DEF Checks, GoesOn
        <4>2. Judges(p)
          BY <2>3 DEF Checks, LeaseInv
        <4>3. Alive' \subseteq Alive /\ Alive \subseteq Pid
          <5>1. ~Boots(p)
            BY <2>3 DEF Checks, Boots
          <5> QED
            BY <5>1, CrewMoves DEF Alive
        <4>4. Reclaims(p)
          BY <3>2, <4>2, <4>3, BackupAssumption DEF Judges, Reclaims
        <4>5. Reclaims(p)'
          BY <1>2, <4>3, <4>4 DEF Reclaims
        <4> QED
          BY <4>1, <4>5 DEF Owns, Holding, Running, Pipeline, Leasing
      <3> QED
        BY <3>1, <3>2
    <2>4. CASE Reconciles(p) \/ Runs(p)
      <3>1. At(p) \in Running \cup {"reconcile"}
        BY <2>4 DEF Reconciles, Runs
      <3>2. holder = p /\ lock = p
        BY <3>1 DEF LeaseInv, Owns, Holding
      <3>3. At(p)' \in Running \cup {"reconcile", "release"}
        BY <1>4, <2>4, <3>1 DEF Reconciles, Runs, GoesOn, At, Running
      <3> QED
        BY <1>2, <3>2, <3>3 DEF Owns, Running, Pipeline
    <2> QED
      BY <2>1, <2>2, <2>3, <2>4
  <1> QED
    BY <1>1, <1>2, <1>3, <1>5 DEF LeaseInv

\* Steps of the holder on its own lock that leave the directory there.
LEMMA HolderSteps ==
    ASSUME RollingDeployment, TypeInv, LeaseInv, NEW p \in Pid, Moves(p),
           Opens(p) \/ Writes(p) \/ (Unlinks(p) /\ At(p) = "release")
    PROVE  LeaseInv'
  <1>1. CrewInv'
    BY StepCrew DEF LeaseInv
  <1>2. At(p) \in Holding /\ holder = p /\ holder' = p
    BY DEF Opens, Writes, Unlinks, LeaseInv, Owns, Holding, Leasing
  <1>3. \A q \in Pid \ {p} : At(q) \notin Holding
    BY <1>2, OneHolder
  <1>4. \A q \in Pid \ {p} : /\ Owns(q)'
                             /\ At(q)' = "check" => Judges(q)'
                             /\ At(q)' \in {"unlink", "rmdir"} => Reclaims(q)'
    BY <1>1, <1>2, <1>3, OthersStand
  <1>5. lock # "free" /\ p # Nobody /\ p \notin Unowned
    BY <1>2, BackupAssumption DEF LeaseInv
  <1>6. At(p)' = proc'[p].at
    BY DEF At
  <1>7. CASE Opens(p)
    <2>1. At(p)' = "write" /\ lock' = "torn"
      BY <1>6, <1>7 DEF Opens, GoesOn
    <2> QED
      BY <1>1, <1>2, <1>4, <1>5, <2>1, BackupAssumption
         DEF LeaseInv, Owns, Unowned, Running, Pipeline
  <1>8. CASE Writes(p)
    <2>1. lock' = p
      BY <1>8 DEF Writes, LeaseInv, Owns
    <2>2. At(p)' \in {"reconcile", "accept"}
      BY <1>6, <1>8 DEF Writes, GoesOn
    <2> QED
      BY <1>1, <1>2, <1>4, <1>5, <2>1, <2>2 DEF LeaseInv, Owns, Unowned, Running, Pipeline
  <1>9. CASE Unlinks(p) /\ At(p) = "release"
    <2>1. At(p)' = "leave" /\ lock' = "bare"
      BY <1>5, <1>6, <1>9 DEF Unlinks, GoesOn
    <2> QED
      BY <1>1, <1>2, <1>4, <1>5, <2>1, BackupAssumption
         DEF LeaseInv, Owns, Unowned, Running, Pipeline
  <1> QED
    BY <1>7, <1>8, <1>9

\* mkdir: nobody holds the lease, and nobody is about to remove a lock.
LEMMA MakeStep ==
    ASSUME RollingDeployment, TypeInv, LeaseInv, NEW p \in Pid, Moves(p), Makes(p)
    PROVE  LeaseInv'
  <1>1. CrewInv'
    BY StepCrew DEF LeaseInv
  <1>2. /\ holder = Nobody /\ lock' = "bare" /\ holder' = p
        /\ p \in Alive /\ At(p)' = "info" /\ p # Nobody
    BY BackupAssumption, Places DEF Makes, LeaseInv, GoesOn, At
  <1>3. Alive' \subseteq Alive
    <2>1. ~Boots(p)
      BY DEF Makes, Boots
    <2> QED
      BY <2>1, CrewMoves
  <1>4. ASSUME NEW q \in Pid \ {p}
        PROVE  /\ Owns(q)'
               /\ At(q)' = "check" => Judges(q)'
               /\ At(q)' \in {"unlink", "rmdir"} => Reclaims(q)'
    <2>1. proc'[q] = proc[q] /\ At(q)' = At(q)
      BY CrewMoves DEF Moves
    <2>2. At(q) \notin Holding
      BY <1>2, BackupAssumption DEF LeaseInv, Owns
    <2>3. Owns(q)'
      BY <2>1, <2>2 DEF Owns, Holding, Running, Leasing
    <2>4. At(q) = "check" => Judges(q)'
      <3>1. At(q) = "check" => Judges(q)
        BY DEF LeaseInv
      <3> QED
        BY <1>2, <1>3, <2>1, <3>1, BackupAssumption DEF Judges
    <2>5. At(q) \notin {"unlink", "rmdir"}
      <3>1. At(q) \in {"unlink", "rmdir"} => Reclaims(q)
        BY DEF LeaseInv
      <3> QED
        BY <1>2, <3>1 DEF Reclaims
    <2> QED
      BY <2>1, <2>3, <2>4, <2>5
  <1>5. Owns(p)'
    BY <1>2 DEF Owns, Running, Pipeline
  <1> QED
    BY <1>1, <1>2, <1>4, <1>5, BackupAssumption DEF LeaseInv, Unowned

\* The reclaim: rm of the file and of the directory of a dead process.
LEMMA ReclaimSteps ==
    ASSUME RollingDeployment, TypeInv, LeaseInv, NEW p \in Pid, Moves(p),
           \/ Unlinks(p) /\ At(p) = "unlink"
           \/ Removes(p) /\ At(p) = "rmdir"
    PROVE  LeaseInv'
  <1>1. CrewInv'
    BY StepCrew DEF LeaseInv
  <1>2. Reclaims(p) /\ p \in Starting
    BY Places DEF LeaseInv, Reclaiming
  <1>3. Alive' \subseteq Alive
    <2>1. ~Boots(p)
      BY DEF Boots
    <2> QED
      BY <2>1, CrewMoves
  <1>4. ASSUME NEW q \in Pid \ {p}
        PROVE  /\ Owns(q)'
               /\ At(q)' \notin {"check", "unlink", "rmdir"}
    <2>1. At(q)' = At(q)
      BY CrewMoves
    <2>2. At(q) \notin Holding
      <3>1. At(q) \in Holding => q \in Alive /\ holder = q
        BY Places DEF LeaseInv, Owns, Tasked
      <3> QED
        BY <1>2, <3>1 DEF Reclaims
    <2>3. q \notin Starting
      BY <1>2 DEF LeaseInv, CrewInv
    <2>4. At(q) \notin {"check", "unlink", "rmdir"}
      BY <2>3, Places DEF Reclaiming
    <2> QED
      BY <2>1, <2>2, <2>4 DEF Owns, Holding, Running, Leasing
  <1>5. CASE Unlinks(p) /\ At(p) = "unlink"
    <2>1. At(p)' = "rmdir" /\ holder' = holder
      BY <1>5 DEF Unlinks, GoesOn, At
    <2>2. lock' \in {"free", "bare"} /\ (lock' = "free" <=> lock = "free")
      BY <1>5 DEF Unlinks
    <2>3. Reclaims(p)' /\ Owns(p)'
      BY <1>2, <1>3, <2>1 DEF Reclaims, Owns, Holding, Running, Pipeline, Leasing
    <2> QED
      BY <1>1, <1>4, <2>1, <2>2, <2>3, BackupAssumption DEF LeaseInv, Unowned
  <1>6. CASE Removes(p) /\ At(p) = "rmdir"
    <2>1. At(p)' = "mkdir"
      BY <1>6 DEF Removes, GoesOn, At
    <2>2. Owns(p)'
      BY <2>1 DEF Owns, Holding, Running, Pipeline, Leasing
    <2>3. \/ lock' = "free" /\ holder' = Nobody
          \/ UNCHANGED <<lock, holder>>
      BY <1>6 DEF Removes, RemoveLock
    <2> QED
      BY <1>1, <1>4, <2>1, <2>2, <2>3, BackupAssumption DEF LeaseInv, Unowned
  <1> QED
    BY <1>5, <1>6

\* The end of release: a startup that judges the holder sees nobody else alive.
LEMMA ReleaseStep ==
    ASSUME RollingDeployment, TypeInv, LeaseInv, NEW p \in Pid, Moves(p),
           Removes(p), At(p) = "leave"
    PROVE  LeaseInv'
  <1>1. CrewInv'
    BY StepCrew DEF LeaseInv
  <1>2. /\ At(p) \in Holding /\ holder = p /\ p \in Alive
        /\ lock' = "free" /\ holder' = Nobody
        /\ At(p)' \in {"dead", "serving"}
    <2>1. At(p) \in Holding
      BY DEF Holding, Leasing
    <2>2. lock = "bare"
      BY DEF LeaseInv, Owns
    <2> QED
      BY <2>1, <2>2, Places
         DEF LeaseInv, Owns, Removes, RemoveLock, At, Dead, Serving
  <1>3. Alive' \subseteq Alive
    <2>1. ~Boots(p)
      BY DEF Boots
    <2> QED
      BY <2>1, CrewMoves
  <1>4. ASSUME NEW q \in Pid \ {p}
        PROVE  /\ Owns(q)'
               /\ At(q)' = "check" => Judges(q)'
               /\ At(q)' \notin {"unlink", "rmdir"}
    <2>1. proc'[q] = proc[q] /\ At(q)' = At(q)
      BY CrewMoves DEF Moves
    <2>2. At(q) \notin Holding
      BY <1>2, OneHolder
    <2>3. At(q) = "check" => Judges(q)'
      <3>1. At(q) = "check" => Judges(q)
        BY DEF LeaseInv
      <3> QED
        BY <1>2, <1>3, <2>1, <3>1, BackupAssumption DEF Judges
    <2>4. At(q) \notin {"unlink", "rmdir"}
      <3>1. At(q) \in {"unlink", "rmdir"} => Reclaims(q)
        BY DEF LeaseInv
      <3> QED
        BY <1>2, <3>1 DEF Reclaims
    <2> QED
      BY <2>1, <2>2, <2>3, <2>4 DEF Owns, Holding, Running, Leasing
  <1>5. Owns(p)'
    BY <1>2 DEF Owns, Holding, Running, Pipeline, Leasing
  <1> QED
    BY <1>1, <1>2, <1>4, <1>5, BackupAssumption DEF LeaseInv, Unowned

LEMMA StepLease ==
    ASSUME RollingDeployment, TypeInv, LeaseInv, [Next]_vars
    PROVE  LeaseInv'
  <1>1. ASSUME NEW p \in Pid, Moves(p) PROVE LeaseInv'
    <2>1. Unlinks(p) => At(p) \in {"unlink", "release"}
      BY DEF Unlinks
    <2>2. Removes(p) => At(p) \in {"rmdir", "leave"}
      BY DEF Removes
    <2> QED
      BY <1>1, <2>1, <2>2, SameLock, HolderSteps, MakeStep, ReclaimSteps, ReleaseStep
         DEF Moves
  <1>2. CASE UNCHANGED vars
    BY <1>2 DEF vars, LeaseInv, CrewInv, Owns, Judges, Reclaims, Alive, Starting, At, Job
  <1> QED
    BY <1>1, <1>2, NextMoves

LEMMA InitLease == Init => LeaseInv
  <1> SUFFICES ASSUME Init PROVE LeaseInv
    OBVIOUS
  <1>1. \A p \in Pid : At(p) = "dead"
    BY DEF Init, At, Dead
  <1>2. Alive = {} /\ Starting = {}
    BY <1>1 DEF Alive, Starting
  <1>3. CrewInv
    BY <1>2, FS_EmptySet DEF CrewInv
  <1>4. lock = "free" /\ holder = Nobody
    BY DEF Init
  <1> QED
    BY <1>1, <1>3, <1>4, BackupAssumption
       DEF LeaseInv, Owns, Unowned, Holding, Running, Pipeline, Leasing

LEMMA LeaseInvariant ==
    ASSUME RollingDeployment
    PROVE  Spec => [](TypeInv /\ LeaseInv)
  <1>1. Init => TypeInv /\ LeaseInv
    BY InitType, InitLease
  <1>2. TypeInv /\ LeaseInv /\ [Next]_vars => (TypeInv /\ LeaseInv)'
    BY StepType, StepLease
  <1> QED
    BY <1>1, <1>2, PTL DEF Spec

\* In a rolling deployment at most one process is between its mkdir and the end
\* of its work, and it is the one that made the lock directory.
OneAtATime ==
    \A p, q \in Pid : At(p) \in Holding /\ At(q) \in Holding => p = q /\ holder = p

THEOREM LeaseExcludes ==
    ASSUME RollingDeployment
    PROVE  Spec => []OneAtATime
  <1>1. TypeInv /\ LeaseInv => OneAtATime
    BY OneHolder DEF OneAtATime, LeaseInv, Owns
  <1> QED
    BY <1>1, LeaseInvariant, PTL

-----------------------------------------------------------------------------
(* Refinement of OperationLease *)

Inside == {p \in Pid : At(p) \in Holding}

\* The abstract view when p moves: the others keep their part of it.
LEMMA Seen ==
    ASSUME TypeInv, LeaseInv, NEW p \in Pid, Moves(p)
    PROVE  /\ Alive' \ {p} = Alive \ {p} /\ Inside' \ {p} = Inside \ {p}
           /\ p \in Alive <=> At(p) # "dead"
           /\ p \in Alive' <=> At(p)' # "dead"
           /\ p \in Inside <=> At(p) \in Holding
           /\ p \in Inside' <=> At(p)' \in Holding
           /\ p \in Inside => Inside = {p} /\ holder = p
           /\ Inside \subseteq Alive
  <1>1. Alive' \ {p} = Alive \ {p} /\ Inside' \ {p} = Inside \ {p}
    BY CrewMoves DEF Alive, Inside
  <1>2. p \in Inside => Inside = {p} /\ holder = p
    BY OneHolder DEF Inside, LeaseInv, Owns
  <1>3. Inside \subseteq Alive
    BY Places DEF Inside, Tasked
  <1> QED
    BY <1>1, <1>2, <1>3 DEF Alive, Inside

\* A process that neither starts nor stops nor crosses the border of the lease.
LEMMA Unseen ==
    ASSUME TypeInv, LeaseInv, NEW p \in Pid, Moves(p), UNCHANGED holder,
           At(p)' = "dead" <=> At(p) = "dead",
           At(p)' \in Holding <=> At(p) \in Holding
    PROVE  UNCHANGED <<holder, Alive, Inside>>
  BY Seen

LEMMA LeaseStep ==
    ASSUME TypeInv, LeaseInv, [Next]_vars
    PROVE  [Lease!Next]_(Lease!vars)
  <1>a. Inside = {p \in Pid : At(p) \in Holding}
    BY DEF Inside
  <1>b. UNCHANGED <<holder, Alive, Inside>> => UNCHANGED Lease!vars
    BY DEF Lease!vars, Inside
  <1>1. ASSUME NEW p \in Pid, Moves(p)
        PROVE  [Lease!Next]_(Lease!vars)
    <2>a. At(p)' = proc'[p].at
      BY DEF At
    <2>b. Dead.at = "dead" /\ Serving.at = "serving"
      BY DEF Dead, Serving
    <2>c. {"dead", "serving", "read", "check", "unlink", "rmdir", "mkdir"}
             \cap Holding = {}
      BY DEF Holding, Running, Pipeline, Leasing
    <2>d. {"info", "write", "release", "leave", "reconcile"} \cup Running
             \subseteq Holding
      BY DEF Holding, Leasing
    <2>1. CASE Boots(p)
      <3>1. UNCHANGED holder /\ At(p) = "dead" /\ At(p)' = "read"
        BY <2>1, <2>a DEF Boots
      <3>2. Lease!Boot(p)
        BY <1>1, <2>c, <3>1, Seen DEF Lease!Boot, Inside
      <3> QED
        BY <3>2 DEF Lease!Next
    <2>2. CASE Stops(p)
      <3>1. UNCHANGED holder /\ At(p) # "dead" /\ At(p)' \in {"dead", "serving"}
        BY <2>2, <2>a, <2>b DEF Stops
      <3>2. CASE At(p)' = "dead"
        <4>1. Lease!Stop(p)
          BY <1>1, <2>c, <3>1, <3>2, Seen DEF Lease!Stop, Inside
        <4> QED
          BY <4>1 DEF Lease!Next
      <3>3. CASE At(p)' = "serving" /\ At(p) \in Holding
        <4>1. Lease!Leave(p)
          BY <1>1, <2>c, <3>1, <3>3, Seen DEF Lease!Leave, Inside
        <4> QED
          BY <4>1 DEF Lease!Next
      <3>4. CASE At(p)' = "serving" /\ At(p) \notin Holding
        BY <1>1, <1>b, <2>c, <3>1, <3>4, Unseen
      <3> QED
        BY <3>1, <3>2, <3>3, <3>4
    <2>3. CASE Makes(p)
      <3>1. /\ At(p) = "mkdir" /\ At(p)' = "info"
            /\ holder = Nobody /\ holder' = p
        BY <2>3, <2>a DEF Makes, GoesOn, LeaseInv
      <3>2. Inside = {}
        BY <3>1, BackupAssumption DEF Inside, LeaseInv, Owns
      <3>3. Lease!Acquire(p)
        BY <1>1, <2>d, <3>1, <3>2, Seen DEF Lease!Acquire, Inside
      <3> QED
        BY <3>3 DEF Lease!Next
    <2>4. CASE Removes(p) /\ At(p) = "leave"
      <3>1. /\ lock = "bare" /\ holder' = Nobody
            /\ At(p)' \in {"dead", "serving"}
        BY <2>4, <2>a, <2>b DEF Removes, RemoveLock, LeaseInv, Owns
      <3>2. At(p) \in Holding
        BY <2>4, <2>d
      <3>3. Lease!Release(p)
        BY <1>1, <2>4, <2>c, <3>1, <3>2, Seen DEF Lease!Release, Inside
      <3> QED
        BY <3>3 DEF Lease!Next
    <2>5. CASE Removes(p) /\ At(p) = "rmdir"
      <3>1. At(p)' = "mkdir"
        BY <2>5, <2>a DEF Removes, GoesOn
      <3>2. Reclaims(p)
        BY <2>5 DEF LeaseInv
      <3>3. CASE lock = "bare"
        <4>1. holder # Nobody /\ holder' = Nobody
          BY <2>5, <3>3 DEF Removes, RemoveLock, LeaseInv
        <4>2. p \in Alive /\ Alive' = Alive /\ Inside' = Inside
          BY <1>1, <2>5, <2>c, <3>1, Seen
        <4>3. Lease!Reclaim(p)
          BY <3>2, <4>1, <4>2 DEF Lease!Reclaim, Reclaims, Inside
        <4> QED
          BY <4>3 DEF Lease!Next
      <3>4. CASE lock # "bare"
        <4>1. UNCHANGED holder
          BY <2>5, <3>4 DEF Removes, RemoveLock
        <4> QED
          BY <1>1, <1>b, <2>5, <2>c, <3>1, <4>1, Unseen
      <3> QED
        BY <3>3, <3>4
    <2>6. CASE Requests(p) \/ Reads(p) \/ Checks(p) \/ (Unlinks(p) /\ At(p) = "unlink")
      <3>1. /\ UNCHANGED holder
            /\ At(p) \in {"serving", "read", "check", "unlink"}
            /\ At(p)' \in {"read", "check", "unlink", "rmdir", "mkdir"}
        BY <2>6, <2>a DEF Requests, Reads, Checks, Unlinks, GoesOn
      <3> QED
        BY <1>1, <1>b, <2>c, <3>1, Unseen
    <2>7. CASE \/ Opens(p) \/ Writes(p) \/ Reconciles(p) \/ Runs(p)
               \/ Unlinks(p) /\ At(p) = "release"
      <3>1. UNCHANGED holder
        BY <2>7 DEF Opens, Writes, Reconciles, Runs, Unlinks
      <3>2. /\ At(p) \in {"info", "write", "release", "reconcile"} \cup Running
            /\ At(p)' \in {"info", "write", "release", "leave", "reconcile"} \cup Running
        BY <2>7, <2>a DEF Opens, Writes, Reconciles, Runs, Unlinks, GoesOn, Running, At
      <3>3. At(p) \in Holding /\ At(p)' \in Holding
        BY <2>d, <3>2
      <3> QED
        BY <1>1, <1>b, <2>c, <3>1, <3>3, Unseen
    <2> QED
      BY <1>1, <2>1, <2>2, <2>3, <2>4, <2>5, <2>6, <2>7 DEF Moves, Unlinks, Removes
  <1>2. CASE UNCHANGED vars
    BY <1>2 DEF vars, Lease!vars, Alive, At
  <1> QED
    BY <1>1, <1>2, NextMoves

\* In a rolling deployment the lock directory of operation-lease.ts is a lease:
\* one process at a time creates or reconciles under it, and it is taken from
\* none that is alive.
THEOREM LeaseRefined ==
    ASSUME RollingDeployment
    PROVE  Spec => FollowsLease
  <1>1. Init => Lease!Init
    BY DEF Init, Lease!Init, Alive, At, Dead, Holding, Running, Pipeline, Leasing
  <1>2. TypeInv /\ LeaseInv /\ [Next]_vars => [Lease!Next]_(Lease!vars)
    BY LeaseStep
  <1> QED
    BY <1>1, <1>2, LeaseInvariant, PTL DEF Spec, FollowsLease, Lease!Spec

-----------------------------------------------------------------------------
(* What is written under the lease *)

\* An operation has one process, which has no receipt before accept and an open
\* one until its last transition.
RunInv ==
    /\ \A p, q \in Pid :
          p # q /\ Tasked(p) /\ Tasked(q) /\ Job(p) = Job(q) => Job(p) = Startup
    /\ \A p \in Pid :
          /\ At(p) \in {"mkdir", "info", "write", "accept"} /\ Job(p) # Startup
                => receipt[Job(p)] = NoReceipt
          /\ At(p) \in Pipeline \cup {"fail"}
                => receipt[Job(p)].status \in {"ACCEPTED", "RUNNING"}

\* Receipts and temporary files change under the lease only; a reconciliation
\* touches open receipts, a runner that of its operation.
LEMMA BookMoves ==
    ASSUME TypeInv, NEW p \in Pid, Moves(p)
    PROVE  /\ At(p) \notin Running \cup {"reconcile"} => UNCHANGED Books
           /\ \A o \in Operation :
                 \/ receipt'[o] = receipt[o]
                 \/ At(p) = "reconcile" /\ ~Settled(o) /\ receipt'[o].status \in Terminal
                 \/ /\ At(p) \in Pipeline \cup {"accept", "fail"} /\ o = Job(p)
                    /\ \/ proc'[p].at = "tidy"
                       \/ receipt'[o].status \in Status \ Terminal
  <1>1. ASSUME ~Runs(p), ~Reconciles(p)
        PROVE  /\ At(p) \notin Running \cup {"reconcile"} => UNCHANGED Books
               /\ UNCHANGED receipt
    BY <1>1 DEF Moves, Boots, Requests, Stops, Reads, Checks, Makes, Opens, Writes,
       Unlinks, Removes, Books
  <1>2. CASE Reconciles(p)
    <2>1. ASSUME NEW o \in Operation,
                 receipt' = IF Settled(o) THEN receipt
                            ELSE [receipt EXCEPT ![o] = Reconciled(o)],
                 NEW q \in Operation
          PROVE  \/ receipt'[q] = receipt[q]
                 \/ ~Settled(q) /\ receipt'[q].status \in Terminal
      <3>1. CASE Settled(o)
        BY <2>1, <3>1
      <3>2. CASE ~Settled(o)
        <4>1. /\ receipt[o] \in [status: Status, stage: Stage]
              /\ receipt \in [Operation -> Receipt]
          BY <3>2 DEF TypeInv, TypeOK, Settled, Receipt
        <4>2. Reconciled(o).status \in Terminal
          BY <4>1 DEF Reconciled, Terminal
        <4> QED
          BY <2>1, <3>2, <4>1, <4>2
      <3> QED
        BY <3>1, <3>2
    <2> QED
      BY <1>2, <2>1 DEF Reconciles
  <1>3. CASE Runs(p)
    <2>1. At(p) \in Running /\ Job(p) \in Operation
      BY <1>3 DEF Runs
    <2>2. CASE UNCHANGED receipt
      BY <2>1, <2>2
    <2>3. ASSUME At(p) \in Pipeline \cup {"accept", "fail"},
                 NEW status \in Status, NEW stage \in Stage,
                 Persist(Job(p), status, stage),
                 proc'[p].at = "tidy" \/ status \notin Terminal,
                 NEW o \in Operation
          PROVE  \/ receipt'[o] = receipt[o]
                 \/ /\ o = Job(p)
                    /\ \/ proc'[p].at = "tidy"
                       \/ receipt'[o].status \in Status \ Terminal
      <3>1. /\ receipt'[Job(p)] = [status |-> status, stage |-> stage]
            /\ \A q \in Operation \ {Job(p)} : receipt'[q] = receipt[q]
        BY <2>1, <2>3, PersistType DEF TypeInv
      <3> QED
        BY <2>3, <3>1
    <2> QED
      BY <1>3, <2>1, <2>2, <2>3 DEF Runs, GoesOn
  <1> QED
    BY <1>1, <1>2, <1>3 DEF Reconciles, Runs

\* A task begins with Boot or with a request, and keeps its job.
LEMMA JobMoves ==
    ASSUME TypeInv, NEW p \in Pid, Moves(p), Tasked(p)'
    PROVE  \/ At(p)' = "read" /\ Job(p)' = Startup
           \/ /\ At(p)' = "mkdir" /\ receipt[Job(p)'] = NoReceipt /\ UNCHANGED receipt
              /\ \A q \in Pid : Tasked(q) => Job(q) # Job(p)'
           \/ Tasked(p) /\ Job(p)' = Job(p)
  <1>1. At(p)' = proc'[p].at /\ Job(p)' = proc'[p].job
    BY DEF At, Job
  <1>2. CASE Boots(p) \/ Requests(p)
    BY <1>1, <1>2 DEF Boots, Requests, Books
  <1>3. CASE proc'[p] \in {Dead, Serving}
    BY <1>1, <1>3 DEF Dead, Serving, Tasked
  <1>4. CASE proc'[p] = proc[p] \/ \E at : GoesOn(p, at)
    BY <1>1, <1>4 DEF GoesOn, Tasked, At, Job
  <1> QED
    BY <1>2, <1>3, <1>4 DEF Moves, Stops, Reads, Checks, Makes, Opens,
       Writes, Unlinks, Removes, Reconciles, Runs

\* How the process that moves gets to a place where RunInv speaks of its receipt.
LEMMA PlaceMoves ==
    ASSUME TypeInv, NEW p \in Pid, Moves(p), Tasked(p), Job(p) # Startup
    PROVE  /\ At(p)' \in {"mkdir", "info", "write", "accept"} =>
                 At(p) \in {"mkdir", "info", "write"}
           /\ At(p)' \in Pipeline \cup {"fail"} =>
                 At(p) \in Pipeline \cup {"accept", "fail"}
           /\ At(p)' \in Pipeline \cup {"fail"} /\ At(p) = "accept" =>
                 receipt'[Job(p)].status \in {"ACCEPTED", "RUNNING"}
  <1>a. At(p)' = proc'[p].at
    BY DEF At
  <1>b. At(p) \notin Reclaiming \cup {"reconcile"}
    BY TaskKind DEF TypeInv, StartupTask, Job
  <1>1. ~Boots(p) /\ ~Requests(p) /\ ~Reads(p) /\ ~Checks(p) /\ ~Reconciles(p)
    BY <1>b DEF Boots, Requests, Reads, Checks, Reconciles, Tasked, Reclaiming
  <1>2. CASE Stops(p) \/ Removes(p) \/ Unlinks(p)
    <2>1. At(p)' \in {"dead", "serving", "leave"}
      BY <1>a, <1>b, <1>2
         DEF Stops, Removes, Unlinks, GoesOn, Dead, Serving, Reclaiming
    <2> QED
      BY <2>1 DEF Pipeline
  <1>3. CASE Makes(p) \/ Opens(p) \/ Writes(p)
    <2>1. /\ At(p) \in {"mkdir", "info", "write"}
          /\ At(p)' \in {"info", "write", "accept"}
      BY <1>a, <1>3 DEF Makes, Opens, Writes, GoesOn
    <2> QED
      BY <2>1 DEF Pipeline
  <1>4. CASE Runs(p)
    <2>1. At(p)' \in Pipeline \cup {"fail", "tidy", "release"}
      BY <1>a, <1>4 DEF Runs, GoesOn
    <2>2. CASE At(p) = "accept" /\ At(p)' \in Pipeline \cup {"fail"}
      <3>1. PICK status \in Status \ Terminal, stage \in Stage :
               Persist(Job(p), status, stage)
        BY <1>a, <1>4, <2>2 DEF Runs, GoesOn, Pipeline
      <3>2. receipt'[Job(p)] = [status |-> status, stage |-> stage]
        BY <1>4, <3>1, PersistType DEF Runs, TypeInv
      <3>3. receipt'[Job(p)].status \in {"ACCEPTED", "RUNNING"}
        BY <3>2 DEF Status, Terminal
      <3> QED
        BY <2>1, <2>2, <3>3 DEF Pipeline
    <2>3. CASE At(p) # "accept"
      BY <1>a, <1>4, <2>1, <2>3 DEF Runs, GoesOn, Running, Pipeline
    <2> QED
      BY <1>4, <2>1, <2>2, <2>3 DEF Pipeline
  <1> QED
    BY <1>1, <1>2, <1>3, <1>4 DEF Moves

LEMMA StepRun ==
    ASSUME TypeInv, LeaseInv, RunInv, [Next]_vars
    PROVE  RunInv'
  <1>1. ASSUME NEW p \in Pid, Moves(p)
        PROVE  RunInv'
    <2>1. \A q \in Pid \ {p} : At(q)' = At(q) /\ Job(q)' = Job(q) /\ (Tasked(q)' <=> Tasked(q))
      BY <1>1, CrewMoves DEF Tasked
    <2>2. ASSUME NEW q \in Pid, NEW r \in Pid, q # r, Tasked(q)', Tasked(r)',
                 Job(q)' = Job(r)'
          PROVE  Job(q)' = Startup
      <3>1. CASE q # p /\ r # p
        BY <2>1, <2>2, <3>1 DEF RunInv
      <3>2. CASE q = p \/ r = p
        BY <1>1, <2>1, <2>2, <3>2, JobMoves DEF RunInv
      <3> QED
        BY <3>1, <3>2
    <2>3. ASSUME NEW q \in Pid \ {p},
                 At(q) \in {"mkdir", "info", "write", "accept"}, Job(q) # Startup
          PROVE  receipt'[Job(q)] = NoReceipt
      <3>1. receipt[Job(q)] = NoReceipt /\ Tasked(q)
        BY <2>3 DEF RunInv, Tasked
      <3>2. Job(q) \in Operation
        BY <2>3, TaskKind DEF TypeInv, StartupTask, CreateTask, Job, Leasing, Running
      <3>3. Settled(Job(q))
        BY <3>1 DEF Settled
      <3>4. At(p) \in Pipeline \cup {"accept", "fail"} => Job(q) # Job(p)
        <4>1. At(p) \in Pipeline \cup {"accept", "fail"} => Tasked(p)
          BY DEF Tasked, Pipeline
        <4> QED
          BY <2>3, <3>1, <4>1 DEF RunInv
      <3> QED
        BY <1>1, <3>1, <3>2, <3>3, <3>4, BookMoves
    <2>4. ASSUME NEW q \in Pid \ {p}, At(q) \in Pipeline \cup {"fail"}
          PROVE  receipt'[Job(q)].status \in {"ACCEPTED", "RUNNING"}
      <3>1. At(q) \in Holding /\ At(q) \in Running
        BY <2>4 DEF Holding, Running
      <3>2. At(p) \notin Holding
        BY <3>1, OneHolder
      <3>3. UNCHANGED receipt
        <4>1. At(p) \notin Running \cup {"reconcile"}
          BY <3>2 DEF Holding
        <4> QED
          BY <1>1, <4>1, BookMoves DEF Books
      <3> QED
        BY <2>4, <3>3 DEF RunInv
    <2>5. ASSUME At(p)' \in {"mkdir", "info", "write", "accept"}, Job(p)' # Startup
          PROVE  receipt'[Job(p)'] = NoReceipt
      <3>1. Tasked(p)'
        BY <2>5 DEF Tasked
      <3>2. CASE Tasked(p) /\ Job(p)' = Job(p)
        <4>1. At(p) \in {"mkdir", "info", "write"}
          BY <1>1, <2>5, <3>2, PlaceMoves
        <4>2. UNCHANGED receipt
          BY <1>1, <4>1, BookMoves DEF Books, Running, Pipeline
        <4> QED
          BY <2>5, <3>2, <4>1, <4>2 DEF RunInv
      <3> QED
        BY <1>1, <2>5, <3>1, <3>2, JobMoves
    <2>6. ASSUME At(p)' \in Pipeline \cup {"fail"}
          PROVE  receipt'[Job(p)'].status \in {"ACCEPTED", "RUNNING"}
      <3>1. Tasked(p)' /\ At(p)' \notin {"read", "mkdir", "tidy"}
        BY <2>6 DEF Tasked, Pipeline
      <3>2. Tasked(p) /\ Job(p)' = Job(p)
        BY <1>1, <3>1, JobMoves
      <3>3. Job(p)' \in Operation /\ Job(p) # Startup
        <4>1. TypeInv'
          BY StepType
        <4>2. At(p)' \in Running
          BY <2>6 DEF Running
        <4>3. proc'[p] \in CreateTask
          <5>1. proc'[p] \in Task
            BY <4>1 DEF TypeInv, TypeOK, Task
          <5>2. Dead.at \notin Running /\ Serving.at \notin Running
            BY DEF Dead, Serving, Running, Pipeline
          <5>3. \A t \in StartupTask : t.at \notin Running
            BY DEF StartupTask, Running, Pipeline, Reclaiming, Leasing
          <5> QED
            BY <4>2, <5>1, <5>2, <5>3 DEF Task, At
        <4> QED
          BY <3>2, <4>3, BackupAssumption DEF CreateTask, Job
      <3>4. CASE At(p) = "accept"
        BY <1>1, <2>6, <3>2, <3>3, <3>4, PlaceMoves
      <3>5. CASE At(p) \in Pipeline \cup {"fail"}
        <4>1. receipt[Job(p)].status \in {"ACCEPTED", "RUNNING"} /\ At(p) # "reconcile"
          BY <3>5 DEF RunInv, Pipeline
        <4>2. proc'[p].at # "tidy"
          BY <3>1 DEF At
        <4>3. \/ receipt'[Job(p)] = receipt[Job(p)]
              \/ receipt'[Job(p)].status \in Status \ Terminal
          BY <1>1, <3>2, <3>3, <4>1, <4>2, BookMoves
        <4> QED
          BY <3>2, <4>1, <4>3 DEF Status, Terminal
      <3> QED
        BY <1>1, <2>6, <3>2, <3>3, <3>4, <3>5, PlaceMoves
    <2> QED
      BY <2>1, <2>2, <2>3, <2>4, <2>5, <2>6 DEF RunInv
  <1>2. CASE UNCHANGED vars
    BY <1>2 DEF vars, files, RunInv, Tasked, At, Job
  <1> QED
    BY <1>1, <1>2, NextMoves

LEMMA RunInvariant ==
    ASSUME RollingDeployment
    PROVE  Spec => [](TypeInv /\ LeaseInv /\ RunInv)
  <1>1. Init => RunInv
    BY DEF Init, RunInv, Tasked, At, Dead, Pipeline
  <1>2. TypeInv /\ LeaseInv /\ RunInv /\ [Next]_vars => RunInv'
    BY StepRun
  <1> QED
    BY <1>1, <1>2, LeaseInvariant, PTL DEF Spec

\* In a rolling deployment a poll never sees a SUCCEEDED or FAILED operation
\* change again: no reconciliation meets a runner, and no two runners meet.
THEOREM OutcomesAreFinal ==
    ASSUME RollingDeployment
    PROVE  Spec => OutcomeIsFinal
  <1>1. ASSUME TypeInv, LeaseInv, RunInv, [Next]_vars, NEW o \in Operation,
               receipt[o].status \in Terminal
        PROVE  receipt'[o] = receipt[o]
    <2>1. ASSUME NEW p \in Pid, Moves(p)
          PROVE  receipt'[o] = receipt[o]
      <3>1. Settled(o)
        BY <1>1 DEF Settled
      <3>2. ASSUME At(p) = "accept", o = Job(p) PROVE FALSE
        <4>1. Job(p) # Startup
          BY <3>2, BackupAssumption
        <4>2. receipt[o] = NoReceipt
          BY <3>2, <4>1, <1>1 DEF RunInv
        <4> QED
          BY <1>1, <4>2 DEF NoReceipt, Terminal
      <3>3. ASSUME At(p) \in Pipeline \cup {"fail"}, o = Job(p) PROVE FALSE
        BY <1>1, <3>3 DEF RunInv, Terminal
      <3> QED
        BY <1>1, <2>1, <3>1, <3>2, <3>3, BookMoves
    <2>2. CASE UNCHANGED vars
      BY <2>2 DEF vars, files
    <2> QED
      BY <1>1, <2>1, <2>2, NextMoves
  <1>2. TypeInv /\ LeaseInv /\ RunInv /\ [Next]_vars
           => [\A o \in Operation : Polled(o).status \in Terminal
                                       => Polled(o)' = Polled(o)]_vars
    BY <1>1 DEF Polled
  <1> QED
    BY <1>2, RunInvariant, PTL DEF Spec, OutcomeIsFinal

\* What a startup has made sure of, from the reconciliation to the end.
StartInv ==
    \A p \in Pid :
        /\ At(p) = "reconcile"
              => \A o \in Operation \ (proc[p].left \cup proc[p].skipped) : Settled(o)
        /\ At(p) \in {"release", "leave"} /\ Job(p) = Startup /\ ~proc[p].failed
              => /\ \A o \in Operation \ proc[p].skipped : Settled(o)
                 /\ temps = {}

LEMMA StepStart ==
    ASSUME TypeInv, LeaseInv, StartInv, [Next]_vars
    PROVE  StartInv'
  <1>1. ASSUME NEW p \in Pid, Moves(p)
        PROVE  StartInv'
    <2>a. At(p)' = proc'[p].at /\ Job(p)' = proc'[p].job
      BY DEF At, Job
    <2>b. \A o \in Operation : receipt'[o] = receipt[o] => (Settled(o)' <=> Settled(o))
      BY DEF Settled
    <2>1. ASSUME NEW q \in Pid \ {p}, At(q) \in {"reconcile", "release", "leave"}
          PROVE  UNCHANGED <<receipt, temps, proc[q]>>
      <3>1. At(q) \in Holding
        BY <2>1 DEF Holding, Leasing
      <3>2. At(p) \notin Holding
        BY <3>1, OneHolder
      <3>3. UNCHANGED Books
        <4>1. At(p) \notin Running \cup {"reconcile"}
          BY <3>2 DEF Holding
        <4> QED
          BY <1>1, <4>1, BookMoves
      <3> QED
        BY <1>1, <3>3 DEF Moves, Books
    <2>2. ASSUME NEW q \in Pid \ {p}
          PROVE  /\ At(q)' = "reconcile"
                       => \A o \in Operation \ (proc'[q].left \cup proc'[q].skipped) :
                             Settled(o)'
                 /\ At(q)' \in {"release", "leave"} /\ Job(q)' = Startup /\ ~proc'[q].failed
                       => /\ \A o \in Operation \ proc'[q].skipped : Settled(o)'
                          /\ temps' = {}
      <3>1. At(q)' = At(q) /\ Job(q)' = Job(q)
        BY <1>1, CrewMoves
      <3> QED
        BY <2>1, <2>b, <3>1 DEF StartInv
    <2>3. ASSUME At(p)' = "reconcile",
                 NEW o \in Operation \ (proc'[p].left \cup proc'[p].skipped)
          PROVE  Settled(o)'
      <3>1. CASE Writes(p)
        <4>1. receipt[o] = NoReceipt /\ UNCHANGED receipt
          BY <2>a, <2>3, <3>1 DEF Writes, GoesOn, Books
        <4> QED
          BY <4>1 DEF Settled
      <3>2. CASE Reconciles(p)
        <4>1. At(p) = "reconcile"
          BY <3>2 DEF Reconciles
        <4>2. CASE o \notin proc[p].left \cup proc[p].skipped
          <5>1. Settled(o)
            BY <4>1, <4>2 DEF StartInv
          <5>2. receipt'[o] = receipt[o]
            BY <1>1, <4>1, <5>1, BookMoves DEF Pipeline
          <5> QED
            BY <2>b, <5>1, <5>2
        <4>3. CASE o \in proc[p].left \cup proc[p].skipped
          <5>1. receipt' = IF Settled(o) THEN receipt
                           ELSE [receipt EXCEPT ![o] = Reconciled(o)]
            BY <2>a, <2>3, <3>2, <4>3 DEF Reconciles, GoesOn
          <5>2. CASE Settled(o)
            BY <2>b, <5>1, <5>2
          <5>3. CASE ~Settled(o)
            <6>1. receipt'[o] # receipt[o]
              <7>1. /\ receipt \in [Operation -> Receipt]
                    /\ receipt[o] \in [status: Status, stage: Stage]
                BY <5>3 DEF TypeInv, TypeOK, Settled, Receipt
              <7>2. Reconciled(o).status \in Terminal /\ receipt[o].status \notin Terminal
                BY <5>3, <7>1 DEF Reconciled, Settled, Terminal
              <7> QED
                BY <5>1, <5>3, <7>1, <7>2
            <6>2. receipt'[o].status \in Terminal
              BY <1>1, <4>1, <6>1, BookMoves DEF Pipeline
            <6> QED
              BY <6>2 DEF Settled
          <5> QED
            BY <5>2, <5>3
        <4> QED
          BY <4>2, <4>3
      <3>3. ~ (\/ Boots(p) \/ Requests(p) \/ Reads(p) \/ Checks(p) \/ Makes(p)
               \/ Opens(p) \/ Unlinks(p))
        BY <2>a, <2>3 DEF Boots, Requests, Reads, Checks, Makes, Opens, Unlinks, GoesOn
      <3>4. ~Stops(p) /\ ~Removes(p)
        <4>1. Dead.at = "dead" /\ Serving.at = "serving"
          BY DEF Dead, Serving
        <4>2. proc'[p].at = "reconcile"
          BY <2>a, <2>3
        <4>3. proc'[p] \notin {Dead, Serving}
          BY <4>1, <4>2
        <4> QED
          BY <4>2, <4>3 DEF Stops, Removes, GoesOn
      <3>5. ~Runs(p)
        BY <2>a, <2>3 DEF Runs, GoesOn, Pipeline
      <3> QED
        BY <1>1, <3>1, <3>2, <3>3, <3>4, <3>5 DEF Moves
    <2>4. ASSUME At(p)' \in {"release", "leave"}, Job(p)' = Startup, ~proc'[p].failed
          PROVE  /\ \A o \in Operation \ proc'[p].skipped : Settled(o)'
                 /\ temps' = {}
      <3>1. CASE Unlinks(p)
        <4>1. /\ At(p) = "release" /\ Job(p) = Startup /\ ~proc[p].failed
              /\ proc'[p].skipped = proc[p].skipped
              /\ UNCHANGED <<receipt, temps>>
          BY <2>a, <2>4, <3>1 DEF Unlinks, GoesOn, Books
        <4> QED
          BY <2>b, <4>1 DEF StartInv
      <3>2. CASE Reconciles(p)
        <4>1. /\ At(p) = "reconcile" /\ proc[p].left = {} /\ temps' = {}
              /\ proc'[p].skipped = proc[p].skipped
              /\ UNCHANGED receipt
          BY <2>a, <2>4, <3>2 DEF Reconciles, GoesOn, At
        <4> QED
          BY <2>b, <4>1 DEF StartInv
      <3>3. ~Runs(p)
        BY <2>a, <2>4, BackupAssumption DEF Runs, GoesOn
      <3>4. ~ (\/ Boots(p) \/ Requests(p) \/ Stops(p) \/ Reads(p) \/ Checks(p)
               \/ Makes(p) \/ Opens(p) \/ Writes(p) \/ Removes(p))
        BY <2>a, <2>4 DEF Boots, Requests, Stops, Reads, Checks, Makes, Opens, Writes,
           Removes, GoesOn, Dead, Serving
      <3> QED
        BY <1>1, <3>1, <3>2, <3>3, <3>4 DEF Moves
    <2> QED
      BY <2>2, <2>3, <2>4 DEF StartInv
  <1>2. CASE UNCHANGED vars
    BY <1>2 DEF vars, files, StartInv, Settled, At, Job
  <1> QED
    BY <1>1, <1>2, NextMoves

\* In a rolling deployment a process serves only after its startup has settled
\* every receipt that it could read and emptied .tmp, under a lease that kept
\* everybody else from writing.
THEOREM ServesAfterReconciliation ==
    ASSUME RollingDeployment
    PROVE  Spec => ServesReconciled
  <1>1. Init => StartInv
    BY DEF Init, StartInv, At, Dead
  <1>2. TypeInv /\ LeaseInv /\ StartInv /\ [Next]_vars => StartInv'
    BY StepStart
  <1>3. ASSUME TypeInv, LeaseInv, StartInv, [Next]_vars,
               NEW p \in Starting, proc'[p] = Serving
        PROVE  /\ \A o \in Operation \ proc[p].skipped : Settled(o)'
               /\ temps' = {}
    <2>1. p \in Pid /\ At(p) \notin {"dead", "serving"} /\ Job(p) = Startup
      BY DEF Starting, Alive, Job
    <2>2. Serving.at = "serving" /\ Serving # Dead
      <3>1. Serving.at = "serving" /\ Dead.at = "dead"
        BY DEF Serving, Dead
      <3> QED
        BY <3>1
    <2>3. proc'[p] # proc[p] /\ proc'[p].at = "serving"
      BY <1>3, <2>1, <2>2 DEF At
    <2>4. PICK q \in Pid : Moves(q)
      BY <1>3, <2>3, NextMoves DEF vars
    <2>5. q = p
      BY <2>1, <2>3, <2>4 DEF Moves
    <2>6. ~ (\/ Boots(p) \/ Requests(p) \/ Reads(p) \/ Checks(p) \/ Makes(p) \/ Opens(p)
             \/ Writes(p) \/ Unlinks(p) \/ Reconciles(p) \/ Runs(p))
      BY <2>3 DEF Boots, Requests, Reads, Checks, Makes, Opens, Writes, Unlinks,
         Reconciles, Runs, GoesOn, Pipeline
    <2>7. ~Stops(p)
      BY <1>3, <2>1, <2>2 DEF Stops, Tasked
    <2>8. Removes(p)
      BY <2>4, <2>5, <2>6, <2>7 DEF Moves
    <2>9. At(p) = "leave" /\ ~proc[p].failed /\ UNCHANGED <<receipt, temps>>
      BY <1>3, <2>2, <2>3, <2>8 DEF Removes, GoesOn, Books
    <2> QED
      BY <1>3, <2>1, <2>9 DEF StartInv, Settled
  <1>4. TypeInv /\ LeaseInv /\ StartInv /\ [Next]_vars
           => [\A p \in Starting : proc'[p] = Serving =>
                  /\ \A o \in Operation \ proc[p].skipped : Settled(o)'
                  /\ temps' = {}]_vars
    BY <1>3
  <1> QED
    BY <1>1, <1>2, <1>4, LeaseInvariant, PTL DEF Spec, ServesReconciled
=============================================================================
