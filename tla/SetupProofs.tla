----------------------------- MODULE SetupProofs -----------------------------
(***************************************************************************)
(* Proofs about the setup of a device.  The wizard, for any number of      *)
(* concurrent requests: saved progress is always legal and backed by       *)
(* evidence, and one physical test sheet is printed at most, after both of *)
(* its records.  The queue of the printer, for any number of jobs, kills   *)
(* and failing commands: the installer migrates it safely.  The LED, for   *)
(* any processes: no marker is removed whose process answers the daemon.   *)
(***************************************************************************)
EXTENDS SetupWizard, QueueMigration, PrintLed, TLAPS

(***************************************************************************)
(* The setup wizard                                                        *)
(***************************************************************************)

\* The stages a home page can grant need nothing but welcome.
LEMMA NeedsFacts ==
  /\ Needs["welcome"] = {} /\ Needs["network"] = {"welcome"}
  BY DEF Needs, Checkpoint, Verified

\* The helper is asked about some stage.
LEMMA AskedType ==
  ASSUME TypeOK, NEW r \in Request
  PROVE  Asked(r) \in Checkpoint
  BY DEF TypeOK, Asked, Checkpoint, Verified

\* Granting a stage whose prerequisites are there keeps a set of checkpoints
\* legal.
LEMMA ClosedAdd ==
  ASSUME NEW S \in SUBSET Checkpoint, NEW c \in Checkpoint, Closed(S), Needs[c] \subseteq S
  PROVE  Closed(S \cup {c})
  BY DEF Closed

\* Every step keeps the types of the variables.
LEMMA TypeStep == TypeOK /\ [Next]_vars => TypeOK'
  <1> SUFFICES ASSUME TypeOK, [Next]_vars PROVE TypeOK'
    OBVIOUS
  <1> USE DEF TypeOK
  <1>1. ASSUME NEW r \in Request, NEW c \in Checkpoint, StartAction(r, c) PROVE TypeOK'
    BY <1>1 DEF StartAction, helper, PC
  <1>2. ASSUME NEW r \in Request, StartHome(r) PROVE TypeOK'
    BY <1>2 DEF StartHome, helper, PC, Checkpoint, Verified
  <1>3. ASSUME NEW r \in Request, OperationSucceeds(r) PROVE TypeOK'
    BY <1>3, AskedType DEF OperationSucceeds, helper, PC
  <1>4. ASSUME NEW r \in Request, OperationFails(r) PROVE TypeOK'
    BY <1>4 DEF OperationFails, Return, helper, PC, Checkpoint
  <1>5. ASSUME NEW r \in Request, Save(r) \/ SaveFails(r) PROVE TypeOK'
    <2>1. CASE Save(r)
      BY <2>1 DEF Save, Return, helper, PC, Checkpoint
    <2>2. CASE SaveFails(r)
      BY <2>2 DEF SaveFails, Return, helper, PC, Checkpoint
    <2> QED BY <1>5, <2>1, <2>2
  <1>6. ASSUME NEW r \in Request, AskHelperToPrint(r) \/ StopWaiting(r) PROVE TypeOK'
    <2>1. CASE AskHelperToPrint(r)
      BY <2>1 DEF AskHelperToPrint, Return, PC, Checkpoint, Job
    <2>2. CASE StopWaiting(r)
      BY <2>2 DEF StopWaiting, Return, helper, PC, Checkpoint
    <2> QED BY <1>6, <2>1, <2>2
  <1>7. ASSUME NEW r \in Request,
               ReserveAttempt(r) \/ SyncAttempt(r) \/ PrintTestSheet(r)
        PROVE TypeOK'
    BY <1>7 DEF ReserveAttempt, SyncAttempt, PrintTestSheet, wizard, Job, AttemptFile, Advice
  <1>8. ASSUME WizardCrash \/ HelperCrash \/ PowerLoss PROVE TypeOK'
    BY <1>8 DEF WizardCrash, HelperCrash, PowerLoss, WizardExits, helper, wizard,
                PC, Checkpoint, Job, AttemptFile, Advice
  <1>9. CASE UNCHANGED vars
    BY <1>9 DEF vars
  <1> QED
    BY <1>1, <1>2, <1>3, <1>4, <1>5, <1>6, <1>7, <1>8, <1>9 DEF Next

----------------------------------------------------------------------------
(* Checkpoints: the file and the snapshots *)

ProgressInv == StagesInOrder /\ NothingWithoutEvidence /\ SnapshotInv

\* Every step keeps the file and the snapshots legal and backed by evidence.
LEMMA ProgressStep ==
  ASSUME TypeOK, TypeOK', ProgressInv, [Next]_vars
  PROVE  ProgressInv'
  <1> USE DEF ProgressInv
  <1>1. ASSUME NEW r \in Request, NEW c \in Checkpoint, StartAction(r, c)
        PROVE ProgressInv'
    <2>1. disk' = disk /\ evidence' = evidence
      BY <1>1 DEF StartAction
    <2>2. Closed(snap'[r]) /\ snap'[r] \cap Verified \subseteq evidence
      BY <1>1, ClosedAdd DEF StartAction, TypeOK, StagesInOrder,
                             NothingWithoutEvidence, Verified
    <2>3. pc'[r] = "helper" => Needs[Asked(r)'] \subseteq snap'[r]
      BY <1>1 DEF StartAction, TypeOK, Asked
    <2>4. \A q \in Request \ {r} : pc'[q] = pc[q] /\ goal'[q] = goal[q] /\ snap'[q] = snap[q]
      BY <1>1 DEF StartAction, TypeOK
    <2> QED
      BY <2>1, <2>2, <2>3, <2>4 DEF StagesInOrder, NothingWithoutEvidence, SnapshotInv, Asked
  <1>2. ASSUME NEW r \in Request, StartHome(r) PROVE ProgressInv'
    <2>1. disk' = disk /\ evidence' = evidence
      BY <1>2 DEF StartHome
    <2>2. Closed(snap'[r])
      BY <1>2, ClosedAdd, NeedsFacts DEF StartHome, TypeOK, StagesInOrder, Checkpoint
    <2>3. snap'[r] \cap Verified \subseteq evidence
      BY <1>2 DEF StartHome, TypeOK, NothingWithoutEvidence, Verified
    <2>4. pc'[r] = "helper" => Needs[Asked(r)'] \subseteq snap'[r]
      BY <1>2, NeedsFacts DEF StartHome, TypeOK, Asked
    <2>5. \A q \in Request \ {r} : pc'[q] = pc[q] /\ goal'[q] = goal[q] /\ snap'[q] = snap[q]
      BY <1>2 DEF StartHome, TypeOK
    <2> QED
      BY <2>1, <2>2, <2>3, <2>4, <2>5 DEF StagesInOrder, NothingWithoutEvidence, SnapshotInv, Asked
  <1>3. ASSUME NEW r \in Request, OperationSucceeds(r) PROVE ProgressInv'
    <2>1. disk' = disk /\ evidence \subseteq evidence'
      BY <1>3 DEF OperationSucceeds
    <2>2. Closed(snap'[r])
      BY <1>3, ClosedAdd, AskedType DEF OperationSucceeds, TypeOK, SnapshotInv
    <2>3. snap'[r] \cap Verified \subseteq evidence'
      BY <1>3 DEF OperationSucceeds, TypeOK, SnapshotInv
    <2>4. pc'[r] # "helper"
      BY <1>3 DEF OperationSucceeds, TypeOK
    <2>5. \A q \in Request \ {r} : pc'[q] = pc[q] /\ goal'[q] = goal[q] /\ snap'[q] = snap[q]
      BY <1>3 DEF OperationSucceeds, TypeOK
    <2> QED
      BY <2>1, <2>2, <2>3, <2>4, <2>5 DEF StagesInOrder, NothingWithoutEvidence, SnapshotInv, Asked
  <1>4. ASSUME NEW r \in Request, disk' \in {disk, snap[r]}, evidence' = evidence,
               \/ Return(r)
               \/ UNCHANGED <<goal, snap>> /\ \E v \in PC \ {"helper"} : pc' = [pc EXCEPT ![r] = v]
        PROVE ProgressInv'
    <2>1. Closed(disk') /\ disk' \cap Verified \subseteq evidence
      BY <1>4 DEF StagesInOrder, NothingWithoutEvidence, SnapshotInv
    <2>2. Closed(snap'[r]) /\ snap'[r] \cap Verified \subseteq evidence
      BY <1>4 DEF Return, TypeOK, SnapshotInv, Closed
    <2>3. pc'[r] # "helper"
      BY <1>4 DEF Return, TypeOK
    <2>4. \A q \in Request \ {r} : pc'[q] = pc[q] /\ goal'[q] = goal[q] /\ snap'[q] = snap[q]
      BY <1>4 DEF Return, TypeOK
    <2> QED
      BY <1>4, <2>1, <2>2, <2>3, <2>4 DEF StagesInOrder, NothingWithoutEvidence, SnapshotInv, Asked
  <1>5. ASSUME NEW r \in Request,
               \/ OperationFails(r) \/ Save(r) \/ SaveFails(r)
               \/ AskHelperToPrint(r) \/ StopWaiting(r)
        PROVE ProgressInv'
    BY <1>4, <1>5 DEF OperationFails, Save, SaveFails, AskHelperToPrint, StopWaiting, PC
  <1>6. CASE UNCHANGED <<disk, pc, goal, snap, evidence>>
    BY <1>6 DEF StagesInOrder, NothingWithoutEvidence, SnapshotInv, Closed, Asked
  <1>7. ASSUME WizardExits, UNCHANGED <<disk, evidence>> PROVE ProgressInv'
    BY <1>7 DEF WizardExits, StagesInOrder, NothingWithoutEvidence, SnapshotInv, Closed
  <1>8. ASSUME NEW r \in Request,
               ReserveAttempt(r) \/ SyncAttempt(r) \/ PrintTestSheet(r)
        PROVE ProgressInv'
    BY <1>6, <1>8 DEF ReserveAttempt, SyncAttempt, PrintTestSheet, wizard
  <1>9. ASSUME WizardCrash \/ HelperCrash \/ PowerLoss \/ UNCHANGED vars PROVE ProgressInv'
    BY <1>6, <1>7, <1>9 DEF WizardCrash, HelperCrash, PowerLoss, wizard, vars
  <1> QED
    BY <1>1, <1>2, <1>3, <1>5, <1>8, <1>9 DEF Next

----------------------------------------------------------------------------
(* The physical test: the attempt file and the sheet *)

SheetInv == AttemptInv /\ RecordInv /\ AtMostOneTestSheet /\ PaperIsOnRecord

\* Every step keeps the attempt file ahead of the sheet.
LEMMA SheetStep ==
  ASSUME TypeOK, TypeOK', SheetInv, [Next]_vars
  PROVE  SheetInv'
  <1> USE DEF SheetInv
  <1>1. ASSUME NEW r \in Request, UNCHANGED helper, saved \subseteq saved',
               \A q \in Request \ {r} : pc'[q] = pc[q] /\ goal'[q] = goal[q] /\ snap'[q] = snap[q],
               goal'[r] = "physical_attempted" /\ pc'[r] = "save" => goal'[r] \in snap'[r],
               pc'[r] = "print" => "physical_attempted" \in saved'
        PROVE SheetInv'
    BY <1>1 DEF helper, AttemptInv, RecordInv, AtMostOneTestSheet, PaperIsOnRecord
  <1>2. ASSUME NEW r \in Request, NEW c \in Checkpoint, StartAction(r, c) PROVE SheetInv'
    BY <1>1, <1>2 DEF StartAction, TypeOK
  <1>3. ASSUME NEW r \in Request,
               StartHome(r) \/ OperationSucceeds(r) \/ OperationFails(r) \/ StopWaiting(r)
        PROVE SheetInv'
    BY <1>1, <1>3 DEF StartHome, OperationSucceeds, OperationFails, StopWaiting,
                      Return, Asked, TypeOK
  <1>4. ASSUME NEW r \in Request, Save(r) \/ SaveFails(r) PROVE SheetInv'
    BY <1>1, <1>4 DEF Save, SaveFails, Return, TypeOK, RecordInv
  <1>5. ASSUME NEW r \in Request, AskHelperToPrint(r) PROVE SheetInv'
    <2>1. /\ UNCHANGED <<saved, attempt, sheets>>
          /\ pc'[r] \notin {"save", "print"}
          /\ \A q \in Request \ {r} : /\ pc'[q] = pc[q] /\ goal'[q] = goal[q]
                                      /\ snap'[q] = snap[q] /\ job'[q] = job[q]
          /\ job'[r] \in {job[r], "requested"} /\ "physical_attempted" \in saved
      BY <1>5 DEF AskHelperToPrint, Return, TypeOK, RecordInv
    <2> QED
      BY <2>1 DEF AttemptInv, RecordInv, AtMostOneTestSheet, PaperIsOnRecord
  <1>6. ASSUME NEW r \in Request, ReserveAttempt(r) PROVE SheetInv'
    BY <1>6 DEF ReserveAttempt, wizard, TypeOK, AttemptInv, RecordInv,
                AtMostOneTestSheet, PaperIsOnRecord
  <1>7. ASSUME NEW r \in Request, SyncAttempt(r) PROVE SheetInv'
    BY <1>7 DEF SyncAttempt, wizard, TypeOK, AttemptInv, RecordInv,
                AtMostOneTestSheet, PaperIsOnRecord
  <1>8. ASSUME NEW r \in Request, PrintTestSheet(r) PROVE SheetInv'
    BY <1>8 DEF PrintTestSheet, wizard, TypeOK, AttemptInv, RecordInv,
                AtMostOneTestSheet, PaperIsOnRecord
  <1>9. ASSUME WizardCrash \/ HelperCrash \/ PowerLoss \/ UNCHANGED vars PROVE SheetInv'
    BY <1>9 DEF WizardCrash, HelperCrash, PowerLoss, WizardExits, wizard, helper, vars,
                TypeOK, AttemptInv, RecordInv, AtMostOneTestSheet, PaperIsOnRecord
  <1> QED
    BY <1>2, <1>3, <1>4, <1>5, <1>6, <1>7, <1>8, <1>9 DEF Next

----------------------------------------------------------------------------

\* The strengthened invariant holds in every reachable state.
THEOREM Invariant == Spec => []IInv
  <1>1. Init => IInv
    BY DEF Init, IInv, TypeOK, StagesInOrder, NothingWithoutEvidence, SnapshotInv,
           AttemptInv, RecordInv, AtMostOneTestSheet, PaperIsOnRecord, Closed,
           PC, Checkpoint, AttemptFile, Job, Advice
  <1>2. IInv /\ [Next]_vars => IInv'
    BY TypeStep, ProgressStep, SheetStep DEF IInv, ProgressInv, SheetInv
  <1> QED
    BY <1>1, <1>2, PTL DEF Spec

\* The variables keep their types.
THEOREM TypeCorrect == Spec => []TypeOK
  <1>1. IInv => TypeOK
    BY DEF IInv
  <1> QED
    BY <1>1, Invariant, PTL

\* However handlers interleave, fail or crash, the saved checkpoints contain
\* the prerequisites of each of them.
THEOREM LegalProgress == Spec => []StagesInOrder
  <1>1. IInv => StagesInOrder
    BY DEF IInv
  <1> QED
    BY <1>1, Invariant, PTL

\* A saved stage is one whose operation succeeded.
THEOREM EvidencedProgress == Spec => []NothingWithoutEvidence
  <1>1. IInv => NothingWithoutEvidence
    BY DEF IInv
  <1> QED
    BY <1>1, Invariant, PTL

\* Any number of physical-test requests, timeouts, crashes and power losses
\* print one sheet at most.
THEOREM OneSheet == Spec => []AtMostOneTestSheet
  <1>1. IInv => AtMostOneTestSheet
    BY DEF IInv
  <1> QED
    BY <1>1, Invariant, PTL

\* A sheet is printed only after the checkpoint was saved and the attempt
\* file was synced.
THEOREM RecordedSheet == Spec => []PaperIsOnRecord
  <1>1. IInv => PaperIsOnRecord
    BY DEF IInv
  <1> QED
    BY <1>1, Invariant, PTL

----------------------------------------------------------------------------
(***************************************************************************)
(* The queue of the printer                                                *)
(***************************************************************************)

\* Opening or closing an end of a queue leaves queues.
LEMMA QueuesStay ==
  ASSUME QueueTypeOK, NEW m \in Name, NEW b \in BOOLEAN
  PROVE  /\ [queue EXCEPT ![m].enabled = b] \in [Name -> Queue]
         /\ [queue EXCEPT ![m].accepting = b] \in [Name -> Queue]
  <1>1. queue \in [Name -> Queue] /\ queue[m] \in Queue
    BY DEF QueueTypeOK
  <1>2. /\ [queue[m] EXCEPT !.enabled = b] \in Queue
        /\ [queue[m] EXCEPT !.accepting = b] \in Queue
    BY <1>1 DEF Queue
  <1> QED
    BY <1>1, <1>2

\* Every step keeps the types of the variables.
LEMMA QueueTypeStep == QueueTypeOK /\ [QueueNext]_queueVars => QueueTypeOK'
  <1> SUFFICES ASSUME QueueTypeOK, [QueueNext]_queueVars PROVE QueueTypeOK'
    OBVIOUS
  <1> USE FaultAssumption DEF QueueTypeOK, machine, jobs, cups, Queue, Transport, Migrating, Trap
  <1>1. ASSUME NEW n \in Name, NEW j \in ClientJob, Submit(n, j) PROVE QueueTypeOK'
    BY <1>1 DEF Submit
  <1>2. ASSUME NEW n \in Name, NEW j \in ClientJob, PrintJob(n, j) PROVE QueueTypeOK'
    BY <1>2 DEF PrintJob, Prints
  <1>3. ASSUME NEW n \in Name, StopQueue(n) PROVE QueueTypeOK'
    <2>1. queue' \in [Name -> Queue]
      BY <1>3, QueuesStay DEF StopQueue
    <2> QED  BY <1>3, <2>1 DEF StopQueue
  <1>4. ASSUME PlugOrUnplug PROVE QueueTypeOK'
    BY <1>4 DEF PlugOrUnplug
  <1>5. ASSUME Start PROVE QueueTypeOK'
    BY <1>5 DEF Start, Goto
  <1>6. ASSUME HoldLegacyQueue PROVE QueueTypeOK'
    BY <1>6 DEF HoldLegacyQueue, Goto
  <1>7. ASSUME InstallFiles PROVE QueueTypeOK'
    BY <1>7 DEF InstallFiles, Goto
  <1>8. ASSUME CheckQueue PROVE QueueTypeOK'
    BY <1>8 DEF CheckQueue, Goto
  <1>9. ASSUME PlanMigration PROVE QueueTypeOK'
    BY <1>9 DEF PlanMigration, Goto
  <1>10. ASSUME RefusePlan PROVE QueueTypeOK'
    BY <1>10 DEF RefusePlan, Stop
  <1>11. ASSUME DisableQueue PROVE QueueTypeOK'
    <2>1. queue' \in [Name -> Queue]
      BY <1>11, QueuesStay DEF DisableQueue
    <2> QED  BY <1>11, <2>1 DEF DisableQueue, Goto
  <1>12. ASSUME RejectJobs PROVE QueueTypeOK'
    <2>1. queue' \in [Name -> Queue]
      BY <1>12, QueuesStay DEF RejectJobs
    <2> QED  BY <1>12, <2>1 DEF RejectJobs, Goto
  <1>13. ASSUME CancelJobs PROVE QueueTypeOK'
    BY <1>13 DEF CancelJobs, Goto
  <1>14. ASSUME ConfigureQueue PROVE QueueTypeOK'
    <2>1. queue' \in [Name -> Queue]
      BY <1>14 DEF ConfigureQueue, Goto
    <2> QED  BY <1>14, <2>1 DEF ConfigureQueue, Goto
  <1>15. ASSUME VerifyQueue PROVE QueueTypeOK'
    BY <1>15 DEF VerifyQueue, Goto
  <1>16. ASSUME ReleaseHold PROVE QueueTypeOK'
    BY <1>16 DEF ReleaseHold, Goto
  <1>17. ASSUME AcceptJobs PROVE QueueTypeOK'
    <2>1. queue' \in [Name -> Queue]
      BY <1>17, QueuesStay DEF AcceptJobs
    <2> QED  BY <1>17, <2>1 DEF AcceptJobs, Goto
  <1>18. ASSUME EnableQueue PROVE QueueTypeOK'
    <2>1. queue' \in [Name -> Queue]
      BY <1>18, QueuesStay DEF EnableQueue
    <2> QED  BY <1>18, <2>1 DEF EnableQueue, Goto
  <1>19. ASSUME CheckHealth PROVE QueueTypeOK'
    BY <1>19 DEF CheckHealth, Goto
  <1>20. ASSUME RefuseState PROVE QueueTypeOK'
    BY <1>20 DEF RefuseState, Stop
  <1>21. ASSUME Finish PROVE QueueTypeOK'
    BY <1>21 DEF Finish
  <1>22. ASSUME UndoEnable PROVE QueueTypeOK'
    <2>1. queue' \in [Name -> Queue]
      BY <1>22, QueuesStay DEF UndoEnable
    <2> QED  BY <1>22, <2>1 DEF UndoEnable, Goto
  <1>23. ASSUME UndoAccept PROVE QueueTypeOK'
    <2>1. queue' \in [Name -> Queue]
      BY <1>23, QueuesStay DEF UndoAccept
    <2> QED  BY <1>23, <2>1 DEF UndoAccept, Goto
  <1>24. ASSUME UndoRelease PROVE QueueTypeOK'
    BY <1>24 DEF UndoRelease, Goto
  <1>25. ASSUME CommandFails PROVE QueueTypeOK'
    BY <1>25 DEF CommandFails, Stop
  <1>26. ASSUME Kill PROVE QueueTypeOK'
    BY <1>26 DEF Kill
  <1>27. ASSUME TrapCommandFails PROVE QueueTypeOK'
    BY <1>27 DEF TrapCommandFails
  <1>28. CASE UNCHANGED queueVars
    BY <1>28 DEF queueVars
  <1> QED
    BY <1>1, <1>2, <1>3, <1>4, <1>5, <1>6, <1>7, <1>8, <1>9, <1>10, <1>11, <1>12, <1>13, <1>14, <1>15, <1>16, <1>17, <1>18, <1>19, <1>20, <1>21, <1>22, <1>23, <1>24, <1>25, <1>26, <1>27, <1>28
       DEF QueueNext, Script, Printing

\* A queue that was never configured is closed at both ends and empty.
UnmadeIsClosed ==
  \A n \in Name : queue[n].device = "none" =>
    ~queue[n].enabled /\ ~queue[n].accepting /\ waiting[n] = {}

\* A job is in a queue, or on paper, only after a queue has accepted it, and a
\* job that was accepted for the old transport waits for nothing else.
JobsKeepTransport ==
  /\ \A n \in Name : \A j \in waiting[n] :
       /\ sentOn[j] # "none"
       /\ sentOn[j] = "f11" => queue[n].device = "f11"
  /\ \A j \in ClientJob : printedOn[j] # "none" => sentOn[j] # "none"

\* Which end of its queue a script has closed, or failed to close in its trap,
\* and what it has verified, before it comes to a command.
ClosedOnTheWay ==
  /\ command \in {"verify", "release", "accept", "enable"} => queue[target].device = "usb"
  /\ script = "provision" => queue[target].device # "f11"
  /\ script = "install" =>
       /\ command \in {"reject", "cancel", "lpadmin"} => ~queue[target].enabled
       /\ command \in {"cancel", "lpadmin"} => ~queue[target].accepting
       /\ command \in {"undo_reject", "undo_hold"} =>
            (queue[target].enabled => "undo_disable" \in failed)
       /\ command = "undo_hold" => (queue[target].accepting => "undo_reject" \in failed)
       /\ command = "lpadmin" => waiting[target] = {}
       /\ command \in {"release", "accept", "enable"} => verified

MigrationInv == MigratesSafely /\ UnmadeIsClosed /\ JobsKeepTransport /\ ClosedOnTheWay

\* What setting one field of one queue changes.
LEMMA SetEnabled ==
  ASSUME QueueTypeOK, NEW m \in Name, NEW b \in BOOLEAN,
         queue' = [queue EXCEPT ![m].enabled = b]
  PROVE  \A n \in Name : /\ queue'[n].device = queue[n].device
                         /\ queue'[n].accepting = queue[n].accepting
                         /\ queue'[n].enabled = IF n = m THEN b ELSE queue[n].enabled
  BY DEF QueueTypeOK, Queue

LEMMA SetAccepting ==
  ASSUME QueueTypeOK, NEW m \in Name, NEW b \in BOOLEAN,
         queue' = [queue EXCEPT ![m].accepting = b]
  PROVE  \A n \in Name : /\ queue'[n].device = queue[n].device
                         /\ queue'[n].enabled = queue[n].enabled
                         /\ queue'[n].accepting = IF n = m THEN b ELSE queue[n].accepting
  BY DEF QueueTypeOK, Queue

LEMMA SetDevice ==
  ASSUME QueueTypeOK, NEW m \in Name, NEW d \in Transport,
         queue' = [queue EXCEPT ![m].device = d]
  PROVE  \A n \in Name : /\ queue'[n].enabled = queue[n].enabled
                         /\ queue'[n].accepting = queue[n].accepting
                         /\ queue'[n].device = IF n = m THEN d ELSE queue[n].device
  BY DEF QueueTypeOK, Queue

\* Every step keeps the strengthened invariant.
LEMMA MigrationStep ==
  ASSUME QueueTypeOK, QueueTypeOK', MigrationInv, [QueueNext]_queueVars
  PROVE  MigrationInv'
  <1> USE DEF QueueTypeOK, MigrationInv, MigratesSafely, UnmadeIsClosed, JobsKeepTransport,
              ClosedOnTheWay, machine, jobs, cups, Queue, NoQueue, Transport
  <1>1. ASSUME NEW n \in Name, NEW j \in ClientJob, Submit(n, j) PROVE MigrationInv'
    BY <1>1 DEF Submit
  <1>2. ASSUME NEW n \in Name, NEW j \in ClientJob, PrintJob(n, j) PROVE MigrationInv'
    BY <1>2 DEF PrintJob, Prints
  <1>3. ASSUME NEW n \in Name, StopQueue(n) PROVE MigrationInv'
    <2>1. \A m \in Name : /\ queue'[m].device = queue[m].device
                          /\ queue'[m].accepting = queue[m].accepting
                          /\ queue'[m].enabled = IF m = n THEN FALSE ELSE queue[m].enabled
      BY <1>3, SetEnabled DEF StopQueue
    <2> QED
      BY <1>3, <2>1 DEF StopQueue
  <1>4. ASSUME PlugOrUnplug PROVE MigrationInv'
    BY <1>4 DEF PlugOrUnplug
  <1>5. ASSUME Start PROVE MigrationInv'
    BY <1>5 DEF Start, Goto
  <1>6. ASSUME HoldLegacyQueue PROVE MigrationInv'
    BY <1>6 DEF HoldLegacyQueue, Goto
  <1>7. ASSUME InstallFiles PROVE MigrationInv'
    BY <1>7 DEF InstallFiles, Goto
  <1>8. ASSUME CheckQueue PROVE MigrationInv'
    BY <1>8 DEF CheckQueue, Goto
  <1>9. ASSUME PlanMigration PROVE MigrationInv'
    BY <1>9 DEF PlanMigration, Goto
  <1>10. ASSUME RefusePlan PROVE MigrationInv'
    BY <1>10 DEF RefusePlan, Stop
  <1>11. ASSUME DisableQueue PROVE MigrationInv'
    <2>1. \A m \in Name : /\ queue'[m].device = queue[m].device
                          /\ queue'[m].accepting = queue[m].accepting
                          /\ queue'[m].enabled = IF m = target THEN FALSE ELSE queue[m].enabled
      BY <1>11, SetEnabled DEF DisableQueue, Goto
    <2> QED
      BY <1>11, <2>1 DEF DisableQueue, Goto
  <1>12. ASSUME RejectJobs PROVE MigrationInv'
    <2>1. \A m \in Name : /\ queue'[m].device = queue[m].device
                          /\ queue'[m].enabled = queue[m].enabled
                          /\ queue'[m].accepting = IF m = target THEN FALSE ELSE queue[m].accepting
      BY <1>12, SetAccepting DEF RejectJobs, Goto
    <2> QED
      BY <1>12, <2>1 DEF RejectJobs, Goto
  <1>13. ASSUME CancelJobs PROVE MigrationInv'
    BY <1>13 DEF CancelJobs, Goto
  <1>14. ASSUME ConfigureQueue PROVE MigrationInv'
    <2>1. \A m \in Name : /\ queue'[m].enabled = queue[m].enabled
                          /\ queue'[m].accepting = queue[m].accepting
                          /\ queue'[m].device = IF m = target THEN "usb" ELSE queue[m].device
      BY <1>14, SetDevice DEF ConfigureQueue, Goto
    <2> QED
      BY <1>14, <2>1 DEF ConfigureQueue, Goto
  <1>15. ASSUME VerifyQueue PROVE MigrationInv'
    BY <1>15 DEF VerifyQueue, Goto
  <1>16. ASSUME ReleaseHold PROVE MigrationInv'
    BY <1>16 DEF ReleaseHold, Goto
  <1>17. ASSUME AcceptJobs PROVE MigrationInv'
    <2>1. \A m \in Name : /\ queue'[m].device = queue[m].device
                          /\ queue'[m].enabled = queue[m].enabled
                          /\ queue'[m].accepting = IF m = target THEN TRUE ELSE queue[m].accepting
      BY <1>17, SetAccepting DEF AcceptJobs, Goto
    <2> QED
      BY <1>17, <2>1 DEF AcceptJobs, Goto
  <1>18. ASSUME EnableQueue PROVE MigrationInv'
    <2>1. \A m \in Name : /\ queue'[m].device = queue[m].device
                          /\ queue'[m].accepting = queue[m].accepting
                          /\ queue'[m].enabled = IF m = target THEN TRUE ELSE queue[m].enabled
      BY <1>18, SetEnabled DEF EnableQueue, Goto
    <2> QED
      BY <1>18, <2>1 DEF EnableQueue, Goto
  <1>19. ASSUME CheckHealth PROVE MigrationInv'
    BY <1>19 DEF CheckHealth, Goto
  <1>20. ASSUME RefuseState PROVE MigrationInv'
    BY <1>20 DEF RefuseState, Stop
  <1>21. ASSUME Finish PROVE MigrationInv'
    BY <1>21 DEF Finish
  <1>22. ASSUME UndoEnable PROVE MigrationInv'
    <2>1. \A m \in Name : /\ queue'[m].device = queue[m].device
                          /\ queue'[m].accepting = queue[m].accepting
                          /\ queue'[m].enabled = IF m = target THEN FALSE ELSE queue[m].enabled
      BY <1>22, SetEnabled DEF UndoEnable, Goto
    <2> QED
      BY <1>22, <2>1 DEF UndoEnable, Goto
  <1>23. ASSUME UndoAccept PROVE MigrationInv'
    <2>1. \A m \in Name : /\ queue'[m].device = queue[m].device
                          /\ queue'[m].enabled = queue[m].enabled
                          /\ queue'[m].accepting = IF m = target THEN FALSE ELSE queue[m].accepting
      BY <1>23, SetAccepting DEF UndoAccept, Goto
    <2> QED
      BY <1>23, <2>1 DEF UndoAccept, Goto
  <1>24. ASSUME UndoRelease PROVE MigrationInv'
    BY <1>24 DEF UndoRelease, Goto
  <1>25. ASSUME CommandFails PROVE MigrationInv'
    BY <1>25 DEF CommandFails, Stop
  <1>26. ASSUME Kill PROVE MigrationInv'
    BY <1>26 DEF Kill
  <1>27. ASSUME TrapCommandFails PROVE MigrationInv'
    BY <1>27 DEF TrapCommandFails, Trap
  <1>28. CASE UNCHANGED queueVars
    BY <1>28 DEF queueVars
  <1> QED
    BY <1>1, <1>2, <1>3, <1>4, <1>5, <1>6, <1>7, <1>8, <1>9, <1>10, <1>11, <1>12, <1>13, <1>14, <1>15, <1>16, <1>17, <1>18, <1>19, <1>20, <1>21, <1>22, <1>23, <1>24, <1>25, <1>26, <1>27, <1>28
       DEF QueueNext, Script, Printing

\* The strengthened invariant holds in every reachable state.
THEOREM MigrationInvariant == QueueSpec => [](QueueTypeOK /\ MigrationInv)
  <1>1. ASSUME QueueInit PROVE QueueTypeOK /\ MigrationInv
    <2>1. PICK legacy \in BOOLEAN :
            /\ legacy => script = "install"
            /\ queue = [n \in Name |-> IF legacy /\ n = "Rongta_F11"
                 THEN [device |-> "f11", enabled |-> TRUE, accepting |-> TRUE] ELSE NoQueue]
            /\ backend = IF legacy THEN "old" ELSE "none"
      BY <1>1 DEF QueueInit
    <2>2. \A n \in Name : /\ queue[n] \in Queue
                          /\ queue[n].device \in {"none", "f11"}
                          /\ queue[n].device = "none" => ~queue[n].enabled /\ ~queue[n].accepting
                          /\ queue[n].device = "f11" => script = "install"
      BY <2>1 DEF Queue, NoQueue, Transport
    <2>3. QueueTypeOK
      <3>1. queue \in [Name -> Queue]
        BY <2>1, <2>2
      <3>2. /\ script \in {"install", "provision"} /\ target \in Name
            /\ command = "idle" /\ result = "none" /\ verified = FALSE
            /\ failed = {} /\ faults = 0 /\ backend \in {"none", "old"} /\ printer \in {"one", "other"}
        BY <1>1, <2>1 DEF QueueInit
      <3>3. /\ waiting \in [Name -> SUBSET ClientJob]
            /\ sentOn \in [ClientJob -> Transport] /\ printedOn \in [ClientJob -> Transport]
        BY <1>1 DEF QueueInit, Transport
      <3>4. faults \in 0..MaxFaults
        BY <3>2, FaultAssumption
      <3> QED
        BY <3>1, <3>2, <3>3, <3>4 DEF QueueTypeOK
    <2> QED
      BY <1>1, <2>2, <2>3 DEF QueueInit, QueueTypeOK, MigrationInv, MigratesSafely, UnmadeIsClosed,
           JobsKeepTransport, ClosedOnTheWay
  <1>2. QueueTypeOK /\ MigrationInv /\ [QueueNext]_queueVars => (QueueTypeOK /\ MigrationInv)'
    BY QueueTypeStep, MigrationStep
  <1> QED
    BY <1>1, <1>2, PTL DEF QueueSpec

\* The variables keep their types.
THEOREM QueueTypeCorrect == QueueSpec => []QueueTypeOK
  BY MigrationInvariant, PTL

\* Wherever the installer is stopped and however often it is started over, no
\* job that was accepted for the old transport is printed on the new one, the
\* queue prints on USB only as it was last verified, and after a migration that
\* ended with an error an end of the queue is open only if the very command of the
\* trap that closes it failed.
THEOREM SafeMigration == QueueSpec => []MigratesSafely
  <1>1. MigrationInv => MigratesSafely
    BY DEF MigrationInv
  <1> QED
    BY <1>1, MigrationInvariant, PTL

(***************************************************************************)
(* The activity LED                                                        *)
(***************************************************************************)

Filtering == {"prepare", "stream"}

\* What the filter and the daemon know of each other: a job that is rendered
\* or sent has a running filter, the directory is there while the daemon runs,
\* a marker is in it, and a marker that is about to be removed is one whose
\* process did not answer and does not answer now.
LedInv ==
  /\ stage \in Filtering => filter \in alive
  /\ stage \notin Filtering => filter = nobody
  /\ filter \notin own
  /\ dir <=> dpc # "down"
  /\ markers # {} => dir
  /\ ~Answers(doomed)

\* While the daemon runs, the LED does what the daemon believes it does.
LampAsBelieved == dpc # "down" => (active <=> led = "blink")

LEMMA LedTypeStep == LedTypeOK /\ LedInv /\ [LedNext]_ledVars => LedTypeOK'
  <1> SUFFICES ASSUME LedTypeOK, LedInv, [LedNext]_ledVars
               PROVE  LedTypeOK'
    OBVIOUS
  <1> USE KillsAssumption DEF LedTypeOK, Stage, printing, lamp, round
  <1>1. ASSUME NEW p \in Pid, StartJob(p) PROVE LedTypeOK'
    BY <1>1 DEF StartJob
  <1>2. ASSUME NEW p \in Pid, Reuse(p) PROVE LedTypeOK'
    BY <1>2 DEF Reuse
  <1>3. ASSUME NEW p \in Pid, OtherEnds(p) PROVE LedTypeOK'
    BY <1>3 DEF OtherEnds
  <1>4. CASE StartStream
    <2>1. filter \in Pid
      BY <1>4 DEF StartStream, LedInv, Filtering
    <2> QED
      BY <1>4, <2>1 DEF StartStream
  <1>f. filter \notin own
    BY DEF LedInv
  <1>5. CASE EndFilter
    BY <1>5, <1>f DEF EndFilter
  <1>6. CASE FailJob
    BY <1>6, <1>f DEF FailJob
  <1>7. CASE KillFilter
    <2>1. kills' \in 0..MaxKills
      BY <1>7 DEF KillFilter
    <2> QED
      BY <1>7, <1>f, <2>1 DEF KillFilter
  <1>8. CASE EndJob
    BY <1>8 DEF EndJob
  <1>9. CASE StartDaemon
    BY <1>9 DEF StartDaemon
  <1>10. CASE Glob
    BY <1>10 DEF Glob
  <1>11. ASSUME NEW p \in Pid, LookAt(p) PROVE LedTypeOK'
    BY <1>11 DEF LookAt
  <1>12. CASE RemoveMarker
    BY <1>12 DEF RemoveMarker
  <1>13. CASE Decide
    BY <1>13 DEF Decide
  <1>14. CASE StopDaemon
    <2>1. kills' \in 0..MaxKills
      BY <1>14 DEF StopDaemon
    <2> QED
      BY <1>14, <2>1 DEF StopDaemon, DaemonGone
  <1>15. CASE UNCHANGED ledVars
    BY <1>15 DEF ledVars
  <1> QED
    BY <1>1, <1>2, <1>3, <1>4, <1>5, <1>6, <1>7, <1>8, <1>9, <1>10, <1>11, <1>12, <1>13, <1>14, <1>15
       DEF LedNext, Daemon

LEMMA LedInvStep == LedTypeOK /\ LedInv /\ [LedNext]_ledVars => LedInv'
  <1> SUFFICES ASSUME LedTypeOK, LedInv, [LedNext]_ledVars
               PROVE  LedInv'
    OBVIOUS
  <1> USE NobodyAssumption DEF LedInv, Filtering, Stage, printing, lamp, round, Answers
  <1>n. nobody \notin alive /\ own \subseteq alive /\ alive \subseteq Pid
    BY DEF LedTypeOK
  <1>1. ASSUME NEW p \in Pid, StartJob(p) PROVE LedInv'
    BY <1>1, <1>n DEF StartJob
  <1>2. ASSUME NEW p \in Pid, Reuse(p) PROVE LedInv'
    BY <1>2, <1>n DEF Reuse
  <1>3. ASSUME NEW p \in Pid, OtherEnds(p) PROVE LedInv'
    BY <1>3, <1>n DEF OtherEnds
  <1>4. CASE StartStream
    BY <1>4 DEF StartStream
  <1>5. CASE EndFilter
    BY <1>5, <1>n DEF EndFilter
  <1>6. CASE FailJob
    BY <1>6, <1>n DEF FailJob
  <1>7. CASE KillFilter
    BY <1>7, <1>n DEF KillFilter
  <1>8. CASE EndJob
    BY <1>8 DEF EndJob
  <1>9. CASE StartDaemon
    BY <1>9, <1>n DEF StartDaemon
  <1>10. CASE Glob
    BY <1>10 DEF Glob
  <1>11. ASSUME NEW p \in Pid, LookAt(p) PROVE LedInv'
    BY <1>11 DEF LookAt
  <1>12. CASE RemoveMarker
    BY <1>12, <1>n DEF RemoveMarker
  <1>13. CASE Decide
    BY <1>13 DEF Decide
  <1>14. CASE StopDaemon
    BY <1>14, <1>n DEF StopDaemon, DaemonGone
  <1>15. CASE UNCHANGED ledVars
    BY <1>15 DEF ledVars
  <1> QED
    BY <1>1, <1>2, <1>3, <1>4, <1>5, <1>6, <1>7, <1>8, <1>9, <1>10, <1>11, <1>12, <1>13, <1>14, <1>15
       DEF LedNext, Daemon

LEMMA LedInvariant == LedSpec => [](LedTypeOK /\ LedInv)
  <1>1. LedInit => LedTypeOK /\ LedInv
    <2> SUFFICES ASSUME LedInit PROVE LedTypeOK /\ LedInv
      OBVIOUS
    <2>1. kills \in 0..MaxKills
      BY KillsAssumption DEF LedInit
    <2> QED
      BY <2>1, NobodyAssumption DEF LedInit, LedTypeOK, LedInv, Stage, Filtering, Answers
  <1>2. LedTypeOK /\ LedInv /\ [LedNext]_ledVars => (LedTypeOK /\ LedInv)'
    BY LedTypeStep, LedInvStep
  <1> QED
    BY <1>1, <1>2, PTL DEF LedSpec

\* The variables of the LED's specification keep their types.
THEOREM LedTypeCorrect == LedSpec => []LedTypeOK
  BY LedInvariant, PTL

\* Between its check of a process and the removal of the marker the daemon loses
\* no marker of a process that answers kill -0: while the directory is there, a
\* marker whose process answers is removed by its own filter alone, whatever was
\* killed and whichever ids root's or other users' processes have got since.
\* With CAP_KILL every running process answers, so the marker of a job stays; under
\* the shipped unit the filter, which is lp's, does not.
AnsweredMarkersStay ==
  [][dir /\ dir' =>
       \A p \in markers \ markers' : Answers(p) => p = filter /\ filter' = nobody]_ledVars

\* The daemon, with or without CAP_KILL, removes no marker whose process answers.
THEOREM MarkersAreKept == LedSpec => AnsweredMarkersStay
  <1> DEFINE Stay == dir /\ dir' =>
               \A p \in markers \ markers' : Answers(p) => p = filter /\ filter' = nobody
  <1>1. LedTypeOK /\ LedInv /\ [LedNext]_ledVars => [Stay]_ledVars
    <2> SUFFICES ASSUME LedTypeOK, LedInv, LedNext, dir, dir',
                        NEW p \in markers, p \notin markers', Answers(p)
                 PROVE  p = filter /\ filter' = nobody
      OBVIOUS
    <2>1. p # doomed
      BY DEF LedInv
    <2>2. CASE RemoveMarker
      BY <2>1, <2>2 DEF RemoveMarker
    <2>3. CASE StopDaemon
      BY <2>3 DEF StopDaemon, DaemonGone
    <2>4. CASE EndFilter
      BY <2>4 DEF EndFilter
    <2>5. CASE StartStream \/ FailJob \/ KillFilter \/ EndJob
      BY <2>5 DEF StartStream, FailJob, KillFilter, EndJob
    <2>6. CASE StartDaemon \/ Glob \/ Decide
      BY <2>6 DEF StartDaemon, Glob, Decide
    <2>7. ASSUME NEW q \in Pid, StartJob(q) \/ Reuse(q) \/ OtherEnds(q) \/ LookAt(q)
          PROVE  FALSE
      BY <2>7 DEF StartJob, Reuse, OtherEnds, LookAt
    <2> QED
      BY <2>2, <2>3, <2>4, <2>5, <2>6, <2>7 DEF LedNext, Daemon
  <1> QED
    BY <1>1, LedInvariant, PTL DEF LedSpec, AnsweredMarkersStay

\* While the daemon runs the LED does what the daemon believes it does, whatever
\* state a daemon that was killed has left it in.
THEOREM LampFollows == LedSpec => []LampAsBelieved
  <1>1. LedInit => LampAsBelieved
    BY DEF LedInit, LampAsBelieved
  <1>2. LampAsBelieved /\ [LedNext]_ledVars => LampAsBelieved'
    <2> SUFFICES ASSUME LampAsBelieved, [LedNext]_ledVars
                 PROVE  LampAsBelieved'
      OBVIOUS
    <2> USE DEF LampAsBelieved, printing, lamp, round
    <2>1. CASE RemoveMarker \/ EndFilter \/ StartStream \/ FailJob \/ KillFilter \/ EndJob
      BY <2>1 DEF RemoveMarker, EndFilter, StartStream, FailJob, KillFilter, EndJob
    <2>2. CASE StartDaemon
      BY <2>2 DEF StartDaemon
    <2>3. CASE Glob
      BY <2>3 DEF Glob
    <2>4. CASE Decide
      BY <2>4 DEF Decide
    <2>5. CASE StopDaemon
      BY <2>5 DEF StopDaemon, DaemonGone
    <2>6. ASSUME NEW p \in Pid, StartJob(p) \/ Reuse(p) \/ OtherEnds(p) \/ LookAt(p)
          PROVE  LampAsBelieved'
      BY <2>6 DEF StartJob, Reuse, OtherEnds, LookAt
    <2>7. CASE UNCHANGED ledVars
      BY <2>7 DEF ledVars
    <2> QED
      BY <2>1, <2>2, <2>3, <2>4, <2>5, <2>6, <2>7 DEF LedNext, Daemon
  <1> QED
    BY <1>1, <1>2, PTL DEF LedSpec
=============================================================================
