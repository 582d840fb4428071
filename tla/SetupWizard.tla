----------------------------- MODULE SetupWizard -----------------------------
(***************************************************************************)
(* The setup wizard (cmd/f11-setup-wizard/main.go), its checkpoint file    *)
(* (internal/setupstate/state.go) and the privileged helper it calls       *)
(* (cmd/f11-setup-helper/main.go).                                         *)
(*                                                                         *)
(* Every HTTP request runs in its own goroutine.  A handler loads the      *)
(* checkpoints once, checks its prerequisite on that snapshot, may wait    *)
(* seconds for the helper, and then saves the snapshot with one checkpoint *)
(* added: nothing locks the file between the load and the save.  The       *)
(* optional physical test saves first and only then asks the helper to     *)
(* print; the helper creates a file with O_EXCL, syncs it, and prints, in  *)
(* a goroutine that outlives both the request and the wizard.              *)
(***************************************************************************)
EXTENDS Naturals

CONSTANT Request        \* handlers that may run at the same time

\* Stages whose checkpoint is granted by a successful operation.
Verified == {"network", "printer", "twitch", "eventsub", "preview"}
Checkpoint == Verified \cup {"welcome", "physical_attempted", "complete"}

\* Checkpoints a handler needs in its snapshot before it goes on.
Needs == [c \in Checkpoint |->
  CASE c = "welcome"            -> {}
    [] c = "network"            -> {"welcome"}
    [] c = "printer"            -> {"network"}
    [] c = "twitch"             -> {"printer"}
    [] c = "eventsub"           -> {"twitch"}
    [] c = "preview"            -> {"printer"}
    [] c = "physical_attempted" -> {"preview"}
    [] c = "complete"           -> {"twitch", "eventsub", "preview"}]

VARIABLES
  disk,       \* checkpoints in state.json
  pc,         \* where each handler is
  goal,       \* the checkpoint each handler works for
  snap,       \* the snapshot each handler loaded
  evidence,   \* history: stages whose operation has succeeded
  saved,      \* history: checkpoints that were ever on disk
  attempt,    \* the helper's physical-attempt file
  job,        \* the helper's goroutine for the print request of a handler
  sheets,     \* test banners handed to the print queue
  advice      \* what the helper's last answer to physical_test told the user

wizard == <<pc, goal, snap>>
helper == <<attempt, job, sheets, advice>>
vars == <<disk, pc, goal, snap, evidence, saved, attempt, job, sheets, advice>>

PC == {"free", "helper", "save", "print", "wait"}
AttemptFile == {"none", "created", "durable"}
Job == {"none", "requested", "created", "reserved"}
Advice == {"none", "inspect", "retry"}

Init ==
  /\ disk = {} /\ evidence = {} /\ saved = {}
  /\ pc = [r \in Request |-> "free"]
  /\ goal = [r \in Request |-> "welcome"]
  /\ snap = [r \in Request |-> {}]
  /\ attempt = "none"
  /\ job = [r \in Request |-> "none"]
  /\ sheets = 0
  /\ advice = "none"

----------------------------------------------------------------------------
(* Handlers: load, check, ask the helper, save *)

Return(r) ==
  /\ pc' = [pc EXCEPT ![r] = "free"]
  /\ goal' = [goal EXCEPT ![r] = "welcome"]
  /\ snap' = [snap EXCEPT ![r] = {}]

\* Mutant of StartAction: need() is not called.
MutantNoNeed(r, c) ==
  /\ pc[r] = "free" /\ job[r] = "none"
  /\ goal' = [goal EXCEPT ![r] = c]
  /\ snap' = [snap EXCEPT ![r] = IF c \in {"welcome", "complete"} THEN disk \cup {c} ELSE disk]
  /\ pc' = [pc EXCEPT ![r] = IF c \in {"welcome", "complete"} THEN "save" ELSE "helper"]
  /\ UNCHANGED <<disk, evidence, saved, helper>>

\* POST /action/...: state.Load, then need().  A missing prerequisite, or a
\* physical test that was already attempted, ends the handler at once.
StartAction(r, c) ==
  /\ pc[r] = "free" /\ job[r] = "none"
  /\ Needs[c] \subseteq disk
  /\ c = "physical_attempted" => c \notin disk
  /\ goal' = [goal EXCEPT ![r] = c]
  /\ IF c \in {"welcome", "complete"}
       THEN /\ snap' = [snap EXCEPT ![r] = disk \cup {c}]
            /\ pc' = [pc EXCEPT ![r] = "save"]
       ELSE /\ snap' = [snap EXCEPT ![r] = disk]
            /\ pc' = [pc EXCEPT ![r] = "helper"]
  /\ UNCHANGED <<disk, evidence, saved, helper>>

\* GET /: grants welcome by itself when it is missing, and asks the helper
\* about the network while that checkpoint is missing too.
StartHome(r) ==
  /\ pc[r] = "free" /\ job[r] = "none"
  /\ ~({"welcome", "network"} \subseteq disk)
  /\ goal' = [goal EXCEPT ![r] = IF "welcome" \in disk THEN "network" ELSE "welcome"]
  /\ snap' = [snap EXCEPT ![r] = disk \cup {"welcome"}]
  /\ pc' = [pc EXCEPT ![r] = IF "network" \in disk THEN "save" ELSE "helper"]
  /\ UNCHANGED <<disk, evidence, saved, helper>>

\* What the helper's answer is about: a home page that is granting welcome is
\* waiting for the network's status.
Asked(r) == IF goal[r] = "welcome" THEN "network" ELSE goal[r]

\* The operation of the stage succeeded: wifi_status or wifi_connect,
\* printer_probe and printer_configure, the Twitch poll and twitch_install,
\* service_status, preview_test, or the probe before a physical test.
OperationSucceeds(r) ==
  /\ pc[r] = "helper"
  /\ snap' = [snap EXCEPT ![r] = @ \cup {Asked(r)}]
  /\ evidence' = evidence \cup ({Asked(r)} \cap Verified)
  /\ pc' = [pc EXCEPT ![r] = "save"]
  /\ UNCHANGED <<disk, goal, saved, helper>>

\* Mutant of OperationFails: the helper's answer is not looked at.
MutantAnswerIgnored(r) ==
  /\ pc[r] = "helper"
  /\ snap' = [snap EXCEPT ![r] = @ \cup {Asked(r)}]
  /\ pc' = [pc EXCEPT ![r] = "save"]
  /\ UNCHANGED <<disk, goal, evidence, saved, helper>>

\* The helper refused, failed or did not answer in time.  Only a home page
\* that is granting welcome still saves.
OperationFails(r) ==
  /\ pc[r] = "helper"
  /\ IF goal[r] = "welcome"
       THEN pc' = [pc EXCEPT ![r] = "save"] /\ UNCHANGED <<goal, snap>>
       ELSE Return(r)
  /\ UNCHANGED <<disk, evidence, saved, helper>>

\* Store.Save: a temporary file, fsync, rename, fsync of the directory.  The
\* whole snapshot replaces the file.
Save(r) ==
  /\ pc[r] = "save"
  /\ disk' = snap[r]
  /\ saved' = saved \cup snap[r]
  /\ IF goal[r] = "physical_attempted"
       THEN pc' = [pc EXCEPT ![r] = "print"] /\ UNCHANGED <<goal, snap>>
       ELSE Return(r)
  /\ UNCHANGED <<evidence, helper>>

\* Mutant of SaveFails: the physical test goes on without its checkpoint.
MutantSaveErrorIgnored(r) ==
  /\ pc[r] = "save"
  /\ IF goal[r] = "physical_attempted"
       THEN pc' = [pc EXCEPT ![r] = "print"] /\ UNCHANGED <<goal, snap>>
       ELSE Return(r)
  /\ UNCHANGED <<disk, evidence, saved, helper>>

\* Save returns an error, before the rename or after it.
SaveFails(r) ==
  /\ pc[r] = "save"
  /\ \/ UNCHANGED <<disk, saved>>
     \/ disk' = snap[r] /\ saved' = saved \cup snap[r]
  /\ Return(r)
  /\ UNCHANGED <<evidence, helper>>

----------------------------------------------------------------------------
(* The physical test *)

\* The wizard hands physical_test to the helper's socket, or fails to.
AskHelperToPrint(r) ==
  /\ pc[r] = "print"
  /\ \/ /\ pc' = [pc EXCEPT ![r] = "wait"]
        /\ job' = [job EXCEPT ![r] = "requested"]
        /\ UNCHANGED <<goal, snap>>
     \/ Return(r) /\ UNCHANGED job
  /\ UNCHANGED <<disk, evidence, saved, attempt, sheets, advice>>

\* An answer, or ten seconds without one; the helper goes on regardless.
StopWaiting(r) ==
  /\ pc[r] = "wait"
  /\ Return(r)
  /\ UNCHANGED <<disk, evidence, saved, helper>>

\* Mutant of ReserveAttempt: O_CREATE without O_EXCL.
MutantNoExcl(r) ==
  /\ job[r] = "requested"
  /\ attempt' = "created"
  /\ job' = [job EXCEPT ![r] = "created"]
  /\ UNCHANGED <<disk, wizard, evidence, saved, sheets, advice>>

\* reservePhysicalAttempt: the file exists already and the request is refused,
\* or O_EXCL creates it.
ReserveAttempt(r) ==
  /\ job[r] = "requested"
  /\ \/ /\ attempt # "none"
        /\ job' = [job EXCEPT ![r] = "none"]
        /\ advice' = "inspect"
        /\ UNCHANGED attempt
     \/ /\ attempt = "none"
        /\ attempt' = "created"
        /\ job' = [job EXCEPT ![r] = "created"]
        /\ UNCHANGED advice
  /\ UNCHANGED <<disk, wizard, evidence, saved, sheets>>

\* The file and its directory are synced, or an error refuses the request and
\* leaves the file behind.
SyncAttempt(r) ==
  /\ job[r] = "created"
  /\ \/ /\ attempt' = "durable"
        /\ job' = [job EXCEPT ![r] = "reserved"]
        /\ UNCHANGED advice
     \/ /\ job' = [job EXCEPT ![r] = "none"]
        /\ advice' = "inspect"
        /\ UNCHANGED attempt
  /\ UNCHANGED <<disk, wizard, evidence, saved, sheets>>

\* The one bannerprint command.  It confirms its job, or its report confirms
\* nothing, or the command itself fails or runs out of time; in the last two
\* cases the sheet may be in the queue all the same.
PrintTestSheet(r) ==
  /\ job[r] = "reserved"
  /\ \/ sheets' = sheets + 1 /\ advice' = "none"
     \/ sheets' \in {sheets, sheets + 1} /\ advice' \in {"inspect", "retry"}
  /\ job' = [job EXCEPT ![r] = "none"]
  /\ UNCHANGED <<disk, wizard, evidence, saved, attempt>>

----------------------------------------------------------------------------
(* Crashes *)

WizardExits ==
  /\ pc' = [r \in Request |-> "free"]
  /\ goal' = [r \in Request |-> "welcome"]
  /\ snap' = [r \in Request |-> {}]

WizardCrash ==
  /\ WizardExits
  /\ UNCHANGED <<disk, evidence, saved, helper>>

HelperCrash ==
  /\ job' = [r \in Request |-> "none"]
  /\ UNCHANGED <<disk, wizard, evidence, saved, attempt, sheets, advice>>

\* A file that was created but not synced may be gone after the reboot.
PowerLoss ==
  /\ WizardExits
  /\ job' = [r \in Request |-> "none"]
  /\ attempt' \in IF attempt = "created" THEN {"none", "durable"} ELSE {attempt}
  /\ UNCHANGED <<disk, evidence, saved, sheets, advice>>

----------------------------------------------------------------------------

Next ==
  \/ \E r \in Request :
       \/ \E c \in Checkpoint : StartAction(r, c)
       \/ StartHome(r)
       \/ OperationSucceeds(r) \/ OperationFails(r)
       \/ Save(r) \/ SaveFails(r)
       \/ AskHelperToPrint(r) \/ StopWaiting(r)
       \/ ReserveAttempt(r) \/ SyncAttempt(r) \/ PrintTestSheet(r)
  \/ WizardCrash \/ HelperCrash \/ PowerLoss

Spec == Init /\ [][Next]_vars

----------------------------------------------------------------------------
(* Properties *)

TypeOK ==
  /\ disk \in SUBSET Checkpoint
  /\ pc \in [Request -> PC]
  /\ goal \in [Request -> Checkpoint]
  /\ snap \in [Request -> SUBSET Checkpoint]
  /\ evidence \in SUBSET Verified
  /\ saved \in SUBSET Checkpoint
  /\ attempt \in AttemptFile
  /\ job \in [Request -> Job]
  /\ sheets \in Nat
  /\ advice \in Advice

Closed(S) == \A c \in S : Needs[c] \subseteq S

\* The saved progress is always a legal one: no interleaving of handlers, and
\* no crash, leaves a stage checked off without those it depends on.
StagesInOrder == Closed(disk)

\* Plan 2026-07-21, "never claims a stage passed without evidence": a saved
\* stage is one whose operation has succeeded.
NothingWithoutEvidence == disk \cap Verified \subseteq evidence

\* Plan 2026-07-21, "production side effects remain durable-at-most-once":
\* concurrent requests, timeouts, crashes of either process, power losses and
\* forgotten checkpoints together print one test sheet at most.
AtMostOneTestSheet == sheets <= 1

\* Paper comes only after both records of the attempt: the wizard's checkpoint
\* was saved and the helper's file cannot be lost any more.
PaperIsOnRecord ==
  sheets > 0 => "physical_attempted" \in saved /\ attempt = "durable"

\* Plan 2026-07-26, "durable setup checkpoints for required stages": progress
\* that was saved stays saved.
ProgressIsKept == [][disk \subseteq disk']_vars

\* Plan 2026-07-26, task 4, "No response recommends retry after durable
\* physical-attempt reservation or uncertain/accepted submission".
NoRetryAdvised == advice = "retry" => attempt # "durable"

(* The inductive invariant.  A snapshot is as legal as the file it was read *)
(* from, and a handler that waits for the helper has what its stage needs;  *)
(* the attempt file lets one job at a time come near the printer, and none  *)
(* once a sheet may have left it.                                           *)

SnapshotInv ==
  /\ \A r \in Request : Closed(snap[r]) /\ snap[r] \cap Verified \subseteq evidence
  /\ \A r \in Request : pc[r] = "helper" => Needs[Asked(r)] \subseteq snap[r]

AttemptInv ==
  /\ \A r \in Request : job[r] = "created" => attempt = "created"
  /\ \A r \in Request : job[r] = "reserved" => attempt = "durable" /\ sheets = 0
  /\ \A r, q \in Request :
       job[r] \in {"created", "reserved"} /\ job[q] \in {"created", "reserved"} => r = q

RecordInv ==
  /\ \A r \in Request :
       goal[r] = "physical_attempted" /\ pc[r] = "save" => goal[r] \in snap[r]
  /\ \A r \in Request :
       pc[r] = "print" \/ job[r] # "none" => "physical_attempted" \in saved

IInv == /\ TypeOK /\ StagesInOrder /\ NothingWithoutEvidence
        /\ SnapshotInv /\ AttemptInv /\ RecordInv
        /\ AtMostOneTestSheet /\ PaperIsOnRecord
=============================================================================
