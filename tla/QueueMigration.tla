--------------------------- MODULE QueueMigration ---------------------------
(***************************************************************************)
(* The CUPS queue of the printer and the two scripts that set it up:       *)
(* scripts/install.sh, which moves an older queue on the transport f11:/   *)
(* to CUPS's own USB backend, and provision-printer, which the setup       *)
(* wizard starts on an appliance.  Both stop at the first error, may be    *)
(* killed between any two commands, and are started over by their user,    *)
(* while clients send jobs to whatever queue accepts them.                 *)
(***************************************************************************)
EXTENDS Naturals

CONSTANTS ClientJob,  \* print jobs that clients send
          MaxFaults   \* bound: kills, failing commands, printers (un)plugged

ASSUME FaultAssumption == MaxFaults \in Nat

Name == {"Rongta_F11", "Rongta_F11_Media"}
Transport == {"none", "f11", "usb"}

\* cupsdisable and cupsreject close the two ends of a queue.
Queue == [device : Transport, enabled : BOOLEAN, accepting : BOOLEAN]
NoQueue == [device |-> "none", enabled |-> FALSE, accepting |-> FALSE]

\* The commands of install.sh once it has begun to migrate, and its trap.
Migrating == {"disable", "reject", "cancel", "lpadmin", "verify", "release",
              "accept", "enable", "health", "finish"}
Trap == {"undo_disable", "undo_reject", "undo_hold"}

VARIABLES
  script,     \* the script this machine is set up with
  target,     \* F11_QUEUE
  command,    \* the command that comes next
  result,     \* how the last run ended
  queue,      \* the queues of CUPS
  backend,    \* /usr/lib/cups/backend/f11: missing, the old one, or the hold
  printer,    \* exactly one F11 is attached, or another number of them
  waiting,    \* jobs in each queue
  sentOn,     \* history: the transport of its queue when a job was accepted
  printedOn,  \* history: the transport a job was printed on
  verified,   \* history: the last lpadmin of the target was verified
  failed,     \* history: the commands of the trap that failed when it last ran
  faults      \* faults so far

machine == <<script, target>>
jobs == <<waiting, sentOn, printedOn>>
cups == <<queue, backend>>
queueVars == <<machine, command, result, cups, printer, jobs, verified, failed, faults>>

QueueInit ==
  /\ script \in {"install", "provision"}
  /\ target \in {n \in Name : script = "provision" => n = "Rongta_F11_Media"}
  /\ \E legacy \in {b \in BOOLEAN : b => script = "install"} :
       /\ queue = [n \in Name |-> IF legacy /\ n = "Rongta_F11"
            THEN [device |-> "f11", enabled |-> TRUE, accepting |-> TRUE] ELSE NoQueue]
       /\ backend = IF legacy THEN "old" ELSE "none"
  /\ printer \in {"one", "other"}
  /\ waiting = [n \in Name |-> {}]
  /\ sentOn = [j \in ClientJob |-> "none"] /\ printedOn = [j \in ClientJob |-> "none"]
  /\ command = "idle" /\ result = "none" /\ verified = FALSE
  /\ failed = {} /\ faults = 0

----------------------------------------------------------------------------
(* CUPS, its clients and the printer *)

Submit(n, j) ==
  /\ queue[n].accepting /\ sentOn[j] = "none"
  /\ waiting' = [waiting EXCEPT ![n] = @ \cup {j}]
  /\ sentOn' = [sentOn EXCEPT ![j] = queue[n].device]
  /\ UNCHANGED <<machine, command, result, cups, printer, printedOn, verified, failed,
                 faults>>

Prints(n) == \/ queue[n].device = "usb" /\ printer = "one"
             \/ queue[n].device = "f11" /\ backend = "old"

PrintJob(n, j) ==
  /\ queue[n].enabled /\ j \in waiting[n] /\ Prints(n)
  /\ waiting' = [waiting EXCEPT ![n] = @ \ {j}]
  /\ printedOn' = [printedOn EXCEPT ![j] = queue[n].device]
  /\ UNCHANGED <<machine, command, result, cups, printer, sentOn, verified, failed, faults>>

\* The hold exits with 4, which stops the queue, as a missing backend does.
StopQueue(n) ==
  /\ queue[n].enabled /\ waiting[n] # {}
  /\ queue[n].device = "f11" /\ backend # "old"
  /\ queue' = [queue EXCEPT ![n].enabled = FALSE]
  /\ UNCHANGED <<machine, command, result, backend, printer, jobs, verified, failed, faults>>

PlugOrUnplug ==
  /\ faults < MaxFaults /\ faults' = faults + 1
  /\ printer' \in {"one", "other"} \ {printer}
  /\ UNCHANGED <<machine, command, result, cups, jobs, verified, failed>>

----------------------------------------------------------------------------
(* The scripts *)

Goto(step) == command' = step /\ UNCHANGED <<machine, result, printer, failed, faults>>

\* Both scripts end at the first error.  The trap of install.sh does more once
\* the migration has begun.
Stop(why) ==
  /\ IF script = "install" /\ command \in Migrating
       THEN command' = "undo_disable" /\ result' = "stopped"
       ELSE command' = "idle" /\ result' = why
  /\ failed' = {}
  /\ UNCHANGED <<machine, cups, printer, jobs, verified>>

Start ==
  /\ command = "idle"
  /\ Goto(IF script = "install" THEN "hold" ELSE "check")
  /\ UNCHANGED <<cups, jobs, verified>>

\* A machine that has the old backend or any queue gets the hold at once.
HoldLegacyQueue ==
  /\ command = "hold"
  /\ backend' = IF backend # "none" \/ \E n \in Name : queue[n] # NoQueue
                  THEN "hold" ELSE backend
  /\ Goto("install")
  /\ UNCHANGED <<queue, jobs, verified>>

\* Packages, tests, build and files, the hold among them.
InstallFiles ==
  /\ command = "install"
  /\ backend' = "hold"
  /\ Goto("plan")
  /\ UNCHANGED <<queue, jobs, verified>>

\* provision-printer looks at the queue itself, by its own name.
CheckQueue ==
  /\ command = "check" /\ queue[target].device \in {"none", "usb"}
  /\ Goto("plan")
  /\ UNCHANGED <<cups, jobs, verified>>

\* Mutant of Manages: provision-printer leaves the check to the planner.
MutantPlannerManages ==
  queue[target] # NoQueue => target = "Rongta_F11"

\* plan-queue-migration knows a current queue by the name Rongta_F11 only;
\* provision-printer tells it of none.
Manages ==
  script = "install" /\ queue[target] # NoQueue => target = "Rongta_F11"

PlanMigration ==
  /\ command = "plan" /\ Manages /\ printer = "one"
  /\ Goto(IF script = "install" /\ queue[target] # NoQueue THEN "disable" ELSE "lpadmin")
  /\ UNCHANGED <<cups, jobs, verified>>

RefusePlan ==
  /\ command = "plan" /\ (~Manages \/ printer # "one")
  /\ Stop("refused") /\ UNCHANGED faults

DisableQueue ==
  /\ command = "disable"
  /\ queue' = [queue EXCEPT ![target].enabled = FALSE]
  /\ Goto("reject")
  /\ UNCHANGED <<backend, jobs, verified>>

\* Mutant of RejectJobs: the queue is stopped and stays open to clients.
MutantStillAccepting ==
  /\ command = "reject"
  /\ Goto("cancel")
  /\ UNCHANGED <<cups, jobs, verified>>

RejectJobs ==
  /\ command = "reject"
  /\ queue' = [queue EXCEPT ![target].accepting = FALSE]
  /\ Goto("cancel")
  /\ UNCHANGED <<backend, jobs, verified>>

CancelJobs ==
  /\ command = "cancel"
  /\ waiting' = [waiting EXCEPT ![target] = {}]
  /\ Goto("lpadmin")
  /\ UNCHANGED <<cups, sentOn, printedOn, verified>>

\* lpadmin makes a new queue closed and leaves the ends of an old one alone.
ConfigureQueue ==
  /\ command = "lpadmin"
  /\ queue' = [queue EXCEPT ![target].device = "usb"]
  /\ verified' = FALSE
  /\ Goto(IF script = "install" THEN "verify" ELSE "accept")
  /\ UNCHANGED <<backend, jobs>>

VerifyQueue ==
  /\ command = "verify" /\ printer = "one"
  /\ verified' = TRUE
  /\ Goto("release")
  /\ UNCHANGED <<cups, jobs>>

ReleaseHold ==
  /\ command = "release"
  /\ backend' = "none"
  /\ Goto("accept")
  /\ UNCHANGED <<queue, jobs, verified>>

AcceptJobs ==
  /\ command = "accept"
  /\ queue' = [queue EXCEPT ![target].accepting = TRUE]
  /\ Goto("enable")
  /\ UNCHANGED <<backend, jobs, verified>>

EnableQueue ==
  /\ command = "enable"
  /\ queue' = [queue EXCEPT ![target].enabled = TRUE]
  /\ Goto("health")
  /\ UNCHANGED <<backend, jobs, verified>>

\* f11-health.  The unit that install.sh starts has the name in its
\* environment; the wizard's script passes its own, which is the same.
Healthy ==
  /\ backend = "none" /\ printer = "one"
  /\ queue["Rongta_F11_Media"] = [device |-> "usb", enabled |-> TRUE, accepting |-> TRUE]
  /\ waiting["Rongta_F11_Media"] = {}

CheckHealth ==
  /\ command = "health" /\ Healthy
  /\ Goto("finish")
  /\ UNCHANGED <<cups, jobs, verified>>

\* A check that does not pass ends the script.
RefuseState ==
  /\ \/ command = "check" /\ queue[target].device = "f11"
     \/ command = "verify" /\ printer # "one"
     \/ command = "health" /\ ~Healthy
  /\ Stop("refused") /\ UNCHANGED faults

Finish ==
  /\ command = "finish"
  /\ command' = "idle" /\ result' = "done"
  /\ UNCHANGED <<machine, cups, printer, jobs, verified, failed, faults>>

\* The trap closes the queue and puts the hold back.
UndoEnable ==
  /\ command = "undo_disable"
  /\ queue' = [queue EXCEPT ![target].enabled = FALSE]
  /\ Goto("undo_reject")
  /\ UNCHANGED <<backend, jobs, verified>>

UndoAccept ==
  /\ command = "undo_reject"
  /\ queue' = [queue EXCEPT ![target].accepting = FALSE]
  /\ Goto("undo_hold")
  /\ UNCHANGED <<backend, jobs, verified>>

UndoRelease ==
  /\ command = "undo_hold"
  /\ backend' = "hold"
  /\ Goto("idle")
  /\ UNCHANGED <<queue, jobs, verified>>

\* A command of the trap that fails, as cupsdisable does while CUPS is down, is
\* passed over: "|| true".
TrapCommandFails ==
  /\ command \in Trap
  /\ faults < MaxFaults /\ faults' = faults + 1
  /\ failed' = failed \cup {command}
  /\ command' = CASE command = "undo_disable" -> "undo_reject"
                   [] command = "undo_reject" -> "undo_hold"
                   [] OTHER -> "idle"
  /\ UNCHANGED <<machine, result, cups, printer, jobs, verified>>

\* Any other command may fail, and ends the script.
CommandFails ==
  /\ command \notin {"idle"} \cup Trap
  /\ faults < MaxFaults /\ faults' = faults + 1
  /\ Stop("failed")

\* The helper's timeout, or the power: nothing runs any more, not even a trap.
Kill ==
  /\ command # "idle"
  /\ faults < MaxFaults /\ faults' = faults + 1
  /\ command' = "idle" /\ result' = "killed"
  /\ UNCHANGED <<machine, cups, printer, jobs, verified, failed>>

----------------------------------------------------------------------------

Script ==
  \/ HoldLegacyQueue \/ InstallFiles \/ CheckQueue \/ PlanMigration \/ RefusePlan
  \/ DisableQueue \/ RejectJobs \/ CancelJobs \/ ConfigureQueue \/ VerifyQueue
  \/ ReleaseHold \/ AcceptJobs \/ EnableQueue \/ CheckHealth \/ RefuseState \/ Finish
  \/ UndoEnable \/ UndoAccept \/ UndoRelease

Printing == \E n \in Name, j \in ClientJob : PrintJob(n, j)

QueueNext ==
  \/ \E n \in Name, j \in ClientJob : Submit(n, j)
  \/ Printing
  \/ \E n \in Name : StopQueue(n)
  \/ PlugOrUnplug
  \/ Start \/ Script \/ CommandFails \/ TrapCommandFails \/ Kill

QueueSpec == QueueInit /\ [][QueueNext]_queueVars

\* Commands end, CUPS prints what it can, and the user tries again.
FairQueueSpec == QueueSpec /\ WF_queueVars(Script) /\ WF_queueVars(Start) /\ WF_queueVars(Printing)

----------------------------------------------------------------------------
(* Properties *)

QueueTypeOK ==
  /\ script \in {"install", "provision"} /\ target \in Name
  /\ command \in {"idle", "hold", "install", "check", "plan"} \cup Migrating \cup Trap
  /\ result \in {"none", "refused", "failed", "stopped", "killed", "done"}
  /\ queue \in [Name -> Queue]
  /\ backend \in {"none", "old", "hold"} /\ printer \in {"one", "other"}
  /\ waiting \in [Name -> SUBSET ClientJob]
  /\ sentOn \in [ClientJob -> Transport] /\ printedOn \in [ClientJob -> Transport]
  /\ verified \in BOOLEAN /\ failed \subseteq Trap /\ faults \in 0..MaxFaults

\* README.md: the installer "cancels outstanding legacy jobs through CUPS,
\* updates the queue in place, then removes the hold and enables printing".  A
\* job that was accepted for the old transport is never printed on the new one,
\* whatever was stopped and started over, and whatever of the trap failed; the
\* installer's queue prints on USB only as it was last verified; and after an
\* error an end of the queue is open only if the very command of the trap that
\* closes it failed.
MigratesSafely ==
  script = "install" =>
    /\ \A j \in ClientJob : ~(sentOn[j] = "f11" /\ printedOn[j] = "usb")
    /\ queue[target].device = "usb" /\ queue[target].enabled => verified
    /\ command = "idle" /\ result = "stopped" =>
         /\ queue[target].enabled => "undo_disable" \in failed
         /\ queue[target].accepting => "undo_reject" \in failed

\* install.sh, after an error: "F11 migration stopped safely with the queue
\* disabled."  The trap says so whatever its commands have returned.
StoppedIsClosed ==
  script = "install" /\ command = "idle" /\ result = "stopped" =>
    ~queue[target].enabled /\ ~queue[target].accepting

\* The health check wants an idle queue, and runs when clients may print: a
\* wizard whose user tries again must end with a configured printer all the
\* same, and every job that was accepted meanwhile must be printed.
ProvisioningServes ==
  script = "provision" /\ <>[](printer = "one") =>
    /\ <>(result = "done")
    /\ \A j \in ClientJob : sentOn[j] # "none" ~> printedOn[j] # "none"

\* install.sh: "Fix the reported error and rerun the installer."  With its
\* default queue, whoever does so is done in the end.
RerunCompletes ==
  script = "install" /\ target = "Rongta_F11_Media" /\ <>[](printer = "one") =>
    <>(result = "done")

\* README.md: the installer "updates the queue in place".  So it does when
\* F11_QUEUE names the old queue.
UpdatesInPlace ==
  /\ script = "install" /\ target = "Rongta_F11" /\ queue[target].device = "f11"
  /\ <>[](printer = "one")
  => <>(result = "done")
=============================================================================
