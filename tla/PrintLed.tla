------------------------------ MODULE PrintLed ------------------------------
(***************************************************************************)
(* The activity LED: the CUPS filter (cups/pdftof11), which leaves a       *)
(* marker named after its process while it streams a job, and the daemon   *)
(* (print-led) that looks at the markers ten times a second.               *)
(*                                                                         *)
(* The daemon lights the LED for a marker whose process answers kill -0,   *)
(* keeps it lit while CUPS says the queue is printing, and removes markers *)
(* whose process does not answer.  Filters are killed, the daemon is       *)
(* killed, and process ids are used again.  CUPS runs the filter as user   *)
(* lp; the daemon runs as root, without the right to signal other users    *)
(* when its unit takes that away.                                          *)
(***************************************************************************)
EXTENDS Naturals

CONSTANTS
  Pid,        \* process ids
  CapKill,    \* the daemon has CAP_KILL; f11-print-led.service leaves it none
  MaxKills,   \* bound: filters and daemons killed
  nobody      \* no process

ASSUME CapKillAssumption == CapKill \in BOOLEAN
ASSUME KillsAssumption == MaxKills \in Nat
ASSUME NobodyAssumption == nobody \notin Pid

VARIABLES
  stage,      \* where the queue's current job is
  filter,     \* the process of its filter
  alive,      \* processes that run
  own,        \* those of them that run as root, the daemon's own user
  dir,        \* /run/f11-print-led exists
  markers,    \* markers in it, by process
  led,        \* what the LED does
  active,     \* the daemon's own idea of that
  dpc,        \* where the daemon is
  todo,       \* markers of this round it has yet to look at
  live,       \* marker_live's result so far
  doomed,     \* the marker it is about to remove
  kills

printing == <<stage, filter, alive, own>>
lamp == <<led, active>>
round == <<dpc, todo, live, doomed>>
ledVars == <<stage, filter, alive, own, dir, markers, led, active, dpc, todo, live, doomed, kills>>

\* "prepare": the filter renders; "stream": it writes the pages; "drain": it
\* has ended and the backend still prints.
Stage == {"idle", "prepare", "stream", "drain"}

LedInit ==
  /\ stage = "idle" /\ filter = nobody /\ alive = {} /\ own = {}
  /\ dir = FALSE /\ markers = {}
  /\ led = "off" /\ active = FALSE
  /\ dpc = "down" /\ todo = {} /\ live = FALSE /\ doomed = nobody
  /\ kills = 0

----------------------------------------------------------------------------
(* The filter *)

\* CUPS runs one job of the queue at a time.  A process id is not used again
\* between the daemon's check of it and the removal that follows at once.
StartJob(p) ==
  /\ stage = "idle" /\ p \notin alive /\ p # doomed
  /\ stage' = "prepare" /\ filter' = p /\ alive' = alive \cup {p}
  /\ UNCHANGED <<own, dir, markers, lamp, round, kills>>

\* The checks passed and every page is encoded and validated: the marker is
\* written, then the pages.  Without the directory the job fails.
StartStream ==
  /\ stage = "prepare" /\ dir
  /\ markers' = markers \cup {filter}
  /\ stage' = "stream"
  /\ UNCHANGED <<filter, alive, own, dir, lamp, round, kills>>

\* The EXIT trap removes the marker.
EndFilter ==
  /\ stage = "stream"
  /\ markers' = markers \ {filter} /\ alive' = alive \ {filter}
  /\ stage' = "drain" /\ filter' = nobody
  /\ UNCHANGED <<own, dir, lamp, round, kills>>

FailJob ==
  /\ stage = "prepare"
  /\ alive' = alive \ {filter}
  /\ stage' = "idle" /\ filter' = nobody
  /\ UNCHANGED <<own, dir, markers, lamp, round, kills>>

\* SIGKILL runs no trap, and the marker stays.
KillFilter ==
  /\ stage \in {"prepare", "stream"} /\ kills < MaxKills
  /\ kills' = kills + 1
  /\ alive' = alive \ {filter}
  /\ stage' = "idle" /\ filter' = nobody
  /\ UNCHANGED <<own, dir, markers, lamp, round>>

EndJob ==
  /\ stage = "drain"
  /\ stage' = "idle"
  /\ UNCHANGED <<filter, alive, own, dir, markers, lamp, round, kills>>

\* Any other process, of root or of another user, gets the id of a filter that
\* was killed, and ends.
Reuse(p) ==
  /\ p \in markers \ alive /\ p # doomed
  /\ alive' = alive \cup {p} /\ own' \in {own, own \cup {p}}
  /\ UNCHANGED <<stage, filter, dir, markers, lamp, round, kills>>

OtherEnds(p) ==
  /\ p \in alive /\ p # filter
  /\ alive' = alive \ {p} /\ own' = own \ {p}
  /\ UNCHANGED <<stage, filter, dir, markers, lamp, round, kills>>

----------------------------------------------------------------------------
(* The daemon *)

\* systemd creates the runtime directory, and the daemon turns the LED off.
StartDaemon ==
  /\ dpc = "down"
  /\ dir' = TRUE
  /\ led' = "off" /\ active' = FALSE
  /\ dpc' = "glob"
  /\ UNCHANGED <<printing, markers, todo, live, doomed, kills>>

\* marker_live expands the glob once.
Glob ==
  /\ dpc = "glob"
  /\ todo' = markers /\ live' = FALSE
  /\ dpc' = "scan"
  /\ UNCHANGED <<printing, dir, markers, lamp, doomed, kills>>

\* kill -0 fails for a process that is gone, and for one it may not signal.
Answers(p) == IF CapKill THEN p \in alive ELSE p \in own

\* Mutant of LookAt: kill -0 fails and the marker is left where it is.
MutantLeaveMarker(p) ==
  /\ dpc = "scan" /\ p \in todo /\ doomed = nobody
  /\ todo' = todo \ {p}
  /\ live' = (live \/ Answers(p))
  /\ UNCHANGED <<printing, dir, markers, lamp, dpc, doomed, kills>>

LookAt(p) ==
  /\ dpc = "scan" /\ p \in todo /\ doomed = nobody
  /\ todo' = todo \ {p}
  /\ IF Answers(p) THEN live' = TRUE /\ UNCHANGED doomed
                   ELSE doomed' = p /\ UNCHANGED live
  /\ UNCHANGED <<printing, dir, markers, lamp, dpc, kills>>

RemoveMarker ==
  /\ doomed # nobody
  /\ markers' = markers \ {doomed}
  /\ doomed' = nobody
  /\ UNCHANGED <<printing, dir, lamp, dpc, todo, live, kills>>

\* What lpstat reports of the queue, when it answers: "is now printing".
CupsProcessing == stage # "idle"

\* Mutant of Decide: the queue alone keeps the LED on, and nothing turns it
\* off once that has ended.
MutantNeverOff ==
  /\ dpc = "scan" /\ todo = {} /\ doomed = nobody
  /\ IF live \/ (active /\ CupsProcessing)
       THEN led' = "blink" /\ active' = TRUE
       ELSE UNCHANGED lamp
  /\ dpc' = "glob"
  /\ UNCHANGED <<printing, dir, markers, todo, live, doomed, kills>>

\* A live marker lights the LED and the queue keeps it lit.  The second case
\* stands for a queue that is idle and for an lpstat that failed.
Decide ==
  /\ dpc = "scan" /\ todo = {} /\ doomed = nobody
  /\ \/ /\ live \/ (active /\ CupsProcessing)
        /\ IF active THEN UNCHANGED lamp ELSE led' = "blink" /\ active' = TRUE
     \/ /\ ~live
        /\ IF active THEN led' = "off" /\ active' = FALSE ELSE UNCHANGED lamp
  /\ dpc' = "glob"
  /\ UNCHANGED <<printing, dir, markers, todo, live, doomed, kills>>

DaemonGone ==
  /\ dpc' = "down" /\ todo' = {} /\ live' = FALSE /\ doomed' = nobody
  /\ dir' = FALSE /\ markers' = {}

\* INT or TERM: the EXIT trap turns the LED off; killed, it stays as it is.
\* systemd removes the runtime directory with the markers in it.
StopDaemon ==
  /\ dpc # "down" /\ kills < MaxKills
  /\ kills' = kills + 1
  /\ DaemonGone
  /\ led' \in {"off", led}
  /\ active' = FALSE
  /\ UNCHANGED printing

----------------------------------------------------------------------------

Daemon == StartDaemon \/ Glob \/ (\E p \in Pid : LookAt(p)) \/ RemoveMarker \/ Decide

LedNext ==
  \/ \E p \in Pid : StartJob(p) \/ Reuse(p) \/ OtherEnds(p)
  \/ StartStream \/ EndFilter \/ FailJob \/ KillFilter \/ EndJob
  \/ Daemon \/ StopDaemon

LedSpec == LedInit /\ [][LedNext]_ledVars

\* The daemon's loop sleeps a tenth of a second and goes on, and systemd
\* restarts it.
LedFairSpec == LedSpec /\ WF_ledVars(Daemon)

----------------------------------------------------------------------------
(* Properties *)

LedTypeOK ==
  /\ stage \in Stage /\ filter \in Pid \cup {nobody}
  /\ alive \subseteq Pid /\ own \subseteq alive
  /\ dir \in BOOLEAN /\ markers \subseteq Pid
  /\ led \in {"off", "blink"} /\ active \in BOOLEAN
  /\ dpc \in {"down", "glob", "scan"} /\ todo \subseteq Pid /\ live \in BOOLEAN
  /\ doomed \in Pid \cup {nobody}
  /\ kills \in 0..MaxKills

\* Tests/print-led.py asserts a blinking LED beside the marker of a live process:
\* a job that has left its marker and goes on streaming is shown, whatever
\* markers of killed filters, with ids that are used again, are being removed.
\* The test runs daemon and process as one user, which is as good as CAP_KILL;
\* under the shipped unit the daemon removes the marker of the live job.
JobIsShown ==
  (stage = "stream" /\ filter \in markers) ~> (led = "blink" \/ stage # "stream" \/ ~dir)

\* Tests/print-led.py, and plan 2026-07-26 ("idle LED"): when the last job has
\* ended and no marker's process lives, the LED goes off and stays off.
GoesDark ==
  <>[](stage = "idle" /\ markers \cap alive = {}) => <>[](led = "off")

\* The marker of a filter that was killed is removed, unless its id has a new
\* process by then.
OrphansEnd ==
  \A p \in Pid : (p \in markers \ alive) ~> (p \notin markers \/ p \in alive)
=============================================================================
