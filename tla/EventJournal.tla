---------------------------- MODULE EventJournal ----------------------------
(***************************************************************************)
(* The durable event journal of the Twitch daemon and everything that      *)
(* reads or writes it: OpenJournal, Journal.append, ReserveEvent and       *)
(* Submitted (internal/twitchbanner/twitchbanner.go), the Processor that   *)
(* strings them together around one print command, and the runtime lock    *)
(* that run() takes before it opens the file (cmd/twitch-banner/main.go).  *)
(* The cheer, gift and raid Processors have the same body; one daemon runs *)
(* them from one serial event loop, so one state per daemon is enough.     *)
(*                                                                         *)
(* The file is a sequence of terminated lines followed by an unterminated  *)
(* tail.  A write that fails half way leaves a fragment in the tail, and   *)
(* the next append lands on the same line: a line is therefore a sequence  *)
(* of fragments, and the scanner accepts a line only when it is exactly    *)
(* one whole record.  A power loss keeps the lines an fsync has covered    *)
(* and cuts whatever follows them anywhere.                                *)
(***************************************************************************)
EXTENDS Naturals, Sequences, FiniteSets

CONSTANTS Daemon,       \* processes started as "twitch-banner run"
          Event,        \* event identifiers ("raid:..", "gift:..", message ids)
          NoDaemon,     \* the lock file is not locked
          NoEvent,      \* the daemon is not processing an event
          Cut,          \* a fragment of a record that is not valid JSON
          MaxLines,     \* bound: lines after which no event is delivered
          MaxTail       \* bound: fragments in the unterminated tail

ASSUME DaemonAssumption == NoDaemon \notin Daemon
ASSUME EventAssumption == NoEvent \notin Event
ASSUME BoundAssumption == MaxLines \in Nat /\ MaxTail \in Nat

Record == [id : Event, state : {"reserved", "submitted"}]

ASSUME CutAssumption == Cut \notin Record

Fragment == Record \cup {Cut}

VARIABLES
  lines,      \* terminated lines of events.jsonl, each a sequence of fragments
  tail,       \* fragments after the last newline
  synced,     \* number of leading lines an fsync has covered
  lock,       \* holder of flock(runtime.lock)
  pc,         \* where each daemon is
  seen,       \* Journal.seen of each daemon
  job,        \* the event each daemon is processing
  attempts,   \* print commands started, per event
  paper       \* print jobs that reached CUPS, per event

file == <<lines, tail, synced>>
vars == <<lines, tail, synced, lock, pc, seen, job, attempts, paper>>

PC == {"off", "locked", "idle", "reserve", "sync_reserve", "print",
       "submit", "sync_submit"}

\* A daemon that has opened its journal.
Live(d) == pc[d] \notin {"off", "locked"}

IdsOf(line) == {line[i].id : i \in {j \in DOMAIN line : line[j] \in Record}}

\* Events with a record on a line that a power loss cannot remove.
DurableIds == UNION {IdsOf(lines[i]) : i \in 1..synced}

\* Events with a record anywhere in the file.
RecordedIds ==
  IdsOf(tail) \cup UNION {IdsOf(lines[i]) : i \in DOMAIN lines}

\* json.Unmarshal succeeds and the fields are the ones OpenJournal demands.
WholeRecord(line) == Len(line) = 1 /\ line[1] \in Record

\* Every line parses; bufio.Scanner also returns a non-empty tail as a line.
Readable ==
  /\ \A i \in DOMAIN lines : WholeRecord(lines[i])
  /\ tail = << >> \/ WholeRecord(tail)

Init ==
  /\ lines = << >> /\ tail = << >> /\ synced = 0
  /\ lock = NoDaemon
  /\ pc = [d \in Daemon |-> "off"]
  /\ seen = [d \in Daemon |-> {}]
  /\ job = [d \in Daemon |-> NoEvent]
  /\ attempts = [e \in Event |-> 0]
  /\ paper = [e \in Event |-> 0]

----------------------------------------------------------------------------
(* Start and stop *)

\* Mutant of AcquireRuntimeLock: the lock is shared, not exclusive.
MutantLockNotExclusive(d) ==
  /\ pc[d] = "off"
  /\ lock' = d
  /\ pc' = [pc EXCEPT ![d] = "locked"]
  /\ UNCHANGED <<file, seen, job, attempts, paper>>

\* run() takes the lock before it opens the journal.  A second daemon fails
\* to lock and exits, which changes nothing.
AcquireRuntimeLock(d) ==
  /\ pc[d] = "off"
  /\ lock = NoDaemon
  /\ lock' = d
  /\ pc' = [pc EXCEPT ![d] = "locked"]
  /\ UNCHANGED <<file, seen, job, attempts, paper>>

OpenJournal(d) ==
  /\ pc[d] = "locked"
  /\ Readable
  /\ seen' = [seen EXCEPT ![d] = RecordedIds]
  /\ pc' = [pc EXCEPT ![d] = "idle"]
  /\ UNCHANGED <<file, lock, job, attempts, paper>>

\* An empty or malformed line: run() returns the error and the process exits.
OpenJournalRefuses(d) ==
  /\ pc[d] = "locked"
  /\ ~Readable
  /\ lock' = NoDaemon
  /\ pc' = [pc EXCEPT ![d] = "off"]
  /\ UNCHANGED <<file, seen, job, attempts, paper>>

\* The process ends at any point: a signal, a kill or an ordinary exit.  The
\* kernel drops its lock; what it wrote stays in the page cache.
Exit(d) ==
  /\ pc[d] # "off"
  /\ lock' = NoDaemon
  /\ pc' = [pc EXCEPT ![d] = "off"]
  /\ seen' = [seen EXCEPT ![d] = {}]
  /\ job' = [job EXCEPT ![d] = NoEvent]
  /\ UNCHANGED <<file, attempts, paper>>

\* What can be left of a line whose end never reached the card.
Remains(line) ==
  {SubSeq(line, 1, n) : n \in 0..Len(line)}
    \cup {Append(SubSeq(line, 1, n), Cut) : n \in {m \in 0..Len(line) : m < Len(line)}}

\* Power is cut: every process is gone and the file keeps its synced lines,
\* any number of the later ones, and any prefix of the next.
PowerLoss ==
  /\ \E k \in synced..Len(lines) :
       /\ lines' = SubSeq(lines, 1, k)
       /\ synced' = k
       /\ tail' \in Remains(IF k < Len(lines) THEN lines[k + 1] ELSE tail)
  /\ lock' = NoDaemon
  /\ pc' = [d \in Daemon |-> "off"]
  /\ seen' = [d \in Daemon |-> {}]
  /\ job' = [d \in Daemon |-> NoEvent]
  /\ UNCHANGED <<attempts, paper>>

----------------------------------------------------------------------------
(* Journal.append: open for append, write one line, fsync *)

\* The whole record and its newline are written.
Write(r) ==
  /\ lines' = Append(lines, Append(tail, r))
  /\ tail' = << >>
  /\ UNCHANGED synced

\* Open or write fails: nothing, part of the record, or all of it but the
\* newline is in the file.
WriteFails(r) ==
  /\ tail' \in {tail, Append(tail, Cut), Append(tail, r)}
  /\ Len(tail') <= MaxTail
  /\ UNCHANGED <<lines, synced>>

\* f.Sync() succeeds, which covers every line written so far.
Sync ==
  /\ synced' = Len(lines)
  /\ UNCHANGED <<lines, tail>>

\* The daemon returns to its event loop, whether or not the event succeeded.
Done(d) ==
  /\ pc' = [pc EXCEPT ![d] = "idle"]
  /\ job' = [job EXCEPT ![d] = NoEvent]

----------------------------------------------------------------------------
(* Processor.Process: reserve, print, record the submission *)

\* Mutant of Reserve: the event is marked seen before its record is written.
MutantReserveSeenFirst(d, e) ==
  /\ pc[d] = "idle"
  /\ e \notin seen[d]
  /\ Len(lines) < MaxLines
  /\ seen' = [seen EXCEPT ![d] = @ \cup {e}]
  /\ job' = [job EXCEPT ![d] = e]
  /\ pc' = [pc EXCEPT ![d] = "reserve"]
  /\ UNCHANGED <<file, lock, attempts, paper>>

\* A delivery of e, new or repeated.  ReserveEvent under the mutex: an event
\* already seen is a duplicate and is dropped, which changes nothing.
Reserve(d, e) ==
  /\ pc[d] = "idle"
  /\ e \notin seen[d]
  /\ Len(lines) < MaxLines
  /\ job' = [job EXCEPT ![d] = e]
  /\ pc' = [pc EXCEPT ![d] = "reserve"]
  /\ UNCHANGED <<file, lock, seen, attempts, paper>>

WriteReservation(d) ==
  /\ pc[d] = "reserve"
  /\ Write([id |-> job[d], state |-> "reserved"])
  /\ pc' = [pc EXCEPT ![d] = "sync_reserve"]
  /\ UNCHANGED <<lock, seen, job, attempts, paper>>

\* Mutant of SyncReservation: append returns without f.Sync().
MutantReserveUnsynced(d) ==
  /\ pc[d] = "sync_reserve"
  /\ UNCHANGED file
  /\ seen' = [seen EXCEPT ![d] = @ \cup {job[d]}]
  /\ pc' = [pc EXCEPT ![d] = "print"]
  /\ UNCHANGED <<lock, job, attempts, paper>>

SyncReservation(d) ==
  /\ pc[d] = "sync_reserve"
  /\ Sync
  /\ seen' = [seen EXCEPT ![d] = @ \cup {job[d]}]
  /\ pc' = [pc EXCEPT ![d] = "print"]
  /\ UNCHANGED <<lock, job, attempts, paper>>

\* An append error: ReserveEvent returns it, seen is untouched and the event
\* is not printed.
ReservationFails(d) ==
  /\ \/ pc[d] = "reserve" /\ WriteFails([id |-> job[d], state |-> "reserved"])
     \/ pc[d] = "sync_reserve" /\ UNCHANGED file
  /\ Done(d)
  /\ UNCHANGED <<lock, seen, attempts, paper>>

\* The print command ran and confirmed its CUPS job.
PrintConfirmed(d) ==
  /\ pc[d] = "print"
  /\ attempts' = [attempts EXCEPT ![job[d]] = @ + 1]
  /\ paper' = [paper EXCEPT ![job[d]] = @ + 1]
  /\ pc' = [pc EXCEPT ![d] = "submit"]
  /\ UNCHANGED <<file, lock, seen, job>>

\* The print command failed, or its outcome is unknown: the job may or may
\* not be in the queue.  Process returns the error and nothing is retried.
PrintUncertain(d) ==
  /\ pc[d] = "print"
  /\ attempts' = [attempts EXCEPT ![job[d]] = @ + 1]
  /\ \/ paper' = paper
     \/ paper' = [paper EXCEPT ![job[d]] = @ + 1]
  /\ Done(d)
  /\ UNCHANGED <<file, lock, seen>>

WriteSubmission(d) ==
  /\ pc[d] = "submit"
  /\ Write([id |-> job[d], state |-> "submitted"])
  /\ pc' = [pc EXCEPT ![d] = "sync_submit"]
  /\ UNCHANGED <<lock, seen, job, attempts, paper>>

\* Submitted returns: synced, or with an error that is only logged.
SubmissionEnds(d) ==
  /\ \/ pc[d] = "submit" /\ WriteFails([id |-> job[d], state |-> "submitted"])
     \/ pc[d] = "sync_submit" /\ (Sync \/ UNCHANGED file)
  /\ Done(d)
  /\ UNCHANGED <<lock, seen, attempts, paper>>

----------------------------------------------------------------------------

Next ==
  \/ \E d \in Daemon :
       \/ AcquireRuntimeLock(d) \/ OpenJournal(d) \/ OpenJournalRefuses(d)
       \/ Exit(d)
       \/ \E e \in Event : Reserve(d, e)
       \/ WriteReservation(d) \/ SyncReservation(d) \/ ReservationFails(d)
       \/ PrintConfirmed(d) \/ PrintUncertain(d)
       \/ WriteSubmission(d) \/ SubmissionEnds(d)
  \/ PowerLoss

Spec == Init /\ [][Next]_vars

----------------------------------------------------------------------------
(* Properties *)

TypeOK ==
  /\ lines \in Seq(Seq(Fragment))
  /\ tail \in Seq(Fragment)
  /\ synced \in 0..Len(lines)
  /\ lock \in Daemon \cup {NoDaemon}
  /\ pc \in [Daemon -> PC]
  /\ seen \in [Daemon -> SUBSET Event]
  /\ job \in [Daemon -> Event \cup {NoEvent}]
  /\ attempts \in [Event -> Nat]
  /\ paper \in [Event -> Nat]

\* TWITCH_BANNER.md, "never automatically retries after reservation": over
\* any number of redeliveries, errors, crashes, power losses, restarts and
\* competing daemons, one event starts at most one print command.
AtMostOneAttempt == \A e \in Event : attempts[e] <= 1

\* TWITCH_BANNER.md, "durably appended as reserved before printing": paper
\* exists only for events whose record no power loss can take away.
ReservedBeforePrint == \A e \in Event : attempts[e] > 0 => e \in DurableIds

\* An event is dropped as a duplicate only when the journal holds a record of
\* it: a running daemon never forgets a paid event for no reason.
DuplicateIsRecorded == \A d \in Daemon : seen[d] \subseteq RecordedIds

HasSubmitted(line, e) ==
  \E i \in DOMAIN line : line[i] = [id |-> e, state |-> "submitted"]

\* A line, or the tail, says that e was submitted.
OnRecordAsSubmitted(e) ==
  HasSubmitted(tail, e) \/ \E i \in DOMAIN lines : HasSubmitted(lines[i], e)

\* The audit trail does not lie: a "submitted" record, on any line that is
\* left of the file, stands for a job that reached the queue.
SubmittedIsPrinted == \A e \in Event : OnRecordAsSubmitted(e) => paper[e] > 0

(* The inductive invariant behind the safety properties.  While a daemon    *)
(* is alive it holds the lock and knows every event that was attempted; an  *)
(* event it is about to attempt is fresh and, once reserved, durable.       *)

LockInv == \A d \in Daemon : pc[d] # "off" <=> lock = d

SeenInv == \A d \in Daemon, e \in Event :
             Live(d) /\ attempts[e] > 0 => e \in seen[d]

Reserving(d) == pc[d] \in {"reserve", "sync_reserve", "print"}

JobInv ==
  \A d \in Daemon :
    /\ Reserving(d) => job[d] \in Event /\ attempts[job[d]] = 0
    /\ pc[d] = "sync_reserve" =>
         lines # << >> /\ job[d] \in IdsOf(lines[Len(lines)])
    /\ pc[d] = "print" => job[d] \in seen[d] /\ job[d] \in DurableIds
    /\ pc[d] \in {"submit", "sync_submit"} =>
         job[d] \in Event /\ paper[job[d]] > 0

PaperInv == \A e \in Event : paper[e] <= attempts[e]

IInv == /\ TypeOK /\ LockInv /\ SeenInv /\ JobInv /\ PaperInv
        /\ ReservedBeforePrint /\ AtMostOneAttempt

\* The journal implements the promise of PrintOnce.
Promise == INSTANCE PrintOnce WITH claimed <- DurableIds

ImplementsPrintOnce == Promise!Spec
=============================================================================
