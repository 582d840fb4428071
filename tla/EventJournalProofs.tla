------------------------- MODULE EventJournalProofs -------------------------
(***************************************************************************)
(* Proofs about the event journal, for any number of daemons and events:   *)
(* IInv is inductive, so every event starts at most one print command and  *)
(* only after its reservation is durable; and the journal implements       *)
(* PrintOnce.                                                              *)
(***************************************************************************)
EXTENDS EventJournal, TLAPS

\* The identifiers of a line survive, whatever is written behind it.
LEMMA IdsOfAppend ==
  ASSUME NEW line \in Seq(Fragment), NEW f \in Fragment
  PROVE  /\ IdsOf(line) \subseteq IdsOf(Append(line, f))
         /\ f \in Record => f.id \in IdsOf(Append(line, f))
  <1> DEFINE longer == Append(line, f)
  <1>1. /\ \A i \in DOMAIN line : i \in DOMAIN longer /\ longer[i] = line[i]
        /\ Len(line) + 1 \in DOMAIN longer
        /\ longer[Len(line) + 1] = f
    OBVIOUS
  <1> HIDE DEF longer
  <1>2. IdsOf(line) \subseteq IdsOf(longer)
    BY <1>1 DEF IdsOf
  <1>3. f \in Record => f.id \in IdsOf(longer)
    BY <1>1 DEF IdsOf
  <1> QED
    BY <1>2, <1>3 DEF longer

\* Journal.append leaves every durable record durable.
LEMMA WriteKeepsDurable ==
  ASSUME TypeOK, NEW r \in Record, Write(r)
  PROVE  /\ DurableIds' = DurableIds
         /\ lines' # << >>
         /\ r.id \in IdsOf(lines[Len(lines)])'
  <1>1. /\ lines' = Append(lines, Append(tail, r))
        /\ Append(tail, r) \in Seq(Fragment)
        /\ synced' = synced
    BY DEF Write, TypeOK, Fragment
  <1>2. /\ Len(lines') = Len(lines) + 1
        /\ lines'[Len(lines')] = Append(tail, r)
        /\ \A i \in 1..synced : lines'[i] = lines[i]
    BY <1>1 DEF TypeOK
  <1>3. r.id \in IdsOf(Append(tail, r))
    BY IdsOfAppend DEF TypeOK, Fragment
  <1>4. IdsOf(lines[Len(lines)])' = IdsOf(Append(tail, r))
    BY <1>2 DEF IdsOf
  <1>5. DurableIds' = DurableIds
    <2>1. \A i \in 1..synced : IdsOf(lines[i])' = IdsOf(lines[i])
      BY <1>2 DEF IdsOf
    <2> QED
      BY <2>1, <1>1 DEF DurableIds
  <1>6. lines' # << >>
    BY <1>2 DEF TypeOK
  <1> QED
    BY <1>2, <1>3, <1>4, <1>5, <1>6

\* An fsync makes the whole file durable, the last line included.
LEMMA SyncCoversFile ==
  ASSUME TypeOK, Sync
  PROVE  /\ DurableIds \subseteq DurableIds'
         /\ lines # << >> => IdsOf(lines[Len(lines)]) \subseteq DurableIds'
  <1>1. lines' = lines /\ synced' = Len(lines) /\ synced \in 0..Len(lines)
    BY DEF Sync, TypeOK
  <1>2. 1..synced \subseteq 1..synced' /\ (lines # << >> => Len(lines) \in 1..synced')
    BY <1>1 DEF TypeOK
  <1> QED
    BY <1>1, <1>2 DEF DurableIds, IdsOf

\* A power loss removes no durable record.
LEMMA PowerLossKeepsDurable ==
  ASSUME TypeOK, PowerLoss
  PROVE  DurableIds \subseteq DurableIds'
  <1>1. PICK k \in synced..Len(lines) :
          lines' = SubSeq(lines, 1, k) /\ synced' = k
    BY DEF PowerLoss
  <1>2. \A i \in 1..synced : i \in 1..synced' /\ lines'[i] = lines[i]
    BY <1>1 DEF TypeOK
  <1> QED
    BY <1>2 DEF DurableIds, IdsOf

\* A readable file gives a starting daemon every durable record.
LEMMA DurableIsRecorded ==
  ASSUME TypeOK
  PROVE  DurableIds \subseteq RecordedIds
  BY DEF TypeOK, DurableIds, RecordedIds

\* A starting daemon marks nothing but events as seen.
LEMMA RecordedType ==
  ASSUME TypeOK
  PROVE  RecordedIds \subseteq Event
  <1>1. \A line \in Seq(Fragment) : IdsOf(line) \subseteq Event
    BY DEF IdsOf, Record
  <1>2. IdsOf(tail) \subseteq Event /\ \A i \in DOMAIN lines : IdsOf(lines[i]) \subseteq Event
    BY <1>1 DEF TypeOK
  <1>3. UNION {IdsOf(lines[i]) : i \in DOMAIN lines} \subseteq Event
    BY <1>2
  <1> QED
    BY <1>2, <1>3 DEF RecordedIds

----------------------------------------------------------------------------
(* Type correctness *)

\* What a power loss leaves of a line is again a line.
LEMMA RemainsType ==
  ASSUME NEW line \in Seq(Fragment)
  PROVE  Remains(line) \in SUBSET Seq(Fragment)
  <1>1. \A n \in 0..Len(line) : SubSeq(line, 1, n) \in Seq(Fragment)
    OBVIOUS
  <1>2. Cut \in Fragment
    BY DEF Fragment
  <1> QED
    BY <1>1, <1>2 DEF Remains

\* The empty journal is well typed.
LEMMA TypeInit == Init => TypeOK
  BY DEF Init, TypeOK, PC

\* A written record leaves a file of lines.
LEMMA WriteType ==
  ASSUME TypeOK, NEW r \in Record, Write(r)
  PROVE  /\ lines' \in Seq(Seq(Fragment))
         /\ tail' \in Seq(Fragment)
         /\ synced' \in 0..Len(lines')
  <1>1. Append(tail, r) \in Seq(Fragment)
    BY DEF TypeOK, Fragment
  <1> QED
    BY <1>1 DEF Write, TypeOK

\* So does a write that fails half way.
LEMMA WriteFailsType ==
  ASSUME TypeOK, NEW r \in Record, WriteFails(r)
  PROVE  /\ lines' = lines /\ synced' = synced
         /\ tail' \in Seq(Fragment)
  <1>1. \A f \in Fragment : Append(tail, f) \in Seq(Fragment)
    BY DEF TypeOK
  <1>2. Cut \in Fragment /\ r \in Fragment
    BY DEF Fragment
  <1> QED
    BY <1>1, <1>2 DEF WriteFails, TypeOK

\* Every action keeps the types; one step per action of the daemon.
LEMMA TypeNext == IInv /\ [Next]_vars => TypeOK'
  <1> SUFFICES ASSUME IInv, [Next]_vars
               PROVE  TypeOK'
    OBVIOUS
  <1> USE DEF PC
  <1>0. TypeOK /\ JobInv
    BY DEF IInv
  <1>1. ASSUME NEW d \in Daemon, AcquireRuntimeLock(d)
        PROVE  TypeOK'
    BY <1>0, <1>1 DEF TypeOK, AcquireRuntimeLock, file
  <1>2. ASSUME NEW d \in Daemon, OpenJournal(d)
        PROVE  TypeOK'
    BY <1>0, <1>2, RecordedType DEF TypeOK, OpenJournal, file
  <1>3. ASSUME NEW d \in Daemon, OpenJournalRefuses(d)
        PROVE  TypeOK'
    BY <1>0, <1>3 DEF TypeOK, OpenJournalRefuses, file
  <1>4. ASSUME NEW d \in Daemon, Exit(d)
        PROVE  TypeOK'
    BY <1>0, <1>4 DEF TypeOK, Exit, file
  <1>5. ASSUME NEW d \in Daemon, NEW e \in Event, Reserve(d, e)
        PROVE  TypeOK'
    BY <1>0, <1>5 DEF TypeOK, Reserve, file
  <1>6. ASSUME NEW d \in Daemon, WriteReservation(d)
        PROVE  TypeOK'
    <2>1. [id |-> job[d], state |-> "reserved"] \in Record
      BY <1>0, <1>6 DEF JobInv, Reserving, WriteReservation, Record
    <2> QED
      BY <1>0, <1>6, <2>1, WriteType DEF TypeOK, WriteReservation
  <1>7. ASSUME NEW d \in Daemon, SyncReservation(d)
        PROVE  TypeOK'
    <2>1. job[d] \in Event
      BY <1>0, <1>7 DEF JobInv, Reserving, SyncReservation
    <2> QED
      BY <1>0, <1>7, <2>1 DEF TypeOK, SyncReservation, Sync
  <1>8. ASSUME NEW d \in Daemon, ReservationFails(d)
        PROVE  TypeOK'
    <2>1. pc[d] \in {"reserve", "sync_reserve"}
      BY <1>8 DEF ReservationFails
    <2>2. [id |-> job[d], state |-> "reserved"] \in Record
      BY <1>0, <2>1 DEF JobInv, Reserving, Record
    <2>3. /\ lines' \in Seq(Seq(Fragment)) /\ tail' \in Seq(Fragment)
          /\ synced' \in 0..Len(lines')
      BY <1>0, <1>8, <2>2, WriteFailsType DEF TypeOK, ReservationFails, file
    <2> QED
      BY <1>0, <1>8, <2>3 DEF TypeOK, ReservationFails, Done
  <1>9. ASSUME NEW d \in Daemon, PrintConfirmed(d)
        PROVE  TypeOK'
    <2>1. job[d] \in Event
      BY <1>0, <1>9 DEF JobInv, Reserving, PrintConfirmed
    <2> QED
      BY <1>0, <1>9, <2>1 DEF TypeOK, PrintConfirmed, file
  <1>10. ASSUME NEW d \in Daemon, PrintUncertain(d)
         PROVE  TypeOK'
    <2>1. job[d] \in Event
      BY <1>0, <1>10 DEF JobInv, Reserving, PrintUncertain
    <2>2. attempts' \in [Event -> Nat] /\ paper' \in [Event -> Nat]
      BY <1>0, <1>10, <2>1 DEF TypeOK, PrintUncertain
    <2> QED
      BY <1>0, <1>10, <2>2 DEF TypeOK, PrintUncertain, Done, file
  <1>11. ASSUME NEW d \in Daemon, WriteSubmission(d)
         PROVE  TypeOK'
    <2>1. [id |-> job[d], state |-> "submitted"] \in Record
      BY <1>0, <1>11 DEF JobInv, WriteSubmission, Record
    <2> QED
      BY <1>0, <1>11, <2>1, WriteType DEF TypeOK, WriteSubmission
  <1>12. ASSUME NEW d \in Daemon, SubmissionEnds(d)
         PROVE  TypeOK'
    <2>1. pc[d] \in {"submit", "sync_submit"}
      BY <1>12 DEF SubmissionEnds
    <2>2. [id |-> job[d], state |-> "submitted"] \in Record
      BY <1>0, <2>1 DEF JobInv, Record
    <2>3. /\ lines' \in Seq(Seq(Fragment)) /\ tail' \in Seq(Fragment)
          /\ synced' \in 0..Len(lines')
      BY <1>0, <1>12, <2>2, WriteFailsType DEF TypeOK, SubmissionEnds, Sync, file
    <2> QED
      BY <1>0, <1>12, <2>3 DEF TypeOK, SubmissionEnds, Done
  <1>13. ASSUME PowerLoss
         PROVE  TypeOK'
    <2>1. PICK k \in synced..Len(lines) :
            /\ lines' = SubSeq(lines, 1, k) /\ synced' = k
            /\ tail' \in Remains(IF k < Len(lines) THEN lines[k + 1] ELSE tail)
      BY <1>13 DEF PowerLoss
    <2>2. k \in 0..Len(lines) /\ lines \in Seq(Seq(Fragment))
      BY <1>0, <2>1 DEF TypeOK
    <2>3. (IF k < Len(lines) THEN lines[k + 1] ELSE tail) \in Seq(Fragment)
      BY <1>0, <2>2 DEF TypeOK
    <2>4. tail' \in Seq(Fragment)
      BY <2>1, <2>3, RemainsType
    <2>5. lines' \in Seq(Seq(Fragment)) /\ synced' \in 0..Len(lines')
      BY <2>1, <2>2
    <2> QED
      BY <1>0, <1>13, <2>4, <2>5 DEF TypeOK, PowerLoss
  <1>14. ASSUME UNCHANGED vars
         PROVE  TypeOK'
    BY <1>0, <1>14 DEF TypeOK, vars
  <1> QED
    BY <1>1, <1>2, <1>3, <1>4, <1>5, <1>6, <1>7, <1>8, <1>9, <1>10, <1>11,
       <1>12, <1>13, <1>14 DEF Next

----------------------------------------------------------------------------
(* Durable records are never lost *)

\* The durable records depend on nothing but the file.
LEMMA SameFileSameDurable ==
  ASSUME lines' = lines, synced' = synced
  PROVE  DurableIds' = DurableIds
  BY DEF DurableIds, IdsOf

\* No step of any daemon, and no power loss, takes a durable record away.
LEMMA DurableNext == IInv /\ [Next]_vars => DurableIds \subseteq DurableIds'
  <1> SUFFICES ASSUME IInv, [Next]_vars
               PROVE  DurableIds \subseteq DurableIds'
    OBVIOUS
  <1>0. TypeOK /\ JobInv
    BY DEF IInv
  <1>1. ASSUME UNCHANGED file
        PROVE  DurableIds \subseteq DurableIds'
    BY <1>1, SameFileSameDurable DEF file
  <1>2. ASSUME NEW d \in Daemon, WriteReservation(d) \/ WriteSubmission(d)
        PROVE  DurableIds \subseteq DurableIds'
    <2>1. PICK r \in Record : Write(r)
      <3>1. job[d] \in Event
        BY <1>0, <1>2 DEF JobInv, Reserving, WriteReservation, WriteSubmission
      <3> QED
        BY <3>1, <1>2 DEF WriteReservation, WriteSubmission, Record
    <2> QED
      BY <1>0, <2>1, WriteKeepsDurable
  <1>3. ASSUME NEW d \in Daemon, ReservationFails(d) \/ SubmissionEnds(d)
        PROVE  DurableIds \subseteq DurableIds'
    <2>1. \/ lines' = lines /\ synced' = synced
          \/ Sync
      BY <1>3 DEF ReservationFails, SubmissionEnds, WriteFails, file
    <2> QED
      BY <1>0, <2>1, SameFileSameDurable, SyncCoversFile
  <1>4. ASSUME NEW d \in Daemon, SyncReservation(d)
        PROVE  DurableIds \subseteq DurableIds'
    BY <1>0, <1>4, SyncCoversFile DEF SyncReservation
  <1>5. ASSUME PowerLoss
        PROVE  DurableIds \subseteq DurableIds'
    BY <1>0, <1>5, PowerLossKeepsDurable
  <1> QED
    BY <1>1, <1>2, <1>3, <1>4, <1>5
    DEF Next, vars, file, AcquireRuntimeLock, OpenJournal, OpenJournalRefuses,
        Exit, Reserve, PrintConfirmed, PrintUncertain

----------------------------------------------------------------------------
(* The inductive invariant *)

\* With no journal and no daemon nothing is at stake.
LEMMA InvInit == Init => IInv
  <1> SUFFICES ASSUME Init PROVE IInv
    OBVIOUS
  <1>1. TypeOK
    BY TypeInit
  <1>2. LockInv
    BY DaemonAssumption DEF Init, LockInv
  <1> QED
    BY <1>1, <1>2 DEF Init, IInv, SeenInv, JobInv, Reserving, PaperInv,
                      ReservedBeforePrint, AtMostOneAttempt, Live

\* A running daemon is alone: it holds the one lock.
LEMMA RunningAlone ==
  ASSUME LockInv, NEW d \in Daemon, pc[d] # "off"
  PROVE  lock = d /\ \A other \in Daemon : other # d => pc[other] = "off"
  BY DEF LockInv

\* A step that starts no print command keeps the three counting invariants.
LEMMA CountsKept ==
  ASSUME IInv, DurableIds \subseteq DurableIds', UNCHANGED <<attempts, paper>>
  PROVE  PaperInv' /\ ReservedBeforePrint' /\ AtMostOneAttempt'
  BY DEF IInv, PaperInv, ReservedBeforePrint, AtMostOneAttempt

\* The print command of d: the one step that touches the counters.
LEMMA PrintCounts ==
  ASSUME IInv, NEW d \in Daemon, pc[d] = "print",
         DurableIds \subseteq DurableIds',
         attempts' = [attempts EXCEPT ![job[d]] = @ + 1],
         \/ paper' = paper
         \/ paper' = [paper EXCEPT ![job[d]] = @ + 1]
  PROVE  /\ job[d] \in Event /\ job[d] \in seen[d] /\ attempts[job[d]] = 0
         /\ PaperInv' /\ ReservedBeforePrint' /\ AtMostOneAttempt'
  <1>1. /\ job[d] \in Event /\ attempts[job[d]] = 0
        /\ job[d] \in seen[d] /\ job[d] \in DurableIds
    BY DEF IInv, JobInv, Reserving
  <1>2. attempts \in [Event -> Nat] /\ paper \in [Event -> Nat]
    BY DEF IInv, TypeOK
  <1>3. ASSUME NEW e \in Event
        PROVE  /\ attempts'[e] = IF e = job[d] THEN 1 ELSE attempts[e]
               /\ paper'[e] <= attempts'[e]
    BY <1>1, <1>2 DEF IInv, PaperInv
  <1>4. PaperInv'
    BY <1>3 DEF PaperInv
  <1>5. ReservedBeforePrint'
    BY <1>1, <1>3 DEF IInv, ReservedBeforePrint
  <1>6. AtMostOneAttempt'
    BY <1>3 DEF IInv, AtMostOneAttempt
  <1> QED
    BY <1>1, <1>4, <1>5, <1>6

\* Every step keeps the invariant: one step per action, and under it the
\* conjuncts the action can disturb.
LEMMA InvNext == IInv /\ [Next]_vars => IInv'
  <1> SUFFICES ASSUME IInv, [Next]_vars
               PROVE  IInv'
    OBVIOUS
  <1>t. TypeOK /\ TypeOK' /\ LockInv /\ SeenInv /\ JobInv
    BY TypeNext DEF IInv
  <1>d. DurableIds \subseteq DurableIds'
    BY DurableNext
  <1>c. ASSUME UNCHANGED <<attempts, paper>>
        PROVE  PaperInv' /\ ReservedBeforePrint' /\ AtMostOneAttempt'
    BY <1>c, <1>d, CountsKept
  <1> USE DEF Live, Reserving
  <1>1. ASSUME NEW d \in Daemon, AcquireRuntimeLock(d)
        PROVE  IInv'
    <2>1. LockInv' /\ SeenInv' /\ JobInv'
      <3>1. \A other \in Daemon : pc[other] = "off"
        BY <1>t, <1>1, DaemonAssumption DEF LockInv, AcquireRuntimeLock
      <3>2. \A other \in Daemon : pc'[other] = IF other = d THEN "locked" ELSE "off"
        BY <1>t, <1>1, <3>1 DEF TypeOK, AcquireRuntimeLock
      <3> QED
        BY <1>1, <3>2, DaemonAssumption
        DEF LockInv, SeenInv, JobInv, AcquireRuntimeLock
    <2> QED
      BY <1>t, <1>c, <1>1, <2>1 DEF IInv, AcquireRuntimeLock
  <1>2. ASSUME NEW d \in Daemon, OpenJournal(d)
        PROVE  IInv'
    <2>1. \A other \in Daemon : pc'[other] = IF other = d THEN "idle" ELSE "off"
      BY <1>t, <1>2, RunningAlone DEF TypeOK, OpenJournal
    <2>2. LockInv' /\ JobInv'
      BY <1>t, <1>2, <2>1, RunningAlone DEF LockInv, JobInv, OpenJournal
    <2>3. SeenInv'
      <3>1. \A e \in Event : attempts[e] > 0 => e \in RecordedIds
        BY <1>t, DurableIsRecorded DEF IInv, ReservedBeforePrint
      <3>2. seen'[d] = RecordedIds
        BY <1>t, <1>2 DEF TypeOK, OpenJournal
      <3> QED
        BY <1>2, <2>1, <3>1, <3>2 DEF SeenInv, OpenJournal
    <2> QED
      BY <1>t, <1>c, <1>2, <2>2, <2>3 DEF IInv, OpenJournal
  <1>3. ASSUME NEW d \in Daemon, OpenJournalRefuses(d) \/ Exit(d)
        PROVE  IInv'
    <2>1. \A other \in Daemon : pc'[other] = "off"
      BY <1>t, <1>3, RunningAlone DEF TypeOK, OpenJournalRefuses, Exit
    <2>2. LockInv' /\ SeenInv' /\ JobInv'
      BY <1>3, <2>1, DaemonAssumption
      DEF LockInv, SeenInv, JobInv, OpenJournalRefuses, Exit
    <2> QED
      BY <1>t, <1>c, <1>3, <2>2 DEF IInv, OpenJournalRefuses, Exit
  <1>4. ASSUME NEW d \in Daemon, NEW e \in Event, Reserve(d, e)
        PROVE  IInv'
    <2>1. /\ pc[d] = "idle" /\ e \notin seen[d] /\ job'[d] = e
          /\ \A other \in Daemon : pc'[other] = IF other = d THEN "reserve" ELSE "off"
      BY <1>t, <1>4, RunningAlone DEF TypeOK, Reserve
    <2>2. attempts[e] = 0
      <3>1. ~(attempts[e] > 0)
        BY <1>t, <2>1 DEF SeenInv
      <3> QED
        BY <1>t, <3>1 DEF TypeOK
    <2>3. LockInv' /\ SeenInv' /\ JobInv'
      BY <1>t, <1>4, <2>1, <2>2, RunningAlone DEF LockInv, SeenInv, JobInv, Reserve
    <2> QED
      BY <1>t, <1>c, <1>4, <2>3 DEF IInv, Reserve
  <1>5. ASSUME NEW d \in Daemon, WriteReservation(d)
        PROVE  IInv'
    <2>1. /\ pc[d] = "reserve"
          /\ \A other \in Daemon : pc'[other] = IF other = d THEN "sync_reserve" ELSE "off"
      BY <1>t, <1>5, RunningAlone DEF TypeOK, WriteReservation
    <2>2. job[d] \in Event /\ attempts[job[d]] = 0
      BY <1>t, <2>1 DEF JobInv
    <2>3. lines' # << >> /\ job[d] \in IdsOf(lines[Len(lines)])'
      <3>1. [id |-> job[d], state |-> "reserved"] \in Record
        BY <2>2 DEF Record
      <3> QED
        BY <1>t, <1>5, <3>1, WriteKeepsDurable DEF WriteReservation
    <2>4. LockInv' /\ SeenInv' /\ JobInv'
      BY <1>t, <1>5, <2>1, <2>2, <2>3, RunningAlone
      DEF LockInv, SeenInv, JobInv, WriteReservation
    <2> QED
      BY <1>t, <1>c, <1>5, <2>4 DEF IInv, WriteReservation
  <1>6. ASSUME NEW d \in Daemon, SyncReservation(d)
        PROVE  IInv'
    <2>1. /\ pc[d] = "sync_reserve" /\ seen'[d] = seen[d] \cup {job[d]}
          /\ \A other \in Daemon : pc'[other] = IF other = d THEN "print" ELSE "off"
      BY <1>t, <1>6, RunningAlone DEF TypeOK, SyncReservation
    <2>2. /\ job[d] \in Event /\ attempts[job[d]] = 0
          /\ lines # << >> /\ job[d] \in IdsOf(lines[Len(lines)])
      BY <1>t, <2>1 DEF JobInv
    <2>3. job[d] \in DurableIds'
      BY <1>t, <1>6, <2>2, SyncCoversFile DEF SyncReservation
    <2>4. LockInv' /\ SeenInv' /\ JobInv'
      BY <1>t, <1>6, <2>1, <2>2, <2>3, RunningAlone
      DEF LockInv, SeenInv, JobInv, SyncReservation
    <2> QED
      BY <1>t, <1>c, <1>6, <2>4 DEF IInv, SyncReservation
  <1>7. ASSUME NEW d \in Daemon, ReservationFails(d) \/ SubmissionEnds(d)
        PROVE  IInv'
    <2>1. /\ pc[d] \in {"reserve", "sync_reserve", "submit", "sync_submit"}
          /\ \A other \in Daemon : pc'[other] = IF other = d THEN "idle" ELSE "off"
      BY <1>t, <1>7, RunningAlone DEF TypeOK, ReservationFails, SubmissionEnds, Done
    <2>2. LockInv' /\ SeenInv' /\ JobInv'
      BY <1>t, <1>7, <2>1, RunningAlone
      DEF LockInv, SeenInv, JobInv, ReservationFails, SubmissionEnds
    <2> QED
      BY <1>t, <1>c, <1>7, <2>2 DEF IInv, ReservationFails, SubmissionEnds
  <1>8. ASSUME NEW d \in Daemon, PrintConfirmed(d)
        PROVE  IInv'
    <2>1. /\ pc[d] = "print"
          /\ \A other \in Daemon : pc'[other] = IF other = d THEN "submit" ELSE "off"
      BY <1>t, <1>8, RunningAlone DEF TypeOK, PrintConfirmed
    <2>2. /\ job[d] \in Event /\ job[d] \in seen[d] /\ attempts[job[d]] = 0
          /\ PaperInv' /\ ReservedBeforePrint' /\ AtMostOneAttempt'
      BY <1>d, <1>8, <2>1, PrintCounts DEF PrintConfirmed
    <2>3. \A e \in Event : attempts'[e] > 0 => e = job[d] \/ attempts[e] > 0
      BY <1>t, <1>8, <2>2 DEF TypeOK, PrintConfirmed
    <2>4. paper'[job[d]] > 0
      BY <1>t, <1>8, <2>2 DEF TypeOK, PrintConfirmed
    <2>5. LockInv' /\ SeenInv' /\ JobInv'
      BY <1>t, <1>8, <2>1, <2>2, <2>3, <2>4, RunningAlone
      DEF LockInv, SeenInv, JobInv, PrintConfirmed
    <2> QED
      BY <1>t, <2>2, <2>5 DEF IInv
  <1>9. ASSUME NEW d \in Daemon, PrintUncertain(d)
        PROVE  IInv'
    <2>1. /\ pc[d] = "print"
          /\ \A other \in Daemon : pc'[other] = IF other = d THEN "idle" ELSE "off"
      BY <1>t, <1>9, RunningAlone DEF TypeOK, PrintUncertain, Done
    <2>2. /\ job[d] \in Event /\ job[d] \in seen[d] /\ attempts[job[d]] = 0
          /\ PaperInv' /\ ReservedBeforePrint' /\ AtMostOneAttempt'
      BY <1>d, <1>9, <2>1, PrintCounts DEF PrintUncertain
    <2>3. \A e \in Event : attempts'[e] > 0 => e = job[d] \/ attempts[e] > 0
      BY <1>t, <1>9, <2>2 DEF TypeOK, PrintUncertain
    <2>4. LockInv' /\ SeenInv' /\ JobInv'
      BY <1>t, <1>9, <2>1, <2>2, <2>3, RunningAlone
      DEF LockInv, SeenInv, JobInv, PrintUncertain
    <2> QED
      BY <1>t, <2>2, <2>4 DEF IInv
  <1>10. ASSUME NEW d \in Daemon, WriteSubmission(d)
         PROVE  IInv'
    <2>1. /\ pc[d] = "submit"
          /\ \A other \in Daemon : pc'[other] = IF other = d THEN "sync_submit" ELSE "off"
      BY <1>t, <1>10, RunningAlone DEF TypeOK, WriteSubmission
    <2>2. LockInv' /\ SeenInv' /\ JobInv'
      BY <1>t, <1>10, <2>1, RunningAlone DEF LockInv, SeenInv, JobInv, WriteSubmission
    <2> QED
      BY <1>t, <1>c, <1>10, <2>2 DEF IInv, WriteSubmission
  <1>11. ASSUME PowerLoss
         PROVE  IInv'
    <2>1. LockInv' /\ SeenInv' /\ JobInv'
      BY <1>11, DaemonAssumption DEF LockInv, SeenInv, JobInv, PowerLoss
    <2> QED
      BY <1>t, <1>c, <1>11, <2>1 DEF IInv, PowerLoss
  <1>12. ASSUME UNCHANGED vars
         PROVE  IInv'
    <2>1. LockInv' /\ SeenInv' /\ JobInv'
      BY <1>t, <1>12, SameFileSameDurable DEF LockInv, SeenInv, JobInv, vars, IdsOf
    <2> QED
      BY <1>t, <1>c, <1>12, <2>1 DEF IInv, vars
  <1> QED
    BY <1>1, <1>2, <1>3, <1>4, <1>5, <1>6, <1>7, <1>8, <1>9, <1>10, <1>11, <1>12
    DEF Next

\* The strengthened invariant holds in every reachable state.
THEOREM Invariant == Spec => []IInv
  BY InvInit, InvNext, PTL DEF Spec

\* Variables keep their types.
THEOREM TypeCorrect == Spec => []TypeOK
  <1>1. IInv => TypeOK
    BY DEF IInv
  <1> QED
    BY Invariant, <1>1, PTL

\* Whatever is redelivered, whatever fails and whenever the power goes, an
\* event starts at most one print command.
THEOREM AtMostOnePrint == Spec => []AtMostOneAttempt
  <1>1. IInv => AtMostOneAttempt
    BY DEF IInv
  <1> QED
    BY Invariant, <1>1, PTL

\* No event is printed before its reservation is durable.
THEOREM ReservationFirst == Spec => []ReservedBeforePrint
  <1>1. IInv => ReservedBeforePrint
    BY DEF IInv
  <1> QED
    BY Invariant, <1>1, PTL

----------------------------------------------------------------------------
(* The journal as a record of what happened *)

AuditInv == DuplicateIsRecorded /\ SubmittedIsPrinted

\* Writing a record loses no identifier and adds no submission but its own.
LEMMA WriteRecords ==
  ASSUME TypeOK, NEW r \in Record, Write(r)
  PROVE  /\ RecordedIds \subseteq RecordedIds'
         /\ r.id \in RecordedIds'
         /\ \A e \in Event : OnRecordAsSubmitted(e)' =>
              OnRecordAsSubmitted(e) \/ r = [id |-> e, state |-> "submitted"]
  <1> DEFINE line == Append(tail, r)
  <1>1. /\ line \in Seq(Fragment) /\ lines' = Append(lines, line) /\ tail' = << >>
        /\ IdsOf(tail) \subseteq IdsOf(line) /\ r.id \in IdsOf(line)
    <2>1. tail \in Seq(Fragment) /\ r \in Fragment
      BY DEF TypeOK, Fragment
    <2>2. IdsOf(tail) \subseteq IdsOf(line) /\ r.id \in IdsOf(line)
      BY <2>1, IdsOfAppend
    <2> QED
      BY <2>1, <2>2 DEF Write
  <1>2. \A e \in Event : HasSubmitted(line, e) =>
          HasSubmitted(tail, e) \/ r = [id |-> e, state |-> "submitted"]
    BY DEF HasSubmitted, TypeOK, Fragment
  <1> HIDE DEF line
  <1>3. /\ DOMAIN lines' = DOMAIN lines \cup {Len(lines) + 1}
        /\ lines'[Len(lines) + 1] = line
        /\ \A i \in DOMAIN lines : lines'[i] = lines[i]
    BY <1>1 DEF TypeOK
  <1>4. RecordedIds \subseteq RecordedIds' /\ r.id \in RecordedIds'
    <2>1. \A i \in DOMAIN lines : i \in DOMAIN lines' /\ IdsOf(lines'[i]) = IdsOf(lines[i])
      BY <1>3
    <2>2. Len(lines) + 1 \in DOMAIN lines' /\ IdsOf(lines'[Len(lines) + 1]) = IdsOf(line)
      BY <1>3
    <2>3. RecordedIds' = IdsOf(tail') \cup UNION {IdsOf(lines'[i]) : i \in DOMAIN lines'}
      BY DEF RecordedIds, IdsOf
    <2> QED
      BY <1>1, <2>1, <2>2, <2>3 DEF RecordedIds
  <1>5. \A e \in Event : ~HasSubmitted(tail', e)
    BY <1>1 DEF HasSubmitted
  <1> QED
    BY <1>2, <1>3, <1>4, <1>5 DEF OnRecordAsSubmitted, HasSubmitted

\* A failed write loses no identifier and adds no submission but its own.
LEMMA WriteFailsRecords ==
  ASSUME TypeOK, NEW r \in Record, WriteFails(r)
  PROVE  /\ RecordedIds \subseteq RecordedIds'
         /\ \A e \in Event : OnRecordAsSubmitted(e)' =>
              OnRecordAsSubmitted(e) \/ r = [id |-> e, state |-> "submitted"]
  <1>1. PICK f \in {Cut, r} : tail' \in {tail, Append(tail, f)} /\ lines' = lines
    BY DEF WriteFails
  <1>2. f \in Fragment
    BY DEF Fragment
  <1>3. IdsOf(tail) \subseteq IdsOf(tail')
    <2>1. tail \in Seq(Fragment)
      BY DEF TypeOK
    <2> QED
      BY <1>1, <1>2, <2>1, IdsOfAppend
  <1>4. ASSUME NEW e \in Event, HasSubmitted(tail', e)
        PROVE  HasSubmitted(tail, e) \/ r = [id |-> e, state |-> "submitted"]
    <2>1. CASE tail' = tail
      BY <1>4, <2>1
    <2>2. CASE tail' = Append(tail, f)
      <3>1. f # Cut => f = r
        BY <1>1
      <3>2. \A i \in DOMAIN tail' : tail'[i] = f \/ (i \in DOMAIN tail /\ tail'[i] = tail[i])
        BY <2>2 DEF TypeOK
      <3>3. [id |-> e, state |-> "submitted"] # Cut
        BY CutAssumption DEF Record
      <3> QED
        BY <1>4, <3>1, <3>2, <3>3 DEF HasSubmitted
    <2> QED
      BY <1>1, <2>1, <2>2
  <1>5. RecordedIds' = IdsOf(tail') \cup UNION {IdsOf(lines[i]) : i \in DOMAIN lines}
    BY <1>1 DEF RecordedIds, IdsOf
  <1> QED
    BY <1>1, <1>3, <1>4, <1>5 DEF RecordedIds, OnRecordAsSubmitted, HasSubmitted

\* A power loss adds no submission.
LEMMA PowerLossRecords ==
  ASSUME TypeOK, PowerLoss
  PROVE  \A e \in Event : OnRecordAsSubmitted(e)' => OnRecordAsSubmitted(e)
  <1>1. PICK k \in synced..Len(lines) :
          /\ lines' = SubSeq(lines, 1, k)
          /\ tail' \in Remains(IF k < Len(lines) THEN lines[k + 1] ELSE tail)
    BY DEF PowerLoss
  <1>2. k \in 0..Len(lines) /\ lines \in Seq(Seq(Fragment))
    BY <1>1 DEF TypeOK
  <1>3. ASSUME NEW line \in Seq(Fragment), NEW rest \in Remains(line), NEW e \in Event,
               HasSubmitted(rest, e)
        PROVE  HasSubmitted(line, e)
    <2>1. PICK n \in 0..Len(line) :
            rest = SubSeq(line, 1, n) \/ rest = Append(SubSeq(line, 1, n), Cut)
      BY <1>3 DEF Remains
    <2>2. \A i \in DOMAIN rest : rest[i] = Cut \/ (i \in DOMAIN line /\ rest[i] = line[i])
      BY <2>1
    <2> QED
      BY <1>3, <2>2, CutAssumption DEF HasSubmitted, Record
  <1>4. \A i \in DOMAIN lines' : i \in DOMAIN lines /\ lines'[i] = lines[i]
    BY <1>1, <1>2
  <1>5. ASSUME NEW e \in Event, HasSubmitted(tail', e)
        PROVE  OnRecordAsSubmitted(e)
    <2>1. CASE k < Len(lines)
      <3>1. k + 1 \in DOMAIN lines /\ lines[k + 1] \in Seq(Fragment)
        BY <1>2, <2>1
      <3> QED
        BY <1>1, <1>3, <1>5, <2>1, <3>1 DEF OnRecordAsSubmitted
    <2>2. CASE ~(k < Len(lines))
      BY <1>1, <1>3, <1>5, <2>2 DEF OnRecordAsSubmitted, TypeOK
    <2> QED
      BY <2>1, <2>2
  <1> QED
    BY <1>4, <1>5 DEF OnRecordAsSubmitted, HasSubmitted

\* Every step keeps the journal truthful.
LEMMA AuditNext == IInv /\ AuditInv /\ [Next]_vars => AuditInv'
  <1> SUFFICES ASSUME IInv, AuditInv, [Next]_vars
               PROVE  AuditInv'
    OBVIOUS
  <1>0. TypeOK /\ LockInv /\ JobInv /\ DuplicateIsRecorded /\ SubmittedIsPrinted
    BY DEF IInv, AuditInv
  <1>1. ASSUME \A d \in Daemon : seen'[d] \subseteq seen[d] \cup RecordedIds',
               RecordedIds \subseteq RecordedIds',
               \A e \in Event : paper[e] > 0 => paper'[e] > 0,
               \A e \in Event : OnRecordAsSubmitted(e)' => OnRecordAsSubmitted(e) \/ paper[e] > 0
        PROVE  AuditInv'
    BY <1>0, <1>1 DEF AuditInv, DuplicateIsRecorded, SubmittedIsPrinted
  <1>2. ASSUME lines' = lines, tail' = tail
        PROVE  /\ RecordedIds' = RecordedIds
               /\ \A e \in Event : OnRecordAsSubmitted(e)' => OnRecordAsSubmitted(e)
    BY <1>2 DEF RecordedIds, IdsOf, OnRecordAsSubmitted, HasSubmitted
  <1>3. ASSUME NEW d \in Daemon,
               \/ AcquireRuntimeLock(d) \/ OpenJournalRefuses(d) \/ Exit(d)
               \/ \E e \in Event : Reserve(d, e)
        PROVE  AuditInv'
    BY <1>0, <1>1, <1>2, <1>3
    DEF AcquireRuntimeLock, OpenJournalRefuses, Exit, Reserve, file, TypeOK
  <1>4. ASSUME NEW d \in Daemon, OpenJournal(d)
        PROVE  AuditInv'
    BY <1>0, <1>1, <1>2, <1>4 DEF OpenJournal, file, TypeOK
  <1>5. ASSUME NEW d \in Daemon, WriteReservation(d)
        PROVE  AuditInv'
    <2>1. [id |-> job[d], state |-> "reserved"] \in Record
      BY <1>0, <1>5 DEF JobInv, Reserving, WriteReservation, Record
    <2> QED
      BY <1>0, <1>1, <1>5, <2>1, WriteRecords DEF WriteReservation
  <1>6. ASSUME NEW d \in Daemon, WriteSubmission(d)
        PROVE  AuditInv'
    <2>1. /\ [id |-> job[d], state |-> "submitted"] \in Record
          /\ paper[job[d]] > 0
      BY <1>0, <1>6 DEF JobInv, WriteSubmission, Record
    <2>2. \A e \in Event : [id |-> job[d], state |-> "submitted"]
                            = [id |-> e, state |-> "submitted"] => paper[e] > 0
      BY <2>1
    <2> QED
      BY <1>0, <1>1, <1>6, <2>1, <2>2, WriteRecords DEF WriteSubmission
  <1>7. ASSUME NEW d \in Daemon, SyncReservation(d)
        PROVE  AuditInv'
    <2>1. job[d] \in RecordedIds
      BY <1>0, <1>7 DEF JobInv, SyncReservation, RecordedIds, TypeOK
    <2> QED
      BY <1>0, <1>1, <1>2, <1>7, <2>1 DEF SyncReservation, Sync, TypeOK
  <1>8. ASSUME NEW d \in Daemon, ReservationFails(d) \/ SubmissionEnds(d)
        PROVE  AuditInv'
    <2>1. /\ seen' = seen /\ paper' = paper
          /\ \/ lines' = lines /\ tail' = tail
             \/ pc[d] = "reserve" /\ WriteFails([id |-> job[d], state |-> "reserved"])
             \/ pc[d] = "submit" /\ WriteFails([id |-> job[d], state |-> "submitted"])
      BY <1>8 DEF ReservationFails, SubmissionEnds, Sync, file
    <2>2. CASE lines' = lines /\ tail' = tail
      BY <1>0, <1>1, <1>2, <2>1, <2>2
    <2>3. CASE pc[d] = "reserve" /\ WriteFails([id |-> job[d], state |-> "reserved"])
      <3>1. [id |-> job[d], state |-> "reserved"] \in Record
        BY <1>0, <2>3 DEF JobInv, Reserving, Record
      <3> QED
        BY <1>0, <1>1, <2>1, <2>3, <3>1, WriteFailsRecords
    <2>4. CASE pc[d] = "submit" /\ WriteFails([id |-> job[d], state |-> "submitted"])
      <3>1. [id |-> job[d], state |-> "submitted"] \in Record /\ paper[job[d]] > 0
        BY <1>0, <2>4 DEF JobInv, Record
      <3>2. \A e \in Event : [id |-> job[d], state |-> "submitted"]
                              = [id |-> e, state |-> "submitted"] => paper[e] > 0
        BY <3>1
      <3> QED
        BY <1>0, <1>1, <2>1, <2>4, <3>1, <3>2, WriteFailsRecords
    <2> QED
      BY <2>1, <2>2, <2>3, <2>4
  <1>9. ASSUME NEW d \in Daemon, PrintConfirmed(d) \/ PrintUncertain(d)
        PROVE  AuditInv'
    <2>1. job[d] \in Event /\ paper \in [Event -> Nat]
      BY <1>0, <1>9 DEF JobInv, Reserving, PrintConfirmed, PrintUncertain, TypeOK
    <2>2. \A e \in Event : paper[e] > 0 => paper'[e] > 0
      BY <1>9, <2>1 DEF PrintConfirmed, PrintUncertain
    <2> QED
      BY <1>0, <1>1, <1>2, <1>9, <2>2 DEF PrintConfirmed, PrintUncertain, file
  <1>10. ASSUME PowerLoss
         PROVE  AuditInv'
    <2>1. DuplicateIsRecorded'
      BY <1>10 DEF PowerLoss, DuplicateIsRecorded
    <2>2. SubmittedIsPrinted'
      BY <1>0, <1>10, PowerLossRecords DEF PowerLoss, SubmittedIsPrinted
    <2> QED
      BY <2>1, <2>2 DEF AuditInv
  <1>11. ASSUME UNCHANGED vars
         PROVE  AuditInv'
    BY <1>0, <1>1, <1>2, <1>11 DEF vars
  <1> QED
    BY <1>3, <1>4, <1>5, <1>6, <1>7, <1>8, <1>9, <1>10, <1>11 DEF Next

\* A running daemon takes an event for a duplicate only when the journal has
\* a record of it.
THEOREM NoForgottenEvent == Spec => []DuplicateIsRecorded
  <1>1. Init => AuditInv
    BY DEF Init, AuditInv, DuplicateIsRecorded, SubmittedIsPrinted,
           OnRecordAsSubmitted, HasSubmitted
  <1>2. AuditInv => DuplicateIsRecorded
    BY DEF AuditInv
  <1> QED
    BY <1>1, <1>2, AuditNext, Invariant, PTL DEF Spec

\* Every "submitted" record stands for a job that reached the print queue.
THEOREM TruthfulAudit == Spec => []SubmittedIsPrinted
  <1>1. Init => AuditInv
    BY DEF Init, AuditInv, DuplicateIsRecorded, SubmittedIsPrinted,
           OnRecordAsSubmitted, HasSubmitted
  <1>2. AuditInv => SubmittedIsPrinted
    BY DEF AuditInv
  <1> QED
    BY <1>1, <1>2, AuditNext, Invariant, PTL DEF Spec

----------------------------------------------------------------------------
(* The journal implements PrintOnce *)

\* Syncs and power losses that keep unsynced lines are Claim steps, print
\* commands are PrintEvent steps, and everything else stutters.
THEOREM Refinement == Spec => ImplementsPrintOnce
  <1>1. Init => Promise!Init
    BY DEF Init, Promise!Init, DurableIds
  <1>2. IInv => DurableIds \subseteq Event
    BY RecordedType, DurableIsRecorded DEF IInv
  <1>3. IInv /\ (DurableIds \subseteq Event)' /\ [Next]_vars
          => [Promise!Next]_(Promise!vars)
    <2> SUFFICES ASSUME IInv, (DurableIds \subseteq Event)', [Next]_vars
                 PROVE  [Promise!Next]_(Promise!vars)
      OBVIOUS
    <2>1. DurableIds \subseteq DurableIds'
      BY DurableNext
    <2>2. ASSUME UNCHANGED <<attempts, paper>>
          PROVE  [Promise!Next]_(Promise!vars)
      BY <2>1, <2>2 DEF Promise!Next, Promise!Claim
    <2>3. ASSUME NEW d \in Daemon, PrintConfirmed(d) \/ PrintUncertain(d)
          PROVE  [Promise!Next]_(Promise!vars)
      <3>1. /\ job[d] \in Event /\ attempts[job[d]] = 0 /\ paper[job[d]] = 0
            /\ job[d] \in DurableIds
        BY <2>3 DEF IInv, TypeOK, JobInv, Reserving, PaperInv,
                    PrintConfirmed, PrintUncertain
      <3>2. DurableIds' = DurableIds
        BY <2>3, SameFileSameDurable DEF PrintConfirmed, PrintUncertain, file
      <3>3. Promise!PrintEvent(job[d])
        BY <2>3, <3>1, <3>2 DEF Promise!PrintEvent, PrintConfirmed, PrintUncertain
      <3> QED
        BY <3>1, <3>3 DEF Promise!Next
    <2> QED
      BY <2>2, <2>3
      DEF Next, vars, AcquireRuntimeLock, OpenJournal, OpenJournalRefuses, Exit,
          Reserve, WriteReservation, SyncReservation, ReservationFails,
          WriteSubmission, SubmissionEnds, PowerLoss
  <1> QED
    BY <1>1, <1>2, <1>3, Invariant, PTL DEF Spec, ImplementsPrintOnce, Promise!Spec

\* What PrintOnce promises of its own steps.
LEMMA PromiseStep ==
  Promise!TypeOK /\ Promise!AtMostOnce /\ [Promise!Next]_(Promise!vars)
    => Promise!TypeOK' /\ Promise!AtMostOnce'
  <1> SUFFICES ASSUME Promise!TypeOK, Promise!AtMostOnce, [Promise!Next]_(Promise!vars)
               PROVE  Promise!TypeOK' /\ Promise!AtMostOnce'
    OBVIOUS
  <1>1. /\ DurableIds \in SUBSET Event /\ attempts \in [Event -> Nat] /\ paper \in [Event -> Nat]
        /\ \A e \in Event : paper[e] <= attempts[e] /\ attempts[e] <= 1
    BY DEF Promise!TypeOK, Promise!AtMostOnce
  <1>2. CASE Promise!Claim
    <2>1. UNCHANGED <<attempts, paper>> /\ DurableIds' \in SUBSET Event
      BY <1>1, <1>2 DEF Promise!Claim
    <2> QED
      BY <1>1, <2>1 DEF Promise!TypeOK, Promise!AtMostOnce
  <1>3. ASSUME NEW e \in Event, Promise!PrintEvent(e)
        PROVE  Promise!TypeOK' /\ Promise!AtMostOnce'
    <2>1. /\ DurableIds' = DurableIds /\ attempts[e] = 0
          /\ attempts' = [attempts EXCEPT ![e] = 1]
          /\ paper' = paper \/ paper' = [paper EXCEPT ![e] = 1]
      BY <1>3 DEF Promise!PrintEvent
    <2>2. attempts' \in [Event -> Nat] /\ paper' \in [Event -> Nat]
      BY <1>1, <2>1
    <2>3. \A x \in Event : /\ paper[x] \in Nat /\ attempts[x] \in Nat
                           /\ attempts'[x] = IF x = e THEN 1 ELSE attempts[x]
                           /\ paper'[x] = paper[x] \/ (x = e /\ paper'[x] = 1)
      BY <1>1, <2>1
    <2>4. \A x \in Event : paper'[x] <= attempts'[x] /\ attempts'[x] <= 1
      BY <1>1, <2>1, <2>3
    <2> QED
      BY <1>1, <2>1, <2>2, <2>4 DEF Promise!TypeOK, Promise!AtMostOnce
  <1>4. CASE UNCHANGED Promise!vars
    BY <1>1, <1>4 DEF Promise!vars, Promise!TypeOK, Promise!AtMostOnce
  <1> QED
    BY <1>2, <1>3, <1>4 DEF Promise!Next

\* The promise holds of every system that implements PrintOnce, and so of the
\* journal: no event is attempted twice, and none leaves more paper than it was
\* attempted.
THEOREM PromiseKept == Spec => []Promise!AtMostOnce
  <1>1. Promise!Init => Promise!TypeOK /\ Promise!AtMostOnce
    BY DEF Promise!Init, Promise!TypeOK, Promise!AtMostOnce
  <1>2. Promise!Spec => []Promise!AtMostOnce
    BY <1>1, PromiseStep, PTL DEF Promise!Spec
  <1>3. Spec => Promise!Spec
    BY Refinement DEF ImplementsPrintOnce
  <1> QED
    BY <1>2, <1>3, PTL
=============================================================================
