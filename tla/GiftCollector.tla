---------------------------- MODULE GiftCollector ----------------------------
(***************************************************************************)
(* The gift-sub collector of the Twitch daemon                             *)
(* (internal/twitchgift/gift.go): Accept, FlushDue and finish, driven by   *)
(* the event loop and its 250 ms ticker (cmd/twitch-banner/main.go).       *)
(*                                                                         *)
(* A community gift is announced once ("start", with its total) and its    *)
(* recipients arrive as separate notifications, in any order, repeated or  *)
(* not at all.  The collector pairs them up and gives out one celebration: *)
(* at once when every name is in, otherwise when the window has passed     *)
(* since the announcement.  Recipients whose gift is never announced (a    *)
(* gift below the threshold, a lost notice) are dropped after two windows. *)
(*                                                                         *)
(* Time is the age of an entry, counted in window fractions and capped     *)
(* where no comparison in the code can tell the difference.  The loop may  *)
(* read a tick long after it fired, so FlushDue is handed an instant that  *)
(* lies up to MaxLag in the past.                                          *)
(***************************************************************************)
EXTENDS Naturals, FiniteSets, SequencesExt

CONSTANTS Gift,         \* community_sub_gift identifiers
          Person,       \* recipient_user_id values
          Totals,       \* announced totals that pass the parser's threshold
          Window,       \* the collection window of NewCollector
          MaxLag,       \* bound: how old the tick given to FlushDue may be
          MaxOrder,     \* bound: length of Collector.order
          Nothing       \* no pending entry

ASSUME TotalsAssumption == Totals \subseteq Nat \ {0}
ASSUME WindowAssumption == Window \in Nat \ {0} /\ MaxLag \in Nat
ASSUME BoundAssumption == MaxOrder \in Nat

AgeCap == 2 * Window + MaxLag

Entry == [total : Nat, names : SUBSET Person, age : 0..AgeCap]

ASSUME NothingAssumption == Nothing \notin Entry

VARIABLES
  pending,    \* Collector.pending: the entry of each gift being collected
  completed,  \* Collector.completed
  order,      \* Collector.order, which is only ever appended to
  out,        \* celebrations returned by the last call that collected
  celebrated, \* history: celebrations given out by this daemon, per gift
  arrivals    \* history: gifts being collected, in order of their first notice

vars == <<pending, completed, order, out, celebrated, arrivals>>

Init ==
  /\ pending = [g \in Gift |-> Nothing]
  /\ completed = {}
  /\ order = << >>
  /\ out = << >>
  /\ celebrated = [g \in Gift |-> 0]
  /\ arrivals = << >>

----------------------------------------------------------------------------
(* Accept *)

\* The entry a notice about g works on: a new one when none is pending.
Current(g) ==
  IF pending[g] = Nothing THEN [total |-> 0, names |-> {}, age |-> 0]
                          ELSE pending[g]

\* finish(): how a celebration describes its gift.
Celebration(g, entry) ==
  LET named == Cardinality(entry.names)
  IN  [gift |-> g, total |-> entry.total, names |-> entry.names,
       missing |-> IF entry.total > named THEN entry.total - named ELSE 0]

Full(entry) == entry.total > 0 /\ Cardinality(entry.names) >= entry.total

\* Mutant of Accept: an entry that is not full at once is not put in order.
MutantAcceptUnordered(g, entry) ==
  /\ g \notin completed
  /\ UNCHANGED order
  /\ \/ /\ Full(entry)
        /\ pending' = [pending EXCEPT ![g] = Nothing]
        /\ completed' = completed \cup {g}
        /\ celebrated' = [celebrated EXCEPT ![g] = @ + 1]
        /\ out' = <<Celebration(g, entry)>>
        /\ arrivals' = Remove(arrivals, g)
     \/ /\ ~Full(entry)
        /\ pending' = [pending EXCEPT ![g] = entry]
        /\ out' = << >>
        /\ arrivals' = IF pending[g] = Nothing THEN Append(arrivals, g) ELSE arrivals
        /\ UNCHANGED <<completed, celebrated>>

\* A new entry joins the end of order; a full one is finished at once.
Accept(g, entry) ==
  /\ g \notin completed
  /\ pending[g] = Nothing => Len(order) < MaxOrder
  /\ order' = IF pending[g] = Nothing THEN Append(order, g) ELSE order
  /\ \/ /\ Full(entry)
        /\ pending' = [pending EXCEPT ![g] = Nothing]
        /\ completed' = completed \cup {g}
        /\ celebrated' = [celebrated EXCEPT ![g] = @ + 1]
        /\ out' = <<Celebration(g, entry)>>
        /\ arrivals' = Remove(arrivals, g)
     \/ /\ ~Full(entry)
        /\ pending' = [pending EXCEPT ![g] = entry]
        /\ out' = << >>
        /\ arrivals' = IF pending[g] = Nothing THEN Append(arrivals, g) ELSE arrivals
        /\ UNCHANGED <<completed, celebrated>>

\* Mutant of AcceptStart: a repeated announcement restarts the clock.
MutantRestartClock(g, n) ==
  Accept(g, [total |-> n, names |-> Current(g).names, age |-> 0])

\* The announcement sets the total and restarts the clock, the first time only.
AcceptStart(g, n) ==
  LET entry == Current(g)
  IN  Accept(g, IF entry.total = 0
                  THEN [total |-> n, names |-> entry.names, age |-> 0]
                  ELSE entry)

AcceptRecipient(g, person) ==
  LET entry == Current(g)
  IN  Accept(g, [entry EXCEPT !.names = @ \cup {person}])

----------------------------------------------------------------------------
(* FlushDue *)

\* Pending gifts the loop over order can reach.
Reachable == {g \in Gift : pending[g] # Nothing} \cap ToSet(order)

Due(lag) ==
  {g \in Reachable : pending[g].total > 0 /\ pending[g].age >= Window + lag}

\* Mutant of Expired: recipients are dropped after one window.
MutantExpireEarly(lag) ==
  {g \in Reachable : pending[g].total = 0 /\ pending[g].age >= Window + lag}

\* Recipients of a gift that was never announced.
Expired(lag) ==
  {g \in Reachable : pending[g].total = 0 /\ pending[g].age >= 2 * Window + lag}

\* The members of S as the loop over order meets them, which finds nothing
\* pending when it meets one again.
InOrder(S) ==
  LET met[n \in 0..Len(order)] ==
        IF n = 0 THEN << >>
        ELSE IF order[n] \in S \ ToSet(met[n - 1]) THEN Append(met[n - 1], order[n])
        ELSE met[n - 1]
  IN  met[Len(order)]

FlushDue(lag) ==
  /\ LET batch == InOrder(Due(lag))
     IN  out' = [i \in DOMAIN batch |-> Celebration(batch[i], pending[batch[i]])]
  /\ pending' = [g \in Gift |-> IF g \in Due(lag) \cup Expired(lag)
                                  THEN Nothing ELSE pending[g]]
  /\ completed' = completed \cup Due(lag)
  /\ celebrated' = [g \in Gift |-> IF g \in Due(lag) THEN celebrated[g] + 1
                                                     ELSE celebrated[g]]
  /\ arrivals' = SelectSeq(arrivals, LAMBDA g : g \notin Due(lag) \cup Expired(lag))
  /\ UNCHANGED order

----------------------------------------------------------------------------

TimePasses ==
  /\ pending' = [g \in Gift |->
                   IF pending[g] = Nothing \/ pending[g].age = AgeCap THEN pending[g]
                   ELSE [pending[g] EXCEPT !.age = @ + 1]]
  /\ UNCHANGED <<completed, order, out, celebrated, arrivals>>

\* The daemon ends and is started again: run() makes a new collector, and
\* what the old one had collected and completed is forgotten.
Restart ==
  /\ pending' = [g \in Gift |-> Nothing]
  /\ completed' = {}
  /\ order' = << >>
  /\ out' = << >>
  /\ celebrated' = [g \in Gift |-> 0]
  /\ arrivals' = << >>

Flush == \E lag \in 0..MaxLag : FlushDue(lag)

Next ==
  \/ \E g \in Gift, n \in Totals : AcceptStart(g, n)
  \/ \E g \in Gift, p \in Person : AcceptRecipient(g, p)
  \/ Flush
  \/ TimePasses
  \/ Restart

Spec == Init /\ [][Next]_vars

\* The ticker keeps firing, in the connection loop and during backoff, and
\* the loop comes back to it because every print command ends.
FairSpec == Spec /\ WF_vars(TimePasses) /\ WF_vars(Flush)

----------------------------------------------------------------------------
(* Properties *)

TypeOK ==
  /\ pending \in [Gift -> Entry \cup {Nothing}]
  /\ completed \in SUBSET Gift
  /\ order \in Seq(Gift)
  /\ celebrated \in [Gift -> Nat]

\* One page per gift in the life of a daemon, however often its notices are
\* repeated, before or after the page was given out.
OnePagePerGift == \A g \in Gift : celebrated[g] <= 1

\* gift_test.go, TestDuplicateAggregateDoesNotExtendCollectionDeadline: once a
\* gift is announced, nothing that arrives moves its deadline, changes its
\* total or takes a name away.
ClockNeverTurnedBack ==
  [][\A g \in Gift :
       pending[g] # Nothing /\ pending'[g] # Nothing /\ pending[g].total > 0 =>
         /\ pending'[g].total = pending[g].total
         /\ pending'[g].age >= pending[g].age
         /\ pending[g].names \subseteq pending'[g].names]_vars

\* A gift leaves the collector on its own page, with every name collected and
\* the rest of its total counted as missing; only recipients of a gift never
\* announced are dropped, and only after two windows.  A restart, the one step
\* that shortens order, forgets everything.
LeavesOnItsPage ==
  [][\A g \in Gift :
       pending[g] # Nothing /\ pending'[g] = Nothing =>
         \/ order' = << >>
         \/ pending[g].total = 0 /\ pending[g].age >= 2 * Window
         \/ \E i \in DOMAIN out' :
              /\ out'[i].gift = g
              /\ pending[g].names \subseteq out'[i].names
              /\ Cardinality(out'[i].names) + out'[i].missing >= out'[i].total]_vars

\* Nothing stays in memory unprinted: every entry ends as a page or expires.
EveryEntryEnds == \A g \in Gift : pending[g] # Nothing ~> pending[g] = Nothing

\* gift_test.go, TestCollectorFlushesDueCelebrationsInArrivalOrder: gifts that
\* fall due together come out in the order in which they arrived.
FlushedInArrivalOrder ==
  [][\A i, j \in DOMAIN out' :
       i < j => \E k, l \in DOMAIN arrivals :
                  k < l /\ arrivals[k] = out'[i].gift /\ arrivals[l] = out'[j].gift]_vars
=============================================================================
