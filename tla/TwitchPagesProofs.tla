------------------------- MODULE TwitchPagesProofs --------------------------
(***************************************************************************)
(* Proofs about the road of a Twitch event to paper, for any sets of       *)
(* gifts, cheers, raids and recipients, any window, any tick delay and any *)
(* number of restarts.  First the gift collector on its own: a gift is     *)
(* given out at most once in the life of a daemon, and its deadline never  *)
(* moves once it is announced; it leaves on a page with every name that    *)
(* was collected.  Then the composition, whose steps are the collector's   *)
(* or leave what it keeps alone: all this still holds there, no completed  *)
(* gift is mislaid, and an event is printed at most once ever.             *)
(***************************************************************************)
EXTENDS TwitchPages, FiniteSetTheorems, WellFoundedInduction, TLAPS

\* A completed gift was given out exactly once and is not being collected;
\* every gift being collected can be reached through order.
IInv ==
  /\ TypeOK
  /\ \A g \in Gift : celebrated[g] = IF g \in completed THEN 1 ELSE 0
  /\ \A g \in completed : pending[g] = Nothing
  /\ \A g \in Gift : pending[g] # Nothing => g \in ToSet(order)

\* The cap on ages is a natural number.
LEMMA CapType == AgeCap \in Nat
  BY WindowAssumption DEF AgeCap

\* A notice works on an entry.
LEMMA CurrentType ==
  ASSUME TypeOK, NEW g \in Gift
  PROVE  Current(g) \in Entry
  BY CapType DEF TypeOK, Current, Entry

\* Accept keeps the invariant whatever entry it is given.
LEMMA AcceptInv ==
  ASSUME IInv, NEW g \in Gift, NEW entry \in Entry, Accept(g, entry)
  PROVE  IInv'
  <1>1. TypeOK'
    <2>1. order' \in Seq(Gift)
      BY DEF IInv, TypeOK, Accept
    <2>2. pending' \in [Gift -> Entry \cup {Nothing}]
      BY DEF IInv, TypeOK, Accept
    <2>3. completed' \in SUBSET Gift /\ celebrated' \in [Gift -> Nat]
      BY DEF IInv, TypeOK, Accept
    <2> QED
      BY <2>1, <2>2, <2>3 DEF TypeOK
  <1>2. \A h \in Gift : celebrated'[h] = IF h \in completed' THEN 1 ELSE 0
    BY DEF IInv, TypeOK, Accept
  <1>3. \A h \in completed' : pending'[h] = Nothing
    BY DEF IInv, TypeOK, Accept
  <1>4. \A h \in Gift : pending'[h] # Nothing => h \in ToSet(order')
    <2>1. ToSet(order) \subseteq ToSet(order') /\ (pending[g] = Nothing => g \in ToSet(order'))
      <3>1. CASE pending[g] = Nothing
        <4>1. order' = Append(order, g) /\ order \in Seq(Gift)
          BY <3>1 DEF IInv, TypeOK, Accept
        <4>2. /\ \A i \in DOMAIN order : i \in DOMAIN order' /\ order'[i] = order[i]
              /\ Len(order) + 1 \in DOMAIN order' /\ order'[Len(order) + 1] = g
          BY <4>1
        <4> QED
          BY <4>2 DEF ToSet
      <3>2. CASE pending[g] # Nothing
        BY <3>2 DEF Accept
      <3> QED
        BY <3>1, <3>2
    <2> QED
      BY <2>1 DEF IInv, TypeOK, Accept
  <1> QED
    BY <1>1, <1>2, <1>3, <1>4 DEF IInv

\* FlushDue keeps the invariant.
LEMMA FlushInv ==
  ASSUME IInv, NEW lag \in 0..MaxLag, FlushDue(lag)
  PROVE  IInv'
  <1>1. Due(lag) \subseteq Gift /\ \A g \in Due(lag) : pending[g] # Nothing
    BY DEF Due, Reachable
  <1>2. \A g \in Due(lag) : g \notin completed
    BY <1>1 DEF IInv
  <1>3. TypeOK'
    BY <1>1 DEF IInv, TypeOK, FlushDue
  <1> QED
    BY <1>1, <1>2, <1>3 DEF IInv, TypeOK, FlushDue

\* Growing older keeps the invariant.
LEMMA TimeInv ==
  ASSUME IInv, TimePasses
  PROVE  IInv'
  <1>1. \A entry \in Entry : entry.age # AgeCap => [entry EXCEPT !.age = @ + 1] \in Entry
    BY CapType DEF Entry
  <1>2. \A g \in Gift : /\ pending'[g] \in Entry \cup {Nothing}
                        /\ pending[g] = Nothing <=> pending'[g] = Nothing
    BY <1>1, NothingAssumption DEF IInv, TypeOK, TimePasses
  <1>3. TypeOK'
    BY <1>2 DEF IInv, TypeOK, TimePasses
  <1> QED
    BY <1>2, <1>3 DEF IInv, TypeOK, TimePasses

\* A restart leaves an empty collector.
LEMMA RestartInv ==
  ASSUME Restart
  PROVE  IInv'
  BY DEF Restart, IInv, TypeOK

\* An announced gift is an entry.
LEMMA StartEntry ==
  ASSUME TypeOK, NEW g \in Gift, NEW n \in Totals
  PROVE  [total |-> n, names |-> Current(g).names, age |-> 0] \in Entry
  BY CurrentType, CapType, TotalsAssumption DEF Entry

\* A new collector is empty.
LEMMA InvInit == Init => IInv
  BY DEF Init, IInv, TypeOK

\* Every step keeps the invariant.
LEMMA InvNext == IInv /\ [Next]_vars => IInv'
  <1> SUFFICES ASSUME IInv, [Next]_vars
               PROVE  IInv'
    OBVIOUS
  <1>0. TypeOK
    BY DEF IInv
  <1>1. ASSUME NEW g \in Gift, NEW n \in Totals, AcceptStart(g, n)
        PROVE  IInv'
    BY <1>0, <1>1, CurrentType, StartEntry, AcceptInv DEF AcceptStart
  <1>2. ASSUME NEW g \in Gift, NEW p \in Person, AcceptRecipient(g, p)
        PROVE  IInv'
    <2>1. [Current(g) EXCEPT !.names = @ \cup {p}] \in Entry
      BY <1>0, CurrentType DEF Entry
    <2> QED
      BY <1>2, <2>1, AcceptInv DEF AcceptRecipient
  <1>3. ASSUME Flush
        PROVE  IInv'
    BY <1>3, FlushInv DEF Flush
  <1>4. ASSUME TimePasses
        PROVE  IInv'
    BY <1>4, TimeInv
  <1>5. ASSUME Restart
        PROVE  IInv'
    BY <1>5, RestartInv
  <1>6. ASSUME UNCHANGED vars
        PROVE  IInv'
    BY <1>6 DEF IInv, TypeOK, vars
  <1> QED
    BY <1>1, <1>2, <1>3, <1>4, <1>5, <1>6 DEF Next

\* The strengthened invariant holds in every reachable state.
THEOREM Invariant == Spec => []IInv
  BY InvInit, InvNext, PTL DEF Spec

\* However often the notices of a gift are repeated, one daemon gives it out
\* at most once.
THEOREM OncePerGift == Spec => []OnePagePerGift
  <1>1. IInv => OnePagePerGift
    BY DEF IInv, OnePagePerGift
  <1> QED
    BY Invariant, <1>1, PTL

\* The type invariant on its own.
THEOREM TypeCorrect == Spec => []TypeOK
  <1>1. IInv => TypeOK
    BY DEF IInv
  <1> QED
    BY Invariant, <1>1, PTL

----------------------------------------------------------------------------

\* What the collector keeps from one call to the next.
kept == <<pending, completed, order, celebrated, arrivals>>

\* What one step may do to an announced gift that stays in the collector.
Kept(g) ==
  pending[g] # Nothing /\ pending'[g] # Nothing /\ pending[g].total > 0 =>
    /\ pending'[g].total = pending[g].total
    /\ pending'[g].age >= pending[g].age
    /\ pending[g].names \subseteq pending'[g].names

\* A step of the collector, or one that it does not see, keeps them.
LEMMA KeptStep ==
  ASSUME IInv, Next \/ UNCHANGED kept, NEW g \in Gift,
         pending[g] # Nothing, pending'[g] # Nothing, pending[g].total > 0
  PROVE  /\ pending'[g].total = pending[g].total
         /\ pending'[g].age >= pending[g].age
         /\ pending[g].names \subseteq pending'[g].names
  <1>0. TypeOK /\ pending[g] \in Entry
    BY DEF IInv, TypeOK
  <1>a. ASSUME pending'[g] = pending[g]
        PROVE  /\ pending'[g].total = pending[g].total
               /\ pending'[g].age >= pending[g].age
               /\ pending[g].names \subseteq pending'[g].names
    BY <1>0, <1>a, CapType DEF Entry
  <1>1. ASSUME NEW h \in Gift, NEW n \in Totals, AcceptStart(h, n)
        PROVE  pending'[g] = pending[g]
    <2>1. CASE h # g
      BY <1>0, <1>1, <2>1 DEF AcceptStart, Accept, TypeOK
    <2>2. CASE h = g
      <3>1. Current(g) = pending[g] /\ Current(g).total # 0
        BY <1>0 DEF Current, Entry
      <3> QED
        BY <1>0, <1>1, <2>2, <3>1 DEF AcceptStart, Accept, TypeOK
    <2> QED
      BY <2>1, <2>2
  <1>2. ASSUME NEW h \in Gift, NEW p \in Person, AcceptRecipient(h, p)
        PROVE  \/ pending'[g] = pending[g]
               \/ pending'[g] = [pending[g] EXCEPT !.names = @ \cup {p}]
    <2>1. CASE h # g
      BY <1>0, <1>2, <2>1 DEF AcceptRecipient, Accept, TypeOK
    <2>2. CASE h = g
      BY <1>0, <1>2, <2>2 DEF AcceptRecipient, Accept, TypeOK, Current
    <2> QED
      BY <2>1, <2>2
  <1>3. ASSUME Flush
        PROVE  pending'[g] = pending[g]
    BY <1>3 DEF Flush, FlushDue
  <1>4. ASSUME TimePasses
        PROVE  \/ pending'[g] = pending[g]
               \/ pending'[g] = [pending[g] EXCEPT !.age = @ + 1]
    BY <1>4 DEF TimePasses
  <1>5. ASSUME UNCHANGED kept
        PROVE  pending'[g] = pending[g]
    BY <1>5 DEF kept
  <1>r. ASSUME Restart
        PROVE  FALSE
    BY <1>r DEF Restart
  <1>6. /\ pending[g].age \in Nat
        /\ [pending[g] EXCEPT !.age = @ + 1].age = pending[g].age + 1
        /\ [pending[g] EXCEPT !.age = @ + 1].names = pending[g].names
        /\ [pending[g] EXCEPT !.age = @ + 1].total = pending[g].total
    BY <1>0, CapType DEF Entry
  <1>7. \A p : /\ [pending[g] EXCEPT !.names = @ \cup {p}].age = pending[g].age
               /\ [pending[g] EXCEPT !.names = @ \cup {p}].names = pending[g].names \cup {p}
               /\ [pending[g] EXCEPT !.names = @ \cup {p}].total = pending[g].total
    BY <1>0 DEF Entry
  <1>8. ASSUME NEW p, pending'[g] = [pending[g] EXCEPT !.names = @ \cup {p}]
        PROVE  /\ pending'[g].total = pending[g].total
               /\ pending'[g].age >= pending[g].age
               /\ pending[g].names \subseteq pending'[g].names
    BY <1>6, <1>7, <1>8
  <1>9. ASSUME pending'[g] = [pending[g] EXCEPT !.age = @ + 1]
        PROVE  /\ pending'[g].total = pending[g].total
               /\ pending'[g].age >= pending[g].age
               /\ pending[g].names \subseteq pending'[g].names
    BY <1>6, <1>9
  <1> QED
    BY <1>a, <1>1, <1>2, <1>3, <1>4, <1>5, <1>r, <1>8, <1>9 DEF Next

\* The body of ClockNeverTurnedBack, by its name.
LEMMA KeptMeans ==
  (\A g \in Gift : Kept(g)) <=>
    (\A g \in Gift :
       pending[g] # Nothing /\ pending'[g] # Nothing /\ pending[g].total > 0 =>
         /\ pending'[g].total = pending[g].total
         /\ pending'[g].age >= pending[g].age
         /\ pending[g].names \subseteq pending'[g].names)
  BY DEF Kept

\* No notice and no passage of time moves the deadline of an announced gift.
THEOREM DeadlineFixed == Spec => ClockNeverTurnedBack
  <1>1. IInv /\ [Next]_vars => [\A g \in Gift : Kept(g)]_vars
    <2>1. UNCHANGED vars => UNCHANGED kept
      BY DEF vars, kept
    <2> QED
      BY <2>1, KeptStep DEF Kept
  <1> QED
    BY <1>1, KeptMeans, Invariant, PTL DEF Spec, ClockNeverTurnedBack

----------------------------------------------------------------------------
(* The composition *)

\* A step of the composition is a step of the collector, or none for it.
LEMMA CollectorStep ==
  ASSUME [PagesNext]_allVars
  PROVE  Next \/ UNCHANGED kept
  <1>1. ASSUME Collect PROVE Next
    BY <1>1 DEF Collect, Next
  <1>2. ASSUME Tick PROVE Next
    BY <1>2 DEF Tick, Next
  <1>3. ASSUME Clock PROVE Next
    BY <1>3 DEF Clock, Next
  <1>4. ASSUME DaemonRestart PROVE Next
    BY <1>4 DEF DaemonRestart, Next
  <1>5. ASSUME ProcessGift PROVE UNCHANGED kept
    BY <1>5 DEF ProcessGift, kept
  <1>6. ASSUME NEW e \in Cheer \cup Raid, ProcessNotice(e) PROVE UNCHANGED kept
    BY <1>6 DEF ProcessNotice, kept, vars
  <1>7. ASSUME PrintPage PROVE UNCHANGED kept
    BY <1>7 DEF PrintPage, kept, vars
  <1>8. ASSUME UNCHANGED allVars PROVE UNCHANGED kept
    BY <1>8 DEF allVars, kept, vars
  <1> QED
    BY <1>1, <1>2, <1>3, <1>4, <1>5, <1>6, <1>7, <1>8 DEF PagesNext

\* The collector's invariant is one of the composition.
LEMMA PagesCollector == PagesSpec => []IInv
  <1>1. StartUp => IInv
    BY InvInit DEF StartUp
  <1>2. IInv /\ UNCHANGED kept => IInv'
    BY DEF IInv, TypeOK, kept
  <1>3. IInv /\ [PagesNext]_allVars => IInv'
    BY <1>2, InvNext, CollectorStep
  <1> QED
    BY <1>1, <1>3, PTL DEF PagesSpec

\* With the processors, the print commands and the restarts in the loop, a
\* daemon still gives each gift out at most once.
THEOREM ComposedOncePerGift == PagesSpec => []OnePagePerGift
  <1>1. IInv => OnePagePerGift
    BY DEF IInv, OnePagePerGift
  <1> QED
    BY PagesCollector, <1>1, PTL

\* Only what this daemon has reserved is printed; a reserved page has not been
\* printed yet; what is in memory is in the file.
PrintInv ==
  /\ attempts \in [Id -> Nat] /\ paper \in [Id -> Nat]
  /\ seen \subseteq claimed
  /\ \A e \in Id : /\ paper[e] <= attempts[e] /\ attempts[e] <= 1
                   /\ attempts[e] > 0 => e \in seen
  /\ page # NoPage => /\ page.id \in seen
                      /\ page.id \in Id => attempts[page.id] = 0

\* A reservation keeps the invariant.
LEMMA ReserveKeeps ==
  ASSUME PrintInv, page = NoPage, NEW e, NEW content, ReserveEvent(e, content),
         UNCHANGED print
  PROVE  PrintInv'
  <1>1. CASE UNCHANGED <<page, seen>> /\ claimed \subseteq claimed'
    BY <1>1 DEF PrintInv, print
  <1>2. CASE /\ e \notin seen
             /\ claimed' = claimed \cup {e}
             /\ seen' = seen \cup {e}
             /\ page' = [id |-> e, content |-> content]
    <2>1. page'.id = e
      BY <1>2
    <2>2. e \in Id => attempts[e] = 0
      BY <1>2 DEF PrintInv
    <2> QED
      BY <1>2, <2>1, <2>2 DEF PrintInv, print
  <1> QED
    BY <1>1, <1>2 DEF ReserveEvent, journal

\* One command is started for the page on its way, which may reach the queue.
LEMMA AttemptKeeps ==
  ASSUME PrintInv, page # NoPage, page' = NoPage, seen \subseteq seen',
         seen' \subseteq claimed',
         attempts' = [attempts EXCEPT ![page.id] = @ + 1],
         paper' \in {paper, [paper EXCEPT ![page.id] = @ + 1]}
  PROVE  PrintInv'
  <1>1. attempts' \in [Id -> Nat] /\ paper' \in [Id -> Nat]
    <2>1. ASSUME NEW f \in [Id -> Nat], NEW k
          PROVE  [f EXCEPT ![k] = @ + 1] \in [Id -> Nat]
      <3>1. CASE k \in Id
        BY <3>1
      <3>2. CASE k \notin Id
        <4>1. [f EXCEPT ![k] = @ + 1] = f
          BY <3>2
        <4> QED
          BY <4>1
      <3> QED
        BY <3>1, <3>2
    <2>2. attempts \in [Id -> Nat] /\ paper \in [Id -> Nat]
      BY DEF PrintInv
    <2> QED
      BY <2>1, <2>2
  <1>2. ASSUME NEW e \in Id
        PROVE  /\ paper'[e] <= attempts'[e] /\ attempts'[e] <= 1
               /\ attempts'[e] > 0 => e \in seen'
    <2>1. CASE e = page.id
      BY <2>1 DEF PrintInv
    <2>2. CASE e # page.id
      BY <2>2 DEF PrintInv
    <2> QED
      BY <2>1, <2>2
  <1> QED
    BY <1>1, <1>2 DEF PrintInv

\* Every step keeps the invariant.
LEMMA PrintNext == PrintInv /\ [PagesNext]_allVars => PrintInv'
  <1> SUFFICES ASSUME PrintInv, [PagesNext]_allVars
               PROVE  PrintInv'
    OBVIOUS
  <1>1. ASSUME UNCHANGED <<page, journal, print>>
        PROVE  PrintInv'
    BY <1>1 DEF PrintInv, journal, print
  <1>2. ASSUME ProcessGift
        PROVE  PrintInv'
    BY <1>2, ReserveKeeps DEF ProcessGift
  <1>3. ASSUME NEW e \in Cheer \cup Raid, ProcessNotice(e)
        PROVE  PrintInv'
    BY <1>3, ReserveKeeps DEF ProcessNotice, Idle
  <1>4. ASSUME PrintPage
        PROVE  PrintInv'
    <2>1. /\ page # NoPage /\ page' = NoPage
          /\ seen' = seen /\ claimed' = claimed
      BY <1>4 DEF PrintPage, journal
    <2>2. /\ attempts' = [attempts EXCEPT ![page.id] = @ + 1]
          /\ paper' \in {paper, [paper EXCEPT ![page.id] = @ + 1]}
      BY <1>4 DEF PrintPage, Fails, Submits
    <2>3. seen' \subseteq claimed'
      BY <2>1 DEF PrintInv
    <2> QED
      BY <2>1, <2>2, <2>3, AttemptKeeps
  <1>5. ASSUME DaemonRestart
        PROVE  PrintInv'
    <2>1. page' = NoPage /\ seen' = claimed /\ claimed' = claimed
      BY <1>5 DEF DaemonRestart
    <2>2. seen \subseteq seen' /\ seen' \subseteq claimed'
      BY <2>1 DEF PrintInv
    <2>3. CASE UNCHANGED <<attempts, paper>>
      BY <2>1, <2>2, <2>3 DEF PrintInv
    <2>4. CASE /\ page # NoPage
               /\ attempts' = [attempts EXCEPT ![page.id] = @ + 1]
               /\ paper' \in {paper, [paper EXCEPT ![page.id] = @ + 1]}
      BY <2>1, <2>2, <2>4, AttemptKeeps
    <2> QED
      BY <1>5, <2>3, <2>4 DEF DaemonRestart
  <1> QED
    BY <1>1, <1>2, <1>3, <1>4, <1>5 DEF PagesNext, Collect, Tick, Clock, allVars

\* Over redeliveries, repeated collection, failed reservations and restarts in
\* the middle of a page, an event is printed at most once, and only when it
\* is in the journal.
THEOREM OnePage == PagesSpec => []OnePageEver
  <1>1. StartUp => PrintInv
    BY DEF StartUp, PrintInv
  <1>2. PrintInv => OnePageEver
    BY DEF PrintInv, OnePageEver
  <1> QED
    BY <1>1, <1>2, PrintNext, PTL DEF PagesSpec

\* Nor does anything else the daemon does meanwhile.
THEOREM ComposedDeadlineFixed == PagesSpec => ClockNeverTurnedBack
  <1>1. IInv /\ [PagesNext]_allVars => [\A g \in Gift : Kept(g)]_vars
    BY CollectorStep, KeptStep DEF Kept
  <1> QED
    BY <1>1, KeptMeans, PagesCollector, PTL DEF PagesSpec, ClockNeverTurnedBack
----------------------------------------------------------------------------
(* Induction, from the least member of a set of numbers, and what it says of *)
(* functions that are defined by recursion on a number                       *)

LEMMA Least ==
  ASSUME NEW T \in SUBSET Nat, T # {}
  PROVE  \E n \in T : \A m \in T : n <= m
  <1> DEFINE R == {p \in Nat \X Nat : p[1] < p[2]}
  <1>1. IsWellFoundedOn(R, Nat)
    BY NatLessThanWellFounded DEF OpToRel
  <1>2. \E n \in T : \A m \in T : ~(<<m, n>> \in R)
    <2> HIDE DEF R
    <2> QED
      BY WFMin, <1>1
  <1>3. ASSUME NEW m \in Nat, NEW n \in Nat, m < n PROVE <<m, n>> \in R
    <2>1. <<m, n>> \in Nat \X Nat /\ <<m, n>>[1] = m /\ <<m, n>>[2] = n
      OBVIOUS
    <2> QED
      BY <1>3, <2>1
  <1> HIDE DEF R
  <1>4. PICK n \in T : \A m \in T : ~(<<m, n>> \in R)
    BY <1>2
  <1>5. ASSUME NEW m \in T PROVE n <= m
    <2>1. ~(m < n)
      BY <1>3, <1>4
    <2> QED
      BY <2>1
  <1> QED
    BY <1>5

LEMMA Induction ==
  ASSUME NEW S \in SUBSET Nat, 0 \in S, \A n \in Nat : n \in S => n + 1 \in S
  PROVE  S = Nat
  <1> SUFFICES ASSUME Nat \ S # {} PROVE FALSE
    OBVIOUS
  <1>1. PICK n \in Nat \ S : \A m \in Nat \ S : n <= m
    BY Least
  <1>2. n - 1 \in Nat /\ n - 1 \in S
    BY <1>1
  <1> QED
    BY <1>2

\* A function that is given at 0, and at every other number by the one before,
\* exists.
Recursive(n, T, base, step) ==
  \E f \in [0..n -> T] : f[0] = base /\ \A i \in 1..n : f[i] = step[i][f[i - 1]]

LEMMA Recursion ==
  ASSUME NEW n \in Nat, NEW T, NEW base \in T, NEW step \in [1..n -> [T -> T]]
  PROVE  Recursive(n, T, base, step)
  <1> DEFINE Upto(k, f) == f[0] = base /\ \A i \in 1..k : f[i] = step[i][f[i - 1]]
             S == {k \in Nat : k <= n => \E f \in [0..k -> T] : Upto(k, f)}
  <1>1. 0 \in S
    <2>1. [i \in 0..0 |-> base] \in [0..0 -> T] /\ Upto(0, [i \in 0..0 |-> base])
      OBVIOUS
    <2> QED
      BY <2>1
  <1>2. ASSUME NEW k \in Nat, k \in S PROVE k + 1 \in S
    <2> SUFFICES ASSUME k + 1 <= n PROVE \E f \in [0..(k + 1) -> T] : Upto(k + 1, f)
      OBVIOUS
    <2>1. PICK f \in [0..k -> T] : Upto(k, f)
      BY <1>2
    <2> DEFINE g == [i \in 0..(k + 1) |-> IF i <= k THEN f[i] ELSE step[k + 1][f[k]]]
    <2>2. k \in 0..k /\ k + 1 \in 1..n /\ f[k] \in T
      BY <2>1
    <2>3. step[k + 1][f[k]] \in T
      BY <2>2
    <2>4. g \in [0..(k + 1) -> T]
      BY <2>1, <2>3
    <2>5. g[0] = base
      BY <2>1
    <2>6. ASSUME NEW i \in 1..(k + 1) PROVE g[i] = step[i][g[i - 1]]
      <3>1. CASE i \in 1..k
        BY <2>1, <3>1
      <3>2. CASE i = k + 1
        BY <2>2, <3>2
      <3> QED
        BY <3>1, <3>2
    <2> QED
      BY <2>4, <2>5, <2>6
  <1> HIDE DEF S
  <1>3. S = Nat
    <2>1. S \in SUBSET Nat
      BY DEF S
    <2> QED
      BY <1>1, <1>2, <2>1, Induction
  <1>4. n \in S
    BY <1>3
  <1> QED
    BY <1>4 DEF S, Recursive

\* The loop over order meets each member of S, and nothing else.
LEMMA MeetsAll ==
  ASSUME NEW S \in SUBSET ToSet(order), order \in Seq(Gift)
  PROVE  InOrder(S) \in Seq(S) /\ ToSet(InOrder(S)) = S
  <1> DEFINE n == Len(order)
             Meet(i, m) == IF order[i] \in S \ ToSet(m) THEN Append(m, order[i]) ELSE m
             body(f) == [i \in 0..n |-> IF i = 0 THEN << >> ELSE
                           IF order[i] \in S \ ToSet(f[i - 1]) THEN Append(f[i - 1], order[i])
                           ELSE f[i - 1]]
             met == CHOOSE f : f = body(f)
             step == [i \in 1..n |-> [m \in Seq(S) |-> Meet(i, m)]]
  <1>1. n \in Nat /\ DOMAIN order = 1..n
    OBVIOUS
  <1>2. InOrder(S) = met[n]
    BY DEF InOrder
  <1>3. ASSUME NEW i \in 1..n, NEW m \in Seq(S) PROVE Meet(i, m) \in Seq(S)
    OBVIOUS
  <1>4. \E f : f = body(f)
    <2>1. step \in [1..n -> [Seq(S) -> Seq(S)]] /\ << >> \in Seq(S)
      BY <1>3
    <2>2. \A i \in 1..n, m \in Seq(S) : step[i][m] = Meet(i, m)
      OBVIOUS
    <2> DEFINE T == Seq(S)
               none == << >>
    <2> HIDE DEF step, n, Meet, T, none
    <2>0. n \in Nat /\ step \in [1..n -> [T -> T]] /\ none \in T
      BY <1>1, <2>1 DEF T, none
    <2>3. PICK f \in [0..n -> T] :
            f[0] = none /\ \A i \in 1..n : f[i] = step[i][f[i - 1]]
      <3>1. Recursive(n, T, none, step)
        BY <2>0, Recursion
      <3> QED
        BY <3>1 DEF Recursive
    <2>4. \A i \in 1..n : f[i] = Meet(i, f[i - 1])
      <3>1. ASSUME NEW i \in 1..n PROVE f[i] = Meet(i, f[i - 1])
        <4>1. i - 1 \in 0..n
          BY <2>0
        <4>2. f[i - 1] \in Seq(S)
          BY <2>3, <4>1 DEF T
        <4> QED
          BY <2>2, <2>3, <4>2
      <3> QED
        BY <3>1
    <2>5. \A i \in 0..n : f[i] = IF i = 0 THEN << >> ELSE Meet(i, f[i - 1])
      BY <1>1, <2>3, <2>4 DEF none
    <2>6. f = [i \in 0..n |-> f[i]]
      BY <2>3
    <2>7. f = body(f)
      BY <2>5, <2>6 DEF Meet
    <2> QED
      BY <2>7
  <1>5. met = body(met)
    <2> HIDE DEF body
    <2> QED
      BY <1>4
  <1>6. met[0] = << >> /\ \A i \in 1..n : met[i] = Meet(i, met[i - 1])
    <2> HIDE DEF met, n
    <2>1. \A i \in 0..n : met[i] = IF i = 0 THEN << >> ELSE Meet(i, met[i - 1])
      BY <1>5
    <2> QED
      BY <1>1, <2>1
  <1> HIDE DEF met
  <1> DEFINE Good == {k \in Nat : k <= n =>
                        /\ met[k] \in Seq(S)
                        /\ ToSet(met[k]) = {order[i] : i \in 1..k} \cap S}
  <1>7. 0 \in Good
    <2>1. << >> \in Seq(S) /\ ToSet(<< >>) = {} /\ 1..0 = {}
      BY DEF ToSet
    <2> QED
      BY <1>6, <2>1
  <1>8. ASSUME NEW k \in Nat, k \in Good PROVE k + 1 \in Good
    <2> SUFFICES ASSUME k + 1 <= n
                 PROVE  /\ met[k + 1] \in Seq(S)
                        /\ ToSet(met[k + 1]) = {order[i] : i \in 1..(k + 1)} \cap S
      OBVIOUS
    <2>1. met[k] \in Seq(S) /\ ToSet(met[k]) = {order[i] : i \in 1..k} \cap S
      BY <1>8, <1>1
    <2>2. k + 1 \in 1..n /\ met[k + 1] = Meet(k + 1, met[k])
      BY <1>1, <1>6
    <2>3. {order[i] : i \in 1..(k + 1)} = {order[i] : i \in 1..k} \cup {order[k + 1]}
      OBVIOUS
    <2>4. ASSUME NEW m \in Seq(S), NEW x \in S
          PROVE  ToSet(Append(m, x)) = ToSet(m) \cup {x}
      <3>1. /\ DOMAIN Append(m, x) = DOMAIN m \cup {Len(m) + 1}
            /\ \A i \in DOMAIN m : Append(m, x)[i] = m[i]
            /\ Append(m, x)[Len(m) + 1] = x
        OBVIOUS
      <3> QED
        BY <3>1 DEF ToSet
    <2> QED
      BY <1>3, <2>1, <2>2, <2>3, <2>4
  <1> HIDE DEF Good
  <1>9. n \in Good
    <2>1. Good \in SUBSET Nat
      BY DEF Good
    <2>2. Good = Nat
      BY <1>7, <1>8, <2>1, Induction
    <2> QED
      BY <1>1, <2>2
  <1>10. {order[i] : i \in 1..n} = ToSet(order)
    BY <1>1 DEF ToSet
  <1>11. met[n] \in Seq(S) /\ ToSet(met[n]) = S
    <2> HIDE DEF n
    <2>1. met[n] \in Seq(S) /\ ToSet(met[n]) = {order[i] : i \in 1..n} \cap S
      BY <1>1, <1>9 DEF Good
    <2> QED
      BY <1>10, <2>1
  <1> HIDE DEF n
  <1> QED
    BY <1>2, <1>11

----------------------------------------------------------------------------
(* What leaves the collector *)

\* What the loop over order gives out, and the names behind it.
Celebrations == [gift : Gift, total : Nat, names : SUBSET Person, missing : Nat]

OutInv ==
  /\ \A g \in Gift : pending[g] # Nothing => IsFiniteSet(pending[g].names)
  /\ out \in Seq(Celebrations)

\* A celebration counts every gift of its total, by name or as missing.
LEMMA CelebrationCounts ==
  ASSUME NEW g \in Gift, NEW entry \in Entry, IsFiniteSet(entry.names)
  PROVE  LET c == Celebration(g, entry)
         IN  /\ c \in Celebrations /\ c.gift = g /\ c.names = entry.names
             /\ Cardinality(c.names) + c.missing >= c.total
  <1>1. Cardinality(entry.names) \in Nat /\ entry.total \in Nat /\ entry.names \in SUBSET Person
    BY FS_CardinalityType DEF Entry
  <1> QED
    BY <1>1 DEF Celebration, Celebrations

\* The batch of a flush: one celebration for each gift that is due.
LEMMA FlushGivesOut ==
  ASSUME IInv, OutInv, NEW lag \in 0..MaxLag, FlushDue(lag)
  PROVE  /\ out' \in Seq(Celebrations)
         /\ \A g \in Due(lag) : \E i \in DOMAIN out' : out'[i] = Celebration(g, pending[g])
  <1> DEFINE batch == InOrder(Due(lag))
  <1>1. Due(lag) \in SUBSET ToSet(order) /\ Due(lag) \subseteq Gift /\ order \in Seq(Gift)
        /\ \A g \in Due(lag) : pending[g] # Nothing
    BY DEF Due, Reachable, IInv, TypeOK
  <1>2. batch \in Seq(Due(lag)) /\ ToSet(batch) = Due(lag)
    BY <1>1, MeetsAll
  <1>3. out' = [i \in DOMAIN batch |-> Celebration(batch[i], pending[batch[i]])]
    BY DEF FlushDue
  <1> HIDE DEF batch
  <1>4. \A g \in Due(lag) : Celebration(g, pending[g]) \in Celebrations
    <2> SUFFICES ASSUME NEW g \in Due(lag) PROVE Celebration(g, pending[g]) \in Celebrations
      OBVIOUS
    <2>1. g \in Gift /\ pending[g] \in Entry /\ IsFiniteSet(pending[g].names)
      BY <1>1 DEF IInv, TypeOK, OutInv
    <2> QED
      BY <2>1, CelebrationCounts
  <1>5. \A i \in DOMAIN batch : batch[i] \in Due(lag)
    BY <1>2
  <1>6. out' \in Seq(Celebrations)
    <2>1. Len(batch) \in Nat /\ DOMAIN batch = 1..Len(batch)
      BY <1>2
    <2>2. \A i \in 1..Len(batch) : Celebration(batch[i], pending[batch[i]]) \in Celebrations
      BY <1>4, <1>5, <2>1
    <2> QED
      BY <1>3, <2>1, <2>2
  <1>7. ASSUME NEW g \in Due(lag)
        PROVE  \E i \in DOMAIN out' : out'[i] = Celebration(g, pending[g])
    <2>1. PICK i \in DOMAIN batch : batch[i] = g
      BY <1>2 DEF ToSet
    <2>2. i \in DOMAIN out' /\ out'[i] = Celebration(g, pending[g])
      BY <1>3, <2>1
    <2> QED
      BY <2>2
  <1> QED
    BY <1>6, <1>7

\* What a notice leaves behind: the gift on its page, or still in the collector.
LEMMA AcceptGivesOut ==
  ASSUME IInv, OutInv, NEW g \in Gift, NEW entry \in Entry, IsFiniteSet(entry.names),
         Accept(g, entry)
  PROVE  /\ OutInv'
         /\ \/ Full(entry) /\ out' = <<Celebration(g, entry)>>
               /\ completed' = completed \cup {g}
            \/ pending'[g] = entry /\ entry # Nothing /\ completed' = completed
         /\ \A h \in Gift \ {g} : pending'[h] = pending[h]
  <1>1. Celebration(g, entry) \in Celebrations
    BY CelebrationCounts
  <1>2. out' \in Seq(Celebrations)
    <2>1. out' = <<Celebration(g, entry)>> \/ out' = << >>
      BY DEF Accept
    <2> HIDE DEF Celebrations
    <2>2. << >> \in Seq(Celebrations) /\ <<Celebration(g, entry)>> \in Seq(Celebrations)
      BY <1>1
    <2> QED
      BY <2>1, <2>2
  <1>3. entry # Nothing
    BY NothingAssumption
  <1>4. pending'[g] \in {entry, Nothing} /\ \A h \in Gift \ {g} : pending'[h] = pending[h]
    BY DEF Accept, IInv, TypeOK
  <1> QED
    BY <1>2, <1>3, <1>4 DEF Accept, OutInv, IInv, TypeOK

\* The entry that a notice of either kind works on: no name is lost in it.
LEMMA NoticeEntry ==
  ASSUME IInv, OutInv, NEW g \in Gift,
         \/ \E n \in Totals : AcceptStart(g, n)
         \/ \E p \in Person : AcceptRecipient(g, p)
  PROVE  \E entry \in Entry : /\ IsFiniteSet(entry.names)
                              /\ pending[g] # Nothing => pending[g].names \subseteq entry.names
                              /\ Accept(g, entry)
  <1>1. Current(g) \in Entry /\ IsFiniteSet(Current(g).names)
    <2>1. Current(g) \in Entry
      BY CurrentType DEF IInv
    <2>2. CASE pending[g] = Nothing
      BY <2>1, <2>2, FS_EmptySet DEF Current
    <2>3. CASE pending[g] # Nothing
      BY <2>1, <2>3 DEF OutInv, Current
    <2> QED
      BY <2>2, <2>3
  <1>2. pending[g] # Nothing => Current(g) = pending[g]
    BY DEF Current
  <1>3. ASSUME NEW n \in Totals, AcceptStart(g, n)
        PROVE  \E entry \in Entry : /\ IsFiniteSet(entry.names)
                                    /\ pending[g] # Nothing => pending[g].names \subseteq entry.names
                                    /\ Accept(g, entry)
    <2> DEFINE fresh == [total |-> n, names |-> Current(g).names, age |-> 0]
    <2>1. fresh \in Entry /\ fresh.names = Current(g).names
      BY StartEntry DEF IInv
    <2>2. Accept(g, fresh) \/ Accept(g, Current(g))
      BY <1>3 DEF AcceptStart
    <2> HIDE DEF fresh
    <2> QED
      BY <1>1, <1>2, <2>1, <2>2
  <1>4. ASSUME NEW p \in Person, AcceptRecipient(g, p)
        PROVE  \E entry \in Entry : /\ IsFiniteSet(entry.names)
                                    /\ pending[g] # Nothing => pending[g].names \subseteq entry.names
                                    /\ Accept(g, entry)
    <2> DEFINE more == [Current(g) EXCEPT !.names = @ \cup {p}]
    <2>1. more \in Entry /\ more.names = Current(g).names \cup {p}
      BY <1>1 DEF Entry
    <2>2. IsFiniteSet(Current(g).names \cup {p})
      BY <1>1, FS_AddElement
    <2>3. Accept(g, more)
      BY <1>4 DEF AcceptRecipient
    <2> HIDE DEF more
    <2> QED
      BY <1>2, <2>1, <2>2, <2>3
  <1> QED
    BY <1>3, <1>4

\* What processGift, or another step between two calls, does to the batch.
PageTaken == out' = out \/ (out # << >> /\ out' = Tail(out))

\* Only a full batch or a restart changes what the loop still has to print;
\* processGift takes its first page.
LEMMA OutStep ==
  ASSUME IInv, OutInv,
         Next \/ (UNCHANGED kept /\ PageTaken)
  PROVE  OutInv'
  <1>1. ASSUME NEW g \in Gift,
               \/ \E n \in Totals : AcceptStart(g, n)
               \/ \E p \in Person : AcceptRecipient(g, p)
        PROVE  OutInv'
    <2>1. PICK entry \in Entry : IsFiniteSet(entry.names) /\ Accept(g, entry)
      BY <1>1, NoticeEntry
    <2> QED
      BY <2>1, AcceptGivesOut
  <1>2. ASSUME Flush
        PROVE  OutInv'
    <2>1. PICK lag \in 0..MaxLag : FlushDue(lag)
      BY <1>2 DEF Flush
    <2>2. out' \in Seq(Celebrations)
      BY <2>1, FlushGivesOut
    <2>3. \A g \in Gift : pending'[g] # Nothing => pending'[g] = pending[g]
      BY <2>1 DEF FlushDue
    <2> QED
      BY <2>2, <2>3 DEF OutInv
  <1>3. ASSUME TimePasses
        PROVE  OutInv'
    <2>1. out' = out
      BY <1>3 DEF TimePasses
    <2>2. ASSUME NEW g \in Gift, pending'[g] # Nothing
          PROVE  IsFiniteSet(pending'[g].names)
      <3>1. pending[g] # Nothing
        BY <1>3, <2>2 DEF TimePasses
      <3>2. pending[g] \in Entry
        BY <3>1 DEF IInv, TypeOK
      <3>3. pending'[g] = pending[g] \/ pending'[g] = [pending[g] EXCEPT !.age = @ + 1]
        BY <1>3 DEF TimePasses
      <3>4. pending'[g].names = pending[g].names
        BY <3>2, <3>3 DEF Entry
      <3> QED
        BY <3>1, <3>4 DEF OutInv
    <2> QED
      BY <2>1, <2>2 DEF OutInv
  <1>4. ASSUME Restart
        PROVE  OutInv'
    <2>1. out' = << >> /\ \A g \in Gift : pending'[g] = Nothing
      BY <1>4 DEF Restart
    <2>2. out' \in Seq(Celebrations)
      <3> HIDE DEF Celebrations
      <3> QED
        BY <2>1
    <2> QED
      BY <2>1, <2>2 DEF OutInv
  <1>5. ASSUME UNCHANGED kept, PageTaken
        PROVE  OutInv'
    <2>1. pending' = pending
      BY <1>5 DEF kept
    <2>2. out' \in Seq(Celebrations)
      <3> HIDE DEF Celebrations
      <3>1. out \in Seq(Celebrations)
        BY DEF OutInv
      <3> QED
        BY <1>5, <3>1 DEF PageTaken
    <2> QED
      BY <2>1, <2>2 DEF OutInv
  <1> QED
    BY <1>1, <1>2, <1>3, <1>4, <1>5 DEF Next

\* An empty collector has nothing to print.
LEMMA OutInit == Init => OutInv
  BY DEF Init, OutInv

\* The two invariants together, on the collector's own behaviours.
LEMMA OutInvariant == Spec => [](IInv /\ OutInv)
  <1>1. IInv /\ OutInv /\ [Next]_vars => OutInv'
    <2>1. UNCHANGED vars => UNCHANGED kept /\ PageTaken
      BY DEF vars, kept, PageTaken
    <2> QED
      BY <2>1, OutStep
  <1> QED
    BY <1>1, InvInit, InvNext, OutInit, PTL DEF Spec

\* How a gift leaves the collector in one step.
Left(g) ==
  pending[g] # Nothing /\ pending'[g] = Nothing =>
    \/ order' = << >>
    \/ pending[g].total = 0 /\ pending[g].age >= 2 * Window
    \/ \E i \in DOMAIN out' :
         /\ out'[i].gift = g
         /\ pending[g].names \subseteq out'[i].names
         /\ Cardinality(out'[i].names) + out'[i].missing >= out'[i].total

\* Every step that takes a gift out of the collector takes it to its page, or
\* drops recipients of a gift never announced, or is a restart.
LEMMA LeavesStep ==
  ASSUME IInv, OutInv, Next \/ UNCHANGED kept, NEW g \in Gift
  PROVE  Left(g)
  <1> SUFFICES ASSUME pending[g] # Nothing, pending'[g] = Nothing
               PROVE  \/ order' = << >>
                      \/ pending[g].total = 0 /\ pending[g].age >= 2 * Window
                      \/ \E i \in DOMAIN out' :
                           /\ out'[i].gift = g
                           /\ pending[g].names \subseteq out'[i].names
                           /\ Cardinality(out'[i].names) + out'[i].missing >= out'[i].total
    BY DEF Left
  <1>0. pending[g] \in Entry /\ IsFiniteSet(pending[g].names)
    BY DEF IInv, TypeOK, OutInv
  <1>1. ASSUME NEW h \in Gift,
               \/ \E n \in Totals : AcceptStart(h, n)
               \/ \E p \in Person : AcceptRecipient(h, p)
        PROVE  \E i \in DOMAIN out' :
                 /\ out'[i].gift = g
                 /\ pending[g].names \subseteq out'[i].names
                 /\ Cardinality(out'[i].names) + out'[i].missing >= out'[i].total
    <2>1. PICK entry \in Entry : /\ IsFiniteSet(entry.names)
                                 /\ pending[h] # Nothing => pending[h].names \subseteq entry.names
                                 /\ Accept(h, entry)
      BY <1>1, NoticeEntry
    <2>2. h = g /\ out' = <<Celebration(g, entry)>>
      BY <2>1, AcceptGivesOut
    <2>3. LET c == Celebration(g, entry)
          IN  /\ c.gift = g /\ c.names = entry.names
              /\ Cardinality(c.names) + c.missing >= c.total
      BY <2>1, CelebrationCounts
    <2>4. 1 \in DOMAIN out' /\ out'[1] = Celebration(g, entry)
      BY <2>2
    <2> QED
      BY <2>1, <2>2, <2>3, <2>4
  <1>2. ASSUME Flush
        PROVE  \/ pending[g].total = 0 /\ pending[g].age >= 2 * Window
               \/ \E i \in DOMAIN out' :
                    /\ out'[i].gift = g
                    /\ pending[g].names \subseteq out'[i].names
                    /\ Cardinality(out'[i].names) + out'[i].missing >= out'[i].total
    <2>1. PICK lag \in 0..MaxLag : FlushDue(lag)
      BY <1>2 DEF Flush
    <2>2. g \in Due(lag) \cup Expired(lag)
      BY <2>1 DEF FlushDue
    <2>3. CASE g \in Due(lag)
      <3>1. PICK i \in DOMAIN out' : out'[i] = Celebration(g, pending[g])
        BY <2>1, <2>3, FlushGivesOut
      <3>2. LET c == Celebration(g, pending[g])
            IN  /\ c.gift = g /\ c.names = pending[g].names
                /\ Cardinality(c.names) + c.missing >= c.total
        BY <1>0, CelebrationCounts
      <3> QED
        BY <3>1, <3>2
    <2>4. CASE g \in Expired(lag)
      <3>1. pending[g].total = 0 /\ pending[g].age >= 2 * Window + lag
        BY <2>4 DEF Expired
      <3>2. pending[g].age \in Nat /\ lag \in Nat /\ Window \in Nat
        BY <1>0, CapType, WindowAssumption DEF Entry
      <3> QED
        BY <3>1, <3>2
    <2> QED
      BY <2>2, <2>3, <2>4
  <1>3. ASSUME TimePasses
        PROVE  FALSE
    <2>1. \/ pending'[g] = pending[g]
          \/ pending[g].age # AgeCap /\ pending'[g] = [pending[g] EXCEPT !.age = @ + 1]
      BY <1>3 DEF TimePasses
    <2>2. \A entry \in Entry : entry.age # AgeCap => [entry EXCEPT !.age = @ + 1] \in Entry
      BY CapType DEF Entry
    <2> QED
      BY <1>0, <2>1, <2>2, NothingAssumption
  <1>4. ASSUME Restart
        PROVE  order' = << >>
    BY <1>4 DEF Restart
  <1>5. ASSUME UNCHANGED kept
        PROVE  FALSE
    BY <1>5 DEF kept
  <1> QED
    BY <1>1, <1>2, <1>3, <1>4, <1>5 DEF Next

\* The body of LeavesOnItsPage, by its name.
LEMMA LeftMeans ==
  (\A g \in Gift : Left(g)) <=>
    (\A g \in Gift :
       pending[g] # Nothing /\ pending'[g] = Nothing =>
         \/ order' = << >>
         \/ pending[g].total = 0 /\ pending[g].age >= 2 * Window
         \/ \E i \in DOMAIN out' :
              /\ out'[i].gift = g
              /\ pending[g].names \subseteq out'[i].names
              /\ Cardinality(out'[i].names) + out'[i].missing >= out'[i].total)
  BY DEF Left

\* Whatever the window, the notices and the delays, a gift leaves the collector
\* with every name collected for it and the rest of its total as missing.
THEOREM LeavesOnPage == Spec => LeavesOnItsPage
  <1>1. IInv /\ OutInv /\ [Next]_vars => [\A g \in Gift : Left(g)]_vars
    BY LeavesStep
  <1> QED
    BY <1>1, LeftMeans, OutInvariant, PTL DEF Spec, LeavesOnItsPage

----------------------------------------------------------------------------
(* No completed gift is mislaid *)

\* The batch in the composition: processGift takes its first page, the other
\* steps of the loop leave it alone.
LEMMA LoopStep ==
  ASSUME [PagesNext]_allVars
  PROVE  Next \/ (UNCHANGED kept /\ PageTaken)
  <1>1. ASSUME ProcessGift
        PROVE  UNCHANGED kept /\ PageTaken
    BY <1>1 DEF ProcessGift, kept, PageTaken
  <1>2. ASSUME \/ \E e \in Cheer \cup Raid : ProcessNotice(e)
               \/ PrintPage \/ UNCHANGED allVars
        PROVE  UNCHANGED kept /\ PageTaken
    BY <1>2 DEF ProcessNotice, PrintPage, allVars, vars, kept, PageTaken
  <1>3. ASSUME Collect \/ Tick \/ Clock \/ DaemonRestart
        PROVE  Next
    BY <1>3 DEF Collect, Tick, Clock, DaemonRestart, Next
  <1> QED
    BY <1>1, <1>2, <1>3 DEF PagesNext

\* A gift that a call completes is on a page that the call gives out.
LEMMA CompletedIsOut ==
  ASSUME IInv, OutInv, NEW g \in completed' \ completed,
         \/ \E h \in Gift, n \in Totals : AcceptStart(h, n)
         \/ \E h \in Gift, p \in Person : AcceptRecipient(h, p)
         \/ Flush
  PROVE  \E i \in DOMAIN out' : out'[i].gift = g
  <1>1. ASSUME NEW h \in Gift,
               \/ \E n \in Totals : AcceptStart(h, n)
               \/ \E p \in Person : AcceptRecipient(h, p)
        PROVE  \E i \in DOMAIN out' : out'[i].gift = g
    <2>1. PICK entry \in Entry : IsFiniteSet(entry.names) /\ Accept(h, entry)
      BY <1>1, NoticeEntry
    <2>2. h = g /\ out' = <<Celebration(g, entry)>>
      BY <2>1, AcceptGivesOut
    <2>3. Celebration(g, entry).gift = g
      BY DEF Celebration
    <2>4. 1 \in DOMAIN out' /\ out'[1] = Celebration(g, entry)
      BY <2>2
    <2> QED
      BY <2>3, <2>4
  <1>2. ASSUME Flush
        PROVE  \E i \in DOMAIN out' : out'[i].gift = g
    <2>1. PICK lag \in 0..MaxLag : FlushDue(lag)
      BY <1>2 DEF Flush
    <2>2. g \in Due(lag)
      BY <2>1 DEF FlushDue
    <2>3. PICK i \in DOMAIN out' : out'[i] = Celebration(g, pending[g])
      BY <2>1, <2>2, FlushGivesOut
    <2>4. Celebration(g, pending[g]).gift = g
      BY DEF Celebration
    <2> QED
      BY <2>3, <2>4
  <1> QED
    BY <1>1, <1>2

\* Where the page of a completed gift is.
Placed(g) ==
  \/ \E i \in DOMAIN out : out[i].gift = g
  \/ page # NoPage /\ page.id = g
  \/ attempts[g] > 0
  \/ g \in excused

\* A reservation excuses its gift or sends its page on its way, and takes no
\* excuse back.
LEMMA ReservePlaces ==
  ASSUME NEW g \in Gift, NEW content \in Content, ReserveEvent(g, content)
  PROVE  g \in excused' \/ (page' # NoPage /\ page'.id = g)
  <1>1. [id |-> g, content |-> content] \in Page
    BY DEF Page, Id
  <1>2. \/ g \in excused'
        \/ page' = [id |-> g, content |-> content]
    BY DEF ReserveEvent
  <1> QED
    BY <1>1, <1>2, IdAssumption

\* A gift in its place stays there while the daemon lives: the next page of
\* the batch goes on its way or is excused, and a page on its way has its
\* command.
LEMMA PlacedStep ==
  ASSUME OutInv, PrintInv, [PagesNext]_allVars, ~DaemonRestart,
         NEW g \in Gift, Placed(g)
  PROVE  Placed(g)'
  <1>0. g \in Id /\ attempts \in [Id -> Nat]
    BY DEF PrintInv, Id
  <1>1. ASSUME Idle
        PROVE  attempts[g] > 0 \/ g \in excused
    <2>1. DOMAIN out = {} /\ page = NoPage
      BY <1>1 DEF Idle
    <2> QED
      BY <2>1 DEF Placed
  <1>2. ASSUME Collect \/ Tick
        PROVE  Placed(g)'
    <2>1. Idle /\ attempts' = attempts /\ excused' = excused
      BY <1>2 DEF Collect, Tick, print, history
    <2> QED
      BY <1>1, <2>1 DEF Placed
  <1>3. ASSUME Clock \/ UNCHANGED allVars
        PROVE  Placed(g)'
    <2>1. out' = out /\ page' = page /\ attempts' = attempts /\ excused' = excused
      BY <1>3 DEF Clock, TimePasses, allVars, vars, print, history
    <2> QED
      BY <2>1 DEF Placed
  <1>4. ASSUME NEW e \in Cheer \cup Raid, ProcessNotice(e)
        PROVE  Placed(g)'
    <2>1. Idle /\ attempts' = attempts /\ excused \subseteq excused'
      BY <1>4 DEF ProcessNotice, ReserveEvent, print
    <2> QED
      BY <1>1, <2>1 DEF Placed
  <1>5. ASSUME ProcessGift
        PROVE  Placed(g)'
    <2>1. page = NoPage /\ attempts' = attempts /\ out # << >> /\ out' = Tail(out)
      BY <1>5 DEF ProcessGift, print
    <2>2. excused \subseteq excused'
      BY <1>5 DEF ProcessGift, ReserveEvent
    <2>3. CASE \E i \in DOMAIN out : out[i].gift = g
      <3>1. PICK i \in DOMAIN out : out[i].gift = g
        BY <2>3
      <3>2. out \in Seq(Celebrations)
        BY DEF OutInv
      <3>3. CASE i = 1
        <4>1. g = Head(out).gift
          BY <2>1, <3>1, <3>2, <3>3
        <4>2. PICK content \in Content : ReserveEvent(g, content)
          BY <1>5, <4>1 DEF ProcessGift, Content
        <4> QED
          BY <4>2, ReservePlaces DEF Placed
      <3>4. CASE i # 1
        <4> HIDE DEF Celebrations
        <4>1. i - 1 \in DOMAIN Tail(out) /\ Tail(out)[i - 1] = out[i]
          BY <2>1, <3>1, <3>2, <3>4
        <4>2. i - 1 \in DOMAIN out' /\ out'[i - 1].gift = g
          BY <2>1, <3>1, <4>1
        <4> QED
          BY <4>2 DEF Placed
      <3> QED
        BY <3>3, <3>4
    <2> QED
      BY <2>1, <2>2, <2>3 DEF Placed
  <1>6. ASSUME PrintPage
        PROVE  Placed(g)'
    <2>1. out' = out /\ excused' = excused /\ attempts' = [attempts EXCEPT ![page.id] = @ + 1]
      BY <1>6 DEF PrintPage, Fails, Submits, vars, history
    <2>2. CASE page # NoPage /\ page.id = g
      BY <1>0, <2>1, <2>2 DEF Placed
    <2>3. CASE attempts[g] > 0
      BY <1>0, <2>1, <2>3 DEF Placed
    <2> QED
      BY <2>1, <2>2, <2>3 DEF Placed
  <1> QED
    BY <1>2, <1>3, <1>4, <1>5, <1>6 DEF PagesNext

\* Every step keeps track of the completed gifts.
LEMMA MislaidStep ==
  ASSUME IInv, OutInv, PrintInv, NoGiftIsMislaid, [PagesNext]_allVars
  PROVE  NoGiftIsMislaid'
  <1>1. NoGiftIsMislaid <=> \A g \in completed : Placed(g)
    BY DEF NoGiftIsMislaid, Placed
  <1>2. NoGiftIsMislaid' <=> \A g \in completed' : Placed(g)'
    BY DEF NoGiftIsMislaid, Placed
  <1>3. CASE DaemonRestart
    <2>1. completed' = {}
      BY <1>3 DEF DaemonRestart, Restart
    <2> QED
      BY <1>2, <2>1
  <1>4. CASE ~DaemonRestart
    <2> SUFFICES ASSUME NEW g \in completed' PROVE Placed(g)'
      BY <1>2
    <2>1. CASE g \in completed
      <3>1. g \in Gift /\ Placed(g)
        BY <1>1, <2>1 DEF IInv, TypeOK
      <3> QED
        BY <1>4, <3>1, PlacedStep
    <2>2. CASE g \notin completed
      <3>1. Collect \/ Tick
        BY <1>4, <2>2 DEF PagesNext, Clock, TimePasses, ProcessGift, ProcessNotice,
                          PrintPage, allVars, vars
      <3>2. \E i \in DOMAIN out' : out'[i].gift = g
        BY <2>2, <3>1, CompletedIsOut DEF Collect, Tick
      <3> QED
        BY <3>2 DEF Placed
    <2> QED
      BY <2>1, <2>2
  <1> QED
    BY <1>3, <1>4

\* The invariants of the composition together.
LEMMA PagesOut == PagesSpec => [](IInv /\ OutInv /\ PrintInv)
  <1>1. StartUp => OutInv /\ PrintInv
    BY OutInit DEF StartUp, PrintInv
  <1>2. IInv /\ OutInv /\ [PagesNext]_allVars => OutInv'
    BY LoopStep, OutStep
  <1> QED
    BY <1>1, <1>2, PagesCollector, PrintNext, PTL DEF PagesSpec

\* Every gift that a daemon has completed is in the batch, on its way to its
\* command, past it, or was not reserved: no page of a batch pushes another out.
THEOREM NothingMislaid == PagesSpec => []NoGiftIsMislaid
  <1>1. StartUp => NoGiftIsMislaid
    BY DEF StartUp, Init, NoGiftIsMislaid
  <1>2. IInv /\ OutInv /\ PrintInv /\ NoGiftIsMislaid /\ [PagesNext]_allVars => NoGiftIsMislaid'
    BY MislaidStep
  <1> QED
    BY <1>1, <1>2, PagesOut, PTL DEF PagesSpec

\* Nor do the print commands and the restarts change how a gift leaves.
THEOREM ComposedLeavesOnPage == PagesSpec => LeavesOnItsPage
  <1>1. IInv /\ OutInv /\ [PagesNext]_allVars => [\A g \in Gift : Left(g)]_vars
    BY CollectorStep, LeavesStep
  <1> QED
    BY <1>1, LeftMeans, PagesOut, PTL DEF PagesSpec, LeavesOnItsPage

\* The types of what the composition adds to the collector.
RoadType ==
  /\ page \in Page \cup {NoPage}
  /\ claimed \in SUBSET Id /\ seen \in SUBSET Id
  /\ attempts \in [Id -> Nat] /\ paper \in [Id -> Nat]
  /\ excused \in SUBSET Gift /\ restarts \in Nat

\* A reservation keeps the types of the page and of the journal.
LEMMA ReserveType ==
  ASSUME RoadType, NEW e \in Id, NEW content \in Content, ReserveEvent(e, content)
  PROVE  /\ page' \in Page \cup {NoPage} /\ claimed' \in SUBSET Id /\ seen' \in SUBSET Id
         /\ excused' \in SUBSET Gift
  <1>1. [id |-> e, content |-> content] \in Page
    BY DEF Page
  <1> QED
    BY <1>1 DEF RoadType, ReserveEvent, journal

LEMMA RoadTypeStep ==
  ASSUME OutInv, RoadType, [PagesNext]_allVars
  PROVE  RoadType'
  <1>1. ASSUME Collect \/ Tick \/ Clock \/ UNCHANGED allVars
        PROVE  RoadType'
    <2>1. UNCHANGED <<page, journal, print, history>>
      BY <1>1 DEF Collect, Tick, Clock, allVars
    <2> QED
      BY <2>1 DEF RoadType, journal, print, history
  <1>2. ASSUME ProcessGift
        PROVE  RoadType'
    <2>1. Head(out) \in Celebrations
      <3>1. out \in Seq(Celebrations) /\ out # << >>
        BY <1>2 DEF OutInv, ProcessGift
      <3> HIDE DEF Celebrations
      <3> QED
        BY <3>1
    <2>2. Head(out).gift \in Id
      BY <2>1 DEF Celebrations, Id
    <2>3. PICK content \in Content : ReserveEvent(Head(out).gift, content)
      BY <1>2 DEF ProcessGift, Content
    <2>4. attempts' = attempts /\ paper' = paper /\ restarts' = restarts
      BY <1>2 DEF ProcessGift, print
    <2> QED
      BY <2>2, <2>3, <2>4, ReserveType DEF RoadType
  <1>3. ASSUME NEW e \in Cheer \cup Raid, ProcessNotice(e)
        PROVE  RoadType'
    <2>1. PICK content \in Content : ReserveEvent(e, content)
      BY <1>3 DEF ProcessNotice, Contents, Content
    <2>2. attempts' = attempts /\ paper' = paper /\ restarts' = restarts /\ e \in Id
      BY <1>3 DEF ProcessNotice, print, Id
    <2> QED
      BY <2>1, <2>2, ReserveType DEF RoadType
  <1>4. \A f \in [Id -> Nat], e \in Id : [f EXCEPT ![e] = @ + 1] \in [Id -> Nat]
    OBVIOUS
  <1>5. page # NoPage => page.id \in Id
    BY DEF RoadType, Page
  <1>6. ASSUME PrintPage
        PROVE  RoadType'
    <2>1. /\ page' = NoPage /\ claimed' = claimed /\ seen' = seen
          /\ excused' = excused /\ restarts' = restarts
      BY <1>6 DEF PrintPage, journal, history
    <2>2. page.id \in Id /\ attempts' = [attempts EXCEPT ![page.id] = @ + 1]
          /\ paper' \in {paper, [paper EXCEPT ![page.id] = @ + 1]}
      BY <1>5, <1>6 DEF PrintPage, Fails, Submits
    <2>3. attempts' \in [Id -> Nat] /\ paper' \in [Id -> Nat]
      BY <1>4, <2>2 DEF RoadType
    <2> QED
      BY <2>1, <2>3 DEF RoadType
  <1>7. ASSUME DaemonRestart
        PROVE  RoadType'
    <2>1. /\ page' = NoPage /\ claimed' = claimed /\ seen' = claimed
          /\ excused' = {} /\ restarts' = restarts + 1
      BY <1>7 DEF DaemonRestart
    <2>2. \/ attempts' = attempts /\ paper' = paper
          \/ /\ page.id \in Id /\ attempts' = [attempts EXCEPT ![page.id] = @ + 1]
             /\ paper' \in {paper, [paper EXCEPT ![page.id] = @ + 1]}
      BY <1>5, <1>7 DEF DaemonRestart
    <2>3. attempts' \in [Id -> Nat] /\ paper' \in [Id -> Nat]
      BY <1>4, <2>2 DEF RoadType
    <2> QED
      BY <2>1, <2>3 DEF RoadType
  <1> QED
    BY <1>1, <1>2, <1>3, <1>6, <1>7 DEF PagesNext

\* The variables of the collector and of the road to paper keep their types.
THEOREM PagesTypeCorrect == PagesSpec => []PagesTypeOK
  <1>1. StartUp => RoadType
    BY DEF StartUp, RoadType
  <1>2. IInv /\ RoadType => PagesTypeOK
    BY DEF IInv, RoadType, PagesTypeOK
  <1> QED
    BY <1>1, <1>2, RoadTypeStep, PagesOut, PTL DEF PagesSpec
=============================================================================
