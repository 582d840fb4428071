----------------------------- MODULE PrintOnce -----------------------------
(***************************************************************************)
(* What the Twitch print pipeline promises about paper, with no journal,   *)
(* no daemon and no crash in sight.  TWITCH_BANNER.md calls it the         *)
(* "exactly-once boundary": an event identifier is first claimed, a claim  *)
(* is never given back, and a claimed event is handed to the print command *)
(* at most once, whatever that command then does with the paper.           *)
(***************************************************************************)
EXTENDS Naturals

CONSTANT Event          \* identifiers of qualifying Twitch events

VARIABLES claimed,      \* events whose reservation survives a power loss
          attempts,     \* print commands started, per event
          paper         \* jobs that reached the print queue, per event

vars == <<claimed, attempts, paper>>

Init ==
  /\ claimed = {}
  /\ attempts = [e \in Event |-> 0]
  /\ paper = [e \in Event |-> 0]

\* Reservations become durable, possibly several at a time (one fsync covers
\* every line written before it).
Claim ==
  /\ \E S \in SUBSET Event : claimed' = claimed \cup S
  /\ UNCHANGED <<attempts, paper>>

\* The single print command of a claimed event; it may fail without paper.
PrintEvent(e) ==
  /\ e \in claimed
  /\ attempts[e] = 0
  /\ attempts' = [attempts EXCEPT ![e] = 1]
  /\ \/ paper' = paper
     \/ paper' = [paper EXCEPT ![e] = 1]
  /\ UNCHANGED claimed

Next == Claim \/ \E e \in Event : PrintEvent(e)

Spec == Init /\ [][Next]_vars

TypeOK ==
  /\ claimed \in SUBSET Event
  /\ attempts \in [Event -> Nat]
  /\ paper \in [Event -> Nat]

\* The promise itself: no event is attempted twice, and no event leaves more
\* paper than it was attempted.
AtMostOnce == \A e \in Event : paper[e] <= attempts[e] /\ attempts[e] <= 1
=============================================================================
