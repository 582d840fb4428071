------------------------------ MODULE EventSub ------------------------------
(***************************************************************************)
(* The Twitch connection of the daemon (cmd/twitch-banner/main.go): run    *)
(* with its backoff, runConnection, dialWelcome, the reconnect handoff,    *)
(* the socket reader goroutine with its stop(), and the ready marker that  *)
(* the setup helper reads; the subscription calls of APIClient             *)
(* (internal/twitchbanner/twitch.go) and Twitch's side of them.            *)
(*                                                                         *)
(* The main goroutine and one reader per socket meet on an unbuffered      *)
(* channel: a reader that has a message is blocked until the loop takes it *)
(* or stop() cancels it.  stop() also closes the socket and waits for the  *)
(* reader to end, so the loop blocks on the reader as well.                *)
(*                                                                         *)
(* What a message makes the daemon print is the subject of EventJournal    *)
(* and GiftCollector; here a notification or keepalive is just "data" and  *)
(* is dealt with in the step that takes it.  Everything that goes wrong    *)
(* outside the daemon draws on one budget of faults, so that the liveness  *)
(* properties speak of what follows once the trouble is over.              *)
(***************************************************************************)
EXTENDS Naturals, Sequences, FiniteSets, SequencesExt

CONSTANTS Conn,         \* sockets; a slot is used again when its reader ended
          Types,        \* requiredSubscriptions, in the order they are made
          Minute,       \* the backoff grows while it is below this
          MaxFaults,    \* bound: failures, revocations, reconnects and crashes
          MaxInbox      \* bound: messages on their way on one socket

ASSUME ConnAssumption == Conn # {}
ASSUME TypesAssumption == Types \in Seq(STRING) /\ Types # << >>
ASSUME MinuteAssumption == Minute \in Nat \ {0}
ASSUME BoundAssumption == MaxFaults \in Nat /\ MaxInbox \in Nat

VARIABLES
  main,       \* where run() is
  cur, old,   \* the socket of runConnection; the one a handoff is closing
  sock,       \* each socket as the daemon's kernel and Twitch know it
  inbox,      \* messages on their way, per socket
  reader,     \* each socket's reader goroutine, or the message it offers
  cancelled,  \* sockets whose reader context is cancelled
  posted,     \* how many of Types runConnection has subscribed to
  subs,       \* subscriptions in Twitch's listing: <<type, "live" or "dead">>
  marker,     \* eventsub-ready.json exists
  backoff,    \* seconds of the next wait
  faults,     \* faults left
  missed      \* history: a revocation was thrown away by a handoff

twitch == <<subs, inbox>>
sockets == <<sock, reader, cancelled>>
loop == <<main, cur, old>>
vars == <<main, cur, old, sock, inbox, reader, cancelled, posted, subs, marker,
          backoff, faults, missed>>

Main == {"off", "start", "dial", "delete", "subscribe", "verify", "mark",
         "loop", "redial", "swap", "joinold", "leave", "join", "backoff"}
Message == {"data", "reconnect", "revocation"}
Required == ToSet(Types)

\* The goroutine is alive.
Running(c) == reader[c] \notin {"none", "done"}
Free == {c \in Conn : sock[c] = "closed" /\ ~Running(c)}

Init ==
  /\ main = "off"
  /\ cur = CHOOSE c \in Conn : TRUE
  /\ old = cur
  /\ sock = [c \in Conn |-> "closed"]
  /\ inbox = [c \in Conn |-> << >>]
  /\ reader = [c \in Conn |-> "none"]
  /\ cancelled = {}
  /\ posted = 0
  /\ subs = {}
  /\ marker = FALSE
  /\ backoff = 1
  /\ faults = MaxFaults
  /\ missed = FALSE

\* Something outside the daemon goes wrong.
Fault == faults > 0 /\ faults' = faults - 1

----------------------------------------------------------------------------
(* run: start, wait, start again *)

\* systemd starts the service.
Restart ==
  /\ main = "off"
  /\ main' = "start"
  /\ backoff' = 1
  /\ UNCHANGED <<cur, old, sockets, twitch, posted, marker, faults, missed>>

\* The process ends at any point; its sockets go with it, the marker stays.
Exit ==
  /\ main # "off"
  /\ Fault
  /\ main' = "off"
  /\ sock' = [c \in Conn |-> "closed"]
  /\ inbox' = [c \in Conn |-> << >>]
  /\ reader' = [c \in Conn |-> "none"]
  /\ cancelled' = {}
  /\ UNCHANGED <<cur, old, posted, subs, marker, backoff, missed>>

\* The timer fires (the ticker beside it flushes gifts, see GiftCollector).
\* A successful connection never resets the backoff.
BackoffEnds ==
  /\ main = "backoff"
  /\ main' = "start"
  /\ backoff' = IF backoff < Minute THEN 2 * backoff ELSE backoff
  /\ UNCHANGED <<cur, old, sockets, twitch, posted, marker, faults, missed>>

----------------------------------------------------------------------------
(* runConnection up to the ready marker *)

\* Mutant of RemoveMarker: the marker of an earlier connection is kept.
MutantMarkerKept ==
  /\ main = "start"
  /\ main' = "dial"
  /\ UNCHANGED <<cur, old, sockets, twitch, posted, marker, backoff, faults, missed>>

RemoveMarker ==
  /\ main = "start"
  /\ \/ main' = "dial" /\ marker' = FALSE /\ UNCHANGED faults
     \/ main' = "backoff" /\ Fault /\ UNCHANGED marker
  /\ UNCHANGED <<cur, old, sockets, twitch, posted, backoff, missed>>

\* The token, the channel's identity, the socket and its welcome.  The new
\* session leaves earlier subscriptions listed, and disabled.
DialWelcome ==
  /\ main = "dial"
  /\ \/ \E c \in Free :
          /\ cur' = c
          /\ sock' = [sock EXCEPT ![c] = "open"]
          /\ reader' = [reader EXCEPT ![c] = "none"]
          /\ inbox' = [inbox EXCEPT ![c] = << >>]
          /\ subs' = {<<s[1], "dead">> : s \in subs}
          /\ main' = "delete"
          /\ missed' = FALSE
          /\ UNCHANGED faults
     \/ /\ main' = "backoff"
        /\ Fault
        /\ UNCHANGED <<cur, sock, reader, inbox, subs, missed>>
  /\ UNCHANGED <<old, cancelled, posted, marker, backoff>>

\* An error between the welcome and the reader: conn.Close, return.
CloseAndReturn ==
  /\ main' = "backoff"
  /\ sock' = [sock EXCEPT ![cur] = "closed"]

\* Mutant of DeleteRequiredSubscriptions: nothing is deleted.
MutantNothingDeleted ==
  /\ main = "delete"
  /\ main' = "subscribe" /\ posted' = 0
  /\ UNCHANGED <<cur, old, sockets, twitch, marker, backoff, faults, missed>>

\* Everything listed is deleted, one by one until the first error.
DeleteRequiredSubscriptions ==
  /\ main = "delete"
  /\ \/ main' = "subscribe" /\ posted' = 0 /\ subs' = {} /\ UNCHANGED <<sock, faults>>
     \/ /\ CloseAndReturn
        /\ Fault
        /\ subs' \in SUBSET subs
        /\ UNCHANGED posted
  /\ UNCHANGED <<cur, old, inbox, reader, cancelled, marker, backoff, missed>>

\* SubscribeCheer to SubscribeRaid.  Twitch may create a subscription that it
\* does not enable, and may create one although the answer is lost.
Subscribe ==
  /\ main = "subscribe"
  /\ LET live == subs \cup {<<Types[posted + 1], "live">>}
         dead == subs \cup {<<Types[posted + 1], "dead">>}
     IN  \/ /\ \/ subs' = live /\ UNCHANGED faults
               \/ subs' = dead /\ Fault
            /\ posted' = posted + 1
            /\ main' = IF posted + 1 = Len(Types) THEN "verify" ELSE "subscribe"
            /\ UNCHANGED sock
         \/ /\ CloseAndReturn
            /\ Fault
            /\ subs' \in {subs, live, dead}
            /\ UNCHANGED posted
  /\ UNCHANGED <<cur, old, inbox, reader, cancelled, marker, backoff, missed>>

\* Every listed subscription is enabled for this session, and none is missing.
Verified == subs = {<<t, "live">> : t \in Required}

\* Mutant of VerifyRequiredSubscriptions: the listing is not looked at.
MutantUnverified ==
  /\ main = "verify"
  /\ \/ main' = "mark" /\ UNCHANGED <<sock, faults>>
     \/ Fault /\ CloseAndReturn
  /\ UNCHANGED <<cur, old, inbox, reader, cancelled, posted, subs, marker, backoff, missed>>

\* Mutant of VerifyRequiredSubscriptions: the socket is left open.
MutantSocketLeft ==
  /\ main = "verify"
  /\ \/ Verified /\ main' = "mark" /\ UNCHANGED faults
     \/ ~Verified /\ main' = "backoff" /\ UNCHANGED faults
     \/ Fault /\ main' = "backoff"
  /\ UNCHANGED <<cur, old, sockets, inbox, posted, subs, marker, backoff, missed>>

VerifyRequiredSubscriptions ==
  /\ main = "verify"
  /\ \/ Verified /\ main' = "mark" /\ UNCHANGED <<sock, faults>>
     \/ ~Verified /\ CloseAndReturn /\ UNCHANGED faults
     \/ Fault /\ CloseAndReturn
  /\ UNCHANGED <<cur, old, inbox, reader, cancelled, posted, subs, marker, backoff, missed>>

\* startSocketReader.
Started(c) == [reader EXCEPT ![c] = "reading"]

\* The marker is renamed into place and the reader starts.  The last fsync
\* may fail when the marker is there already.
WriteReadyMarker ==
  /\ main = "mark"
  /\ \/ /\ marker' = TRUE
        /\ main' = "loop"
        /\ reader' = Started(cur)
        /\ cancelled' = cancelled \ {cur}
        /\ UNCHANGED <<sock, faults>>
     \/ /\ marker' \in {marker, TRUE}
        /\ Fault
        /\ CloseAndReturn
        /\ UNCHANGED <<reader, cancelled>>
  /\ UNCHANGED <<cur, old, inbox, posted, subs, backoff, missed>>

----------------------------------------------------------------------------
(* The event loop and the handoff *)

\* The loop receives what the reader offers.
TakeRead ==
  /\ main = "loop"
  /\ reader[cur] \in Message \cup {"error"}
  /\ reader' = [reader EXCEPT ![cur] = IF @ = "error" THEN "done" ELSE "reading"]
  /\ main' = CASE reader[cur] = "data"      -> "loop"
               [] reader[cur] = "reconnect" -> "redial"
               [] OTHER                     -> "leave"
  /\ UNCHANGED <<cur, old, sock, cancelled, twitch, posted, marker, backoff, faults, missed>>

\* dialWelcome on the reconnect URL; Twitch moves the session to the new
\* socket and writes to the old one no more.  A failure ends the connection.
Redial ==
  /\ main = "redial"
  /\ \/ \E c \in Free :
          /\ old' = cur /\ cur' = c
          /\ sock' = [sock EXCEPT ![c] = "open"]
          /\ inbox' = [inbox EXCEPT ![c] = << >>]
          /\ reader' = Started(c)
          /\ cancelled' = cancelled \ {c}
          /\ main' = "swap"
          /\ UNCHANGED faults
     \/ /\ main' = "leave"
        /\ Fault
        /\ UNCHANGED <<cur, old, sock, inbox, reader, cancelled>>
  /\ UNCHANGED <<posted, subs, marker, backoff, missed>>

\* socketReader.stop() up to the wait for done.
Stop(c) ==
  /\ cancelled' = cancelled \cup {c}
  /\ sock' = [sock EXCEPT ![c] = "closed"]

\* The revocation notices a socket still holds.
Revoked(c) == reader[c] = "revocation" \/ Contains(inbox[c], "revocation")

\* oldReader.stop() after a handoff: unread messages go with the old socket.
SwapReader ==
  /\ main = "swap"
  /\ Stop(old)
  /\ missed' = (missed \/ Revoked(old))
  /\ main' = "joinold"
  /\ UNCHANGED <<cur, old, twitch, reader, posted, marker, backoff, faults>>

\* The deferred reader.stop() of runConnection.
Leave ==
  /\ main = "leave"
  /\ Stop(cur)
  /\ main' = "join"
  /\ UNCHANGED <<cur, old, twitch, reader, posted, marker, backoff, faults, missed>>

\* <-r.done
Join ==
  /\ \/ main = "joinold" /\ ~Running(old) /\ main' = "loop"
     \/ main = "join" /\ ~Running(cur) /\ main' = "backoff"
  /\ UNCHANGED <<cur, old, sockets, twitch, posted, marker, backoff, faults, missed>>

----------------------------------------------------------------------------
(* A reader goroutine *)

\* ReadMessage returns a message.
ReaderReceives(c) ==
  /\ reader[c] = "reading"
  /\ inbox[c] # << >>
  /\ reader' = [reader EXCEPT ![c] = Head(inbox[c])]
  /\ inbox' = [inbox EXCEPT ![c] = Tail(@)]
  /\ UNCHANGED <<loop, sock, cancelled, posted, subs, marker, backoff, faults, missed>>

\* Mutant of ReaderFails: no read deadline is set.
MutantNoDeadline(c) ==
  /\ reader[c] = "reading"
  /\ \/ sock[c] = "closed"
     \/ sock[c] = "broken" /\ inbox[c] = << >>
  /\ reader' = [reader EXCEPT ![c] = "error"]
  /\ UNCHANGED <<loop, sock, cancelled, twitch, posted, marker, backoff, faults, missed>>

\* ReadMessage returns an error: the socket was closed here or by the peer,
\* or nothing has come for the 45 seconds of the read deadline.
ReaderFails(c) ==
  /\ reader[c] = "reading"
  /\ \/ sock[c] = "closed"
     \/ sock[c] \in {"broken", "silent"} /\ inbox[c] = << >>
  /\ reader' = [reader EXCEPT ![c] = "error"]
  /\ UNCHANGED <<loop, sock, cancelled, twitch, posted, marker, backoff, faults, missed>>

\* Mutant of ReaderCancelled: the reader does not wait for the loop.
MutantNoWait(c) ==
  /\ reader[c] \in Message \cup {"error"}
  /\ reader' = [reader EXCEPT ![c] = "done"]
  /\ UNCHANGED <<loop, sock, cancelled, twitch, posted, marker, backoff, faults, missed>>

\* The reader is offering something when its context is cancelled.
ReaderCancelled(c) ==
  /\ reader[c] \in Message \cup {"error"}
  /\ c \in cancelled
  /\ reader' = [reader EXCEPT ![c] = "done"]
  /\ UNCHANGED <<loop, sock, cancelled, twitch, posted, marker, backoff, faults, missed>>

----------------------------------------------------------------------------
(* Twitch and the network *)

Deliver(c, message) ==
  /\ sock[c] = "open"
  /\ Len(inbox[c]) < MaxInbox
  /\ inbox' = [inbox EXCEPT ![c] = Append(@, message)]

\* A keepalive or a notification on the session's current socket.
Notify ==
  /\ Deliver(cur, "data")
  /\ UNCHANGED <<loop, sockets, posted, subs, marker, backoff, faults, missed>>

\* Twitch asks for a handoff once the session is subscribed.
AskReconnect ==
  /\ subs # {}
  /\ Deliver(cur, "reconnect")
  /\ Fault
  /\ UNCHANGED <<loop, sockets, posted, subs, marker, backoff, missed>>

\* Twitch revokes a subscription and says so on the session's socket.
Revoke ==
  /\ \E s \in subs :
       /\ s[2] = "live"
       /\ subs' = (subs \ {s}) \cup {<<s[1], "dead">>}
  /\ Deliver(cur, "revocation")
  /\ Fault
  /\ UNCHANGED <<loop, sockets, posted, marker, backoff, missed>>

\* The peer closes a socket, or it goes silent without a word.
Disconnect(c) ==
  /\ sock[c] = "open"
  /\ Fault
  /\ \E s \in {"broken", "silent"} : sock' = [sock EXCEPT ![c] = s]
  /\ UNCHANGED <<loop, reader, cancelled, twitch, posted, marker, backoff, missed>>

----------------------------------------------------------------------------

MainStep ==
  \/ Restart \/ BackoffEnds \/ RemoveMarker \/ DialWelcome
  \/ DeleteRequiredSubscriptions \/ Subscribe \/ VerifyRequiredSubscriptions
  \/ WriteReadyMarker \/ TakeRead \/ Redial \/ SwapReader \/ Leave \/ Join

ReaderStep(c) == ReaderReceives(c) \/ ReaderFails(c) \/ ReaderCancelled(c)

Next ==
  \/ MainStep
  \/ \E c \in Conn : ReaderStep(c)
  \/ Exit \/ Notify \/ AskReconnect \/ Revoke
  \/ \E c \in Conn : Disconnect(c)

Spec == Init /\ [][Next]_vars

\* Both goroutines are scheduled; HTTP calls, dials and print commands end,
\* each by its own timeout if need be; systemd restarts a failed service.
FairSpec == Spec /\ WF_vars(MainStep) /\ \A c \in Conn : WF_vars(ReaderStep(c))

----------------------------------------------------------------------------
(* Properties *)

TypeOK ==
  /\ main \in Main
  /\ cur \in Conn /\ old \in Conn
  /\ sock \in [Conn -> {"closed", "open", "broken", "silent"}]
  /\ inbox \in [Conn -> Seq(Message)]
  /\ reader \in [Conn -> {"none", "reading", "error", "done"} \cup Message]
  /\ cancelled \subseteq Conn
  /\ posted \in 0..Len(Types) /\ (main = "subscribe" => posted < Len(Types))
  /\ subs \subseteq Required \X {"live", "dead"}
  /\ marker \in BOOLEAN
  /\ backoff \in 1..(2 * Minute)
  /\ faults \in 0..MaxFaults
  /\ missed \in BOOLEAN

Open(c) == sock[c] # "closed"

\* No socket and no reader goroutine outlives its connection: none is left
\* when runConnection has returned, and two only exist during a handoff.
NothingLeaks ==
  /\ \A c \in Conn :
       Open(c) => \/ c = cur /\ main \notin {"off", "start", "dial", "join", "backoff"}
                  \/ c = old /\ main = "swap"
  /\ \A c \in Conn :
       Running(c) => \/ c = cur /\ main \in {"loop", "redial", "swap", "joinold", "leave", "join"}
                     \/ c = old /\ main \in {"swap", "joinold"}

\* While a connection is being set up, no marker of an earlier one claims that
\* the subscriptions are ready.
NotReadyWhileConnecting ==
  main \in {"dial", "delete", "subscribe", "verify", "mark"} => ~marker

\* The daemon does not sit in its loop with a subscription missing: all are
\* live, or the notice of a revocation is on its way to the loop, or a handoff
\* threw that notice away with the old socket.
DeafnessIsNoticed ==
  main \in {"loop", "redial", "swap", "joinold"} =>
    Verified \/ Revoked(cur) \/ (main = "swap" /\ Revoked(old)) \/ missed

\* A message taken off a socket is handed to the loop; only stop(), or the end
\* of the process, makes a reader give one up.
NoSilentDrop ==
  [][\A c \in Conn :
       reader[c] \in Message /\ reader'[c] # reader[c] =>
         (main = "loop" /\ c = cur) \/ c \in cancelled \/ main' = "off"]_vars

\* A socket that goes silent is not waited on for ever.
SilenceIsNoticed == \A c \in Conn : sock[c] = "silent" ~> sock[c] # "silent"

\* When no more faults come, the daemon ends up in its event loop and stays.
Recovers == <>[](main = "loop")

\* service_status answers "eventsub_ready": true when the service is active and
\* the marker is there.  Plan 2026-07-21: a stage is never claimed to have
\* passed without evidence, so the daemon should be listening.
ReadyMeansListening ==
  marker /\ main # "off" => main \in {"loop", "redial", "swap", "joinold"}

(* The inductive invariant.  From the welcome to the deferred stop() the     *)
(* current socket is open and its reader is not cancelled; a handoff stops   *)
(* another socket than the current one.                                      *)

SocketInv ==
  /\ main \in {"delete", "subscribe", "verify", "mark", "loop", "redial", "swap", "joinold"} =>
       Open(cur)
  /\ main \in {"loop", "redial", "swap", "joinold"} => cur \notin cancelled
  /\ main = "swap" => old # cur /\ Open(old) /\ old \notin cancelled

\* A verified session hears of every later change.
MarkInv == main = "mark" => Verified \/ Revoked(cur)

IInv == /\ TypeOK /\ NothingLeaks /\ NotReadyWhileConnecting
        /\ SocketInv /\ MarkInv /\ DeafnessIsNoticed
=============================================================================
