----------------------------- MODULE TwitchPages -----------------------------
(***************************************************************************)
(* The road of a Twitch event to paper: the gift collector composed with   *)
(* the three Processors (internal/twitchbanner, twitchgift, twitchraid),   *)
(* the Printers that start bannerprint, giftprint and raidprint, and those *)
(* commands themselves (cmd/*print), over restarts of the daemon.          *)
(*                                                                         *)
(* One serial event loop drives everything: while a celebration given out  *)
(* by the collector waits in `out`, or a page is on its way, the loop      *)
(* reads no notice and no tick.  The journal is taken at its promise       *)
(* (PrintOnce, which EventJournal implements): what is claimed stays       *)
(* claimed, and a later daemon knows it.                                   *)
(***************************************************************************)
EXTENDS GiftCollector

CONSTANTS Cheer,        \* message ids of cheers and the broadcaster's test commands
          Raid,         \* "raid:.." ids
          MaxRestarts,  \* bound: daemons started after the first
          NoPage        \* no page is on its way

Id == Gift \cup Cheer \cup Raid

\* What a print command can tell apart in a page: a roster without a name,
\* letters that the banner's face has no glyph for, and the roster of a
\* "!testgift", which goes to giftprint although no gift was collected.
Content == {"plain", "nameless", "foreign", "roster"}

Page == [id : Id, content : Content]

ASSUME IdAssumption == /\ Gift \cap (Cheer \cup Raid) = {} /\ Cheer \cap Raid = {}
                       /\ NoPage \notin Page /\ MaxRestarts \in Nat

VARIABLES
  page,       \* the reserved page whose print command comes next
  claimed,    \* events with a reservation in the journal file
  seen,       \* Journal.seen of the running daemon
  attempts,   \* print commands started, per event
  paper,      \* jobs that reached CUPS, per event
  excused,    \* history: gifts this daemon did not reserve, known or failed
  restarts    \* daemons started after the first

journal == <<claimed, seen>>
print == <<attempts, paper>>
history == <<excused, restarts>>
allVars == <<vars, page, journal, print, history>>

StartUp ==
  /\ Init
  /\ page = NoPage
  /\ claimed = {} /\ seen = {}
  /\ attempts = [e \in Id |-> 0]
  /\ paper = [e \in Id |-> 0]
  /\ excused = {}
  /\ restarts = 0

\* The loop is back at its select.
Idle == page = NoPage /\ out = << >>

----------------------------------------------------------------------------
(* The event loop *)

\* A gift notice, or a tick, that the collector takes.
Collect ==
  /\ Idle
  /\ \/ \E g \in Gift, n \in Totals : AcceptStart(g, n)
     \/ \E g \in Gift, p \in Person : AcceptRecipient(g, p)
  /\ UNCHANGED <<page, journal, print, history>>

Tick == Idle /\ Flush /\ UNCHANGED <<page, journal, print, history>>

\* Mutant of ReserveEvent: the claim is kept in memory and never appended.
MutantReserveInMemory(e, content) ==
  \/ /\ e \in seen
     /\ excused' = excused \cup ({e} \cap Gift)
     /\ UNCHANGED <<page, journal>>
  \/ /\ e \notin seen
     /\ seen' = seen \cup {e}
     /\ page' = [id |-> e, content |-> content]
     /\ UNCHANGED <<claimed, excused>>

\* ReserveEvent, called by each Processor before it prints: a duplicate, an
\* append that fails (its record may be in the file all the same), or a claim.
ReserveEvent(e, content) ==
  \/ /\ e \in seen
     /\ excused' = excused \cup ({e} \cap Gift)
     /\ UNCHANGED <<page, journal>>
  \/ /\ e \notin seen
     /\ claimed' \in {claimed, claimed \cup {e}}
     /\ excused' = excused \cup ({e} \cap Gift)
     /\ UNCHANGED <<page, seen>>
  \/ /\ e \notin seen
     /\ claimed' = claimed \cup {e}
     /\ seen' = seen \cup {e}
     /\ page' = [id |-> e, content |-> content]
     /\ UNCHANGED excused

\* Mutant of ProcessGift: after a page is reserved, the rest of the batch goes.
MutantBatchCut ==
  /\ page = NoPage /\ out # << >>
  /\ ReserveEvent(Head(out).gift, IF Head(out).names = {} THEN "nameless" ELSE "plain")
  /\ out' = << >>
  /\ UNCHANGED <<pending, completed, order, celebrated, arrivals, print, restarts>>

\* processGift, for the next celebration of the batch.
ProcessGift ==
  /\ page = NoPage /\ out # << >>
  /\ ReserveEvent(Head(out).gift, IF Head(out).names = {} THEN "nameless" ELSE "plain")
  /\ out' = Tail(out)
  /\ UNCHANGED <<pending, completed, order, celebrated, arrivals, print, restarts>>

\* PrepareCheer keeps every letter and digit of any script; a "!testgift" has
\* 10 to 100 names or is ignored; a raid page has the names Twitch allows.
Contents(e) == IF e \in Cheer THEN {"plain", "foreign", "roster"} ELSE {"plain"}

\* A cheer of 1000 bits, a "!testbanner" or "!testgift", or a raid on the
\* broadcaster.
ProcessNotice(e) ==
  /\ Idle
  /\ \E content \in Contents(e) : ReserveEvent(e, content)
  /\ UNCHANGED <<vars, print, restarts>>

----------------------------------------------------------------------------
(* The print commands *)

\* The flags each Printer passes to its command.
PassedToGiftprint == {"queue", "gifter", "total", "missing", "recipients"}
PassedToBannerprint == {"queue", "lines"}
PassedToRaidprint == {"n", "d", "o", "t"}

\* parseArgs of each command returns an error for a flag that it does not
\* define, and giftprint for a roster without a name, bannerprint for a letter
\* that the face has no glyph for.
RefusedByGiftprint(content) ==
  \/ ~ PassedToGiftprint \subseteq {"queue", "gifter", "total", "missing", "recipients",
                                    "preview", "preview-png", "preview-pgm"}
  \/ content = "nameless"

RefusedByBannerprint(content) ==
  \/ ~ PassedToBannerprint \subseteq {"queue", "lines", "font", "preview", "preview-png"}
  \/ content = "foreign"

RefusedByRaidprint ==
  ~ PassedToRaidprint \subseteq {"queue", "channel", "viewers", "preview", "preview-png"}

RefusesArguments(p) ==
  \/ (p.id \in Gift \/ p.content = "roster") /\ RefusedByGiftprint(p.content)
  \/ p.id \in Cheer /\ p.content # "roster" /\ RefusedByBannerprint(p.content)
  \/ p.id \in Raid /\ RefusedByRaidprint

\* The command ends with an error before lp: the arguments, the render, the
\* decoded stream or the attached queue is not what it should be.
Fails(e) ==
  /\ attempts' = [attempts EXCEPT ![e] = @ + 1]
  /\ UNCHANGED paper

\* The command reaches lp.  Unless lp fails, or answers with something else,
\* the job is in the queue; with an error it may or may not be.
Submits(e) ==
  /\ ~RefusesArguments(page)
  /\ attempts' = [attempts EXCEPT ![e] = @ + 1]
  /\ paper' \in {paper, [paper EXCEPT ![e] = @ + 1]}

PrintPage ==
  /\ page # NoPage
  /\ Fails(page.id) \/ Submits(page.id)
  /\ page' = NoPage
  /\ UNCHANGED <<vars, journal, history>>

----------------------------------------------------------------------------

\* The process ends anywhere and is started again.  A page on its way may
\* have been started, and may reach the queue when the daemon is gone.
DaemonRestart ==
  /\ restarts < MaxRestarts
  /\ Restart
  /\ \/ UNCHANGED <<attempts, paper>>
     \/ /\ page # NoPage
        /\ attempts' = [attempts EXCEPT ![page.id] = @ + 1]
        /\ \/ UNCHANGED paper
           \/ /\ ~RefusesArguments(page)
              /\ paper' = [paper EXCEPT ![page.id] = @ + 1]
  /\ page' = NoPage
  /\ seen' = claimed
  /\ excused' = {}
  /\ restarts' = restarts + 1
  /\ UNCHANGED claimed

Clock == TimePasses /\ UNCHANGED <<page, journal, print, history>>

PagesNext ==
  \/ Collect \/ Tick \/ Clock
  \/ ProcessGift
  \/ \E e \in Cheer \cup Raid : ProcessNotice(e)
  \/ PrintPage
  \/ DaemonRestart

PagesSpec == StartUp /\ [][PagesNext]_allVars

\* The ticker keeps firing and every command ends: the loop, which takes a
\* batch and a page to their end before anything else, comes back to both.
FairPagesSpec ==
  /\ PagesSpec
  /\ WF_allVars(Clock) /\ WF_allVars(Tick)
  /\ WF_allVars(ProcessGift) /\ WF_allVars(PrintPage)

----------------------------------------------------------------------------
(* Properties *)

PagesTypeOK ==
  /\ TypeOK
  /\ page \in Page \cup {NoPage}
  /\ claimed \in SUBSET Id /\ seen \in SUBSET Id
  /\ attempts \in [Id -> Nat] /\ paper \in [Id -> Nat]
  /\ excused \in SUBSET Gift
  /\ restarts \in Nat

\* TWITCH_BANNER.md, "exactly-once boundary": over redeliveries, gifts that a
\* later daemon collects again, failed reservations and orphaned commands, an
\* event is printed at most once, and never before it is claimed.
OnePageEver ==
  \A e \in Id : /\ paper[e] <= attempts[e] /\ attempts[e] <= 1
                /\ attempts[e] > 0 => e \in claimed

\* finish() marks a gift completed long before its page exists, and nothing
\* collects it again: each completed gift must be waiting in the batch, be on
\* its way, have had its command, or not have been reserved.  The pages of one
\* batch do not push each other out.
NoGiftIsMislaid ==
  \A g \in completed : \/ \E i \in DOMAIN out : out[i].gift = g
                       \/ page # NoPage /\ page.id = g
                       \/ attempts[g] > 0
                       \/ g \in excused

\* TWITCH_BANNER.md promises paper for cheers in any script ("unsupported
\* glyphs are normalized safely"), for raids ("the single physical raidprint
\* submission") and for gifts whose names are missing ("+ N MORE"): no page
\* that has been reserved is refused by its own command.
NoPageIsRefused == page # NoPage => ~RefusesArguments(page)
=============================================================================
