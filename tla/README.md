# A TLA+ verification project for the F11 print appliance

This directory holds TLA+ models of the parts of the appliance whose
correctness depends on order, concurrency or failure, the TLC configurations
that check them on small instances, and machine-checked TLAPS proofs of the
properties that matter most.

The appliance is a Raspberry Pi with a Rongta F11 thermal printer. It prints
what CUPS sends it, it can print banners and celebration pages for Twitch
events on its own, and a first-boot web wizard sets it up. Paper is the side
effect everything turns on: a page that was started cannot be taken back, so
the code prefers a missed page to a second one.

Paths below are relative to `src/Appliance/` unless they start with `src/`.

## 1. Inventory

### Twitch daemon

| component | state | operations | what is hard |
|---|---|---|---|
| **Event journal and print processors** (`internal/twitchbanner/twitchbanner.go`, `internal/twitchgift/print.go`, `internal/twitchraid/print.go`) | `events.jsonl`, the set of seen identifiers, the runtime lock | open, reserve, print, record the submission | torn writes, failed syncs, crashes between any two steps, redelivery, a second daemon |
| **Gift-sub collector** (`internal/twitchgift/gift.go`) | pending gifts with a deadline each, completed gifts, arrival order | accept a notice, flush what is due | notices in any order, repeated, late or lost; ticks read late |
| **EventSub connection** (`cmd/twitch-banner/main.go`, `internal/twitchbanner/twitch.go`) | one socket (two during a handoff), a reader goroutine per socket, the ready marker, the backoff, subscriptions at Twitch | connect, subscribe, verify, mark ready, loop, handoff, back off | goroutines that block on each other, partial failure of a series of requests, silence, revocation, stale readiness |
| **OAuth tokens** (`cmd/twitch-banner/main.go`) | `token.json`, the account the daemon is pinned to | authorize, refresh, validate, save | files replaced under the daemon, saves that are not synced, a rotated refresh token lost between the answer and the save |
| **Raid notifications** (`internal/twitchraid/raid.go`) | none | parse | – |

The daemon is one main goroutine. It owns the collector and the processors,
so everything that prints is serial; the readers only hand it messages over
an unbuffered channel. The collector's output and every other qualifying event
go through a `Processor`, which reserves the event in the journal, runs one
print command and records its job. A batch of celebrations and a page on its
way are finished before the loop reads another notice or tick, and are lost to
a restart that comes before they are reserved.

### Setup

| component | state | operations | what is hard |
|---|---|---|---|
| **Wizard** (`cmd/f11-setup-wizard/main.go`) | browser sessions, device-authorization flows | login, one handler per stage | every request is a goroutine; handlers wait seconds for the helper between load and save |
| **Checkpoint store** (`internal/setupstate/state.go`) | `state.json` | load, save atomically | lost updates, crashes |
| **Privileged helper** (`cmd/f11-setup-helper/main.go`) | the physical-attempt file | one JSON request per connection: Wi-Fi, printer, service, previews, physical test | outlives the wizard's patience of ten seconds; crashes around the one physical print |
| **Twitch device authorization** (`internal/twitchdevice/client.go`) | none of its own | request a code, poll | concurrent requests of a session, a session that ends meanwhile |
| **Authorization installer** (`image/rootfs/usr/local/lib/f11-image/install-twitch-authorization`) | token, environment, completion marker | replace each, restart the daemon | three files that must agree, no lock, kills and power loss between them |
| **First boot, import, network recovery** (`first-boot`, `import-envelope`, `import-settings`, `network-recover` under `image/rootfs/usr/local/lib/f11-image/`; `image/personalize-card.py` on the host) | envelope, settings and set-up card on the boot partition; identity files; two Wi-Fi profiles; the first-boot unit, its marker, the wizard's unit | import the envelope and the settings, generate what is missing, write the card, bring up a network, open the wizard, disable itself | the script stops at the first error, is killed by its timeout or by a power cut between any two commands, and starts over at every boot; three sources of the same secrets must agree |
| **Printer provisioning and queue migration** (`scripts/install.sh`, `scripts/plan-queue-migration.py`, `scripts/f11-health.sh`, `cups/f11-migration-hold`, `image/rootfs/usr/local/lib/f11/provision-printer`) | the queue of CUPS, the backend `f11` or the hold in its place | plan, disable, reject, cancel, configure, verify, release, accept, enable, check | clients print meanwhile; each script stops at the first error or is killed, and is run again by its user |

### Printing

`bannerprint`, `giftprint` and `raidprint` render a page
(`internal/banner`, `internal/giftpage`, `internal/raidpage`,
`internal/render`), encode it with the F11 protocol (`internal/protocol`),
decode it again, compare every row and submit it to CUPS. `f11d` is a command
line around the protocol; `cups/pdftof11` is the CUPS filter. They are pure
functions and pipelines around one submission. Three things can go wrong: the
decoder accepts something other than the page (`internal/protocol`: the Huffman
trees, the codes and the frames; `src/Sources` has a decoder of its own); the
command refuses what the daemon passes it, after the event was reserved; the
page leaves out, or draws over, what it was asked to show.

The filter leaves a marker named after its process while it streams a job; the
LED daemon (`image/rootfs/usr/local/lib/f11/print-led`) polls the markers and
CUPS and blinks. Markers outlive killed filters, process ids are used again,
and a restart of the daemon takes the marker directory with it.

### Host side

The macOS app (`src/Sources`), the image build, and `image/flash-card.py`, which
writes a release image to a card: disk identifiers are used again while it
works, and its one unforgivable mistake is to write another disk.

### What makes each component correct

* **Journal**: one print command per event at most, over any number of
  redeliveries, failures, crashes, power losses and daemons; no print without a
  reservation that survives a power loss; no event dropped as a duplicate that
  is not on record; no false entry in the audit trail.
* **Collector**: one page per gift; a deadline that nothing moves; no gift and
  no name lost before its time; nothing kept for ever; pages in order of arrival.
* **Road to paper**: every gift the collector gives out reaches its print command
  or was not reserved; one page per event, over restarts that collect the same
  gift again; no reserved page that its own command refuses.
* **Connection**: ready means listening; nothing leaks; the loop never waits
  for ever for a reader; silence, closure and revocation are noticed; once the
  trouble is over the daemon is connected again.
* **Protocol**: what is sent whole comes back row by row; nothing else is
  accepted; the two decoders agree.
* **Page layout**: the largest type that fits, unbroken words, every gift on the
  page by name or by number, nothing drawn over the frame.
* **First boot**: the card opens the device, whatever was stopped and started
  over; what the owner asked for is in place and gone from the card when the
  service is done; the device can be reached; the service ends.
* **Provisioning and migration**: no job of the old transport on the new one, no
  print on a queue that was not verified; stopped means closed; a provisioning that
  is repeated ends, and what was accepted meanwhile is printed.
* **Authorization**: the daemon serves the account it is pinned to and no
  other; the marker stands only over a whole authorization; a session that
  is over stays over.
* **Flashing**: only the card the user confirmed is written, never the system
  disk; success means the image is on it.
* **LED**: the LED is off when nothing prints; markers of killed filters do not
  pile up; a job that streams is shown (broken by the unit's capabilities).
* **Setup**: saved progress is legal, evidenced and kept; one test sheet at
  most, only after the attempt is on record twice; nobody is told to retry it.

`PROJECT.json` lists every component with its status, and the hazards of the
code with the properties that cover them.

## 2. Modules

| module | models | extends |
|---|---|---|
| `PrintOnce` | the promise: claim an event for good, then print it once | |
| `EventJournal` | journal, processors, runtime lock, crashes, power loss; implements `PrintOnce` | |
| `EventJournalProofs` | invariant and refinement, proved | `EventJournal`, `TLAPS` |
| `GiftCollector` | `Accept`, `FlushDue`, `finish`, the ticker, a restart of the daemon | |
| `TwitchPages` | the collector composed with the processors, the print commands and their arguments | `GiftCollector` |
| `TwitchPagesProofs` | one page per gift and per event, fixed deadlines, no gift mislaid, of the collector and of the composition, proved | `TwitchPages`, `TLAPS` |
| `EventSub` | `run`, `runConnection`, `dialWelcome`, readers, ready marker, Twitch's subscriptions | |
| `EventSubProofs` | types, no leak, no readiness while connecting, proved | `EventSub`, `TLAPS` |
| `SetupWizard` | the wizard's handlers, the checkpoint file, the helper's physical test | |
| `SetupProofs` | legal and evidenced progress, one recorded sheet, the safe migration of a queue, the LED's markers, proved | `SetupWizard`, `QueueMigration`, `PrintLed`, `TLAPS` |
| `Huffman` | `BuildHuffman`, traversals, `treeFrom`, `Encode`, `Decode` as functions | |
| `HuffmanTrees` | every tree and every string of bits, against reference definitions | `Huffman` |
| `PageLayout` | line breaks and type size of a banner, the roster of a gift page | |
| `PrintProtocol` | a job from rows through encoder and damaged stream to the two decoders | `Huffman` |
| `PrintingProofs` | the Huffman coder and its exactness on any input, only the whole job is accepted and comes back, the desktop client agrees, the largest type of a banner, the page of a gift, proved | `PrintProtocol`, `HuffmanTrees`, `PageLayout`, `TLAPS` |
| `Authorization` | sessions, device flows, installers, token files, the daemon's tokens | |
| `AuthorizationProofs` | pin, marker, sessions, proved | `Authorization`, `TLAPS` |
| `FlashCard` | `flash-card.py` among cards that come and go | |
| `FlashCardProofs` | only the confirmed card, proved | `FlashCard`, `TLAPS` |
| `PrintLed` | the filter's marker and the LED daemon | |
| `FirstBoot` | the first-boot service with the importers and the network recovery, power cuts, the owner | |
| `FirstBootProofs` | the card opens the device, imported and deleted, a way in, proved | `FirstBoot`, `TLAPS` |
| `QueueMigration` | `install.sh` from the hold on, its trap, `provision-printer`, planner and health check, among clients of CUPS | |
| `MC*` | instances for TLC | the module they are named after; `MCPrinting`: `HuffmanTrees`, `PageLayout` and `PrintProtocol` |

Definitions carry the names of the functions they model. A definition whose
name begins with `Mutant` is a plausible bug in the definition that follows it;
it is used by no specification, and serves to show that a property would
notice that bug.

### EventJournal

The file is a sequence of terminated lines and an unterminated tail. A line is
a sequence of *fragments* because a write that fails half way leaves a piece
of a record, and the next `append` continues on the same line; `OpenJournal`
accepts a line only if it is exactly one whole record. `synced` counts the
lines an fsync has covered. `append` is two actions, the write and the fsync,
since the process or the machine may end between them. Each daemon goes
`off → locked → idle → reserve → sync_reserve → print → submit → sync_submit
→ idle`; `Exit` may happen anywhere, `PowerLoss` also truncates the file to the
synced lines, any number of later ones and any prefix of the next.

Abstractions: an fsync that fails leaves the lines unsynced; an event that is
below the threshold, malformed or a duplicate changes nothing and has no action;
the three processors have one body. The print command is one step that either
confirms its job or ends with an error that says nothing about the paper.

### GiftCollector

A pending entry is its announced total, the identities of the names collected
and its age. `Accept` stands for one call with either kind of notice;
`FlushDue(lag)` for one tick, `lag` being how long ago the tick fired when the
loop gets to read it. The ages are capped above every comparison in the code.
Totals 1 and 2 stand for the thresholded totals 10 to 1000 of the parser.
`arrivals` and `celebrated` are history variables. `Restart` is a new daemon,
whose collector is empty. `NextDue` and `HasPending` have no caller in the
daemon and are left out.

### TwitchPages

The event loop of the daemon as far as paper is concerned. `out` is the batch
`Accept` or `FlushDue` returned, `page` the page that is reserved and whose
command has not ended; notices and ticks wait for both (`Idle`). `ReserveEvent` has
the outcomes the processors tell apart: a duplicate, an append that fails with
or without its record in the file, a claim. The journal is taken at its
promise, `PrintOnce`, which `EventJournal` is shown to implement; a daemon that
starts knows everything claimed, and a page that was on its way when the old
one died may still be printed. `excused` is history: the gifts that were not
reserved, the only ones that may have no command.

The contract between daemon and commands is two sets of flags per command, what
the Printer passes and what `parseArgs` defines, and what each command refuses
of its content: an empty roster (`nameless`), letters without a glyph
(`foreign`). Everything else that ends a command before `lp` is one choice,
`Fails`. A `!testgift` of the broadcaster passes the collector by: it is a notice
like a cheer, whose page (`roster`) has 10 to 100 names and goes to `giftprint`.

### EventSub

`main` is the place of the main goroutine in `run` and `runConnection`;
`reader[c]` is the goroutine of socket `c`: reading, offering a message (the
value is the message), or done. The channel is unbuffered, so `TakeRead` is one
joint step of the loop and the reader. `Stop` cancels and closes, `Join` is the
wait for `done`. Twitch's listing is the set `subs`; a subscription of an
earlier session, a revoked one and one that Twitch accepted without enabling
it are all `"dead"`. A notification and a keepalive are `"data"`: the loop deals
with them in the step that takes them. Token, identity and dial are one step
that fails or does not; a signal is an `Exit`, whose deferred calls end the
same way as the process.

### SetupWizard

A handler is a request slot that loads the checkpoints into `snap`, waits for
the helper, and saves. `Needs` is the table of `need` calls. The physical
test saves first and then asks; the helper's job for it (`job`) lives on when
the wizard gives up waiting. The attempt file is `none`, `created` (O_EXCL
succeeded, not synced) or `durable`. `Save` with its rename and its directory
sync is one atomic step, an error may come before or after the rename. A
request slot is used again only when its helper job has ended. The migration of
old checkpoint files is not modelled; the browser sessions are in
`Authorization`.

### Huffman, HuffmanTrees, PrintProtocol

A node is named by its symbol, a leaf by its byte and a merge by the numbers
above the bytes, as in the code; a tree is its root and its inner nodes with
their children. The functions are recursive functions, so the frames can be
proved about without unfolding them. A step of `Decode` is a chain of conditions,
in the order of the code, since the later ones hold in some states of the
earlier. `HuffmanTrees` enumerates pairs of traversals and strings of bits and
compares `TreeFrom` and `Decode` with definitions that search all full trees and
all messages; the theorems `TreesRebuilt` and `TreesDecoded` say the same for any
number of byte values.

`PrintProtocol` renders any rows (thresholds and dithering can give any),
encodes them, damages the stream frame by frame (a frame is lost, repeated,
exchanged or broken, or the stream is cut) and decodes it. A frame is its kind,
its fixed fields and its body; CRC, sync and lengths are one fact, intact or
broken, so a change that leaves the CRC valid is not modelled. One-byte settings
wrap at 256 and the 16-bit fields at `WordSize`.

### PageLayout

`LinePartitions` lists the partitions in the order of the code, because `Better`
keeps the first of equals; `BestSize` is the binary search of `bestSize`, which
never tries its two ends. `Tried` is the loop over the numbers of lines.
`LargestType` compares the result with a definition that looks at all ways to
place the cuts (`Layouts`) and all sizes. Abstractions: letters have one
width, so a line is as wide as its letters and blanks; sizes are integers, each
further from the next than the 0.001 the code takes for equal; the ratio of
`balance` is compared by cross-multiplication. Of the gift page only what
depends on the celebration is modelled (the rows, their spacing, the `+ N MORE` line,
the footer) with the dots of the code; a line of type is bounded by
`FaceHeight`. Names are told apart by whether `cleanName` leaves anything of them.

### FirstBoot

`pc` is the command the script runs next; each command that leaves something
behind is an action. `Kill` is the service's timeout or a command that fails this
time, `PowerCut` the plug, and
either leaves a file that was being written empty; the next boot starts the
script over as long as the unit is enabled and the marker is missing. What is
refused at every boot is in the data: a settings file is `"bad"`, an envelope is
not `valid` (`personalize-card.py` checks neither the country nor the time zone
that `import-envelope` then stops at), and `RefuseEnvelope` and `RefuseSettings` end
the script there, after the identity files are written; the owner may correct
either when the appliance is off. The two
importers delete, add, modify and bring up the same profile and remove their
file, so they share these actions; which of the two runs is told by `envelope`
(the settings are read only when it is gone). `Generate` makes what is missing
or empty. `wizard` is the setup code of the running wizard, which systemd loads
when it starts (`LoadCredential`). The owner personalises and copies settings
while the card is in his computer, and turns an appliance off whose first boot
stopped. `wanted` is history: what he asked for last.

`LateCard` and `LosesData` are FALSE in the use the instructions describe. They let
the owner personalise the card of a device that has booted, and let a power cut
take identity files written since the boot, which nothing syncs. Abstractions: an
identity is one value in three files; the host name, time zone, country and SSH
commands of the importers, which may be repeated and touch nothing modelled, are
one step (`ApplyDevice`; in `ReadSettings` for the settings); `nmcli` accepts a
network that the importer's own checks accepted, but for failures that pass;
`install-appliance`, which runs when the image is built, is left out. The rename of
the card and the removal of a file from the boot partition are taken as atomic
and kept; the code syncs neither.

### QueueMigration

Names that `SetupWizard` has too begin with `Queue` here (`QueueInit`, `QueueNext`,
`QueueSpec`, `QueueTypeOK`), so that one module can prove theorems of both.
`script` and `target` are what this machine is set up with: the installer, which a
user starts on a Pi that may have the old queue on the backend `f11`, or
`provision-printer`, which the wizard starts through the helper and only ever for
`Rongta_F11_Media`. `command` is the next one. `Stop` is the end at the first
error (`set -e`), after which the trap of `install.sh` is three commands of its
own, each of which may fail and is passed over (`failed` remembers them); `Kill` is the helper's timeout or the plug and runs no trap. The two scripts
share the planner, `lpadmin`, `accept`, `enable` and the health check, and so do the
actions; in the plan they differ (`Manages`), because the installer passes the
current queue and the provisioning does not.

CUPS is external, modelled as the scripts use it: a queue that accepts takes a
job, an enabled one prints on the transport it has at that moment, a backend that
exits with 4, like the hold, stops its queue, and `lpadmin` makes a new queue
closed and leaves an old one open or closed as it is. `sentOn` and `printedOn`
are history: the transport of a job's queue when it was accepted and when it was
printed. Abstractions: packages, tests, build, files and firewall are one
step, which changes nothing but the hold; printing a job is one step; the default
destination and the file `migration-in-progress`, which nothing reads, are left
out; a failing command leaves nothing behind.

### Authorization

`entry[k]` is what the session map has under a key, `husk` being the empty
session that a late handler's write-back leaves where the sweep had deleted one.
A handler (`pc[r]`) reads its session, waits for Twitch or for the helper, and
writes the session back. The installer it started (`inst[r]`) is a process of
its own: it goes on when the handler gives up and is killed by the helper
between any two steps; the rename of each file and the sync of its directory are
steps of their own. `token`, `env`, `marker` are the files; `past` is what token and
marker, which share a directory, have been together since it was last synced,
`envBefore` the same of the environment, `loose` a token whose content was never
synced. `PowerLoss` takes the token from one member of `past` and the marker from
another, and the environment from its own. The daemon loads, refreshes, validates and saves in separate
steps. An account stands for Client ID, login and user ID together. `crossed`
and `scrambled` are history variables: two writers met in what is now on the card;
a power loss left token and marker in a combination that never was. `MarkerVouches`
excepts both. The second happens only where a file system brings back the later of
two changes of one directory without the earlier, which ext4, journaling them in
order, does not do (the image's root is ext4, which `image/linux/inspect-image.sh`
checks in line 9); without that exception the property is `MarkerVouchesUnordered`,
which the code breaks (section 6).

Abstractions: when a token has expired and whether a refresh works is a choice;
that a refresh token is good once is not modelled; nothing in the code enforces
the polling interval, so a poll may come at any time; the temporary file name
that the daemon and the command share, and the notices a handler leaves, are not
modelled; `systemctl restart` is one step.

### FlashCard

`attached` says which card is under which identifier and in which slot. `Pull`,
`Insert` and `ReplaceImage` may happen between any two steps of the tool; a
descriptor is dead once its card was pulled. `Prewrite` and `Postwrite` are the
two fingerprints of the code. What diskutil reports of a disk is read in one
step. The image file is replaced by rename, never edited in place. Internal,
virtual and read-only disks are all disks `validate` refuses, as the system disk
and a card without a media identity are here.

### PrintLed

The job's life is `idle → prepare → stream → drain → idle`. The daemon's round
is a glob, then for each marker a `kill -0` and, in a step of its own, the
removal, then `Decide`. `Reuse` gives the id of a killed filter to another
process. Stated as a guard: an id is not used again in the instant between the
check and the removal. An `lpstat` that fails is the second disjunct of
`Decide`. The filter runs as `lp` and the daemon as root; `own` holds the
processes of root. `CapKill` says whether the daemon may signal the others: its
unit leaves it no capability, so the runs set it to `FALSE`.

## 3. Runs and bounds

`PROJECT.json` lists the runs with their properties. Each property of a passing
run has a mutant that breaks it under the run's own bounds.

| run | instance | why it is enough |
|---|---|---|
| `journal` | 2 daemons, 2 events, 3 lines, a tail of 1 fragment | two daemons is what the lock is for; three lines hold both records of one event and a torn line of the other |
| `twitch_pages` | 2 gifts, 1 recipient, 1 cheer, window 1, lag 1, 1 restart | a gift complete, one short, both due in one batch, an announced and a nameless one; a tick read after the window; a cheer that waits for the batch; a daemon that dies at any point and collects the same gift again. Raids go the way of cheers and have a run of their own |
| `eventsub` | 2 sockets, 2 subscription types, 3 faults, inbox 2, silence after 3 | a handoff needs two sockets; two types make a series of subscriptions fail half way; three faults break a connection, its handoff and the recovery |
| `wizard` | 2 requests | two is what a lost update needs; a slot is used again, so any number come in turn |
| `printing` | bytes of 3 values; traversals of up to 5 nodes, up to 5 bits; texts of up to 5 words of 1, 2 or 4 letters, sizes 2 to 12 on a page of 30 by 24; totals 10, 24, 26, 30 with up to 28 names that can be drawn and 2 that cannot; rows of 1 and 2 bytes, up to 2 rows, 2 faults, settings at and beyond each limit | all shapes with one and two merges, all malformed traversals of that size, codes of uneven length; every partition into up to three lines, texts too long by a word or a letter; every row count up to the 12 of 24 names, both sides of each threshold (16, 20, 24); both widths, a repeated and an exchanged row, a fault that another fault hides, a height that overflows its field |
| `authorization` | 2 accounts, 2 handlers, 1 session, 2 codes | two writers of different accounts, at once and in turn, beside the daemon that saves and the command that authorizes; a session that ends, is deleted and is written back by either of two handlers |
| `flash_card` | 4 cards (system disk, two that differ in media identity only, one without), 3 identifiers, 3 slots, 3 images, 5 moves | pull, insert the twin at the same place, replace the image, and two moves to spare |
| `print_led` | 3 process ids, 3 kills | a live job, a killed one and its id used again at once, with a daemon restart |
| `first_boot` | 2 personal and 2 random identities, 3 faults | a card personalised twice, envelopes and settings that are refused and corrected, files of the old, the new and a random identity mixed by a stop half way, and a third fault in the recovery |
| `queue_migration` | 2 jobs, 3 faults, both scripts, both names, with and without an old queue | one job of the old queue and one of the new; a run that is stopped, the run after it that is killed, and a printer that is unplugged between |
| `raid_pages` | 1 raid | counterexample |
| `print_led_shown` | as `print_led` | counterexample |

`MaxLines`, `MaxTail`, `MaxOrder`, `MaxLag`, `MaxRestarts`, `MaxFaults`,
`MaxInbox`, `MaxCode`, `MaxMoves`, `MaxDamages`, `MaxNodes`, `MaxBits`, `MaxKills`,
`WordLengths`, `Totals`, `MaxNames` and `MaxBlank` bound the runs and appear only
in guards and in what an action may choose. Symmetry is used where a run checks
invariants, or an action property that names no member of the set alone, and
nowhere with a liveness property. Deadlock is checked except where the program
really ends (`flash_card`, and in `printing` the life of a job, where the
enumerations of inputs end too). In `eventsub` it is what shows that `stop()` returns: a reader
that is not cancelled leaves the loop waiting for ever, which is a deadlock.
The runs name no type invariant: `TypeOK`, like `PagesTypeOK` of `TwitchPages`, is
proved, and of `PrintLed` it is checked by adding it to the configuration.
`ReservedBeforePrint` is proved and, being part of what `PrintOnce` promises,
checked with the refinement. `SubmittedIsPrinted` (no false entry in the audit
trail) and `OnePagePerGift` are proved, and checked by naming them in
`MCEventJournal.cfg` and `MCTwitchPages.cfg`.

## 4. Fairness

* `TwitchPages`: time passes, ticks are read, and the loop takes a batch and a page
  to their end (`ProcessGift`, `PrintPage`). The ticker of 250 ms is served in the
  connection's loop and during the backoff, and each print command ends by its own
  timeout. Nothing is assumed of notices, and restarts are bounded: a
  restart ends every entry by itself, and after the last one the clock must.
* `EventSub`: weak fairness of the main goroutine's steps and of each reader's.
  HTTP requests, dials and print commands have timeouts; systemd restarts the
  service. Nothing is assumed of Twitch or the network: faults are bounded, so
  "once the trouble is over" is what the liveness properties say.
* `PrintLed`: weak fairness of the daemon, whose loop sleeps a tenth of a second
  and which systemd starts again. Jobs, CUPS and other processes are under no
  fairness.
* `FirstBoot`: the script's commands end (`nmcli` and `systemctl` have timeouts, and
  the service has one), and an owner whose appliance did not open the wizard
  turns it off and on. Kills, power cuts and failures of the set-up network are
  bounded; an envelope or a settings file that is refused for ever is excepted by
  the property, and `FirstBootRefused.cfg` shows what an envelope that
  `personalize-card.py` made can do.
* `QueueMigration`: the scripts' commands end (the helper kills what does not), the
  user tries again, and CUPS prints what an open queue can print. Each is one weak
  fairness condition (`Script`, `Start`, `Printing`). Nothing is assumed of clients;
  the printer may be unplugged, and the property speaks of runs in which exactly
  one is attached in the end.

The other modules make safety claims only.

## 5. Proofs

All theorems but one are of the form `Spec => ...` for every value of the constants
that satisfies the assumptions named in the modules; `GivesBack` is about the
Huffman functions themselves. Each of the others rests on an inductive invariant
that TLC does not need to be told and the prover does.

* **EventJournal**: `IInv` adds to the properties who holds the lock, what a
  running daemon has seen (`SeenInv`), which event it works on (`JobInv`) and
  that what is on paper is reserved under the fsync mark (`PaperInv`). The last
  is why a power loss can take nothing back that was printed. `Refinement` maps
  `claimed` to the identifiers of the synced lines, and `PromiseKept` carries over
  what `PrintOnce` promises.
* **GiftCollector**: a gift is out once exactly when it is in `completed`, is
  then no longer pending, and is in `order` while it is pending. What leaves
  (`LeavesOnPage`) also needs that the names of an entry are finitely many, so that
  counting them means something, and that the loop over `order` meets every
  gift that is due (`MeetsAll`), by induction over the length of `order`.
* **TwitchPages**: a step of the composition is a step of the collector or changes
  none of the variables its invariant reads (`CollectorStep`), which carries the
  collector's theorems over. `PrintInv` adds that what the daemon knows is
  claimed, that an attempt was claimed first, and that the page on its way has
  had none; hence one page per event over any number of restarts (`OnePage`).
  `NothingMislaid` is inductive with these: a flush puts every gift it completes
  into the batch, only the head of the batch leaves it, as a page or excused, and a page
  ends with its attempt.
* **FirstBoot**: under `NormalUse` (`~LateCard /\ ~LosesData`). `PlaceInv` says where
  the script can be, `ReadyInv` that from the writing of the card on the card, the
  identity files, the set-up network and the wizard agree, `WantedInv` and `HomeInv`
  that what the owner asked for is on the card or in place at every command,
  `NetInv` that a network found active has a profile that lasts. The service may
  be stopped between any two commands, so each part must hold at every place a
  restart can find; that is why the importers' half-made profiles appear in them.
* **SetupWizard**: what a request has loaded is legal and evidenced
  (`SnapshotInv`), so a stale save can remove progress but never invent it; the
  attempt file and the helper's job agree on how far the one sheet has come.
* **QueueMigration**: `MigratesSafely` is not inductive: `ClosedOnTheWay` adds which
  ends of its queue a script has closed at each command, `UnmadeIsClosed` that
  `lpadmin` finds a new queue closed and empty, and `JobsKeepTransport` that no
  job of the old transport waits for the new one. The stop at an error, the trap,
  a failure in the trap and the kill may come between any two commands.
* **EventSub**: `SocketInv` ties each place of the main goroutine to the
  sockets that are open and the readers that run; `MarkInv` says that a
  revocation not yet noticed is still on its way in some reader.
* **PrintProtocol**: a job's frames are told apart by kind, and a stream that
  keeps their order by the row index. The invariant `Inv` says that what reaches
  the decoder is made of the job's frames and broken ones, for an accepted setting and
  rows of one width; that only the whole job passes (`WholeJob`) follows from the
  frames' kinds and indices alone, with the Huffman functions left unexpanded.
  So does `DesktopReadsTheSame`: of an accepted job the desktop client picks, by kind,
  the very frames the appliance's decoder finds by place. `RowsComeBack` needs the coder,
  and so does `JobTypeCorrect`, for what is decoded of an accepted job.
* **Huffman**: a merge makes an inner node and numbers it, so a tree of
  `BuildHuffman` is `Numbered`: a node's children have smaller numbers than the node,
  each node but the root has one parent, each leaf is a byte. The number is the rank
  for every recursion over the tree. `TreeBuilt` shows that the merges keep the
  forest numbered (`Grown`) until one tree is left. `TreeBack` shows that no node
  is listed twice, that a subtree is one stretch of either traversal, and hence
  that the split `treeFrom` finds is the node's own, at every node. `DecodeBack`
  follows a code from the root to its leaf (`WayRead`) and the data code by code,
  `Flattened` telling where each code lies among the bits. `GivesBack` puts the three
  together for any data, and `JobBack` for the rows of a page.
* **HuffmanTrees**: the same facts for input no encoder wrote. What they need of a
  tree is less than `Numbered`: that it is `Full`, with some rank for the
  recursions (`NumberedIsFull` gives the encoder's tree one). `FullTreesAre`
  shows that the reference definition makes the full trees and no others, by
  induction over the set of nodes (`PartInduction`); `BuiltFull`, that whatever
  `treeFrom` accepts is full and has the two lists as its traversals, by
  induction over the length of a stretch. The converse is `TreeBack`, and the two
  are `TreeFromExact`. For `Decode`, `ReadSound` says at every bit
  that what was read is the codes of the bytes that are out and the way to the
  node the decoder is at; a message it returns is one whose codes are the bits,
  and `DecodeBack` excludes a second one.
* **PageLayout**: the sizes of a gift page are a calculation from the number of
  recipients shown, in the three ranges in which the code spaces them
  (`GiftPage`). For `BannerIsLargest`, lines that fit at a size fit at every
  smaller one, so the binary search ends at the largest size that fits
  (`BestSizeIs`); "more even than" is an order (`BalanceIsAnOrder`), for which no
  line may be without width, hence `TextAssumption`: a word `strings.Fields` returns
  is not empty. `BestIs` carries the best of the layouts tried so far along
  the loop, and `TriedAre` shows that the layouts tried are all there are. Beyond
  the types of the inputs no invariant is needed.
* **PrintLed**: `LedInv` says that a job that is rendered or sent has a running
  filter, that no filter is root's, and that a marker about to be removed is of no
  process that answers `kill -0`. Hence the daemon removes no marker whose process
  answers (`MarkersAreKept`), with or without `CAP_KILL`. It rests on the guard above that gives an id to no process
  in the instant before the removal; without it a new process could lose its marker.
* **FlashCard**: a live descriptor is of the card that is attached under its
  identifier (`Pinned`), so the check made while it is open binds the write to
  that card. This needs `IdentityAssumption`: where macOS reports media
  identities at all, different cards have different ones.
* **Authorization**: unless two writers met or a power loss scrambled the token's
  directory (`Alone`), one installer at a time is between unlinking the marker and
  writing it, what it has written is its own, and once it has synced the token no
  state with a marker is left for a power loss to bring back (`InstallInv`); of the
  states a power loss may bring back none has a marker over a mixture
  (`DurableInv`).
  Neither is inductive alone. It needs `NoAccountAssumption`: no account is
  called like the two sentinels.

Recursive definitions take two steps the prover does not do by itself. A definition by
recursion picks a function that satisfies its equation if there is one, so first
comes that there is one: `Recursion` and `RankRecursion` build it, and take the step as a
function, since a fact that takes an operator cannot be cited here. Then
comes induction, as the statement that a set of numbers with 0 and every
successor is `Nat` (`Induction`, from the least member of its complement). What is
proved by induction is therefore always a set: of lengths, of ranks or of steps.

Every invariant and every action property of the passing runs is a theorem.
Only model-checked: liveness (`EveryEntryEnds`, `SilenceIsNoticed`, `Recovers`,
`GoesDark`, `OrphansEnd`, `Completes`, `ProvisioningServes`), which is out of
this prover's reach; the counterexamples of section 6 are TLC's too.
`AnsweredMarkersStay` and `LampAsBelieved` are theorems only: the run of `PrintLed` asks
about liveness.

## 6. Where the code and its documentation part

TLC ends each of these with a counterexample. The first two are runs of
`PROJECT.json`, whose findings quote the lines; the others are started with
`tlc -config <configuration> <module>`.

| configuration | module | property | what it shows | what it contradicts |
|---|---|---|---|---|
| `RaidPages.cfg` | `MCTwitchPages` | `NoPageIsRefused` | the daemon starts `raidprint` with the flags of `lp`; it ends with an error, and the raid is reserved and never printed | `TWITCH_BANNER.md:124` |
| `PrintLedShown.cfg` | `MCPrintLed` | `JobIsShown` | the LED unit's empty capability set keeps root from signalling the filter's user, so a live job's marker is removed and the LED stays dark; with `CapKill = TRUE`, as in the test, which runs both as one user, TLC finds the property to hold | `Tests/print-led.py:37` |
| `WizardProgress.cfg` | `MCSetupWizard` | `ProgressIsKept` | a slow request saves its old snapshot over a newer checkpoint | `src/Docs/plans/2026-07-21-pi-zero-image-wizard.md:20` |
| `EventSubReady.cfg` | `MCEventSub` | `ReadyMeansListening` | the ready marker survives the connection it vouches for | the same plan, line 20 |
| `AuthorizationPin.cfg` | `MCAuthorization` | `PinIsAuthorizedAccount` | two overlapping installers leave one account's token beside the other's pin, under the marker | the same plan, line 22 |
| `AuthorizationPin.cfg`, naming it instead | `MCAuthorization` | `MarkerVouchesUnordered` | a power loss between the token's rename and the sync of its directory brings back the marker, whose removal was not synced, beside the new token and the old pin, if the file system may keep the later change and lose the earlier | the same plan, line 22 |
| `GiftOrder.cfg` | `MCTwitchPages` | `FlushedInArrivalOrder` | a gift that expired unannounced keeps its place in the order, and is printed before gifts that arrived earlier | `internal/twitchgift/gift_test.go:115` |
| `GiftNames.cfg` | `MCTwitchPages` | `NoPageIsRefused` | a gift without a single name is reserved and then refused by `giftprint` | `TWITCH_BANNER.md:135` |
| `CheerLetters.cfg` | `MCTwitchPages` | `NoPageIsRefused` | a cheer in a script the face has no glyphs for is reserved and then refused by `bannerprint` | `TWITCH_BANNER.md:112` |
| `BannerFits.cfg` | `MCPrinting` | `AcceptedTextFits` | the least size is returned unmeasured, so a line that runs off the page is accepted | `internal/banner/banner.go:202`, the error "banner does not fit" |
| `FirstBootLate.cfg` | `MCFirstBoot` | `ImportedAndDeleted` | a card personalised after its first boot keeps its envelope, with the Wi-Fi password, and shows secrets the device does not have | `image/README.md:62` |
| `FirstBootRefused.cfg` | `MCFirstBoot` | `EnvelopeGoes` | an envelope with `--country us`, which `personalize-card.py` accepts, is refused at every boot; first boot never finishes, and there is no set-up network and no wizard | `image/README.md:62` |
| `FirstBootPowerCut.cfg` | `MCFirstBoot` | `CardOpensDevice` | a power cut soon after the import takes identity files that nothing synced, and the card no longer opens the device | `image/README.md:66` |
| `WizardAdvice.cfg` | `MCSetupWizard` | `NoRetryAdvised` | a physical test that timed out after its reservation is answered with advice to retry | `src/Docs/plans/2026-07-26-distribution-blocker-burndown.md:44` |
| `FlashEject.cfg` | `MCFlashCard` | `EjectsOnlyTheFlashedCard` | before ejecting, the media identity is not compared, and a twin in the same reader is ejected | `image/README.md:38` |
| `QueueRerun.cfg` | `MCQueueMigration` | `RerunCompletes` | once the installer has made its default queue, every further run is refused, because the planner knows the name `Rongta_F11` only | `scripts/install.sh:18` |
| `QueueRerun.cfg`, naming it instead | `MCQueueMigration` | `UpdatesInPlace` | the health unit checks `Rongta_F11_Media` whatever queue was migrated, so a migration of the old queue always ends closed | `README.md:41` |
| `QueueRerun.cfg`, naming it as an invariant instead | `MCQueueMigration` | `StoppedIsClosed` | a command of the trap that fails is passed over, and an end of the queue is open under a message that says it is disabled | `scripts/install.sh:18` |

Observations no run shows:

* `install.sh` replaces the filter and `f11d` while a queue of an earlier
  installation is open and may be printing;
* the comment in `internal/twitchdevice/client.go` that the daemon refreshes only
  confidential clients is not what `twitchbanner.RefreshToken` does, which works
  without a secret;
* the profile of the set-up network is made only when no Wi-Fi is active at first
  boot, and the wizard never calls the helper's `setup_ap`, so a device that was
  first booted at home has no set-up network to fall back on later;
* a first boot killed between its last two lines has no `first-boot-complete`
  marker; the unit is disabled by then, and only its own condition reads the marker.

## 7. Not modelled, and why

* **Drawing**: glyphs, dithering, `fillHeight`, `raidpage`'s fixed lines and `Plan`,
  `f11d`'s older layout of two lines. Pixels carry no state, and no property here
  tells them apart; `PrintProtocol` takes any rows.
* **`f11d`, previews and reports of the print commands**: pure I/O around functions
  that are modelled.
* **Twitch API client, raid and gift parsers, log redaction**: stateless; what the
  calls do is modelled where they are used.
* **`verify-eventsub`**: compares two files; what the file it trusts is worth is
  what `EventSubReady.cfg` shows.
* **`install-twitch-banner.sh`**: copies files, replaces the daemon's environment by
  a rename and stops the service; it may be repeated.
* **Support bundle**: regular expressions and an archive writer, no state.
* **Image build, `install-appliance`**: run once, on a build machine, and are run
  again from nothing when they fail.
* **macOS app and USB helper**: user interface, page rendering and one transfer; the
  app's stream decoder is in `PrintProtocol`.

Within modelled components, `PROJECT.json` says under each what is left out.

## 8. Plan

What is left, most important first:

1. **Composition of setup and authorization**: `SetupWizard`'s twitch and eventsub
   stages over `Authorization`'s files, so that `StagesInOrder` speaks of the
   account that was installed.
2. **Proofs**: liveness, with a prover that knows `ENABLED`; until then TLC's.
