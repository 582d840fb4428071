----------------------------- MODULE FlashCard ------------------------------
(***************************************************************************)
(* flash-card.py: a release image is written to the card the user chose    *)
(* and confirmed, while cards are pulled and inserted, disk identifiers    *)
(* are used again, the image file is replaced and the user interrupts.     *)
(* What diskutil reports of a disk is read in one step.                    *)
(***************************************************************************)
EXTENDS Naturals, FiniteSets

CONSTANTS Cards,       \* the disks that can be attached
          Root,        \* the one macOS runs from
          Ids,         \* disk identifiers, "disk4"
          Slots,       \* readers and ports: what physical_identity tells apart
          Media,       \* what macOS reports as each card's media identity
          NoMedia,     \* ... when it reports none
          Size,        \* each card's capacity
          Images,      \* what the image file may hold
          Release,     \* the image the checksum file names
          ImageSize,   \* each image's uncompressed size
          Old,         \* what is on a card before
          Partial,     \* what is on a card after a write that did not finish
          Nothing,     \* no card, no disk, no descriptor
          MaxMoves     \* bound: cards inserted or pulled, and images replaced

ASSUME CardAssumption ==
  Root \in Cards /\ DOMAIN Media = Cards /\ Size \in [Cards -> Nat]
ASSUME ImageAssumption ==
  /\ Release \in Images /\ ImageSize \in [Images -> Nat \ {0}]
  /\ Old \notin Images \cup {Partial} /\ Partial \notin Images
ASSUME MovesAssumption == MaxMoves \in Nat

\* What is attached under an identifier, what read_disk returns, and an open
\* descriptor.
Attachments == [card : Cards, slot : Slots]
Disks == {[id |-> d, card |-> c, slot |-> s, media |-> Media[c], size |-> Size[c]] :
            d \in Ids, c \in Cards, s \in Slots}
Descriptors == [id : Ids, card : Cards, live : BOOLEAN]

ASSUME NothingAssumption ==
  Nothing \notin Cards \cup Images \cup Attachments \cup Disks \cup Descriptors

\* macOS reports different identities for different cards, where it reports any.
ASSUME IdentityAssumption ==
  \A c, e \in Cards : Media[c] = Media[e] /\ Media[c] # NoMedia => c = e

VARIABLES attached,    \* what is attached under each identifier, and where
          content,     \* what is on each card
          image,       \* what the image file holds
          pc,          \* where the tool is
          imageSize,   \* the size the image was scanned to have
          listing,     \* the disks the tool has listed
          selected,    \* the disk the user chose: a Disk
          current,     \* the same disk, read again
          handle,      \* the image the worker has open
          fd,          \* the worker's raw descriptor: identifier, card, live
          ejected,     \* the card the tool ejected
          moves

world == <<attached, image, moves>>
vars == <<attached, content, image, pc, imageSize, listing, selected, current,
          handle, fd, ejected, moves>>

Present == {d \in Ids : attached[d] # Nothing}

\* read_disk.  The card itself is not something macOS tells: no check may use it.
Disk(d) ==
  [id |-> d, card |-> attached[d].card, slot |-> attached[d].slot,
   media |-> Media[attached[d].card], size |-> Size[attached[d].card]]

Prewrite(x) == [id |-> x.id, slot |-> x.slot, media |-> x.media, size |-> x.size]
Postwrite(x) == [id |-> x.id, slot |-> x.slot, size |-> x.size]

RootId == CHOOSE d \in Ids : attached[d] # Nothing /\ attached[d].card = Root

\* Mutant of Valid: the disk macOS runs from is taken when it is external.
MutantRootAllowed(x, size) == x.media # NoMedia /\ x.size >= size

\* validate_destination
Valid(x, size) == x.id # RootId /\ x.media # NoMedia /\ x.size >= size

\* require_same_disk: the disk under the identifier is the one that was read.
Same(x) == x.id \in Present /\ Prewrite(Disk(x.id)) = Prewrite(x)

\* require_same_physical_disk: the media identity may have changed by writing.
SamePhysical(x) == x.id \in Present /\ Postwrite(Disk(x.id)) = Postwrite(x)

Step(from, to) == pc = from /\ pc' = to

----------------------------------------------------------------------------
(* The world around the tool *)

Insert ==
  /\ moves < MaxMoves /\ moves' = moves + 1
  /\ \E c \in Cards, s \in Slots, d \in Ids :
       /\ d \notin Present
       /\ \A e \in Present : attached[e].card # c /\ attached[e].slot # s
       /\ attached' = [attached EXCEPT ![d] = [card |-> c, slot |-> s]]
  /\ UNCHANGED <<content, image, pc, imageSize, listing, selected, current, handle, fd, ejected>>

\* A descriptor of a card that was pulled is of no use any more, whatever is
\* attached later.
Gone(d) ==
  /\ attached' = [attached EXCEPT ![d] = Nothing]
  /\ fd' = IF fd # Nothing /\ fd.id = d THEN [fd EXCEPT !.live = FALSE] ELSE fd

Pull ==
  /\ moves < MaxMoves /\ moves' = moves + 1
  /\ \E d \in Present : attached[d].card # Root /\ Gone(d)
  /\ UNCHANGED <<content, image, pc, imageSize, listing, selected, current, handle, ejected>>

\* Another file is renamed over the image; an open handle keeps the old one.
ReplaceImage ==
  /\ moves < MaxMoves /\ moves' = moves + 1
  /\ \E i \in Images : i # image /\ image' = i
  /\ UNCHANGED <<attached, content, pc, imageSize, listing, selected, current, handle, fd, ejected>>

----------------------------------------------------------------------------
(* main, up to the confirmation *)

Init ==
  /\ \E d \in Ids, s \in Slots :
       attached = [e \in Ids |-> IF e = d THEN [card |-> Root, slot |-> s] ELSE Nothing]
  /\ content = [c \in Cards |-> Old]
  /\ image = Release /\ pc = "start" /\ imageSize = 0 /\ listing = {}
  /\ selected = Nothing /\ current = Nothing /\ handle = Nothing /\ fd = Nothing
  /\ ejected = Nothing /\ moves = 0

\* The run ends before anything was touched.
Refuse == pc' = "refused"

VerifyRelease ==
  /\ pc = "start"
  /\ IF image = Release THEN pc' = "scan" ELSE Refuse
  /\ UNCHANGED <<content, imageSize, listing, selected, current, handle, fd, ejected, world>>

Scan ==
  /\ Step("scan", "list")
  /\ imageSize' = ImageSize[image]
  /\ UNCHANGED <<content, listing, selected, current, handle, fd, ejected, world>>

\* list_external_disks leaves out the disk macOS runs from.
List ==
  /\ Step("list", "choose")
  /\ listing' = {Disk(d) : d \in Present \ {RootId}}
  /\ UNCHANGED <<content, imageSize, selected, current, handle, fd, ejected, world>>

\* choose_disk from the list, or --device, which names any attached disk.
Choose ==
  /\ pc = "choose"
  /\ \E x \in listing \cup {Disk(d) : d \in Present} :
       /\ selected' = x
       /\ IF Valid(x, imageSize) THEN pc' = "confirm" ELSE Refuse
  /\ UNCHANGED <<content, imageSize, listing, current, handle, fd, ejected, world>>

\* confirm_erase
Confirm ==
  /\ pc = "confirm"
  /\ pc' = "recheck" \/ Refuse
  /\ UNCHANGED <<content, imageSize, listing, selected, current, handle, fd, ejected, world>>

\* The disk is read again; a dry run ends here.
Recheck ==
  /\ pc = "recheck"
  /\ IF Same(selected) /\ Valid(Disk(selected.id), imageSize)
       THEN /\ current' = Disk(selected.id)
            /\ pc' = "sudo" \/ pc' = "dry"
       ELSE Refuse /\ UNCHANGED current
  /\ UNCHANGED <<content, imageSize, listing, selected, handle, fd, ejected, world>>

----------------------------------------------------------------------------
(* flash_image and the root worker *)

\* A check of flash_image, then on to the next step.
Checked(from, to) ==
  /\ pc = from
  /\ IF Same(current) THEN pc' = to ELSE pc' = "cleanup"
  /\ UNCHANGED <<content, imageSize, listing, selected, current, handle, fd, ejected, world>>

\* After the password, and after the volumes were unmounted.
AfterSudo == Checked("sudo", "unmount")
AfterUnmount == Checked("unmount", "image")

\* Mutant of OpenImage: the file is hashed before it is opened for reading.
MutantHashThenOpen ==
  \/ /\ pc = "image" /\ handle = Nothing
     /\ IF image = Release THEN handle' = Release /\ pc' = pc ELSE pc' = "cleanup" /\ UNCHANGED handle
     /\ UNCHANGED <<content, imageSize, listing, selected, current, fd, ejected, world>>
  \/ /\ pc = "image" /\ handle # Nothing
     /\ handle' = image /\ pc' = "device"
     /\ UNCHANGED <<content, imageSize, listing, selected, current, fd, ejected, world>>

\* The worker opens the image and hashes what it has opened.
OpenImage ==
  /\ pc = "image"
  /\ handle' = image
  /\ IF image = Release THEN pc' = "device" ELSE pc' = "cleanup"
  /\ UNCHANGED <<content, imageSize, listing, selected, current, fd, ejected, world>>

\* os.open of the raw path: whatever has the identifier now.
OpenDevice ==
  /\ pc = "device"
  /\ IF current.id \in Present
       THEN /\ fd' = [id |-> current.id, card |-> attached[current.id].card, live |-> TRUE]
            /\ pc' = "check"
       ELSE pc' = "cleanup" /\ UNCHANGED fd
  /\ UNCHANGED <<content, imageSize, listing, selected, current, handle, ejected, world>>

\* Mutant of CheckPinned: the checks come before the descriptor is pinned.
MutantUnchecked ==
  /\ Step("check", "write")
  /\ UNCHANGED <<content, imageSize, listing, selected, current, handle, fd, ejected, world>>

\* With the descriptor open: the identity again, and the destination.
CheckPinned ==
  /\ pc = "check"
  /\ IF Same(current) /\ Valid(Disk(current.id), 1) THEN pc' = "write" ELSE pc' = "cleanup"
  /\ UNCHANGED <<content, imageSize, listing, selected, current, handle, fd, ejected, world>>

\* The first bytes are written, or the descriptor's card is gone.
StartWrite ==
  /\ pc = "write"
  /\ IF fd.live THEN content' = [content EXCEPT ![fd.card] = Partial] /\ pc' = "writing"
                ELSE pc' = "cleanup" /\ UNCHANGED content
  /\ UNCHANGED <<imageSize, listing, selected, current, handle, fd, ejected, world>>

\* The rest is written; the card may be too small, be pulled, or keep something
\* else than was written.
FinishWrite ==
  /\ pc = "writing"
  /\ \/ /\ fd.live /\ Size[fd.card] >= ImageSize[handle]
        /\ content' = [content EXCEPT ![fd.card] = handle] /\ pc' = "readback"
     \/ /\ fd.live /\ pc' = "readback" /\ UNCHANGED content
     \/ pc' = "cleanup" /\ UNCHANGED content
  /\ UNCHANGED <<imageSize, listing, selected, current, handle, fd, ejected, world>>

\* What the descriptor gives back must be what was written, and as long as the
\* scan said.
ReadBack ==
  /\ pc = "readback"
  /\ IF fd.live /\ content[fd.card] = handle /\ ImageSize[handle] = imageSize
       THEN pc' = "eject" ELSE pc' = "cleanup"
  /\ fd' = Nothing
  /\ UNCHANGED <<content, imageSize, listing, selected, current, handle, ejected, world>>

----------------------------------------------------------------------------
(* eject_same_disk *)

\* The check, and the command that names the identifier.
EjectCheck ==
  /\ pc \in {"eject", "cleanup"}
  /\ IF SamePhysical(current)
       THEN pc' = IF pc = "eject" THEN "ejecting" ELSE "ejectingPartial"
       ELSE pc' = "failed"
  /\ fd' = Nothing
  /\ UNCHANGED <<content, imageSize, listing, selected, current, handle, ejected, world>>

Eject ==
  /\ pc \in {"ejecting", "ejectingPartial"}
  /\ \/ /\ current.id \in Present /\ attached[current.id].card # Root
        /\ ejected' = attached[current.id].card
        /\ attached' = [attached EXCEPT ![current.id] = Nothing]
        /\ pc' = IF pc = "ejecting" THEN "complete" ELSE "failed"
     \/ pc' = "failed" /\ UNCHANGED <<attached, ejected>>
  /\ UNCHANGED <<content, image, imageSize, listing, selected, current, handle, fd, moves>>

\* Ctrl-C: before flash_image nothing was done; from then on the card is ejected.
Interrupt ==
  /\ \/ pc \in {"start", "scan", "list", "choose", "confirm", "recheck"} /\ Refuse
     \/ /\ pc \in {"sudo", "unmount", "image", "device", "check", "write", "writing", "readback"}
        /\ pc' = "cleanup"
     \/ pc \in {"eject", "cleanup", "ejecting", "ejectingPartial"} /\ pc' = "failed"
  /\ fd' = Nothing
  /\ UNCHANGED <<content, imageSize, listing, selected, current, handle, ejected, world>>

Tool ==
  \/ VerifyRelease \/ Scan \/ List \/ Choose \/ Confirm \/ Recheck
  \/ AfterSudo \/ AfterUnmount \/ OpenImage \/ OpenDevice \/ CheckPinned
  \/ StartWrite \/ FinishWrite \/ ReadBack \/ EjectCheck \/ Eject \/ Interrupt

Next == Tool \/ Insert \/ Pull \/ ReplaceImage

Spec == Init /\ [][Next]_vars

----------------------------------------------------------------------------

\* The variables' types.
TypeOK ==
  /\ attached \in [Ids -> Attachments \cup {Nothing}]
  /\ content \in [Cards -> Images \cup {Old, Partial}]
  /\ image \in Images /\ imageSize \in Nat
  /\ listing \subseteq Disks
  /\ selected \in Disks \cup {Nothing} /\ current \in Disks \cup {Nothing}
  /\ handle \in Images \cup {Nothing}
  /\ fd \in Descriptors \cup {Nothing}
  /\ ejected \in Cards \cup {Nothing} /\ moves \in 0..MaxMoves

\* Only the card the user chose and confirmed is ever written, whatever cards are
\* pulled, inserted or given its identifier, and at whatever moment.
OnlyTheConfirmedCard ==
  \A c \in Cards : content[c] # Old =>
    /\ selected # Nothing /\ c = selected.card
    /\ pc \notin {"start", "scan", "list", "choose", "confirm", "recheck", "sudo", "refused", "dry"}

\* The disk macOS runs from is never written, not even when it is external and
\* was named with --device.
RootIsSafe == content[Root] = Old

\* A run that reports success has put the whole release image on the confirmed card.
CompleteMeansFlashed == pc = "complete" => content[selected.card] = Release

\* The card that is ejected is the one the user chose.
EjectsOnlyTheFlashedCard == ejected # Nothing => ejected = selected.card
=============================================================================
