-------------------------- MODULE FlashCardProofs ---------------------------
(***************************************************************************)
(* Only the confirmed card is written, for any cards, identifiers, slots   *)
(* and images.  A live descriptor belongs to the card that is attached     *)
(* under its identifier, and the check made while it is open names that    *)
(* card by its media identity.                                             *)
(***************************************************************************)
EXTENDS FlashCard, TLAPS

USE CardAssumption, ImageAssumption, MovesAssumption, NothingAssumption

\* The steps in which nothing was touched, and those with a disk chosen, with it
\* read again, and with the worker's image open.
Before == {"start", "scan", "list", "choose", "refused"}
Untouched == Before \cup {"confirm", "recheck", "sudo", "dry"}
Rechecked == {"unmount", "image", "device", "check", "write", "writing", "readback",
              "eject", "cleanup", "ejecting", "ejectingPartial", "complete", "failed"}
Opened == {"device", "check", "write", "writing", "readback"}

\* A card is attached once, and the disk macOS runs from always is.
OneEach ==
  /\ \A d, e \in Present : attached[d].card = attached[e].card => d = e
  /\ \E d \in Present : attached[d].card = Root

\* The chosen disk is identified and is not the one macOS runs from.
Chosen ==
  /\ \A x \in listing : x.card # Root
  /\ pc \notin Before =>
       selected \in Disks /\ selected.media # NoMedia /\ selected.card # Root
  /\ pc \in Rechecked \cup {"sudo", "dry"} =>
       current \in Disks /\ current.card = selected.card /\ current.media = selected.media

\* A live descriptor is the attached card's; while it writes, the chosen one's.
Pinned ==
  /\ fd # Nothing /\ fd.live =>
       attached[fd.id] # Nothing /\ attached[fd.id].card = fd.card
  /\ pc \in {"check", "write", "writing", "readback"} => fd # Nothing
  /\ pc = "check" => fd.id = current.id
  /\ pc \in {"write", "writing", "readback"} /\ fd.live => fd.card = selected.card
  /\ pc \in {"ejecting", "ejectingPartial"} => fd = Nothing

\* What was written, and what has been verified.
Written ==
  /\ \A c \in Cards : content[c] # Old => c = selected.card /\ pc \in Rechecked
  /\ pc \in Opened => handle = Release
  /\ pc \in {"eject", "ejecting", "complete"} => content[selected.card] = Release

PcOK == pc \in Before \cup Untouched \cup Rechecked

IInv == TypeOK /\ PcOK /\ OneEach /\ Chosen /\ Pinned /\ Written

\* The disk read under an identifier.
LEMMA DiskType ==
  ASSUME attached \in [Ids -> Attachments \cup {Nothing}], NEW d \in Present
  PROVE  /\ Disk(d) \in Disks /\ Disk(d).id = d /\ Disk(d).card = attached[d].card
         /\ Disk(d).media = Media[attached[d].card] /\ attached[d].card \in Cards
<1>1. attached[d] \in Attachments
  BY DEF Present
<1>2. attached[d].card \in Cards /\ attached[d].slot \in Slots /\ d \in Ids
  BY <1>1 DEF Attachments, Present
<1> QED
  BY <1>2 DEF Disk, Disks

\* The fields of a disk that was read.
LEMMA DiskFields ==
  ASSUME NEW x \in Disks
  PROVE  x.id \in Ids /\ x.card \in Cards /\ x.media = Media[x.card]
  BY DEF Disks

\* The same fingerprint is the same card.
LEMMA SameCard ==
  ASSUME attached \in [Ids -> Attachments \cup {Nothing}],
         NEW x \in Disks, x.media # NoMedia, Same(x)
  PROVE  /\ x.id \in Present /\ attached[x.id].card = x.card
         /\ Disk(x.id) \in Disks /\ Disk(x.id).card = x.card /\ Disk(x.id).media = x.media
<1>1. x.id \in Present /\ Prewrite(Disk(x.id)) = Prewrite(x)
  BY DEF Same
<1>2. Disk(x.id).media = x.media
  BY <1>1 DEF Prewrite
<1>3. /\ Disk(x.id) \in Disks /\ Disk(x.id).card = attached[x.id].card
      /\ Disk(x.id).media = Media[attached[x.id].card] /\ attached[x.id].card \in Cards
  BY <1>1, DiskType
<1>4. attached[x.id].card = x.card
  BY <1>2, <1>3, DiskFields, IdentityAssumption
<1> QED
  BY <1>1, <1>2, <1>3, <1>4

\* The disk macOS runs from is known by its identifier.
LEMMA RootKnown ==
  ASSUME OneEach, NEW d \in Present, d # RootId
  PROVE  attached[d].card # Root
<1>1. PICK e \in Present : attached[e].card = Root
  BY DEF OneEach
<1>2. RootId \in Present /\ attached[RootId].card = Root
  BY <1>1 DEF RootId, Present
<1> QED
  BY <1>2 DEF OneEach

----------------------------------------------------------------------------

LEMMA InitIInv == Init => IInv
<1> SUFFICES ASSUME Init PROVE IInv
  OBVIOUS
<1>1. PICK d \in Ids, s \in Slots :
        attached = [e \in Ids |-> IF e = d THEN [card |-> Root, slot |-> s] ELSE Nothing]
  BY DEF Init
<1>2. [card |-> Root, slot |-> s] \in Attachments
  BY DEF Attachments
<1>3. Present = {d} /\ attached[d].card = Root
  BY <1>1, <1>2 DEF Present
<1>4. TypeOK
  BY <1>1, <1>2 DEF Init, TypeOK
<1>5. OneEach
  BY <1>3 DEF OneEach
<1>6. PcOK /\ Chosen /\ Pinned /\ Written
  BY DEF Init, PcOK, Chosen, Pinned, Written, Before, Untouched, Rechecked, Opened
<1> QED
  BY <1>4, <1>5, <1>6 DEF IInv

\* The steps the tool goes through.
LEMMA PcStep == IInv /\ [Next]_vars => PcOK'
<1> SUFFICES ASSUME IInv, [Next]_vars PROVE PcOK'
  OBVIOUS
<1>1. CASE UNCHANGED <<pc>>
  BY <1>1 DEF IInv, PcOK
<1>2. CASE VerifyRelease
  BY <1>2 DEF VerifyRelease, Refuse, IInv, PcOK, Before, Untouched, Rechecked
<1>3. CASE Scan
  BY <1>3 DEF Scan, Step, IInv, PcOK, Before, Untouched, Rechecked
<1>4. CASE List
  BY <1>4 DEF List, Step, IInv, PcOK, Before, Untouched, Rechecked
<1>5. CASE Choose
  BY <1>5 DEF Choose, Refuse, IInv, PcOK, Before, Untouched, Rechecked
<1>6. CASE Confirm
  BY <1>6 DEF Confirm, Refuse, IInv, PcOK, Before, Untouched, Rechecked
<1>7. CASE Recheck
  BY <1>7 DEF Recheck, Refuse, IInv, PcOK, Before, Untouched, Rechecked
<1>8. CASE AfterSudo
  BY <1>8 DEF AfterSudo, Checked, IInv, PcOK, Before, Untouched, Rechecked
<1>9. CASE AfterUnmount
  BY <1>9 DEF AfterUnmount, Checked, IInv, PcOK, Before, Untouched, Rechecked
<1>10. CASE OpenImage
  BY <1>10 DEF OpenImage, IInv, PcOK, Before, Untouched, Rechecked
<1>11. CASE OpenDevice
  BY <1>11 DEF OpenDevice, IInv, PcOK, Before, Untouched, Rechecked
<1>12. CASE CheckPinned
  BY <1>12 DEF CheckPinned, IInv, PcOK, Before, Untouched, Rechecked
<1>13. CASE StartWrite
  BY <1>13 DEF StartWrite, IInv, PcOK, Before, Untouched, Rechecked
<1>14. CASE FinishWrite
  BY <1>14 DEF FinishWrite, IInv, PcOK, Before, Untouched, Rechecked
<1>15. CASE ReadBack
  BY <1>15 DEF ReadBack, IInv, PcOK, Before, Untouched, Rechecked
<1>16. CASE EjectCheck
  BY <1>16 DEF EjectCheck, IInv, PcOK, Before, Untouched, Rechecked
<1>17. CASE Eject
  BY <1>17 DEF Eject, IInv, PcOK, Before, Untouched, Rechecked
<1>18. CASE Interrupt
  BY <1>18 DEF Interrupt, Refuse, IInv, PcOK, Before, Untouched, Rechecked
<1> QED
  BY <1>1, <1>2, <1>3, <1>4, <1>5, <1>6, <1>7, <1>8, <1>9, <1>10, <1>11, <1>12, <1>13, <1>14, <1>15, <1>16, <1>17, <1>18 DEF Next, Tool, vars, Insert, Pull, ReplaceImage

\* A card is attached once.
LEMMA OneEachStep == IInv /\ [Next]_vars => OneEach'
<1> SUFFICES ASSUME IInv, [Next]_vars PROVE OneEach'
  OBVIOUS
<1>1. CASE UNCHANGED <<attached>>
  BY <1>1 DEF IInv, OneEach, Present
<1>2. CASE Insert
  <2>1. PICK c \in Cards, s \in Slots, d \in Ids :
          /\ d \notin Present
          /\ \A e \in Present : attached[e].card # c /\ attached[e].slot # s
          /\ attached' = [attached EXCEPT ![d] = [card |-> c, slot |-> s]]
    BY <1>2 DEF Insert
  <2>2. [card |-> c, slot |-> s] # Nothing
    BY DEF Attachments
  <2>3. /\ attached \in [Ids -> Attachments \cup {Nothing}]
        /\ \A e \in Ids : attached'[e] = IF e = d THEN [card |-> c, slot |-> s] ELSE attached[e]
    BY <2>1 DEF IInv, TypeOK
  <2>4. Present' = Present \cup {d} /\ \A e \in Present : attached'[e] = attached[e]
    BY <2>1, <2>2, <2>3 DEF Present
  <2>5. attached'[d].card = c
    BY <2>3
  <2> QED
    BY <2>1, <2>4, <2>5 DEF IInv, OneEach
<1>3. CASE Pull
  <2>1. PICK d \in Present : attached[d].card # Root /\ attached' = [attached EXCEPT ![d] = Nothing]
    BY <1>3 DEF Pull, Gone
  <2>2. Present' = Present \ {d} /\ \A e \in Present \ {d} : attached'[e] = attached[e]
    BY <2>1 DEF Present, IInv, TypeOK
  <2> QED
    BY <2>1, <2>2 DEF IInv, OneEach
<1>4. CASE Eject
  <2>1. CASE UNCHANGED attached
    BY <2>1 DEF IInv, OneEach, Present
  <2>2. CASE /\ current.id \in Present /\ attached[current.id].card # Root
             /\ attached' = [attached EXCEPT ![current.id] = Nothing]
    <3>1. Present' = Present \ {current.id}
          /\ \A e \in Present \ {current.id} : attached'[e] = attached[e]
      BY <2>2 DEF Present, IInv, TypeOK
    <3> QED
      BY <2>2, <3>1 DEF IInv, OneEach
  <2> QED
    BY <1>4, <2>1, <2>2 DEF Eject
<1> QED
  BY <1>1, <1>2, <1>3, <1>4 DEF Next, Tool, vars, VerifyRelease, Scan, List, Choose, Confirm, Recheck, AfterSudo, AfterUnmount, OpenImage, OpenDevice, CheckPinned, StartWrite, FinishWrite, ReadBack, EjectCheck, Interrupt, ReplaceImage, Checked, Refuse, Step, world

\* The variables' types.
LEMMA TypeStep == IInv /\ [Next]_vars => TypeOK'
<1> SUFFICES ASSUME IInv, [Next]_vars PROVE TypeOK'
  OBVIOUS
<1>1. attached' \in [Ids -> Attachments \cup {Nothing}]
  <2>1. CASE UNCHANGED attached
    BY <2>1 DEF IInv, TypeOK
  <2>2. CASE Insert
    BY <2>2 DEF Insert, IInv, TypeOK, Attachments
  <2>3. CASE Pull
    BY <2>3 DEF Pull, Gone, IInv, TypeOK
  <2>4. CASE Eject
    BY <2>4 DEF Eject, IInv, TypeOK
  <2> QED
    BY <2>1, <2>2, <2>3, <2>4 DEF Next, Tool, vars, world, VerifyRelease, Scan, List, Choose, Confirm, Recheck, AfterSudo, AfterUnmount, OpenImage, OpenDevice, CheckPinned, StartWrite, FinishWrite, ReadBack, EjectCheck, Interrupt, ReplaceImage, Checked, Refuse, Step
<1>2. content' \in [Cards -> Images \cup {Old, Partial}]
  <2>1. CASE UNCHANGED content
    BY <2>1 DEF IInv, TypeOK
  <2>2. CASE StartWrite
    BY <2>2 DEF StartWrite, IInv, TypeOK
  <2>3. CASE FinishWrite
    <3>1. handle \in Images
      BY <2>3 DEF FinishWrite, IInv, Written, Opened
    <3> QED
      BY <2>3, <3>1 DEF FinishWrite, IInv, TypeOK
  <2> QED
    BY <2>1, <2>2, <2>3 DEF Next, Tool, vars, world, VerifyRelease, Scan, List, Choose, Confirm, Recheck, AfterSudo, AfterUnmount, OpenImage, OpenDevice, CheckPinned, ReadBack, EjectCheck, Eject, Interrupt, Insert, Pull, ReplaceImage, Checked, Refuse, Step
<1>3. image' \in Images /\ imageSize' \in Nat
  <2>1. CASE UNCHANGED <<image, imageSize>>
    BY <2>1 DEF IInv, TypeOK
  <2>2. CASE ReplaceImage
    BY <2>2 DEF ReplaceImage, IInv, TypeOK
  <2>3. CASE Scan
    BY <2>3 DEF Scan, world, IInv, TypeOK
  <2> QED
    BY <2>1, <2>2, <2>3 DEF Next, Tool, vars, world, VerifyRelease, List, Choose, Confirm, Recheck, AfterSudo, AfterUnmount, OpenImage, OpenDevice, CheckPinned, StartWrite, FinishWrite, ReadBack, EjectCheck, Eject, Interrupt, Insert, Pull, Checked, Refuse, Step
<1>4. listing' \subseteq Disks
  <2>1. CASE UNCHANGED listing
    BY <2>1 DEF IInv, TypeOK
  <2>2. CASE List
    BY <2>2, DiskType DEF List, IInv, TypeOK
  <2> QED
    BY <2>1, <2>2 DEF Next, Tool, vars, world, VerifyRelease, Scan, Choose, Confirm, Recheck, AfterSudo, AfterUnmount, OpenImage, OpenDevice, CheckPinned, StartWrite, FinishWrite, ReadBack, EjectCheck, Eject, Interrupt, Insert, Pull, ReplaceImage, Checked, Refuse, Step
<1>5. selected' \in Disks \cup {Nothing}
  <2>1. CASE UNCHANGED selected
    BY <2>1 DEF IInv, TypeOK
  <2>2. CASE Choose
    BY <2>2, DiskType DEF Choose, IInv, TypeOK
  <2> QED
    BY <2>1, <2>2 DEF Next, Tool, vars, world, VerifyRelease, Scan, List, Confirm, Recheck, AfterSudo, AfterUnmount, OpenImage, OpenDevice, CheckPinned, StartWrite, FinishWrite, ReadBack, EjectCheck, Eject, Interrupt, Insert, Pull, ReplaceImage, Checked, Refuse, Step
<1>6. current' \in Disks \cup {Nothing}
  <2>1. CASE UNCHANGED current
    BY <2>1 DEF IInv, TypeOK
  <2>2. CASE Recheck
    BY <2>2, DiskType DEF Recheck, Same, IInv, TypeOK
  <2> QED
    BY <2>1, <2>2 DEF Next, Tool, vars, world, VerifyRelease, Scan, List, Choose, Confirm, AfterSudo, AfterUnmount, OpenImage, OpenDevice, CheckPinned, StartWrite, FinishWrite, ReadBack, EjectCheck, Eject, Interrupt, Insert, Pull, ReplaceImage, Checked, Refuse, Step
<1>7. handle' \in Images \cup {Nothing}
  <2>1. CASE UNCHANGED handle
    BY <2>1 DEF IInv, TypeOK
  <2>2. CASE OpenImage
    BY <2>2 DEF OpenImage, IInv, TypeOK
  <2> QED
    BY <2>1, <2>2 DEF Next, Tool, vars, world, VerifyRelease, Scan, List, Choose, Confirm, Recheck, AfterSudo, AfterUnmount, OpenDevice, CheckPinned, StartWrite, FinishWrite, ReadBack, EjectCheck, Eject, Interrupt, Insert, Pull, ReplaceImage, Checked, Refuse, Step
<1>8. fd' \in Descriptors \cup {Nothing}
  <2>1. CASE UNCHANGED fd
    BY <2>1 DEF IInv, TypeOK
  <2>2. CASE OpenDevice
    <3>1. CASE UNCHANGED fd
      BY <3>1 DEF IInv, TypeOK
    <3>2. CASE /\ current.id \in Present
               /\ fd' = [id |-> current.id, card |-> attached[current.id].card, live |-> TRUE]
      <4>1. attached[current.id].card \in Cards /\ current.id \in Ids
        BY <3>2, DiskType DEF IInv, TypeOK, Present
      <4> QED
        BY <3>2, <4>1 DEF Descriptors
    <3> QED
      BY <2>2, <3>1, <3>2 DEF OpenDevice
  <2>3. CASE ReadBack
    BY <2>3 DEF ReadBack
  <2>4. CASE EjectCheck
    BY <2>4 DEF EjectCheck
  <2>5. CASE Interrupt
    BY <2>5 DEF Interrupt
  <2>6. CASE Pull
    <3>1. CASE UNCHANGED fd
      BY <3>1 DEF IInv, TypeOK
    <3>2. CASE fd # Nothing /\ fd' = [fd EXCEPT !.live = FALSE]
      BY <3>2 DEF IInv, TypeOK, Descriptors
    <3> QED
      BY <2>6, <3>1, <3>2 DEF Pull, Gone
  <2> QED
    BY <2>1, <2>2, <2>3, <2>4, <2>5, <2>6 DEF Next, Tool, vars, world, VerifyRelease, Scan, List, Choose, Confirm, Recheck, AfterSudo, AfterUnmount, OpenImage, CheckPinned, StartWrite, FinishWrite, Eject, Insert, ReplaceImage, Checked, Refuse, Step
<1>9. ejected' \in Cards \cup {Nothing}
  <2>1. CASE UNCHANGED ejected
    BY <2>1 DEF IInv, TypeOK
  <2>2. CASE Eject
    BY <2>2, DiskType DEF Eject, IInv, TypeOK
  <2> QED
    BY <2>1, <2>2 DEF Next, Tool, vars, world, VerifyRelease, Scan, List, Choose, Confirm, Recheck, AfterSudo, AfterUnmount, OpenImage, OpenDevice, CheckPinned, StartWrite, FinishWrite, ReadBack, EjectCheck, Interrupt, Insert, Pull, ReplaceImage, Checked, Refuse, Step
<1>10. moves' \in 0..MaxMoves
  <2>1. CASE UNCHANGED moves
    BY <2>1 DEF IInv, TypeOK
  <2>2. CASE Insert
    BY <2>2 DEF Insert, IInv, TypeOK
  <2>3. CASE Pull
    BY <2>3 DEF Pull, IInv, TypeOK
  <2>4. CASE ReplaceImage
    BY <2>4 DEF ReplaceImage, IInv, TypeOK
  <2> QED
    BY <2>1, <2>2, <2>3, <2>4 DEF Next, Tool, vars, world, VerifyRelease, Scan, List, Choose, Confirm, Recheck, AfterSudo, AfterUnmount, OpenImage, OpenDevice, CheckPinned, StartWrite, FinishWrite, ReadBack, EjectCheck, Eject, Interrupt, Checked, Refuse, Step
<1> QED
  BY <1>1, <1>2, <1>3, <1>4, <1>5, <1>6, <1>7, <1>8, <1>9, <1>10 DEF TypeOK

\* The chosen disk is identified, is not the one macOS runs from, and is read
\* again as the same card.
LEMMA ChosenStep == IInv /\ [Next]_vars => Chosen'
<1> SUFFICES ASSUME IInv, [Next]_vars PROVE Chosen'
  OBVIOUS
<1>1. CASE VerifyRelease
  BY <1>1 DEF VerifyRelease, Refuse, IInv, Chosen, Before, Rechecked
<1>2. CASE Scan
  BY <1>2 DEF Scan, Step, IInv, Chosen, Before, Rechecked
<1>3. CASE List
  <2>1. \A x \in listing' : x.card # Root
    <3> SUFFICES ASSUME NEW d \in Present, d # RootId PROVE Disk(d).card # Root
      BY <1>3 DEF List
    <3> QED
      BY DiskType, RootKnown DEF IInv, TypeOK
  <2> QED
    BY <1>3, <2>1 DEF List, Step, IInv, Chosen, Before, Rechecked
<1>4. CASE Choose
  <2>1. PICK x \in listing \cup {Disk(d) : d \in Present} :
          selected' = x /\ IF Valid(x, imageSize) THEN pc' = "confirm" ELSE Refuse
    BY <1>4 DEF Choose
  <2>2. CASE Valid(x, imageSize)
    <3>1. x \in Disks
      BY DiskType DEF IInv, TypeOK
    <3>2. x.card # Root
      BY <2>2, DiskType, RootKnown DEF Valid, IInv, TypeOK, Chosen
    <3>3. x.media # NoMedia /\ pc' = "confirm"
      BY <2>1, <2>2 DEF Valid
    <3> QED
      BY <1>4, <2>1, <3>1, <3>2, <3>3 DEF Choose, IInv, Chosen, Before, Rechecked
  <2>3. CASE ~Valid(x, imageSize)
    BY <1>4, <2>1, <2>3 DEF Choose, Refuse, IInv, Chosen, Before, Rechecked
  <2> QED
    BY <2>2, <2>3
<1>5. CASE Confirm
  BY <1>5 DEF Confirm, Refuse, IInv, Chosen, Before, Rechecked
<1>6. CASE Recheck
  <2>1. selected \in Disks /\ selected.media # NoMedia
    BY <1>6 DEF Recheck, IInv, Chosen, Before
  <2>2. CASE pc' = "refused"
    BY <1>6, <2>2 DEF Recheck, IInv, Chosen, Before, Rechecked
  <2>3. CASE Same(selected) /\ current' = Disk(selected.id) /\ pc' \in {"sudo", "dry"}
    <3>1. /\ current' \in Disks /\ current'.card = selected.card
          /\ current'.media = selected.media
      BY <2>1, <2>3, SameCard DEF IInv, TypeOK
    <3> QED
      BY <1>6, <2>3, <3>1 DEF Recheck, IInv, Chosen, Before
  <2> QED
    BY <1>6, <2>2, <2>3 DEF Recheck, Refuse
<1>7. CASE AfterSudo
  BY <1>7 DEF AfterSudo, Checked, IInv, Chosen, Before, Rechecked
<1>8. CASE AfterUnmount
  BY <1>8 DEF AfterUnmount, Checked, IInv, Chosen, Before, Rechecked
<1>9. CASE OpenImage
  BY <1>9 DEF OpenImage, IInv, Chosen, Before, Rechecked
<1>10. CASE OpenDevice
  BY <1>10 DEF OpenDevice, IInv, Chosen, Before, Rechecked
<1>11. CASE CheckPinned
  BY <1>11 DEF CheckPinned, IInv, Chosen, Before, Rechecked
<1>12. CASE StartWrite
  BY <1>12 DEF StartWrite, IInv, Chosen, Before, Rechecked
<1>13. CASE FinishWrite
  BY <1>13 DEF FinishWrite, IInv, Chosen, Before, Rechecked
<1>14. CASE ReadBack
  BY <1>14 DEF ReadBack, IInv, Chosen, Before, Rechecked
<1>15. CASE EjectCheck
  BY <1>15 DEF EjectCheck, IInv, Chosen, Before, Rechecked
<1>16. CASE Eject
  BY <1>16 DEF Eject, IInv, Chosen, Before, Rechecked
<1>17. CASE Interrupt
  BY <1>17 DEF Interrupt, Refuse, IInv, Chosen, Before, Rechecked
<1>18. CASE Insert
  BY <1>18 DEF Insert, IInv, Chosen, Before, Rechecked
<1>19. CASE Pull
  BY <1>19 DEF Pull, IInv, Chosen, Before, Rechecked
<1>20. CASE ReplaceImage
  BY <1>20 DEF ReplaceImage, IInv, Chosen, Before, Rechecked
<1>21. CASE UNCHANGED vars
  BY <1>21 DEF vars, IInv, Chosen, Before, Rechecked
<1> QED
  BY <1>1, <1>2, <1>3, <1>4, <1>5, <1>6, <1>7, <1>8, <1>9, <1>10, <1>11, <1>12, <1>13, <1>14, <1>15, <1>16, <1>17, <1>18, <1>19, <1>20, <1>21 DEF Next, Tool

\* A live descriptor is the attached card's.
LEMMA PinnedStep == IInv /\ [Next]_vars => Pinned'
<1> SUFFICES ASSUME IInv, [Next]_vars PROVE Pinned'
  OBVIOUS
<1>1. CASE VerifyRelease
  BY <1>1 DEF VerifyRelease, Refuse, IInv, Pinned, world
<1>2. CASE Scan
  BY <1>2 DEF Scan, Step, IInv, Pinned, world
<1>3. CASE List
  BY <1>3 DEF List, Step, IInv, Pinned, world
<1>4. CASE Choose
  BY <1>4 DEF Choose, Refuse, IInv, Pinned, world
<1>5. CASE Confirm
  BY <1>5 DEF Confirm, Refuse, IInv, Pinned, world
<1>6. CASE Recheck
  BY <1>6 DEF Recheck, Refuse, IInv, Pinned, world
<1>7. CASE AfterSudo
  BY <1>7 DEF AfterSudo, Checked, IInv, Pinned, world
<1>8. CASE AfterUnmount
  BY <1>8 DEF AfterUnmount, Checked, IInv, Pinned, world
<1>9. CASE OpenImage
  BY <1>9 DEF OpenImage, IInv, Pinned, world
<1>10. CASE OpenDevice
  <2>1. CASE current.id \in Present
    <3>1. /\ fd' = [id |-> current.id, card |-> attached[current.id].card, live |-> TRUE]
          /\ pc' = "check" /\ UNCHANGED <<current, attached>>
      BY <1>10, <2>1 DEF OpenDevice, world
    <3>2. fd' # Nothing
      <4>1. attached[current.id].card \in Cards /\ current.id \in Ids
        BY <2>1, DiskType DEF IInv, TypeOK, Present
      <4>2. [id |-> current.id, card |-> attached[current.id].card, live |-> TRUE] \in Descriptors
        BY <4>1 DEF Descriptors
      <4> QED
        BY <3>1, <4>2
    <3> QED
      BY <2>1, <3>1, <3>2 DEF Pinned, Present
  <2>2. CASE current.id \notin Present
    BY <1>10, <2>2 DEF OpenDevice, world, IInv, Pinned
  <2> QED
    BY <2>1, <2>2
<1>11. CASE CheckPinned
  <2>1. CASE Same(current)
    <3>1. current \in Disks /\ current.media # NoMedia /\ current.card = selected.card
      BY <1>11 DEF CheckPinned, IInv, Chosen, Before, Rechecked
    <3>2. attached[current.id].card = selected.card
      BY <2>1, <3>1, SameCard DEF IInv, TypeOK
    <3> QED
      BY <1>11, <3>2 DEF CheckPinned, world, IInv, Pinned
  <2>2. CASE ~Same(current)
    BY <1>11, <2>2 DEF CheckPinned, world, IInv, Pinned
  <2> QED
    BY <2>1, <2>2
<1>12. CASE StartWrite
  BY <1>12 DEF StartWrite, IInv, Pinned, world
<1>13. CASE FinishWrite
  BY <1>13 DEF FinishWrite, IInv, Pinned, world
<1>14. CASE ReadBack
  BY <1>14 DEF ReadBack, IInv, Pinned, world
<1>15. CASE EjectCheck
  BY <1>15 DEF EjectCheck, IInv, Pinned, world
<1>16. CASE Eject
  BY <1>16 DEF Eject, IInv, Pinned, world
<1>17. CASE Interrupt
  BY <1>17 DEF Interrupt, Refuse, IInv, Pinned, world
<1>18. CASE Insert
  <2>1. PICK c \in Cards, w \in Slots, d \in Ids :
          d \notin Present /\ attached' = [attached EXCEPT ![d] = [card |-> c, slot |-> w]]
    BY <1>18 DEF Insert
  <2>2. ASSUME fd # Nothing, fd.live PROVE fd.id # d /\ fd.id \in Ids
    BY <2>1, <2>2 DEF IInv, Pinned, TypeOK, Descriptors, Present
  <2>3. ASSUME fd # Nothing, fd.live PROVE attached'[fd.id] = attached[fd.id]
    BY <2>1, <2>2, <2>3 DEF IInv, TypeOK
  <2> QED
    BY <1>18, <2>3 DEF Insert, IInv, Pinned
<1>19. CASE Pull
  <2>1. PICK d \in Present : Gone(d)
    BY <1>19 DEF Pull
  <2>2. CASE fd # Nothing /\ fd.id = d
    <3>1. fd' = [fd EXCEPT !.live = FALSE] /\ fd \in Descriptors
      BY <2>1, <2>2 DEF Gone, IInv, TypeOK
    <3>2. fd' \in Descriptors /\ fd'.live = FALSE /\ fd'.id = fd.id /\ fd'.card = fd.card
      BY <3>1 DEF Descriptors
    <3>3. fd' # Nothing
      BY <3>2
    <3> QED
      BY <1>19, <2>2, <3>2, <3>3 DEF Pull, IInv, Pinned
  <2>3. CASE ~(fd # Nothing /\ fd.id = d)
    <3>1. UNCHANGED fd /\ attached' = [attached EXCEPT ![d] = Nothing]
      BY <2>1, <2>3 DEF Gone
    <3>2. ASSUME fd # Nothing PROVE attached'[fd.id] = attached[fd.id]
      BY <2>3, <3>1, <3>2 DEF IInv, TypeOK, Descriptors
    <3> QED
      BY <1>19, <3>1, <3>2 DEF Pull, IInv, Pinned
  <2> QED
    BY <2>2, <2>3
<1>20. CASE ReplaceImage
  BY <1>20 DEF ReplaceImage, IInv, Pinned, world
<1>21. CASE UNCHANGED vars
  BY <1>21 DEF vars, IInv, Pinned, world
<1> QED
  BY <1>1, <1>2, <1>3, <1>4, <1>5, <1>6, <1>7, <1>8, <1>9, <1>10, <1>11, <1>12, <1>13, <1>14, <1>15, <1>16, <1>17, <1>18, <1>19, <1>20, <1>21 DEF Next, Tool

\* What was written, and what has been verified.
LEMMA WrittenStep == IInv /\ [Next]_vars => Written'
<1> SUFFICES ASSUME IInv, [Next]_vars PROVE Written'
  OBVIOUS
<1>1. CASE VerifyRelease
  BY <1>1 DEF VerifyRelease, Refuse, IInv, Written, Rechecked, Opened
<1>2. CASE Scan
  BY <1>2 DEF Scan, Step, IInv, Written, Rechecked, Opened
<1>3. CASE List
  BY <1>3 DEF List, Step, IInv, Written, Rechecked, Opened
<1>4. CASE Choose
  BY <1>4 DEF Choose, Refuse, IInv, Written, Rechecked, Opened
<1>5. CASE Confirm
  BY <1>5 DEF Confirm, Refuse, IInv, Written, Rechecked, Opened
<1>6. CASE Recheck
  BY <1>6 DEF Recheck, Refuse, IInv, Written, Rechecked, Opened
<1>7. CASE AfterSudo
  BY <1>7 DEF AfterSudo, Checked, IInv, Written, Rechecked, Opened
<1>8. CASE AfterUnmount
  BY <1>8 DEF AfterUnmount, Checked, IInv, Written, Rechecked, Opened
<1>9. CASE OpenImage
  BY <1>9 DEF OpenImage, IInv, Written, Rechecked, Opened
<1>10. CASE OpenDevice
  BY <1>10 DEF OpenDevice, IInv, Written, Rechecked, Opened
<1>11. CASE CheckPinned
  BY <1>11 DEF CheckPinned, IInv, Written, Rechecked, Opened
<1>12. CASE StartWrite
  <2>1. CASE fd.live
    <3>1. fd.card = selected.card /\ content' = [content EXCEPT ![fd.card] = Partial]
      BY <1>12, <2>1 DEF StartWrite, IInv, Pinned
    <3>2. \A c \in Cards : c # selected.card => content'[c] = content[c]
      BY <3>1 DEF IInv, TypeOK
    <3> QED
      BY <1>12, <2>1, <3>2 DEF StartWrite, IInv, Written, Rechecked, Opened
  <2>2. CASE ~fd.live
    BY <1>12, <2>2 DEF StartWrite, IInv, Written, Rechecked, Opened
  <2> QED
    BY <2>1, <2>2
<1>13. CASE FinishWrite
  <2>1. CASE UNCHANGED content
    BY <1>13, <2>1 DEF FinishWrite, IInv, Written, Rechecked, Opened
  <2>2. CASE fd.live /\ content' = [content EXCEPT ![fd.card] = handle]
    <3>1. fd.card = selected.card
      BY <1>13, <2>2 DEF FinishWrite, IInv, Pinned
    <3>2. \A c \in Cards : c # selected.card => content'[c] = content[c]
      BY <2>2, <3>1 DEF IInv, TypeOK
    <3>3. pc' \in {"readback", "cleanup"} /\ UNCHANGED <<handle, selected>> /\ pc = "writing"
      BY <1>13 DEF FinishWrite
    <3> QED
      BY <3>2, <3>3 DEF IInv, Written, Rechecked, Opened
  <2> QED
    BY <1>13, <2>1, <2>2 DEF FinishWrite
<1>14. CASE ReadBack
  <2>1. CASE fd.live /\ content[fd.card] = handle /\ pc' = "eject"
    <3>1. fd.card = selected.card /\ handle = Release
      BY <1>14, <2>1 DEF ReadBack, IInv, Pinned, Written, Opened
    <3> QED
      BY <1>14, <2>1, <3>1 DEF ReadBack, IInv, Written, Rechecked, Opened
  <2>2. CASE pc' = "cleanup"
    BY <1>14, <2>2 DEF ReadBack, IInv, Written, Rechecked, Opened
  <2> QED
    BY <1>14, <2>1, <2>2 DEF ReadBack
<1>15. CASE EjectCheck
  BY <1>15 DEF EjectCheck, IInv, Written, Rechecked, Opened
<1>16. CASE Eject
  BY <1>16 DEF Eject, IInv, Written, Rechecked, Opened
<1>17. CASE Interrupt
  BY <1>17 DEF Interrupt, Refuse, IInv, Written, Rechecked, Opened
<1>18. CASE Insert
  BY <1>18 DEF Insert, IInv, Written, Rechecked, Opened
<1>19. CASE Pull
  BY <1>19 DEF Pull, IInv, Written, Rechecked, Opened
<1>20. CASE ReplaceImage
  BY <1>20 DEF ReplaceImage, IInv, Written, Rechecked, Opened
<1>21. CASE UNCHANGED vars
  BY <1>21 DEF vars, IInv, Written, Rechecked, Opened
<1> QED
  BY <1>1, <1>2, <1>3, <1>4, <1>5, <1>6, <1>7, <1>8, <1>9, <1>10, <1>11, <1>12, <1>13, <1>14, <1>15, <1>16, <1>17, <1>18, <1>19, <1>20, <1>21 DEF Next, Tool

LEMMA NextIInv == IInv /\ [Next]_vars => IInv'
BY PcStep, OneEachStep, TypeStep, ChosenStep, PinnedStep, WrittenStep DEF IInv

LEMMA Invariant == Spec => []IInv
BY InitIInv, NextIInv, PTL DEF Spec

\* The variables keep their types.
THEOREM TypeCorrect == Spec => []TypeOK
BY Invariant, PTL DEF IInv

\* Only the confirmed card is ever written, at whatever moment cards change.
THEOREM OnlyConfirmed == Spec => []OnlyTheConfirmedCard
<1>1. IInv => OnlyTheConfirmedCard
  <2> SUFFICES ASSUME IInv, NEW c \in Cards, content[c] # Old
               PROVE  /\ selected # Nothing /\ c = selected.card
                      /\ pc \notin {"start", "scan", "list", "choose", "confirm", "recheck",
                                   "sudo", "refused", "dry"}
    BY DEF OnlyTheConfirmedCard
  <2>1. c = selected.card /\ pc \in Rechecked
    BY DEF IInv, Written
  <2>2. selected \in Disks
    BY <2>1 DEF IInv, Chosen, Rechecked, Before
  <2> QED
    BY <2>1, <2>2 DEF Rechecked
<1> QED
  BY <1>1, Invariant, PTL

\* The disk macOS runs from is never written.
THEOREM RootKept == Spec => []RootIsSafe
<1>1. IInv => RootIsSafe
  BY DEF IInv, Written, Chosen, RootIsSafe, Rechecked, Before
<1> QED
  BY <1>1, Invariant, PTL

\* Success means that the whole release image is on the confirmed card.
THEOREM FlashedWhenComplete == Spec => []CompleteMeansFlashed
<1>1. IInv => CompleteMeansFlashed
  BY DEF IInv, Written, CompleteMeansFlashed
<1> QED
  BY <1>1, Invariant, PTL
=============================================================================
