--------------------------- MODULE PrintProtocol ---------------------------
(***************************************************************************)
(* A print job of internal/protocol/protocol.go on its way from the        *)
(* rendered rows through the encoder and a stream that may be damaged to   *)
(* the decoder every print command checks it with before it opens the      *)
(* printer.  A frame is its kind (the application class, command and       *)
(* subcommand), the fixed fields of its payload and what follows them: the *)
(* traversals of the tree or the bits of a row.  A frame whose sync,       *)
(* lengths or CRC do not fit is of the kind "broken".                      *)
(***************************************************************************)
EXTENDS Huffman

CONSTANTS NarrowBytes,     \* bytes of a row: 199 in the code
          NativeBytes,     \* bytes of a row on the full head: 208
          WordSize,        \* how many values a 16-bit field has: 65536
          SettingsTried,   \* the Settings values callers pass
          MaxDamages       \* bound: how often the stream is damaged

ByteSize == 256            \* how many values a one-byte field has

ASSUME RowAssumption ==
  /\ NarrowBytes \in Nat \ {0} /\ NativeBytes \in Nat \ {0} /\ NarrowBytes # NativeBytes
ASSUME WordAssumption == WordSize \in Nat /\ WordSize >= 2
ASSUME SettingsAssumption ==
  SettingsTried \subseteq [speed : Int, density : Int, tracking : Int, copies : Int]
ASSUME MaxDamagesAssumption == MaxDamages \in Nat

VARIABLES phase,       \* "idle", "rendered", "encoded", "decoded" or "refused"
          intended,    \* [bytes, rows]: the row width and the rows to print
          settings,    \* the Settings of the job
          job,         \* the frames the encoder wrote
          stream,      \* the frames the decoder is given
          damages,     \* how often the stream was damaged
          result       \* [ok, rows, copies]: what DecodeJob returned

vars == <<phase, intended, settings, job, stream, damages, result>>

Kinds == {"tracking", "speed", "density", "start", "tree", "raster", "end", "copies", "broken"}

Frame(kind, head, body) == [kind |-> kind, head |-> head, body |-> body]

Broken == Frame("broken", << >>, << >>)

NoResult == [ok |-> FALSE, rows |-> << >>, copies |-> 0]

----------------------------------------------------------------------------
(* The encoder *)

Traversals(t) == Preorder(t) \o Inorder(t)

\* Before the first row: a row record with index 0 and no bits.
Sentinel(bytes) == Frame("raster", <<0, bytes, 1>>, << >>)

\* Index, width and padding, then the packed row.
EncodeRowFrame(i, row, t) ==
  LET e == Encode(t, row)
  IN  Frame("raster", <<i % WordSize, Len(row), e.pad>>, e.bits)

\* The settings encodeRows accepts.
Acceptable(s) ==
  /\ s.speed \in 1..255 /\ s.density \in 1..15
  /\ s.tracking \in 0..255 /\ s.copies \in 1..255

Frames(bytes, rows, s) ==
  LET t == BuildHuffman(FlattenSeq(rows))
  IN  << Frame("tracking", <<s.tracking % ByteSize>>, << >>),
         Frame("speed", <<s.speed % ByteSize>>, << >>),
         Frame("density", <<3, s.density % ByteSize, 8>>, << >>),
         Frame("start", <<bytes, Len(rows) % WordSize, 1>>, << >>),
         Frame("tree", << >>, Traversals(t)),
         Sentinel(bytes) >>
      \o [i \in DOMAIN rows |-> EncodeRowFrame(i, rows[i], t)]
      \o << Frame("end", << >>, << >>),
            Frame("copies", <<s.copies % ByteSize, 19, 0>>, << >>) >>

----------------------------------------------------------------------------
(* The decoder of the appliance *)

\* treeFrom on a payload that lists both traversals.
TreeOf(p) ==
  IF p = << >> \/ Len(p) % 2 # 0 THEN NoTree
  ELSE TreeFrom(SubSeq(p, 1, Len(p) \div 2), SubSeq(p, Len(p) \div 2 + 1, Len(p)))

RowOf(f, bytes, t) == Decode(t, f.body, f.head[3], bytes)

\* Mutant of RowAccepted: the index in the row's header is not looked at.
MutantAnyIndex(f, i, bytes, t) ==
  f.kind = "raster" /\ f.head[2] = bytes /\ RowOf(f, bytes, t).ok

\* The i-th row's record: its index, its width, and bits that decode to a row.
RowAccepted(f, i, bytes, t) ==
  f.kind = "raster" /\ f.head[1] = i /\ f.head[2] = bytes /\ RowOf(f, bytes, t).ok

\* What DecodeJob insists on: the frames of a job, each in its place.
Accepts(fs) ==
  /\ Len(fs) >= 8
  /\ \A i \in DOMAIN fs : fs[i].kind # "broken"
  /\ fs[1].kind = "tracking"
  /\ fs[2].kind = "speed" /\ fs[2].head[1] # 0
  /\ fs[3].kind = "density"
  /\ fs[3].head[1] = 3 /\ fs[3].head[2] \in 1..15 /\ fs[3].head[3] = 8
  /\ fs[4].kind = "start" /\ fs[4].head[3] = 1
  /\ LET bytes == fs[4].head[1]
         height == fs[4].head[2]
         tree == TreeOf(fs[5].body)
     IN  /\ bytes \in {NarrowBytes, NativeBytes} /\ height > 0
         /\ fs[5].kind = "tree" /\ tree # NoTree
         /\ Len(fs) = height + 8
         /\ fs[6] = Sentinel(bytes)
         /\ \A i \in 1..height : RowAccepted(fs[6 + i], i, bytes, tree)
         /\ fs[7 + height].kind = "end"
         /\ fs[8 + height].kind = "copies" /\ fs[8 + height].head[1] # 0
         /\ fs[8 + height].head[2] = 19 /\ fs[8 + height].head[3] = 0

Decoded(fs) ==
  IF Accepts(fs)
    THEN LET height == fs[4].head[2]
             tree == TreeOf(fs[5].body)
         IN  [ok |-> TRUE, copies |-> fs[8 + height].head[1],
              rows |-> [i \in 1..height |-> RowOf(fs[6 + i], fs[4].head[1], tree).data]]
    ELSE NoResult

----------------------------------------------------------------------------
(* The decoder of the desktop client, Sources/F11PrintCore/F11Protocol.swift *)

\* The frames of one kind, in their order.
OfKind(fs, kind) ==
  LET among[n \in 0..Len(fs)] ==
        IF n = 0 THEN << >>
        ELSE IF fs[n].kind = kind THEN Append(among[n - 1], fs[n])
        ELSE among[n - 1]
  IN  among[Len(fs)]

\* Mutant of DesktopRows: the sentinel is taken for a row.
MutantSentinelKept(fs) == OfKind(fs, "raster")

\* The raster frames but the first.
DesktopRows(fs) == IF OfKind(fs, "raster") = << >> THEN << >> ELSE Tail(OfKind(fs, "raster"))

DesktopDecoded(fs) ==
  LET starts == OfKind(fs, "start")
      trees == OfKind(fs, "tree")
      rows == DesktopRows(fs)
      tree == TreeOf(trees[1].body)
  IN  IF /\ \A i \in DOMAIN fs : fs[i].kind # "broken"
         /\ starts # << >> /\ trees # << >>
         /\ starts[1].head[1] = NarrowBytes /\ starts[1].head[2] > 0
         /\ tree # NoTree
         /\ Len(rows) = starts[1].head[2]
         /\ \A i \in DOMAIN rows :
              rows[i].head[2] = NarrowBytes /\ RowOf(rows[i], NarrowBytes, tree).ok
        THEN [ok |-> TRUE, rows |-> [i \in DOMAIN rows |-> RowOf(rows[i], NarrowBytes, tree).data]]
        ELSE [ok |-> FALSE, rows |-> << >>]

----------------------------------------------------------------------------

Init ==
  /\ phase = "idle"
  /\ intended = [bytes |-> NarrowBytes, rows |-> << >>]
  /\ settings \in SettingsTried
  /\ job = << >> /\ stream = << >>
  /\ damages = 0 /\ result = NoResult

Rasters(bytes, height) == [1..height -> [1..bytes -> Byte]]

\* Monochrome or NativeMonochrome: the thresholds can give any rows.
Monochrome ==
  /\ phase = "idle"
  /\ \E bytes \in {NarrowBytes, NativeBytes}, height \in 0..WordSize :
       IF height = 0 \/ height > WordSize - 1
         THEN phase' = "refused" /\ UNCHANGED intended
         ELSE /\ phase' = "rendered"
              /\ \E rows \in Rasters(bytes, height) : intended' = [bytes |-> bytes, rows |-> rows]
  /\ UNCHANGED <<settings, job, stream, damages, result>>

\* encodeRows on the rows.
EncodeRows ==
  /\ phase = "rendered"
  /\ IF Acceptable(settings)
       THEN /\ job' = Frames(intended.bytes, intended.rows, settings)
            /\ stream' = job' /\ phase' = "encoded"
       ELSE phase' = "refused" /\ UNCHANGED <<job, stream>>
  /\ UNCHANGED <<intended, settings, damages, result>>

Damaged(fs) ==
  /\ phase = "encoded" /\ damages < MaxDamages
  /\ damages' = damages + 1 /\ stream' = fs
  /\ UNCHANGED <<phase, intended, settings, job, result>>

\* A frame is lost, sent twice, overtaken by the next one, or hit.
Drop == \E i \in DOMAIN stream : Damaged(RemoveAt(stream, i))
Duplicate == \E i \in DOMAIN stream : Damaged(InsertAt(stream, i, stream[i]))
Reorder == \E i \in 1..(Len(stream) - 1) :
             Damaged([stream EXCEPT ![i] = stream[i + 1], ![i + 1] = stream[i]])
Break == \E i \in DOMAIN stream : Damaged([stream EXCEPT ![i] = Broken])

\* The rest of the stream is lost.
Cut == \E n \in 0..(Len(stream) - 1) : Damaged(SubSeq(stream, 1, n))

\* DecodeJob, which every print command calls before it sends the stream.
DecodeJob ==
  /\ phase = "encoded"
  /\ phase' = "decoded" /\ result' = Decoded(stream)
  /\ UNCHANGED <<intended, settings, job, stream, damages>>

Next == Monochrome \/ EncodeRows \/ Drop \/ Duplicate \/ Reorder \/ Break \/ Cut \/ DecodeJob

Spec == Init /\ [][Next]_vars

----------------------------------------------------------------------------

FrameType == [kind : Kinds, head : Seq(Nat), body : Seq(Nat)]

\* The variables' types; a height always fits its field.
TypeOK ==
  /\ phase \in {"idle", "rendered", "encoded", "decoded", "refused"}
  /\ intended.bytes \in {NarrowBytes, NativeBytes}
  /\ Len(intended.rows) < WordSize
  /\ settings \in SettingsTried
  /\ job \in Seq(FrameType) /\ stream \in Seq(FrameType)
  /\ damages \in 0..MaxDamages
  /\ result.ok \in BOOLEAN /\ result.copies \in Nat

\* A stream that nothing happened to is accepted and gives back the rows and the
\* number of copies, whatever the page holds: the encoder and the decoder agree
\* on the tree, the codes and the padding.
RoundTrip ==
  phase = "decoded" /\ stream = job =>
    result = [ok |-> TRUE, rows |-> intended.rows, copies |-> settings.copies]

\* DecodeJob accepts no part, repetition or rearrangement of a job's frames but
\* the job itself.
OnlyTheWholeJob == phase = "decoded" /\ result.ok => stream = job

\* The desktop client's decoder, which has weaker checks, reads what the
\* appliance's decoder accepts, with the same rows, exactly when it is narrow.
DesktopAgrees ==
  phase = "decoded" /\ result.ok =>
    DesktopDecoded(stream) =
      IF intended.bytes = NarrowBytes THEN [ok |-> TRUE, rows |-> result.rows]
      ELSE [ok |-> FALSE, rows |-> << >>]
=============================================================================
