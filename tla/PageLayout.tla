----------------------------- MODULE PageLayout -----------------------------
(***************************************************************************)
(* How internal/banner breaks a text into lines, and where                 *)
(* internal/giftpage puts the names of a gift.  The state is the input: a  *)
(* text that grows by one word at a time, or a celebration.  A word is its *)
(* number of letters; a letter of a font of size s is s dots wide, and     *)
(* sizes are further apart than the 0.001 that PlanLines takes for equal.  *)
(***************************************************************************)
EXTENDS Integers, Sequences, FiniteSets, SequencesExt

CONSTANTS
  MaxLetters,   \* letters and blanks of a text that is accepted
  MaxWords,     \* words of a text that is accepted
  MinSize,      \* the font sizes that bestSize searches
  MaxSize,
  PageWidth,    \* the banner inside its margins
  PageHeight,
  Gap,          \* dots between two lines
  WordLengths,  \* bound: lengths of words
  Totals,       \* bound: numbers of gifts
  MaxNames,     \* bound: names of a gift that can be drawn
  MaxBlank      \* bound: names of a gift that cannot

ASSUME LayoutAssumption ==
  /\ {MaxLetters, MaxWords, MinSize, MaxSize, PageWidth, PageHeight, Gap} \subseteq Nat
  /\ 0 < MinSize /\ MinSize < MaxSize
ASSUME TextAssumption == WordLengths \subseteq Nat \ {0}
ASSUME GiftAssumption == Totals \subseteq Nat /\ MaxNames \in Nat /\ MaxBlank \in Nat

VARIABLES
  words,        \* the text of a banner
  lineCount,    \* --lines; 0 is "auto"
  named,        \* recipients with a name that can be drawn
  blank,        \* recipients whose name has no such letter
  total         \* gifts, 0 when no page is asked for

layoutVars == <<words, lineCount, named, blank, total>>

LayoutInit ==
  words = << >> /\ lineCount = 0 /\ named = 0 /\ blank = 0 /\ total = 0

AddWord ==
  /\ total = 0 /\ lineCount = 0 /\ Len(words) <= MaxWords
  /\ \E n \in WordLengths : words' = Append(words, n)
  /\ UNCHANGED <<lineCount, named, blank, total>>

ForceLines ==
  /\ words # << >> /\ lineCount = 0
  /\ lineCount' \in 1..3
  /\ UNCHANGED <<words, named, blank, total>>

\* giftprint is run for a celebration of the collector.
GiftIsDue ==
  /\ words = << >> /\ total = 0
  /\ total' \in Totals /\ named' \in 0..MaxNames /\ blank' \in 0..MaxBlank
  /\ UNCHANGED <<words, lineCount>>

LayoutNext == AddWord \/ ForceLines \/ GiftIsDue

LayoutSpec == LayoutInit /\ [][LayoutNext]_layoutVars

----------------------------------------------------------------------------
(* Banners *)

Refused == [lines |-> << >>, size |-> 0]

\* A line is the words on it, with one blank between two of them.
Letters(line) == SumFunction(line) + Len(line) - 1

\* measure: the width of a line, and the height of one, in dots.
LineWidth(line, size) == size * Letters(line)
LineHeight(size) == size

Fits(lines, size) ==
  /\ \A i \in DOMAIN lines : LineWidth(lines[i], size) <= PageWidth
  /\ LineHeight(size) * Len(lines) + Gap * (Len(lines) - 1) <= PageHeight

\* The search between x = <<lo, hi>> never tries its ends, so the least size is
\* returned unmeasured.
BestSize(lines) ==
  LET search[x \in (MinSize..MaxSize) \X (MinSize..MaxSize)] ==
        LET mid == (x[1] + x[2]) \div 2
        IN  IF x[2] - x[1] <= 1 THEN x[1]
            ELSE search[IF Fits(lines, mid) THEN <<mid, x[2]>> ELSE <<x[1], mid>>]
  IN  search[<<MinSize, MaxSize>>]

\* Mutant of LinePartitions: the last cut is forgotten.
MutantShortCuts(text, count) ==
  LET parts[k \in 1..3] == [from \in 1..Len(text) |->
        IF k = 1 THEN << <<SubSeq(text, from, Len(text))>> >>
        ELSE FlattenSeq([cut \in 1..(Len(text) - from + 1 - k) |->
               [i \in DOMAIN parts[k - 1][from + cut] |->
                  <<SubSeq(text, from, from + cut - 1)>> \o parts[k - 1][from + cut][i]]])]
  IN  parts[count][1]

\* Every way to break the text into so many lines, in the order they are tried.
LinePartitions(text, count) ==
  LET parts[k \in 1..3] == [from \in 1..Len(text) |->
        IF k = 1 THEN << <<SubSeq(text, from, Len(text))>> >>
        ELSE FlattenSeq([cut \in 1..(Len(text) - from + 2 - k) |->
               [i \in DOMAIN parts[k - 1][from + cut] |->
                  <<SubSeq(text, from, from + cut - 1)>> \o parts[k - 1][from + cut][i]]])]
  IN  parts[count][1]

Widths(lines, size) == {LineWidth(lines[i], size) : i \in DOMAIN lines}

\* The narrowest line is to the widest as a is to b.
MoreBalanced(lines, others, size) ==
  Min(Widths(lines, size)) * Max(Widths(others, size))
    > Min(Widths(others, size)) * Max(Widths(lines, size))

\* A larger type wins, and at the same size the more even lines.
Better(best, lines) ==
  LET size == BestSize(lines)
  IN  IF \/ size > best.size
         \/ size = best.size /\ MoreBalanced(lines, best.lines, size)
        THEN [lines |-> lines, size |-> size] ELSE best

\* The layouts that are tried, one after the other; 0 lines is one, two and three.
Tried(text, count) ==
  IF count > 0 THEN LinePartitions(text, count)
  ELSE FlattenSeq([k \in 1..Min({3, Len(text)}) |-> LinePartitions(text, k)])

PlanLines(text, count) ==
  LET tried == Tried(text, count)
      best[i \in 0..Len(tried)] == IF i = 0 THEN Refused ELSE Better(best[i - 1], tried[i])
  IN  IF \/ text = << >> \/ Letters(text) > MaxLetters
         \/ Len(text) > MaxWords \/ count > Len(text)
        THEN Refused ELSE best[Len(tried)]

----------------------------------------------------------------------------
(* Gift pages: the dots of the code *)

PageBottom == 2233 - 94      \* the inner frame
MaxDisplayed == 24

\* Letters of a face reach no further than this below the top of their line.
FaceHeight(size) == (6 * size) \div 5

Displayed == Min({named, MaxDisplayed})

\* Collector.finish
MissingNames == Max({0, total - (named + blank)})

More == MissingNames + (named - Displayed) + Max({0, total - named - MissingNames})

RosterFont == IF Displayed > 20 THEN 30 ELSE IF Displayed > 16 THEN 34 ELSE 40

RosterRows == (Displayed + 1) \div 2

\* Mutant of RowGap: the closest spacing is left out.
MutantTwoGaps == IF RosterRows > 8 THEN 64 ELSE 76

RowGap == IF RosterRows > 10 THEN 54 ELSE IF RosterRows > 8 THEN 64 ELSE 76

RosterTop == 1245
RosterBottom == RosterTop + RosterRows * RowGap + (IF More > 0 THEN 70 ELSE 0)
MoreTop == RosterTop + RosterRows * RowGap + 20
FooterTop == Max({RosterBottom + 70, 2020})

----------------------------------------------------------------------------
(* Properties *)

LayoutTypeOK ==
  /\ words \in Seq(WordLengths) /\ lineCount \in 0..3
  /\ named \in 0..MaxNames /\ blank \in 0..MaxBlank
  /\ total \in Totals \cup {0}

\* Where the text is cut into k lines: after word cut[i], at the end of line i.
Cuts(text, k) ==
  {cut \in [0..k -> 0..Len(text)] :
     cut[0] = 0 /\ cut[k] = Len(text) /\ \A i \in 1..k : cut[i - 1] < cut[i]}

CutLines(text, k, cut) == [i \in 1..k |-> SubSeq(text, cut[i - 1] + 1, cut[i])]

Layouts(text, counts) == UNION {{CutLines(text, k, cut) : cut \in Cuts(text, k)} : k \in counts}

\* Appliance/README.md: "evaluates one, two, and three contiguous
\* word-preserving lines and chooses the largest type".  Of all the ways to cut
\* the text PlanLines takes one of the largest type, and of those one with the
\* most even lines; it refuses a text only for its length or its line count.
LargestType ==
  LET plan == PlanLines(words, lineCount)
      all == Layouts(words, IF lineCount = 0 THEN 1..3 ELSE {lineCount})
  IN  IF \/ words = << >> \/ Len(words) > MaxWords
         \/ Letters(words) > MaxLetters \/ all = {}
        THEN plan = Refused
        ELSE /\ plan.lines \in all /\ plan.size = BestSize(plan.lines)
             /\ \A other \in all :
                  /\ \A size \in (plan.size + 1)..(MaxSize - 1) : ~Fits(other, size)
                  /\ BestSize(other) = plan.size => ~MoreBalanced(other, plan.lines, plan.size)

\* TWITCH_BANNER.md: "the page honestly lists the names received and adds
\* + N MORE".  Every gift is on the page, by name or by number, also those whose
\* recipient has no name that can be drawn, and nothing is drawn over the
\* roster, the footer or the frame.
EveryGiftIsOnThePage ==
  total > 0 /\ named > 0 =>
    /\ Displayed + More = Max({total, named})
    /\ FaceHeight(RosterFont) <= RowGap
    /\ More > 0 => MoreTop + FaceHeight(36) <= RosterBottom
    /\ RosterBottom <= FooterTop - 35
    /\ FooterTop + FaceHeight(30) <= PageBottom

\* PlanLines ends with "banner does not fit" when it has found no layout.  A
\* text that is accepted is inside the margins.
AcceptedTextFits ==
  LET plan == PlanLines(words, lineCount)
  IN  plan # Refused => Fits(plan.lines, plan.size)
=============================================================================
