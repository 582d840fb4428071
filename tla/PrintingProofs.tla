--------------------------- MODULE PrintingProofs ---------------------------
(***************************************************************************)
(* Printing, proved for every width, height, page and number of faults:    *)
(* DecodeJob accepts nothing made of a job's frames but the job, it gives  *)
(* back the rows of a job that reached it whole, and the desktop client's  *)
(* decoder agrees with it; the page of a gift has room for every gift, and *)
(* a banner is printed in the largest type that any break of it allows.    *)
(*                                                                         *)
(* The second of these rests on the Huffman coder: the tree BuildHuffman   *)
(* makes comes back from its traversals, and a decoder with that tree      *)
(* reads the bytes whose codes were written, to the last padding bit.  The *)
(* first part of the module shows that.  The second part turns it round,   *)
(* for what any decoder may be sent: the lists that treeFrom accepts are   *)
(* exactly the traversals of full trees, and the bits that decode accepts  *)
(* are exactly the codes of the bytes it returns.                          *)
(***************************************************************************)
EXTENDS PrintProtocol, HuffmanTrees, PageLayout, FiniteSetTheorems, WellFoundedInduction, TLAPS

----------------------------------------------------------------------------
(***************************************************************************)
(* Induction, from the least member of a set of numbers, and what it says  *)
(* of functions that are defined by recursion.  A recursive definition     *)
(* names a function that satisfies its equation if there is one; that      *)
(* there is one is what these facts are for.  None of them takes an        *)
(* operator: a step is a function, or a function of functions.             *)
(***************************************************************************)

\* A set of numbers with a member has a least one.
LEMMA Least ==
  ASSUME NEW T \in SUBSET Nat, T # {}
  PROVE  \E n \in T : \A m \in T : n <= m
<1> DEFINE R == {p \in Nat \X Nat : p[1] < p[2]}
<1>1. IsWellFoundedOn(R, Nat)
  BY NatLessThanWellFounded DEF OpToRel
<1>2. \E n \in T : \A m \in T : ~(<<m, n>> \in R)
  <2> HIDE DEF R
  <2> QED
    BY WFMin, <1>1
<1>3. ASSUME NEW m \in Nat, NEW n \in Nat, m < n PROVE <<m, n>> \in R
  <2>1. <<m, n>> \in Nat \X Nat /\ <<m, n>>[1] = m /\ <<m, n>>[2] = n
    OBVIOUS
  <2> QED
    BY <1>3, <2>1
<1> HIDE DEF R
<1>4. PICK n \in T : \A m \in T : ~(<<m, n>> \in R)
  BY <1>2
<1>5. ASSUME NEW m \in T PROVE n <= m
  <2>1. ~(m < n)
    BY <1>3, <1>4
  <2> QED
    BY <2>1
<1> QED
  BY <1>5

\* A set with 0 and the successor of each of its members has every number.
LEMMA Induction ==
  ASSUME NEW S \in SUBSET Nat, 0 \in S, \A n \in Nat : n \in S => n + 1 \in S
  PROVE  S = Nat
<1> SUFFICES ASSUME Nat \ S # {} PROVE FALSE
  OBVIOUS
<1>1. PICK n \in Nat \ S : \A m \in Nat \ S : n <= m
  BY Least
<1>2. n - 1 \in Nat /\ n - 1 \in S
  BY <1>1
<1> QED
  BY <1>2

\* A set with each number whose predecessors are all in it has every number.
LEMMA StrongInduction ==
  ASSUME NEW S \in SUBSET Nat, \A n \in Nat : (\A m \in 0..(n - 1) : m \in S) => n \in S
  PROVE  S = Nat
<1> SUFFICES ASSUME Nat \ S # {} PROVE FALSE
  OBVIOUS
<1>1. PICK n \in Nat \ S : \A m \in Nat \ S : n <= m
  BY Least
<1>2. \A m \in 0..(n - 1) : m \in S
  BY <1>1
<1> QED
  BY <1>1, <1>2

\* A function that is given at 0, and at every other number by the one before,
\* exists.
Recursive(n, T, base, step) ==
  \E f \in [0..n -> T] : f[0] = base /\ \A i \in 1..n : f[i] = step[i][f[i - 1]]

LEMMA Recursion ==
  ASSUME NEW n \in Nat, NEW T, NEW base \in T, NEW step \in [1..n -> [T -> T]]
  PROVE  Recursive(n, T, base, step)
<1> DEFINE Upto(k, f) == f[0] = base /\ \A i \in 1..k : f[i] = step[i][f[i - 1]]
           S == {k \in Nat : k <= n => \E f \in [0..k -> T] : Upto(k, f)}
<1>1. 0 \in S
  <2>1. [i \in 0..0 |-> base] \in [0..0 -> T] /\ Upto(0, [i \in 0..0 |-> base])
    OBVIOUS
  <2> QED
    BY <2>1
<1>2. ASSUME NEW k \in Nat, k \in S PROVE k + 1 \in S
  <2> SUFFICES ASSUME k + 1 <= n PROVE \E f \in [0..(k + 1) -> T] : Upto(k + 1, f)
    OBVIOUS
  <2>1. PICK f \in [0..k -> T] : Upto(k, f)
    BY <1>2
  <2> DEFINE g == [i \in 0..(k + 1) |-> IF i <= k THEN f[i] ELSE step[k + 1][f[k]]]
  <2>2. k \in 0..k /\ k + 1 \in 1..n /\ f[k] \in T
    BY <2>1
  <2>3. step[k + 1][f[k]] \in T
    BY <2>2
  <2>4. g \in [0..(k + 1) -> T]
    BY <2>1, <2>3
  <2>5. g[0] = base
    BY <2>1
  <2>6. ASSUME NEW i \in 1..(k + 1) PROVE g[i] = step[i][g[i - 1]]
    <3>1. CASE i \in 1..k
      BY <2>1, <3>1
    <3>2. CASE i = k + 1
      BY <2>2, <3>2
    <3> QED
      BY <3>1, <3>2
  <2> QED
    BY <2>4, <2>5, <2>6
<1> HIDE DEF S
<1>3. S = Nat
  <2>1. S \in SUBSET Nat
    BY DEF S
  <2> QED
    BY <1>1, <1>2, <2>1, Induction
<1>4. n \in S
  BY <1>3
<1> QED
  BY <1>4 DEF S, Recursive

\* So does a function on D whose value at x is given by its values at the points
\* of a lower rank.
RankRecursive(D, V, step) == \E f \in [D -> V] : \A x \in D : f[x] = step[x][f]

LEMMA RankRecursion ==
  ASSUME NEW D, NEW V, NEW v \in V, NEW N \in Nat, NEW rank \in [D -> 0..N],
         NEW step \in [D -> [[D -> V] -> V]],
         \A x \in D : \A f, g \in [D -> V] :
           (\A y \in D : rank[y] < rank[x] => f[y] = g[y]) => step[x][f] = step[x][g]
  PROVE  RankRecursive(D, V, step)
<1> DEFINE T == [D -> V]
           n == N + 2
           f0 == [x \in D |-> v]
           Improved(f) == [x \in D |-> step[x][f]]
           all == [i \in 1..n |-> [f \in T |-> Improved(f)]]
<1>1. f0 \in T /\ n \in Nat
  OBVIOUS
<1>2. ASSUME NEW f \in T PROVE Improved(f) \in T
  OBVIOUS
<1>3. all \in [1..n -> [T -> T]]
  <2> HIDE DEF T, Improved
  <2> QED
    BY <1>2
<1>4. \E g \in [0..n -> T] : g[0] = f0 /\ \A i \in 1..n : g[i] = all[i][g[i - 1]]
  <2> HIDE DEF T, n, f0, all
  <2>1. Recursive(n, T, f0, all)
    BY <1>1, <1>3, Recursion
  <2> QED
    BY <2>1 DEF Recursive
<1>5. PICK g \in [0..n -> T] : g[0] = f0 /\ \A i \in 1..n : g[i] = all[i][g[i - 1]]
  BY <1>4
<1>6. ASSUME NEW i \in 1..n, NEW x \in D PROVE g[i][x] = step[x][g[i - 1]]
  <2>1. i - 1 \in 0..n /\ g[i - 1] \in T
    OBVIOUS
  <2>2. all[i][g[i - 1]] = Improved(g[i - 1])
    BY <2>1
  <2>3. g[i] = all[i][g[i - 1]]
    BY <1>5
  <2> HIDE DEF T, all, n
  <2> QED
    BY <2>2, <2>3
<1>7. \A i \in 0..n : g[i] \in [D -> V]
  OBVIOUS
<1> HIDE DEF T, f0, all, Improved
<1> DEFINE S == {k \in Nat : k <= N + 1 => \A x \in D : rank[x] < k => g[k][x] = g[k + 1][x]}
<1>8. 0 \in S
  OBVIOUS
<1>9. ASSUME NEW k \in Nat, k \in S PROVE k + 1 \in S
  <2> SUFFICES ASSUME k + 1 <= N + 1, NEW x \in D, rank[x] < k + 1
               PROVE  g[k + 1][x] = g[k + 2][x]
    OBVIOUS
  <2>1. k + 1 \in 1..n /\ k + 2 \in 1..n /\ k \in 0..n /\ k + 1 \in 0..n
    OBVIOUS
  <2>2. g[k + 1][x] = step[x][g[k]] /\ g[k + 2][x] = step[x][g[k + 1]]
    BY <2>1, <1>6
  <2>3. \A y \in D : rank[y] < rank[x] => g[k][y] = g[k + 1][y]
    BY <1>9
  <2>4. g[k] \in [D -> V] /\ g[k + 1] \in [D -> V]
    BY <2>1, <1>7
  <2> QED
    BY <2>2, <2>3, <2>4
<1>10. N + 1 \in S
  <2>1. S \in SUBSET Nat
    OBVIOUS
  <2> HIDE DEF S
  <2>2. S = Nat
    BY <1>8, <1>9, <2>1, Induction
  <2> QED
    BY <2>2
<1>11. ASSUME NEW x \in D PROVE g[N + 1][x] = step[x][g[N + 1]]
  <2>1. rank[x] < N + 1
    OBVIOUS
  <2>2. g[N + 1][x] = g[N + 2][x]
    BY <1>10, <2>1
  <2>3. N + 2 \in 1..n /\ (N + 2) - 1 = N + 1
    OBVIOUS
  <2>4. g[N + 2][x] = step[x][g[N + 1]]
    BY <1>6, <2>3
  <2> QED
    BY <2>2, <2>4
<1>12. g[N + 1] \in [D -> V]
  BY <1>7
<1> QED
  BY <1>11, <1>12 DEF RankRecursive

----------------------------------------------------------------------------
(***************************************************************************)
(* The Huffman coder                                                       *)
(*                                                                         *)
(* What the proof needs of a tree is that it is one: every node but the    *)
(* root is the child of one other, each inner node has two children, each  *)
(* leaf is a byte, and the nodes can be ranked, a node above its children. *)
(* Every recursion over the tree goes by that rank.  The trees the encoder *)
(* builds are such trees, and so are all that a decoder accepts.           *)
(***************************************************************************)

\* Each child below its parent.
Ranks(t, N, r) ==
  /\ r \in [NodesOf(t) -> 0..N]
  /\ \A k \in t.kids : r[k[2]] < r[k[1]] /\ r[k[3]] < r[k[1]]

Height(t) == CHOOSE N \in Nat : \E r : Ranks(t, N, r)
Rank(t) == CHOOSE r : Ranks(t, Height(t), r)

\* A tree whose inner nodes have two children each and whose leaves are bytes.
Full(t) ==
  /\ t = [root |-> t.root, kids |-> t.kids]
  /\ t.root \in Labels /\ t.kids \subseteq Labels \X Labels \X Labels
  /\ \A k \in t.kids : k[2] # k[3] /\ t.root \notin {k[2], k[3]}
  /\ \A k, m \in t.kids : k[1] = m[1] => k = m
  /\ \A k, m \in t.kids : {k[2], k[3]} \cap {m[2], m[3]} # {} => k = m
  /\ \A k \in t.kids : k[1] # t.root => \E m \in t.kids : k[1] \in {m[2], m[3]}
  /\ \A n \in NodesOf(t) \ Inner(t) : n \in Byte
  /\ \E N \in Nat : \E r : Ranks(t, N, r)

----------------------------------------------------------------------------
(* Sequences *)

\* What is in two sequences put one behind the other.
LEMMA JoinedSet ==
  ASSUME NEW S, NEW a \in Seq(S), NEW b \in Seq(S)
  PROVE  /\ a \o b \in Seq(S) /\ Len(a \o b) = Len(a) + Len(b)
         /\ \A k \in 1..Len(a) : (a \o b)[k] = a[k]
         /\ \A k \in 1..Len(b) : (a \o b)[Len(a) + k] = b[k]
         /\ ToSet(a \o b) = ToSet(a) \cup ToSet(b)
<1>1. /\ a \o b \in Seq(S) /\ Len(a \o b) = Len(a) + Len(b)
      /\ \A k \in 1..Len(a) : (a \o b)[k] = a[k]
      /\ \A k \in 1..Len(b) : (a \o b)[Len(a) + k] = b[k]
  OBVIOUS
<1> DEFINE c == a \o b
<1>2. /\ DOMAIN a = 1..Len(a) /\ DOMAIN b = 1..Len(b) /\ Len(a) \in Nat /\ Len(b) \in Nat
      /\ DOMAIN c = 1..(Len(a) + Len(b))
  BY <1>1
<1> HIDE DEF c
<1>3. ASSUME NEW x \in ToSet(c) PROVE x \in ToSet(a) \cup ToSet(b)
  <2>1. PICK k \in 1..(Len(a) + Len(b)) : x = c[k]
    BY <1>2 DEF ToSet
  <2>2. CASE k \in 1..Len(a)
    BY <1>1, <1>2, <2>1, <2>2 DEF ToSet, c
  <2>3. CASE k \notin 1..Len(a)
    <3>1. k - Len(a) \in 1..Len(b) /\ Len(a) + (k - Len(a)) = k
      BY <1>2, <2>1, <2>3
    <3> QED
      BY <1>1, <1>2, <2>1, <3>1 DEF ToSet, c
  <2> QED
    BY <2>2, <2>3
<1>4. ASSUME NEW x \in ToSet(a) PROVE x \in ToSet(c)
  <2>1. PICK k \in 1..Len(a) : x = a[k]
    BY <1>2 DEF ToSet
  <2>2. k \in DOMAIN c /\ c[k] = x
    BY <1>1, <1>2, <2>1 DEF c
  <2> QED
    BY <2>2 DEF ToSet
<1>5. ASSUME NEW x \in ToSet(b) PROVE x \in ToSet(c)
  <2>1. PICK k \in 1..Len(b) : x = b[k]
    BY <1>2 DEF ToSet
  <2>2. Len(a) + k \in DOMAIN c /\ c[Len(a) + k] = x
    BY <1>1, <1>2, <2>1 DEF c
  <2> QED
    BY <2>2 DEF ToSet
<1> QED
  BY <1>1, <1>3, <1>4, <1>5 DEF c

\* d is a, b and c one behind the other.
InOrderOf(S, a, b, c, d) ==
  /\ d \in Seq(S) /\ Len(d) = Len(a) + Len(b) + Len(c)
  /\ \A k \in 1..Len(a) : d[k] = a[k]
  /\ \A k \in 1..Len(b) : d[Len(a) + k] = b[k]
  /\ \A k \in 1..Len(c) : d[Len(a) + Len(b) + k] = c[k]
  /\ ToSet(d) = ToSet(a) \cup ToSet(b) \cup ToSet(c)

\* The same for three.
LEMMA JoinedThree ==
  ASSUME NEW S, NEW a \in Seq(S), NEW b \in Seq(S), NEW c \in Seq(S)
  PROVE  InOrderOf(S, a, b, c, a \o b \o c)
<1> DEFINE d == a \o b
<1>1. /\ d \in Seq(S) /\ Len(d) = Len(a) + Len(b)
      /\ \A k \in 1..Len(a) : d[k] = a[k]
      /\ \A k \in 1..Len(b) : d[Len(a) + k] = b[k]
      /\ ToSet(d) = ToSet(a) \cup ToSet(b)
  BY JoinedSet
<1>2. Len(a) \in Nat /\ Len(b) \in Nat
  OBVIOUS
<1>3. /\ d \o c \in Seq(S) /\ Len(d \o c) = Len(a) + Len(b) + Len(c)
      /\ \A k \in 1..Len(a) : (d \o c)[k] = a[k]
      /\ \A k \in 1..Len(b) : (d \o c)[Len(a) + k] = b[k]
      /\ \A k \in 1..Len(c) : (d \o c)[Len(a) + Len(b) + k] = c[k]
      /\ ToSet(d \o c) = ToSet(a) \cup ToSet(b) \cup ToSet(c)
  <2> HIDE DEF d
  <2>1. d \in Seq(S)
    BY <1>1
  <2>2. /\ d \o c \in Seq(S) /\ Len(d \o c) = Len(d) + Len(c)
        /\ \A k \in 1..Len(d) : (d \o c)[k] = d[k]
        /\ \A k \in 1..Len(c) : (d \o c)[Len(d) + k] = c[k]
        /\ ToSet(d \o c) = ToSet(d) \cup ToSet(c)
    BY <2>1, JoinedSet
  <2> QED
    BY <1>1, <1>2, <2>2
<1> QED
  BY <1>3 DEF InOrderOf

\* The members of a sequence.
LEMMA SetOf ==
  ASSUME NEW S, NEW a \in Seq(S)
  PROVE  ToSet(a) \subseteq S /\ Len(a) \in Nat /\ DOMAIN a = 1..Len(a)
BY DEF ToSet

\* Two sequences without a repetition, and without a common member, have none
\* between them.
LEMMA JoinedInjective ==
  ASSUME NEW S, NEW a \in Seq(S), NEW b \in Seq(S), IsInjective(a), IsInjective(b),
         ToSet(a) \cap ToSet(b) = {}
  PROVE  IsInjective(a \o b)
<1> DEFINE c == a \o b
<1>1. /\ Len(c) = Len(a) + Len(b) /\ c \in Seq(S)
      /\ \A k \in 1..Len(a) : c[k] = a[k]
      /\ \A k \in 1..Len(b) : c[Len(a) + k] = b[k]
  BY JoinedSet
<1> HIDE DEF c
<1>2. /\ DOMAIN a = 1..Len(a) /\ DOMAIN b = 1..Len(b) /\ Len(a) \in Nat /\ Len(b) \in Nat
      /\ DOMAIN c = 1..(Len(a) + Len(b))
  BY <1>1
<1>3. ASSUME NEW i \in DOMAIN c
      PROVE  \/ i \in 1..Len(a) /\ c[i] = a[i] /\ c[i] \in ToSet(a)
             \/ /\ i \notin 1..Len(a) /\ i - Len(a) \in 1..Len(b)
                /\ c[i] = b[i - Len(a)] /\ c[i] \in ToSet(b)
  <2>1. CASE i \in 1..Len(a)
    BY <1>1, <1>2, <2>1 DEF ToSet
  <2>2. CASE i \notin 1..Len(a)
    <3>1. i - Len(a) \in 1..Len(b) /\ Len(a) + (i - Len(a)) = i
      BY <1>2, <2>2
    <3> QED
      BY <1>1, <1>2, <2>2, <3>1 DEF ToSet
  <2> QED
    BY <2>1, <2>2
<1>4. ASSUME NEW i \in DOMAIN c, NEW j \in DOMAIN c, c[i] = c[j] PROVE i = j
  <2>1. CASE i \in 1..Len(a)
    <3>1. j \in 1..Len(a) /\ a[i] = a[j]
      BY <1>3, <1>4, <2>1
    <3> QED
      BY <1>2, <2>1, <3>1 DEF IsInjective
  <2>2. CASE i \notin 1..Len(a)
    <3>1. /\ j - Len(a) \in DOMAIN b /\ i - Len(a) \in DOMAIN b
          /\ b[i - Len(a)] = b[j - Len(a)]
      BY <1>2, <1>3, <1>4, <2>2
    <3>2. i - Len(a) = j - Len(a)
      BY <3>1 DEF IsInjective
    <3> QED
      BY <1>2, <3>2
  <2> QED
    BY <2>1, <2>2
<1> QED
  BY <1>4 DEF IsInjective, c

----------------------------------------------------------------------------
(* The traversals *)

LEMMA RankKnown ==
  ASSUME NEW t, Full(t)
  PROVE  /\ Height(t) \in Nat /\ Ranks(t, Height(t), Rank(t))
         /\ Rank(t) \in [NodesOf(t) -> 0..Height(t)]
<1>1. Height(t) \in Nat /\ \E r : Ranks(t, Height(t), r)
  BY DEF Full, Height
<1>2. Ranks(t, Height(t), Rank(t))
  BY <1>1 DEF Rank
<1> QED
  BY <1>1, <1>2 DEF Ranks

\* The children of a node, and their ranks.
LEMMA ChildOf ==
  ASSUME NEW t, Full(t), NEW k \in t.kids
  PROVE  /\ k[1] \in Inner(t) /\ k[1] \in NodesOf(t) /\ k[2] \in NodesOf(t) /\ k[3] \in NodesOf(t)
         /\ k[1] \in Labels /\ k[2] \in Labels /\ k[3] \in Labels /\ k = <<k[1], k[2], k[3]>>
         /\ Child(t, k[1], 0) = k[2] /\ Child(t, k[1], 1) = k[3]
         /\ Rank(t)[k[2]] < Rank(t)[k[1]] /\ Rank(t)[k[3]] < Rank(t)[k[1]]
<1>1. k[1] \in Inner(t) /\ k[1] \in NodesOf(t) /\ k[2] \in NodesOf(t) /\ k[3] \in NodesOf(t)
  BY DEF Inner, NodesOf
<1>2. (CHOOSE m \in t.kids : m[1] = k[1]) = k
  BY DEF Full
<1>3. \A bit : Child(t, k[1], bit) = (CHOOSE m \in t.kids : m[1] = k[1])[2 + bit]
  BY <1>1 DEF Child
<1>4. 2 + 0 = 2 /\ 2 + 1 = 3
  OBVIOUS
<1>5. Ranks(t, Height(t), Rank(t))
  BY RankKnown
<1>6. Rank(t)[k[2]] < Rank(t)[k[1]] /\ Rank(t)[k[3]] < Rank(t)[k[1]]
  BY <1>5 DEF Ranks
<1>7. k \in Labels \X Labels \X Labels
  BY DEF Full
<1>8. k[1] \in Labels /\ k[2] \in Labels /\ k[3] \in Labels /\ k = <<k[1], k[2], k[3]>>
  BY <1>7
<1> QED
  BY <1>1, <1>2, <1>3, <1>4, <1>6, <1>8

\* Every node is a number below 2 * Symbols, and every inner node has children.
LEMMA NodeRank ==
  ASSUME NEW t, Full(t), NEW n \in NodesOf(t)
  PROVE  /\ n \in Labels /\ n \in Nat /\ n < 2 * Symbols - 1 /\ n # None
         /\ Height(t) \in Nat /\ Rank(t)[n] \in Nat /\ Rank(t)[n] <= Height(t)
         /\ (n \in Inner(t) => \E k \in t.kids : k[1] = n)
         /\ (n \notin Inner(t) => n \in Byte)
         /\ (n # t.root => \E k \in t.kids : n \in {k[2], k[3]})
<1>1. n = t.root \/ \E k \in t.kids : n \in {k[1], k[2], k[3]}
  BY DEF NodesOf
<1>2. t.root \in Labels
  BY DEF Full
<1>3. n \in Labels
  BY <1>1, <1>2, ChildOf
<1>4. n \in Nat /\ n < 2 * Symbols - 1 /\ n # None
  BY <1>3, SymbolsAssumption DEF Labels, None
<1>5. n # t.root => \E k \in t.kids : n \in {k[2], k[3]}
  BY <1>1 DEF Full
<1>6. n \in Inner(t) => \E k \in t.kids : k[1] = n
  BY DEF Inner
<1>7. n \notin Inner(t) => n \in Byte
  BY DEF Full
<1>8. Rank(t) \in [NodesOf(t) -> 0..Height(t)] /\ Height(t) \in Nat
  BY RankKnown
<1>9. Rank(t)[n] \in 0..Height(t)
  BY <1>8
<1>10. Rank(t)[n] \in Nat /\ Rank(t)[n] <= Height(t)
  BY <1>8, <1>9
<1> QED
  BY <1>3, <1>4, <1>5, <1>6, <1>7, <1>8, <1>10

\* What holds of the leaves, and of a node when it does of its children, holds
\* of every node.
LEMMA Upwards ==
  ASSUME NEW t, Full(t), NEW X \in SUBSET NodesOf(t),
         \A n \in NodesOf(t) \ Inner(t) : n \in X,
         \A k \in t.kids : k[2] \in X /\ k[3] \in X => k[1] \in X
  PROVE  X = NodesOf(t)
<1> DEFINE S == {r \in Nat : \A n \in NodesOf(t) : Rank(t)[n] = r => n \in X}
<1>1. ASSUME NEW r \in Nat, \A q \in 0..(r - 1) : q \in S PROVE r \in S
  <2> SUFFICES ASSUME NEW n \in NodesOf(t), Rank(t)[n] = r, n \in Inner(t) PROVE n \in X
    OBVIOUS
  <2>1. PICK k \in t.kids : k[1] = n
    BY NodeRank
  <2>2. /\ k[2] \in NodesOf(t) /\ k[3] \in NodesOf(t)
        /\ Rank(t)[k[2]] < r /\ Rank(t)[k[3]] < r
    BY <2>1, ChildOf
  <2>3. Rank(t)[k[2]] \in 0..(r - 1) /\ Rank(t)[k[3]] \in 0..(r - 1)
    BY <2>2, NodeRank
  <2> QED
    BY <1>1, <2>1, <2>2, <2>3
<1>2. S = Nat
  <2>1. S \in SUBSET Nat
    OBVIOUS
  <2> HIDE DEF S
  <2> QED
    BY <1>1, <2>1, StrongInduction
<1>3. ASSUME NEW n \in NodesOf(t) PROVE n \in X
  BY <1>2, NodeRank
<1> QED
  BY <1>3

\* What holds of the root, and of a node's children when it does of the node,
\* holds of every node.
LEMMA Downwards ==
  ASSUME NEW t, Full(t), NEW X \in SUBSET NodesOf(t), t.root \in X,
         \A k \in t.kids : k[1] \in X => k[2] \in X /\ k[3] \in X
  PROVE  X = NodesOf(t)
<1> DEFINE S == {r \in Nat : \A n \in NodesOf(t) : Height(t) - Rank(t)[n] = r => n \in X}
<1>1. ASSUME NEW r \in Nat, \A q \in 0..(r - 1) : q \in S PROVE r \in S
  <2> SUFFICES ASSUME NEW n \in NodesOf(t), Height(t) - Rank(t)[n] = r, n # t.root PROVE n \in X
    OBVIOUS
  <2>1. PICK k \in t.kids : n \in {k[2], k[3]}
    BY NodeRank
  <2>2. k[1] \in NodesOf(t) /\ Rank(t)[n] < Rank(t)[k[1]]
    BY <2>1, ChildOf
  <2>3. /\ Rank(t)[k[1]] \in Nat /\ Rank(t)[n] \in Nat
        /\ Rank(t)[k[1]] <= Height(t) /\ Height(t) \in Nat
    BY <2>2, NodeRank, SymbolsAssumption
  <2>4. Height(t) - Rank(t)[k[1]] \in 0..(r - 1)
    BY <2>2, <2>3
  <2> QED
    BY <1>1, <2>1, <2>2, <2>4
<1>2. S = Nat
  <2>1. S \in SUBSET Nat
    OBVIOUS
  <2> HIDE DEF S
  <2> QED
    BY <1>1, <2>1, StrongInduction
<1>3. ASSUME NEW n \in NodesOf(t) PROVE n \in X
  <2>1. Height(t) - Rank(t)[n] \in Nat
    BY NodeRank, SymbolsAssumption
  <2> QED
    BY <1>2, <2>1
<1> QED
  BY <1>3

PreBody(t, f) ==
  [n \in NodesOf(t) |->
     IF n \in Inner(t) THEN <<n>> \o f[Child(t, n, 0)] \o f[Child(t, n, 1)] ELSE <<n>>]

InBody(t, f) ==
  [n \in NodesOf(t) |->
     IF n \in Inner(t) THEN f[Child(t, n, 0)] \o <<n>> \o f[Child(t, n, 1)] ELSE <<n>>]

\* What Preorder and Inorder walk over.
PreWalk(t) == CHOOSE f : f = PreBody(t, f)
InWalk(t) == CHOOSE f : f = InBody(t, f)

LEMMA WalkMeans ==
  ASSUME NEW t
  PROVE  Preorder(t) = PreWalk(t)[t.root] /\ Inorder(t) = InWalk(t)[t.root]
BY DEF Preorder, Inorder, PreWalk, InWalk, PreBody, InBody

\* The walks are defined: a node's children are below it.
LEMMA PreDefined ==
  ASSUME NEW t, Full(t)
  PROVE  PreWalk(t) = PreBody(t, PreWalk(t))
<1> DEFINE D == NodesOf(t)
           V == Seq(D)
           N == Height(t)
           rank == Rank(t)
           step == [n \in D |-> [f \in [D -> V] |-> PreBody(t, f)[n]]]
           none == << >>
<1>1. none \in V /\ N \in Nat /\ rank \in [D -> 0..N]
  BY RankKnown
<1>2. ASSUME NEW n \in D, n \in Inner(t)
      PROVE  /\ Child(t, n, 0) \in D /\ Child(t, n, 1) \in D
             /\ rank[Child(t, n, 0)] < rank[n] /\ rank[Child(t, n, 1)] < rank[n]
  <2>1. PICK k \in t.kids : k[1] = n
    BY <1>2, NodeRank
  <2> QED
    BY <2>1, ChildOf
<1>3. ASSUME NEW n \in D, NEW f \in [D -> V] PROVE PreBody(t, f)[n] \in V
  <2>1. CASE n \in Inner(t)
    <3>1. f[Child(t, n, 0)] \in V /\ f[Child(t, n, 1)] \in V /\ <<n>> \in V
      BY <1>2, <2>1
    <3>2. PreBody(t, f)[n] = <<n>> \o f[Child(t, n, 0)] \o f[Child(t, n, 1)]
      BY <2>1 DEF PreBody
    <3> HIDE DEF D
    <3> QED
      BY <3>1, <3>2
  <2>2. CASE n \notin Inner(t)
    BY <2>2 DEF PreBody
  <2> QED
    BY <2>1, <2>2
<1>4. step \in [D -> [[D -> V] -> V]]
  BY <1>3
<1>5. ASSUME NEW n \in D, NEW f \in [D -> V], NEW g \in [D -> V],
             \A y \in D : rank[y] < rank[n] => f[y] = g[y]
      PROVE  step[n][f] = step[n][g]
  BY <1>2, <1>5 DEF PreBody
<1>6. \A n \in D : \A f \in [D -> V] : step[n][f] = PreBody(t, f)[n]
  OBVIOUS
<1>7. RankRecursive(D, V, step)
  <2> HIDE DEF D, V, N, rank, step, none
  <2> QED
    BY <1>1, <1>4, <1>5, RankRecursion
<1>8. PICK f \in [D -> V] : \A n \in D : f[n] = PreBody(t, f)[n]
  BY <1>6, <1>7 DEF RankRecursive
<1>9. f = PreBody(t, f)
  <2>1. f = [n \in D |-> f[n]] /\ PreBody(t, f) = [n \in D |-> PreBody(t, f)[n]]
    BY <1>8 DEF PreBody
  <2> QED
    BY <1>8, <2>1
<1> QED
  BY <1>9 DEF PreWalk

LEMMA InDefined ==
  ASSUME NEW t, Full(t)
  PROVE  InWalk(t) = InBody(t, InWalk(t))
<1> DEFINE D == NodesOf(t)
           V == Seq(D)
           N == Height(t)
           rank == Rank(t)
           step == [n \in D |-> [f \in [D -> V] |-> InBody(t, f)[n]]]
           none == << >>
<1>1. none \in V /\ N \in Nat /\ rank \in [D -> 0..N]
  BY RankKnown
<1>2. ASSUME NEW n \in D, n \in Inner(t)
      PROVE  /\ Child(t, n, 0) \in D /\ Child(t, n, 1) \in D
             /\ rank[Child(t, n, 0)] < rank[n] /\ rank[Child(t, n, 1)] < rank[n]
  <2>1. PICK k \in t.kids : k[1] = n
    BY <1>2, NodeRank
  <2> QED
    BY <2>1, ChildOf
<1>3. ASSUME NEW n \in D, NEW f \in [D -> V] PROVE InBody(t, f)[n] \in V
  <2>1. CASE n \in Inner(t)
    <3>1. f[Child(t, n, 0)] \in V /\ f[Child(t, n, 1)] \in V /\ <<n>> \in V
      BY <1>2, <2>1
    <3>2. InBody(t, f)[n] = f[Child(t, n, 0)] \o <<n>> \o f[Child(t, n, 1)]
      BY <2>1 DEF InBody
    <3> HIDE DEF D
    <3> QED
      BY <3>1, <3>2
  <2>2. CASE n \notin Inner(t)
    BY <2>2 DEF InBody
  <2> QED
    BY <2>1, <2>2
<1>4. step \in [D -> [[D -> V] -> V]]
  BY <1>3
<1>5. ASSUME NEW n \in D, NEW f \in [D -> V], NEW g \in [D -> V],
             \A y \in D : rank[y] < rank[n] => f[y] = g[y]
      PROVE  step[n][f] = step[n][g]
  BY <1>2, <1>5 DEF InBody
<1>6. \A n \in D : \A f \in [D -> V] : step[n][f] = InBody(t, f)[n]
  OBVIOUS
<1>7. RankRecursive(D, V, step)
  <2> HIDE DEF D, V, N, rank, step, none
  <2> QED
    BY <1>1, <1>4, <1>5, RankRecursion
<1>8. PICK f \in [D -> V] : \A n \in D : f[n] = InBody(t, f)[n]
  BY <1>6, <1>7 DEF RankRecursive
<1>9. f = InBody(t, f)
  <2>1. f = [n \in D |-> f[n]] /\ InBody(t, f) = [n \in D |-> InBody(t, f)[n]]
    BY <1>8 DEF InBody
  <2> QED
    BY <1>8, <2>1
<1> QED
  BY <1>9 DEF InWalk

\* The walks of a leaf and of an inner node.
LEMMA Walks ==
  ASSUME NEW t, Full(t)
  PROVE  /\ \A n \in NodesOf(t) \ Inner(t) : PreWalk(t)[n] = <<n>> /\ InWalk(t)[n] = <<n>>
         /\ \A k \in t.kids :
              /\ PreWalk(t)[k[1]] = <<k[1]>> \o PreWalk(t)[k[2]] \o PreWalk(t)[k[3]]
              /\ InWalk(t)[k[1]] = InWalk(t)[k[2]] \o <<k[1]>> \o InWalk(t)[k[3]]
<1> DEFINE P == PreWalk(t)
           I == InWalk(t)
<1>1. P = PreBody(t, P) /\ I = InBody(t, I)
  BY PreDefined, InDefined
<1> HIDE DEF P, I
<1>2. ASSUME NEW n \in NodesOf(t) \ Inner(t) PROVE P[n] = <<n>> /\ I[n] = <<n>>
  <2>1. PreBody(t, P)[n] = <<n>> /\ InBody(t, I)[n] = <<n>>
    BY DEF PreBody, InBody
  <2> QED
    BY <1>1, <2>1
<1>3. ASSUME NEW k \in t.kids
      PROVE  /\ P[k[1]] = <<k[1]>> \o P[k[2]] \o P[k[3]]
             /\ I[k[1]] = I[k[2]] \o <<k[1]>> \o I[k[3]]
  <2>1. /\ k[1] \in Inner(t) /\ k[1] \in NodesOf(t)
        /\ Child(t, k[1], 0) = k[2] /\ Child(t, k[1], 1) = k[3]
    BY ChildOf
  <2>2. /\ PreBody(t, P)[k[1]] = <<k[1]>> \o P[k[2]] \o P[k[3]]
        /\ InBody(t, I)[k[1]] = I[k[2]] \o <<k[1]>> \o I[k[3]]
    BY <2>1 DEF PreBody, InBody
  <2> QED
    BY <1>1, <2>2
<1> QED
  BY <1>2, <1>3 DEF P, I

\* The nodes of the part of a tree below n, n included.
Under(t, n) == ToSet(PreWalk(t)[n])

\* What the walks from n list: n and nodes below it, with the children of each
\* and, but for n, the parent of each.
Walked(t, n) ==
  /\ PreWalk(t)[n] \in Seq(NodesOf(t)) /\ InWalk(t)[n] \in Seq(NodesOf(t))
  /\ Len(PreWalk(t)[n]) = Len(InWalk(t)[n]) /\ ToSet(InWalk(t)[n]) = Under(t, n)
  /\ n \in Under(t, n)
  /\ \A x \in Under(t, n) : Rank(t)[x] <= Rank(t)[n]
  /\ \A k \in t.kids : k[1] \in Under(t, n) => k[2] \in Under(t, n) /\ k[3] \in Under(t, n)
  /\ \A x \in Under(t, n) : x # n =>
       \E k \in t.kids : k[1] \in Under(t, n) /\ x \in {k[2], k[3]}

LEMMA WalkedAll ==
  ASSUME NEW t, Full(t)
  PROVE  \A n \in NodesOf(t) : Walked(t, n)
<1>1. ASSUME NEW n \in NodesOf(t), n \notin Inner(t) PROVE Walked(t, n)
  <2>1. PreWalk(t)[n] = <<n>> /\ InWalk(t)[n] = <<n>>
    BY <1>1, Walks
  <2>2. ToSet(<<n>>) = {n} /\ <<n>> \in Seq(NodesOf(t))
    BY DEF ToSet
  <2>3. Under(t, n) = {n}
    BY <2>1, <2>2 DEF Under
  <2>4. \A k \in t.kids : k[1] # n
    BY <1>1 DEF Inner
  <2>5. Rank(t)[n] <= Rank(t)[n]
    BY NodeRank
  <2> QED
    BY <2>1, <2>2, <2>3, <2>4, <2>5 DEF Walked
<1>2. ASSUME NEW k \in t.kids, Walked(t, k[2]), Walked(t, k[3]) PROVE Walked(t, k[1])
  <2> DEFINE n == k[1]
             l == k[2]
             r == k[3]
             P == PreWalk(t)
             I == InWalk(t)
             D == NodesOf(t)
             R == Rank(t)
  <2>1. n \in D /\ l \in D /\ r \in D /\ R[l] < R[n] /\ R[r] < R[n] /\ R \in [D -> Nat]
    <3>1. R \in [D -> 0..Height(t)] /\ Height(t) \in Nat
      BY RankKnown
    <3>2. n \in D /\ l \in D /\ r \in D /\ R[l] < R[n] /\ R[r] < R[n]
      BY ChildOf
    <3> QED
      BY <3>1, <3>2
  <2>2. P[n] = <<n>> \o P[l] \o P[r] /\ I[n] = I[l] \o <<n>> \o I[r]
    BY Walks
  <2>3. P[l] \in Seq(D) /\ P[r] \in Seq(D) /\ I[l] \in Seq(D) /\ I[r] \in Seq(D)
    BY <1>2 DEF Walked
  <2>4. <<n>> \in Seq(D) /\ ToSet(<<n>>) = {n} /\ Len(<<n>>) = 1
    BY <2>1 DEF ToSet
  <2>5. /\ Len(P[l]) = Len(I[l]) /\ Len(P[r]) = Len(I[r])
        /\ ToSet(I[l]) = Under(t, l) /\ ToSet(I[r]) = Under(t, r)
        /\ ToSet(P[l]) = Under(t, l) /\ ToSet(P[r]) = Under(t, r)
    BY <1>2 DEF Walked, Under
  <2>a. /\ l \in Under(t, l) /\ r \in Under(t, r)
        /\ \A x \in Under(t, l) : R[x] <= R[l]
        /\ \A x \in Under(t, r) : R[x] <= R[r]
    BY <1>2 DEF Walked
  <2>b. /\ \A m \in t.kids : m[1] \in Under(t, l) => m[2] \in Under(t, l) /\ m[3] \in Under(t, l)
        /\ \A m \in t.kids : m[1] \in Under(t, r) => m[2] \in Under(t, r) /\ m[3] \in Under(t, r)
    BY <1>2 DEF Walked
  <2>c. /\ \A x \in Under(t, l) : x # l =>
             \E m \in t.kids : m[1] \in Under(t, l) /\ x \in {m[2], m[3]}
        /\ \A x \in Under(t, r) : x # r =>
             \E m \in t.kids : m[1] \in Under(t, r) /\ x \in {m[2], m[3]}
    BY <1>2 DEF Walked
  <2>d. \A m \in t.kids : m[1] = n => m = k
    BY DEF Full
  <2> DEFINE one == <<n>>
  <2> HIDE DEF P, I, D, R, one
  <2>e. one \in Seq(D) /\ ToSet(one) = {n} /\ Len(one) = 1
    BY <2>4 DEF one
  <2>f. P[n] = one \o P[l] \o P[r] /\ I[n] = I[l] \o one \o I[r]
    BY <2>2 DEF one
  <2>g. Len(P[l]) \in Nat /\ Len(P[r]) \in Nat
    BY <2>3, SetOf
  <2>6. /\ P[n] \in Seq(D) /\ ToSet(P[n]) = {n} \cup Under(t, l) \cup Under(t, r)
        /\ Len(P[n]) = 1 + Len(P[l]) + Len(P[r])
    <3> HIDE DEF n, l, r
    <3>1. /\ P[n] \in Seq(D) /\ ToSet(P[n]) = ToSet(one) \cup ToSet(P[l]) \cup ToSet(P[r])
          /\ Len(P[n]) = Len(one) + Len(P[l]) + Len(P[r])
      <4>1. one \in Seq(D) /\ P[l] \in Seq(D) /\ P[r] \in Seq(D)
        BY <2>3, <2>e
      <4>2. InOrderOf(D, one, P[l], P[r], one \o P[l] \o P[r])
        BY <4>1, JoinedThree
      <4> QED
        BY <2>f, <4>2 DEF InOrderOf
    <3> QED
      BY <2>5, <2>e, <3>1
  <2>7. /\ I[n] \in Seq(D) /\ ToSet(I[n]) = {n} \cup Under(t, l) \cup Under(t, r)
        /\ Len(I[n]) = 1 + Len(P[l]) + Len(P[r])
    <3> HIDE DEF n, l, r
    <3>1. /\ I[n] \in Seq(D) /\ ToSet(I[n]) = ToSet(I[l]) \cup ToSet(one) \cup ToSet(I[r])
          /\ Len(I[n]) = Len(I[l]) + Len(one) + Len(I[r])
      <4>1. I[l] \in Seq(D) /\ one \in Seq(D) /\ I[r] \in Seq(D)
        BY <2>3, <2>e
      <4>2. InOrderOf(D, I[l], one, I[r], I[l] \o one \o I[r])
        BY <4>1, JoinedThree
      <4> QED
        BY <2>f, <4>2 DEF InOrderOf
    <3>2. Len(I[n]) = 1 + Len(P[l]) + Len(P[r])
      <4>1. Len(I[n]) = Len(P[l]) + 1 + Len(P[r])
        BY <2>5, <2>e, <3>1
      <4>2. ASSUME NEW x \in Nat, NEW y \in Nat PROVE x + 1 + y = 1 + x + y
        OBVIOUS
      <4> HIDE DEF l, r
      <4>3. Len(P[l]) + 1 + Len(P[r]) = 1 + Len(P[l]) + Len(P[r])
        BY <2>g, <4>2
      <4> QED
        BY <4>1, <4>3
    <3>3. ToSet(I[n]) = Under(t, l) \cup {n} \cup Under(t, r)
      BY <2>5, <2>e, <3>1
    <3> QED
      BY <3>1, <3>2, <3>3
  <2>8. Under(t, n) = {n} \cup Under(t, l) \cup Under(t, r)
    BY <2>6 DEF Under, P
  <2>9. \A x \in Under(t, n) : R[x] <= R[n]
    <3>1. Under(t, l) \subseteq D /\ Under(t, r) \subseteq D
      BY <2>3, <2>5, SetOf
    <3> HIDE DEF n, l, r
    <3> QED
      BY <2>1, <2>8, <2>a, <3>1
  <2>10. ASSUME NEW m \in t.kids, m[1] \in Under(t, n)
         PROVE  m[2] \in Under(t, n) /\ m[3] \in Under(t, n)
    BY <2>8, <2>10, <2>a, <2>b, <2>d
  <2>11. ASSUME NEW x \in Under(t, n), x # n
         PROVE  \E m \in t.kids : m[1] \in Under(t, n) /\ x \in {m[2], m[3]}
    <3>1. CASE x \in {l, r}
      BY <2>8, <3>1
    <3>2. CASE x \notin {l, r}
      BY <2>8, <2>11, <2>c, <3>2
    <3> QED
      BY <3>1, <3>2
  <2>12. Len(P[n]) = Len(I[n]) /\ ToSet(I[n]) = Under(t, n) /\ n \in Under(t, n)
    BY <2>6, <2>7, <2>8
  <2> HIDE DEF n
  <2>13. Walked(t, n)
    BY <2>6, <2>7, <2>9, <2>10, <2>11, <2>12 DEF Walked, P, I, D, R
  <2> QED
    BY <2>13 DEF n
<1> DEFINE X == {n \in NodesOf(t) : Walked(t, n)}
<1>3. X = NodesOf(t)
  <2>1. \A n \in NodesOf(t) \ Inner(t) : n \in X
    BY <1>1
  <2>2. \A k \in t.kids : k[2] \in X /\ k[3] \in X => k[1] \in X
    BY <1>2, ChildOf
  <2>3. X \in SUBSET NodesOf(t)
    OBVIOUS
  <2> HIDE DEF X
  <2> QED
    BY <2>1, <2>2, <2>3, Upwards
<1> QED
  BY <1>3

\* Of two parts of a tree with a common node, one has the root of the other:
\* the highest common node is a root, for the only parent of any other is in
\* both parts and higher.
LEMMA Nested ==
  ASSUME NEW t, Full(t), NEW a \in NodesOf(t), NEW b \in NodesOf(t),
         Under(t, a) \cap Under(t, b) # {}
  PROVE  a \in Under(t, b) \/ b \in Under(t, a)
<1> DEFINE X == Under(t, a) \cap Under(t, b)
           Gaps == {Height(t) - Rank(t)[x] : x \in X}
<1>1. Walked(t, a) /\ Walked(t, b)
  BY WalkedAll
<1>2. X \subseteq NodesOf(t)
  <2>1. Under(t, a) \subseteq NodesOf(t)
    BY <1>1, SetOf DEF Walked, Under
  <2> QED
    BY <2>1
<1>3. \A x \in X : /\ Rank(t)[x] \in Nat /\ Height(t) - Rank(t)[x] \in Nat
                   /\ Height(t) \in Nat
  BY <1>2, NodeRank
<1>4. Gaps \in SUBSET Nat /\ Gaps # {}
  BY <1>3
<1>5. PICK x \in X : \A y \in X : Rank(t)[y] <= Rank(t)[x]
  <2> HIDE DEF X
  <2>1. PICK d \in Gaps : \A e \in Gaps : d <= e
    <3> HIDE DEF Gaps
    <3> QED
      BY <1>4, Least
  <2>2. PICK x \in X : d = Height(t) - Rank(t)[x]
    BY <2>1
  <2>3. \A y \in X : Height(t) - Rank(t)[x] <= Height(t) - Rank(t)[y]
    BY <2>1, <2>2
  <2> QED
    BY <1>3, <2>2, <2>3
<1> SUFFICES ASSUME x # a, x # b PROVE FALSE
  BY <1>5
<1>6. PICK k \in t.kids : k[1] \in Under(t, a) /\ x \in {k[2], k[3]}
  BY <1>1, <1>5 DEF Walked
<1>7. PICK m \in t.kids : m[1] \in Under(t, b) /\ x \in {m[2], m[3]}
  BY <1>1, <1>5 DEF Walked
<1>8. k = m
  BY <1>6, <1>7 DEF Full
<1>9. k[1] \in X /\ Rank(t)[x] < Rank(t)[k[1]]
  BY <1>6, <1>7, <1>8, ChildOf
<1>10. Rank(t)[k[1]] <= Rank(t)[x]
  BY <1>5, <1>9
<1>11. Rank(t)[k[1]] \in Nat /\ Rank(t)[x] \in Nat
  BY <1>3, <1>9
<1> HIDE DEF X
<1> QED
  BY <1>9, <1>10, <1>11

\* The parts below two siblings, and their parent, are apart.
LEMMA Apart ==
  ASSUME NEW t, Full(t), NEW k \in t.kids
  PROVE  /\ Under(t, k[2]) \cap Under(t, k[3]) = {}
         /\ k[1] \notin Under(t, k[2]) /\ k[1] \notin Under(t, k[3])
         /\ Under(t, k[1]) = {k[1]} \cup Under(t, k[2]) \cup Under(t, k[3])
<1>1. /\ k[1] \in NodesOf(t) /\ k[2] \in NodesOf(t) /\ k[3] \in NodesOf(t)
      /\ Rank(t)[k[2]] < Rank(t)[k[1]] /\ Rank(t)[k[3]] < Rank(t)[k[1]] /\ k[2] # k[3]
  BY ChildOf DEF Full
<1>2. Rank(t)[k[1]] \in Nat /\ Rank(t)[k[2]] \in Nat /\ Rank(t)[k[3]] \in Nat
  BY <1>1, NodeRank
<1>3. Walked(t, k[2]) /\ Walked(t, k[3])
  BY <1>1, WalkedAll
<1>4. k[1] \notin Under(t, k[2]) /\ k[1] \notin Under(t, k[3])
  BY <1>1, <1>2, <1>3 DEF Walked
<1>5. ASSUME NEW a \in {k[2], k[3]}, NEW b \in {k[2], k[3]}, a # b, a \in Under(t, b)
      PROVE  FALSE
  <2>1. PICK m \in t.kids : m[1] \in Under(t, b) /\ a \in {m[2], m[3]}
    BY <1>3, <1>5 DEF Walked
  <2>2. m = k
    BY <1>5, <2>1 DEF Full
  <2> QED
    BY <1>4, <1>5, <2>1, <2>2
<1>6. Under(t, k[2]) \cap Under(t, k[3]) = {}
  BY <1>1, <1>5, Nested
<1>7. Under(t, k[1]) = {k[1]} \cup Under(t, k[2]) \cup Under(t, k[3])
  <2> DEFINE one == <<k[1]>>
             l == PreWalk(t)[k[2]]
             r == PreWalk(t)[k[3]]
  <2>1. PreWalk(t)[k[1]] = one \o l \o r
    BY Walks
  <2>2. one \in Seq(NodesOf(t)) /\ ToSet(one) = {k[1]}
    BY <1>1 DEF ToSet
  <2>3. l \in Seq(NodesOf(t)) /\ r \in Seq(NodesOf(t))
    BY <1>3 DEF Walked
  <2>4. ToSet(l) = Under(t, k[2]) /\ ToSet(r) = Under(t, k[3])
    BY DEF Under
  <2> HIDE DEF one, l, r
  <2>5. ToSet(one \o l \o r) = ToSet(one) \cup ToSet(l) \cup ToSet(r)
    <3>1. InOrderOf(NodesOf(t), one, l, r, one \o l \o r)
      BY <2>2, <2>3, JoinedThree
    <3> QED
      BY <3>1 DEF InOrderOf
  <2> QED
    BY <2>1, <2>2, <2>4, <2>5 DEF Under
<1> QED
  BY <1>4, <1>6, <1>7

\* No node is listed twice.
LEMMA NoneTwice ==
  ASSUME NEW t, Full(t)
  PROVE  \A n \in NodesOf(t) : IsInjective(PreWalk(t)[n]) /\ IsInjective(InWalk(t)[n])
<1> DEFINE Once(n) == IsInjective(PreWalk(t)[n]) /\ IsInjective(InWalk(t)[n])
<1>1. ASSUME NEW n \in NodesOf(t), n \notin Inner(t) PROVE Once(n)
  <2>1. PreWalk(t)[n] = <<n>> /\ InWalk(t)[n] = <<n>>
    BY <1>1, Walks
  <2>2. IsInjective(<<n>>)
    BY DEF IsInjective
  <2> QED
    BY <2>1, <2>2
<1>2. ASSUME NEW k \in t.kids, Once(k[2]), Once(k[3]) PROVE Once(k[1])
  <2> DEFINE one == <<k[1]>>
             lp == PreWalk(t)[k[2]]
             rp == PreWalk(t)[k[3]]
             li == InWalk(t)[k[2]]
             ri == InWalk(t)[k[3]]
             D == NodesOf(t)
  <2>1. PreWalk(t)[k[1]] = one \o lp \o rp /\ InWalk(t)[k[1]] = li \o one \o ri
    BY Walks
  <2>2. one \in Seq(D) /\ ToSet(one) = {k[1]} /\ IsInjective(one)
    BY ChildOf DEF ToSet, IsInjective
  <2>3. Walked(t, k[2]) /\ Walked(t, k[3])
    BY ChildOf, WalkedAll
  <2>4. /\ lp \in Seq(D) /\ rp \in Seq(D) /\ li \in Seq(D) /\ ri \in Seq(D)
        /\ ToSet(lp) = Under(t, k[2]) /\ ToSet(rp) = Under(t, k[3])
        /\ ToSet(li) = Under(t, k[2]) /\ ToSet(ri) = Under(t, k[3])
        /\ IsInjective(lp) /\ IsInjective(rp) /\ IsInjective(li) /\ IsInjective(ri)
    BY <1>2, <2>3 DEF Walked, Under
  <2>5. /\ Under(t, k[2]) \cap Under(t, k[3]) = {}
        /\ k[1] \notin Under(t, k[2]) /\ k[1] \notin Under(t, k[3])
    BY Apart
  <2> HIDE DEF one, lp, rp, li, ri, D
  <2>6. /\ one \o lp \in Seq(D) /\ IsInjective(one \o lp)
        /\ ToSet(one \o lp) = {k[1]} \cup Under(t, k[2])
    <3>1. ToSet(one) \cap ToSet(lp) = {}
      BY <2>2, <2>4, <2>5
    <3>2. IsInjective(one \o lp)
      BY <2>2, <2>4, <3>1, JoinedInjective
    <3>3. one \o lp \in Seq(D) /\ ToSet(one \o lp) = ToSet(one) \cup ToSet(lp)
      BY <2>2, <2>4, JoinedSet
    <3> QED
      BY <2>2, <2>4, <3>2, <3>3
  <2>7. /\ li \o one \in Seq(D) /\ IsInjective(li \o one)
        /\ ToSet(li \o one) = {k[1]} \cup Under(t, k[2])
    <3>1. ToSet(li) \cap ToSet(one) = {}
      BY <2>2, <2>4, <2>5
    <3>2. IsInjective(li \o one)
      BY <2>2, <2>4, <3>1, JoinedInjective
    <3>3. li \o one \in Seq(D) /\ ToSet(li \o one) = ToSet(li) \cup ToSet(one)
      BY <2>2, <2>4, JoinedSet
    <3> QED
      BY <2>2, <2>4, <3>2, <3>3
  <2>8. IsInjective(one \o lp \o rp)
    <3> DEFINE a == one \o lp
    <3>1. a \in Seq(D) /\ IsInjective(a) /\ ToSet(a) \cap ToSet(rp) = {}
      BY <2>4, <2>5, <2>6
    <3> HIDE DEF a
    <3>2. IsInjective(a \o rp)
      BY <2>4, <3>1, JoinedInjective
    <3> QED
      BY <3>2 DEF a
  <2>9. IsInjective(li \o one \o ri)
    <3> DEFINE a == li \o one
    <3>1. a \in Seq(D) /\ IsInjective(a) /\ ToSet(a) \cap ToSet(ri) = {}
      BY <2>4, <2>5, <2>7
    <3> HIDE DEF a
    <3>2. IsInjective(a \o ri)
      BY <2>4, <3>1, JoinedInjective
    <3> QED
      BY <3>2 DEF a
  <2> QED
    BY <2>1, <2>8, <2>9
<1> DEFINE X == {n \in NodesOf(t) : Once(n)}
<1>3. X = NodesOf(t)
  <2> HIDE DEF Once
  <2>1. \A n \in NodesOf(t) \ Inner(t) : n \in X
    BY <1>1
  <2>2. \A k \in t.kids : k[2] \in X /\ k[3] \in X => k[1] \in X
    BY <1>2, ChildOf
  <2>3. X \in SUBSET NodesOf(t)
    OBVIOUS
  <2> HIDE DEF X
  <2> QED
    BY <2>1, <2>2, <2>3, Upwards
<1> HIDE DEF Once
<1>4. \A n \in NodesOf(t) : Once(n)
  BY <1>3
<1> QED
  BY <1>4 DEF Once

\* The walks from the root list every node.
LEMMA WalksAll ==
  ASSUME NEW t, Full(t)
  PROVE  Under(t, t.root) = NodesOf(t)
<1>1. t.root \in NodesOf(t)
  BY DEF NodesOf
<1>2. Walked(t, t.root)
  BY <1>1, WalkedAll
<1>3. Under(t, t.root) \in SUBSET NodesOf(t)
  BY <1>2, SetOf DEF Walked, Under
<1>4. t.root \in Under(t, t.root)
      /\ \A k \in t.kids : k[1] \in Under(t, t.root) =>
           k[2] \in Under(t, t.root) /\ k[3] \in Under(t, t.root)
  BY <1>2 DEF Walked
<1> QED
  BY <1>3, <1>4, Downwards

----------------------------------------------------------------------------
(* Rebuilding a tree *)

Parts(pre, mid) ==
  {x \in (1..Len(pre)) \X (1..Len(mid)) \X (0..Len(mid)) : x[1] + x[3] - x[2] <= Len(pre)}

\* Where the root of a part stands in the second traversal.
Split(pre, mid, x) == CHOOSE i \in x[2]..x[3] : mid[i] = pre[x[1]]

LeftPart(pre, mid, f, x) ==
  IF Split(pre, mid, x) > x[2] THEN f[<<x[1] + 1, x[2], Split(pre, mid, x) - 1>>] ELSE NoTree

RightPart(pre, mid, f, x) ==
  IF Split(pre, mid, x) < x[3]
    THEN f[<<x[1] + 1 + Split(pre, mid, x) - x[2], Split(pre, mid, x) + 1, x[3]>>] ELSE NoTree

PartBody(pre, mid, f) ==
  [x \in Parts(pre, mid) |->
     IF \E i \in x[2]..x[3] : mid[i] = pre[x[1]]
       THEN [root |-> pre[x[1]],
             kids |-> LeftPart(pre, mid, f, x).kids \cup RightPart(pre, mid, f, x).kids \cup
                      (IF x[2] = x[3] THEN {}
                       ELSE {<<pre[x[1]], LeftPart(pre, mid, f, x).root,
                               RightPart(pre, mid, f, x).root>>})]
       ELSE NoTree]

Part(pre, mid) == CHOOSE f : f = PartBody(pre, mid, f)

LEMMA BuildMeans ==
  ASSUME NEW pre, NEW mid
  PROVE  Build(pre, mid) = Part(pre, mid)[<<1, 1, Len(mid)>>]
BY DEF Build, Part, PartBody, LeftPart, RightPart, Split, Parts

\* The parts a part is built from are shorter.
LEMMA Shorter ==
  ASSUME NEW pre \in Seq(Nat), NEW mid \in Seq(Nat), NEW x \in Parts(pre, mid),
         \E i \in x[2]..x[3] : mid[i] = pre[x[1]]
  PROVE  LET s == Split(pre, mid, x)
         IN  /\ s \in x[2]..x[3] /\ mid[s] = pre[x[1]]
             /\ s > x[2] => /\ <<x[1] + 1, x[2], s - 1>> \in Parts(pre, mid)
                            /\ (s - 1) - x[2] < x[3] - x[2]
             /\ s < x[3] => /\ <<x[1] + 1 + s - x[2], s + 1, x[3]>> \in Parts(pre, mid)
                            /\ x[3] - (s + 1) < x[3] - x[2]
<1> DEFINE p == x[1]
           lo == x[2]
           hi == x[3]
           s == Split(pre, mid, x)
           M == Len(pre)
           N == Len(mid)
<1>1. p \in 1..M /\ lo \in 1..N /\ hi \in 0..N /\ p + hi - lo <= M /\ M \in Nat /\ N \in Nat
  <2>1. M \in Nat /\ N \in Nat
    OBVIOUS
  <2>2. p \in 1..M /\ lo \in 1..N /\ hi \in 0..N
    BY DEF Parts
  <2>3. p + hi - lo <= M
    BY DEF Parts
  <2> QED
    BY <2>1, <2>2, <2>3
<1>2. s \in lo..hi /\ mid[s] = pre[p]
  BY DEF Split
<1>3. ASSUME NEW a \in 1..M, NEW b \in 1..N, NEW c \in 0..N, a + c - b <= M
      PROVE  <<a, b, c>> \in Parts(pre, mid)
  BY <1>3 DEF Parts
<1> HIDE DEF p, lo, hi, s, M, N
<1>a. /\ p \in Nat /\ lo \in Nat /\ hi \in Nat /\ s \in Nat /\ M \in Nat /\ N \in Nat
      /\ 1 <= p /\ p <= M /\ 1 <= lo /\ lo <= N /\ hi <= N /\ p + hi - lo <= M
      /\ lo <= s /\ s <= hi
  <2>1. s \in lo..hi
    BY <1>2
  <2> QED
    BY <1>1, <2>1
<1>4. ASSUME s > lo
      PROVE  <<p + 1, lo, s - 1>> \in Parts(pre, mid) /\ (s - 1) - lo < hi - lo
  <2>1. p + 1 \in 1..M /\ s - 1 \in 0..N /\ (p + 1) + (s - 1) - lo <= M /\ (s - 1) - lo < hi - lo
    BY <1>a, <1>4
  <2> QED
    BY <1>a, <1>3, <2>1
<1>5. ASSUME s < hi
      PROVE  <<p + 1 + s - lo, s + 1, hi>> \in Parts(pre, mid) /\ hi - (s + 1) < hi - lo
  <2>1. /\ p + 1 + s - lo \in 1..M /\ s + 1 \in 1..N
        /\ (p + 1 + s - lo) + hi - (s + 1) <= M /\ hi - (s + 1) < hi - lo
    BY <1>a, <1>5
  <2> QED
    BY <1>a, <1>3, <2>1
<1> QED
  BY <1>2, <1>4, <1>5 DEF p, lo, hi, s

\* The parts are defined.
LEMMA PartDefined ==
  ASSUME NEW pre \in Seq(Nat), NEW mid \in Seq(Nat)
  PROVE  Part(pre, mid) = PartBody(pre, mid, Part(pre, mid))
<1> DEFINE D == Parts(pre, mid)
           V == [root : Nat, kids : SUBSET (Nat \X Nat \X Nat)]
           N == Len(mid)
           rank == [x \in D |-> IF x[3] >= x[2] THEN x[3] - x[2] + 1 ELSE 0]
           step == [x \in D |-> [f \in [D -> V] |-> PartBody(pre, mid, f)[x]]]
<1>1. NoTree \in V /\ N \in Nat
  BY SymbolsAssumption DEF NoTree, None
<1>2. rank \in [D -> 0..N]
  <2>1. ASSUME NEW x \in D
        PROVE  (IF x[3] >= x[2] THEN x[3] - x[2] + 1 ELSE 0) \in 0..N
    <3>1. x[2] \in 1..N /\ x[3] \in 0..N /\ N \in Nat
      BY DEF Parts
    <3> HIDE DEF N, D
    <3> QED
      BY <3>1
  <2> QED
    BY <2>1
<1>3. ASSUME NEW x \in D, NEW f \in [D -> V],
             \E i \in x[2]..x[3] : mid[i] = pre[x[1]]
      PROVE  LeftPart(pre, mid, f, x) \in V /\ RightPart(pre, mid, f, x) \in V
  <2>1. LeftPart(pre, mid, f, x) \in V
    <3> HIDE DEF V
    <3> QED
      BY <1>1, <1>3, Shorter DEF LeftPart
  <2>2. RightPart(pre, mid, f, x) \in V
    <3> HIDE DEF V
    <3> QED
      BY <1>1, <1>3, Shorter DEF RightPart
  <2> QED
    BY <2>1, <2>2
<1>4. ASSUME NEW x \in D, NEW f \in [D -> V] PROVE PartBody(pre, mid, f)[x] \in V
  <2>1. CASE \E i \in x[2]..x[3] : mid[i] = pre[x[1]]
    <3> DEFINE l == LeftPart(pre, mid, f, x)
               r == RightPart(pre, mid, f, x)
    <3>1. l \in V /\ r \in V
      BY <1>3, <2>1
    <3>2. PartBody(pre, mid, f)[x] =
            [root |-> pre[x[1]],
             kids |-> l.kids \cup r.kids \cup
                      (IF x[2] = x[3] THEN {} ELSE {<<pre[x[1]], l.root, r.root>>})]
      BY <2>1 DEF PartBody
    <3>3. pre[x[1]] \in Nat
      BY DEF Parts
    <3> HIDE DEF l, r, D
    <3> QED
      BY <3>1, <3>2, <3>3
  <2>2. CASE ~ \E i \in x[2]..x[3] : mid[i] = pre[x[1]]
    <3>1. PartBody(pre, mid, f)[x] = NoTree
      BY <2>2 DEF PartBody
    <3> QED
      BY <1>1, <3>1
  <2> QED
    BY <2>1, <2>2
<1>5. step \in [D -> [[D -> V] -> V]]
  <2> HIDE DEF D, V
  <2> QED
    BY <1>4
<1>6. \A x \in D : \A f \in [D -> V] : step[x][f] = PartBody(pre, mid, f)[x]
  <2> HIDE DEF D, V
  <2> QED
    OBVIOUS
<1>7. ASSUME NEW x \in D, NEW f \in [D -> V], NEW g \in [D -> V],
             \A y \in D : rank[y] < rank[x] => f[y] = g[y]
      PROVE  step[x][f] = step[x][g]
  <2>1. CASE \E i \in x[2]..x[3] : mid[i] = pre[x[1]]
    <3> DEFINE s == Split(pre, mid, x)
    <3>1. /\ s \in x[2]..x[3]
          /\ s > x[2] => /\ <<x[1] + 1, x[2], s - 1>> \in D
                         /\ (s - 1) - x[2] < x[3] - x[2]
          /\ s < x[3] => /\ <<x[1] + 1 + s - x[2], s + 1, x[3]>> \in D
                         /\ x[3] - (s + 1) < x[3] - x[2]
      BY <2>1, Shorter
    <3>2. x[1] \in Nat /\ x[2] \in Nat /\ x[3] \in Nat
      BY DEF Parts
    <3>3. \A y \in D : rank[y] = IF y[3] >= y[2] THEN y[3] - y[2] + 1 ELSE 0
      OBVIOUS
    <3> HIDE DEF s, D, V, rank, step
    <3>4. s > x[2] => f[<<x[1] + 1, x[2], s - 1>>] = g[<<x[1] + 1, x[2], s - 1>>]
      <4> SUFFICES ASSUME s > x[2]
                   PROVE  rank[<<x[1] + 1, x[2], s - 1>>] < rank[x]
        BY <1>7, <3>1
      <4> DEFINE y == <<x[1] + 1, x[2], s - 1>>
      <4>1. y \in D /\ y[2] = x[2] /\ y[3] = s - 1
        BY <3>1
      <4> HIDE DEF y
      <4>2. rank[y] = IF y[3] >= y[2] THEN y[3] - y[2] + 1 ELSE 0
        BY <3>3, <4>1
      <4>3. rank[x] = IF x[3] >= x[2] THEN x[3] - x[2] + 1 ELSE 0
        BY <3>3
      <4>4. rank[y] < rank[x]
        BY <3>1, <3>2, <4>1, <4>2, <4>3
      <4> QED
        BY <4>4 DEF y
    <3>5. s < x[3] => f[<<x[1] + 1 + s - x[2], s + 1, x[3]>>]
                        = g[<<x[1] + 1 + s - x[2], s + 1, x[3]>>]
      <4> SUFFICES ASSUME s < x[3]
                   PROVE  rank[<<x[1] + 1 + s - x[2], s + 1, x[3]>>] < rank[x]
        BY <1>7, <3>1
      <4> DEFINE y == <<x[1] + 1 + s - x[2], s + 1, x[3]>>
      <4>1. y \in D /\ y[2] = s + 1 /\ y[3] = x[3]
        BY <3>1
      <4> HIDE DEF y
      <4>2. rank[y] = IF y[3] >= y[2] THEN y[3] - y[2] + 1 ELSE 0
        BY <3>3, <4>1
      <4>3. rank[x] = IF x[3] >= x[2] THEN x[3] - x[2] + 1 ELSE 0
        BY <3>3
      <4>4. rank[y] < rank[x]
        BY <3>1, <3>2, <4>1, <4>2, <4>3
      <4> QED
        BY <4>4 DEF y
    <3>6. /\ LeftPart(pre, mid, f, x) = LeftPart(pre, mid, g, x)
          /\ RightPart(pre, mid, f, x) = RightPart(pre, mid, g, x)
      BY <3>4, <3>5 DEF LeftPart, RightPart, s
    <3>7. PartBody(pre, mid, f)[x] = PartBody(pre, mid, g)[x]
      BY <3>6 DEF PartBody, D
    <3> QED
      BY <1>6, <3>7
  <2>2. CASE ~ \E i \in x[2]..x[3] : mid[i] = pre[x[1]]
    <3>1. PartBody(pre, mid, f)[x] = NoTree /\ PartBody(pre, mid, g)[x] = NoTree
      BY <2>2 DEF PartBody
    <3> HIDE DEF step, D, V
    <3> QED
      BY <1>6, <3>1
  <2> QED
    BY <2>1, <2>2
<1>8. RankRecursive(D, V, step)
  <2> DEFINE v == NoTree
  <2>1. v \in V
    BY <1>1
  <2> HIDE DEF D, V, N, rank, step, v
  <2> QED
    BY <1>1, <1>2, <1>5, <1>7, <2>1, RankRecursion
<1>9. PICK f \in [D -> V] : \A x \in D : f[x] = PartBody(pre, mid, f)[x]
  <2> HIDE DEF D, V, step
  <2> QED
    BY <1>6, <1>8 DEF RankRecursive
<1>10. f = PartBody(pre, mid, f)
  <2>1. f = [x \in D |-> f[x]]
    OBVIOUS
  <2>2. PartBody(pre, mid, f) = [x \in D |-> PartBody(pre, mid, f)[x]]
    BY DEF PartBody
  <2> HIDE DEF D, V
  <2> QED
    BY <1>9, <2>1, <2>2
<1> QED
  BY <1>10 DEF Part

\* The part of a tree below n, n included, as a tree.
Subtree(t, n) == [root |-> n, kids |-> {k \in t.kids : k[1] \in Under(t, n)}]

\* The traversals of the part below n stand at x in the lists.
Listed(t, pre, mid, n, x) ==
  /\ x[3] - x[2] + 1 = Len(PreWalk(t)[n])
  /\ \A j \in 1..Len(PreWalk(t)[n]) : /\ pre[x[1] + j - 1] = PreWalk(t)[n][j]
                                      /\ mid[x[2] + j - 1] = InWalk(t)[n][j]

\* Wherever they stand, they are made into that part again.
Rebuilt(t, pre, mid, n) ==
  \A x \in Parts(pre, mid) : Listed(t, pre, mid, n, x) => Part(pre, mid)[x] = Subtree(t, n)

\* What the walks P and I of an inner node list, place by place, if those of
\* its children have a and b places.
Places(k, P, I, a, b) ==
  /\ a \in Nat /\ b \in Nat /\ a >= 1 /\ b >= 1
  /\ Len(P[k[1]]) = a + b + 1
  /\ P[k[1]][1] = k[1] /\ I[k[1]][a + 1] = k[1]
  /\ \A j \in 1..a : P[k[1]][j + 1] = P[k[2]][j] /\ I[k[1]][j] = I[k[2]][j]
  /\ \A j \in 1..b : P[k[1]][j + a + 1] = P[k[3]][j] /\ I[k[1]][j + a + 1] = I[k[3]][j]

LEMMA WalkPlaces ==
  ASSUME NEW t, Full(t), NEW k \in t.kids
  PROVE  Places(k, PreWalk(t), InWalk(t), Len(PreWalk(t)[k[2]]), Len(PreWalk(t)[k[3]]))
<1> DEFINE D == NodesOf(t)
           one == <<k[1]>>
           p == PreWalk(t)[k[1]]
           lp == PreWalk(t)[k[2]]
           rp == PreWalk(t)[k[3]]
           i == InWalk(t)[k[1]]
           li == InWalk(t)[k[2]]
           ri == InWalk(t)[k[3]]
           a == Len(lp)
           b == Len(rp)
<1>1. Walked(t, k[2]) /\ Walked(t, k[3])
  BY ChildOf, WalkedAll
<1>2. /\ lp \in Seq(D) /\ rp \in Seq(D) /\ li \in Seq(D) /\ ri \in Seq(D)
      /\ Len(li) = a /\ Len(ri) = b
  BY <1>1 DEF Walked
<1>3. one \in Seq(D) /\ Len(one) = 1 /\ one[1] = k[1]
  BY ChildOf
<1>4. p = one \o lp \o rp /\ i = li \o one \o ri
  BY Walks
<1>5. a \in Nat /\ b \in Nat /\ a >= 1 /\ b >= 1
  <2>1. ToSet(lp) # {} /\ ToSet(rp) # {}
    BY <1>1 DEF Walked, Under
  <2> HIDE DEF lp, rp
  <2>2. ASSUME NEW s \in Seq(D), ToSet(s) # {} PROVE Len(s) \in Nat /\ Len(s) >= 1
    <3>1. DOMAIN s # {}
      BY <2>2 DEF ToSet
    <3> HIDE DEF D
    <3>2. Len(s) \in Nat /\ DOMAIN s = 1..Len(s)
      BY SetOf
    <3> QED
      BY <3>1, <3>2
  <2> HIDE DEF D
  <2> QED
    BY <1>2, <2>1, <2>2
<1> HIDE DEF D, one, lp, rp, li, ri
<1>6. /\ Len(p) = 1 + a + b
      /\ \A j \in 1..1 : p[j] = one[j]
      /\ \A j \in 1..a : p[1 + j] = lp[j]
      /\ \A j \in 1..b : p[1 + a + j] = rp[j]
  <2>1. /\ Len(one \o lp \o rp) = Len(one) + Len(lp) + Len(rp)
        /\ \A j \in 1..Len(one) : (one \o lp \o rp)[j] = one[j]
        /\ \A j \in 1..Len(lp) : (one \o lp \o rp)[Len(one) + j] = lp[j]
        /\ \A j \in 1..Len(rp) : (one \o lp \o rp)[Len(one) + Len(lp) + j] = rp[j]
    <3>1. one \in Seq(D) /\ lp \in Seq(D) /\ rp \in Seq(D)
      BY <1>2, <1>3
    <3>2. InOrderOf(D, one, lp, rp, one \o lp \o rp)
      BY <3>1, JoinedThree
    <3> QED
      BY <3>2 DEF InOrderOf
  <2> QED
    BY <1>3, <1>4, <2>1
<1>7. /\ \A j \in 1..a : i[j] = li[j]
      /\ \A j \in 1..1 : i[a + j] = one[j]
      /\ \A j \in 1..b : i[a + 1 + j] = ri[j]
  <2>1. /\ \A j \in 1..Len(li) : (li \o one \o ri)[j] = li[j]
        /\ \A j \in 1..Len(one) : (li \o one \o ri)[Len(li) + j] = one[j]
        /\ \A j \in 1..Len(ri) : (li \o one \o ri)[Len(li) + Len(one) + j] = ri[j]
    <3>1. one \in Seq(D) /\ li \in Seq(D) /\ ri \in Seq(D)
      BY <1>2, <1>3
    <3>2. InOrderOf(D, li, one, ri, li \o one \o ri)
      BY <3>1, JoinedThree
    <3> QED
      BY <3>2 DEF InOrderOf
  <2> QED
    BY <1>2, <1>3, <1>4, <2>1
<1> HIDE DEF p, i, a, b
<1>8. Len(p) = a + b + 1 /\ p[1] = k[1] /\ i[a + 1] = k[1]
  BY <1>3, <1>5, <1>6, <1>7
<1>9. ASSUME NEW j \in 1..a PROVE p[j + 1] = lp[j] /\ i[j] = li[j]
  <2>1. 1 + j = j + 1
    BY <1>5
  <2> QED
    BY <1>6, <1>7, <2>1
<1>10. ASSUME NEW j \in 1..b PROVE p[j + a + 1] = rp[j] /\ i[j + a + 1] = ri[j]
  <2>1. 1 + a + j = j + a + 1 /\ a + 1 + j = j + a + 1
    BY <1>5
  <2> QED
    BY <1>6, <1>7, <2>1
<1> QED
  BY <1>5, <1>8, <1>9, <1>10 DEF Places, p, i, lp, rp, li, ri, a, b

\* A listed leaf.
LEMMA RebuiltLeaf ==
  ASSUME NEW t, Full(t), NEW pre \in Seq(Nat), NEW mid \in Seq(Nat),
         NEW n \in NodesOf(t) \ Inner(t)
  PROVE  Rebuilt(t, pre, mid, n)
<1> SUFFICES ASSUME NEW x \in Parts(pre, mid), Listed(t, pre, mid, n, x)
             PROVE  Part(pre, mid)[x] = Subtree(t, n)
  BY DEF Rebuilt
<1>1. PreWalk(t)[n] = <<n>> /\ InWalk(t)[n] = <<n>>
  BY Walks
<1>2. x[1] \in Nat /\ x[2] \in Nat /\ x[3] \in Nat
  BY DEF Parts
<1>3. Len(<<n>>) = 1 /\ <<n>>[1] = n
  OBVIOUS
<1>4. x[3] - x[2] + 1 = 1 /\ pre[x[1] + 1 - 1] = n /\ mid[x[2] + 1 - 1] = n
  BY <1>1, <1>3 DEF Listed
<1>5. x[3] = x[2] /\ pre[x[1]] = n /\ mid[x[2]] = n
  <2>1. x[1] + 1 - 1 = x[1] /\ x[2] + 1 - 1 = x[2]
    BY <1>2
  <2>2. pre[x[1]] = n /\ mid[x[2]] = n
    BY <1>4, <2>1
  <2>3. x[3] - x[2] + 1 = 1
    BY <1>4
  <2>4. x[3] = x[2]
    BY <1>2, <2>3
  <2> QED
    BY <2>2, <2>4
<1>6. Split(pre, mid, x) = x[2]
  BY <1>2, <1>5 DEF Split
<1> DEFINE f == Part(pre, mid)
<1>7. f = PartBody(pre, mid, f)
  BY PartDefined
<1> HIDE DEF f
<1>8. LeftPart(pre, mid, f, x) = NoTree /\ RightPart(pre, mid, f, x) = NoTree
  BY <1>2, <1>5, <1>6 DEF LeftPart, RightPart
<1>9. \E i \in x[2]..x[3] : mid[i] = pre[x[1]]
  BY <1>2, <1>5
<1>10. PartBody(pre, mid, f)[x] = [root |-> n, kids |-> {} \cup {} \cup {}]
  <2>1. NoTree.kids = {}
    BY DEF NoTree
  <2> QED
    BY <1>5, <1>8, <1>9, <2>1 DEF PartBody
<1>11. Under(t, n) = {n}
  BY <1>1 DEF Under, ToSet
<1>12. {k \in t.kids : k[1] \in Under(t, n)} = {}
  BY <1>11 DEF Inner
<1>13. Subtree(t, n) = [root |-> n, kids |-> {}]
  BY <1>12 DEF Subtree
<1> QED
  BY <1>7, <1>10, <1>13 DEF f

\* A listed inner node, if the parts below its children are made again.
LEMMA RebuiltInner ==
  ASSUME NEW t, Full(t), NEW pre \in Seq(Nat), NEW mid \in Seq(Nat), NEW k \in t.kids,
         Rebuilt(t, pre, mid, k[2]), Rebuilt(t, pre, mid, k[3])
  PROVE  Rebuilt(t, pre, mid, k[1])
<1> SUFFICES ASSUME NEW x \in Parts(pre, mid), Listed(t, pre, mid, k[1], x)
             PROVE  Part(pre, mid)[x] = Subtree(t, k[1])
  BY DEF Rebuilt
<1> DEFINE n == k[1]
           l == k[2]
           r == k[3]
           P == PreWalk(t)
           I == InWalk(t)
           a == Len(P[l])
           b == Len(P[r])
           p == x[1]
           lo == x[2]
           hi == x[3]
<1>1. /\ a \in Nat /\ b \in Nat /\ a >= 1 /\ b >= 1 /\ Len(P[n]) = a + b + 1
      /\ P[n][1] = n /\ I[n][a + 1] = n
      /\ \A j \in 1..a : P[n][j + 1] = P[l][j] /\ I[n][j] = I[l][j]
      /\ \A j \in 1..b : P[n][j + a + 1] = P[r][j] /\ I[n][j + a + 1] = I[r][j]
  <2>1. Places(k, P, I, a, b)
    BY WalkPlaces
  <2> QED
    BY <2>1 DEF Places
<1>2. p \in Nat /\ lo \in Nat /\ hi \in Nat
  BY DEF Parts
<1>3. /\ hi - lo + 1 = Len(P[n])
      /\ \A j \in 1..Len(P[n]) : pre[p + j - 1] = P[n][j] /\ mid[lo + j - 1] = I[n][j]
  BY DEF Listed
<1> HIDE DEF n, l, r, P, I, a, b, p, lo, hi
<1>a. a \in Nat /\ b \in Nat /\ a >= 1 /\ b >= 1 /\ Len(P[n]) = a + b + 1
  BY <1>1
<1>4. hi = lo + a + b
  <2>1. hi - lo + 1 = a + b + 1
    BY <1>3, <1>a
  <2> QED
    BY <1>2, <1>a, <2>1
<1>5. pre[p] = n /\ mid[lo + a] = n
  <2>1. pre[p + 1 - 1] = P[n][1] /\ mid[lo + (a + 1) - 1] = I[n][a + 1]
    <3>1. 1 \in 1..Len(P[n]) /\ a + 1 \in 1..Len(P[n])
      BY <1>a
    <3> QED
      BY <1>3, <3>1
  <2>2. p + 1 - 1 = p /\ lo + (a + 1) - 1 = lo + a
    BY <1>1, <1>2
  <2> QED
    BY <1>1, <2>1, <2>2
<1>6. \A i \in lo..hi : mid[i] = n => i = lo + a
  <2> SUFFICES ASSUME NEW i \in lo..hi, mid[i] = n PROVE i = lo + a
    OBVIOUS
  <2>1. i - lo + 1 \in 1..Len(P[n]) /\ lo + (i - lo + 1) - 1 = i
    BY <1>a, <1>2, <1>4
  <2>2. I[n][i - lo + 1] = n
    BY <1>3, <2>1
  <2>3. IsInjective(I[n]) /\ DOMAIN I[n] = 1..Len(P[n])
    <3>1. n \in NodesOf(t)
      BY ChildOf DEF n
    <3>2. IsInjective(I[n]) /\ Walked(t, n)
      BY <3>1, NoneTwice, WalkedAll DEF I
    <3> QED
      BY <3>2, SetOf DEF Walked, I, P
  <2>4. a + 1 \in 1..Len(P[n])
    BY <1>a
  <2>5. i - lo + 1 = a + 1
    <3>1. I[n][i - lo + 1] = I[n][a + 1]
      BY <1>1, <2>2
    <3> QED
      BY <2>1, <2>3, <2>4, <3>1 DEF IsInjective
  <2>6. i \in Int /\ lo \in Int /\ a \in Int
    BY <1>2, <1>a
  <2> HIDE DEF a, lo
  <2> QED
    BY <2>5, <2>6
<1>7. lo + a \in lo..hi
  BY <1>a, <1>2, <1>4
<1>8. Split(pre, mid, x) = lo + a
  <2>1. Split(pre, mid, x) = CHOOSE i \in lo..hi : mid[i] = n
    BY <1>5 DEF Split, lo, hi, p
  <2> QED
    BY <1>5, <1>6, <1>7, <2>1
<1>9. \E i \in lo..hi : mid[i] = pre[p]
  BY <1>5, <1>7
<1>10. <<p + 1, lo, lo + a - 1>> \in Parts(pre, mid)
       /\ <<p + 1 + a, lo + a + 1, hi>> \in Parts(pre, mid)
  <2>1. lo + a > lo /\ lo + a < hi /\ p + 1 + (lo + a) - lo = p + 1 + a
    BY <1>a, <1>2, <1>4
  <2> DEFINE s == Split(pre, mid, x)
  <2>2. /\ s > lo => <<p + 1, lo, s - 1>> \in Parts(pre, mid)
        /\ s < hi => <<p + 1 + s - lo, s + 1, hi>> \in Parts(pre, mid)
    BY <1>9, Shorter DEF lo, hi, p
  <2> HIDE DEF s
  <2>3. s = lo + a
    BY <1>8 DEF s
  <2>4. s > lo /\ s < hi /\ p + 1 + s - lo = p + 1 + a
    BY <2>1, <2>3
  <2>5. s - 1 = lo + a - 1 /\ s + 1 = lo + a + 1
    BY <2>3, <1>a, <1>2
  <2>6. <<p + 1, lo, s - 1>> = <<p + 1, lo, lo + a - 1>>
        /\ <<p + 1 + s - lo, s + 1, hi>> = <<p + 1 + a, lo + a + 1, hi>>
    BY <2>4, <2>5
  <2> QED
    BY <2>2, <2>4, <2>6
<1> DEFINE f == Part(pre, mid)
           y == <<p + 1, lo, lo + a - 1>>
           z == <<p + 1 + a, lo + a + 1, hi>>
<1>11. f[y] = Subtree(t, l)
  <2>1. y[1] = p + 1 /\ y[2] = lo /\ y[3] = lo + a - 1
    OBVIOUS
  <2> HIDE DEF y
  <2>2. y[3] - y[2] + 1 = a
    BY <1>a, <1>2, <2>1
  <2>3. ASSUME NEW j \in 1..a PROVE pre[y[1] + j - 1] = P[l][j] /\ mid[y[2] + j - 1] = I[l][j]
    <3>a. j \in Nat /\ 1 <= j /\ j <= a
      BY <1>a
    <3>b. j + 1 \in 1..Len(P[n]) /\ j \in 1..Len(P[n])
      BY <1>a, <3>a
    <3>c. p + (j + 1) - 1 = p + 1 + j - 1
      BY <1>2, <3>a
    <3>1. /\ j + 1 \in 1..Len(P[n]) /\ j \in 1..Len(P[n])
          /\ p + (j + 1) - 1 = y[1] + j - 1 /\ lo + j - 1 = y[2] + j - 1
      BY <2>1, <3>b, <3>c
    <3> QED
      BY <1>1, <1>3, <3>1
  <2>4. Listed(t, pre, mid, l, y)
    BY <2>2, <2>3 DEF Listed, P, I, a
  <2> QED
    BY <1>10, <2>4 DEF Rebuilt, l, y
<1>12. f[z] = Subtree(t, r)
  <2>1. z[1] = p + 1 + a /\ z[2] = lo + a + 1 /\ z[3] = hi
    OBVIOUS
  <2> HIDE DEF z
  <2>2. z[3] - z[2] + 1 = b
    BY <1>a, <1>2, <1>4, <2>1
  <2>3. ASSUME NEW j \in 1..b PROVE pre[z[1] + j - 1] = P[r][j] /\ mid[z[2] + j - 1] = I[r][j]
    <3>a. j \in Nat /\ 1 <= j /\ j <= b
      BY <1>a
    <3>b. j + a + 1 \in 1..Len(P[n])
      BY <1>a, <3>a
    <3>c. p + (j + a + 1) - 1 = p + 1 + a + j - 1
      BY <1>a, <1>2, <3>a
    <3>d. lo + (j + a + 1) - 1 = lo + a + 1 + j - 1
      BY <1>a, <1>2, <3>a
    <3>1. /\ j + a + 1 \in 1..Len(P[n])
          /\ p + (j + a + 1) - 1 = z[1] + j - 1 /\ lo + (j + a + 1) - 1 = z[2] + j - 1
      BY <2>1, <3>b, <3>c, <3>d
    <3> QED
      BY <1>1, <1>3, <3>1
  <2>4. Listed(t, pre, mid, r, z)
    BY <2>2, <2>3 DEF Listed, P, I, b
  <2> QED
    BY <1>10, <2>4 DEF Rebuilt, r, z
<1>13. LeftPart(pre, mid, f, x) = f[y] /\ RightPart(pre, mid, f, x) = f[z]
  <2>1. lo + a > lo /\ lo + a < hi /\ p + 1 + (lo + a) - lo = p + 1 + a
    BY <1>a, <1>2, <1>4
  <2> DEFINE s == Split(pre, mid, x)
  <2>2. /\ LeftPart(pre, mid, f, x) = IF s > lo THEN f[<<p + 1, lo, s - 1>>] ELSE NoTree
        /\ RightPart(pre, mid, f, x) =
             IF s < hi THEN f[<<p + 1 + s - lo, s + 1, hi>>] ELSE NoTree
    BY DEF LeftPart, RightPart, lo, hi, p
  <2> HIDE DEF s, f
  <2>3. s = lo + a
    BY <1>8 DEF s
  <2>4. s > lo /\ s < hi /\ p + 1 + s - lo = p + 1 + a
    BY <2>1, <2>3
  <2>5. s - 1 = lo + a - 1 /\ s + 1 = lo + a + 1
    BY <2>3, <1>a, <1>2
  <2>6. <<p + 1, lo, s - 1>> = <<p + 1, lo, lo + a - 1>>
        /\ <<p + 1 + s - lo, s + 1, hi>> = <<p + 1 + a, lo + a + 1, hi>>
    BY <2>4, <2>5
  <2> QED
    BY <2>2, <2>4, <2>6
<1>14. f = PartBody(pre, mid, f)
  BY PartDefined
<1> HIDE DEF f, y, z
<1>15. PartBody(pre, mid, f)[x] =
         [root |-> n, kids |-> Subtree(t, l).kids \cup Subtree(t, r).kids \cup {<<n, l, r>>}]
  <2>1. PartBody(pre, mid, f)[x] =
          [root |-> pre[p],
           kids |-> LeftPart(pre, mid, f, x).kids \cup RightPart(pre, mid, f, x).kids \cup
                    (IF lo = hi THEN {}
                     ELSE {<<pre[p], LeftPart(pre, mid, f, x).root,
                             RightPart(pre, mid, f, x).root>>})]
    BY <1>9 DEF PartBody, p, lo, hi
  <2>2. lo # hi
    BY <1>a, <1>2, <1>4
  <2>3. Subtree(t, l).root = l /\ Subtree(t, r).root = r
    BY DEF Subtree
  <2> QED
    BY <1>5, <1>11, <1>12, <1>13, <2>1, <2>2, <2>3
<1>16. Subtree(t, l).kids \cup Subtree(t, r).kids \cup {<<n, l, r>>} = Subtree(t, n).kids
  <2>1. Under(t, n) = {n} \cup Under(t, l) \cup Under(t, r)
    BY Apart DEF n, l, r
  <2>2. \A m \in t.kids : m[1] = n => m = k
    BY DEF Full, n
  <2>3. k = <<n, l, r>>
    BY ChildOf DEF n, l, r
  <2> QED
    BY <2>1, <2>2, <2>3 DEF Subtree, n
<1>17. Subtree(t, n) = [root |-> n, kids |-> Subtree(t, n).kids]
  BY DEF Subtree
<1> QED
  BY <1>14, <1>15, <1>16, <1>17 DEF f, n

LEMMA RebuiltAll ==
  ASSUME NEW t, Full(t), NEW pre \in Seq(Nat), NEW mid \in Seq(Nat)
  PROVE  \A n \in NodesOf(t) : Rebuilt(t, pre, mid, n)
<1> DEFINE X == {n \in NodesOf(t) : Rebuilt(t, pre, mid, n)}
<1>1. \A n \in NodesOf(t) \ Inner(t) : n \in X
  BY RebuiltLeaf
<1>2. \A k \in t.kids : k[2] \in X /\ k[3] \in X => k[1] \in X
  BY RebuiltInner, ChildOf
<1>3. X = NodesOf(t)
  <2>1. X \in SUBSET NodesOf(t)
    OBVIOUS
  <2> HIDE DEF X
  <2> QED
    BY <1>1, <1>2, <2>1, Upwards
<1> QED
  BY <1>3

\* A sequence of M numbers without a repetition is no longer than M.
LEMMA NoLonger ==
  ASSUME NEW M \in Nat, NEW s \in Seq(0..(M - 1)), IsInjective(s)
  PROVE  Len(s) <= M
<1> DEFINE n == Len(s)
<1>1. n \in Nat /\ DOMAIN s = 1..n /\ s \in [1..n -> 0..(M - 1)]
  OBVIOUS
<1> HIDE DEF n
<1>2. IsFiniteSet(1..n) /\ Cardinality(1..n) = n
  BY <1>1, FS_Interval
<1>3. IsFiniteSet(0..(M - 1)) /\ Cardinality(0..(M - 1)) = M
  <2>1. /\ IsFiniteSet(0..(M - 1))
        /\ Cardinality(0..(M - 1)) = IF 0 > M - 1 THEN 0 ELSE (M - 1) - 0 + 1
    BY FS_Interval
  <2> QED
    BY <2>1
<1>4. ~(M < n)
  <2> SUFFICES ASSUME M < n PROVE FALSE
    OBVIOUS
  <2>1. \E x, y \in 1..n : x # y /\ s[x] = s[y]
    <3> DEFINE T == 0..(M - 1)
               R == 1..n
    <3>1. /\ IsFiniteSet(R) /\ IsFiniteSet(T) /\ Cardinality(T) < Cardinality(R)
          /\ s \in [R -> T]
      BY <1>1, <1>2, <1>3
    <3> HIDE DEF T, R
    <3>2. \E x, y \in R : x # y /\ s[x] = s[y]
      BY <3>1, FS_PigeonHole
    <3> QED
      BY <3>2 DEF R
  <2> QED
    BY <1>1, <2>1 DEF IsInjective
<1> QED
  BY <1>1, <1>4 DEF n

\* A tree comes back from its traversals.
LEMMA TreeBack ==
  ASSUME NEW t, Full(t)
  PROVE  /\ TreeFrom(Preorder(t), Inorder(t)) = t
         /\ Preorder(t) \in Seq(Nat) /\ Inorder(t) \in Seq(Nat)
         /\ Len(Inorder(t)) = Len(Preorder(t)) /\ Len(Preorder(t)) >= 1
<1> DEFINE pre == Preorder(t)
           mid == Inorder(t)
           M == 2 * Symbols - 1
           n == Len(pre)
           x == <<1, 1, n>>
           D == NodesOf(t)
<1>1. pre = PreWalk(t)[t.root] /\ mid = InWalk(t)[t.root] /\ t.root \in D
  BY WalkMeans DEF NodesOf
<1>2. /\ pre \in Seq(D) /\ mid \in Seq(D) /\ Len(pre) = Len(mid)
      /\ ToSet(pre) = D /\ ToSet(mid) = D
      /\ IsInjective(pre) /\ IsInjective(mid)
  BY <1>1, WalkedAll, WalksAll, NoneTwice DEF Walked, Under
<1>3. M \in Nat /\ t.root \in Nat
  BY <1>1, NodeRank, SymbolsAssumption
<1>4. D \subseteq 0..(M - 1)
  <2>1. ASSUME NEW m \in D PROVE m \in 0..(M - 1)
    <3>1. m \in Nat /\ m < M
      BY NodeRank
    <3> HIDE DEF M
    <3> QED
      BY <1>3, <3>1
  <2> QED
    BY <2>1
<1> HIDE DEF pre, mid, D, M
<1>5. pre \in Seq(0..(M - 1)) /\ mid \in Seq(0..(M - 1)) /\ pre \in Seq(Nat) /\ mid \in Seq(Nat)
  <2>1. ASSUME NEW A, NEW B, A \subseteq B, NEW s \in Seq(A) PROVE s \in Seq(B)
    BY <2>1
  <2>2. pre \in Seq(0..(M - 1)) /\ mid \in Seq(0..(M - 1))
    BY <1>2, <1>4, <2>1
  <2>3. 0..(M - 1) \subseteq Nat
    OBVIOUS
  <2> QED
    BY <2>1, <2>2, <2>3
<1>6. n \in Nat /\ n <= M
  BY <1>2, <1>3, <1>5, NoLonger
<1>7. n >= 1 /\ pre # << >>
  <2>1. DOMAIN pre # {} /\ DOMAIN pre = 1..n
    BY <1>1, <1>2 DEF ToSet
  <2> QED
    BY <1>2, <1>6, <2>1
<1>8. x \in Parts(pre, mid)
  BY <1>2, <1>6, <1>7 DEF Parts
<1>9. Listed(t, pre, mid, t.root, x)
  <2>1. x[1] = 1 /\ x[2] = 1 /\ x[3] = n
    OBVIOUS
  <2>2. x[3] - x[2] + 1 = n
    BY <1>6, <2>1
  <2>3. ASSUME NEW j \in 1..n PROVE x[1] + j - 1 = j /\ x[2] + j - 1 = j
    BY <1>6, <2>1
  <2> HIDE DEF x
  <2> QED
    BY <1>1, <2>2, <2>3 DEF Listed
<1>10. Build(pre, mid) = t
  <2>1. Build(pre, mid) = Part(pre, mid)[x]
    BY <1>2, BuildMeans
  <2>2. Rebuilt(t, pre, mid, t.root)
    BY <1>1, <1>5, RebuiltAll DEF D
  <2>3. Part(pre, mid)[x] = Subtree(t, t.root)
    BY <1>8, <1>9, <2>2 DEF Rebuilt
  <2>4. {k \in t.kids : k[1] \in Under(t, t.root)} = t.kids
    BY WalksAll, ChildOf
  <2>5. Subtree(t, t.root) = [root |-> t.root, kids |-> t.kids]
    BY <2>4 DEF Subtree
  <2> QED
    BY <2>1, <2>3, <2>5 DEF Full
<1>11. ValidTree(t)
  <2>1. t # NoTree
    BY NodeRank, <1>1 DEF NoTree, None, D
  <2>2. ASSUME NEW k \in t.kids PROVE None \notin {k[2], k[3]}
    BY ChildOf, NodeRank
  <2>3. \A m \in NodesOf(t) \ Inner(t) : m \in Byte
    BY NodeRank
  <2> QED
    BY <2>1, <2>2, <2>3 DEF ValidTree
<1>12. TreeFrom(pre, mid) = t
  BY <1>2, <1>6, <1>7, <1>10, <1>11 DEF TreeFrom, M
<1> QED
  BY <1>2, <1>5, <1>7, <1>12 DEF pre, mid

----------------------------------------------------------------------------
(* Coding *)

WayBody(t, f) ==
  [n \in NodesOf(t) |->
     IF n = t.root THEN << >>
     ELSE LET k == CHOOSE k \in t.kids : n \in {k[2], k[3]}
          IN  Append(f[k[1]], IF n = k[2] THEN 0 ELSE 1)]

\* The ways from the root that Codes makes.
Way(t) == CHOOSE f : f = WayBody(t, f)

LEMMA CodesMean ==
  ASSUME NEW t
  PROVE  Codes(t) = [b \in Byte |-> IF b \notin NodesOf(t) \ Inner(t) THEN << >>
                                    ELSE IF b = t.root THEN <<0>> ELSE Way(t)[b]]
BY DEF Codes, Way, WayBody

\* The parent of a node.
LEMMA ParentOf ==
  ASSUME NEW t, Full(t), NEW k \in t.kids, NEW n \in {k[2], k[3]}
  PROVE  /\ (CHOOSE m \in t.kids : n \in {m[2], m[3]}) = k
         /\ n \in NodesOf(t) /\ n # t.root /\ k[1] \in NodesOf(t)
         /\ Rank(t)[n] < Rank(t)[k[1]]
<1>1. \A m \in t.kids : n \in {m[2], m[3]} => m = k
  BY DEF Full
<1>2. n # t.root
  BY DEF Full
<1>3. n \in NodesOf(t) /\ k[1] \in NodesOf(t) /\ Rank(t)[n] < Rank(t)[k[1]]
  BY ChildOf
<1> QED
  BY <1>1, <1>2, <1>3

\* The ways are defined: a node's parent is above it.
LEMMA WayDefined ==
  ASSUME NEW t, Full(t)
  PROVE  Way(t) = WayBody(t, Way(t)) /\ Way(t) \in [NodesOf(t) -> Seq({0, 1})]
<1> DEFINE D == NodesOf(t)
           V == Seq({0, 1})
           N == Height(t)
           rank == [n \in D |-> N - Rank(t)[n]]
           step == [n \in D |-> [f \in [D -> V] |-> WayBody(t, f)[n]]]
           none == << >>
           parent(n) == (CHOOSE k \in t.kids : n \in {k[2], k[3]})[1]
           bit(n) == IF n = (CHOOSE k \in t.kids : n \in {k[2], k[3]})[2] THEN 0 ELSE 1
<1>1. none \in V /\ N \in Nat
  BY RankKnown
<1>2. rank \in [D -> 0..N]
  <2>1. ASSUME NEW n \in D PROVE N - Rank(t)[n] \in 0..N
    BY <1>1, NodeRank
  <2> QED
    BY <2>1
<1>3. ASSUME NEW n \in D, n # t.root
      PROVE  parent(n) \in D /\ rank[parent(n)] < rank[n]
  <2>1. PICK k \in t.kids : n \in {k[2], k[3]}
    BY <1>3, NodeRank
  <2>2. /\ (CHOOSE m \in t.kids : n \in {m[2], m[3]}) = k
        /\ k[1] \in D /\ Rank(t)[n] < Rank(t)[k[1]]
    BY <2>1, ParentOf
  <2>3. Rank(t)[k[1]] \in Nat /\ Rank(t)[n] \in Nat
    BY <2>2, NodeRank
  <2>4. parent(n) = k[1]
    BY <2>2
  <2> HIDE DEF parent
  <2> QED
    BY <1>1, <2>2, <2>3, <2>4
<1>4. ASSUME NEW n \in D, NEW f \in [D -> V]
      PROVE  WayBody(t, f)[n] = IF n = t.root THEN << >> ELSE Append(f[parent(n)], bit(n))
  BY DEF WayBody
<1>5. ASSUME NEW n \in D, NEW f \in [D -> V] PROVE WayBody(t, f)[n] \in V
  <2>1. bit(n) \in {0, 1}
    OBVIOUS
  <2> HIDE DEF bit, parent, D, V, rank
  <2>2. \A s \in V : \A c \in {0, 1} : Append(s, c) \in V
    BY DEF V
  <2>3. CASE n = t.root
    BY <1>1, <1>4, <2>3
  <2>4. CASE n # t.root
    <3>1. f[parent(n)] \in V
      BY <1>3, <2>4
    <3>2. Append(f[parent(n)], bit(n)) \in V
      BY <2>1, <2>2, <3>1
    <3> QED
      BY <1>4, <2>4, <3>2
  <2> QED
    BY <2>3, <2>4
<1>6. step \in [D -> [[D -> V] -> V]]
  <2> HIDE DEF D, V
  <2> QED
    BY <1>5
<1>7. \A n \in D : \A f \in [D -> V] : step[n][f] = WayBody(t, f)[n]
  <2> HIDE DEF D, V
  <2> QED
    OBVIOUS
<1>8. ASSUME NEW n \in D, NEW f \in [D -> V], NEW g \in [D -> V],
             \A y \in D : rank[y] < rank[n] => f[y] = g[y]
      PROVE  step[n][f] = step[n][g]
  <2>1. n # t.root => f[parent(n)] = g[parent(n)]
    BY <1>3, <1>8
  <2> HIDE DEF D, V, rank, step, parent, bit
  <2> QED
    BY <1>4, <1>7, <2>1
<1>9. RankRecursive(D, V, step)
  <2> HIDE DEF D, V, N, rank, step, none
  <2> QED
    BY <1>1, <1>2, <1>6, <1>8, RankRecursion
<1>10. PICK f \in [D -> V] : \A n \in D : f[n] = WayBody(t, f)[n]
  <2> HIDE DEF D, V, step
  <2> QED
    BY <1>7, <1>9 DEF RankRecursive
<1>11. f = WayBody(t, f)
  <2>1. f = [n \in D |-> f[n]]
    OBVIOUS
  <2>2. WayBody(t, f) = [n \in D |-> WayBody(t, f)[n]]
    BY DEF WayBody
  <2> HIDE DEF D, V
  <2> QED
    BY <1>10, <2>1, <2>2
<1> DEFINE w == Way(t)
<1>12. w = WayBody(t, w)
  BY <1>11 DEF Way
<1> HIDE DEF w
<1>13. ASSUME NEW n \in D
       PROVE  w[n] = IF n = t.root THEN << >> ELSE Append(w[parent(n)], bit(n))
  <2>1. WayBody(t, w)[n] = IF n = t.root THEN << >> ELSE Append(w[parent(n)], bit(n))
    BY DEF WayBody
  <2> HIDE DEF D, parent, bit
  <2> QED
    BY <1>12, <2>1
<1>14. \A n \in D : bit(n) \in {0, 1}
  OBVIOUS
<1> DEFINE S == {r \in Nat : \A n \in D : rank[n] = r => w[n] \in V}
<1>15. \A n \in D : rank[n] \in 0..N
  BY <1>2
<1> HIDE DEF D, V, N, rank, step, none, parent, bit
<1>16. ASSUME NEW r \in Nat, \A q \in 0..(r - 1) : q \in S PROVE r \in S
  <2> SUFFICES ASSUME NEW n \in D, rank[n] = r PROVE w[n] \in V
    OBVIOUS
  <2>1. CASE n = t.root
    BY <1>1, <1>13, <2>1 DEF none
  <2>2. CASE n # t.root
    <3>1. parent(n) \in D /\ rank[parent(n)] < r
      BY <1>3, <2>2
    <3>2. rank[parent(n)] \in 0..(r - 1)
      BY <1>1, <1>15, <3>1
    <3>3. w[parent(n)] \in V
      BY <1>16, <3>1, <3>2
    <3>4. Append(w[parent(n)], bit(n)) \in V
      BY <1>14, <3>3 DEF V
    <3> QED
      BY <1>13, <2>2, <3>4
  <2> QED
    BY <2>1, <2>2
<1>17. S = Nat
  <2>1. S \in SUBSET Nat
    OBVIOUS
  <2> HIDE DEF S
  <2> QED
    BY <1>16, <2>1, StrongInduction
<1>18. \A n \in D : w[n] \in V
  <2>1. \A n \in D : rank[n] \in S
    BY <1>1, <1>15, <1>17
  <2> QED
    BY <2>1
<1>19. w = [n \in D |-> WayBody(t, w)[n]]
  BY <1>12 DEF WayBody, D
<1>20. w \in [D -> V]
  BY <1>12, <1>18, <1>19
<1> QED
  BY <1>12, <1>20 DEF w, D, V

\* The way to a child is the way to its parent and one bit.
LEMMA Ways ==
  ASSUME NEW t, Full(t)
  PROVE  /\ Way(t)[t.root] = << >>
         /\ \A k \in t.kids : /\ Way(t)[k[2]] = Append(Way(t)[k[1]], 0)
                              /\ Way(t)[k[3]] = Append(Way(t)[k[1]], 1)
<1> DEFINE w == Way(t)
<1>1. w = WayBody(t, w)
  BY WayDefined
<1> HIDE DEF w
<1>2. w[t.root] = << >>
  <2>1. WayBody(t, w)[t.root] = << >>
    BY DEF WayBody, NodesOf
  <2> QED
    BY <1>1, <2>1
<1>3. ASSUME NEW k \in t.kids, NEW n \in {k[2], k[3]}
      PROVE  w[n] = Append(w[k[1]], IF n = k[2] THEN 0 ELSE 1)
  <2>1. /\ (CHOOSE m \in t.kids : n \in {m[2], m[3]}) = k
        /\ n \in NodesOf(t) /\ n # t.root
    BY ParentOf
  <2>2. WayBody(t, w)[n] = Append(w[k[1]], IF n = k[2] THEN 0 ELSE 1)
    BY <2>1 DEF WayBody
  <2> QED
    BY <1>1, <2>2
<1>4. ASSUME NEW k \in t.kids PROVE w[k[2]] = Append(w[k[1]], 0) /\ w[k[3]] = Append(w[k[1]], 1)
  <2>1. k[2] # k[3]
    BY DEF Full
  <2> QED
    BY <1>3, <2>1
<1> QED
  BY <1>2, <1>4 DEF w

----------------------------------------------------------------------------
(* Reading *)

States == [at : Nat, data : Seq(Nat), ok : BOOLEAN]

AtRoot(t, d) == [at |-> t.root, data |-> d, ok |-> TRUE]

ReadBody(t, bits, n, f) ==
  [i \in 0..n |-> IF i = 0 THEN [at |-> t.root, data |-> << >>, ok |-> TRUE]
                  ELSE Take(t, f[i - 1], bits[i])]

Reading(t, bits, n) == CHOOSE f : f = ReadBody(t, bits, n, f)

LEMMA AfterMeans ==
  ASSUME NEW t, NEW bits, NEW n
  PROVE  After(t, bits, n) = Reading(t, bits, n)[n]
BY DEF After, Reading, ReadBody

\* A bit leads from a state to a state.
LEMMA TakeType ==
  ASSUME NEW t, Full(t), NEW st \in States, NEW bit \in {0, 1}
  PROVE  Take(t, st, bit) \in States
<1> DEFINE n == Child(t, st.at, bit)
<1>1. n \in Nat
  <2>1. CASE st.at \in Inner(t)
    <3>1. PICK k \in t.kids : k[1] = st.at
      BY <2>1 DEF Inner
    <3>2. Child(t, k[1], 0) = k[2] /\ Child(t, k[1], 1) = k[3]
      BY ChildOf
    <3>3. k[2] \in Nat /\ k[3] \in Nat
      BY ChildOf, NodeRank
    <3> QED
      BY <3>1, <3>2, <3>3
  <2>2. CASE st.at \notin Inner(t)
    BY <2>2, SymbolsAssumption DEF Child, None
  <2> QED
    BY <2>1, <2>2
<1>2. t.root \in Nat
  BY NodeRank DEF NodesOf
<1>3. Take(t, st, bit) = IF ~st.ok \/ n = None THEN [st EXCEPT !.ok = FALSE]
                           ELSE IF n \in Inner(t) THEN [st EXCEPT !.at = n]
                           ELSE [at |-> t.root, data |-> Append(st.data, n), ok |-> n \in Byte]
  BY DEF Take
<1> HIDE DEF n
<1>4. [st EXCEPT !.ok = FALSE] \in States /\ [st EXCEPT !.at = n] \in States
  BY <1>1 DEF States
<1>5. [at |-> t.root, data |-> Append(st.data, n), ok |-> n \in Byte] \in States
  <2>1. Append(st.data, n) \in Seq(Nat)
    BY <1>1 DEF States
  <2>2. (n \in Byte) \in BOOLEAN
    OBVIOUS
  <2> QED
    BY <1>2, <2>1, <2>2 DEF States
<1> QED
  BY <1>3, <1>4, <1>5

\* A state at another node.
LEMMA Moved ==
  ASSUME NEW st \in States, NEW n \in Nat, NEW d, st.data = d, st.ok = TRUE
  PROVE  [st EXCEPT !.at = n] = [at |-> n, data |-> d, ok |-> TRUE]
<1> DEFINE x == [st EXCEPT !.at = n]
<1>1. x.at = n /\ x.data = d /\ x.ok = TRUE
  <2>1. x.at = n
    BY DEF States
  <2>2. x.data = d
    BY DEF States
  <2>3. x.ok = TRUE
    BY DEF States
  <2> QED
    BY <2>1, <2>2, <2>3
<1>2. x = [at |-> x.at, data |-> x.data, ok |-> x.ok]
  <2>1. x \in [at : Nat, data : Seq(Nat), ok : BOOLEAN]
    BY DEF States
  <2> QED
    BY <2>1
<1> HIDE DEF x
<1> QED
  BY <1>1, <1>2 DEF x

\* The states the decoder goes through are defined.
LEMMA ReadingDefined ==
  ASSUME NEW t, Full(t), NEW bits \in Seq({0, 1}), NEW n \in 0..Len(bits)
  PROVE  Reading(t, bits, n) = ReadBody(t, bits, n, Reading(t, bits, n))
<1> DEFINE base == AtRoot(t, << >>)
           step == [i \in 1..n |-> [st \in States |-> Take(t, st, bits[i])]]
<1>1. base \in States
  <2>1. t.root \in NodesOf(t)
    BY DEF NodesOf
  <2>2. t.root \in Nat /\ << >> \in Seq(Nat)
    BY <2>1, NodeRank
  <2> QED
    BY <2>2 DEF AtRoot, States
<1>2. step \in [1..n -> [States -> States]]
  <2>1. \A i \in 1..n : bits[i] \in {0, 1}
    OBVIOUS
  <2> QED
    BY <2>1, TakeType
<1>3. \A i \in 1..n : \A st \in States : step[i][st] = Take(t, st, bits[i])
  OBVIOUS
<1>4. n \in Nat
  OBVIOUS
<1>5. Recursive(n, States, base, step)
  <2> DEFINE T == States
  <2>1. base \in T /\ step \in [1..n -> [T -> T]]
    BY <1>1, <1>2
  <2> HIDE DEF T, base, step
  <2>2. Recursive(n, T, base, step)
    BY <1>4, <2>1, Recursion
  <2> QED
    BY <2>2 DEF T
<1>6. PICK f \in [0..n -> States] : f[0] = base /\ \A i \in 1..n : f[i] = Take(t, f[i - 1], bits[i])
  <2>1. PICK f \in [0..n -> States] : f[0] = base /\ \A i \in 1..n : f[i] = step[i][f[i - 1]]
    BY <1>5 DEF Recursive
  <2>2. \A i \in 1..n : f[i - 1] \in States
    <3>1. \A i \in 1..n : i - 1 \in 0..n
      BY <1>4
    <3> QED
      BY <3>1
  <2>3. \A i \in 1..n : f[i] = Take(t, f[i - 1], bits[i])
    <3> HIDE DEF step
    <3> QED
      BY <1>3, <2>1, <2>2
  <2> QED
    BY <2>1, <2>3
<1>7. f = ReadBody(t, bits, n, f)
  <2>1. \A i \in 0..n : f[i] = ReadBody(t, bits, n, f)[i]
    <3>1. \A i \in 0..n : i = 0 \/ i \in 1..n
      BY <1>4
    <3> QED
      BY <1>6, <3>1 DEF ReadBody, AtRoot
  <2>2. f = [i \in 0..n |-> f[i]] /\ ReadBody(t, bits, n, f) = [i \in 0..n |-> ReadBody(t, bits, n, f)[i]]
    BY <1>6 DEF ReadBody
  <2> QED
    BY <2>1, <2>2
<1> QED
  BY <1>7 DEF Reading

\* The decoder starts at the root and takes one bit after the other.
LEMMA AfterSteps ==
  ASSUME NEW t, Full(t), NEW bits \in Seq({0, 1})
  PROVE  /\ After(t, bits, 0) = AtRoot(t, << >>)
         /\ \A n \in 1..Len(bits) : After(t, bits, n) = Take(t, After(t, bits, n - 1), bits[n])
<1>1. Len(bits) \in Nat
  OBVIOUS
<1>2. ASSUME NEW n \in 0..Len(bits), NEW i \in 0..n
      PROVE  Reading(t, bits, n)[i] =
               IF i = 0 THEN AtRoot(t, << >>) ELSE Take(t, Reading(t, bits, n)[i - 1], bits[i])
  <2> DEFINE f == Reading(t, bits, n)
  <2>1. f = ReadBody(t, bits, n, f)
    BY ReadingDefined
  <2> HIDE DEF f
  <2>2. ReadBody(t, bits, n, f)[i] = IF i = 0 THEN AtRoot(t, << >>) ELSE Take(t, f[i - 1], bits[i])
    BY DEF ReadBody, AtRoot
  <2>3. f[i] = IF i = 0 THEN AtRoot(t, << >>) ELSE Take(t, f[i - 1], bits[i])
    BY <2>1, <2>2
  <2> QED
    BY <2>3 DEF f
<1>3. ASSUME NEW n \in 1..Len(bits)
      PROVE  Reading(t, bits, n)[n - 1] = Reading(t, bits, n - 1)[n - 1]
  <2> DEFINE f == Reading(t, bits, n)
             g == Reading(t, bits, n - 1)
             S == {i \in Nat : i <= n - 1 => f[i] = g[i]}
  <2>0. n \in Nat /\ n - 1 \in Nat /\ n \in 0..Len(bits) /\ n - 1 \in 0..Len(bits)
    BY <1>1
  <2>f. \A j \in 0..n : f[j] = IF j = 0 THEN AtRoot(t, << >>) ELSE Take(t, f[j - 1], bits[j])
    BY <1>2, <2>0
  <2>g. \A j \in 0..(n - 1) : g[j] = IF j = 0 THEN AtRoot(t, << >>) ELSE Take(t, g[j - 1], bits[j])
    BY <1>2, <2>0
  <2> HIDE DEF f, g
  <2>1. 0 \in S
    <3>1. 0 \in 0..n /\ 0 \in 0..(n - 1)
      BY <2>0
    <3>2. f[0] = AtRoot(t, << >>)
      BY <2>f, <3>1
    <3>3. g[0] = AtRoot(t, << >>)
      BY <2>g, <3>1
    <3> QED
      BY <3>2, <3>3
  <2>2. ASSUME NEW i \in Nat, i \in S PROVE i + 1 \in S
    <3> SUFFICES ASSUME i + 1 <= n - 1 PROVE f[i + 1] = g[i + 1]
      OBVIOUS
    <3>1. f[i] = g[i]
      BY <2>0, <2>2
    <3>2. i + 1 \in 0..n /\ i + 1 \in 0..(n - 1) /\ i + 1 # 0 /\ i + 1 - 1 = i
      BY <2>0
    <3>3. f[i + 1] = Take(t, f[i + 1 - 1], bits[i + 1]) /\ g[i + 1] = Take(t, g[i + 1 - 1], bits[i + 1])
      BY <2>f, <2>g, <3>2
    <3> QED
      BY <3>1, <3>2, <3>3
  <2> HIDE DEF S
  <2>3. S = Nat
    <3>1. S \in SUBSET Nat
      BY DEF S
    <3> QED
      BY <2>1, <2>2, <3>1, Induction
  <2>4. n - 1 \in S
    BY <2>0, <2>3
  <2> QED
    BY <2>0, <2>4 DEF S, f, g
<1>4. After(t, bits, 0) = AtRoot(t, << >>)
  <2>1. 0 \in 0..Len(bits) /\ 0 \in 0..0
    BY <1>1
  <2>2. Reading(t, bits, 0)[0] = AtRoot(t, << >>)
    BY <1>2, <2>1
  <2> QED
    BY <2>2, AfterMeans
<1>5. ASSUME NEW n \in 1..Len(bits)
      PROVE  After(t, bits, n) = Take(t, After(t, bits, n - 1), bits[n])
  <2>1. n \in 0..Len(bits) /\ n \in 0..n /\ n # 0
    BY <1>1
  <2>2. Reading(t, bits, n)[n] = Take(t, Reading(t, bits, n)[n - 1], bits[n])
    BY <1>2, <2>1
  <2> QED
    BY <1>3, <2>2, AfterMeans
<1> QED
  BY <1>4, <1>5

\* bits hold the sequence code after place c.
Holds(bits, c, code) ==
  c + Len(code) <= Len(bits) /\ \A j \in 1..Len(code) : bits[c + j] = code[j]

\* The decoder that reads, from the root, the way to a node is at that node; at
\* a leaf its byte is out and the decoder is at the root again.
LEMMA WayRead ==
  ASSUME NEW t, Full(t), t.root \in Inner(t), NEW bits \in Seq({0, 1}), NEW c \in Nat,
         NEW d \in Seq(Nat), After(t, bits, c) = AtRoot(t, d)
  PROVE  \A n \in NodesOf(t) : Holds(bits, c, Way(t)[n]) =>
           After(t, bits, c + Len(Way(t)[n])) =
             IF n \in Inner(t) THEN [at |-> n, data |-> d, ok |-> TRUE] ELSE AtRoot(t, Append(d, n))
<1> DEFINE w == Way(t)
           D == NodesOf(t)
           There(n) == Holds(bits, c, w[n]) =>
                         After(t, bits, c + Len(w[n])) =
                           IF n \in Inner(t) THEN [at |-> n, data |-> d, ok |-> TRUE]
                           ELSE AtRoot(t, Append(d, n))
<1>1. \A n \in D : w[n] \in Seq({0, 1})
  BY WayDefined
<1>2. /\ w[t.root] = << >>
      /\ \A k \in t.kids : w[k[2]] = Append(w[k[1]], 0) /\ w[k[3]] = Append(w[k[1]], 1)
  BY Ways
<1>3. There(t.root)
  <2>1. t.root \in Inner(t)
    OBVIOUS
  <2>2. Len(w[t.root]) = 0 /\ c + 0 = c
    BY <1>2
  <2> HIDE DEF w
  <2> QED
    BY <2>1, <2>2 DEF AtRoot
<1>4. ASSUME NEW k \in t.kids, NEW b \in {0, 1}, There(k[1]) PROVE There(k[2 + b])
  <2> DEFINE p == k[1]
             n == k[2 + b]
             m == Len(w[p])
  <2>1. p \in D /\ n \in D /\ p \in Inner(t) /\ Child(t, p, b) = n
    <3>1. 2 + 0 = 2 /\ 2 + 1 = 3
      OBVIOUS
    <3> QED
      BY <3>1, ChildOf
  <2>2. w[n] = Append(w[p], b)
    <3>1. 2 + 0 = 2 /\ 2 + 1 = 3
      OBVIOUS
    <3> QED
      BY <1>2, <3>1
  <2>3. n # None
    BY <2>1, NodeRank
  <2>4. n \notin Inner(t) => n \in Byte
    BY <2>1, NodeRank
  <2> SUFFICES ASSUME Holds(bits, c, w[n])
               PROVE  After(t, bits, c + Len(w[n])) =
                        IF n \in Inner(t) THEN [at |-> n, data |-> d, ok |-> TRUE]
                        ELSE AtRoot(t, Append(d, n))
    OBVIOUS
  <2>5. m \in Nat /\ w[p] \in Seq({0, 1})
    BY <1>1, <2>1
  <2> HIDE DEF p, n, w, D
  <2>6. Len(w[n]) = m + 1 /\ w[n][m + 1] = b /\ \A j \in 1..m : w[n][j] = w[p][j]
    BY <2>2, <2>5
  <2> HIDE DEF m
  <2>7. c + (m + 1) <= Len(bits) /\ bits[c + (m + 1)] = b /\ \A j \in 1..m : bits[c + j] = w[p][j]
    <3>1. m + 1 \in 1..(m + 1) /\ \A j \in 1..m : j \in 1..(m + 1)
      BY <2>5
    <3> QED
      BY <2>6, <3>1 DEF Holds
  <2>8. Holds(bits, c, w[p])
    <3>1. c + m <= Len(bits)
      BY <2>5, <2>7
    <3> QED
      BY <2>7, <3>1 DEF Holds, m
  <2>9. After(t, bits, c + m) = [at |-> p, data |-> d, ok |-> TRUE]
    BY <1>4, <2>1, <2>8 DEF m, p
  <2>10. c + (m + 1) \in 1..Len(bits) /\ c + (m + 1) - 1 = c + m
    <3>1. c + (m + 1) <= Len(bits) /\ m \in Nat /\ Len(bits) \in Nat
      BY <2>5, <2>7
    <3> QED
      BY <3>1
  <2>11. After(t, bits, c + (m + 1)) = Take(t, [at |-> p, data |-> d, ok |-> TRUE], b)
    <3> DEFINE e == c + (m + 1)
    <3>1. After(t, bits, e) = Take(t, After(t, bits, e - 1), bits[e])
      <4> HIDE DEF e
      <4>1. e \in 1..Len(bits)
        BY <2>10 DEF e
      <4> QED
        BY <4>1, AfterSteps
    <3>2. e - 1 = c + m /\ bits[e] = b
      BY <2>5, <2>7, <2>10
    <3>3. e = c + (m + 1)
      OBVIOUS
    <3> HIDE DEF e
    <3>4. After(t, bits, e) = Take(t, [at |-> p, data |-> d, ok |-> TRUE], b)
      BY <2>9, <3>1, <3>2
    <3> QED
      BY <3>3, <3>4
  <2>12. Take(t, [at |-> p, data |-> d, ok |-> TRUE], b) =
           IF n \in Inner(t) THEN [at |-> n, data |-> d, ok |-> TRUE] ELSE AtRoot(t, Append(d, n))
    <3> DEFINE st == [at |-> p, data |-> d, ok |-> TRUE]
    <3>a. st.at = p /\ st.data = d /\ st.ok = TRUE
      OBVIOUS
    <3>b. [st EXCEPT !.at = n] = [at |-> n, data |-> d, ok |-> TRUE]
      <4>0. \A x \in D : x \in Nat
        BY NodeRank DEF D
      <4>1. n \in Nat /\ p \in Nat
        BY <2>1, <4>0
      <4>2. st \in States
        BY <4>1 DEF States
      <4> HIDE DEF st
      <4> QED
        BY <3>a, <4>1, <4>2, Moved
    <3>1. st.at = p /\ st.data = d /\ st.ok /\ [st EXCEPT !.at = n] = [at |-> n, data |-> d, ok |-> TRUE]
      BY <3>a, <3>b
    <3> HIDE DEF st
    <3>2. Take(t, st, b) = IF ~st.ok \/ n = None THEN [st EXCEPT !.ok = FALSE]
                             ELSE IF n \in Inner(t) THEN [st EXCEPT !.at = n]
                             ELSE [at |-> t.root, data |-> Append(st.data, n), ok |-> n \in Byte]
      BY <2>1, <3>1 DEF Take
    <3>3. CASE n \in Inner(t)
      BY <2>3, <3>1, <3>2, <3>3 DEF st
    <3>4. CASE n \notin Inner(t)
      <4>1. n \in Byte
        BY <2>4, <3>4
      <4>2. Take(t, st, b) = [at |-> t.root, data |-> Append(d, n), ok |-> n \in Byte]
        BY <2>3, <3>1, <3>2, <3>4
      <4>3. Take(t, st, b) = [at |-> t.root, data |-> Append(d, n), ok |-> TRUE]
        BY <4>1, <4>2
      <4> QED
        BY <3>4, <4>3 DEF st, AtRoot
    <3> QED
      BY <3>3, <3>4
  <2> QED
    BY <2>6, <2>11, <2>12
<1> DEFINE X == {n \in D : There(n)}
<1>5. X = D
  <2> HIDE DEF There
  <2>1. t.root \in X
    BY <1>3 DEF NodesOf
  <2>2. ASSUME NEW k \in t.kids, k[1] \in X PROVE k[2] \in X /\ k[3] \in X
    <3>1. There(k[2 + 0]) /\ There(k[2 + 1])
      BY <1>4, <2>2
    <3>2. 2 + 0 = 2 /\ 2 + 1 = 3
      OBVIOUS
    <3> QED
      BY <3>1, <3>2, ChildOf
  <2>3. X \in SUBSET NodesOf(t)
    OBVIOUS
  <2> HIDE DEF X
  <2>4. X = NodesOf(t)
    BY <2>1, <2>2, <2>3, Downwards
  <2> QED
    BY <2>4
<1> HIDE DEF There
<1>6. \A n \in D : There(n)
  BY <1>5
<1> QED
  BY <1>6 DEF There

----------------------------------------------------------------------------
(* Sequences of sequences *)

FlatBody(seqs, f) == [i \in 1..Len(seqs) |-> IF i = 1 THEN seqs[i] ELSE f[i - 1] \o seqs[i]]

Flat(seqs) == CHOOSE f : f = FlatBody(seqs, f)

LEMMA FlattenMeans ==
  ASSUME NEW seqs, Len(seqs) # 0
  PROVE  FlattenSeq(seqs) = Flat(seqs)[Len(seqs)]
BY DEF FlattenSeq, Flat, FlatBody

\* Flattening a sequence puts each next one behind what is there.
LEMMA FlatSteps ==
  ASSUME NEW S, NEW seqs \in Seq(Seq(S)), Len(seqs) # 0
  PROVE  /\ Flat(seqs)[1] = seqs[1]
         /\ \A i \in 2..Len(seqs) : Flat(seqs)[i] = Flat(seqs)[i - 1] \o seqs[i]
         /\ \A i \in 1..Len(seqs) : Flat(seqs)[i] \in Seq(S)
<1> DEFINE n == Len(seqs)
           T == Seq(S)
           base == << >>
           step == [i \in 1..n |-> [s \in T |-> s \o seqs[i]]]
<1>1. n \in Nat /\ n >= 1 /\ \A i \in 1..n : seqs[i] \in T
  OBVIOUS
<1>2. base \in T
  OBVIOUS
<1>3. \A s \in T : base \o s = s
  OBVIOUS
<1>4. \A s, u \in T : s \o u \in T
  OBVIOUS
<1> HIDE DEF n, T, base
<1>5. step \in [1..n -> [T -> T]]
  BY <1>1, <1>4
<1>6. \A i \in 1..n : \A s \in T : step[i][s] = s \o seqs[i]
  OBVIOUS
<1> HIDE DEF step
<1>7. Recursive(n, T, base, step)
  BY <1>1, <1>2, <1>5, Recursion
<1>8. PICK g \in [0..n -> T] : g[0] = base /\ \A i \in 1..n : g[i] = step[i][g[i - 1]]
  BY <1>7 DEF Recursive
<1>9. \A i \in 1..n : g[i] = g[i - 1] \o seqs[i] /\ g[i] \in T
  <2>1. \A i \in 1..n : i - 1 \in 0..n /\ i \in 0..n
    BY <1>1
  <2> QED
    BY <1>6, <1>8, <2>1
<1> DEFINE f == [i \in 1..n |-> g[i]]
           h == Flat(seqs)
<1>10. f = FlatBody(seqs, f)
  <2>1. g[1] = seqs[1]
    <3>1. 1 \in 1..n /\ 1 - 1 = 0
      BY <1>1
    <3> QED
      <4>1. g[1] = g[0] \o seqs[1] /\ seqs[1] \in T
        BY <1>1, <1>9, <3>1
      <4>2. base \o seqs[1] = seqs[1]
        BY <1>3, <4>1
      <4> QED
        BY <1>8, <4>1, <4>2
  <2>2. \A i \in 1..n : i # 1 => i - 1 \in 1..n
    BY <1>1
  <2>3. \A i \in 1..n : f[i] = FlatBody(seqs, f)[i]
    BY <1>9, <2>1, <2>2 DEF FlatBody, n
  <2>4. FlatBody(seqs, f) = [i \in 1..n |-> FlatBody(seqs, f)[i]]
    BY DEF FlatBody, n
  <2>5. f = [i \in 1..n |-> f[i]]
    OBVIOUS
  <2> HIDE DEF f
  <2> QED
    BY <2>3, <2>4, <2>5
<1>11. h = FlatBody(seqs, h)
  BY <1>10 DEF Flat
<1> HIDE DEF h
<1>12. \A i \in 1..n : h[i] = IF i = 1 THEN seqs[i] ELSE h[i - 1] \o seqs[i]
  <2>1. \A i \in 1..n : FlatBody(seqs, h)[i] = IF i = 1 THEN seqs[i] ELSE h[i - 1] \o seqs[i]
    BY DEF FlatBody, n
  <2> QED
    BY <1>11, <2>1
<1>13. h[1] = seqs[1] /\ \A i \in 2..n : h[i] = h[i - 1] \o seqs[i]
  <2>1. 1 \in 1..n /\ \A i \in 2..n : i \in 1..n /\ i # 1
    BY <1>1
  <2>2. h[1] = seqs[1]
    BY <1>12, <2>1
  <2>3. ASSUME NEW i \in 2..n PROVE h[i] = h[i - 1] \o seqs[i]
    BY <1>12, <2>1
  <2> QED
    BY <2>2, <2>3
<1>14. \A i \in 1..n : h[i] \in T
  <2> DEFINE I == {i \in Nat : i \in 1..n => h[i] \in T}
  <2>1. 0 \in I
    OBVIOUS
  <2>2. ASSUME NEW i \in Nat, i \in I PROVE i + 1 \in I
    <3> SUFFICES ASSUME i + 1 \in 1..n PROVE h[i + 1] \in T
      OBVIOUS
    <3>1. CASE i = 0
      BY <1>1, <1>13, <3>1
    <3>2. CASE i # 0
      <4>1. i \in 1..n /\ i + 1 \in 2..n /\ i + 1 - 1 = i
        BY <1>1, <3>2
      <4>2. h[i] \in T /\ seqs[i + 1] \in T
        BY <1>1, <2>2, <4>1
      <4>3. h[i + 1] = h[i] \o seqs[i + 1]
        <5> DEFINE e == i + 1
        <5>1. e \in 2..n /\ e - 1 = i
          BY <4>1
        <5> HIDE DEF e
        <5>2. h[e] = h[e - 1] \o seqs[e]
          BY <1>13, <5>1
        <5>3. h[e] = h[i] \o seqs[e]
          BY <5>1, <5>2
        <5> QED
          BY <5>3 DEF e
      <4> QED
        BY <1>4, <4>2, <4>3
    <3> QED
      BY <3>1, <3>2
  <2>3. I = Nat
    <3>1. I \in SUBSET Nat
      OBVIOUS
    <3> HIDE DEF I
    <3> QED
      BY <2>1, <2>2, <3>1, Induction
  <2>4. ASSUME NEW i \in 1..n PROVE h[i] \in T
    <3>1. i \in Nat
      BY <1>1
    <3>2. i \in I
      BY <2>3, <3>1
    <3> QED
      BY <3>2
  <2> QED
    BY <2>4
<1> QED
  BY <1>13, <1>14 DEF h, n, T

\* The sequences stand in flat one behind the other, the i-th from off[i - 1] on.
LaidAt(seqs, flat, off) ==
  /\ off[0] = 0 /\ off[Len(seqs)] = Len(flat)
  /\ \A i \in 1..Len(seqs) : off[i] = off[i - 1] + Len(seqs[i]) /\ Holds(flat, off[i - 1], seqs[i])

Laid(seqs, flat) == \E off \in [0..Len(seqs) -> Nat] : LaidAt(seqs, flat, off)

LEMMA Flattened ==
  ASSUME NEW S, NEW seqs \in Seq(Seq(S))
  PROVE  FlattenSeq(seqs) \in Seq(S) /\ Laid(seqs, FlattenSeq(seqs))
<1> DEFINE n == Len(seqs)
<1>1. n \in Nat /\ \A i \in 1..n : seqs[i] \in Seq(S) /\ Len(seqs[i]) \in Nat
  OBVIOUS
<1>2. CASE n = 0
  <2>1. FlattenSeq(seqs) = seqs /\ seqs = << >>
    BY <1>2 DEF FlattenSeq
  <2> DEFINE off == [i \in 0..0 |-> 0]
  <2>2. off \in [0..n -> Nat]
    BY <1>2
  <2>3. LaidAt(seqs, FlattenSeq(seqs), off)
    BY <1>2, <2>1 DEF LaidAt
  <2> QED
    BY <2>1, <2>2, <2>3 DEF Laid
<1>3. CASE n # 0
  <2> DEFINE h == Flat(seqs)
             off == [i \in 0..n |-> IF i = 0 THEN 0 ELSE Len(h[i])]
             I == {m \in Nat : m \in 1..n => \A i \in 1..m : Holds(h[m], off[i - 1], seqs[i])}
  <2>1. /\ h[1] = seqs[1]
        /\ \A i \in 2..n : h[i] = h[i - 1] \o seqs[i]
        /\ \A i \in 1..n : h[i] \in Seq(S)
    BY <1>3, FlatSteps
  <2>2. FlattenSeq(seqs) = h[n]
    BY <1>3, FlattenMeans
  <2> HIDE DEF n, h
  <2>3. off \in [0..n -> Nat]
    <3>1. \A i \in 1..n : Len(h[i]) \in Nat
      BY <2>1
    <3>2. \A i \in 0..n : i = 0 \/ i \in 1..n
      BY <1>1
    <3> QED
      BY <3>1, <3>2
  <2>4. off[0] = 0 /\ \A i \in 1..n : off[i] = Len(h[i]) /\ i \in 0..n /\ i - 1 \in 0..n
    BY <1>1
  <2> HIDE DEF off
  <2>5. off[1] = off[0] + Len(seqs[1]) /\ Holds(h[1], off[0], seqs[1])
    <3>1. 1 \in 1..n
      BY <1>1, <1>3
    <3>2. off[1] = Len(seqs[1]) /\ Len(seqs[1]) \in Nat
      BY <1>1, <2>1, <2>4, <3>1
    <3>3. \A j \in 1..Len(seqs[1]) : 0 + j = j
      BY <3>2
    <3> QED
      BY <2>1, <2>4, <3>2, <3>3 DEF Holds
  <2>6. ASSUME NEW i \in 2..n
        PROVE  /\ off[i] = off[i - 1] + Len(seqs[i]) /\ Holds(h[i], off[i - 1], seqs[i])
               /\ \A j \in 1..Len(h[i - 1]) : h[i][j] = h[i - 1][j]
               /\ Len(h[i - 1]) <= Len(h[i])
    <3>1. i \in 1..n /\ i - 1 \in 1..n
      BY <1>1
    <3>2. h[i - 1] \in Seq(S) /\ seqs[i] \in Seq(S) /\ h[i] = h[i - 1] \o seqs[i]
      BY <1>1, <2>1, <3>1
    <3> DEFINE a == h[i - 1]
               b == seqs[i]
    <3> HIDE DEF a, b
    <3>3. a \in Seq(S) /\ b \in Seq(S) /\ h[i] = a \o b
      BY <3>2 DEF a, b
    <3>4. /\ Len(h[i]) = Len(a) + Len(b)
          /\ \A j \in 1..Len(a) : h[i][j] = a[j]
          /\ \A j \in 1..Len(b) : h[i][Len(a) + j] = b[j]
      <4>1. /\ Len(a \o b) = Len(a) + Len(b)
            /\ \A j \in 1..Len(a) : (a \o b)[j] = a[j]
            /\ \A j \in 1..Len(b) : (a \o b)[Len(a) + j] = b[j]
        BY <3>3, JoinedSet
      <4> QED
        BY <3>3, <4>1
    <3>5. off[i] = Len(h[i]) /\ off[i - 1] = Len(a)
      BY <2>4, <3>1 DEF a
    <3>6. Len(a) \in Nat /\ Len(b) \in Nat
      BY <3>3
    <3>7. Holds(h[i], Len(a), b) /\ Len(a) <= Len(h[i])
      BY <3>4, <3>6 DEF Holds
    <3> QED
      BY <3>4, <3>5, <3>7 DEF a, b
  <2>7. 0 \in I
    OBVIOUS
  <2>8. ASSUME NEW m \in Nat, m \in I PROVE m + 1 \in I
    <3> SUFFICES ASSUME m + 1 \in 1..n, NEW i \in 1..(m + 1)
                 PROVE  Holds(h[m + 1], off[i - 1], seqs[i])
      OBVIOUS
    <3>1. CASE m = 0
      <4>1. i = 1 /\ m + 1 = 1 /\ i - 1 = 0
        BY <3>1
      <4> QED
        BY <2>5, <4>1
    <3>2. CASE m # 0
      <4>1. m + 1 \in 2..n /\ m \in 1..n /\ m + 1 - 1 = m
        BY <1>1, <3>2
      <4>2. CASE i = m + 1
        BY <2>6, <4>1, <4>2
      <4>3. CASE i # m + 1
        <5>1. i \in 1..m /\ i \in 1..n
          <6>1. n \in Nat /\ m \in Nat /\ m + 1 <= n
            BY <1>1, <4>1
          <6> QED
            BY <4>3, <6>1
        <5>2. Holds(h[m], off[i - 1], seqs[i])
          BY <2>8, <4>1, <5>1
        <5>3. /\ \A j \in 1..Len(h[m]) : h[m + 1][j] = h[m][j]
              /\ Len(h[m]) <= Len(h[m + 1])
          BY <2>6, <4>1
        <5>4. off[i - 1] \in Nat /\ Len(seqs[i]) \in Nat
          BY <1>1, <2>3, <2>4, <5>1
        <5>5. Len(h[m]) \in Nat /\ Len(h[m + 1]) \in Nat
          <6>1. h[m] \in Seq(S) /\ h[m + 1] \in Seq(S)
            BY <2>1, <4>1
          <6> QED
            BY <6>1
        <5> DEFINE c == off[i - 1]
                   L == Len(seqs[i])
                   M == Len(h[m])
        <5> HIDE DEF c, L, M
        <5>6. \A j \in 1..L : c + j \in 1..M
          <6>1. c + L <= M
            BY <5>2 DEF Holds, c, L, M
          <6>2. c \in Nat /\ L \in Nat /\ M \in Nat
            BY <5>4, <5>5 DEF c, L, M
          <6> QED
            BY <6>1, <6>2
        <5>7. c + L <= Len(h[m + 1])
          <6>1. c + L <= M /\ M <= Len(h[m + 1])
            BY <5>2, <5>3 DEF Holds, c, L, M
          <6>2. c \in Nat /\ L \in Nat /\ M \in Nat
            BY <5>4, <5>5 DEF c, L, M
          <6> QED
            BY <5>5, <6>1, <6>2
        <5>8. \A j \in 1..L : h[m + 1][c + j] = seqs[i][j]
          BY <5>2, <5>3, <5>6 DEF Holds, c, L, M
        <5> QED
          BY <5>7, <5>8 DEF Holds, c, L
      <4> QED
        BY <4>2, <4>3
    <3> QED
      BY <3>1, <3>2
  <2>9. I = Nat
    <3>1. I \in SUBSET Nat
      OBVIOUS
    <3> HIDE DEF I
    <3> QED
      BY <2>7, <2>8, <3>1, Induction
  <2>10. n \in 1..n /\ \A i \in 1..n : Holds(h[n], off[i - 1], seqs[i])
    BY <1>1, <1>3, <2>9
  <2>11. ASSUME NEW i \in 1..n PROVE off[i] = off[i - 1] + Len(seqs[i])
    <3>1. CASE i = 1
      <4>1. i - 1 = 0
        BY <3>1
      <4> QED
        BY <2>5, <3>1, <4>1
    <3>2. CASE i # 1
      <4>1. i \in 2..n
        BY <1>1, <3>2
      <4> QED
        BY <2>6, <4>1
    <3> QED
      BY <3>1, <3>2
  <2>12. LaidAt(seqs, h[n], off)
    BY <2>4, <2>10, <2>11 DEF LaidAt, n
  <2> QED
    BY <2>1, <2>2, <2>3, <2>10, <2>12 DEF Laid, n
<1> QED
  BY <1>2, <1>3

----------------------------------------------------------------------------
(* Encoding and decoding *)

\* Every byte of data has a leaf in t.
Covers(t, data) == \A i \in DOMAIN data : data[i] \in NodesOf(t) \ Inner(t)

\* The ways to the bytes of data.
WaysTo(t, data) == [i \in DOMAIN data |-> Way(t)[data[i]]]

\* They are its codes.
LEMMA CodeAllMeans ==
  ASSUME NEW t, Full(t), t.root \in Inner(t), NEW data \in Seq(Byte), Covers(t, data)
  PROVE  CodeAll(t, data) = FlattenSeq(WaysTo(t, data)) /\ WaysTo(t, data) \in Seq(Seq({0, 1}))
<1> DEFINE seqs == WaysTo(t, data)
<1>1. \A i \in DOMAIN data : data[i] \in NodesOf(t) /\ Way(t)[data[i]] \in Seq({0, 1})
  BY WayDefined DEF Covers
<1>2. \A i \in DOMAIN data : Codes(t)[data[i]] = Way(t)[data[i]]
  <2>1. ASSUME NEW b \in Byte, b \in NodesOf(t) \ Inner(t) PROVE Codes(t)[b] = Way(t)[b]
    <3>1. b # t.root
      BY <2>1
    <3> QED
      BY <2>1, <3>1, CodesMean
  <2> QED
    BY <2>1 DEF Covers
<1>3. CodeAll(t, data) = FlattenSeq(seqs)
  BY <1>2 DEF CodeAll, WaysTo
<1>4. seqs \in Seq(Seq({0, 1}))
  <2> DEFINE V == Seq({0, 1})
  <2>1. DOMAIN data = 1..Len(data) /\ Len(data) \in Nat
    OBVIOUS
  <2>2. \A i \in 1..Len(data) : seqs[i] \in V
    BY <1>1, <2>1 DEF WaysTo
  <2>3. seqs = [i \in 1..Len(data) |-> seqs[i]]
    BY <2>1 DEF WaysTo
  <2> HIDE DEF seqs, V
  <2>4. seqs \in [1..Len(data) -> V]
    BY <2>2, <2>3
  <2>5. seqs \in Seq(V)
    BY <2>1, <2>4
  <2> QED
    BY <2>5 DEF V
<1> QED
  BY <1>3, <1>4

\* The codes of data, laid out one behind the other.
LEMMA CodesLaid ==
  ASSUME NEW t, Full(t), t.root \in Inner(t), NEW data \in Seq(Byte), Covers(t, data)
  PROVE  CodeAll(t, data) \in Seq({0, 1}) /\ Laid(WaysTo(t, data), CodeAll(t, data))
BY CodeAllMeans, Flattened

\* A stretch of bits stays where it is when more bits follow.
LEMMA HoldsLonger ==
  ASSUME NEW S, NEW a \in Seq(S), NEW b \in Seq(S), NEW c \in Nat, NEW code \in Seq(S), Holds(a, c, code)
  PROVE  Holds(a \o b, c, code)
<1> DEFINE d == a \o b
           L == Len(code)
           M == Len(a)
<1>1. /\ Len(d) = M + Len(b)
      /\ \A k \in 1..M : d[k] = a[k]
  BY JoinedSet
<1>2. L \in Nat /\ M \in Nat /\ Len(b) \in Nat /\ c + L <= M /\ \A j \in 1..L : a[c + j] = code[j]
  BY DEF Holds
<1> HIDE DEF d, L, M
<1>3. c + L <= Len(d)
  BY <1>1, <1>2
<1>4. \A j \in 1..L : c + j \in 1..M
  BY <1>2
<1>5. \A j \in 1..L : d[c + j] = code[j]
  BY <1>1, <1>2, <1>4
<1> QED
  BY <1>3, <1>5 DEF Holds, d, L

\* A decoder with the encoder's tree reads the codes of data, whatever follows
\* them, and is at the root again when it has.
LEMMA CodesRead ==
  ASSUME NEW t, Full(t), t.root \in Inner(t), NEW data \in Seq(Byte), Covers(t, data),
         NEW rest \in Seq({0, 1})
  PROVE  After(t, CodeAll(t, data) \o rest, Len(CodeAll(t, data))) = AtRoot(t, data)
<1> DEFINE flat == CodeAll(t, data)
           N == Len(flat)
           bits == flat \o rest
           n == Len(data)
           seqs == WaysTo(t, data)
           out(i) == [j \in 1..i |-> data[j]]
<1>1. flat \in Seq({0, 1}) /\ Laid(seqs, flat)
  BY CodesLaid
<1>2. n \in Nat /\ DOMAIN data = 1..n /\ \A i \in 1..n : data[i] \in Byte
  OBVIOUS
<1>3. Byte \subseteq Nat
  BY SymbolsAssumption DEF Byte
<1>4. \A i \in 1..n : data[i] \in NodesOf(t) \ Inner(t) /\ seqs[i] = Way(t)[data[i]] /\ seqs[i] \in Seq({0, 1})
  BY <1>2, WayDefined DEF Covers, WaysTo
<1>5. Len(seqs) = n
  BY <1>2 DEF WaysTo
<1> HIDE DEF seqs, flat, n, N
<1>10. bits \in Seq({0, 1})
  BY <1>1, JoinedSet
<1>11. PICK off \in [0..n -> Nat] : LaidAt(seqs, flat, off)
  BY <1>1, <1>5 DEF Laid
<1>12. /\ off[0] = 0 /\ off[n] = N
       /\ \A i \in 1..n : off[i] = off[i - 1] + Len(seqs[i]) /\ Holds(flat, off[i - 1], seqs[i])
  BY <1>5, <1>11 DEF LaidAt, N
<1>13. \A i \in 1..n : i - 1 \in 0..n /\ off[i - 1] \in Nat
  BY <1>2
<1>14. ASSUME NEW i \in 1..n PROVE Holds(bits, off[i - 1], seqs[i])
  <2> DEFINE c == off[i - 1]
             code == seqs[i]
  <2>1. c \in Nat /\ code \in Seq({0, 1}) /\ Holds(flat, c, code)
    BY <1>4, <1>12, <1>13
  <2> HIDE DEF c, code
  <2>2. Holds(flat \o rest, c, code)
    BY <1>1, <2>1, HoldsLonger
  <2> QED
    BY <2>2 DEF c, code
<1> HIDE DEF bits
<1> DEFINE S == {i \in Nat : i <= n => After(t, bits, off[i]) = AtRoot(t, out(i))}
<1>15. 0 \in S
  <2>1. out(0) = << >>
    OBVIOUS
  <2>2. After(t, bits, 0) = AtRoot(t, << >>)
    BY <1>10, AfterSteps
  <2> HIDE DEF out
  <2> QED
    BY <1>12, <2>1, <2>2
<1>16. ASSUME NEW i \in Nat, i \in S PROVE i + 1 \in S
  <2> SUFFICES ASSUME i + 1 <= n PROVE After(t, bits, off[i + 1]) = AtRoot(t, out(i + 1))
    OBVIOUS
  <2> DEFINE e == i + 1
             b == data[e]
  <2>1. e \in 1..n /\ e - 1 = i /\ i <= n /\ i \in 0..n
    BY <1>2
  <2>2. out(e) = Append(out(i), b)
    <3>1. e = i + 1
      OBVIOUS
    <3>2. \A j \in 1..i : data[j] \in Byte
      BY <1>2, <2>1
    <3>3. b \in Byte
      BY <1>2, <2>1
    <3> HIDE DEF e
    <3>4. out(i) \in Seq(Byte) /\ Len(out(i)) = i
      BY <3>2
    <3>5. out(e) \in Seq(Byte) /\ Len(out(e)) = i + 1 /\ out(e)[i + 1] = b
          /\ \A j \in 1..i : out(e)[j] = out(i)[j]
      <4>1. \A j \in 1..e : data[j] \in Byte
        BY <3>1, <3>2, <3>3
      <4> QED
        BY <4>1, <3>1
    <3> DEFINE p == out(i)
               q == out(e)
    <3>6. p \in Seq(Byte) /\ Len(p) = i /\ q \in Seq(Byte) /\ Len(q) = i + 1 /\ q[i + 1] = b
          /\ \A j \in 1..i : q[j] = p[j]
      BY <3>4, <3>5
    <3> HIDE DEF p, q, b
    <3>7. q = Append(p, b)
      BY <3>3, <3>6
    <3> QED
      BY <3>7 DEF p, q
  <2>3. out(i) \in Seq(Nat)
    <3>0. \A j \in 1..i : j \in 1..n
      BY <1>2, <2>1
    <3>1. \A j \in 1..i : data[j] \in Nat
      BY <1>2, <1>3, <3>0
    <3> QED
      BY <3>1
  <2>4. After(t, bits, off[i]) = AtRoot(t, out(i))
    BY <1>16, <2>1
  <2>5. b \in NodesOf(t) /\ b \notin Inner(t) /\ seqs[e] = Way(t)[b]
    BY <1>4, <2>1
  <2>6. off[i] \in Nat /\ off[e] = off[i] + Len(seqs[e]) /\ Holds(bits, off[i], seqs[e])
    BY <1>12, <1>13, <1>14, <2>1
  <2> DEFINE c == off[i]
             d == out(i)
  <2> HIDE DEF e, b, c, d, S, out
  <2>7. c \in Nat /\ d \in Seq(Nat) /\ After(t, bits, c) = AtRoot(t, d)
    BY <2>3, <2>4, <2>6 DEF c, d
  <2>8. Holds(bits, c, Way(t)[b])
    BY <2>5, <2>6 DEF c
  <2>9. After(t, bits, c + Len(Way(t)[b])) = AtRoot(t, Append(d, b))
    <3>1. bits \in Seq({0, 1})
      BY <1>10
    <3>2. \A m \in NodesOf(t) : Holds(bits, c, Way(t)[m]) =>
            After(t, bits, c + Len(Way(t)[m])) =
              IF m \in Inner(t) THEN [at |-> m, data |-> d, ok |-> TRUE] ELSE AtRoot(t, Append(d, m))
      BY <2>7, <3>1, WayRead
    <3> QED
      BY <2>5, <2>8, <3>2
  <2>10. After(t, bits, off[e]) = AtRoot(t, out(e))
    BY <2>2, <2>5, <2>6, <2>9 DEF c, d
  <2> QED
    BY <2>10 DEF e
<1>17. S = Nat
  <2>1. S \in SUBSET Nat
    OBVIOUS
  <2> HIDE DEF S
  <2> QED
    BY <1>15, <1>16, <2>1, Induction
<1>18. After(t, bits, N) = AtRoot(t, data)
  <2>1. out(n) = data
    BY <1>2
  <2>2. n \in S /\ n <= n
    <3> HIDE DEF S
    <3>1. n \in S
      BY <1>2, <1>17
    <3> QED
      BY <1>2, <3>1
  <2> HIDE DEF out
  <2>3. After(t, bits, off[n]) = AtRoot(t, out(n))
    BY <2>2
  <2> QED
    BY <1>12, <2>1, <2>3
<1> QED
  BY <1>18 DEF bits, N, flat

\* It reads what was encoded.
LEMMA DecodeBack ==
  ASSUME NEW t, Full(t), t.root \in Inner(t), NEW data \in Seq(Byte), Covers(t, data)
  PROVE  /\ Decode(t, Encode(t, data).bits, Encode(t, data).pad, Len(data)) = [ok |-> TRUE, data |-> data]
         /\ Encode(t, data).bits \in Seq({0, 1})
<1> DEFINE flat == CodeAll(t, data)
           N == Len(flat)
           pad == (ByteBits - (N % ByteBits)) % ByteBits
           ones == [i \in 1..pad |-> 1]
           bits == flat \o ones
           n == Len(data)
<1>1. flat \in Seq({0, 1})
  BY CodesLaid
<1>6. Encode(t, data) = [bits |-> bits, pad |-> pad]
  BY DEF Encode
<1> HIDE DEF flat
<1>7. N \in Nat
  BY <1>1
<1>8. pad \in 0..(ByteBits - 1) /\ pad \in Nat /\ pad < ByteBits
  <2> DEFINE m == ByteBits - (N % ByteBits)
  <2>1. m \in Int
    BY <1>7, ByteBitsAssumption
  <2> HIDE DEF m
  <2>2. m % ByteBits \in 0..(ByteBits - 1)
    BY <2>1, ByteBitsAssumption
  <2> QED
    BY <2>2, ByteBitsAssumption DEF m
<1> HIDE DEF N, pad
<1>9. ones \in Seq({0, 1}) /\ Len(ones) = pad
  BY <1>8
<1> HIDE DEF ones
<1>10. bits \in Seq({0, 1}) /\ Len(bits) = N + pad
  BY <1>1, <1>9, JoinedSet DEF N
<1>18. After(t, bits, N) = AtRoot(t, data)
  BY <1>9, CodesRead DEF N, flat
<1>19. Decode(t, bits, pad, n) = [ok |-> TRUE, data |-> data]
  <2>1. Len(bits) - pad = N /\ pad <= Len(bits)
    BY <1>7, <1>8, <1>10
  <2> DEFINE end == AtRoot(t, data)
  <2>2. end.ok = TRUE /\ end.at = t.root /\ end.data = data
    BY DEF AtRoot
  <2> HIDE DEF end
  <2>3. After(t, bits, N) = end
    BY <1>18 DEF end
  <2>4. Decode(t, bits, pad, n) =
          [ok |-> end.ok /\ end.at = t.root /\ Len(end.data) = n, data |-> end.data]
    BY <1>8, <2>1, <2>3 DEF Decode
  <2>5. (end.ok /\ end.at = t.root /\ Len(end.data) = n) = TRUE
    BY <2>2 DEF n
  <2> QED
    BY <2>2, <2>4, <2>5
<1> QED
  BY <1>6, <1>10, <1>19 DEF bits, n

----------------------------------------------------------------------------

(***************************************************************************)
(* The encoder builds a full tree                                          *)
(***************************************************************************)

\* A tree whose inner nodes are numbered from Symbols on as they are merged:
\* each node but the root is the child of one other, made later than itself.
Numbered(t) ==
  /\ t = [root |-> t.root, kids |-> t.kids]
  /\ t.kids \subseteq Nat \X Nat \X Nat
  /\ t.root \in Symbols..(2 * Symbols - 2) /\ t.root \in Inner(t)
  /\ \A k \in t.kids : /\ k[1] \in Symbols..t.root
                       /\ k[2] < k[1] /\ k[3] < k[1] /\ k[2] # k[3]
  /\ \A k, m \in t.kids : k[1] = m[1] => k = m
  /\ \A k, m \in t.kids : {k[2], k[3]} \cap {m[2], m[3]} # {} => k = m
  /\ \A k \in t.kids : k[1] # t.root => \E m \in t.kids : k[1] \in {m[2], m[3]}
  /\ \A n \in NodesOf(t) \ Inner(t) : n \in Byte

\* The numbers rank the nodes.
LEMMA NumberedIsFull ==
  ASSUME NEW t, Numbered(t)
  PROVE  Full(t)
<1>1. t.root \in Nat /\ t.root <= 2 * Symbols - 2 /\ Symbols \in Nat /\ Symbols >= 2
  BY SymbolsAssumption DEF Numbered
<1>2. ASSUME NEW k \in t.kids
      PROVE  /\ k \in Labels \X Labels \X Labels /\ t.root \notin {k[2], k[3]}
             /\ k[1] \in Nat /\ k[2] \in Nat /\ k[3] \in Nat
  <2>1. /\ k \in Nat \X Nat \X Nat /\ k[1] \in Symbols..t.root
        /\ k[2] < k[1] /\ k[3] < k[1]
    BY DEF Numbered
  <2>2. k[1] \in Nat /\ k[2] \in Nat /\ k[3] \in Nat /\ k = <<k[1], k[2], k[3]>>
    BY <2>1
  <2>3. k[1] <= t.root /\ k[2] < t.root /\ k[3] < t.root
    BY <1>1, <2>1, <2>2
  <2>4. k[1] \in Labels /\ k[2] \in Labels /\ k[3] \in Labels
    BY <1>1, <2>2, <2>3 DEF Labels
  <2>5. t.root # k[2] /\ t.root # k[3]
    BY <1>1, <2>2, <2>3
  <2>6. <<k[1], k[2], k[3]>> \in Labels \X Labels \X Labels
    BY <2>4
  <2> QED
    BY <2>2, <2>5, <2>6
<1>3. t.root \in Labels
  BY <1>1 DEF Labels
<1>4. \E r : Ranks(t, 2 * Symbols, r)
  <2> DEFINE r == [n \in NodesOf(t) |-> n]
  <2>1. ASSUME NEW n \in NodesOf(t) PROVE n \in 0..(2 * Symbols)
    <3>1. n = t.root \/ \E k \in t.kids : n \in {k[1], k[2], k[3]}
      BY DEF NodesOf
    <3>2. \A k \in t.kids : k[1] \in Labels /\ k[2] \in Labels /\ k[3] \in Labels
      BY <1>2
    <3>3. n \in Labels
      BY <1>3, <3>1, <3>2
    <3> QED
      BY <1>1, <3>3 DEF Labels
  <2>2. ASSUME NEW k \in t.kids PROVE r[k[2]] < r[k[1]] /\ r[k[3]] < r[k[1]]
    <3>1. k[1] \in NodesOf(t) /\ k[2] \in NodesOf(t) /\ k[3] \in NodesOf(t)
      BY DEF NodesOf
    <3> QED
      BY <3>1 DEF Numbered
  <2>3. r \in [NodesOf(t) -> 0..(2 * Symbols)]
    BY <2>1
  <2>4. Ranks(t, 2 * Symbols, r)
    <3> HIDE DEF r
    <3> QED
      BY <2>2, <2>3 DEF Ranks
  <2> QED
    BY <2>4
<1>5. t.kids \subseteq Labels \X Labels \X Labels
  BY <1>2
<1>6. 2 * Symbols \in Nat
  BY <1>1
<1> QED
  BY <1>2, <1>3, <1>4, <1>5, <1>6 DEF Full, Numbered

Item == [symbol : Nat, weight : Nat, order : Nat]

Forests == [nodes : SUBSET Item, kids : SUBSET (Nat \X Nat \X Nat)]

\* The sort has a first node, whichever nodes there are.
LEMMA LightestIn ==
  ASSUME NEW nodes \in SUBSET Item, nodes # {}
  PROVE  Lightest(nodes) \in nodes
<1> DEFINE W == {x.weight : x \in nodes}
<1>0. \A x \in nodes : x.weight \in Nat /\ x.order \in Nat
  BY DEF Item
<1>1. W \in SUBSET Nat /\ W # {}
  BY <1>0
<1>2. PICK w \in W : \A v \in W : w <= v
  <2> HIDE DEF W
  <2> QED
    BY <1>1, Least
<1> DEFINE Lights == {x \in nodes : x.weight = w}
           O == {x.order : x \in Lights}
<1>3. O \in SUBSET Nat /\ O # {}
  BY <1>0
<1>4. PICK o \in O : \A v \in O : o <= v
  <2> HIDE DEF O
  <2> QED
    BY <1>3, Least
<1>5. PICK x \in Lights : x.order = o
  BY <1>4
<1>6. ASSUME NEW y \in nodes
      PROVE  x.weight < y.weight \/ (x.weight = y.weight /\ x.order <= y.order)
  <2>1. x.weight = w /\ x \in nodes /\ w <= y.weight
    BY <1>2, <1>5
  <2>2. CASE y.weight = w
    <3>1. y.order \in O
      BY <2>2
    <3>2. x.order <= y.order
      BY <1>4, <1>5, <3>1
    <3> QED
      BY <2>1, <2>2, <3>2
  <2>3. CASE y.weight # w
    BY <1>0, <2>1, <2>3
  <2> QED
    BY <2>2, <2>3
<1>7. x \in nodes
  BY <1>5
<1> QED
  BY <1>6, <1>7 DEF Lightest

\* The leaves a tree is built from: two or more, at most one for each byte.
LeafSet(L) ==
  /\ L \subseteq Item
  /\ \A x \in L : x.symbol \in Byte
  /\ \A x, y \in L : x.symbol = y.symbol => x = y
  /\ IsFiniteSet(L) /\ Cardinality(L) \in 2..Symbols

LEMMA LeafSetBounds ==
  ASSUME NEW L \in SUBSET Item, \A x \in L : x.symbol \in Byte,
         \A x, y \in L : x.symbol = y.symbol => x = y,
         NEW a \in L, NEW b \in L, a # b
  PROVE  LeafSet(L)
<1> DEFINE f == [x \in L |-> x.symbol]
<1>1. IsFiniteSet(Byte) /\ Cardinality(Byte) = Symbols
  <2>1. /\ IsFiniteSet(0..(Symbols - 1))
        /\ Cardinality(0..(Symbols - 1)) = IF 0 > Symbols - 1 THEN 0 ELSE (Symbols - 1) - 0 + 1
    BY SymbolsAssumption, FS_Interval
  <2> QED
    BY <2>1, SymbolsAssumption DEF Byte
<1>2. f \in Injection(L, Byte)
  BY DEF Injection, IsInjective
<1>3. IsFiniteSet(L) /\ Cardinality(L) <= Symbols
  <2> HIDE DEF f
  <2> QED
    BY <1>1, <1>2, FS_Injection
<1>4. Cardinality(L) \in Nat /\ Cardinality(L) # 0 /\ Cardinality(L) # 1
  <2>1. Cardinality(L) \in Nat
    BY <1>3, FS_CardinalityType
  <2>2. Cardinality(L) # 0
    BY <1>3, FS_EmptySet
  <2>3. Cardinality(L) # 1
    <3>1. Cardinality(L) = 1 <=> \E x : L = {x}
      BY <1>3, FS_Singleton
    <3> QED
      BY <3>1
  <2> QED
    BY <2>1, <2>2, <2>3
<1> QED
  BY <1>3, <1>4, SymbolsAssumption DEF LeafSet

LEMMA LeavesKnown ==
  ASSUME NEW data \in Seq(Byte)
  PROVE  /\ LeafSet(Leaves(data))
         /\ \A b \in ToSet(data) : \E x \in Leaves(data) : x.symbol = b
<1> DEFINE used == ToSet(data)
           lonely == CHOOSE b \in used : TRUE
           other == IF lonely = 0 THEN 1 ELSE 0
           rank(b) == Cardinality({c \in used : c < b})
           L == Leaves(data)
<1>0. 0 \in Byte /\ 1 \in Byte /\ Byte \subseteq Nat
  BY SymbolsAssumption DEF Byte
<1>1. used \subseteq Byte /\ Len(data) \in Nat /\ DOMAIN data = 1..Len(data)
  BY SetOf
<1>2. \A b, w, o : /\ Leaf(b, w, o).symbol = b
                   /\ b \in Nat /\ w \in Nat /\ o \in Nat => Leaf(b, w, o) \in Item
  BY DEF Leaf, Item
<1>3. CASE used = {}
  <2> DEFINE a == Leaf(0, 1, 0)
             b == Leaf(1, 0, 1)
  <2>1. L = {a, b}
    <3>1. Cardinality(used) # 1
      BY <1>3, FS_EmptySet
    <3> QED
      BY <1>3, <3>1 DEF Leaves
  <2>2. a.symbol = 0 /\ b.symbol = 1 /\ a \in Item /\ b \in Item
    BY <1>2
  <2> HIDE DEF a, b, L
  <2>3. LeafSet(L)
    <3>1. L \in SUBSET Item /\ \A x \in L : x.symbol \in Byte
      BY <1>0, <2>1, <2>2
    <3>2. \A x, y \in L : x.symbol = y.symbol => x = y
      BY <2>1, <2>2
    <3>3. a \in L /\ b \in L /\ a # b
      BY <2>1, <2>2
    <3> QED
      BY <3>1, <3>2, <3>3, LeafSetBounds
  <2> QED
    BY <1>3, <2>3 DEF L
<1>4. CASE used # {} /\ Cardinality(used) = 1
  <2> DEFINE a == Leaf(lonely, Len(data), 0)
             b == Leaf(other, 0, 1)
  <2>1. L = {a, b}
    BY <1>4 DEF Leaves
  <2>2. lonely \in used /\ lonely \in Byte /\ other \in Byte /\ lonely # other
    <3>1. lonely \in used
      BY <1>4
    <3>2. lonely \in Byte
      BY <1>1, <3>1
    <3> HIDE DEF lonely, used
    <3> QED
      BY <1>0, <3>1, <3>2
  <2>3. a.symbol = lonely /\ b.symbol = other /\ a \in Item /\ b \in Item
    BY <1>0, <1>1, <1>2, <2>2
  <2>4. used = {lonely}
    <3>1. IsFiniteSet(used)
      <4>1. IsFiniteSet(Byte)
        BY SymbolsAssumption, FS_Interval DEF Byte
      <4> QED
        BY <1>1, <4>1, FS_Subset
    <3>2. Cardinality(used) = 1 <=> \E x : used = {x}
      BY <3>1, FS_Singleton
    <3> QED
      BY <1>4, <2>2, <3>2
  <2> HIDE DEF a, b, L, lonely, other, used
  <2>5. LeafSet(L)
    <3>1. L \in SUBSET Item /\ \A x \in L : x.symbol \in Byte
      BY <2>1, <2>2, <2>3
    <3>2. \A x, y \in L : x.symbol = y.symbol => x = y
      BY <2>1, <2>2, <2>3
    <3>3. a \in L /\ b \in L /\ a # b
      BY <2>1, <2>2, <2>3
    <3> QED
      BY <3>1, <3>2, <3>3, LeafSetBounds
  <2>6. \A c \in used : \E x \in L : x.symbol = c
    BY <2>1, <2>3, <2>4
  <2> QED
    BY <2>5, <2>6 DEF L, used
<1>5. CASE used # {} /\ Cardinality(used) # 1
  <2> DEFINE leaf(b) == Leaf(b, Occurrences(data, b), rank(b))
  <2>1. L = {leaf(b) : b \in used}
    BY <1>5 DEF Leaves
  <2>2. IsFiniteSet(used)
    <3>1. IsFiniteSet(Byte)
      BY SymbolsAssumption, FS_Interval DEF Byte
    <3> QED
      BY <1>1, <3>1, FS_Subset
  <2>3. ASSUME NEW b \in used PROVE rank(b) \in Nat /\ Occurrences(data, b) \in Nat
    <3>1. IsFiniteSet({c \in used : c < b})
      <4>1. {c \in used : c < b} \in SUBSET used
        OBVIOUS
      <4> HIDE DEF used
      <4> QED
        BY <2>2, <4>1, FS_Subset
    <3>2. IsFiniteSet({i \in DOMAIN data : data[i] = b})
      <4>1. IsFiniteSet(1..Len(data))
        BY <1>1, FS_Interval
      <4>2. {i \in DOMAIN data : data[i] = b} \in SUBSET (1..Len(data))
        BY <1>1
      <4> QED
        BY <4>1, <4>2, FS_Subset
    <3> QED
      BY <3>1, <3>2, FS_CardinalityType DEF Occurrences
  <2>4. \A b \in used : leaf(b).symbol = b /\ leaf(b) \in Item
    <3>1. \A b \in used : b \in Nat
      BY <1>0, <1>1
    <3> QED
      BY <1>2, <2>3, <3>1
  <2>5. PICK a \in used, b \in used : a # b
    <3>1. Cardinality(used) = 1 <=> \E x : used = {x}
      BY <2>2, FS_Singleton
    <3> QED
      BY <1>5, <3>1
  <2> HIDE DEF leaf, L, used
  <2>6. LeafSet(L)
    <3>1. L \in SUBSET Item /\ \A x \in L : x.symbol \in Byte
      BY <1>1, <2>1, <2>4
    <3>2. \A x, y \in L : x.symbol = y.symbol => x = y
      BY <2>1, <2>4
    <3>3. leaf(a) \in L /\ leaf(b) \in L /\ leaf(a) # leaf(b)
      BY <2>1, <2>4, <2>5
    <3> QED
      BY <3>1, <3>2, <3>3, LeafSetBounds
  <2>7. \A c \in used : \E x \in L : x.symbol = c
    BY <2>1, <2>4
  <2> QED
    BY <2>6, <2>7 DEF L, used
<1> QED
  BY <1>3, <1>4, <1>5

Tops(st) == {x.symbol : x \in st.nodes}
Children(st) == UNION {{k[2], k[3]} : k \in st.kids}
Symbol(L) == {x.symbol : x \in L}

\* What the forest is after i merges: the inner nodes are numbered in the order
\* they were made, and every node is on top or the child of one other.
Grown(L, i, st) ==
  /\ st \in Forests
  /\ IsFiniteSet(st.nodes) /\ Cardinality(st.nodes) = Cardinality(L) - i
  /\ \A x, y \in st.nodes : x.symbol = y.symbol => x = y
  /\ {k[1] : k \in st.kids} = Symbols..(Symbols + i - 1)
  /\ \A k, m \in st.kids : k[1] = m[1] => k = m
  /\ \A k \in st.kids : k[2] < k[1] /\ k[3] < k[1] /\ k[2] # k[3]
  /\ \A k, m \in st.kids : {k[2], k[3]} \cap {m[2], m[3]} # {} => k = m
  /\ Tops(st) \cap Children(st) = {}
  /\ Tops(st) \cup Children(st) = Symbol(L) \cup Symbols..(Symbols + i - 1)

LEMMA GrownFirst ==
  ASSUME NEW L, LeafSet(L)
  PROVE  Grown(L, 0, [nodes |-> L, kids |-> {}])
<1> DEFINE st == [nodes |-> L, kids |-> {}]
<1>1. st.nodes = L /\ st.kids = {}
  OBVIOUS
<1>2. st \in Forests
  BY DEF Forests, LeafSet
<1>3. Symbols..(Symbols + 0 - 1) = {}
  BY SymbolsAssumption
<1>4. Cardinality(L) - 0 = Cardinality(L)
  BY DEF LeafSet
<1> HIDE DEF st
<1>5. {k[1] : k \in st.kids} = {} /\ Children(st) = {} /\ Tops(st) = Symbol(L)
  BY <1>1 DEF Children, Tops, Symbol
<1>6. IsFiniteSet(st.nodes) /\ \A x, y \in st.nodes : x.symbol = y.symbol => x = y
  BY <1>1 DEF LeafSet
<1> QED
  BY <1>1, <1>2, <1>3, <1>4, <1>5, <1>6 DEF Grown, st

\* Taking two nodes off the top and putting their parent there.
LEMMA GrownNext ==
  ASSUME NEW L, LeafSet(L), NEW i \in 1..(Cardinality(L) - 1), NEW st, Grown(L, i - 1, st),
         NEW a \in st.nodes, NEW b \in st.nodes, a # b,
         NEW p \in Item, p.symbol = Symbols + i - 1
  PROVE  Grown(L, i, [nodes |-> (st.nodes \ {a, b}) \cup {p},
                      kids |-> st.kids \cup {<<p.symbol, a.symbol, b.symbol>>}])
<1> DEFINE n == Cardinality(L)
           nodes == (st.nodes \ {a, b}) \cup {p}
           new == <<p.symbol, a.symbol, b.symbol>>
           kids == st.kids \cup {new}
           s == [nodes |-> nodes, kids |-> kids]
           N == p.symbol
<1>0. n \in Nat /\ i \in Nat /\ i >= 1 /\ i <= n - 1 /\ Symbols \in Nat /\ Symbols >= 2
  BY SymbolsAssumption DEF LeafSet
<1>1. /\ st.nodes \subseteq Item /\ st.kids \subseteq Nat \X Nat \X Nat
      /\ IsFiniteSet(st.nodes)
      /\ \A x, y \in st.nodes : x.symbol = y.symbol => x = y
  BY DEF Grown, Forests
<1>2. Cardinality(st.nodes) = n - i + 1
  <2>1. Cardinality(st.nodes) = n - (i - 1)
    BY DEF Grown
  <2> QED
    BY <1>0, <2>1
<1>3. {k[1] : k \in st.kids} = Symbols..(N - 1)
  <2>1. {k[1] : k \in st.kids} = Symbols..(Symbols + (i - 1) - 1)
    BY DEF Grown
  <2>2. Symbols + (i - 1) - 1 = N - 1
    BY <1>0
  <2> QED
    BY <2>1, <2>2
<1>4. /\ Tops(st) \cap Children(st) = {}
      /\ Tops(st) \cup Children(st) = Symbol(L) \cup Symbols..(N - 1)
  <2>1. Symbols + (i - 1) - 1 = N - 1
    BY <1>0
  <2> QED
    BY <2>1 DEF Grown
<1>5. \A x \in Symbol(L) \cup Symbols..(N - 1) : x \in Nat /\ x < N
  <2>1. \A x \in Symbol(L) : x \in Nat /\ x < Symbols
    BY SymbolsAssumption DEF Symbol, LeafSet, Byte
  <2>2. N \in Nat /\ N >= Symbols
    BY <1>0
  <2> HIDE DEF N
  <2> QED
    BY <1>0, <2>1, <2>2
<1>6. a.symbol \in Tops(st) /\ b.symbol \in Tops(st) /\ a.symbol # b.symbol
  BY <1>1 DEF Tops
<1>7. a.symbol \in Nat /\ b.symbol \in Nat /\ a.symbol < N /\ b.symbol < N /\ N \in Nat
  BY <1>0, <1>4, <1>5, <1>6
<1>8. new[1] = N /\ new[2] = a.symbol /\ new[3] = b.symbol
  OBVIOUS
<1>9. new \in Nat \X Nat \X Nat
  BY <1>7
<1>10. \A x \in st.nodes : x.symbol # N
  <2>1. \A x \in st.nodes : x.symbol \in Tops(st)
    BY DEF Tops
  <2>2. \A x \in Tops(st) : x < N /\ x \in Nat
    BY <1>4, <1>5
  <2> QED
    BY <1>7, <2>1, <2>2
<1>11. s.nodes = nodes /\ s.kids = kids
  OBVIOUS
<1>12. s \in Forests
  BY <1>1, <1>9 DEF Forests
<1>13. IsFiniteSet(nodes) /\ Cardinality(nodes) = n - i
  <2> DEFINE A == st.nodes \ {a}
             B == A \ {b}
  <2>1. IsFiniteSet(A) /\ Cardinality(A) = n - i
    <3>1. IsFiniteSet(A) /\ Cardinality(A) = Cardinality(st.nodes) - 1
      BY <1>1, FS_RemoveElement
    <3> QED
      BY <1>0, <1>2, <3>1
  <2>2. b \in A
    OBVIOUS
  <2> HIDE DEF A
  <2>3. IsFiniteSet(B) /\ Cardinality(B) = n - i - 1
    BY <2>1, <2>2, FS_RemoveElement
  <2>4. p \notin B
    BY <1>10 DEF A
  <2> HIDE DEF B
  <2>5. IsFiniteSet(B \cup {p}) /\ Cardinality(B \cup {p}) = (n - i - 1) + 1
    BY <2>3, <2>4, FS_AddElement
  <2>6. nodes = B \cup {p}
    BY DEF A, B
  <2>7. (n - i - 1) + 1 = n - i
    BY <1>0
  <2> QED
    BY <2>5, <2>6, <2>7
<1>14. \A x, y \in nodes : x.symbol = y.symbol => x = y
  BY <1>1, <1>10
<1>15. {k[1] : k \in kids} = Symbols..(Symbols + i - 1)
  <2>1. {k[1] : k \in kids} = {k[1] : k \in st.kids} \cup {N}
    BY <1>8
  <2>2. Symbols..(N - 1) \cup {N} = Symbols..N /\ N = Symbols + i - 1
    BY <1>0
  <2> QED
    BY <1>3, <2>1, <2>2
<1>16. \A k \in st.kids : k[1] # N /\ k[1] \in Nat
  <2>1. \A k \in st.kids : k[1] \in Symbols..(N - 1)
    BY <1>3
  <2> QED
    BY <1>7, <2>1, <1>0
<1>17. \A k, m \in kids : k[1] = m[1] => k = m
  BY <1>8, <1>16 DEF Grown
<1>18. \A k \in kids : k[2] < k[1] /\ k[3] < k[1] /\ k[2] # k[3]
  BY <1>6, <1>7, <1>8 DEF Grown
<1>19. \A k \in st.kids : k[2] \in Children(st) /\ k[3] \in Children(st)
  BY DEF Children
<1>20. \A k, m \in kids : {k[2], k[3]} \cap {m[2], m[3]} # {} => k = m
  <2>1. \A k, m \in st.kids : {k[2], k[3]} \cap {m[2], m[3]} # {} => k = m
    BY DEF Grown
  <2>2. \A k \in st.kids : {k[2], k[3]} \cap {new[2], new[3]} = {}
    BY <1>4, <1>6, <1>8, <1>19
  <2> HIDE DEF new
  <2> QED
    BY <2>1, <2>2
<1>21. Tops(s) = (Tops(st) \ {a.symbol, b.symbol}) \cup {N}
  <2>1. Tops(s) = {x.symbol : x \in nodes}
    BY <1>11 DEF Tops
  <2> QED
    BY <1>1, <2>1 DEF Tops
<1>22. Children(s) = Children(st) \cup {a.symbol, b.symbol}
  <2>1. Children(s) = UNION {{k[2], k[3]} : k \in kids}
    BY <1>11 DEF Children
  <2> QED
    BY <1>8, <2>1 DEF Children
<1>23. N \notin Children(st)
  BY <1>4, <1>5, <1>7
<1>24. Tops(s) \cap Children(s) = {}
  <2>1. a.symbol # N /\ b.symbol # N
    BY <1>7
  <2> HIDE DEF N, s
  <2> QED
    BY <1>4, <1>21, <1>22, <1>23, <2>1
<1>25. Tops(s) \cup Children(s) = Symbol(L) \cup Symbols..(Symbols + i - 1)
  <2>1. Tops(s) \cup Children(s) = Tops(st) \cup Children(st) \cup {N}
    BY <1>6, <1>21, <1>22
  <2>2. Symbols..(N - 1) \cup {N} = Symbols..N /\ N = Symbols + i - 1
    BY <1>0
  <2> QED
    BY <1>4, <2>1, <2>2
<1> HIDE DEF s, nodes, kids
<1> QED
  BY <1>11, <1>12, <1>13, <1>14, <1>15, <1>17, <1>18, <1>20, <1>24, <1>25 DEF Grown, s, nodes, kids, n

ForestBody(L, n, f) ==
  [i \in 0..(n - 1) |->
     IF i = 0 THEN [nodes |-> L, kids |-> {}]
     ELSE LET g == f[i - 1]
              a == Lightest(g.nodes)
              b == Lightest(g.nodes \ {a})
              parent == [symbol |-> Symbols + i - 1, weight |-> a.weight + b.weight,
                         order |-> n + i - 1]
          IN  [nodes |-> (g.nodes \ {a, b}) \cup {parent},
               kids |-> g.kids \cup {<<parent.symbol, a.symbol, b.symbol>>}]]

Forest(L, n) == CHOOSE f : f = ForestBody(L, n, f)

\* What one merge makes of a forest.
Merged(n, i, g) ==
  LET a == Lightest(g.nodes)
      b == Lightest(g.nodes \ {a})
      parent == [symbol |-> Symbols + i - 1, weight |-> a.weight + b.weight, order |-> n + i - 1]
  IN  [nodes |-> (g.nodes \ {a, b}) \cup {parent},
       kids |-> g.kids \cup {<<parent.symbol, a.symbol, b.symbol>>}]

LEMMA BuildHuffmanMeans ==
  ASSUME NEW data
  PROVE  LET n == Cardinality(Leaves(data))
             last == Forest(Leaves(data), n)[n - 1]
         IN  BuildHuffman(data) = [root |-> (CHOOSE x \in last.nodes : TRUE).symbol, kids |-> last.kids]
BY DEF BuildHuffman, Forest, ForestBody

LEMMA MergedGrown ==
  ASSUME NEW L, LeafSet(L), NEW i \in 1..(Cardinality(L) - 1), NEW st, Grown(L, i - 1, st)
  PROVE  Grown(L, i, Merged(Cardinality(L), i, st))
<1> DEFINE n == Cardinality(L)
           a == Lightest(st.nodes)
           b == Lightest(st.nodes \ {a})
           p == [symbol |-> Symbols + i - 1, weight |-> a.weight + b.weight, order |-> n + i - 1]
<1>0. n \in Nat /\ i \in Nat /\ i >= 1 /\ i <= n - 1 /\ Symbols \in Nat /\ Symbols >= 2
  BY SymbolsAssumption DEF LeafSet
<1>1. st.nodes \in SUBSET Item /\ IsFiniteSet(st.nodes) /\ Cardinality(st.nodes) = n - (i - 1)
  BY DEF Grown, Forests
<1>2. st.nodes # {}
  BY <1>0, <1>1, FS_EmptySet
<1>3. a \in st.nodes
  BY <1>1, <1>2, LightestIn
<1> HIDE DEF a
<1>4. st.nodes \ {a} \in SUBSET Item /\ st.nodes \ {a} # {}
  <2>1. Cardinality(st.nodes \ {a}) = n - (i - 1) - 1
    BY <1>1, <1>3, FS_RemoveElement
  <2>2. Cardinality(st.nodes \ {a}) # 0
    BY <1>0, <2>1
  <2> QED
    BY <1>1, <2>2, FS_EmptySet
<1>5. b \in st.nodes \ {a}
  BY <1>4, LightestIn
<1> HIDE DEF b
<1>6. p \in Item /\ p.symbol = Symbols + i - 1
  <2>1. a.weight \in Nat /\ b.weight \in Nat
    BY <1>1, <1>3, <1>5 DEF Item
  <2>2. Symbols + i - 1 \in Nat /\ a.weight + b.weight \in Nat /\ n + i - 1 \in Nat
    BY <1>0, <2>1
  <2> QED
    BY <2>2 DEF Item
<1>7. Merged(n, i, st) = [nodes |-> (st.nodes \ {a, b}) \cup {p},
                          kids |-> st.kids \cup {<<p.symbol, a.symbol, b.symbol>>}]
  BY DEF Merged, a, b
<1> HIDE DEF p
<1>8. Grown(L, i, [nodes |-> (st.nodes \ {a, b}) \cup {p},
                   kids |-> st.kids \cup {<<p.symbol, a.symbol, b.symbol>>}])
  <2>1. a \in st.nodes /\ b \in st.nodes /\ a # b
    BY <1>3, <1>5
  <2> QED
    BY <1>6, <2>1, GrownNext
<1> QED
  BY <1>7, <1>8

\* The forests are defined and grow.
LEMMA ForestGrows ==
  ASSUME NEW L, LeafSet(L)
  PROVE  \A i \in 0..(Cardinality(L) - 1) : Grown(L, i, Forest(L, Cardinality(L))[i])
<1> DEFINE n == Cardinality(L)
           N == n - 1
           base == [nodes |-> L, kids |-> {}]
           T == Forests
           step == [i \in 1..N |-> [g \in T |-> IF Merged(n, i, g) \in T THEN Merged(n, i, g) ELSE g]]
<1>0. n \in Nat /\ N \in Nat /\ N >= 1
  BY SymbolsAssumption DEF LeafSet
<1>1. Grown(L, 0, base)
  BY GrownFirst
<1>2. base \in T
  BY <1>1 DEF Grown
<1>3. \A i, g : Grown(L, i, g) => g \in T
  BY DEF Grown
<1>4. \A i \in 1..N : \A g : Grown(L, i - 1, g) => Grown(L, i, Merged(n, i, g))
  BY MergedGrown
<1> HIDE DEF T, base, N, n
<1>5. step \in [1..N -> [T -> T]]
  OBVIOUS
<1>6. \A i \in 1..N : \A g \in T : Merged(n, i, g) \in T => step[i][g] = Merged(n, i, g)
  OBVIOUS
<1> HIDE DEF step
<1>7. Recursive(N, T, base, step)
  BY <1>0, <1>2, <1>5, Recursion
<1>8. PICK f \in [0..N -> T] : f[0] = base /\ \A i \in 1..N : f[i] = step[i][f[i - 1]]
  BY <1>7 DEF Recursive
<1>9. \A i \in 0..N : Grown(L, i, f[i])
  <2> DEFINE S == {i \in Nat : i <= N => Grown(L, i, f[i])}
  <2>1. 0 \in S
    BY <1>1, <1>8
  <2>2. ASSUME NEW i \in Nat, i \in S PROVE i + 1 \in S
    <3> SUFFICES ASSUME i + 1 <= N PROVE Grown(L, i + 1, f[i + 1])
      OBVIOUS
    <3> DEFINE e == i + 1
    <3>1. e \in 1..N /\ e - 1 = i /\ i <= N
      BY <1>0
    <3> HIDE DEF e
    <3>2. Grown(L, e - 1, f[i])
      BY <2>2, <3>1
    <3>3. Grown(L, e, Merged(n, e, f[i])) /\ f[i] \in T
      BY <1>3, <1>4, <3>1, <3>2
    <3>4. Merged(n, e, f[i]) \in T
      BY <1>3, <3>3
    <3>5. f[e] = step[e][f[i]]
      BY <1>8, <3>1
    <3>6. f[e] = Merged(n, e, f[i])
      BY <1>6, <3>1, <3>3, <3>4, <3>5
    <3> QED
      BY <3>3, <3>6 DEF e
  <2>3. S = Nat
    <3>1. S \in SUBSET Nat
      OBVIOUS
    <3> HIDE DEF S
    <3> QED
      BY <2>1, <2>2, <3>1, Induction
  <2>4. ASSUME NEW i \in 0..N PROVE Grown(L, i, f[i])
    <3>1. i \in Nat /\ i <= N
      BY <1>0
    <3>2. i \in S
      BY <2>3, <3>1
    <3> QED
      BY <3>1, <3>2
  <2> QED
    BY <2>4
<1>10. \A i \in 1..N : f[i] = Merged(n, i, f[i - 1])
  <2> SUFFICES ASSUME NEW i \in 1..N PROVE f[i] = Merged(n, i, f[i - 1])
    OBVIOUS
  <2>1. i - 1 \in 0..N
    BY <1>0
  <2>2. Grown(L, i - 1, f[i - 1])
    BY <1>9, <2>1
  <2>3. Merged(n, i, f[i - 1]) \in T /\ f[i - 1] \in T
    BY <1>3, <1>4, <2>2
  <2> QED
    BY <1>6, <1>8, <2>3
<1>11. \A g, i : i \in 0..(n - 1) =>
         ForestBody(L, n, g)[i] = IF i = 0 THEN base ELSE Merged(n, i, g[i - 1])
  BY DEF ForestBody, Merged, base
<1>12. f = ForestBody(L, n, f)
  <2>1. \A i \in 0..N : f[i] = ForestBody(L, n, f)[i]
    <3>1. \A i \in 0..N : i \in 0..(n - 1) /\ (i = 0 \/ i \in 1..N)
      BY <1>0 DEF N
    <3> QED
      BY <1>8, <1>10, <1>11, <3>1
  <2>2. f = [i \in 0..N |-> f[i]]
    BY <1>8
  <2>3. ForestBody(L, n, f) = [i \in 0..N |-> ForestBody(L, n, f)[i]]
    BY DEF ForestBody, N
  <2> QED
    BY <2>1, <2>2, <2>3
<1> DEFINE h == Forest(L, n)
<1>13. h = ForestBody(L, n, h)
  BY <1>12 DEF Forest
<1> HIDE DEF h
<1>14. \A i \in 0..(n - 1) : h[i] = IF i = 0 THEN base ELSE Merged(n, i, h[i - 1])
  BY <1>11, <1>13
<1>15. \A i \in 0..(n - 1) : h[i] = f[i]
  <2> DEFINE S == {i \in Nat : i <= N => h[i] = f[i]}
  <2>1. 0 \in S
    BY <1>0, <1>8, <1>14 DEF N
  <2>2. ASSUME NEW i \in Nat, i \in S PROVE i + 1 \in S
    <3> SUFFICES ASSUME i + 1 <= N PROVE h[i + 1] = f[i + 1]
      OBVIOUS
    <3> DEFINE e == i + 1
    <3>1. e \in 1..N /\ e \in 0..(n - 1) /\ e # 0 /\ e - 1 = i /\ i <= N
      BY <1>0 DEF N
    <3> HIDE DEF e
    <3>2. h[e] = Merged(n, e, h[i]) /\ f[e] = Merged(n, e, f[i])
      BY <1>10, <1>14, <3>1
    <3> QED
      BY <2>2, <3>1, <3>2 DEF e
  <2>3. S = Nat
    <3>1. S \in SUBSET Nat
      OBVIOUS
    <3> HIDE DEF S
    <3> QED
      BY <2>1, <2>2, <3>1, Induction
  <2>4. ASSUME NEW i \in 0..(n - 1) PROVE h[i] = f[i]
    <3>1. i \in Nat /\ i <= N
      BY <1>0 DEF N
    <3>2. i \in S
      BY <2>3, <3>1
    <3> QED
      BY <3>1, <3>2
  <2> QED
    BY <2>4
<1> QED
  BY <1>9, <1>15 DEF h, n, N

\* The tree for any data is numbered in the order of its merges, and has a leaf
\* for every byte of the data.
LEMMA TreeBuilt ==
  ASSUME NEW data \in Seq(Byte)
  PROVE  /\ Full(BuildHuffman(data)) /\ BuildHuffman(data).root \in Inner(BuildHuffman(data))
         /\ \A b \in ToSet(data) : b \in NodesOf(BuildHuffman(data)) \ Inner(BuildHuffman(data))
<1> DEFINE L == Leaves(data)
           n == Cardinality(L)
           last == Forest(L, n)[n - 1]
           t == BuildHuffman(data)
           N == Symbols + n - 2
<1>1. LeafSet(L) /\ \A b \in ToSet(data) : \E x \in L : x.symbol = b
  BY LeavesKnown
<1>2. t = [root |-> (CHOOSE x \in last.nodes : TRUE).symbol, kids |-> last.kids]
  BY BuildHuffmanMeans
<1> HIDE DEF L, t
<1>3. n \in Nat /\ n >= 2 /\ n <= Symbols /\ Symbols \in Nat /\ Symbols >= 2 /\ N \in Nat
  BY <1>1, SymbolsAssumption DEF LeafSet
<1>4. Grown(L, n - 1, last)
  <2>1. n - 1 \in 0..(n - 1)
    BY <1>3
  <2> QED
    BY <1>1, <2>1, ForestGrows
<1> HIDE DEF n, last
<1>5. /\ IsFiniteSet(last.nodes) /\ Cardinality(last.nodes) = 1
      /\ last.kids \subseteq Nat \X Nat \X Nat
      /\ {k[1] : k \in last.kids} = Symbols..N
      /\ Tops(last) \cup Children(last) = Symbol(L) \cup Symbols..N
  <2>1. Cardinality(last.nodes) = n - (n - 1) /\ n - (n - 1) = 1
    BY <1>3, <1>4 DEF Grown, n
  <2>2. Symbols + (n - 1) - 1 = N
    BY <1>3
  <2> QED
    BY <1>4, <2>1, <2>2 DEF Grown, Forests
<1>6. PICK x : last.nodes = {x}
  BY <1>5, FS_Singleton
<1>7. t.root = x.symbol /\ t.kids = last.kids /\ t = [root |-> t.root, kids |-> t.kids]
  <2>1. (CHOOSE y \in last.nodes : TRUE) = x
    BY <1>6
  <2> QED
    BY <1>2, <2>1
<1>8. Tops(last) = {t.root}
  BY <1>6, <1>7 DEF Tops
<1>9. Symbol(L) \subseteq Byte
  BY <1>1 DEF LeafSet, Symbol
<1>10. \A k \in t.kids : k[1] \in Symbols..N
  BY <1>5, <1>7
<1>11. \A k \in t.kids : /\ k[2] < k[1] /\ k[3] < k[1] /\ k[2] # k[3]
                         /\ k[1] \in Nat /\ k[2] \in Nat /\ k[3] \in Nat
  BY <1>4, <1>5, <1>7 DEF Grown
<1>12. \A c \in Children(last) : \E k \in t.kids : c \in {k[2], k[3]}
  BY <1>7 DEF Children
<1> HIDE DEF N
<1>13. t.root = N
  <2>1. N \in Symbols..N
    BY <1>3 DEF N
  <2>2. N \notin Children(last)
    <3> SUFFICES ASSUME N \in Children(last) PROVE FALSE
      OBVIOUS
    <3>1. PICK k \in t.kids : N \in {k[2], k[3]}
      BY <1>12
    <3>2. N < k[1] /\ k[1] \in Symbols..N /\ k[1] \in Nat
      BY <1>10, <1>11, <3>1
    <3> QED
      BY <1>3, <3>2
  <2> QED
    BY <1>5, <1>8, <2>1, <2>2
<1>14. Inner(t) = Symbols..N
  BY <1>5, <1>7 DEF Inner
<1>15. N \in Symbols..(2 * Symbols - 2) /\ N \in Symbols..N
  BY <1>3 DEF N
<1>16. Numbered(t)
  <2>1. \A k \in t.kids : k[1] # t.root => \E m \in t.kids : k[1] \in {m[2], m[3]}
    BY <1>5, <1>8, <1>10, <1>12
  <2>2. \A m \in NodesOf(t) \ Inner(t) : m \in Byte
    <3>1. ASSUME NEW m \in NodesOf(t), m \notin Symbols..N PROVE m \in Tops(last) \cup Children(last)
      <4>1. m = t.root \/ \E k \in t.kids : m \in {k[1], k[2], k[3]}
        BY DEF NodesOf
      <4>2. \A k \in t.kids : k[2] \in Children(last) /\ k[3] \in Children(last)
        BY <1>7 DEF Children
      <4> QED
        BY <1>8, <1>10, <3>1, <4>1, <4>2
    <3> QED
      BY <1>5, <1>9, <1>14, <3>1
  <2>3. \A k, m \in t.kids : k[1] = m[1] => k = m
    BY <1>4, <1>7 DEF Grown
  <2>4. \A k, m \in t.kids : {k[2], k[3]} \cap {m[2], m[3]} # {} => k = m
    BY <1>4, <1>7 DEF Grown
  <2>5. t.kids \subseteq Nat \X Nat \X Nat
    BY <1>5, <1>7
  <2> QED
    BY <1>7, <1>10, <1>11, <1>13, <1>14, <1>15, <2>1, <2>2, <2>3, <2>4, <2>5 DEF Numbered
<1>17. ASSUME NEW b \in ToSet(data) PROVE b \in NodesOf(t) \ Inner(t)
  <2>1. b \in Symbol(L)
    BY <1>1 DEF Symbol
  <2>2. b \in Byte /\ b \notin Symbols..N
    BY <1>3, <1>9, <2>1 DEF Byte
  <2>3. b = t.root \/ \E k \in t.kids : b \in {k[2], k[3]}
    BY <1>5, <1>8, <1>12, <2>1
  <2>4. b \in NodesOf(t)
    BY <2>3 DEF NodesOf
  <2> QED
    BY <1>14, <2>2, <2>4
<1>18. Full(t) /\ t.root \in Inner(t)
  BY <1>16, NumberedIsFull DEF Numbered
<1> QED
  BY <1>17, <1>18 DEF t

\* Whatever the bytes are, their tree comes back from its two traversals, and
\* with it Decode gives back what Encode wrote.
THEOREM GivesBack ==
  ASSUME NEW data \in Seq(Byte), NEW t, t = BuildHuffman(data)
  PROVE  /\ TreeFrom(Preorder(t), Inorder(t)) = t
         /\ Decode(t, Encode(t, data).bits, Encode(t, data).pad, Len(data)) =
              [ok |-> TRUE, data |-> data]
<1>1. Full(t) /\ t.root \in Inner(t) /\ \A b \in ToSet(data) : b \in NodesOf(t) \ Inner(t)
  BY TreeBuilt
<1>2. Covers(t, data)
  BY <1>1 DEF Covers, ToSet
<1>3. TreeFrom(Preorder(t), Inorder(t)) = t
  BY <1>1, TreeBack
<1> QED
  BY <1>1, <1>2, <1>3, DecodeBack

----------------------------------------------------------------------------
(***************************************************************************)
(* The full trees                                                          *)
(*                                                                         *)
(* FullTrees makes them by their sets of nodes, the larger from smaller    *)
(* ones.  It makes exactly the trees that Full describes: what it makes is *)
(* full, by induction on the number of nodes; and a full tree is made,     *)
(* from its leaves upwards, as the part below its root.                    *)
(***************************************************************************)

TreesBody(f) ==
  [nodes \in SUBSET Labels |->
     IF Cardinality(nodes) = 1
       THEN {[root |-> n, kids |-> {}] : n \in nodes \cap Byte}
       ELSE UNION {UNION {Joins(n, f[left], f[nodes \ (left \cup {n})]) :
                            left \in (SUBSET (nodes \ {n})) \ {{}, nodes \ {n}}} :
                     n \in nodes}]

\* The trees by their sets of nodes.
TreesBy == CHOOSE f : f = TreesBody(f)

LEMMA FullTreesMean == FullTrees = UNION {TreesBy[nodes] : nodes \in SUBSET Labels}
BY DEF FullTrees, TreesBy, TreesBody

\* There are finitely many names of nodes.
LEMMA FewLabels ==
  /\ IsFiniteSet(Labels) /\ Cardinality(Labels) \in Nat
  /\ \A nodes \in SUBSET Labels : /\ IsFiniteSet(nodes)
                                  /\ Cardinality(nodes) \in 0..Cardinality(Labels)
<1>1. IsFiniteSet(Labels)
  BY SymbolsAssumption, FS_Interval DEF Labels
<1>2. Cardinality(Labels) \in Nat
  BY <1>1, FS_CardinalityType
<1>3. ASSUME NEW nodes \in SUBSET Labels
      PROVE  IsFiniteSet(nodes) /\ Cardinality(nodes) \in 0..Cardinality(Labels)
  <2>1. IsFiniteSet(nodes) /\ Cardinality(nodes) <= Cardinality(Labels)
    BY <1>1, FS_Subset
  <2>2. Cardinality(nodes) \in Nat
    BY <2>1, FS_CardinalityType
  <2> QED
    BY <1>2, <2>1, <2>2
<1> QED
  BY <1>1, <1>2, <1>3

\* What is on either side of a node has fewer nodes.
Sides(nodes, n, left, right) ==
  /\ left \in SUBSET Labels /\ Cardinality(left) < Cardinality(nodes)
  /\ right \in SUBSET Labels /\ Cardinality(right) < Cardinality(nodes)
  /\ left \cap right = {} /\ n \notin left /\ n \notin right
  /\ nodes = {n} \cup left \cup right

LEMMA FewerNodes ==
  ASSUME NEW nodes \in SUBSET Labels, NEW n \in nodes,
         NEW left \in SUBSET nodes, n \notin left
  PROVE  Sides(nodes, n, left, nodes \ (left \cup {n}))
<1> DEFINE right == nodes \ (left \cup {n})
<1>1. ASSUME NEW part \in SUBSET nodes, n \notin part
      PROVE  part \in SUBSET Labels /\ Cardinality(part) < Cardinality(nodes)
  <2>1. IsFiniteSet(nodes) /\ part # nodes
    BY <1>1, FewLabels
  <2>2. Cardinality(part) <= Cardinality(nodes) /\ Cardinality(nodes) # Cardinality(part)
    BY <2>1, FS_Subset
  <2>3. part \in SUBSET Labels
    OBVIOUS
  <2>4. Cardinality(part) \in Nat /\ Cardinality(nodes) \in Nat
    BY <2>3, FewLabels
  <2> QED
    BY <2>2, <2>3, <2>4
<1>2. left \in SUBSET nodes /\ n \notin left /\ right \in SUBSET nodes /\ n \notin right
  OBVIOUS
<1>3. nodes = {n} \cup left \cup right
  OBVIOUS
<1> QED
  BY <1>1, <1>2, <1>3 DEF Sides

\* The trees are defined: what is on either side of a node has fewer nodes.
LEMMA TreesDefined == TreesBy = TreesBody(TreesBy)
<1> DEFINE D == SUBSET Labels
           Tree == [root : Labels, kids : SUBSET (Labels \X Labels \X Labels)]
           V == SUBSET Tree
           N == Cardinality(Labels)
           rank == [nodes \in D |-> Cardinality(nodes)]
           step == [nodes \in D |-> [f \in [D -> V] |-> TreesBody(f)[nodes]]]
           none == {}
<1>1. none \in V /\ N \in Nat /\ rank \in [D -> 0..N]
  BY FewLabels
<1>2. ASSUME NEW n \in Labels, NEW ls \in V, NEW rs \in V PROVE Joins(n, ls, rs) \in V
  <2>1. ASSUME NEW l \in Tree, NEW r \in Tree
        PROVE  [root |-> n, kids |-> l.kids \cup r.kids \cup {<<n, l.root, r.root>>}] \in Tree
    <3>1. l.kids \cup r.kids \cup {<<n, l.root, r.root>>} \in SUBSET (Labels \X Labels \X Labels)
      OBVIOUS
    <3> QED
      BY <3>1
  <2> HIDE DEF Tree
  <2> QED
    BY <2>1 DEF Joins
<1>3. ASSUME NEW nodes \in D, NEW f \in [D -> V] PROVE TreesBody(f)[nodes] \in V
  <2>1. CASE Cardinality(nodes) = 1
    <3>1. TreesBody(f)[nodes] = {[root |-> n, kids |-> {}] : n \in nodes \cap Byte}
      BY <2>1 DEF TreesBody
    <3>2. \A n \in nodes : [root |-> n, kids |-> {}] \in Tree
      OBVIOUS
    <3> HIDE DEF Tree
    <3> QED
      BY <3>1, <3>2
  <2>2. CASE Cardinality(nodes) # 1
    <3>1. TreesBody(f)[nodes] = UNION {UNION {Joins(n, f[left], f[nodes \ (left \cup {n})]) :
                                                left \in (SUBSET (nodes \ {n})) \ {{}, nodes \ {n}}} :
                                         n \in nodes}
      BY <2>2 DEF TreesBody
    <3>2. ASSUME NEW n \in nodes, NEW left \in (SUBSET (nodes \ {n})) \ {{}, nodes \ {n}}
          PROVE  Joins(n, f[left], f[nodes \ (left \cup {n})]) \in V
      <4>1. n \in Labels /\ left \in D /\ nodes \ (left \cup {n}) \in D
        OBVIOUS
      <4> HIDE DEF V, D
      <4>2. f[left] \in V /\ f[nodes \ (left \cup {n})] \in V
        BY <4>1
      <4> QED
        BY <1>2, <4>1, <4>2
    <3>3. ASSUME NEW t \in TreesBody(f)[nodes] PROVE t \in Tree
      <4> DEFINE Over(n) == UNION {Joins(n, f[left], f[nodes \ (left \cup {n})]) :
                                     left \in (SUBSET (nodes \ {n})) \ {{}, nodes \ {n}}}
      <4>0. PICK n \in nodes : t \in Over(n)
        <5>1. t \in UNION {Over(n) : n \in nodes}
          BY <3>1
        <5> HIDE DEF Over
        <5> QED
          BY <5>1
      <4>1. PICK left \in (SUBSET (nodes \ {n})) \ {{}, nodes \ {n}} :
              t \in Joins(n, f[left], f[nodes \ (left \cup {n})])
        BY <4>0
      <4>2. Joins(n, f[left], f[nodes \ (left \cup {n})]) \in V
        BY <3>2
      <4> HIDE DEF Tree
      <4> QED
        BY <4>1, <4>2
    <3> HIDE DEF Tree
    <3> QED
      BY <3>3
  <2> QED
    BY <2>1, <2>2
<1>4. step \in [D -> [[D -> V] -> V]]
  <2> HIDE DEF D, V
  <2> QED
    BY <1>3
<1>5. \A nodes \in D : \A f \in [D -> V] : step[nodes][f] = TreesBody(f)[nodes]
  <2> HIDE DEF D, V
  <2> QED
    OBVIOUS
<1>6. ASSUME NEW nodes \in D, NEW f \in [D -> V], NEW g \in [D -> V],
             \A y \in D : rank[y] < rank[nodes] => f[y] = g[y]
      PROVE  step[nodes][f] = step[nodes][g]
  <2>1. ASSUME NEW n \in nodes, NEW left \in (SUBSET (nodes \ {n})) \ {{}, nodes \ {n}}
        PROVE  Joins(n, f[left], f[nodes \ (left \cup {n})])
                 = Joins(n, g[left], g[nodes \ (left \cup {n})])
    <3> DEFINE right == nodes \ (left \cup {n})
    <3>1. /\ left \in D /\ Cardinality(left) < Cardinality(nodes)
          /\ right \in D /\ Cardinality(right) < Cardinality(nodes)
      <4>1. left \in SUBSET nodes /\ n \notin left
        OBVIOUS
      <4> QED
        BY <4>1, FewerNodes DEF Sides
    <3>2. rank[left] < rank[nodes] /\ rank[right] < rank[nodes]
      BY <3>1
    <3> HIDE DEF right, rank, D
    <3>3. f[left] = g[left] /\ f[right] = g[right]
      BY <1>6, <3>1, <3>2
    <3> QED
      BY <3>3 DEF right
  <2>2. TreesBody(f)[nodes] = TreesBody(g)[nodes]
    <3>1. CASE Cardinality(nodes) = 1
      BY <3>1 DEF TreesBody
    <3>2. CASE Cardinality(nodes) # 1
      <4> DEFINE Made(h) == UNION {UNION {Joins(n, h[left], h[nodes \ (left \cup {n})]) :
                                            left \in (SUBSET (nodes \ {n})) \ {{}, nodes \ {n}}} :
                                     n \in nodes}
      <4>1. TreesBody(f)[nodes] = Made(f) /\ TreesBody(g)[nodes] = Made(g)
        BY <3>2 DEF TreesBody
      <4> DEFINE Over(h, n) == UNION {Joins(n, h[left], h[nodes \ (left \cup {n})]) :
                                        left \in (SUBSET (nodes \ {n})) \ {{}, nodes \ {n}}}
      <4>2. ASSUME NEW n \in nodes PROVE Over(f, n) = Over(g, n)
        <5>1. {Joins(n, f[left], f[nodes \ (left \cup {n})]) :
                 left \in (SUBSET (nodes \ {n})) \ {{}, nodes \ {n}}}
              = {Joins(n, g[left], g[nodes \ (left \cup {n})]) :
                   left \in (SUBSET (nodes \ {n})) \ {{}, nodes \ {n}}}
          BY <2>1
        <5> QED
          BY <5>1
      <4>3. Made(f) = UNION {Over(f, n) : n \in nodes} /\ Made(g) = UNION {Over(g, n) : n \in nodes}
        OBVIOUS
      <4>4. {Over(f, n) : n \in nodes} = {Over(g, n) : n \in nodes}
        <5> HIDE DEF Over
        <5> QED
          BY <4>2
      <4> HIDE DEF Made, Over
      <4> QED
        BY <4>1, <4>3, <4>4
    <3> QED
      BY <3>1, <3>2
  <2> HIDE DEF D, V, step
  <2> QED
    BY <1>5, <2>2
<1>7. RankRecursive(D, V, step)
  <2> HIDE DEF D, V, N, rank, step, none
  <2> QED
    BY <1>1, <1>4, <1>6, RankRecursion
<1>8. PICK f \in [D -> V] : \A nodes \in D : f[nodes] = TreesBody(f)[nodes]
  <2> HIDE DEF D, V, step
  <2> QED
    BY <1>5, <1>7 DEF RankRecursive
<1>9. f = TreesBody(f)
  <2>1. f = [nodes \in D |-> f[nodes]]
    OBVIOUS
  <2>2. TreesBody(f) = [nodes \in D |-> TreesBody(f)[nodes]]
    BY DEF TreesBody
  <2> HIDE DEF D, V
  <2> QED
    BY <1>8, <2>1, <2>2
<1> QED
  BY <1>9 DEF TreesBy

\* The trees of one node, and of more.
LEMMA TreesMade ==
  ASSUME NEW nodes \in SUBSET Labels
  PROVE  /\ Cardinality(nodes) = 1 =>
              TreesBy[nodes] = {[root |-> n, kids |-> {}] : n \in nodes \cap Byte}
         /\ Cardinality(nodes) # 1 =>
              TreesBy[nodes] = UNION {UNION {Joins(n, TreesBy[left], TreesBy[nodes \ (left \cup {n})]) :
                                               left \in (SUBSET (nodes \ {n})) \ {{}, nodes \ {n}}} :
                                        n \in nodes}
<1> DEFINE f == TreesBy
<1>1. f = TreesBody(f)
  BY TreesDefined
<1> HIDE DEF f
<1>2. TreesBody(f)[nodes] =
        IF Cardinality(nodes) = 1
          THEN {[root |-> n, kids |-> {}] : n \in nodes \cap Byte}
          ELSE UNION {UNION {Joins(n, f[left], f[nodes \ (left \cup {n})]) :
                               left \in (SUBSET (nodes \ {n})) \ {{}, nodes \ {n}}} :
                        n \in nodes}
  BY DEF TreesBody
<1>3. f[nodes] = TreesBody(f)[nodes]
  BY <1>1
<1>4. CASE Cardinality(nodes) = 1
  BY <1>2, <1>3, <1>4 DEF f
<1>5. CASE Cardinality(nodes) # 1
  <2>1. f[nodes] = UNION {UNION {Joins(n, f[left], f[nodes \ (left \cup {n})]) :
                               left \in (SUBSET (nodes \ {n})) \ {{}, nodes \ {n}}} :
                        n \in nodes}
    BY <1>2, <1>3, <1>5
  <2> QED
    BY <1>5, <2>1 DEF f
<1> QED
  BY <1>4, <1>5

----------------------------------------------------------------------------

\* The tree of a node with the trees l and r below it.
Join(n, l, r) == [root |-> n, kids |-> l.kids \cup r.kids \cup {<<n, l.root, r.root>>}]

LEMMA JoinsMean ==
  ASSUME NEW n, NEW ls, NEW rs
  PROVE  /\ \A t \in Joins(n, ls, rs) : \E l \in ls : \E r \in rs : t = Join(n, l, r)
         /\ \A l \in ls : \A r \in rs : Join(n, l, r) \in Joins(n, ls, rs)
<1>1. Joins(n, ls, rs) = {Join(n, l, r) : l \in ls, r \in rs}
  BY DEF Joins, Join
<1> QED
  BY <1>1

\* Two full trees without a common node make a full tree below a node that
\* neither has: it stands above both.
LEMMA JoinFull ==
  ASSUME NEW n \in Labels, NEW l, Full(l), NEW r, Full(r),
         NodesOf(l) \cap NodesOf(r) = {}, n \notin NodesOf(l), n \notin NodesOf(r)
  PROVE  /\ Full(Join(n, l, r))
         /\ NodesOf(Join(n, l, r)) = {n} \cup NodesOf(l) \cup NodesOf(r)
         /\ Inner(Join(n, l, r)) = {n} \cup Inner(l) \cup Inner(r)
<1> DEFINE t == Join(n, l, r)
           top == <<n, l.root, r.root>>
<1>1. /\ t.root = n /\ t.kids = l.kids \cup r.kids \cup {top}
      /\ t = [root |-> t.root, kids |-> t.kids]
  BY DEF Join
<1>2. /\ top[1] = n /\ top[2] = l.root /\ top[3] = r.root
      /\ l.root \in NodesOf(l) /\ r.root \in NodesOf(r)
  BY DEF NodesOf
<1> HIDE DEF t, top
<1>3. /\ NodesOf(t) = {n} \cup NodesOf(l) \cup NodesOf(r)
      /\ Inner(t) = {n} \cup Inner(l) \cup Inner(r)
  <2>1. NodesOf(t) = {n} \cup NodesOf(l) \cup NodesOf(r)
    <3>1. NodesOf(t) \subseteq {n} \cup NodesOf(l) \cup NodesOf(r)
      BY <1>1, <1>2 DEF NodesOf
    <3>2. top \in t.kids /\ l.kids \subseteq t.kids /\ r.kids \subseteq t.kids
      BY <1>1
    <3>3. {n, l.root, r.root} \subseteq NodesOf(t)
      BY <1>2, <3>2 DEF NodesOf
    <3>4. NodesOf(l) \subseteq NodesOf(t) /\ NodesOf(r) \subseteq NodesOf(t)
      BY <3>2, <3>3 DEF NodesOf
    <3> QED
      BY <3>1, <3>3, <3>4
  <2>2. Inner(t) = {n} \cup Inner(l) \cup Inner(r)
    BY <1>1, <1>2 DEF Inner
  <2> QED
    BY <2>1, <2>2
<1>4. /\ \A k \in l.kids : k[1] \in NodesOf(l) /\ k[2] \in NodesOf(l) /\ k[3] \in NodesOf(l)
      /\ \A k \in r.kids : k[1] \in NodesOf(r) /\ k[2] \in NodesOf(r) /\ k[3] \in NodesOf(r)
  BY ChildOf
<1>5. t.root \in Labels /\ t.kids \subseteq Labels \X Labels \X Labels
  <2>1. /\ l.root \in Labels /\ l.kids \subseteq Labels \X Labels \X Labels
        /\ r.root \in Labels /\ r.kids \subseteq Labels \X Labels \X Labels
    BY DEF Full
  <2>2. top \in Labels \X Labels \X Labels
    BY <2>1 DEF top
  <2> QED
    BY <1>1, <2>1, <2>2
<1>6. \A k \in t.kids : k[2] # k[3] /\ t.root \notin {k[2], k[3]}
  <2>1. /\ \A k \in l.kids : k[2] # k[3]
        /\ \A k \in r.kids : k[2] # k[3]
    BY DEF Full
  <2> QED
    BY <1>1, <1>2, <1>4, <2>1
<1>7. ASSUME NEW k \in t.kids, NEW m \in t.kids, k[1] = m[1] PROVE k = m
  <2>1. /\ \A p, q \in l.kids : p[1] = q[1] => p = q
        /\ \A p, q \in r.kids : p[1] = q[1] => p = q
    BY DEF Full
  <2> QED
    BY <1>1, <1>2, <1>4, <1>7, <2>1
<1>8. ASSUME NEW k \in t.kids, NEW m \in t.kids, NEW x \in {k[2], k[3]}, x \in {m[2], m[3]}
      PROVE  k = m
  <2>1. /\ \A p, q \in l.kids : {p[2], p[3]} \cap {q[2], q[3]} # {} => p = q
        /\ \A p, q \in r.kids : {p[2], p[3]} \cap {q[2], q[3]} # {} => p = q
        /\ \A p \in l.kids : l.root \notin {p[2], p[3]}
        /\ \A p \in r.kids : r.root \notin {p[2], p[3]}
    BY DEF Full
  <2>2. CASE k \in l.kids
    <3>1. x \in NodesOf(l) /\ x # l.root
      BY <1>4, <2>1, <2>2
    <3>2. m \in l.kids
      BY <1>1, <1>2, <1>4, <1>8, <3>1
    <3>3. {k[2], k[3]} \cap {m[2], m[3]} # {}
      BY <1>8
    <3> QED
      BY <2>1, <2>2, <3>2, <3>3
  <2>3. CASE k \in r.kids
    <3>1. x \in NodesOf(r) /\ x # r.root
      BY <1>4, <2>1, <2>3
    <3>2. m \in r.kids
      BY <1>1, <1>2, <1>4, <1>8, <3>1
    <3>3. {k[2], k[3]} \cap {m[2], m[3]} # {}
      BY <1>8
    <3> QED
      BY <2>1, <2>3, <3>2, <3>3
  <2>4. CASE k = top
    <3>1. x = l.root \/ x = r.root
      BY <1>2, <2>4
    <3>2. m \notin l.kids /\ m \notin r.kids
      BY <1>2, <1>4, <1>8, <2>1, <3>1
    <3> QED
      BY <1>1, <2>4, <3>2
  <2> QED
    BY <1>1, <2>2, <2>3, <2>4
<1>9. ASSUME NEW k \in t.kids, k[1] # t.root PROVE \E m \in t.kids : k[1] \in {m[2], m[3]}
  <2>1. /\ \A p \in l.kids : p[1] # l.root => \E q \in l.kids : p[1] \in {q[2], q[3]}
        /\ \A p \in r.kids : p[1] # r.root => \E q \in r.kids : p[1] \in {q[2], q[3]}
    BY DEF Full
  <2>2. CASE k \in l.kids
    BY <1>1, <1>2, <2>1, <2>2
  <2>3. CASE k \in r.kids
    BY <1>1, <1>2, <2>1, <2>3
  <2> QED
    BY <1>1, <1>2, <1>9, <2>2, <2>3
<1>10. ASSUME NEW m \in NodesOf(t) \ Inner(t) PROVE m \in Byte
  BY <1>3, NodeRank
<1>11. \E N \in Nat : \E f : Ranks(t, N, f)
  <2> DEFINE a == Height(l)
             b == Height(r)
             N == a + b + 1
             f == [m \in NodesOf(t) |-> IF m = n THEN N ELSE IF m \in NodesOf(l) THEN Rank(l)[m]
                                                                               ELSE Rank(r)[m]]
  <2>1. /\ \A m \in NodesOf(l) : Rank(l)[m] \in Nat /\ Rank(l)[m] <= a
        /\ \A m \in NodesOf(r) : Rank(r)[m] \in Nat /\ Rank(r)[m] <= b
    BY NodeRank
  <2>2. a \in Nat /\ b \in Nat
    BY RankKnown
  <2>3. \A m \in NodesOf(l) : f[m] = Rank(l)[m]
    BY <1>3
  <2>4. \A m \in NodesOf(r) : f[m] = Rank(r)[m]
    BY <1>3
  <2>5. f[n] = N /\ f = [m \in NodesOf(t) |-> f[m]]
    BY <1>3
  <2> HIDE DEF f, a, b
  <2>6. f \in [NodesOf(t) -> 0..N]
    <3>1. ASSUME NEW m \in NodesOf(t) PROVE f[m] \in 0..N
      <4>1. CASE m = n
        BY <2>2, <2>5, <4>1
      <4>2. CASE m \in NodesOf(l)
        <5>1. f[m] \in Nat /\ f[m] <= a
          BY <2>1, <2>3, <4>2
        <5> QED
          BY <2>2, <5>1
      <4>3. CASE m \in NodesOf(r)
        <5>1. f[m] \in Nat /\ f[m] <= b
          BY <2>1, <2>4, <4>3
        <5> QED
          BY <2>2, <5>1
      <4> QED
        BY <1>3, <4>1, <4>2, <4>3
    <3> QED
      BY <2>5, <3>1
  <2>7. ASSUME NEW k \in t.kids PROVE f[k[2]] < f[k[1]] /\ f[k[3]] < f[k[1]]
    <3>1. CASE k \in l.kids
      <4>1. Rank(l)[k[2]] < Rank(l)[k[1]] /\ Rank(l)[k[3]] < Rank(l)[k[1]]
        BY <3>1, ChildOf
      <4> QED
        BY <1>4, <2>3, <3>1, <4>1
    <3>2. CASE k \in r.kids
      <4>1. Rank(r)[k[2]] < Rank(r)[k[1]] /\ Rank(r)[k[3]] < Rank(r)[k[1]]
        BY <3>2, ChildOf
      <4> QED
        BY <1>4, <2>4, <3>2, <4>1
    <3>3. CASE k = top
      <4>1. f[k[1]] = a + b + 1
        BY <1>2, <2>5, <3>3
      <4>2. f[k[2]] \in Nat /\ f[k[2]] <= a
        BY <1>2, <2>1, <2>3, <3>3
      <4>3. f[k[3]] \in Nat /\ f[k[3]] <= b
        BY <1>2, <2>1, <2>4, <3>3
      <4> QED
        BY <2>2, <4>1, <4>2, <4>3
    <3> QED
      BY <1>1, <3>1, <3>2, <3>3
  <2>8. Ranks(t, N, f) /\ N \in Nat
    BY <2>2, <2>6, <2>7 DEF Ranks
  <2> QED
    BY <2>8
<1>12. \A k, m \in t.kids : {k[2], k[3]} \cap {m[2], m[3]} # {} => k = m
  BY <1>8
<1>13. Full(t)
  BY <1>1, <1>5, <1>6, <1>7, <1>12, <1>9, <1>10, <1>11 DEF Full
<1> QED
  BY <1>3, <1>13 DEF t

\* A byte alone is a full tree.
LEMMA LeafFull ==
  ASSUME NEW n \in Byte
  PROVE  /\ Full([root |-> n, kids |-> {}])
         /\ NodesOf([root |-> n, kids |-> {}]) = {n} /\ Inner([root |-> n, kids |-> {}]) = {}
<1> DEFINE t == [root |-> n, kids |-> {}]
<1>1. t.root = n /\ t.kids = {} /\ t = [root |-> t.root, kids |-> t.kids]
  OBVIOUS
<1> HIDE DEF t
<1>2. NodesOf(t) = {n} /\ Inner(t) = {}
  BY <1>1 DEF NodesOf, Inner
<1>3. n \in Labels
  BY SymbolsAssumption DEF Byte, Labels
<1>4. Ranks(t, 0, [m \in NodesOf(t) |-> 0])
  BY <1>1 DEF Ranks
<1>5. \E N \in Nat : \E f : Ranks(t, N, f)
  BY <1>4
<1>6. Full(t)
  BY <1>1, <1>2, <1>3, <1>5 DEF Full
<1> QED
  BY <1>2, <1>6 DEF t

\* What is made of a set of nodes is a full tree of these nodes.
LEMMA TreesAreFull ==
  ASSUME NEW nodes \in SUBSET Labels, NEW t \in TreesBy[nodes]
  PROVE  Full(t) /\ NodesOf(t) = nodes
<1> DEFINE Good(set) == \A u \in TreesBy[set] : Full(u) /\ NodesOf(u) = set
           S == {c \in Nat : \A set \in SUBSET Labels : Cardinality(set) = c => Good(set)}
<1>1. ASSUME NEW c \in Nat, \A b \in 0..(c - 1) : b \in S PROVE c \in S
  <2> SUFFICES ASSUME NEW set \in SUBSET Labels, Cardinality(set) = c, NEW u \in TreesBy[set]
               PROVE  Full(u) /\ NodesOf(u) = set
    OBVIOUS
  <2>1. CASE c = 1
    <3>1. TreesBy[set] = {[root |-> n, kids |-> {}] : n \in set \cap Byte}
      BY <2>1, TreesMade
    <3>2. PICK n \in set \cap Byte : u = [root |-> n, kids |-> {}]
      BY <3>1
    <3>3. set = {n}
      BY <2>1, <3>2, FewLabels, FS_Singleton
    <3> QED
      BY <3>2, <3>3, LeafFull
  <2>2. CASE c # 1
    <3>1. TreesBy[set] = UNION {UNION {Joins(n, TreesBy[left], TreesBy[set \ (left \cup {n})]) :
                                         left \in (SUBSET (set \ {n})) \ {{}, set \ {n}}} :
                                  n \in set}
      BY <2>2, TreesMade
    <3> DEFINE Over(n) == UNION {Joins(n, TreesBy[left], TreesBy[set \ (left \cup {n})]) :
                                   left \in (SUBSET (set \ {n})) \ {{}, set \ {n}}}
    <3>2. PICK n \in set : u \in Over(n)
      <4>1. TreesBy[set] = UNION {Over(n) : n \in set}
        BY <3>1
      <4> HIDE DEF Over
      <4> QED
        BY <4>1
    <3>3. PICK left \in (SUBSET (set \ {n})) \ {{}, set \ {n}} :
            u \in Joins(n, TreesBy[left], TreesBy[set \ (left \cup {n})])
      BY <3>2
    <3> DEFINE right == set \ (left \cup {n})
    <3>4. PICK l \in TreesBy[left], r \in TreesBy[right] : u = Join(n, l, r)
      <4> HIDE DEF Over, Good
      <4>1. \E l \in TreesBy[left] : \E r \in TreesBy[right] : u = Join(n, l, r)
        BY <3>3, JoinsMean
      <4> QED
        BY <4>1
    <3> HIDE DEF Over
    <3>5. /\ left \in SUBSET Labels /\ Cardinality(left) < Cardinality(set)
          /\ right \in SUBSET Labels /\ Cardinality(right) < Cardinality(set)
          /\ left \cap right = {} /\ n \notin left /\ n \notin right
          /\ set = {n} \cup left \cup right
      <4>1. left \in SUBSET set /\ n \notin left
        OBVIOUS
      <4> HIDE DEF S, Good
      <4>2. Sides(set, n, left, right)
        BY <4>1, FewerNodes
      <4> QED
        BY <4>2 DEF Sides
    <3> HIDE DEF right
    <3>6. Cardinality(left) \in 0..(c - 1) /\ Cardinality(right) \in 0..(c - 1)
      <4>1. Cardinality(left) \in Nat /\ Cardinality(right) \in Nat
        BY <3>5, FewLabels
      <4> QED
        BY <3>5, <4>1
    <3>7. Good(left) /\ Good(right)
      <4> HIDE DEF Good
      <4> QED
        BY <1>1, <3>5, <3>6
    <3>8. Full(l) /\ NodesOf(l) = left /\ Full(r) /\ NodesOf(r) = right
      BY <3>4, <3>7
    <3>9. n \in Labels
      OBVIOUS
    <3> QED
      BY <3>4, <3>5, <3>8, <3>9, JoinFull
  <2> QED
    BY <2>1, <2>2
<1>2. S = Nat
  <2>1. S \in SUBSET Nat
    OBVIOUS
  <2> HIDE DEF S
  <2> QED
    BY <1>1, <2>1, StrongInduction
<1>3. Cardinality(nodes) \in Nat
  BY FewLabels
<1> QED
  BY <1>2, <1>3

\* A full tree is one of them: it is made from its leaves upwards.
LEMMA FullInTrees ==
  ASSUME NEW t, Full(t)
  PROVE  t \in TreesBy[NodesOf(t)] /\ NodesOf(t) \in SUBSET Labels
<1> DEFINE Made(n) == Subtree(t, n) \in TreesBy[Under(t, n)]
<1>1. NodesOf(t) \subseteq Labels
  BY NodeRank
<1>2. ASSUME NEW n \in NodesOf(t) PROVE n \in Under(t, n) /\ Under(t, n) \in SUBSET Labels
  <2>1. Walked(t, n)
    BY WalkedAll
  <2>2. Under(t, n) \subseteq NodesOf(t)
    BY <2>1, SetOf DEF Walked, Under
  <2> QED
    BY <1>1, <2>1, <2>2 DEF Walked
<1>3. ASSUME NEW n \in NodesOf(t), n \notin Inner(t) PROVE Made(n)
  <2>1. PreWalk(t)[n] = <<n>>
    BY <1>3, Walks
  <2>2. Under(t, n) = {n}
    BY <2>1 DEF Under, ToSet
  <2>3. Subtree(t, n) = [root |-> n, kids |-> {}]
    BY <1>3, <2>2 DEF Subtree, Inner
  <2>4. n \in Byte
    BY <1>3, NodeRank
  <2>5. Cardinality({n}) = 1 /\ {n} \in SUBSET Labels
    BY <1>1, FS_Singleton
  <2>6. TreesBy[{n}] = {[root |-> m, kids |-> {}] : m \in {n} \cap Byte}
    BY <2>5, TreesMade
  <2> QED
    BY <2>2, <2>3, <2>4, <2>6
<1>4. ASSUME NEW k \in t.kids, Made(k[2]), Made(k[3]) PROVE Made(k[1])
  <2> DEFINE n == k[1]
             set == Under(t, k[1])
             left == Under(t, k[2])
             right == Under(t, k[3])
  <2>1. n \in NodesOf(t) /\ k[2] \in NodesOf(t) /\ k[3] \in NodesOf(t) /\ k = <<n, k[2], k[3]>>
    BY ChildOf
  <2>2. /\ left \cap right = {} /\ n \notin left /\ n \notin right
        /\ set = {n} \cup left \cup right
    BY Apart
  <2>3. k[2] \in left /\ k[3] \in right /\ set \in SUBSET Labels
    BY <1>2, <2>1
  <2>4. {m \in t.kids : m[1] \in set} =
          {m \in t.kids : m[1] \in left} \cup {m \in t.kids : m[1] \in right} \cup {k}
    <3>1. \A m \in t.kids : m[1] = n => m = k
      BY DEF Full
    <3> HIDE DEF set, left, right
    <3> QED
      BY <2>2, <3>1
  <2>5. Subtree(t, n) = Join(n, Subtree(t, k[2]), Subtree(t, k[3]))
    BY <2>1, <2>4 DEF Subtree, Join
  <2> HIDE DEF set, left, right, n
  <2>6. Cardinality(set) # 1
    <3>1. n # k[2]
      BY <2>2, <2>3
    <3>2. n \in set /\ k[2] \in set /\ IsFiniteSet(set)
      BY <2>2, <2>3, FewLabels
    <3> QED
      BY <3>1, <3>2, FS_Singleton
  <2>7. left \in (SUBSET (set \ {n})) \ {{}, set \ {n}} /\ right = set \ (left \cup {n})
    BY <2>2, <2>3
  <2>8. Subtree(t, n) \in Joins(n, TreesBy[left], TreesBy[right])
    <3>1. Subtree(t, k[2]) \in TreesBy[left] /\ Subtree(t, k[3]) \in TreesBy[right]
      BY <1>4 DEF left, right
    <3> QED
      BY <2>5, <3>1, JoinsMean
  <2>9. TreesBy[set] = UNION {UNION {Joins(m, TreesBy[lt], TreesBy[set \ (lt \cup {m})]) :
                                       lt \in (SUBSET (set \ {m})) \ {{}, set \ {m}}} :
                                m \in set}
    BY <2>3, <2>6, TreesMade
  <2> DEFINE Over(m) == UNION {Joins(m, TreesBy[lt], TreesBy[set \ (lt \cup {m})]) :
                                 lt \in (SUBSET (set \ {m})) \ {{}, set \ {m}}}
  <2>10. Subtree(t, n) \in Over(n)
    BY <2>7, <2>8
  <2>11. TreesBy[set] = UNION {Over(m) : m \in set}
    BY <2>9
  <2>12. n \in set
    BY <2>2
  <2> HIDE DEF Over
  <2>13. Subtree(t, n) \in TreesBy[set]
    BY <2>10, <2>11, <2>12
  <2> QED
    BY <2>13 DEF n, set
<1> DEFINE X == {n \in NodesOf(t) : Made(n)}
<1>5. X = NodesOf(t)
  <2> HIDE DEF Made
  <2>1. \A n \in NodesOf(t) \ Inner(t) : n \in X
    BY <1>3
  <2>2. \A k \in t.kids : k[2] \in X /\ k[3] \in X => k[1] \in X
    BY <1>4, ChildOf
  <2>3. X \in SUBSET NodesOf(t)
    OBVIOUS
  <2> HIDE DEF X
  <2> QED
    BY <2>1, <2>2, <2>3, Upwards
<1>6. t.root \in NodesOf(t)
  BY DEF NodesOf
<1>7. Under(t, t.root) = NodesOf(t)
  BY WalksAll
<1>8. {k \in t.kids : k[1] \in Under(t, t.root)} = t.kids
  BY <1>7, ChildOf
<1>9. Subtree(t, t.root) = t
  BY <1>8 DEF Subtree, Full
<1>10. Made(t.root)
  <2> HIDE DEF Made
  <2> QED
    BY <1>5, <1>6
<1> QED
  BY <1>1, <1>7, <1>9, <1>10

\* FullTrees is the set of the full trees.
LEMMA FullTreesAre ==
  ASSUME NEW t
  PROVE  t \in FullTrees <=> Full(t)
BY FullTreesMean, TreesAreFull, FullInTrees

----------------------------------------------------------------------------
(***************************************************************************)
(* What a decoder accepts                                                  *)
(*                                                                         *)
(* A valid tree that is built of any two lists is full, and the lists are  *)
(* its traversals: by induction on the length of the part of the second    *)
(* list that it is built of.                                               *)
(***************************************************************************)

\* The walks of a part of a tree are walks of the tree.
LEMMA WalkOf ==
  ASSUME NEW s, Full(s), NEW t, Full(t), s.kids \subseteq t.kids,
         NodesOf(s) \subseteq NodesOf(t), Inner(t) \cap NodesOf(s) \subseteq Inner(s)
  PROVE  \A n \in NodesOf(s) : PreWalk(s)[n] = PreWalk(t)[n] /\ InWalk(s)[n] = InWalk(t)[n]
<1> DEFINE Same(n) == PreWalk(s)[n] = PreWalk(t)[n] /\ InWalk(s)[n] = InWalk(t)[n]
           X == {n \in NodesOf(s) : Same(n)}
<1>1. ASSUME NEW n \in NodesOf(s), n \notin Inner(s) PROVE Same(n)
  <2>1. n \in NodesOf(t) /\ n \notin Inner(t)
    BY <1>1
  <2>2. PreWalk(s)[n] = <<n>> /\ InWalk(s)[n] = <<n>>
    BY <1>1, Walks
  <2>3. PreWalk(t)[n] = <<n>> /\ InWalk(t)[n] = <<n>>
    BY <2>1, Walks
  <2> QED
    BY <2>2, <2>3
<1>2. ASSUME NEW k \in s.kids, Same(k[2]), Same(k[3]) PROVE Same(k[1])
  <2>1. k \in t.kids
    OBVIOUS
  <2>2. /\ PreWalk(s)[k[1]] = <<k[1]>> \o PreWalk(s)[k[2]] \o PreWalk(s)[k[3]]
        /\ InWalk(s)[k[1]] = InWalk(s)[k[2]] \o <<k[1]>> \o InWalk(s)[k[3]]
    BY Walks
  <2>3. /\ PreWalk(t)[k[1]] = <<k[1]>> \o PreWalk(t)[k[2]] \o PreWalk(t)[k[3]]
        /\ InWalk(t)[k[1]] = InWalk(t)[k[2]] \o <<k[1]>> \o InWalk(t)[k[3]]
    BY <2>1, Walks
  <2> QED
    BY <1>2, <2>2, <2>3
<1> HIDE DEF Same
<1>3. X = NodesOf(s)
  <2>1. \A n \in NodesOf(s) \ Inner(s) : n \in X
    BY <1>1
  <2>2. \A k \in s.kids : k[2] \in X /\ k[3] \in X => k[1] \in X
    BY <1>2, ChildOf
  <2>3. X \in SUBSET NodesOf(s)
    OBVIOUS
  <2> HIDE DEF X
  <2> QED
    BY <2>1, <2>2, <2>3, Upwards
<1>4. \A n \in NodesOf(s) : Same(n)
  BY <1>3
<1> QED
  BY <1>4 DEF Same

\* How long a part is, and where the parts on either side of its root are.
Size(x) == IF x[3] >= x[2] THEN x[3] - x[2] + 1 ELSE 0
LeftAt(pre, mid, x) == <<x[1] + 1, x[2], Split(pre, mid, x) - 1>>
RightAt(pre, mid, x) == <<x[1] + 1 + Split(pre, mid, x) - x[2], Split(pre, mid, x) + 1, x[3]>>
RootFound(pre, mid, x) == \E i \in x[2]..x[3] : mid[i] = pre[x[1]]

\* What holds of a part when it does of all shorter ones holds of every part.
LEMMA PartInduction ==
  ASSUME NEW pre \in Seq(Nat), NEW mid \in Seq(Nat), NEW X \in SUBSET Parts(pre, mid),
         \A x \in Parts(pre, mid) :
           (\A y \in Parts(pre, mid) : Size(y) < Size(x) => y \in X) => x \in X
  PROVE  X = Parts(pre, mid)
<1> DEFINE D == Parts(pre, mid)
           S == {c \in Nat : \A x \in D : Size(x) = c => x \in X}
<1>1. ASSUME NEW x \in D PROVE Size(x) \in Nat
  <2>1. x[2] \in Nat /\ x[3] \in Nat
    BY DEF Parts
  <2> QED
    BY <2>1 DEF Size
<1> HIDE DEF D
<1>2. ASSUME NEW c \in Nat, \A b \in 0..(c - 1) : b \in S PROVE c \in S
  <2> SUFFICES ASSUME NEW x \in D, Size(x) = c PROVE x \in X
    OBVIOUS
  <2>1. ASSUME NEW y \in D, Size(y) < Size(x) PROVE y \in X
    <3>1. Size(y) \in 0..(c - 1)
      BY <1>1, <2>1
    <3> QED
      BY <1>2, <3>1
  <2> QED
    BY <2>1 DEF D
<1>3. S = Nat
  <2>1. S \in SUBSET Nat
    OBVIOUS
  <2> HIDE DEF S
  <2> QED
    BY <1>2, <2>1, StrongInduction
<1>4. \A x \in D : x \in X
  BY <1>1, <1>3
<1> QED
  BY <1>4 DEF D

\* The parts on either side of a root.
Halves(pre, mid, f, x) ==
  /\ x[1] \in Nat /\ x[2] \in Nat /\ x[3] \in Nat /\ x[2] >= 1
  /\ Split(pre, mid, x) \in Nat /\ x[2] <= Split(pre, mid, x) /\ Split(pre, mid, x) <= x[3]
  /\ mid[Split(pre, mid, x)] = pre[x[1]] /\ x[3] <= Len(mid)
  /\ Split(pre, mid, x) > x[2] =>
       /\ LeftAt(pre, mid, x) \in Parts(pre, mid) /\ Size(LeftAt(pre, mid, x)) < Size(x)
       /\ LeftPart(pre, mid, f, x) = f[LeftAt(pre, mid, x)]
  /\ Split(pre, mid, x) < x[3] =>
       /\ RightAt(pre, mid, x) \in Parts(pre, mid) /\ Size(RightAt(pre, mid, x)) < Size(x)
       /\ RightPart(pre, mid, f, x) = f[RightAt(pre, mid, x)]
  /\ Split(pre, mid, x) = x[2] => LeftPart(pre, mid, f, x) = NoTree
  /\ Split(pre, mid, x) = x[3] => RightPart(pre, mid, f, x) = NoTree

LEMMA HalvesAre ==
  ASSUME NEW pre \in Seq(Nat), NEW mid \in Seq(Nat), NEW x \in Parts(pre, mid), NEW f,
         RootFound(pre, mid, x)
  PROVE  Halves(pre, mid, f, x)
<1> DEFINE s == Split(pre, mid, x)
           y == LeftAt(pre, mid, x)
           z == RightAt(pre, mid, x)
<1>1. /\ s \in x[2]..x[3] /\ mid[s] = pre[x[1]]
      /\ s > x[2] => y \in Parts(pre, mid) /\ (s - 1) - x[2] < x[3] - x[2]
      /\ s < x[3] => z \in Parts(pre, mid) /\ x[3] - (s + 1) < x[3] - x[2]
  BY Shorter DEF RootFound, LeftAt, RightAt
<1>2. x[1] \in Nat /\ x[2] \in Nat /\ x[3] \in Nat /\ x[2] >= 1 /\ x[3] <= Len(mid)
  <2>1. x[1] \in 1..Len(pre) /\ x[2] \in 1..Len(mid) /\ x[3] \in 0..Len(mid) /\ Len(mid) \in Nat /\ Len(pre) \in Nat
    BY DEF Parts
  <2> QED
    BY <2>1
<1>3. y[2] = x[2] /\ y[3] = s - 1 /\ z[2] = s + 1 /\ z[3] = x[3]
  BY DEF LeftAt, RightAt
<1>4. /\ s > x[2] => LeftPart(pre, mid, f, x) = f[y]
      /\ s < x[3] => RightPart(pre, mid, f, x) = f[z]
  BY DEF LeftPart, RightPart, LeftAt, RightAt
<1>5. /\ s = x[2] => LeftPart(pre, mid, f, x) = NoTree
      /\ s = x[3] => RightPart(pre, mid, f, x) = NoTree
  <2>1. ASSUME NEW a \in Nat, NEW b, a = b PROVE ~(b > a) /\ ~(b < a)
    BY <2>1
  <2>2. s = x[2] => ~(s > x[2])
    BY <1>2, <2>1
  <2>3. s = x[3] => ~(s < x[3])
    BY <1>2, <2>1
  <2> QED
    BY <2>2, <2>3 DEF LeftPart, RightPart
<1> HIDE DEF s, y, z
<1>6. s \in Nat /\ x[2] <= s /\ s <= x[3]
  BY <1>1, <1>2
<1>7. /\ s > x[2] => Size(y) < Size(x)
      /\ s < x[3] => Size(z) < Size(x)
  <2>1. Size(x) = x[3] - x[2] + 1
    BY <1>2, <1>6 DEF Size
  <2>2. Size(y) = IF s - 1 >= x[2] THEN (s - 1) - x[2] + 1 ELSE 0
    BY <1>3 DEF Size
  <2>3. Size(z) = IF x[3] >= s + 1 THEN x[3] - (s + 1) + 1 ELSE 0
    BY <1>3 DEF Size
  <2>4. ASSUME NEW lo \in Nat, NEW hi \in Nat, NEW m \in Nat, lo <= m, m <= hi
        PROVE  /\ m > lo => (IF m - 1 >= lo THEN (m - 1) - lo + 1 ELSE 0) < hi - lo + 1
               /\ m < hi => (IF hi >= m + 1 THEN hi - (m + 1) + 1 ELSE 0) < hi - lo + 1
    BY <2>4
  <2>5. x[2] \in Nat /\ x[3] \in Nat /\ s \in Nat /\ x[2] <= s /\ s <= x[3]
    BY <1>2, <1>6
  <2>6. /\ s > x[2] => (IF s - 1 >= x[2] THEN (s - 1) - x[2] + 1 ELSE 0) < x[3] - x[2] + 1
        /\ s < x[3] => (IF x[3] >= s + 1 THEN x[3] - (s + 1) + 1 ELSE 0) < x[3] - x[2] + 1
    BY <2>4, <2>5
  <2> QED
    BY <2>1, <2>2, <2>3, <2>6
<1> QED
  BY <1>1, <1>2, <1>4, <1>5, <1>6, <1>7 DEF Halves, s, y, z

\* A part, from the two on either side of its root.
LEMMA PartMade ==
  ASSUME NEW pre \in Seq(Nat), NEW mid \in Seq(Nat), NEW x \in Parts(pre, mid), NEW l, NEW r,
         l = LeftPart(pre, mid, Part(pre, mid), x), r = RightPart(pre, mid, Part(pre, mid), x)
  PROVE  /\ ~RootFound(pre, mid, x) => Part(pre, mid)[x] = NoTree
         /\ RootFound(pre, mid, x) /\ x[2] = x[3] =>
              Part(pre, mid)[x] = [root |-> pre[x[1]], kids |-> l.kids \cup r.kids]
         /\ RootFound(pre, mid, x) /\ x[2] # x[3] => Part(pre, mid)[x] = Join(pre[x[1]], l, r)
<1> DEFINE f == Part(pre, mid)
<1>1. f = PartBody(pre, mid, f)
  BY PartDefined
<1> HIDE DEF f
<1>2. PartBody(pre, mid, f)[x] =
        IF RootFound(pre, mid, x)
          THEN [root |-> pre[x[1]],
                kids |-> l.kids \cup r.kids \cup
                         (IF x[2] = x[3] THEN {} ELSE {<<pre[x[1]], l.root, r.root>>})]
          ELSE NoTree
  BY DEF PartBody, RootFound, f
<1>3. f[x] = PartBody(pre, mid, f)[x]
  BY <1>1
<1>4. l.kids \cup r.kids \cup {} = l.kids \cup r.kids
  OBVIOUS
<1> QED
  BY <1>2, <1>3, <1>4 DEF Join, f

\* What stands in mid from lo to hi.
Between(mid, lo, hi) == {mid[i] : i \in lo..hi}

\* The nodes of what is built of a part stand in the part, but for a nil child.
NodesAt(pre, mid, x) ==
  /\ NodesOf(Part(pre, mid)[x]) \subseteq Between(mid, x[2], x[3]) \cup {None}
  /\ Inner(Part(pre, mid)[x]) \subseteq Between(mid, x[2], x[3])

LEMMA BuiltNodes ==
  ASSUME NEW pre \in Seq(Nat), NEW mid \in Seq(Nat)
  PROVE  \A x \in Parts(pre, mid) : NodesAt(pre, mid, x)
<1> DEFINE D == Parts(pre, mid)
           X == {x \in D : NodesAt(pre, mid, x)}
<1>0. NodesOf(NoTree) = {None} /\ Inner(NoTree) = {}
  BY DEF NoTree, NodesOf, Inner
<1>1. ASSUME NEW x \in D, \A y \in D : Size(y) < Size(x) => NodesAt(pre, mid, y)
      PROVE  NodesAt(pre, mid, x)
  <2> DEFINE f == Part(pre, mid)
             s == Split(pre, mid, x)
             l == LeftPart(pre, mid, f, x)
             r == RightPart(pre, mid, f, x)
             t == f[x]
             B == Between(mid, x[2], x[3])
  <2>1. CASE ~RootFound(pre, mid, x)
    <3>1. t = NoTree
      BY <2>1, PartMade
    <3> QED
      BY <1>0, <3>1 DEF NodesAt
  <2>2. CASE RootFound(pre, mid, x)
    <3>1. Halves(pre, mid, f, x)
      BY <2>2, HalvesAre
    <3>2. s \in Nat /\ x[2] \in Nat /\ x[3] \in Nat /\ x[2] <= s /\ s <= x[3] /\ mid[s] = pre[x[1]]
      BY <3>1 DEF Halves
    <3>3. pre[x[1]] \in B
      <4>1. s \in x[2]..x[3]
        BY <3>2
      <4> QED
        BY <3>2, <4>1 DEF Between
    <3>4. NodesOf(l) \subseteq B \cup {None} /\ Inner(l) \subseteq B
      <4>1. CASE s = x[2]
        <5>1. l = NoTree
          BY <3>1, <4>1 DEF Halves
        <5> QED
          BY <1>0, <5>1
      <4>2. CASE s > x[2]
        <5> DEFINE y == LeftAt(pre, mid, x)
        <5>1. y \in D /\ Size(y) < Size(x) /\ l = f[y]
          BY <3>1, <4>2 DEF Halves
        <5>2. NodesOf(l) \subseteq Between(mid, y[2], y[3]) \cup {None} /\ Inner(l) \subseteq Between(mid, y[2], y[3])
          BY <1>1, <5>1 DEF NodesAt
        <5>3. y[2] = x[2] /\ y[3] = s - 1
          BY DEF LeftAt
        <5>4. Between(mid, y[2], y[3]) \subseteq B
          <6>1. (x[2])..(s - 1) \subseteq x[2]..x[3]
            BY <3>2
          <6> QED
            BY <5>3, <6>1 DEF Between
        <5> QED
          BY <5>2, <5>4
      <4> QED
        BY <3>2, <4>1, <4>2
    <3>5. NodesOf(r) \subseteq B \cup {None} /\ Inner(r) \subseteq B
      <4>1. CASE s = x[3]
        <5>1. r = NoTree
          BY <3>1, <4>1 DEF Halves
        <5> QED
          BY <1>0, <5>1
      <4>2. CASE s < x[3]
        <5> DEFINE y == RightAt(pre, mid, x)
        <5>1. y \in D /\ Size(y) < Size(x) /\ r = f[y]
          BY <3>1, <4>2 DEF Halves
        <5>2. NodesOf(r) \subseteq Between(mid, y[2], y[3]) \cup {None} /\ Inner(r) \subseteq Between(mid, y[2], y[3])
          BY <1>1, <5>1 DEF NodesAt
        <5>3. y[2] = s + 1 /\ y[3] = x[3]
          BY DEF RightAt
        <5>4. Between(mid, y[2], y[3]) \subseteq B
          <6>1. (s + 1)..(x[3]) \subseteq x[2]..x[3]
            BY <3>2
          <6> QED
            BY <5>3, <6>1 DEF Between
        <5> QED
          BY <5>2, <5>4
      <4> QED
        BY <3>2, <4>1, <4>2
    <3>a. /\ x[2] = x[3] => t = [root |-> pre[x[1]], kids |-> l.kids \cup r.kids]
          /\ x[2] # x[3] => t = Join(pre[x[1]], l, r)
      BY <2>2, PartMade
    <3>6. CASE x[2] = x[3]
      <4>1. t = [root |-> pre[x[1]], kids |-> l.kids \cup r.kids]
        BY <3>6, <3>a
      <4> HIDE DEF t, l, r, B
      <4>2. t.root = pre[x[1]] /\ t.kids = l.kids \cup r.kids
        BY <4>1
      <4>3. NodesOf(t) \subseteq {t.root} \cup NodesOf(l) \cup NodesOf(r) /\ Inner(t) = Inner(l) \cup Inner(r)
        BY <4>2 DEF NodesOf, Inner
      <4>4. NodesOf(t) \subseteq B \cup {None} /\ Inner(t) \subseteq B
        BY <3>3, <3>4, <3>5, <4>2, <4>3
      <4> QED
        BY <4>4 DEF NodesAt, t, B
    <3>7. CASE x[2] # x[3]
      <4> DEFINE top == <<pre[x[1]], l.root, r.root>>
      <4>1. t = Join(pre[x[1]], l, r)
        BY <3>7, <3>a
      <4>2. t.root = pre[x[1]] /\ t.kids = l.kids \cup r.kids \cup {top}
        BY <4>1 DEF Join
      <4>3. top[1] = pre[x[1]] /\ top[2] = l.root /\ top[3] = r.root
        OBVIOUS
      <4> HIDE DEF t, l, r, B, top
      <4>4. /\ NodesOf(t) \subseteq {t.root} \cup NodesOf(l) \cup NodesOf(r)
            /\ Inner(t) = {t.root} \cup Inner(l) \cup Inner(r)
        BY <4>2, <4>3 DEF NodesOf, Inner
      <4>5. NodesOf(t) \subseteq B \cup {None} /\ Inner(t) \subseteq B
        BY <3>3, <3>4, <3>5, <4>2, <4>4
      <4> QED
        BY <4>5 DEF NodesAt, t, B
    <3> QED
      BY <3>6, <3>7
  <2> QED
    BY <2>1, <2>2
<1>2. X = D
  <2>1. \A x \in D : (\A y \in D : Size(y) < Size(x) => y \in X) => x \in X
    BY <1>1
  <2>2. X \in SUBSET D
    OBVIOUS
  <2> HIDE DEF X
  <2> QED
    BY <2>1, <2>2, PartInduction
<1> QED
  BY <1>2

----------------------------------------------------------------------------

\* What is built of a part is, if it is valid, a full tree of what stands there,
\* and both lists have its walks.
Built(pre, mid, x) ==
  ValidTree(Part(pre, mid)[x]) =>
    /\ Full(Part(pre, mid)[x])
    /\ NodesOf(Part(pre, mid)[x]) = Between(mid, x[2], x[3])
    /\ Listed(Part(pre, mid)[x], pre, mid, Part(pre, mid)[x].root, x)

\* Of a part of one place.
LEMMA BuiltLeaf ==
  ASSUME NEW pre \in Seq(Nat), NEW mid \in Seq(Nat), NEW x \in Parts(pre, mid),
         RootFound(pre, mid, x), x[2] = x[3]
  PROVE  Built(pre, mid, x)
<1> DEFINE f == Part(pre, mid)
           t == f[x]
           n == pre[x[1]]
           l == LeftPart(pre, mid, f, x)
           r == RightPart(pre, mid, f, x)
<1>1. Halves(pre, mid, f, x)
  BY HalvesAre
<1>2. /\ x[1] \in Nat /\ x[2] \in Nat /\ Split(pre, mid, x) = x[2] /\ mid[x[2]] = n
      /\ l = NoTree /\ r = NoTree
  BY <1>1 DEF Halves
<1>3. t = [root |-> n, kids |-> l.kids \cup r.kids]
  BY PartMade
<1>4. t = [root |-> n, kids |-> {}]
  BY <1>2, <1>3 DEF NoTree
<1>5. NodesOf(t) = {n} /\ Inner(t) = {} /\ t.root = n
  BY <1>4 DEF NodesOf, Inner
<1> SUFFICES ASSUME ValidTree(t)
             PROVE  Full(t) /\ NodesOf(t) = Between(mid, x[2], x[3]) /\ Listed(t, pre, mid, t.root, x)
  BY DEF Built
<1>6. n \in Byte
  BY <1>5 DEF ValidTree
<1> HIDE DEF t
<1>7. Full(t)
  BY <1>4, <1>6, LeafFull
<1>8. Between(mid, x[2], x[3]) = {n}
  <2>1. x[2]..x[3] = {x[2]}
    BY <1>2
  <2> QED
    BY <1>2, <2>1 DEF Between
<1>9. PreWalk(t)[n] = <<n>> /\ InWalk(t)[n] = <<n>>
  <2>1. n \in NodesOf(t) /\ n \notin Inner(t)
    BY <1>5
  <2> QED
    BY <1>7, <2>1, Walks
<1>10. Listed(t, pre, mid, n, x)
  <2>1. x[3] - x[2] + 1 = 1 /\ x[1] + 1 - 1 = x[1] /\ x[2] + 1 - 1 = x[2]
    BY <1>2
  <2>2. Len(<<n>>) = 1 /\ <<n>>[1] = n
    OBVIOUS
  <2>3. ASSUME NEW j \in 1..1 PROVE pre[x[1] + j - 1] = n /\ mid[x[2] + j - 1] = n
    <3>1. j = 1
      OBVIOUS
    <3> QED
      BY <1>2, <2>1, <3>1
  <2>4. \A j \in 1..1 : <<n>>[j] = n
    OBVIOUS
  <2> HIDE DEF n
  <2> QED
    BY <1>9, <2>1, <2>2, <2>3, <2>4 DEF Listed
<1> QED
  BY <1>5, <1>7, <1>8, <1>10

\* Neither side of a valid tree is missing, and both are valid.
LEMMA ValidSides ==
  ASSUME NEW n, NEW l, NEW r, ValidTree(Join(n, l, r)),
         \A m \in NodesOf(l) \ {None} : m # n /\ m \notin Inner(r),
         \A m \in NodesOf(r) \ {None} : m # n /\ m \notin Inner(l),
         None \notin Inner(l), None \notin Inner(r)
  PROVE  l.root # None /\ r.root # None /\ ValidTree(l) /\ ValidTree(r)
<1> DEFINE t == Join(n, l, r)
           top == <<n, l.root, r.root>>
<1>1. t.root = n /\ t.kids = l.kids \cup r.kids \cup {top}
  BY DEF Join
<1>2. top[1] = n /\ top[2] = l.root /\ top[3] = r.root
  OBVIOUS
<1> HIDE DEF t, top
<1>3. /\ \A k \in t.kids : None \notin {k[2], k[3]}
      /\ \A m \in NodesOf(t) \ Inner(t) : m \in Byte
  BY DEF ValidTree, t
<1>4. l.root # None /\ r.root # None
  BY <1>1, <1>2, <1>3
<1>5. None \notin NodesOf(l) /\ None \notin NodesOf(r)
  BY <1>1, <1>3, <1>4 DEF NodesOf, Inner
<1>6. NodesOf(l) \subseteq NodesOf(t) /\ NodesOf(r) \subseteq NodesOf(t)
  <2>1. top \in t.kids /\ l.kids \subseteq t.kids /\ r.kids \subseteq t.kids
    BY <1>1
  <2>2. l.root \in NodesOf(t) /\ r.root \in NodesOf(t)
    BY <1>2, <2>1 DEF NodesOf
  <2> QED
    BY <2>1, <2>2 DEF NodesOf
<1>7. Inner(t) = {n} \cup Inner(l) \cup Inner(r)
  BY <1>1, <1>2 DEF Inner
<1>8. l # NoTree /\ r # NoTree
  BY <1>4 DEF NoTree
<1>9. \A m \in NodesOf(l) \ Inner(l) : m \in Byte
  BY <1>3, <1>5, <1>6, <1>7
<1>10. \A m \in NodesOf(r) \ Inner(r) : m \in Byte
  BY <1>3, <1>5, <1>6, <1>7
<1> QED
  BY <1>1, <1>3, <1>4, <1>8, <1>9, <1>10 DEF ValidTree

\* Where the walks of the two sides are listed, with the root first or between
\* them, the walks of the whole are.
LEMMA ListedJoin ==
  ASSUME NEW t, Full(t), NEW k \in t.kids, NEW pre, NEW mid, NEW p \in Nat, NEW lo \in Nat,
         NEW hi \in Nat, NEW s \in Nat, lo <= s, s <= hi, pre[p] = k[1], mid[s] = k[1],
         Listed(t, pre, mid, k[2], <<p + 1, lo, s - 1>>),
         Listed(t, pre, mid, k[3], <<p + 1 + s - lo, s + 1, hi>>)
  PROVE  Listed(t, pre, mid, k[1], <<p, lo, hi>>)
<1> DEFINE P == PreWalk(t)
           I == InWalk(t)
           a == Len(P[k[2]])
           b == Len(P[k[3]])
<1>1. Places(k, P, I, a, b)
  BY WalkPlaces
<1>2. /\ a \in Nat /\ b \in Nat /\ Len(P[k[1]]) = a + b + 1
      /\ P[k[1]][1] = k[1] /\ I[k[1]][a + 1] = k[1]
      /\ \A j \in 1..a : P[k[1]][j + 1] = P[k[2]][j] /\ I[k[1]][j] = I[k[2]][j]
      /\ \A j \in 1..b : P[k[1]][j + a + 1] = P[k[3]][j] /\ I[k[1]][j + a + 1] = I[k[3]][j]
  BY <1>1 DEF Places
<1>3. /\ (s - 1) - lo + 1 = a
      /\ \A j \in 1..a : pre[(p + 1) + j - 1] = P[k[2]][j] /\ mid[lo + j - 1] = I[k[2]][j]
  BY DEF Listed
<1>4. /\ hi - (s + 1) + 1 = b
      /\ \A j \in 1..b : /\ pre[(p + 1 + s - lo) + j - 1] = P[k[3]][j]
                         /\ mid[(s + 1) + j - 1] = I[k[3]][j]
  BY DEF Listed
<1> DEFINE PP == P[k[1]]
           II == I[k[1]]
           root == k[1]
<1> HIDE DEF P, I, a, b, PP, II
<1>5. hi - lo + 1 = a + b + 1 /\ s = lo + a
  BY <1>2, <1>3, <1>4
<1>6. ASSUME NEW j \in 1..(a + b + 1) PROVE pre[p + j - 1] = PP[j]
  <2>1. CASE j = 1
    <3>1. p + 1 - 1 = p
      OBVIOUS
    <3> QED
      BY <1>2, <2>1, <3>1 DEF PP
  <2>2. CASE j \in 2..(a + 1)
    <3> DEFINE i == j - 1
    <3>1. i \in 1..a /\ i + 1 = j /\ (p + 1) + i - 1 = p + j - 1
      BY <1>2, <2>2
    <3> HIDE DEF i
    <3>2. pre[(p + 1) + i - 1] = PP[i + 1]
      BY <1>2, <1>3, <3>1 DEF PP
    <3> QED
      BY <3>1, <3>2
  <2>3. CASE j \in (a + 2)..(a + b + 1)
    <3> DEFINE i == j - a - 1
    <3>1. i \in 1..b /\ i + a + 1 = j /\ (p + 1 + s - lo) + i - 1 = p + j - 1
      <4>1. a \in Nat /\ b \in Nat /\ j \in Nat /\ j >= a + 2 /\ j <= a + b + 1
        BY <1>2, <2>3
      <4>2. i \in 1..b /\ i + a + 1 = j
        BY <4>1
      <4> HIDE DEF i
      <4>3. p + 1 + s - lo = p + 1 + a
        BY <1>5, <4>1
      <4>4. (p + 1 + a) + i - 1 = p + j - 1
        BY <4>1, <4>2
      <4> QED
        BY <4>2, <4>3, <4>4
    <3> HIDE DEF i
    <3>2. pre[(p + 1 + s - lo) + i - 1] = PP[i + a + 1]
      BY <1>2, <1>4, <3>1 DEF PP
    <3> QED
      BY <3>1, <3>2
  <2>4. j = 1 \/ j \in 2..(a + 1) \/ j \in (a + 2)..(a + b + 1)
    BY <1>2
  <2> QED
    BY <2>1, <2>2, <2>3, <2>4
<1>7. ASSUME NEW j \in 1..(a + b + 1) PROVE mid[lo + j - 1] = II[j]
  <2>1. CASE j \in 1..a
    BY <1>2, <1>3, <2>1 DEF II
  <2>2. CASE j = a + 1
    <3>1. lo + j - 1 = s
      BY <1>2, <1>5, <2>2
    <3> QED
      BY <1>2, <2>2, <3>1 DEF II
  <2>3. CASE j \in (a + 2)..(a + b + 1)
    <3> DEFINE i == j - a - 1
    <3>1. i \in 1..b /\ i + a + 1 = j /\ (s + 1) + i - 1 = lo + j - 1
      BY <1>2, <1>5, <2>3
    <3> HIDE DEF i
    <3>2. mid[(s + 1) + i - 1] = II[i + a + 1]
      BY <1>2, <1>4, <3>1 DEF II
    <3> QED
      BY <3>1, <3>2
  <2>4. j \in 1..a \/ j = a + 1 \/ j \in (a + 2)..(a + b + 1)
    <3>1. a \in Nat /\ b \in Nat
      BY <1>2
    <3> QED
      BY <3>1
  <2> QED
    BY <2>1, <2>2, <2>3, <2>4
<1>8. Len(PP) = a + b + 1
  BY <1>2 DEF PP
<1> DEFINE x == <<p, lo, hi>>
<1>9. x[1] = p /\ x[2] = lo /\ x[3] = hi
  OBVIOUS
<1> HIDE DEF x
<1>10. Listed(t, pre, mid, root, x)
  BY <1>5, <1>6, <1>7, <1>8, <1>9 DEF Listed, PP, II, P, I
<1> QED
  BY <1>10 DEF x

\* The names of nodes are numbers, and None is none of them.
LEMMA LabelsAreNumbers ==
  /\ Labels \subseteq Nat /\ None \notin Labels
  /\ \A s \in Seq(Labels) : s \in Seq(Nat)
<1>1. Labels \subseteq Nat /\ None \notin Labels
  BY SymbolsAssumption DEF Labels, None
<1>2. ASSUME NEW A, NEW B, A \subseteq B, NEW s \in Seq(A) PROVE s \in Seq(B)
  BY <1>2
<1> QED
  BY <1>1, <1>2

\* Of a longer part, from its two sides.
LEMMA BuiltInner ==
  ASSUME NEW pre \in Seq(Labels), NEW mid \in Seq(Labels), IsInjective(mid),
         NEW x \in Parts(pre, mid), RootFound(pre, mid, x), x[2] # x[3],
         \A y \in Parts(pre, mid) : Size(y) < Size(x) => Built(pre, mid, y)
  PROVE  Built(pre, mid, x)
<1> DEFINE f == Part(pre, mid)
           t == f[x]
           n == pre[x[1]]
           s == Split(pre, mid, x)
           l == LeftPart(pre, mid, f, x)
           r == RightPart(pre, mid, f, x)
           y == LeftAt(pre, mid, x)
           z == RightAt(pre, mid, x)
           L == Between(mid, x[2], s - 1)
           R == Between(mid, s + 1, x[3])
<1>0. /\ pre \in Seq(Nat) /\ mid \in Seq(Nat) /\ Labels \subseteq Nat /\ None \notin Labels
      /\ Len(mid) \in Nat /\ DOMAIN mid = 1..Len(mid) /\ \A i \in 1..Len(mid) : mid[i] \in Labels
  <2>1. /\ Labels \subseteq Nat /\ None \notin Labels
        /\ pre \in Seq(Nat) /\ mid \in Seq(Nat)
    BY LabelsAreNumbers
  <2>2. Len(mid) \in Nat /\ DOMAIN mid = 1..Len(mid) /\ \A i \in 1..Len(mid) : mid[i] \in Labels
    OBVIOUS
  <2> QED
    BY <2>1, <2>2
<1>1. Halves(pre, mid, f, x)
  BY <1>0, HalvesAre
<1>2. /\ x[1] \in Nat /\ x[2] \in Nat /\ x[3] \in Nat /\ x[2] >= 1
      /\ s \in Nat /\ x[2] <= s /\ s <= x[3] /\ mid[s] = n /\ x[3] <= Len(mid)
  BY <1>1 DEF Halves
<1>3. t = Join(n, l, r)
  <2>1. /\ x[2] = x[3] => t = [root |-> n, kids |-> l.kids \cup r.kids]
        /\ x[2] # x[3] => t = Join(n, l, r)
    BY <1>0, PartMade
  <2> QED
    BY <2>1
<1>4. y = <<x[1] + 1, x[2], s - 1>> /\ y[2] = x[2] /\ y[3] = s - 1
  BY DEF LeftAt
<1>5. z = <<x[1] + 1 + s - x[2], s + 1, x[3]>> /\ z[2] = s + 1 /\ z[3] = x[3]
  BY DEF RightAt
<1>6. /\ s > x[2] => y \in Parts(pre, mid) /\ Size(y) < Size(x) /\ l = f[y]
      /\ s < x[3] => z \in Parts(pre, mid) /\ Size(z) < Size(x) /\ r = f[z]
      /\ s = x[2] => l = NoTree
      /\ s = x[3] => r = NoTree
  BY <1>1 DEF Halves
<1>a. l.kids \cup r.kids \cup {<<n, l.root, r.root>>} = t.kids /\ t.root = n
  BY <1>3 DEF Join
<1>b. NodesOf(NoTree) = {None} /\ Inner(NoTree) = {} /\ NoTree.root = None
  BY DEF NoTree, NodesOf, Inner
<1>c. \A w \in Parts(pre, mid) : NodesAt(pre, mid, w)
  BY <1>0, BuiltNodes
<1> HIDE DEF y, z, l, r, n, s, t
<1>7. NodesOf(l) \subseteq L \cup {None} /\ Inner(l) \subseteq L
  <2>1. CASE s = x[2]
    BY <1>6, <1>b, <2>1
  <2>2. CASE s > x[2]
    <3>1. y \in Parts(pre, mid) /\ l = f[y]
      BY <1>6, <2>2
    <3>2. NodesAt(pre, mid, y)
      BY <1>c, <3>1
    <3> QED
      BY <1>4, <3>1, <3>2 DEF NodesAt
  <2> QED
    BY <1>2, <2>1, <2>2
<1>8. NodesOf(r) \subseteq R \cup {None} /\ Inner(r) \subseteq R
  <2>1. CASE s = x[3]
    BY <1>6, <1>b, <2>1
  <2>2. CASE s < x[3]
    <3>1. z \in Parts(pre, mid) /\ r = f[z]
      BY <1>6, <2>2
    <3>2. NodesAt(pre, mid, z)
      BY <1>c, <3>1
    <3> QED
      BY <1>5, <3>1, <3>2 DEF NodesAt
  <2> QED
    BY <1>2, <2>1, <2>2
<1>9. /\ L \cap R = {} /\ n \notin L /\ n \notin R /\ None \notin L /\ None \notin R /\ n \in Labels
      /\ {n} \cup L \cup R = Between(mid, x[2], x[3])
  <2>1. /\ \A i \in (x[2])..(s - 1) : i \in DOMAIN mid /\ i < s
        /\ \A i \in (s + 1)..(x[3]) : i \in DOMAIN mid /\ s < i
        /\ s \in DOMAIN mid
        /\ \A i \in (x[2])..(x[3]) : i = s \/ i \in (x[2])..(s - 1) \/ i \in (s + 1)..(x[3])
        /\ \A i \in (x[2])..(s - 1) : i \in (x[2])..(x[3])
        /\ \A i \in (s + 1)..(x[3]) : i \in (x[2])..(x[3])
        /\ s \in (x[2])..(x[3])
    BY <1>0, <1>2
  <2>2. /\ \A i \in (x[2])..(s - 1) : i # s
        /\ \A i \in (s + 1)..(x[3]) : i # s
        /\ \A i \in (x[2])..(s - 1) : \A j \in (s + 1)..(x[3]) : i # j
    <3>1. \A i \in (x[2])..(s - 1) : i \in Int
      OBVIOUS
    <3> QED
      BY <1>2, <2>1
  <2>3. \A i, j \in DOMAIN mid : mid[i] = mid[j] => i = j
    BY DEF IsInjective
  <2>4. \A i \in DOMAIN mid : mid[i] \in Labels
    BY <1>0
  <2>5. n \in Labels /\ n \notin L /\ n \notin R
    BY <1>2, <2>1, <2>2, <2>3, <2>4 DEF Between
  <2>6. L \cap R = {}
    BY <2>1, <2>2, <2>3 DEF Between
  <2>7. L \subseteq Labels /\ R \subseteq Labels
    BY <2>1, <2>4 DEF Between
  <2>8. {n} \cup L \cup R = Between(mid, x[2], x[3])
    BY <1>2, <2>1 DEF Between
  <2> QED
    BY <1>0, <2>5, <2>6, <2>7, <2>8
<1> SUFFICES ASSUME ValidTree(t)
             PROVE  Full(t) /\ NodesOf(t) = Between(mid, x[2], x[3]) /\ Listed(t, pre, mid, t.root, x)
  BY DEF Built, t
<1> HIDE DEF L, R, f
<1>10. l.root # None /\ r.root # None /\ ValidTree(l) /\ ValidTree(r)
  BY <1>3, <1>7, <1>8, <1>9, ValidSides
<1>11. s > x[2] /\ s < x[3]
  <2>1. s # x[2] /\ s # x[3]
    BY <1>6, <1>10, <1>b
  <2> QED
    BY <1>2, <2>1
<1>12. /\ l = f[y] /\ r = f[z] /\ Built(pre, mid, y) /\ Built(pre, mid, z)
  BY <1>6, <1>11
<1>13. Full(l) /\ NodesOf(l) = L /\ Listed(l, pre, mid, l.root, y)
  BY <1>4, <1>10, <1>12 DEF Built, L, f
<1>14. Full(r) /\ NodesOf(r) = R /\ Listed(r, pre, mid, r.root, z)
  BY <1>5, <1>10, <1>12 DEF Built, R, f
<1>15. /\ Full(t) /\ NodesOf(t) = {n} \cup L \cup R
       /\ Inner(t) = {n} \cup Inner(l) \cup Inner(r)
  BY <1>3, <1>9, <1>13, <1>14, JoinFull
<1>16. l.root \in L /\ r.root \in R
  BY <1>13, <1>14 DEF NodesOf
<1>17. \A m \in NodesOf(l) : PreWalk(l)[m] = PreWalk(t)[m] /\ InWalk(l)[m] = InWalk(t)[m]
  <2>1. l.kids \subseteq t.kids
    BY <1>a
  <2>2. Inner(t) \cap NodesOf(l) \subseteq Inner(l)
    BY <1>8, <1>9, <1>13, <1>15
  <2> QED
    BY <1>13, <1>15, <2>1, <2>2, WalkOf
<1>18. \A m \in NodesOf(r) : PreWalk(r)[m] = PreWalk(t)[m] /\ InWalk(r)[m] = InWalk(t)[m]
  <2>1. r.kids \subseteq t.kids
    BY <1>a
  <2>2. Inner(t) \cap NodesOf(r) \subseteq Inner(r)
    BY <1>7, <1>9, <1>14, <1>15
  <2> QED
    BY <1>14, <1>15, <2>1, <2>2, WalkOf
<1>19. Listed(t, pre, mid, l.root, y) /\ Listed(t, pre, mid, r.root, z)
  BY <1>13, <1>14, <1>16, <1>17, <1>18 DEF Listed
<1>20. Listed(t, pre, mid, n, x)
  <2> DEFINE k == <<n, l.root, r.root>>
             p == x[1]
             lo == x[2]
             hi == x[3]
  <2>1. k[1] = n /\ k[2] = l.root /\ k[3] = r.root /\ k \in t.kids
    BY <1>a
  <2>2. x = <<p, lo, hi>> /\ p \in Nat /\ lo \in Nat /\ hi \in Nat
    BY <1>2 DEF Parts
  <2> HIDE DEF k
  <2>3. /\ Listed(t, pre, mid, k[2], <<p + 1, lo, s - 1>>)
        /\ Listed(t, pre, mid, k[3], <<p + 1 + s - lo, s + 1, hi>>)
    BY <1>4, <1>5, <1>19, <2>1
  <2>4. lo <= s /\ s <= hi /\ s \in Nat /\ pre[p] = k[1] /\ mid[s] = k[1]
    BY <1>2, <2>1 DEF n
  <2> HIDE DEF p, lo, hi
  <2>5. Listed(t, pre, mid, k[1], <<p, lo, hi>>)
    BY <1>15, <2>1, <2>2, <2>3, <2>4, ListedJoin
  <2> QED
    BY <2>1, <2>2, <2>5
<1> QED
  BY <1>9, <1>15, <1>20, <1>a

LEMMA BuiltFull ==
  ASSUME NEW pre \in Seq(Labels), NEW mid \in Seq(Labels), IsInjective(mid)
  PROVE  \A x \in Parts(pre, mid) : Built(pre, mid, x)
<1> DEFINE D == Parts(pre, mid)
           X == {x \in D : Built(pre, mid, x)}
<1>0. pre \in Seq(Nat) /\ mid \in Seq(Nat)
  BY LabelsAreNumbers
<1>1. ASSUME NEW x \in D, \A y \in D : Size(y) < Size(x) => Built(pre, mid, y)
      PROVE  Built(pre, mid, x)
  <2>1. CASE ~RootFound(pre, mid, x)
    <3>1. Part(pre, mid)[x] = NoTree
      BY <1>0, <2>1, PartMade
    <3> QED
      BY <3>1 DEF Built, ValidTree
  <2>2. CASE RootFound(pre, mid, x) /\ x[2] = x[3]
    BY <1>0, <2>2, BuiltLeaf
  <2>3. CASE RootFound(pre, mid, x) /\ x[2] # x[3]
    BY <1>1, <2>3, BuiltInner
  <2> QED
    BY <2>1, <2>2, <2>3
<1>2. X = D
  <2>1. \A x \in D : (\A y \in D : Size(y) < Size(x) => y \in X) => x \in X
    BY <1>1
  <2>2. X \in SUBSET D
    OBVIOUS
  <2> HIDE DEF X
  <2> QED
    BY <1>0, <2>1, <2>2, PartInduction
<1> QED
  BY <1>2

\* What a decoder accepts is a full tree, and what it was sent its traversals.
LEMMA TreeFromExact ==
  ASSUME NEW pre \in Seq(Labels), NEW mid \in Seq(Labels), NEW t,
         t = TreeFrom(pre, mid), t # NoTree
  PROVE  Full(t) /\ Preorder(t) = pre /\ Inorder(t) = mid
<1> DEFINE n == Len(mid)
           x == <<1, 1, n>>
<1>1. /\ pre # << >> /\ Len(pre) = Len(mid) /\ IsInjective(mid)
      /\ ValidTree(Build(pre, mid)) /\ t = Build(pre, mid)
  BY DEF TreeFrom
<1>2. n \in Nat /\ n >= 1
  BY <1>1
<1>3. x[1] = 1 /\ x[2] = 1 /\ x[3] = n
  OBVIOUS
<1>4. x \in Parts(pre, mid)
  BY <1>1, <1>2 DEF Parts
<1>5. t = Part(pre, mid)[x]
  BY <1>1, BuildMeans
<1> HIDE DEF x, n
<1>6. Built(pre, mid, x)
  BY <1>1, <1>4, BuiltFull
<1>7. Full(t) /\ Listed(t, pre, mid, t.root, x)
  BY <1>1, <1>5, <1>6 DEF Built
<1> DEFINE P == PreWalk(t)[t.root]
           I == InWalk(t)[t.root]
<1>8. t.root \in NodesOf(t)
  BY DEF NodesOf
<1>9. Walked(t, t.root)
  BY <1>7, <1>8, WalkedAll
<1>10. P \in Seq(NodesOf(t)) /\ I \in Seq(NodesOf(t)) /\ Len(P) = Len(I)
  BY <1>9 DEF Walked
<1>11. n - 1 + 1 = Len(P) /\ \A j \in 1..Len(P) : pre[1 + j - 1] = P[j] /\ mid[1 + j - 1] = I[j]
  BY <1>3, <1>7 DEF Listed
<1> HIDE DEF P, I
<1>12. Len(P) = n
  BY <1>2, <1>11
<1>13. ASSUME NEW j \in 1..n PROVE pre[j] = P[j] /\ mid[j] = I[j]
  <2>1. 1 + j - 1 = j
    BY <1>2
  <2> QED
    BY <1>11, <1>12, <2>1
<1>14. Len(pre) = n /\ Len(mid) = n
  BY <1>1 DEF n
<1>15. ASSUME NEW S, NEW T, NEW a \in Seq(S), NEW b \in Seq(T), Len(a) = n, Len(b) = n,
              \A j \in 1..n : a[j] = b[j]
       PROVE  a = b
  BY <1>15
<1>16. pre = P /\ mid = I
  BY <1>10, <1>12, <1>13, <1>14, <1>15
<1>17. Preorder(t) = P /\ Inorder(t) = I
  BY WalkMeans DEF P, I
<1> QED
  BY <1>7, <1>16, <1>17

----------------------------------------------------------------------------
(***************************************************************************)
(* What a decoder reads                                                    *)
(*                                                                         *)
(* As long as nothing is refused, the bits so far are the codes of the     *)
(* bytes that are out and the way to where the decoder is.                 *)
(***************************************************************************)

\* One sequence more is flattened behind the others.
LEMMA FlattenAppend ==
  ASSUME NEW S, NEW ss \in Seq(Seq(S)), NEW c \in Seq(S)
  PROVE  FlattenSeq(Append(ss, c)) = FlattenSeq(ss) \o c
<1> DEFINE n == Len(ss)
           us == Append(ss, c)
           F == Flat(ss)
           G == Flat(us)
<1>1. /\ n \in Nat /\ us \in Seq(Seq(S)) /\ Len(us) = n + 1 /\ us[n + 1] = c
      /\ \A i \in 1..n : us[i] = ss[i]
  OBVIOUS
<1> HIDE DEF us
<1>2. Len(us) # 0
  BY <1>1
<1>3. /\ G[1] = us[1]
      /\ \A i \in 2..(n + 1) : G[i] = G[i - 1] \o us[i]
  BY <1>1, <1>2, FlatSteps
<1>4. FlattenSeq(us) = G[n + 1]
  BY <1>1, <1>2, FlattenMeans
<1>5. CASE n = 0
  <2>1. FlattenSeq(ss) = ss /\ ss = << >>
    BY <1>5 DEF FlattenSeq
  <2>2. FlattenSeq(us) = c
    BY <1>1, <1>3, <1>4, <1>5
  <2>3. << >> \o c = c
    OBVIOUS
  <2> QED
    BY <2>1, <2>2, <2>3 DEF us
<1>6. CASE n # 0
  <2>1. /\ F[1] = ss[1]
        /\ \A i \in 2..n : F[i] = F[i - 1] \o ss[i]
    BY <1>6, FlatSteps
  <2>2. FlattenSeq(ss) = F[n]
    BY <1>6, FlattenMeans
  <2> DEFINE I == {i \in Nat : i \in 1..n => G[i] = F[i]}
  <2> HIDE DEF F, G, n
  <2>3. 0 \in I
    OBVIOUS
  <2>4. ASSUME NEW i \in Nat, i \in I PROVE i + 1 \in I
    <3> SUFFICES ASSUME i + 1 \in 1..n PROVE G[i + 1] = F[i + 1]
      OBVIOUS
    <3>1. CASE i = 0
      <4>1. 1 \in 1..n
        BY <3>1
      <4>2. G[1] = F[1]
        BY <1>1, <1>3, <2>1, <4>1
      <4> QED
        BY <3>1, <4>2
    <3>2. CASE i # 0
      <4> DEFINE e == i + 1
      <4>1. i \in 1..n /\ e \in 2..n /\ e \in 2..(n + 1) /\ e - 1 = i /\ e \in 1..n
        BY <1>1, <3>2
      <4> HIDE DEF e
      <4>2. G[i] = F[i]
        BY <2>4, <4>1
      <4>3. G[e] = G[e - 1] \o us[e] /\ F[e] = F[e - 1] \o ss[e] /\ us[e] = ss[e]
        BY <1>1, <1>3, <2>1, <4>1
      <4>4. G[e] = F[e]
        BY <4>1, <4>2, <4>3
      <4> QED
        BY <4>4 DEF e
    <3> QED
      BY <3>1, <3>2
  <2>5. I = Nat
    <3>1. I \in SUBSET Nat
      OBVIOUS
    <3> HIDE DEF I
    <3> QED
      BY <2>3, <2>4, <3>1, Induction
  <2>6. n \in 1..n /\ n \in Nat
    BY <1>1, <1>6
  <2>7. G[n] = F[n]
    <3>1. n \in I
      BY <2>5, <2>6
    <3> QED
      BY <2>6, <3>1
  <2>8. n + 1 \in 2..(n + 1) /\ (n + 1) - 1 = n
    BY <1>1, <1>6
  <2>9. G[n + 1] = G[n] \o us[n + 1]
    <3> DEFINE e == n + 1
    <3>1. e \in 2..(n + 1) /\ e - 1 = n
      BY <2>8
    <3> HIDE DEF e
    <3>2. G[e] = G[e - 1] \o us[e]
      BY <1>3, <3>1
    <3>3. G[e] = G[n] \o us[e]
      BY <3>1, <3>2
    <3> QED
      BY <3>3 DEF e
  <2> QED
    BY <1>1, <1>4, <2>2, <2>7, <2>9 DEF us
<1> QED
  BY <1>5, <1>6

\* The code of one byte more.
LEMMA CodeAppend ==
  ASSUME NEW t, Full(t), t.root \in Inner(t), NEW data \in Seq(NodesOf(t) \ Inner(t)),
         NEW m \in NodesOf(t) \ Inner(t)
  PROVE  /\ CodeAll(t, data) \in Seq({0, 1})
         /\ CodeAll(t, Append(data, m)) = CodeAll(t, data) \o Way(t)[m]
<1> DEFINE L == NodesOf(t) \ Inner(t)
           more == Append(data, m)
           V == Seq({0, 1})
<1>1. L \subseteq Byte
  BY NodeRank
<1>2. ASSUME NEW s \in Seq(L) PROVE s \in Seq(Byte) /\ Covers(t, s)
  <2>1. s \in Seq(Byte)
    BY <1>1
  <2>2. \A i \in DOMAIN s : s[i] \in L
    OBVIOUS
  <2> QED
    BY <2>1, <2>2 DEF Covers
<1>3. /\ more \in Seq(L) /\ Len(more) = Len(data) + 1 /\ more[Len(data) + 1] = m
      /\ \A i \in 1..Len(data) : more[i] = data[i]
  OBVIOUS
<1> HIDE DEF more, L
<1>4. /\ CodeAll(t, data) = FlattenSeq(WaysTo(t, data)) /\ WaysTo(t, data) \in Seq(V)
      /\ CodeAll(t, data) \in V
  <2>1. data \in Seq(Byte) /\ Covers(t, data)
    BY <1>2 DEF L
  <2> QED
    BY <2>1, CodeAllMeans, CodesLaid
<1>5. CodeAll(t, more) = FlattenSeq(WaysTo(t, more)) /\ WaysTo(t, more) \in Seq(V)
  <2>1. more \in Seq(Byte) /\ Covers(t, more)
    BY <1>2, <1>3
  <2> QED
    BY <2>1, CodeAllMeans
<1>6. Way(t)[m] \in V
  BY WayDefined
<1>7. WaysTo(t, more) = Append(WaysTo(t, data), Way(t)[m])
  <2> DEFINE a == WaysTo(t, more)
             b == WaysTo(t, data)
             n == Len(data)
             w == Way(t)[m]
  <2>1. /\ n \in Nat /\ DOMAIN data = 1..n /\ DOMAIN more = 1..(n + 1)
    <3>1. DOMAIN more = 1..Len(more) /\ DOMAIN data = 1..n /\ n \in Nat
      BY <1>3
    <3> QED
      BY <1>3, <3>1
  <2>2. Len(a) = n + 1 /\ Len(b) = n
    BY <2>1 DEF WaysTo
  <2>3. \A i \in 1..n : i \in 1..(n + 1)
    BY <2>1
  <2>4. \A i \in 1..n : a[i] = b[i]
    BY <1>3, <2>1, <2>3 DEF WaysTo
  <2>5. a[n + 1] = w
    <3>1. n + 1 \in 1..(n + 1)
      BY <2>1
    <3> QED
      BY <1>3, <2>1, <3>1 DEF WaysTo
  <2>6. a \in Seq(V) /\ b \in Seq(V) /\ w \in V
    BY <1>4, <1>5, <1>6
  <2> HIDE DEF a, b, w, V, n
  <2>7. a = Append(b, w)
    BY <2>1, <2>2, <2>4, <2>5, <2>6
  <2> QED
    BY <2>7 DEF a, b, w
<1>8. FlattenSeq(Append(WaysTo(t, data), Way(t)[m])) = FlattenSeq(WaysTo(t, data)) \o Way(t)[m]
  <2> DEFINE b == WaysTo(t, data)
             w == Way(t)[m]
  <2>1. b \in Seq(V) /\ w \in V
    BY <1>4, <1>6
  <2> HIDE DEF b, w
  <2>2. FlattenSeq(Append(b, w)) = FlattenSeq(b) \o w
    BY <2>1, FlattenAppend
  <2> QED
    BY <2>2 DEF b, w
<1> QED
  BY <1>4, <1>5, <1>7, <1>8 DEF more

\* The first n bits.
FirstBits(bits, n) == [j \in 1..n |-> bits[j]]

\* The bits so far are the codes of what is out and the way to where it is.
Sound(t, bits, n) ==
  /\ After(t, bits, n) \in States
  /\ After(t, bits, n).ok =>
       /\ After(t, bits, n).at \in Inner(t)
       /\ After(t, bits, n).data \in Seq(NodesOf(t) \ Inner(t))
       /\ Len(After(t, bits, n).data) <= n
       /\ CodeAll(t, After(t, bits, n).data) \o Way(t)[After(t, bits, n).at] = FirstBits(bits, n)

\* One bit more.
LEMMA SoundStep ==
  ASSUME NEW t, Full(t), t.root \in Inner(t), NEW bits \in Seq({0, 1}),
         NEW n \in Nat, n + 1 <= Len(bits), Sound(t, bits, n)
  PROVE  Sound(t, bits, n + 1)
<1> DEFINE st == After(t, bits, n)
           e == n + 1
           b == bits[e]
           nxt == After(t, bits, e)
           L == NodesOf(t) \ Inner(t)
<1>1. e \in 1..Len(bits) /\ e - 1 = n /\ b \in {0, 1}
  <2>1. Len(bits) \in Nat
    OBVIOUS
  <2>2. e \in 1..Len(bits) /\ e - 1 = n
    BY <2>1
  <2> QED
    BY <2>2
<1> HIDE DEF e
<1>2. nxt = Take(t, st, b)
  BY <1>1, AfterSteps
<1>3. /\ st \in States
      /\ st.ok => /\ st.at \in Inner(t) /\ st.data \in Seq(L) /\ Len(st.data) <= n
                  /\ CodeAll(t, st.data) \o Way(t)[st.at] = FirstBits(bits, n)
  BY DEF Sound
<1>4. FirstBits(bits, e) = Append(FirstBits(bits, n), b) /\ FirstBits(bits, n) \in Seq({0, 1})
  <2> DEFINE p == FirstBits(bits, n)
             q == FirstBits(bits, e)
  <2>1. \A j \in 1..e : bits[j] \in {0, 1}
    BY <1>1
  <2>2. e = n + 1
    BY DEF e
  <2>3. p \in Seq({0, 1}) /\ Len(p) = n
    BY <2>1, <2>2 DEF FirstBits
  <2>4. q \in Seq({0, 1}) /\ Len(q) = n + 1
    BY <2>1, <2>2 DEF FirstBits
  <2>5. \A j \in 1..n : q[j] = p[j]
    BY <2>2 DEF FirstBits
  <2>6. q[n + 1] = b
    BY <2>2 DEF FirstBits
  <2> HIDE DEF p, q, b
  <2>7. b \in {0, 1}
    BY <1>1
  <2>8. q = Append(p, b)
    BY <2>3, <2>4, <2>5, <2>6, <2>7
  <2> QED
    BY <2>3, <2>8 DEF p, q
<1> HIDE DEF st, b, nxt
<1>5. nxt \in States
  BY <1>1, <1>2, <1>3, TakeType
<1> SUFFICES ASSUME nxt.ok
             PROVE  /\ nxt.at \in Inner(t) /\ nxt.data \in Seq(L) /\ Len(nxt.data) <= e
                    /\ CodeAll(t, nxt.data) \o Way(t)[nxt.at] = FirstBits(bits, e)
  BY <1>5 DEF Sound, nxt, e
<1> DEFINE m == Child(t, st.at, b)
<1>6. nxt = IF ~st.ok \/ m = None THEN [st EXCEPT !.ok = FALSE]
              ELSE IF m \in Inner(t) THEN [st EXCEPT !.at = m]
              ELSE [at |-> t.root, data |-> Append(st.data, m), ok |-> m \in Byte]
  BY <1>2 DEF Take
<1>7. st.ok = TRUE /\ m # None
  <2> SUFFICES ASSUME ~st.ok \/ m = None PROVE FALSE
    BY <1>3 DEF States
  <2> HIDE DEF m
  <2>1. nxt = [st EXCEPT !.ok = FALSE]
    BY <1>6
  <2>2. nxt.ok = FALSE
    BY <1>3, <2>1 DEF States
  <2> QED
    BY <2>2
<1>8. /\ st.at \in Inner(t) /\ st.data \in Seq(L) /\ Len(st.data) <= n
      /\ CodeAll(t, st.data) \o Way(t)[st.at] = FirstBits(bits, n)
  BY <1>3, <1>7
<1>9. PICK k \in t.kids : k[1] = st.at
  BY <1>8 DEF Inner
<1>10. m \in NodesOf(t) /\ st.at \in NodesOf(t) /\ Way(t)[m] = Append(Way(t)[st.at], b)
  <2>1. /\ Child(t, k[1], 0) = k[2] /\ Child(t, k[1], 1) = k[3]
        /\ k[1] \in NodesOf(t) /\ k[2] \in NodesOf(t) /\ k[3] \in NodesOf(t)
    BY ChildOf
  <2>2. Way(t)[k[2]] = Append(Way(t)[k[1]], 0) /\ Way(t)[k[3]] = Append(Way(t)[k[1]], 1)
    BY Ways
  <2>3. CASE b = 0
    BY <1>9, <2>1, <2>2, <2>3
  <2>4. CASE b = 1
    BY <1>9, <2>1, <2>2, <2>4
  <2> QED
    BY <1>1, <2>3, <2>4
<1> HIDE DEF m
<1>11. Way(t)[st.at] \in Seq({0, 1}) /\ Way(t)[m] \in Seq({0, 1})
  BY <1>10, WayDefined
<1>12. /\ CodeAll(t, st.data) \in Seq({0, 1})
       /\ m \in L => CodeAll(t, Append(st.data, m)) = CodeAll(t, st.data) \o Way(t)[m]
  <2>1. \E x \in L : TRUE
    <3> SUFFICES ASSUME L = {} PROVE FALSE
      OBVIOUS
    <3> DEFINE X == {}
    <3>1. \A x \in NodesOf(t) \ Inner(t) : x \in X
      OBVIOUS
    <3>2. X \in SUBSET NodesOf(t) /\ \A p \in t.kids : p[2] \in X /\ p[3] \in X => p[1] \in X
      OBVIOUS
    <3> HIDE DEF X
    <3>3. X = NodesOf(t)
      BY <3>1, <3>2, Upwards
    <3> QED
      BY <1>10, <3>3 DEF X
  <2>2. PICK x \in L : TRUE
    BY <2>1
  <2>3. CodeAll(t, st.data) \in Seq({0, 1})
    BY <1>8, <2>2, CodeAppend
  <2> QED
    BY <1>8, <2>3, CodeAppend
<1>13. CodeAll(t, st.data) \o Way(t)[m] = FirstBits(bits, e)
  <2> DEFINE c == CodeAll(t, st.data)
             w == Way(t)[st.at]
             p == FirstBits(bits, n)
  <2>1. c \in Seq({0, 1}) /\ w \in Seq({0, 1}) /\ b \in {0, 1} /\ c \o w = p
    BY <1>1, <1>8, <1>11, <1>12
  <2> HIDE DEF c, w, p
  <2>2. c \o Append(w, b) = Append(c \o w, b)
    BY <2>1
  <2>3. c \o Append(w, b) = Append(p, b)
    BY <2>1, <2>2
  <2> QED
    BY <1>4, <1>10, <2>3 DEF c, w, p
<1>14. n <= e /\ n + 1 <= e
  BY DEF e
<1>15. CASE m \in Inner(t)
  <2>1. nxt = [st EXCEPT !.at = m]
    BY <1>6, <1>7, <1>15
  <2>2. m \in Nat
    BY <1>10, NodeRank
  <2> DEFINE d == st.data
  <2>3. st.data = d
    OBVIOUS
  <2> HIDE DEF d
  <2>4. nxt = [at |-> m, data |-> d, ok |-> TRUE]
    BY <1>3, <1>7, <2>1, <2>2, <2>3, Moved
  <2>5. nxt.at = m /\ nxt.data = st.data
    BY <2>3, <2>4
  <2>6. Len(st.data) <= e
    <3>1. Len(st.data) \in Nat /\ n \in Nat
      BY <1>8
    <3> QED
      BY <1>8, <3>1 DEF e
  <2> QED
    BY <1>8, <1>13, <1>15, <2>5, <2>6
<1>16. CASE m \notin Inner(t)
  <2>1. nxt = [at |-> t.root, data |-> Append(st.data, m), ok |-> m \in Byte]
    BY <1>6, <1>7, <1>16
  <2>2. nxt.at = t.root /\ nxt.data = Append(st.data, m)
    BY <2>1
  <2>3. m \in L
    BY <1>10, <1>16
  <2>4. Append(st.data, m) \in Seq(L) /\ Len(Append(st.data, m)) = Len(st.data) + 1
    BY <1>8, <2>3
  <2>5. Len(st.data) + 1 <= e
    <3>1. Len(st.data) \in Nat /\ n \in Nat
      BY <1>8
    <3> QED
      BY <1>8, <3>1 DEF e
  <2>6. CodeAll(t, nxt.data) \o Way(t)[nxt.at] = FirstBits(bits, e)
    <3>1. Way(t)[t.root] = << >>
      BY Ways
    <3> DEFINE c == CodeAll(t, st.data) \o Way(t)[m]
    <3>2. CodeAll(t, nxt.data) = c
      BY <1>12, <2>2, <2>3
    <3>3. c \in Seq({0, 1})
      BY <1>11, <1>12
    <3> HIDE DEF c
    <3>4. c \o << >> = c
      BY <3>3
    <3> QED
      BY <1>13, <2>2, <3>1, <3>2, <3>4 DEF c
  <2> QED
    BY <2>2, <2>4, <2>5, <2>6
<1> QED
  BY <1>15, <1>16

----------------------------------------------------------------------------

LEMMA ReadSound ==
  ASSUME NEW t, Full(t), t.root \in Inner(t), NEW bits \in Seq({0, 1})
  PROVE  Sound(t, bits, Len(bits))
<1> DEFINE S == {n \in Nat : n <= Len(bits) => Sound(t, bits, n)}
<1>1. 0 \in S
  <2> DEFINE st == AtRoot(t, << >>)
             no == << >>
  <2>1. After(t, bits, 0) = st
    BY AfterSteps
  <2>2. t.root \in NodesOf(t)
    BY DEF NodesOf
  <2>3. t.root \in Nat
    BY <2>2, NodeRank
  <2>4. st \in States /\ st.at = t.root /\ st.data = << >>
    BY <2>3 DEF States, AtRoot
  <2>5. Way(t)[t.root] = << >>
    BY Ways
  <2>6. FirstBits(bits, 0) = << >>
    BY DEF FirstBits
  <2>7. CodeAll(t, no) = << >>
    <3>1. Len(no) = 0 /\ no \in Seq(Byte) /\ DOMAIN no = {}
      OBVIOUS
    <3>2. Covers(t, no)
      BY <3>1 DEF Covers
    <3>3. WaysTo(t, no) = << >>
      BY DEF WaysTo
    <3> HIDE DEF no
    <3>4. CodeAll(t, no) = FlattenSeq(WaysTo(t, no))
      BY <3>1, <3>2, CodeAllMeans
    <3> QED
      BY <3>3, <3>4 DEF FlattenSeq
  <2>8. << >> \in Seq(NodesOf(t) \ Inner(t)) /\ Len(<< >>) <= 0 /\ << >> \o << >> = << >>
    OBVIOUS
  <2> HIDE DEF st
  <2>9. Sound(t, bits, 0)
    BY <2>1, <2>4, <2>5, <2>6, <2>7, <2>8 DEF Sound
  <2> QED
    BY <2>9
<1>2. ASSUME NEW n \in Nat, n \in S PROVE n + 1 \in S
  <2> SUFFICES ASSUME n + 1 <= Len(bits) PROVE Sound(t, bits, n + 1)
    OBVIOUS
  <2>1. n <= Len(bits)
    OBVIOUS
  <2>2. Sound(t, bits, n)
    BY <1>2, <2>1
  <2> HIDE DEF S
  <2> QED
    BY <2>2, SoundStep
<1>3. S = Nat
  <2>1. S \in SUBSET Nat
    OBVIOUS
  <2> HIDE DEF S
  <2> QED
    BY <1>1, <1>2, <2>1, Induction
<1>4. Len(bits) \in S /\ Len(bits) <= Len(bits)
  <2>1. Len(bits) \in Nat
    OBVIOUS
  <2> HIDE DEF S
  <2> QED
    BY <1>3, <2>1
<1> QED
  BY <1>4

----------------------------------------------------------------------------
(***************************************************************************)
(* What is proved of HuffmanTrees                                          *)
(***************************************************************************)

\* The state is two lists of nodes and, after a tree, bits, within the bounds.
THEOREM TreesTypeCorrect == TreesSpec => []TreesTypeOK
<1>1. TreesInit => TreesTypeOK
  BY TreesAssumption DEF TreesInit, TreesTypeOK
<1>2. TreesTypeOK /\ [TreesNext]_treesVars => TreesTypeOK'
  <2> SUFFICES ASSUME TreesTypeOK, [TreesNext]_treesVars PROVE TreesTypeOK'
    OBVIOUS
  <2>1. CASE AddNode
    <3>1. PICK a \in Labels, b \in Labels :
            preNodes' = Append(preNodes, a) /\ midNodes' = Append(midNodes, b)
      BY <2>1 DEF AddNode
    <3>2. codeBits' = codeBits /\ Len(preNodes) < MaxNodes
      BY <2>1 DEF AddNode
    <3>3. preNodes \in Seq(Labels) /\ midNodes \in Seq(Labels) /\ Len(preNodes) = Len(midNodes)
      BY DEF TreesTypeOK
    <3>4. /\ preNodes' \in Seq(Labels) /\ Len(preNodes') = Len(preNodes) + 1
          /\ midNodes' \in Seq(Labels) /\ Len(midNodes') = Len(midNodes) + 1
      BY <3>1, <3>3
    <3>5. Len(preNodes) \in Nat /\ MaxNodes \in Nat
      BY <3>3, TreesAssumption
    <3>6. Len(preNodes') <= MaxNodes /\ Len(preNodes') = Len(midNodes')
      BY <3>2, <3>3, <3>4, <3>5
    <3> QED
      BY <3>2, <3>4, <3>6 DEF TreesTypeOK
  <2>2. CASE AddBit
    <3>1. PICK b \in {0, 1} : codeBits' = Append(codeBits, b)
      BY <2>2 DEF AddBit
    <3>2. preNodes' = preNodes /\ midNodes' = midNodes /\ Len(codeBits) < MaxBits
      BY <2>2 DEF AddBit
    <3>3. codeBits \in Seq({0, 1}) /\ Len(codeBits) \in Nat /\ MaxBits \in Nat
      BY TreesAssumption DEF TreesTypeOK
    <3>4. codeBits' \in Seq({0, 1}) /\ Len(codeBits') = Len(codeBits) + 1
      BY <3>1, <3>3
    <3>5. Len(codeBits') <= MaxBits
      BY <3>2, <3>3, <3>4
    <3> QED
      BY <3>2, <3>4, <3>5 DEF TreesTypeOK
  <2>3. CASE UNCHANGED treesVars
    BY <2>3 DEF treesVars, TreesTypeOK
  <2> QED
    BY <2>1, <2>2, <2>3 DEF TreesNext
<1> QED
  BY <1>1, <1>2, PTL DEF TreesSpec

\* For any two lists: what TreeFrom accepts is full and has them as its
\* traversals; what is full and has them is what TreeFrom makes.
LEMMA RebuildsAlways ==
  ASSUME TreesTypeOK
  PROVE  RebuildsExactly
<1> DEFINE pre == preNodes
           mid == midNodes
           trees == {t \in FullTrees : Preorder(t) = pre /\ Inorder(t) = mid}
           built == TreeFrom(pre, mid)
<1>1. pre \in Seq(Labels) /\ mid \in Seq(Labels)
  BY DEF TreesTypeOK
<1>2. built # NoTree => built \in trees
  <2> SUFFICES ASSUME built # NoTree PROVE built \in trees
    OBVIOUS
  <2> HIDE DEF pre, mid, built
  <2>1. built = TreeFrom(pre, mid)
    BY DEF built
  <2>2. Full(built) /\ Preorder(built) = pre /\ Inorder(built) = mid
    BY <1>1, <2>1, TreeFromExact
  <2>3. built \in FullTrees
    BY <2>2, FullTreesAre
  <2> QED
    BY <2>2, <2>3
<1>3. ASSUME NEW t \in trees PROVE built = t /\ t # NoTree
  <2>1. Full(t)
    BY FullTreesAre
  <2>2. built = t
    BY <2>1, TreeBack
  <2>3. t.root \in Labels
    BY <2>1 DEF Full
  <2>4. t # NoTree
    BY <2>3, LabelsAreNumbers DEF NoTree
  <2> QED
    BY <2>2, <2>4
<1>4. RebuildsExactly <=> IF trees = {} THEN built = NoTree ELSE trees = {built}
  <2> DEFINE listed == {t \in FullTrees : Traversed[t] = <<pre, mid>>}
  <2>1. ASSUME NEW t \in FullTrees
        PROVE  Traversed[t] = <<pre, mid>> <=> Preorder(t) = pre /\ Inorder(t) = mid
    <3>1. Traversed[t] = <<Preorder(t), Inorder(t)>>
      BY DEF Traversed
    <3> QED
      BY <3>1
  <2>2. listed = trees
    BY <2>1
  <2>3. RebuildsExactly <=> IF listed = {} THEN built = NoTree ELSE listed = {built}
    BY DEF RebuildsExactly
  <2> HIDE DEF listed, trees, built
  <2> QED
    BY <2>2, <2>3
<1> HIDE DEF trees, built
<1>5. CASE trees = {}
  BY <1>2, <1>4, <1>5
<1>6. CASE trees # {}
  <2>1. trees = {built}
    BY <1>3, <1>6
  <2> QED
    BY <1>4, <2>1
<1> QED
  BY <1>5, <1>6

\* treeFrom accepts two lists exactly when they are the traversals of a full
\* tree, and rebuilds that tree: for a byte of any number of values and lists of
\* any length.
THEOREM TreesRebuilt == TreesSpec => []RebuildsExactly
BY TreesTypeCorrect, RebuildsAlways, PTL

\* A tree with an inner node has one at its root.
LEMMA RootInner ==
  ASSUME NEW t, Full(t), t.kids # {}
  PROVE  t.root \in Inner(t)
<1> SUFFICES ASSUME t.root \notin Inner(t) PROVE FALSE
  OBVIOUS
<1>1. t.root \in NodesOf(t)
  BY DEF NodesOf
<1>2. PreWalk(t)[t.root] = <<t.root>>
  BY <1>1, Walks
<1>3. Under(t, t.root) = {t.root}
  BY <1>2 DEF Under, ToSet
<1>4. NodesOf(t) = {t.root}
  BY <1>3, WalksAll
<1>5. PICK k \in t.kids : TRUE
  OBVIOUS
<1>6. k[1] \in NodesOf(t) /\ k[1] \in Inner(t)
  BY ChildOf
<1> QED
  BY <1>4, <1>6

\* Decode says yes exactly with the one message.
DecodedFrom(t, bits, count) ==
  LET d == Decode(t, bits, 0, count)
      leaves == NodesOf(t) \ Inner(t)
      messages == IF count > Len(bits) THEN {}
                  ELSE {m \in [1..count -> leaves] : CodeAll(t, m) = bits}
  IN  IF d.ok THEN messages = {d.data} ELSE messages = {}

LEMMA DecodesOne ==
  ASSUME NEW t, Full(t), t.root \in Inner(t), NEW bits \in Seq({0, 1}), NEW count \in Nat
  PROVE  DecodedFrom(t, bits, count)
<1> DEFINE L == NodesOf(t) \ Inner(t)
           end == After(t, bits, Len(bits))
           d == Decode(t, bits, 0, count)
           messages == IF count > Len(bits) THEN {}
                       ELSE {m \in [1..count -> L] : CodeAll(t, m) = bits}
<1>1. Len(bits) \in Nat /\ Len(bits) - 0 = Len(bits) /\ 0 <= Len(bits) /\ 0 < ByteBits
  BY ByteBitsAssumption
<1>2. d = [ok |-> end.ok /\ end.at = t.root /\ Len(end.data) = count, data |-> end.data]
  BY <1>1 DEF Decode
<1>3. d.data = end.data /\ (d.ok <=> end.ok /\ end.at = t.root /\ Len(end.data) = count)
  <2> DEFINE good == end.ok /\ end.at = t.root /\ Len(end.data) = count
  <2>1. d = [ok |-> good, data |-> end.data]
    BY <1>2
  <2>2. good \in BOOLEAN
    OBVIOUS
  <2> HIDE DEF good, d, end
  <2>3. d.ok = good /\ d.data = end.data
    BY <2>1
  <2> QED
    BY <2>3, Zenon DEF good
<1> HIDE DEF d, end
<1>4. ASSUME d.ok PROVE d.data \in messages
  <2>1. Sound(t, bits, Len(bits))
    BY ReadSound
  <2>2. /\ end.data \in Seq(L) /\ Len(end.data) = count /\ count <= Len(bits)
        /\ CodeAll(t, end.data) \o Way(t)[t.root] = FirstBits(bits, Len(bits))
    BY <1>3, <1>4, <2>1 DEF Sound, end
  <2>3. FirstBits(bits, Len(bits)) = bits
    BY DEF FirstBits
  <2>4. CodeAll(t, end.data) = bits
    <3>1. Way(t)[t.root] = << >>
      BY Ways
    <3>2. \E x \in L : TRUE
      <4> SUFFICES ASSUME L = {} PROVE FALSE
        OBVIOUS
      <4> DEFINE X == {}
      <4>1. \A x \in NodesOf(t) \ Inner(t) : x \in X
        OBVIOUS
      <4>2. X \in SUBSET NodesOf(t) /\ \A p \in t.kids : p[2] \in X /\ p[3] \in X => p[1] \in X
        OBVIOUS
      <4> HIDE DEF X
      <4>3. X = NodesOf(t)
        BY <4>1, <4>2, Upwards
      <4>4. t.root \in NodesOf(t)
        BY DEF NodesOf
      <4> QED
        BY <4>3, <4>4 DEF X
    <3>3. CodeAll(t, end.data) \in Seq({0, 1})
      BY <2>2, <3>2, CodeAppend
    <3> DEFINE c == CodeAll(t, end.data)
    <3> HIDE DEF c
    <3>4. c \o << >> = c
      BY <3>3 DEF c
    <3> QED
      BY <2>2, <2>3, <3>1, <3>4 DEF c
  <2>5. end.data \in [1..count -> L]
    BY <2>2
  <2>6. ~(count > Len(bits))
    BY <1>1, <2>2
  <2> QED
    BY <1>3, <2>4, <2>5, <2>6
<1>5. ASSUME NEW m \in messages PROVE d.ok /\ d.data = m
  <2>1. m \in [1..count -> L] /\ CodeAll(t, m) = bits
    OBVIOUS
  <2>2. L \subseteq Byte
    BY NodeRank
  <2>3. m \in Seq(Byte) /\ Len(m) = count /\ DOMAIN m = 1..count
    BY <2>1, <2>2
  <2>4. Covers(t, m)
    BY <2>1, <2>3 DEF Covers
  <2> DEFINE rest == << >>
  <2>5. rest \in Seq({0, 1}) /\ bits \o rest = bits
    OBVIOUS
  <2> HIDE DEF rest, messages, L
  <2>6. After(t, CodeAll(t, m) \o rest, Len(CodeAll(t, m))) = AtRoot(t, m)
    BY <2>3, <2>4, <2>5, CodesRead
  <2>7. end = AtRoot(t, m)
    BY <2>1, <2>5, <2>6 DEF end
  <2> QED
    BY <1>3, <2>3, <2>7 DEF AtRoot
<1>6. DecodedFrom(t, bits, count) <=> IF d.ok THEN messages = {d.data} ELSE messages = {}
  BY DEF DecodedFrom, d
<1> HIDE DEF messages
<1>7. CASE d.ok
  <2>1. messages = {d.data}
    BY <1>4, <1>5, <1>7
  <2> QED
    BY <1>6, <1>7, <2>1
<1>8. CASE ~d.ok
  <2>1. messages = {}
    BY <1>5, <1>8
  <2> QED
    BY <1>6, <1>8, <2>1
<1> QED
  BY <1>7, <1>8

LEMMA DecodesAlways ==
  ASSUME TreesTypeOK
  PROVE  DecodesExactly
<1> DEFINE t == TreeFrom(preNodes, midNodes)
<1>1. ASSUME t.kids # {}, NEW count \in 0..MaxBits PROVE DecodedFrom(t, codeBits, count)
  <2>1. preNodes \in Seq(Labels) /\ midNodes \in Seq(Labels) /\ codeBits \in Seq({0, 1}) /\ count \in Nat
    BY DEF TreesTypeOK
  <2>2. t # NoTree
    BY <1>1 DEF NoTree
  <2>3. t = TreeFrom(preNodes, midNodes)
    OBVIOUS
  <2> HIDE DEF t
  <2>4. Full(t)
    BY <2>1, <2>2, <2>3, TreeFromExact
  <2>5. t.root \in Inner(t)
    BY <1>1, <2>4, RootInner
  <2> QED
    BY <2>1, <2>4, <2>5, DecodesOne
<1> QED
  BY <1>1 DEF DecodesExactly, DecodedFrom

\* Decode returns the one message of the wanted length whose codes are the bits,
\* and refuses the bits when there is none: with every tree that treeFrom
\* accepts, not only with those of an encoder.
THEOREM TreesDecoded == TreesSpec => []DecodesExactly
BY TreesTypeCorrect, DecodesAlways, PTL

----------------------------------------------------------------------------
(***************************************************************************)
(* A job's frames                                                          *)
(***************************************************************************)

\* A field holds a number that fits it.
LEMMA FieldHolds ==
  ASSUME NEW W \in Nat, NEW a \in 0..(W - 1)
  PROVE  a % W = a
<1>1. W > 0 /\ a \div W \in Int /\ a % W \in 0..(W - 1) /\ a = W * (a \div W) + (a % W)
  OBVIOUS
<1>2. a \div W = 0
  <2> DEFINE q == a \div W
  <2>1. q \in Int /\ a - W * q \in 0..(W - 1)
    BY <1>1
  <2> HIDE DEF q
  <2>2. CASE q >= 1
    <3>1. W * q >= W
      BY <2>1, <2>2, <1>1
    <3> QED
      BY <2>1, <3>1, <1>1
  <2>3. CASE q <= -1
    <3>1. W * q <= -W
      BY <2>1, <2>3, <1>1
    <3> QED
      BY <2>1, <3>1, <1>1
  <2> QED
    BY <2>1, <2>2, <2>3 DEF q
<1> QED
  BY <1>1, <1>2

\* The kind of a job's frame by its place.
KindAt(k, h) ==
  IF k <= 5 THEN <<"tracking", "speed", "density", "start", "tree">>[k]
  ELSE IF k <= 6 + h THEN "raster"
  ELSE IF k = 7 + h THEN "end" ELSE "copies"

\* A job is eight frames and the rows; each frame's kind is given by its place,
\* and a row's record holds its place.
JobOf(bytes, rows, s, f) ==
  LET h == Len(rows)
      t == BuildHuffman(FlattenSeq(rows))
  IN  /\ Len(f) = h + 8
      /\ f[1] = Frame("tracking", <<s.tracking % ByteSize>>, << >>)
      /\ f[2] = Frame("speed", <<s.speed % ByteSize>>, << >>)
      /\ f[3] = Frame("density", <<3, s.density % ByteSize, 8>>, << >>)
      /\ f[4] = Frame("start", <<bytes, h, 1>>, << >>)
      /\ f[5] = Frame("tree", << >>, Traversals(t))
      /\ f[6] = Sentinel(bytes)
      /\ \A i \in 1..h : f[6 + i] = EncodeRowFrame(i, rows[i], t)
      /\ f[7 + h] = Frame("end", << >>, << >>)
      /\ f[8 + h] = Frame("copies", <<s.copies % ByteSize, 19, 0>>, << >>)

LEMMA JobShape ==
  ASSUME NEW bytes, NEW s, NEW S, NEW rows \in Seq(S), Len(rows) \in 1..(WordSize - 1)
  PROVE  LET h == Len(rows)
             f == Frames(bytes, rows, s)
         IN  /\ \E All : f \in Seq(All)
             /\ JobOf(bytes, rows, s, f)
             /\ Len(f) = h + 8
             /\ \A k \in 1..(h + 8) : f[k].kind = KindAt(k, h)
             /\ f[4].head = <<bytes, h, 1>>
             /\ f[6] = Sentinel(bytes)
             /\ \A i \in 1..h : f[6 + i].head[1] = i
<1> DEFINE h == Len(rows)
           t == BuildHuffman(FlattenSeq(rows))
           front == << Frame("tracking", <<s.tracking % ByteSize>>, << >>),
                       Frame("speed", <<s.speed % ByteSize>>, << >>),
                       Frame("density", <<3, s.density % ByteSize, 8>>, << >>),
                       Frame("start", <<bytes, h % WordSize, 1>>, << >>),
                       Frame("tree", << >>, Traversals(t)),
                       Sentinel(bytes) >>
           middle == [i \in DOMAIN rows |-> EncodeRowFrame(i, rows[i], t)]
           back == << Frame("end", << >>, << >>),
                      Frame("copies", <<s.copies % ByteSize, 19, 0>>, << >>) >>
           f == Frames(bytes, rows, s)
<1> USE WordAssumption
<1>1. h \in Nat /\ h >= 1 /\ h < WordSize /\ DOMAIN rows = 1..h
  OBVIOUS
<1>2. f = front \o middle \o back
  BY DEF Frames
<1>3. Len(front) = 6 /\ Len(back) = 2 /\ Len(middle) = h
  BY <1>1
<1> DEFINE All == {front[k] : k \in 1..6} \cup {middle[i] : i \in 1..h} \cup {back[k] : k \in 1..2}
<1>4. /\ Len(f) = h + 8 /\ f \in Seq(All)
      /\ \A k \in 1..6 : f[k] = front[k]
      /\ \A i \in 1..h : f[6 + i] = middle[i]
      /\ f[7 + h] = back[1] /\ f[8 + h] = back[2]
  <2>1. front \in Seq({front[k] : k \in 1..6}) /\ back \in Seq({back[k] : k \in 1..2})
    OBVIOUS
  <2>2. middle \in [1..h -> {middle[i] : i \in 1..h}]
    BY <1>1
  <2> HIDE DEF front, middle, back, f
  <2>3. front \in Seq(All) /\ middle \in Seq(All) /\ back \in Seq(All)
    <3>1. /\ {front[k] : k \in 1..6} \subseteq All /\ {back[k] : k \in 1..2} \subseteq All
          /\ {middle[i] : i \in 1..h} \subseteq All
      OBVIOUS
    <3> HIDE DEF All
    <3>2. front \in Seq(All) /\ back \in Seq(All)
      BY <2>1, <3>1
    <3>3. middle \in [1..h -> All] /\ h \in Nat
      BY <1>1, <2>2, <3>1
    <3>4. middle \in Seq(All)
      BY <3>3
    <3> QED
      BY <3>2, <3>4
  <2> HIDE DEF All, h
  <2>4. /\ f \in Seq(All) /\ Len(f) = 6 + h + 2
        /\ \A k \in 1..6 : f[k] = front[k]
        /\ \A k \in 1..h : f[6 + k] = middle[k]
        /\ \A k \in 1..2 : f[6 + h + k] = back[k]
    <3>1. f = (front \o middle) \o back
      BY <1>2
    <3> HIDE DEF f
    <3>2. /\ f \in Seq(All) /\ Len(f) = Len(front) + Len(middle) + Len(back)
          /\ \A k \in 1..Len(front) : f[k] = front[k]
          /\ \A k \in 1..Len(middle) : f[Len(front) + k] = middle[k]
          /\ \A k \in 1..Len(back) : f[Len(front) + Len(middle) + k] = back[k]
      <4>1. InOrderOf(All, front, middle, back, front \o middle \o back)
        BY <2>3, JoinedThree
      <4> QED
        BY <3>1, <4>1 DEF InOrderOf
    <3> QED
      BY <1>3, <3>2
  <2> QED
    BY <1>1, <2>4
<1>5. h % WordSize = h /\ \A i \in 1..h : i % WordSize = i
  <2>1. h \in 0..(WordSize - 1) /\ 1..h \subseteq 0..(WordSize - 1) /\ WordSize \in Nat
    BY <1>1
  <2> HIDE DEF h
  <2> QED
    BY <2>1, FieldHolds
<1>6. \A i \in 1..h : f[6 + i] = EncodeRowFrame(i, rows[i], t)
  <2>1. \A i \in 1..h : middle[i] = EncodeRowFrame(i, rows[i], t)
    BY <1>1
  <2> HIDE DEF middle, f, h, t
  <2> QED
    BY <1>4, <2>1
<1>7. \A i \in 1..h : f[6 + i].kind = "raster" /\ f[6 + i].head[1] = i
  <2> HIDE DEF middle, f, h, t
  <2>3. \A i \in 1..h : /\ EncodeRowFrame(i, rows[i], t).kind = "raster"
                        /\ EncodeRowFrame(i, rows[i], t).head[1] = i % WordSize
    BY DEF EncodeRowFrame, Frame
  <2> QED
    BY <1>5, <1>6, <2>3
<1>8. /\ f[1].kind = "tracking" /\ f[2].kind = "speed" /\ f[3].kind = "density"
      /\ f[4].kind = "start" /\ f[5].kind = "tree" /\ f[6] = Sentinel(bytes)
      /\ f[6].kind = "raster" /\ f[7 + h].kind = "end" /\ f[8 + h].kind = "copies"
      /\ f[4].head = <<bytes, h, 1>>
  BY <1>4, <1>5 DEF Frame, Sentinel
<1>9. ASSUME NEW k \in 1..(h + 8) PROVE f[k].kind = KindAt(k, h)
  <2>1. k \in 1..6 \/ (k \in 7..(6 + h) /\ k - 6 \in 1..h /\ f[k] = f[6 + (k - 6)]) \/ k = 7 + h \/ k = 8 + h
    BY <1>1
  <2>2. CASE k \in 1..6
    <3>1. h \in Nat /\ k \in {1, 2, 3, 4, 5, 6}
      BY <1>1, <2>2
    <3>2. f[k].kind = <<"tracking", "speed", "density", "start", "tree", "raster">>[k]
      BY <1>8, <3>1
    <3>3. KindAt(k, h) = <<"tracking", "speed", "density", "start", "tree", "raster">>[k]
      BY <3>1 DEF KindAt
    <3> QED
      BY <3>2, <3>3
  <2>3. CASE k \in 7..(6 + h) /\ k - 6 \in 1..h /\ f[k] = f[6 + (k - 6)]
    <3>1. f[k].kind = "raster"
      BY <1>7, <2>3
    <3>2. KindAt(k, h) = "raster"
      <4>1. ~(k <= 5) /\ k <= 6 + h
        BY <1>1, <2>3
      <4> QED
        BY <4>1 DEF KindAt
    <3> QED
      BY <3>1, <3>2
  <2>4. CASE k = 7 + h \/ k = 8 + h
    BY <1>1, <1>8, <2>4 DEF KindAt
  <2> QED
    BY <2>1, <2>2, <2>3, <2>4
<1>10. JobOf(bytes, rows, s, f)
  <2>1. /\ f[1] = Frame("tracking", <<s.tracking % ByteSize>>, << >>)
        /\ f[2] = Frame("speed", <<s.speed % ByteSize>>, << >>)
        /\ f[3] = Frame("density", <<3, s.density % ByteSize, 8>>, << >>)
        /\ f[4] = Frame("start", <<bytes, h % WordSize, 1>>, << >>)
        /\ f[5] = Frame("tree", << >>, Traversals(t))
        /\ f[6] = Sentinel(bytes)
    <3>1. \A k \in 1..6 : f[k] = front[k]
      BY <1>4
    <3> HIDE DEF f, t, h
    <3> QED
      BY <3>1
  <2>2. /\ f[7 + h] = Frame("end", << >>, << >>)
        /\ f[8 + h] = Frame("copies", <<s.copies % ByteSize, 19, 0>>, << >>)
    <3> HIDE DEF f, t, h
    <3> QED
      BY <1>4
  <2>3. Len(f) = h + 8 /\ h % WordSize = h
    BY <1>4, <1>5
  <2> HIDE DEF f
  <2> QED
    BY <1>6, <2>1, <2>2, <2>3 DEF JobOf
<1> QED
  BY <1>4, <1>7, <1>8, <1>9, <1>10

\* A stream made of a job's frames and broken ones that the decoder accepts is
\* the job: every check names a frame's kind, and the index names the row.
LEMMA OnlyTheJob ==
  ASSUME NEW bytes, NEW s, NEW S, NEW rows \in Seq(S), Len(rows) \in 1..(WordSize - 1),
         NEW f, f = Frames(bytes, rows, s),
         NEW fs \in Seq({f[k] : k \in 1..Len(f)} \cup {Broken}), Accepts(fs)
  PROVE  fs = f
<1> DEFINE h == Len(rows)
<1>1. /\ h \in Nat /\ h >= 1 /\ Len(f) = h + 8 /\ \E All : f \in Seq(All)
      /\ \A k \in 1..(h + 8) : f[k].kind = KindAt(k, h)
      /\ f[4].head = <<bytes, h, 1>> /\ f[6] = Sentinel(bytes)
      /\ \A i \in 1..h : f[6 + i].head[1] = i
  BY JobShape
<1> HIDE DEF h
<1>2. Len(fs) \in Nat /\ Len(fs) >= 8 /\ DOMAIN fs = 1..Len(fs)
  BY DEF Accepts
<1>3. \A i \in 1..Len(fs) : \E k \in 1..(h + 8) : fs[i] = f[k]
  <2>1. \A i \in 1..Len(fs) : fs[i].kind # "broken"
    BY <1>2 DEF Accepts
  <2>2. Broken.kind = "broken"
    BY DEF Broken, Frame
  <2>3. \A i \in 1..Len(fs) : fs[i] \in {f[k] : k \in 1..Len(f)} \cup {Broken}
    BY <1>2
  <2>4. Len(f) = h + 8
    BY <1>1
  <2> QED
    BY <2>1, <2>2, <2>3, <2>4
<1>4. /\ fs[1].kind = "tracking" /\ fs[2].kind = "speed" /\ fs[3].kind = "density"
      /\ fs[4].kind = "start"
  BY DEF Accepts
<1>5. fs[4] = f[4]
  <2>1. PICK k \in 1..(h + 8) : fs[4] = f[k]
    BY <1>2, <1>3
  <2>2. f[k].kind = KindAt(k, h) /\ h \in Nat
    BY <1>1
  <2>3. k = 4
    BY <1>4, <2>1, <2>2 DEF KindAt
  <2> QED
    BY <2>1, <2>3
<1>6. fs[4].head[1] = bytes /\ fs[4].head[2] = h
  BY <1>1, <1>5
<1>7. /\ fs[5].kind = "tree" /\ Len(fs) = h + 8 /\ fs[6] = f[6]
      /\ \A i \in 1..h : fs[6 + i].kind = "raster" /\ fs[6 + i].head[1] = i
      /\ fs[7 + h].kind = "end" /\ fs[8 + h].kind = "copies"
  BY <1>1, <1>6 DEF Accepts, RowAccepted
<1>8. ASSUME NEW i \in 1..(h + 8) PROVE fs[i] = f[i]
  <2>1. PICK k \in 1..(h + 8) : fs[i] = f[k]
    BY <1>3, <1>7
  <2>2. f[k].kind = KindAt(k, h)
    BY <1>1
  <2>3. CASE i \in 1..5
    <3>1. fs[i].kind = <<"tracking", "speed", "density", "start", "tree">>[i]
      <4>1. i = 1 \/ i = 2 \/ i = 3 \/ i = 4 \/ i = 5
        BY <2>3
      <4> QED
        BY <1>4, <1>7, <4>1
    <3>2. KindAt(k, h) = fs[i].kind
      BY <2>1, <2>2
    <3>3. KindAt(k, h) \in {"tracking", "speed", "density", "start", "tree"}
      BY <2>3, <3>1, <3>2
    <3>4. k = 1 \/ k = 2 \/ k = 3 \/ k = 4 \/ k = 5
      <4>1. ~(k <= 5) => KindAt(k, h) \in {"raster", "end", "copies"}
        BY DEF KindAt
      <4> QED
        BY <3>3, <4>1
    <3>5. KindAt(k, h) = <<"tracking", "speed", "density", "start", "tree">>[k]
      BY <3>4 DEF KindAt
    <3>6. k = i
      BY <2>3, <3>1, <3>2, <3>4, <3>5
    <3> QED
      BY <2>1, <3>6
  <2>4. CASE i = 6
    BY <1>7, <2>4
  <2>5. CASE i \in 7..(6 + h)
    <3>1. fs[i].kind = "raster" /\ fs[i].head[1] = i - 6
      <4>1. i - 6 \in 1..h /\ 6 + (i - 6) = i
        BY <1>1, <2>5
      <4> QED
        BY <1>7, <4>1
    <3>2. k \in 6..(6 + h)
      BY <1>1, <2>1, <2>2, <3>1 DEF KindAt
    <3>3. CASE k = 6
      <4>1. f[6].head[1] = 0
        BY <1>1 DEF Sentinel, Frame
      <4> QED
        BY <2>1, <2>5, <3>1, <3>3, <4>1, <1>1
    <3>4. CASE k # 6
      <4>1. k - 6 \in 1..h /\ 6 + (k - 6) = k
        BY <1>1, <3>2, <3>4
      <4>2. f[k].head[1] = k - 6
        BY <1>1, <4>1
      <4> QED
        BY <2>1, <3>1, <4>1, <4>2
    <3> QED
      BY <3>3, <3>4
  <2>6. CASE i = 7 + h
    BY <1>1, <1>7, <2>1, <2>2, <2>6 DEF KindAt
  <2>7. CASE i = 8 + h
    BY <1>1, <1>7, <2>1, <2>2, <2>7 DEF KindAt
  <2> QED
    BY <1>1, <2>3, <2>4, <2>5, <2>6, <2>7
<1> QED
  BY <1>1, <1>2, <1>7, <1>8

----------------------------------------------------------------------------
(* The decoder of the desktop client *)

\* The recursive function inside OfKind, by its equation.
AmongBody(fs, kind, f) ==
  [n \in 0..Len(fs) |-> IF n = 0 THEN << >>
                        ELSE IF fs[n].kind = kind THEN Append(f[n - 1], fs[n])
                        ELSE f[n - 1]]

Among(fs, kind) == CHOOSE f : f = AmongBody(fs, kind, f)

LEMMA OfKindMeans ==
  ASSUME NEW fs, NEW kind
  PROVE  OfKind(fs, kind) = Among(fs, kind)[Len(fs)]
BY DEF OfKind, Among, AmongBody

\* The frames of the kind are those from place lo to place hi.
Alone(fs, kind, lo, hi) == \A k \in 1..Len(fs) : fs[k].kind = kind <=> k \in lo..hi

Stretch(fs, lo, hi) == [i \in 1..(hi - lo + 1) |-> fs[lo - 1 + i]]

\* Frames of one kind that follow each other come out as they are.
LEMMA OfKindBlock ==
  ASSUME NEW All, NEW fs \in Seq(All), NEW kind,
         NEW lo \in 1..Len(fs), NEW hi \in lo..Len(fs), Alone(fs, kind, lo, hi)
  PROVE  OfKind(fs, kind) = Stretch(fs, lo, hi)
<1> DEFINE L == Len(fs)
           size(n) == IF n < lo THEN 0 ELSE IF n <= hi THEN n - lo + 1 ELSE hi - lo + 1
           block(n) == [i \in 1..size(n) |-> fs[lo - 1 + i]]
           g == [n \in 0..L |-> block(n)]
           a == Among(fs, kind)
<1>1. L \in Nat /\ lo \in Nat /\ hi \in Nat /\ 1 <= lo /\ lo <= hi /\ hi <= L
  OBVIOUS
<1>2. block(0) = << >>
  <2>1. size(0) = 0
    BY <1>1
  <2> HIDE DEF size
  <2> QED
    BY <2>1
<1>3. ASSUME NEW n \in 1..L
      PROVE  block(n) = IF fs[n].kind = kind THEN Append(block(n - 1), fs[n]) ELSE block(n - 1)
  <2>1. CASE n \in lo..hi
    <3>1. size(n) = n - lo + 1 /\ size(n - 1) = n - lo /\ n - lo \in Nat
      BY <1>1, <2>1
    <3>2. fs[n].kind = kind
      BY <2>1 DEF Alone
    <3>3. block(n - 1) = [i \in 1..(n - lo) |-> fs[lo - 1 + i]]
      BY <3>1
    <3>4. block(n) = [i \in 1..(n - lo + 1) |-> fs[lo - 1 + i]]
      BY <3>1
    <3>5. \A i \in 1..(n - lo + 1) : lo - 1 + i \in 1..L
      BY <1>1, <2>1
    <3> HIDE DEF block
    <3>6. block(n - 1) \in Seq(All) /\ Len(block(n - 1)) = n - lo /\ fs[n] \in All
      <4>1. \A i \in 1..(n - lo) : fs[lo - 1 + i] \in All
        <5>1. \A i \in 1..(n - lo) : lo - 1 + i \in 1..L
          BY <1>1, <2>1
        <5> QED
          BY <5>1
      <4>2. block(n - 1) \in [1..(n - lo) -> All]
        BY <3>3, <4>1
      <4>3. block(n - 1) \in Seq(All) /\ Len(block(n - 1)) = n - lo
        BY <3>1, <4>2
      <4> QED
        BY <4>3
    <3>7. Append(block(n - 1), fs[n]) =
            [i \in 1..(n - lo + 1) |-> IF i = n - lo + 1 THEN fs[n] ELSE block(n - 1)[i]]
      BY <3>1, <3>6
    <3>8. \A i \in 1..(n - lo + 1) :
            (IF i = n - lo + 1 THEN fs[n] ELSE block(n - 1)[i]) = fs[lo - 1 + i]
      BY <1>1, <3>1, <3>3
    <3> QED
      BY <3>2, <3>4, <3>7, <3>8
  <2>2. CASE n \notin lo..hi
    <3>1. size(n) = size(n - 1)
      BY <1>1, <2>2
    <3>2. ~(fs[n].kind = kind)
      BY <2>2 DEF Alone
    <3> HIDE DEF size
    <3> QED
      BY <3>1, <3>2
  <2> QED
    BY <2>1, <2>2
<1> HIDE DEF block
<1>4. g = AmongBody(fs, kind, g)
  <2>1. \A n \in 1..L : n - 1 \in 0..L
    BY <1>1
  <2>2. \A n \in 0..L : g[n] = AmongBody(fs, kind, g)[n]
    <3>1. \A n \in 1..L : g[n] = block(n) /\ g[n - 1] = block(n - 1)
      BY <2>1
    <3>2. \A n \in 0..L : n = 0 \/ n \in 1..L
      BY <1>1
    <3>3. g[0] = << >>
      BY <1>1, <1>2
    <3> HIDE DEF g
    <3> QED
      BY <1>3, <3>1, <3>2, <3>3 DEF AmongBody
  <2>3. /\ g = [n \in 0..L |-> g[n]]
        /\ AmongBody(fs, kind, g) = [n \in 0..L |-> AmongBody(fs, kind, g)[n]]
    BY DEF AmongBody
  <2> HIDE DEF g
  <2> QED
    BY <2>2, <2>3
<1>5. a = AmongBody(fs, kind, a)
  <2> HIDE DEF g
  <2> QED
    BY <1>4 DEF Among
<1>6. /\ a[0] = << >>
      /\ \A n \in 1..L : a[n] = IF fs[n].kind = kind THEN Append(a[n - 1], fs[n]) ELSE a[n - 1]
  <2>1. /\ AmongBody(fs, kind, a)[0] = << >>
        /\ \A n \in 1..L : AmongBody(fs, kind, a)[n] =
             IF fs[n].kind = kind THEN Append(a[n - 1], fs[n]) ELSE a[n - 1]
    <3> HIDE DEF a
    <3> QED
      BY <1>1 DEF AmongBody
  <2> HIDE DEF a
  <2> QED
    BY <1>5, <2>1
<1> HIDE DEF a
<1> DEFINE S == {n \in Nat : n <= L => a[n] = block(n)}
<1>7. 0 \in S
  BY <1>2, <1>6
<1>8. ASSUME NEW n \in Nat, n \in S PROVE n + 1 \in S
  <2> SUFFICES ASSUME n + 1 <= L PROVE a[n + 1] = block(n + 1)
    OBVIOUS
  <2> DEFINE e == n + 1
  <2>1. e \in 1..L /\ e - 1 = n
    BY <1>1
  <2>2. a[n] = block(n)
    BY <1>1, <1>8
  <2> HIDE DEF e
  <2>3. a[e] = block(e)
    BY <1>3, <1>6, <2>1, <2>2
  <2> QED
    BY <2>3 DEF e
<1>9. L \in S
  <2>1. S \in SUBSET Nat
    OBVIOUS
  <2> HIDE DEF S
  <2>2. S = Nat
    BY <1>7, <1>8, <2>1, Induction
  <2> QED
    BY <1>1, <2>2
<1>10. a[L] = block(L) /\ size(L) = hi - lo + 1
  BY <1>1, <1>9
<1>11. OfKind(fs, kind) = a[L]
  BY OfKindMeans DEF a
<1> QED
  BY <1>10, <1>11 DEF block, Stretch

\* What the desktop client finds in a job: one start frame, one tree and, behind
\* the sentinel, the rows.
LEMMA DesktopFinds ==
  ASSUME NEW bytes, NEW s, NEW S, NEW rows \in Seq(S), Len(rows) \in 1..(WordSize - 1),
         NEW f, f = Frames(bytes, rows, s)
  PROVE  /\ OfKind(f, "start") = <<f[4]>> /\ OfKind(f, "tree") = <<f[5]>>
         /\ DesktopRows(f) = [i \in 1..Len(rows) |-> f[6 + i]]
<1> DEFINE h == Len(rows)
<1>1. /\ h \in Nat /\ h >= 1 /\ Len(f) = h + 8 /\ \E All : f \in Seq(All)
      /\ \A k \in 1..(h + 8) : f[k].kind = KindAt(k, h)
  BY JobShape
<1> HIDE DEF h
<1>2. PICK All : f \in Seq(All)
  BY <1>1
<1>3. Alone(f, "start", 4, 4) /\ Alone(f, "tree", 5, 5) /\ Alone(f, "raster", 6, 6 + h)
  <2>1. ASSUME NEW k \in 1..Len(f) PROVE f[k].kind = KindAt(k, h) /\ k \in Nat
    BY <1>1
  <2>2. ASSUME NEW k \in 1..Len(f) PROVE f[k].kind = "start" <=> k \in 4..4
    <3>1. CASE k \in 1..5
      BY <2>1, <3>1 DEF KindAt
    <3>2. CASE k > 5
      BY <1>1, <2>1, <3>2 DEF KindAt
    <3> QED
      BY <2>1, <3>1, <3>2
  <2>3. ASSUME NEW k \in 1..Len(f) PROVE f[k].kind = "tree" <=> k \in 5..5
    BY <1>1, <2>1 DEF KindAt
  <2>4. ASSUME NEW k \in 1..Len(f) PROVE f[k].kind = "raster" <=> k \in 6..(6 + h)
    BY <1>1, <2>1 DEF KindAt
  <2> QED
    BY <2>2, <2>3, <2>4 DEF Alone
<1>4. OfKind(f, "start") = Stretch(f, 4, 4)
  <2>1. 4 \in 1..Len(f) /\ 4 \in 4..Len(f)
    BY <1>1
  <2> QED
    BY <1>2, <1>3, <2>1, OfKindBlock
<1>5. OfKind(f, "tree") = Stretch(f, 5, 5)
  <2>1. 5 \in 1..Len(f) /\ 5 \in 5..Len(f)
    BY <1>1
  <2> QED
    BY <1>2, <1>3, <2>1, OfKindBlock
<1>6. OfKind(f, "raster") = Stretch(f, 6, 6 + h)
  <2>1. 6 \in 1..Len(f) /\ 6 + h \in 6..Len(f)
    BY <1>1
  <2> QED
    BY <1>2, <1>3, <2>1, OfKindBlock
<1>7. OfKind(f, "start") = <<f[4]>> /\ OfKind(f, "tree") = <<f[5]>>
  BY <1>4, <1>5 DEF Stretch
<1>8. /\ OfKind(f, "raster") = [i \in 1..(h + 1) |-> f[5 + i]]
      /\ \A i \in 1..(h + 1) : f[5 + i] \in All
  <2>1. 6 + h - 6 + 1 = h + 1 /\ \A i \in 1..(h + 1) : 6 - 1 + i = 5 + i
    BY <1>1
  <2>2. OfKind(f, "raster") = [i \in 1..(h + 1) |-> f[5 + i]]
    <3> DEFINE hi == 6 + h
               n == hi - 6 + 1
               r == Stretch(f, 6, hi)
    <3>1. n = h + 1 /\ h \in Nat
      BY <1>1
    <3> HIDE DEF hi
    <3>2. r = [i \in 1..n |-> f[6 - 1 + i]]
      BY DEF Stretch
    <3> HIDE DEF r, n
    <3>3. r = [i \in 1..(h + 1) |-> f[6 - 1 + i]]
      BY <3>1, <3>2
    <3>4. \A i \in 1..(h + 1) : f[6 - 1 + i] = f[5 + i]
      BY <2>1
    <3>5. r = [i \in 1..(h + 1) |-> f[5 + i]]
      BY <3>3, <3>4
    <3> QED
      BY <1>6, <3>5 DEF r, hi
  <2>3. \A i \in 1..(h + 1) : 5 + i \in 1..Len(f)
    BY <1>1
  <2>4. \A i \in 1..(h + 1) : f[5 + i] \in All
    BY <1>2, <2>3
  <2> QED
    BY <2>2, <2>4
<1>9. DesktopRows(f) = [i \in 1..h |-> f[6 + i]]
  <2> DEFINE r == [i \in 1..(h + 1) |-> f[5 + i]]
  <2>1. r \in Seq(All) /\ Len(r) = h + 1 /\ r # << >>
    <3>1. r \in [1..(h + 1) -> All] /\ h + 1 \in Nat /\ h + 1 >= 1
      BY <1>1, <1>8
    <3> HIDE DEF r
    <3>2. r \in Seq(All) /\ Len(r) = h + 1
      BY <3>1
    <3> QED
      BY <3>1, <3>2
  <2>2. Tail(r) = [i \in 1..h |-> r[i + 1]]
    BY <1>1, <2>1
  <2>3. \A i \in 1..h : r[i + 1] = f[6 + i]
    BY <1>1
  <2> HIDE DEF r
  <2>4. DesktopRows(f) = Tail(r)
    BY <1>8, <2>1 DEF DesktopRows, r
  <2> QED
    BY <2>2, <2>3, <2>4
<1> QED
  BY <1>7, <1>9 DEF h

\* The desktop client on a job the appliance's decoder accepts.
LEMMA DesktopReads ==
  ASSUME NEW bytes, NEW s, NEW S, NEW rows \in Seq(S), Len(rows) \in 1..(WordSize - 1),
         NEW f, f = Frames(bytes, rows, s), Accepts(f)
  PROVE  DesktopDecoded(f) = IF bytes = NarrowBytes THEN [ok |-> TRUE, rows |-> Decoded(f).rows]
                             ELSE [ok |-> FALSE, rows |-> << >>]
<1> DEFINE h == Len(rows)
           tree == TreeOf(f[5].body)
           drows == DesktopRows(f)
<1>1. /\ h \in Nat /\ h >= 1 /\ f[4].head[1] = bytes /\ f[4].head[2] = h
  <2>1. h \in Nat /\ h >= 1 /\ f[4].head = <<bytes, h, 1>>
    BY JobShape
  <2> QED
    BY <2>1
<1>2. drows = [i \in 1..h |-> f[6 + i]]
  BY DesktopFinds
<1>3. OfKind(f, "start") = <<f[4]>> /\ OfKind(f, "tree") = <<f[5]>>
  BY DesktopFinds
<1>4. /\ \A i \in DOMAIN f : f[i].kind # "broken"
      /\ tree # NoTree
      /\ \A i \in 1..h : RowAccepted(f[6 + i], i, bytes, tree)
  BY <1>1 DEF Accepts
<1>5. Decoded(f).rows = [i \in 1..h |-> RowOf(f[6 + i], bytes, tree).data]
  BY <1>1 DEF Decoded
<1> HIDE DEF h, tree
<1>6. DOMAIN drows = 1..h /\ Len(drows) = h /\ \A i \in 1..h : drows[i] = f[6 + i]
  BY <1>1, <1>2
<1> HIDE DEF drows
<1>7. /\ OfKind(f, "start") # << >> /\ OfKind(f, "start")[1] = f[4]
      /\ OfKind(f, "tree") # << >> /\ OfKind(f, "tree")[1] = f[5]
  BY <1>3
<1>8. CASE bytes = NarrowBytes
  <2>1. \A i \in 1..h : drows[i].head[2] = NarrowBytes /\ RowOf(drows[i], NarrowBytes, tree).ok
    BY <1>4, <1>6, <1>8 DEF RowAccepted
  <2>2. DesktopDecoded(f) =
          [ok |-> TRUE, rows |-> [i \in DOMAIN drows |-> RowOf(drows[i], NarrowBytes, tree).data]]
    <3>1. /\ \A i \in DOMAIN f : f[i].kind # "broken"
          /\ OfKind(f, "start") # << >> /\ OfKind(f, "tree") # << >>
          /\ OfKind(f, "start")[1].head[1] = NarrowBytes /\ OfKind(f, "start")[1].head[2] > 0
          /\ TreeOf(OfKind(f, "tree")[1].body) # NoTree
          /\ Len(DesktopRows(f)) = OfKind(f, "start")[1].head[2]
      BY <1>1, <1>4, <1>6, <1>7, <1>8 DEF drows, tree
    <3>2. \A i \in DOMAIN drows : drows[i].head[2] = NarrowBytes /\ RowOf(drows[i], NarrowBytes, tree).ok
      BY <1>6, <2>1
    <3>3. TreeOf(OfKind(f, "tree")[1].body) = tree
      BY <1>7 DEF tree
    <3> QED
      BY <3>1, <3>2, <3>3 DEF DesktopDecoded, drows
  <2>3. [i \in DOMAIN drows |-> RowOf(drows[i], NarrowBytes, tree).data] =
          [i \in 1..h |-> RowOf(f[6 + i], bytes, tree).data]
    BY <1>6, <1>8
  <2> QED
    BY <1>5, <1>8, <2>2, <2>3
<1>9. CASE bytes # NarrowBytes
  BY <1>1, <1>7, <1>9 DEF DesktopDecoded
<1> QED
  BY <1>8, <1>9

----------------------------------------------------------------------------
(* The decoder of the appliance *)

\* A tree is sent as its traversals, one behind the other.
LEMMA TwoLists ==
  ASSUME NEW S, NEW a \in Seq(S), NEW b \in Seq(S), NEW p, p = a \o b
  PROVE  Len(a) >= 1 /\ Len(b) = Len(a) =>
           /\ p # << >> /\ Len(p) % 2 = 0
           /\ SubSeq(p, 1, Len(p) \div 2) = a
           /\ SubSeq(p, Len(p) \div 2 + 1, Len(p)) = b
<1>0. /\ a \o b \in Seq(S) /\ Len(a \o b) = Len(a) + Len(b)
      /\ \A k \in 1..Len(a) : (a \o b)[k] = a[k]
      /\ \A k \in 1..Len(b) : (a \o b)[Len(a) + k] = b[k]
  BY JoinedSet
<1> HAVE Len(a) >= 1 /\ Len(b) = Len(a)
<1> DEFINE n == Len(a)
<1>1. n \in Nat /\ n >= 1 /\ Len(b) = n
  OBVIOUS
<1>2. /\ p \in Seq(S) /\ Len(p) = n + n
      /\ \A k \in 1..n : p[k] = a[k]
      /\ \A k \in 1..n : p[n + k] = b[k]
  BY <1>0
<1>3. a = [k \in 1..n |-> a[k]] /\ b = [k \in 1..n |-> b[k]]
  OBVIOUS
<1> HIDE DEF n
<1>4. Len(p) \div 2 = n /\ Len(p) % 2 = 0 /\ Len(p) = 2 * n
  BY <1>1, <1>2
<1>5. SubSeq(p, 1, n) = [k \in 1..n |-> p[k]]
  <2>1. SubSeq(p, 1, n) = [k \in 1..(n - 1 + 1) |-> p[1 + k - 1]]
    BY <1>1, <1>2
  <2>2. n - 1 + 1 = n /\ \A k \in 1..n : 1 + k - 1 = k
    BY <1>1
  <2> QED
    BY <2>1, <2>2
<1>6. SubSeq(p, n + 1, 2 * n) = [k \in 1..n |-> p[n + k]]
  <2>1. SubSeq(p, n + 1, 2 * n) = [k \in 1..(2 * n - (n + 1) + 1) |-> p[(n + 1) + k - 1]]
    BY <1>1, <1>2
  <2>2. 2 * n - (n + 1) + 1 = n /\ \A k \in 1..n : (n + 1) + k - 1 = n + k
    BY <1>1
  <2> QED
    BY <2>1, <2>2
<1>7. SubSeq(p, 1, n) = a
  BY <1>2, <1>3, <1>5
<1>8. SubSeq(p, n + 1, 2 * n) = b
  BY <1>2, <1>3, <1>6
<1>9. p # << >>
  BY <1>1, <1>2
<1> QED
  BY <1>4, <1>7, <1>8, <1>9

\* The decoder rebuilds the tree it was sent.
LEMMA TreeSent ==
  ASSUME NEW t, Full(t)
  PROVE  TreeOf(Traversals(t)) = t /\ t # NoTree
<1> DEFINE p == Traversals(t)
<1>1. /\ TreeFrom(Preorder(t), Inorder(t)) = t
      /\ Preorder(t) \in Seq(Nat) /\ Inorder(t) \in Seq(Nat)
      /\ Len(Inorder(t)) = Len(Preorder(t)) /\ Len(Preorder(t)) >= 1
  BY TreeBack
<1>2. p = Preorder(t) \o Inorder(t)
  BY DEF Traversals
<1> HIDE DEF p
<1>3. /\ p # << >> /\ Len(p) % 2 = 0
      /\ SubSeq(p, 1, Len(p) \div 2) = Preorder(t)
      /\ SubSeq(p, Len(p) \div 2 + 1, Len(p)) = Inorder(t)
  BY <1>1, <1>2, TwoLists
<1>4. TreeOf(p) = t
  BY <1>1, <1>3 DEF TreeOf
<1>5. t # NoTree
  <2>1. t.root \in NodesOf(t)
    BY DEF NodesOf
  <2>2. t.root # None
    BY <2>1, NodeRank
  <2>3. NoTree.root = None
    BY DEF NoTree
  <2> QED
    BY <2>2, <2>3
<1> QED
  BY <1>4, <1>5 DEF p

\* The page's tree has a leaf for every byte of every row.
LEMMA RowsCovered ==
  ASSUME NEW bytes \in Nat, NEW rows \in Seq([1..bytes -> Byte])
  PROVE  /\ Full(BuildHuffman(FlattenSeq(rows)))
         /\ BuildHuffman(FlattenSeq(rows)).root \in Inner(BuildHuffman(FlattenSeq(rows)))
         /\ \A i \in 1..Len(rows) : /\ rows[i] \in Seq(Byte) /\ Len(rows[i]) = bytes
                                    /\ Covers(BuildHuffman(FlattenSeq(rows)), rows[i])
<1> DEFINE flat == FlattenSeq(rows)
           t == BuildHuffman(flat)
<1>1. [1..bytes -> Byte] \subseteq Seq(Byte) /\ \A r \in [1..bytes -> Byte] : Len(r) = bytes
  OBVIOUS
<1>2. /\ rows \in Seq(Seq(Byte))
      /\ \A i \in 1..Len(rows) : rows[i] \in Seq(Byte) /\ Len(rows[i]) = bytes
  BY <1>1
<1>3. flat \in Seq(Byte) /\ Laid(rows, flat)
  BY <1>2, Flattened
<1> HIDE DEF flat
<1>4. /\ Full(t) /\ t.root \in Inner(t)
      /\ \A b \in ToSet(flat) : b \in NodesOf(t) \ Inner(t)
  BY <1>3, TreeBuilt
<1> HIDE DEF t
<1>5. ASSUME NEW i \in 1..Len(rows), NEW j \in 1..bytes PROVE rows[i][j] \in ToSet(flat)
  <2>1. PICK off \in [0..Len(rows) -> Nat] : LaidAt(rows, flat, off)
    BY <1>3 DEF Laid
  <2>2. Holds(flat, off[i - 1], rows[i])
    BY <2>1 DEF LaidAt
  <2>3. i - 1 \in 0..Len(rows) /\ off[i - 1] \in Nat
    <3>1. Len(rows) \in Nat /\ i \in Nat /\ i >= 1 /\ i <= Len(rows)
      OBVIOUS
    <3>2. i - 1 \in 0..Len(rows)
      BY <3>1
    <3> QED
      BY <3>2
  <2> DEFINE c == off[i - 1]
  <2>4. c + bytes <= Len(flat) /\ flat[c + j] = rows[i][j] /\ c \in Nat
    BY <1>2, <2>2, <2>3 DEF Holds
  <2> HIDE DEF c
  <2>5. c + j \in DOMAIN flat
    BY <1>3, <2>4
  <2> QED
    BY <2>4, <2>5 DEF ToSet
<1>6. \A i \in 1..Len(rows) : DOMAIN rows[i] = 1..bytes
  OBVIOUS
<1>7. ASSUME NEW i \in 1..Len(rows) PROVE Covers(t, rows[i])
  BY <1>4, <1>5, <1>6 DEF Covers
<1> QED
  BY <1>2, <1>4, <1>7 DEF t, flat

\* The decoder accepts the record of a row and reads the row from it.
LEMMA RowBack ==
  ASSUME NEW bytes \in Nat, NEW t, Full(t), t.root \in Inner(t),
         NEW row \in Seq(Byte), Len(row) = bytes, Covers(t, row),
         NEW i \in 1..(WordSize - 1)
  PROVE  /\ RowAccepted(EncodeRowFrame(i, row, t), i, bytes, t)
         /\ RowOf(EncodeRowFrame(i, row, t), bytes, t).data = row
<1> DEFINE e == Encode(t, row)
           f == EncodeRowFrame(i, row, t)
<1>1. Decode(t, e.bits, e.pad, bytes) = [ok |-> TRUE, data |-> row]
  BY DecodeBack
<1> HIDE DEF e
<1>2. i % WordSize = i
  <2>1. WordSize \in Nat /\ i \in 0..(WordSize - 1)
    BY WordAssumption
  <2> QED
    BY <2>1, FieldHolds
<1>3. f = [kind |-> "raster", head |-> <<i, bytes, e.pad>>, body |-> e.bits]
  BY <1>2 DEF EncodeRowFrame, Frame, e
<1> HIDE DEF f
<1>4. RowOf(f, bytes, t) = [ok |-> TRUE, data |-> row]
  BY <1>1, <1>3 DEF RowOf
<1> QED
  BY <1>3, <1>4 DEF RowAccepted, f

\* A job for settings the encoder accepts comes back with its rows and copies.
LEMMA JobBack ==
  ASSUME NEW bytes \in {NarrowBytes, NativeBytes},
         NEW rows \in Seq([1..bytes -> Byte]), Len(rows) \in 1..(WordSize - 1),
         NEW s \in [speed : Int, density : Int, tracking : Int, copies : Int], Acceptable(s),
         NEW f, f = Frames(bytes, rows, s)
  PROVE  Decoded(f) = [ok |-> TRUE, rows |-> rows, copies |-> s.copies]
<1> DEFINE h == Len(rows)
           t == BuildHuffman(FlattenSeq(rows))
           tree == TreeOf(f[5].body)
<1>1. bytes \in Nat /\ h \in Nat /\ h >= 1 /\ rows = [i \in 1..h |-> rows[i]]
  BY RowAssumption
<1>2. /\ Full(t) /\ t.root \in Inner(t)
      /\ \A i \in 1..h : rows[i] \in Seq(Byte) /\ Len(rows[i]) = bytes /\ Covers(t, rows[i])
  BY <1>1, RowsCovered
<1>3. Len(f) = h + 8 /\ JobOf(bytes, rows, s, f) /\ \A k \in 1..(h + 8) : f[k].kind = KindAt(k, h)
  BY JobShape
<1>4. /\ s.speed % ByteSize = s.speed /\ s.density % ByteSize = s.density
      /\ s.copies % ByteSize = s.copies
  <2>1. /\ s.speed \in 0..(256 - 1) /\ s.density \in 0..(256 - 1) /\ s.copies \in 0..(256 - 1)
        /\ 256 \in Nat
    BY DEF Acceptable
  <2> QED
    BY <2>1, FieldHolds DEF ByteSize
<1>5. /\ f[1] = Frame("tracking", <<s.tracking % ByteSize>>, << >>)
      /\ f[2] = Frame("speed", <<s.speed>>, << >>)
      /\ f[3] = Frame("density", <<3, s.density, 8>>, << >>)
      /\ f[4] = Frame("start", <<bytes, h, 1>>, << >>)
      /\ f[5] = Frame("tree", << >>, Traversals(t))
      /\ f[6] = Sentinel(bytes)
      /\ f[7 + h] = Frame("end", << >>, << >>)
      /\ f[8 + h] = Frame("copies", <<s.copies, 19, 0>>, << >>)
  BY <1>3, <1>4 DEF JobOf
<1>6. \A i \in 1..h : f[6 + i] = EncodeRowFrame(i, rows[i], t)
  BY <1>3 DEF JobOf
<1>7. tree = t /\ t # NoTree
  <2>1. f[5].body = Traversals(t)
    BY <1>5 DEF Frame
  <2> HIDE DEF t
  <2> QED
    BY <1>2, <2>1, TreeSent
<1> HIDE DEF t, tree
<1>8. ASSUME NEW i \in 1..h
      PROVE  RowAccepted(f[6 + i], i, bytes, tree) /\ RowOf(f[6 + i], bytes, tree).data = rows[i]
  <2>1. i \in 1..(WordSize - 1)
    BY <1>1, WordAssumption
  <2>2. rows[i] \in Seq(Byte) /\ Len(rows[i]) = bytes /\ Covers(t, rows[i])
    BY <1>2
  <2> DEFINE row == rows[i]
  <2> HIDE DEF row
  <2>3. /\ RowAccepted(EncodeRowFrame(i, row, t), i, bytes, t)
        /\ RowOf(EncodeRowFrame(i, row, t), bytes, t).data = row
    BY <1>1, <1>2, <2>1, <2>2, RowBack DEF row
  <2> QED
    BY <1>6, <1>7, <2>3 DEF row
<1> HIDE DEF h
<1>9. Accepts(f)
  <2>1. DOMAIN f = 1..(h + 8)
    BY <1>3, JobShape
  <2>2. \A i \in DOMAIN f : f[i].kind # "broken"
    <3>1. ASSUME NEW i \in 1..(h + 8) PROVE KindAt(i, h) # "broken"
      <4>1. i \in {1, 2, 3, 4, 5} \/ ~(i <= 5)
        OBVIOUS
      <4> QED
        BY <4>1 DEF KindAt
    <3> QED
      BY <1>3, <2>1, <3>1
  <2>3. s.speed # 0 /\ s.density \in 1..15 /\ s.copies # 0
    <3>1. s.speed \in 1..255 /\ s.density \in 1..15 /\ s.copies \in 1..255
      BY DEF Acceptable
    <3>2. \A x \in 1..255 : x # 0
      OBVIOUS
    <3> QED
      BY <3>1, <3>2
  <2>4. f[1].kind = "tracking" /\ f[2].kind = "speed" /\ f[2].head[1] = s.speed
    BY <1>5 DEF Frame
  <2>5. /\ f[3].kind = "density" /\ f[3].head[1] = 3 /\ f[3].head[2] = s.density
        /\ f[3].head[3] = 8
    BY <1>5 DEF Frame
  <2>6. /\ f[4].kind = "start" /\ f[4].head[3] = 1 /\ f[4].head[1] = bytes /\ f[4].head[2] = h
        /\ f[5].kind = "tree" /\ f[6] = Sentinel(bytes) /\ f[7 + h].kind = "end"
    BY <1>5 DEF Frame
  <2>7. /\ f[8 + h].kind = "copies" /\ f[8 + h].head[1] = s.copies
        /\ f[8 + h].head[2] = 19 /\ f[8 + h].head[3] = 0
    BY <1>5 DEF Frame
  <2>8. Len(f) = h + 8 /\ h + 8 >= 8 /\ h > 0 /\ tree # NoTree
    BY <1>1, <1>3, <1>7
  <2> QED
    BY <1>8, <2>2, <2>3, <2>4, <2>5, <2>6, <2>7, <2>8 DEF Accepts, tree
<1>10. f[4].head[1] = bytes /\ f[4].head[2] = h /\ f[8 + h].head[1] = s.copies
  BY <1>5 DEF Frame
<1>11. [i \in 1..h |-> RowOf(f[6 + i], bytes, tree).data] = rows
  BY <1>1, <1>8
<1>12. Decoded(f) = [ok |-> TRUE, copies |-> s.copies,
                     rows |-> [i \in 1..h |-> RowOf(f[6 + i], bytes, tree).data]]
  BY <1>9, <1>10 DEF Decoded, tree
<1> QED
  BY <1>11, <1>12

----------------------------------------------------------------------------
(* Along the steps *)

\* Between the encoder and the decoder the job is the one for the rendered rows
\* and the stream is made of its frames and broken ones; the result is the
\* decoder's on that stream.
Inv ==
  /\ settings \in SettingsTried
  /\ phase \in {"rendered", "encoded", "decoded"} =>
       /\ intended.bytes \in {NarrowBytes, NativeBytes}
       /\ Len(intended.rows) \in 1..(WordSize - 1)
       /\ intended.rows \in Seq([1..intended.bytes -> Byte])
  /\ phase \in {"encoded", "decoded"} =>
       /\ Acceptable(settings)
       /\ job = Frames(intended.bytes, intended.rows, settings)
       /\ stream \in Seq({job[k] : k \in 1..Len(job)} \cup {Broken})
  /\ phase = "decoded" => result = Decoded(stream)

LEMMA InitInv == Init => Inv
BY DEF Init, Inv

\* The kinds of damage make no new frames.
LEMMA DamageKeepsFrames ==
  ASSUME NEW S, NEW fs \in Seq(S), NEW i \in DOMAIN fs, NEW e \in S
  PROVE  /\ RemoveAt(fs, i) \in Seq(S) /\ InsertAt(fs, i, e) \in Seq(S)
         /\ [fs EXCEPT ![i] = e] \in Seq(S)
<1>1. SubSeq(fs, 1, i - 1) \in Seq(S) /\ SubSeq(fs, i, Len(fs)) \in Seq(S)
      /\ SubSeq(fs, i + 1, Len(fs)) \in Seq(S) /\ <<e>> \in Seq(S)
  OBVIOUS
<1>2. \A a, b \in Seq(S) : a \o b \in Seq(S)
  OBVIOUS
<1>3. RemoveAt(fs, i) \in Seq(S)
  BY <1>1, <1>2 DEF RemoveAt
<1>4. InsertAt(fs, i, e) \in Seq(S)
  BY <1>1, <1>2 DEF InsertAt
<1>5. [fs EXCEPT ![i] = e] \in Seq(S)
  OBVIOUS
<1> QED
  BY <1>3, <1>4, <1>5

LEMMA NextInv == Inv /\ [Next]_vars => Inv'
<1> SUFFICES ASSUME Inv, [Next]_vars PROVE Inv'
  OBVIOUS
<1> DEFINE Own == {job[k] : k \in 1..Len(job)} \cup {Broken}
<1>1. CASE Monochrome
  <2>0. settings' \in SettingsTried
    BY <1>1 DEF Monochrome, Inv
  <2>1. CASE phase' = "refused"
    BY <2>0, <2>1 DEF Inv
  <2>2. CASE phase' = "rendered"
    <3>1. PICK bytes \in {NarrowBytes, NativeBytes}, height \in 1..(WordSize - 1) :
            \E r \in Rasters(bytes, height) : intended' = [bytes |-> bytes, rows |-> r]
      BY <1>1, <2>2, WordAssumption DEF Monochrome
    <3>2. PICK rows \in Rasters(bytes, height) : intended' = [bytes |-> bytes, rows |-> rows]
      BY <3>1
    <3>3. rows \in Seq([1..bytes -> Byte]) /\ Len(rows) = height
      BY WordAssumption DEF Rasters
    <3>4. /\ intended'.bytes \in {NarrowBytes, NativeBytes}
          /\ Len(intended'.rows) \in 1..(WordSize - 1)
          /\ intended'.rows \in Seq([1..intended'.bytes -> Byte])
      BY <3>2, <3>3
    <3> QED
      BY <2>0, <2>2, <3>4 DEF Inv
  <2> QED
    BY <1>1, <2>1, <2>2 DEF Monochrome
<1>2. CASE EncodeRows
  <2>0. settings' \in SettingsTried
    BY <1>2 DEF EncodeRows, Inv
  <2>1. CASE phase' = "refused"
    BY <2>0, <2>1 DEF Inv
  <2>2. CASE phase' = "encoded"
    <3>1. /\ Acceptable(settings) /\ job' = Frames(intended.bytes, intended.rows, settings) /\ stream' = job'
          /\ UNCHANGED <<intended, settings>> /\ phase = "rendered"
      BY <1>2, <2>2 DEF EncodeRows
    <3>2. /\ settings \in SettingsTried /\ intended.bytes \in {NarrowBytes, NativeBytes}
          /\ Len(intended.rows) \in 1..(WordSize - 1)
          /\ intended.rows \in Seq([1..intended.bytes -> Byte])
      BY <3>1 DEF Inv
    <3>3. PICK All : job' \in Seq(All)
      BY <3>1, <3>2, JobShape
    <3>4. job' \in Seq({job'[k] : k \in 1..Len(job')} \cup {Broken})
      BY <3>3
    <3> QED
      BY <2>2, <3>1, <3>2, <3>4 DEF Inv
  <2> QED
    BY <1>2, <2>1, <2>2 DEF EncodeRows
<1>3. ASSUME NEW fs, Damaged(fs), fs \in Seq(Own) PROVE Inv'
  BY <1>3 DEF Damaged, Inv
<1>4. phase = "encoded" => stream \in Seq(Own) /\ Broken \in Own
  BY DEF Inv
<1>5. CASE Drop
  <2>1. PICK i \in DOMAIN stream : Damaged(RemoveAt(stream, i))
    BY <1>5 DEF Drop
  <2>2. stream \in Seq(Own) /\ Broken \in Own
    BY <1>4, <2>1 DEF Damaged
  <2> HIDE DEF Own
  <2>3. RemoveAt(stream, i) \in Seq(Own)
    BY <2>2, DamageKeepsFrames
  <2> QED
    BY <1>3, <2>1, <2>3
<1>6. CASE Duplicate
  <2>1. PICK i \in DOMAIN stream : Damaged(InsertAt(stream, i, stream[i]))
    BY <1>6 DEF Duplicate
  <2>2. stream \in Seq(Own)
    BY <1>4, <2>1 DEF Damaged
  <2> HIDE DEF Own
  <2>3. stream[i] \in Own
    BY <2>2
  <2>4. InsertAt(stream, i, stream[i]) \in Seq(Own)
    BY <2>2, <2>3, DamageKeepsFrames
  <2> QED
    BY <1>3, <2>1, <2>4
<1>7. CASE Reorder
  <2>1. PICK i \in 1..(Len(stream) - 1) :
          Damaged([stream EXCEPT ![i] = stream[i + 1], ![i + 1] = stream[i]])
    BY <1>7 DEF Reorder
  <2>2. stream \in Seq(Own)
    BY <1>4, <2>1 DEF Damaged
  <2> HIDE DEF Own
  <2>3. i \in DOMAIN stream /\ i + 1 \in DOMAIN stream /\ stream[i] \in Own /\ stream[i + 1] \in Own
    BY <2>2
  <2>4. [stream EXCEPT ![i] = stream[i + 1]] \in Seq(Own)
        /\ i + 1 \in DOMAIN [stream EXCEPT ![i] = stream[i + 1]]
    BY <2>2, <2>3, DamageKeepsFrames
  <2>5. [[stream EXCEPT ![i] = stream[i + 1]] EXCEPT ![i + 1] = stream[i]] \in Seq(Own)
    BY <2>3, <2>4, DamageKeepsFrames
  <2>6. [stream EXCEPT ![i] = stream[i + 1], ![i + 1] = stream[i]] =
          [[stream EXCEPT ![i] = stream[i + 1]] EXCEPT ![i + 1] = stream[i]]
    OBVIOUS
  <2> QED
    BY <1>3, <2>1, <2>5, <2>6
<1>8. CASE Break
  <2>1. PICK i \in DOMAIN stream : Damaged([stream EXCEPT ![i] = Broken])
    BY <1>8 DEF Break
  <2>2. stream \in Seq(Own) /\ Broken \in Own
    BY <1>4, <2>1 DEF Damaged
  <2> HIDE DEF Own
  <2>3. [stream EXCEPT ![i] = Broken] \in Seq(Own)
    BY <2>2, DamageKeepsFrames
  <2> QED
    BY <1>3, <2>1, <2>3
<1>9. CASE Cut
  <2>1. PICK n \in 0..(Len(stream) - 1) : Damaged(SubSeq(stream, 1, n))
    BY <1>9 DEF Cut
  <2>2. stream \in Seq(Own)
    BY <1>4, <2>1 DEF Damaged
  <2> HIDE DEF Own
  <2>3. SubSeq(stream, 1, n) \in Seq(Own)
    BY <2>2
  <2> QED
    BY <1>3, <2>1, <2>3
<1>10. CASE DecodeJob
  BY <1>10 DEF DecodeJob, Inv
<1>11. CASE UNCHANGED vars
  BY <1>11 DEF vars, Inv
<1> QED
  BY <1>1, <1>2, <1>5, <1>6, <1>7, <1>8, <1>9, <1>10, <1>11 DEF Next

\* What Inv says once the decoder has accepted a stream: it was given the job.
LEMMA AcceptedJob ==
  ASSUME Inv, phase = "decoded", result.ok
  PROVE  /\ stream = job /\ Accepts(job) /\ result = Decoded(job)
         /\ Len(intended.rows) \in 1..(WordSize - 1)
         /\ intended.rows \in Seq([1..intended.bytes -> Byte])
         /\ job = Frames(intended.bytes, intended.rows, settings)
<1>1. result = Decoded(stream) /\ Accepts(stream)
  BY DEF Inv, Decoded, NoResult
<1>2. /\ Len(intended.rows) \in 1..(WordSize - 1)
      /\ intended.rows \in Seq([1..intended.bytes -> Byte])
      /\ job = Frames(intended.bytes, intended.rows, settings)
      /\ stream \in Seq({job[k] : k \in 1..Len(job)} \cup {Broken})
  BY DEF Inv
<1>3. stream = job
  BY <1>1, <1>2, OnlyTheJob
<1> QED
  BY <1>1, <1>2, <1>3

\* Whatever part, repetition or rearrangement of a job's frames reaches
\* DecodeJob, it accepts nothing but the whole job.
THEOREM WholeJob == Spec => []OnlyTheWholeJob
<1>1. Inv => OnlyTheWholeJob
  BY AcceptedJob DEF OnlyTheWholeJob
<1> QED
  BY <1>1, InitInv, NextInv, PTL DEF Spec

\* For every page, width and height and all settings encodeRows accepts,
\* DecodeJob gives back the rows and the number of copies that were encoded: the
\* tree it rebuilds is the encoder's, the codes part where the encoder put them
\* together, and the padding is told from the last code.
THEOREM RowsComeBack == Spec => []RoundTrip
<1>1. Inv => RoundTrip
  <2> SUFFICES ASSUME Inv, phase = "decoded", stream = job
               PROVE  result = [ok |-> TRUE, rows |-> intended.rows, copies |-> settings.copies]
    BY DEF RoundTrip
  <2>1. /\ intended.bytes \in {NarrowBytes, NativeBytes}
        /\ Len(intended.rows) \in 1..(WordSize - 1)
        /\ intended.rows \in Seq([1..intended.bytes -> Byte])
        /\ Acceptable(settings)
        /\ job = Frames(intended.bytes, intended.rows, settings)
        /\ result = Decoded(job)
    BY DEF Inv
  <2>2. settings \in [speed : Int, density : Int, tracking : Int, copies : Int]
    BY SettingsAssumption DEF Inv
  <2> QED
    BY <2>1, <2>2, JobBack
<1> QED
  BY <1>1, InitInv, NextInv, PTL DEF Spec

\* Whatever the appliance's decoder accepts, the desktop client reads with the
\* same rows when it is as wide as the client's pages, and refuses otherwise.
THEOREM DesktopReadsTheSame == Spec => []DesktopAgrees
<1>1. Inv => DesktopAgrees
  <2> SUFFICES ASSUME Inv, phase = "decoded", result.ok
               PROVE  DesktopDecoded(stream) =
                        IF intended.bytes = NarrowBytes THEN [ok |-> TRUE, rows |-> result.rows]
                        ELSE [ok |-> FALSE, rows |-> << >>]
    BY DEF DesktopAgrees
  <2>1. /\ stream = job /\ Accepts(job) /\ result = Decoded(job)
        /\ Len(intended.rows) \in 1..(WordSize - 1)
        /\ intended.rows \in Seq([1..intended.bytes -> Byte])
        /\ job = Frames(intended.bytes, intended.rows, settings)
    BY AcceptedJob
  <2>2. DesktopDecoded(job) =
          IF intended.bytes = NarrowBytes THEN [ok |-> TRUE, rows |-> Decoded(job).rows]
          ELSE [ok |-> FALSE, rows |-> << >>]
    BY <2>1, DesktopReads
  <2> QED
    BY <2>1, <2>2
<1> QED
  BY <1>1, InitInv, NextInv, PTL DEF Spec

----------------------------------------------------------------------------
(* The types of a job *)

\* What follows the header of a frame, and the fields of the header, are numbers.
LEMMA FramesType ==
  ASSUME NEW bytes \in {NarrowBytes, NativeBytes},
         NEW rows \in Seq([1..bytes -> Byte]), Len(rows) \in 1..(WordSize - 1),
         NEW s \in [speed : Int, density : Int, tracking : Int, copies : Int],
         NEW f, f = Frames(bytes, rows, s)
  PROVE  f \in Seq(FrameType)
<1> DEFINE h == Len(rows)
           t == BuildHuffman(FlattenSeq(rows))
<1>1. bytes \in Nat /\ h \in Nat /\ h >= 1
  BY RowAssumption
<1>2. /\ Full(t) /\ t.root \in Inner(t)
      /\ \A i \in 1..h : rows[i] \in Seq(Byte) /\ Len(rows[i]) = bytes /\ Covers(t, rows[i])
  BY <1>1, RowsCovered
<1>3. /\ Len(f) = h + 8 /\ JobOf(bytes, rows, s, f) /\ \E All : f \in Seq(All)
  BY JobShape
<1>4. \A w \in Int : w % ByteSize \in Nat
  BY DEF ByteSize
<1>5. Traversals(t) \in Seq(Nat)
  <2> HIDE DEF t
  <2>1. Preorder(t) \in Seq(Nat) /\ Inorder(t) \in Seq(Nat)
    BY <1>2, TreeBack
  <2>2. \A a, b \in Seq(Nat) : a \o b \in Seq(Nat)
    OBVIOUS
  <2> QED
    BY <2>1, <2>2 DEF Traversals
<1>6. \A kind \in Kinds, head \in Seq(Nat), body \in Seq(Nat) : Frame(kind, head, body) \in FrameType
  BY DEF Frame, FrameType
<1>7. /\ f[1] \in FrameType /\ f[2] \in FrameType /\ f[3] \in FrameType /\ f[4] \in FrameType
      /\ f[5] \in FrameType /\ f[6] \in FrameType /\ f[7 + h] \in FrameType /\ f[8 + h] \in FrameType
  <2>1. /\ <<s.tracking % ByteSize>> \in Seq(Nat) /\ <<s.speed % ByteSize>> \in Seq(Nat)
        /\ <<3, s.density % ByteSize, 8>> \in Seq(Nat) /\ <<s.copies % ByteSize, 19, 0>> \in Seq(Nat)
    <3>1. /\ s.tracking % ByteSize \in Nat /\ s.speed % ByteSize \in Nat
          /\ s.density % ByteSize \in Nat /\ s.copies % ByteSize \in Nat
      BY <1>4
    <3> QED
      BY <3>1
  <2>2. <<bytes, h, 1>> \in Seq(Nat) /\ <<0, bytes, 1>> \in Seq(Nat) /\ << >> \in Seq(Nat)
    BY <1>1
  <2>3. {"tracking", "speed", "density", "start", "tree", "raster", "end", "copies"} \subseteq Kinds
    BY DEF Kinds
  <2>4. /\ f[1] = Frame("tracking", <<s.tracking % ByteSize>>, << >>)
        /\ f[2] = Frame("speed", <<s.speed % ByteSize>>, << >>)
        /\ f[3] = Frame("density", <<3, s.density % ByteSize, 8>>, << >>)
        /\ f[4] = Frame("start", <<bytes, h, 1>>, << >>)
        /\ f[5] = Frame("tree", << >>, Traversals(t))
        /\ f[6] = Frame("raster", <<0, bytes, 1>>, << >>)
        /\ f[7 + h] = Frame("end", << >>, << >>)
        /\ f[8 + h] = Frame("copies", <<s.copies % ByteSize, 19, 0>>, << >>)
    BY <1>3 DEF JobOf, Sentinel
  <2> HIDE DEF h, t
  <2>5a. f[1] \in FrameType
    <3> DEFINE w == <<s.tracking % ByteSize>>
    <3>1. "tracking" \in Kinds /\ w \in Seq(Nat) /\ << >> \in Seq(Nat)
      BY <2>1, <2>2, <2>3
    <3>2. f[1] = Frame("tracking", w, << >>)
      BY <2>4
    <3> HIDE DEF w
    <3> QED
      BY <1>6, <3>1, <3>2
  <2>5b. f[2] \in FrameType
    <3> DEFINE w == <<s.speed % ByteSize>>
    <3>1. "speed" \in Kinds /\ w \in Seq(Nat) /\ << >> \in Seq(Nat)
      BY <2>1, <2>2, <2>3
    <3>2. f[2] = Frame("speed", w, << >>)
      BY <2>4
    <3> HIDE DEF w
    <3> QED
      BY <1>6, <3>1, <3>2
  <2>6a. f[3] \in FrameType
    <3> DEFINE w == <<3, s.density % ByteSize, 8>>
    <3>1. "density" \in Kinds /\ w \in Seq(Nat) /\ << >> \in Seq(Nat)
      BY <2>1, <2>2, <2>3
    <3>2. f[3] = Frame("density", w, << >>)
      BY <2>4
    <3> HIDE DEF w
    <3> QED
      BY <1>6, <3>1, <3>2
  <2>6b. f[4] \in FrameType
    <3> DEFINE w == <<bytes, h, 1>>
    <3>1. "start" \in Kinds /\ w \in Seq(Nat) /\ << >> \in Seq(Nat)
      BY <2>1, <2>2, <2>3
    <3>2. f[4] = Frame("start", w, << >>)
      BY <2>4
    <3> HIDE DEF w
    <3> QED
      BY <1>6, <3>1, <3>2
  <2>7. f[5] \in FrameType
    <3>1. "tree" \in Kinds /\ << >> \in Seq(Nat)
      BY <2>2, <2>3
    <3>2. f[5] = Frame("tree", << >>, Traversals(t))
      BY <2>4
    <3> QED
      BY <1>5, <1>6, <3>1, <3>2
  <2>8. f[6] \in FrameType
    BY <1>6, <2>2, <2>3, <2>4
  <2>9a. f[7 + h] \in FrameType
    <3>1. "end" \in Kinds /\ << >> \in Seq(Nat)
      BY <2>2, <2>3
    <3>2. f[7 + h] = Frame("end", << >>, << >>)
      BY <2>4
    <3> QED
      BY <1>6, <3>1, <3>2
  <2>9b. f[8 + h] \in FrameType
    <3> DEFINE w == <<s.copies % ByteSize, 19, 0>>
    <3>1. "copies" \in Kinds /\ w \in Seq(Nat) /\ << >> \in Seq(Nat)
      BY <2>1, <2>2, <2>3
    <3>2. f[8 + h] = Frame("copies", w, << >>)
      BY <2>4
    <3> HIDE DEF w
    <3> QED
      BY <1>6, <3>1, <3>2
  <2> QED
    BY <2>5a, <2>5b, <2>6a, <2>6b, <2>7, <2>8, <2>9a, <2>9b
<1>8. ASSUME NEW i \in 1..h PROVE f[6 + i] \in FrameType
  <2>1. f[6 + i] = EncodeRowFrame(i, rows[i], t)
    BY <1>3 DEF JobOf
  <2> DEFINE row == rows[i]
             e == Encode(t, row)
  <2>2. row \in Seq(Byte) /\ Len(row) = bytes /\ Covers(t, row)
    BY <1>2
  <2> HIDE DEF row, t
  <2>3. e.bits \in Seq({0, 1})
    BY <1>2, <2>2, DecodeBack
  <2>4. CodeAll(t, row) \in Seq({0, 1})
    BY <1>2, <2>2, CodesLaid
  <2>5. e.pad \in Nat
    <3>1. e.pad = (ByteBits - (Len(CodeAll(t, row)) % ByteBits)) % ByteBits
      BY DEF Encode
    <3> DEFINE n == Len(CodeAll(t, row))
    <3>2. n \in Nat /\ ByteBits \in Nat /\ ByteBits > 0
      BY <2>4, ByteBitsAssumption
    <3> HIDE DEF n
    <3>3. n % ByteBits \in Int
      BY <3>2
    <3>4. (ByteBits - (n % ByteBits)) % ByteBits \in Nat
      BY <3>2, <3>3
    <3> QED
      BY <3>1, <3>4 DEF n
  <2>6. i % WordSize \in Nat
    BY WordAssumption
  <2> HIDE DEF e
  <2>7. f[6 + i] = Frame("raster", <<i % WordSize, bytes, e.pad>>, e.bits)
    BY <2>1, <2>2 DEF EncodeRowFrame, e, row
  <2>8. <<i % WordSize, bytes, e.pad>> \in Seq(Nat) /\ e.bits \in Seq(Nat) /\ "raster" \in Kinds
    <3>1. <<i % WordSize, bytes, e.pad>> \in Seq(Nat)
      BY <1>1, <2>5, <2>6
    <3>2. e.bits \in Seq(Nat)
      BY <2>3
    <3> QED
      BY <3>1, <3>2 DEF Kinds
  <2> QED
    BY <1>6, <2>7, <2>8
<1> HIDE DEF h, t
<1>9. ASSUME NEW k \in 1..(h + 8) PROVE f[k] \in FrameType
  <2>1. \/ k \in {1, 2, 3, 4, 5, 6} \/ k = 7 + h \/ k = 8 + h
        \/ (k - 6 \in 1..h /\ 6 + (k - 6) = k)
    BY <1>1
  <2>2. CASE k \in {1, 2, 3, 4, 5, 6} \/ k = 7 + h \/ k = 8 + h
    BY <1>7, <2>2
  <2>3. CASE k - 6 \in 1..h /\ 6 + (k - 6) = k
    <3> DEFINE i == k - 6
    <3>1. i \in 1..h /\ 6 + i = k
      BY <2>3
    <3> HIDE DEF i
    <3> QED
      BY <1>8, <3>1
  <2> QED
    BY <2>1, <2>2, <2>3
<1>10. f = [k \in 1..(h + 8) |-> f[k]] /\ h + 8 \in Nat
  BY <1>1, <1>3
<1>11. f \in [1..(h + 8) -> FrameType]
  BY <1>9, <1>10
<1> DEFINE n == h + 8
<1>12. f \in [1..n -> FrameType] /\ n \in Nat
  BY <1>10, <1>11
<1> HIDE DEF n
<1> QED
  BY <1>12

\* What holds of the variables that Inv says nothing of yet.
EarlyInv ==
  /\ phase \in {"idle", "rendered", "encoded", "decoded", "refused"}
  /\ intended.bytes \in {NarrowBytes, NativeBytes} /\ Len(intended.rows) < WordSize
  /\ phase \in {"idle", "rendered", "refused"} => job = << >> /\ stream = << >>
  /\ phase # "decoded" => result = NoResult
  /\ damages \in 0..MaxDamages

LEMMA EarlyStep == EarlyInv /\ [Next]_vars => EarlyInv'
<1> SUFFICES ASSUME EarlyInv, [Next]_vars PROVE EarlyInv'
  OBVIOUS
<1>1. CASE Monochrome
  <2>1. UNCHANGED <<job, stream, damages, result>> /\ phase = "idle"
    BY <1>1 DEF Monochrome
  <2>2. CASE phase' = "refused" /\ UNCHANGED intended
    BY <2>1, <2>2 DEF EarlyInv
  <2>3. CASE phase' = "rendered"
    <3>1. PICK bytes \in {NarrowBytes, NativeBytes}, height \in 1..(WordSize - 1) :
            \E r \in Rasters(bytes, height) : intended' = [bytes |-> bytes, rows |-> r]
      BY <1>1, <2>3, WordAssumption DEF Monochrome
    <3>2. PICK rows \in Rasters(bytes, height) : intended' = [bytes |-> bytes, rows |-> rows]
      BY <3>1
    <3>3. Len(rows) = height /\ height < WordSize
      BY WordAssumption DEF Rasters
    <3> QED
      BY <2>1, <2>3, <3>2, <3>3 DEF EarlyInv
  <2> QED
    BY <1>1, <2>2, <2>3 DEF Monochrome
<1>2. CASE EncodeRows
  BY <1>2 DEF EncodeRows, EarlyInv
<1>3. ASSUME NEW fs, Damaged(fs) PROVE EarlyInv'
  <2>1. damages + 1 \in 0..MaxDamages
    BY <1>3, MaxDamagesAssumption DEF Damaged, EarlyInv
  <2> QED
    BY <1>3, <2>1 DEF Damaged, EarlyInv
<1>4. CASE Drop \/ Duplicate \/ Reorder \/ Break \/ Cut
  BY <1>3, <1>4 DEF Drop, Duplicate, Reorder, Break, Cut
<1>5. CASE DecodeJob
  BY <1>5 DEF DecodeJob, EarlyInv
<1>6. CASE UNCHANGED vars
  BY <1>6 DEF vars, EarlyInv
<1> QED
  BY <1>1, <1>2, <1>4, <1>5, <1>6 DEF Next

\* The variables keep their types: every field of a frame is a number, on
\* whatever is left of the stream, and a height always fits its field.
THEOREM JobTypeCorrect == Spec => []TypeOK
<1>1. Init => EarlyInv
  <2>1. << >> \in Seq({}) /\ Len(<< >>) = 0
    OBVIOUS
  <2> QED
    BY <2>1, WordAssumption, MaxDamagesAssumption DEF Init, EarlyInv
<1>2. Inv /\ EarlyInv => TypeOK
  <2> SUFFICES ASSUME Inv, EarlyInv PROVE TypeOK
    OBVIOUS
  <2>1. settings \in SettingsTried
        /\ settings \in [speed : Int, density : Int, tracking : Int, copies : Int]
    BY SettingsAssumption DEF Inv
  <2>2. job \in Seq(FrameType) /\ stream \in Seq(FrameType)
    <3>1. CASE phase \in {"idle", "rendered", "refused"}
      <4>1. job = << >> /\ stream = << >>
        BY <3>1 DEF EarlyInv
      <4>2. << >> \in Seq(FrameType)
        OBVIOUS
      <4> QED
        BY <4>1, <4>2
    <3>2. CASE phase \in {"encoded", "decoded"}
      <4>1. /\ intended.bytes \in {NarrowBytes, NativeBytes}
            /\ Len(intended.rows) \in 1..(WordSize - 1)
            /\ intended.rows \in Seq([1..intended.bytes -> Byte])
            /\ job = Frames(intended.bytes, intended.rows, settings)
            /\ stream \in Seq({job[k] : k \in 1..Len(job)} \cup {Broken})
        BY <3>2 DEF Inv
      <4>2. job \in Seq(FrameType)
        BY <2>1, <4>1, FramesType
      <4>3. Broken \in FrameType
        <5>1. << >> \in Seq(Nat) /\ "broken" \in Kinds
          BY DEF Kinds
        <5> QED
          BY <5>1 DEF Broken, Frame, FrameType
      <4> DEFINE Own == {job[k] : k \in 1..Len(job)} \cup {Broken}
      <4>4. Own \subseteq FrameType
        BY <4>2, <4>3
      <4>5. stream \in Seq(FrameType)
        <5>1. stream \in Seq(Own)
          BY <4>1
        <5> HIDE DEF Own
        <5> QED
          BY <4>4, <5>1
      <4> QED
        BY <4>2, <4>5
    <3> QED
      BY <3>1, <3>2 DEF EarlyInv
  <2>3. result.ok \in BOOLEAN /\ result.copies \in Nat
    <3>1. CASE result = NoResult
      BY <3>1 DEF NoResult
    <3>2. CASE phase = "decoded" /\ result # NoResult
      <4>1. result = Decoded(stream) /\ Accepts(stream)
        BY <3>2 DEF Inv, Decoded
      <4>2. result.ok
        BY <4>1 DEF Decoded
      <4>3. /\ intended.bytes \in {NarrowBytes, NativeBytes} /\ Acceptable(settings)
            /\ Len(intended.rows) \in 1..(WordSize - 1)
            /\ intended.rows \in Seq([1..intended.bytes -> Byte])
            /\ job = Frames(intended.bytes, intended.rows, settings) /\ result = Decoded(job)
        <5>1. stream = job
          BY <3>2, <4>2, AcceptedJob
        <5> QED
          BY <3>2, <4>1, <5>1 DEF Inv
      <4>4. result = [ok |-> TRUE, rows |-> intended.rows, copies |-> settings.copies]
        BY <2>1, <4>3, JobBack
      <4>5. settings.copies \in Nat
        <5>1. settings.copies \in 1..255
          BY <4>3 DEF Acceptable
        <5>2. 1..255 \subseteq Nat
          OBVIOUS
        <5> QED
          BY <5>1, <5>2
      <4> QED
        BY <4>4, <4>5
    <3> QED
      BY <3>1, <3>2 DEF EarlyInv
  <2> QED
    BY <2>1, <2>2, <2>3 DEF EarlyInv, TypeOK
<1> QED
  BY <1>1, <1>2, EarlyStep, InitInv, NextInv, PTL DEF Spec

----------------------------------------------------------------------------
(***************************************************************************)
(* The page of a gift                                                      *)
(***************************************************************************)

LEMMA MinOfTwo ==
  ASSUME NEW a \in Int, NEW b \in Int
  PROVE  Min({a, b}) = IF a <= b THEN a ELSE b
<1> DEFINE m == IF a <= b THEN a ELSE b
<1>1. m \in {a, b} /\ \A y \in {a, b} : m <= y
  OBVIOUS
<1>2. \A x \in {a, b} : (\A y \in {a, b} : x <= y) => x = m
  OBVIOUS
<1> QED
  BY <1>1, <1>2 DEF Min

LEMMA MaxOfTwo ==
  ASSUME NEW a \in Int, NEW b \in Int
  PROVE  Max({a, b}) = IF a <= b THEN b ELSE a
<1> DEFINE m == IF a <= b THEN b ELSE a
<1>1. m \in {a, b} /\ \A y \in {a, b} : m >= y
  OBVIOUS
<1>2. \A x \in {a, b} : (\A y \in {a, b} : x >= y) => x = m
  OBVIOUS
<1> QED
  BY <1>1, <1>2 DEF Max

\* The variables keep their types.
THEOREM LayoutTypeCorrect == LayoutSpec => []LayoutTypeOK
<1>1. LayoutInit => LayoutTypeOK
  BY GiftAssumption DEF LayoutInit, LayoutTypeOK
<1>2. LayoutTypeOK /\ [LayoutNext]_layoutVars => LayoutTypeOK'
  <2> SUFFICES ASSUME LayoutTypeOK, [LayoutNext]_layoutVars PROVE LayoutTypeOK'
    OBVIOUS
  <2>1. CASE AddWord
    <3>1. PICK n \in WordLengths : words' = Append(words, n)
      BY <2>1 DEF AddWord
    <3> QED
      BY <2>1, <3>1 DEF AddWord, LayoutTypeOK
  <2>2. CASE ForceLines
    BY <2>2 DEF ForceLines, LayoutTypeOK
  <2>3. CASE GiftIsDue
    BY <2>3 DEF GiftIsDue, LayoutTypeOK
  <2>4. CASE UNCHANGED layoutVars
    BY <2>4 DEF layoutVars, LayoutTypeOK
  <2> QED
    BY <2>1, <2>2, <2>3, <2>4 DEF LayoutNext
<1> QED
  BY <1>1, <1>2, PTL DEF LayoutSpec

\* For any number of gifts and of recipients, with or without a name that can be
\* drawn, each gift is counted once on its page, and the roster, the "+ N MORE"
\* line, the footer and the frame keep clear of each other.
THEOREM GiftPage == LayoutSpec => []EveryGiftIsOnThePage
<1>1. LayoutTypeOK => EveryGiftIsOnThePage
  <2> SUFFICES ASSUME LayoutTypeOK, total > 0, named > 0 PROVE EveryGiftIsOnThePage
    BY DEF EveryGiftIsOnThePage
  <2>1. named \in Nat /\ blank \in Nat /\ total \in Nat
    BY GiftAssumption DEF LayoutTypeOK
  <2>2. Displayed = IF named <= 24 THEN named ELSE 24
    BY <2>1, MinOfTwo DEF Displayed, MaxDisplayed
  <2>3. Displayed \in 1..24
    BY <2>1, <2>2
  <2>4. MissingNames = IF total > named + blank THEN total - (named + blank) ELSE 0
    BY <2>1, MaxOfTwo DEF MissingNames
  <2>5. More = MissingNames + (named - Displayed) +
               IF total > named + MissingNames THEN total - named - MissingNames ELSE 0
    BY <2>1, <2>3, <2>4, MaxOfTwo DEF More
  <2>6. More \in Nat /\ Displayed + More = Max({total, named})
    <3>1. Max({total, named}) = IF total <= named THEN named ELSE total
      BY <2>1, MaxOfTwo
    <3> QED
      BY <2>1, <2>2, <2>4, <2>5, <3>1
  <2>7. RosterRows \in 1..12 /\ (Displayed > 20 <=> RosterRows > 10)
                              /\ (Displayed > 16 <=> RosterRows > 8)
    BY <2>3 DEF RosterRows
  <2>8. FaceHeight(RosterFont) <= RowGap
    BY <2>7 DEF FaceHeight, RosterFont, RowGap
  <2>9. RosterTop + RosterRows * RowGap \in 1321..1893
    <3>1. CASE RosterRows > 10
      BY <2>7, <3>1 DEF RosterTop, RowGap
    <3>2. CASE RosterRows \in 9..10
      BY <3>2 DEF RosterTop, RowGap
    <3>3. CASE RosterRows \in 1..8
      BY <3>3 DEF RosterTop, RowGap
    <3> QED
      BY <2>7, <3>1, <3>2, <3>3
  <2>10. RosterBottom \in 1321..1963
         /\ RosterBottom = RosterTop + RosterRows * RowGap + (IF More > 0 THEN 70 ELSE 0)
    BY <2>6, <2>9 DEF RosterBottom
  <2>11. FooterTop = IF RosterBottom + 70 <= 2020 THEN 2020 ELSE RosterBottom + 70
    BY <2>10, MaxOfTwo DEF FooterTop
  <2>12. FaceHeight(36) = 43 /\ FaceHeight(30) = 36
    BY DEF FaceHeight
  <2>13. More > 0 => MoreTop + FaceHeight(36) <= RosterBottom
    BY <2>9, <2>10, <2>12 DEF MoreTop
  <2>14. RosterBottom <= FooterTop - 35 /\ FooterTop + FaceHeight(30) <= PageBottom
    BY <2>10, <2>11, <2>12 DEF PageBottom
  <2> QED
    BY <2>6, <2>8, <2>13, <2>14 DEF EveryGiftIsOnThePage
<1> QED
  BY <1>1, LayoutTypeCorrect, PTL

----------------------------------------------------------------------------
(***************************************************************************)
(* The lines of a banner                                                   *)
(***************************************************************************)

SumBody(line, f) ==
  [s \in SUBSET DOMAIN line |->
     IF s = {} THEN 0 ELSE LET x == CHOOSE x \in s : TRUE IN line[x] + f[s \ {x}]]

Sums(line) == CHOOSE f : f = SumBody(line, f)

LEMMA SumMeans ==
  ASSUME NEW line
  PROVE  SumFunction(line) = Sums(line)[DOMAIN line]
BY DEF SumFunction, SumFunctionOnSet, FoldFunctionOnSet, MapThenFoldSet, Sums, SumBody

\* The words of a line have as many letters as there are words, or more.
LEMMA SumIs ==
  ASSUME NEW line \in Seq(Nat \ {0})
  PROVE  SumFunction(line) \in Nat /\ (line # << >> => SumFunction(line) >= 1)
<1> DEFINE n == Len(line)
           D == SUBSET (1..n)
           rank == [s \in D |-> Cardinality(s)]
           Pick(s) == CHOOSE x \in s : TRUE
           value(s, f) == IF s = {} THEN 0 ELSE line[Pick(s)] + f[s \ {Pick(s)}]
           step == [s \in D |-> [f \in [D -> Nat] |-> value(s, f)]]
<1>1. n \in Nat /\ DOMAIN line = 1..n /\ \A i \in 1..n : line[i] \in Nat /\ line[i] >= 1
  OBVIOUS
<1>2. \A s \in D : IsFiniteSet(s) /\ Cardinality(s) \in 0..n
  <2>1. IsFiniteSet(1..n) /\ Cardinality(1..n) = n
    BY <1>1, FS_Interval
  <2>2. ASSUME NEW s \in D PROVE IsFiniteSet(s) /\ Cardinality(s) <= n
    BY <2>1, FS_Subset
  <2>3. \A s \in D : Cardinality(s) \in Nat
    BY <2>2, FS_CardinalityType
  <2> QED
    BY <1>1, <2>2, <2>3
<1>3. \A s \in D : s # {} => Pick(s) \in s /\ Pick(s) \in 1..n /\ s \ {Pick(s)} \in D
  OBVIOUS
<1> HIDE DEF Pick, n
<1>4. ASSUME NEW s \in D, s # {} PROVE Cardinality(s \ {Pick(s)}) < Cardinality(s)
  <2>1. Cardinality(s \ {Pick(s)}) = Cardinality(s) - 1
    BY <1>2, <1>3, <1>4, FS_RemoveElement
  <2> QED
    BY <1>2, <2>1
<1>5. ASSUME NEW s \in D, NEW f \in [D -> Nat] PROVE value(s, f) \in Nat
  BY <1>1, <1>3
<1>6. step \in [D -> [[D -> Nat] -> Nat]]
  <2> HIDE DEF value
  <2> QED
    BY <1>5
<1>7. ASSUME NEW s \in D, NEW f \in [D -> Nat], NEW g \in [D -> Nat],
             \A u \in D : rank[u] < rank[s] => f[u] = g[u]
      PROVE  step[s][f] = step[s][g]
  <2>1. s # {} => f[s \ {Pick(s)}] = g[s \ {Pick(s)}]
    BY <1>3, <1>4, <1>7
  <2>2. value(s, f) = value(s, g)
    BY <2>1
  <2> HIDE DEF value
  <2> QED
    BY <2>2
<1>8. rank \in [D -> 0..n]
  BY <1>2
<1>9. RankRecursive(D, Nat, step)
  <2>1. 0 \in Nat /\ n \in Nat
    BY <1>1
  <2>2. \A s \in D : \A f, g \in [D -> Nat] :
          (\A u \in D : rank[u] < rank[s] => f[u] = g[u]) => step[s][f] = step[s][g]
    BY <1>7
  <2> HIDE DEF D, rank, step
  <2> QED
    BY <1>6, <1>8, <2>1, <2>2, RankRecursion
<1>10. PICK g \in [D -> Nat] : \A s \in D : g[s] = step[s][g]
  BY <1>9 DEF RankRecursive
<1>11. \A s \in D : g[s] = value(s, g)
  <2> HIDE DEF value, D
  <2> QED
    BY <1>10
<1>12. g = SumBody(line, g)
  <2>1. SumBody(line, g) = [s \in D |-> value(s, g)]
    BY <1>1 DEF SumBody, Pick
  <2> HIDE DEF value, D
  <2> QED
    BY <1>11, <2>1
<1> DEFINE h == Sums(line)
<1>13. h = SumBody(line, h)
  BY <1>12 DEF Sums
<1> HIDE DEF h
<1>14. \A s \in D : h[s] = value(s, h)
  <2>1. SumBody(line, h) = [s \in D |-> value(s, h)]
    BY <1>1 DEF SumBody, Pick
  <2> HIDE DEF value, D
  <2> QED
    BY <1>13, <2>1
<1> DEFINE S == {c \in Nat : \A s \in D : Cardinality(s) = c => h[s] \in Nat}
<1>15. ASSUME NEW c \in Nat, \A b \in 0..(c - 1) : b \in S PROVE c \in S
  <2> SUFFICES ASSUME NEW s \in D, Cardinality(s) = c PROVE h[s] \in Nat
    OBVIOUS
  <2>0. h[s] = value(s, h)
    <3> HIDE DEF value, D
    <3> QED
      BY <1>14
  <2>1. CASE s = {}
    BY <2>0, <2>1
  <2>2. CASE s # {}
    <3> DEFINE u == s \ {Pick(s)}
    <3>1. u \in D /\ Cardinality(u) < c /\ Cardinality(u) \in Nat /\ h[s] = line[Pick(s)] + h[u]
      <4>1. u \in D /\ Cardinality(u) < c
        BY <1>3, <1>4, <2>2
      <4>2. Cardinality(u) \in Nat
        BY <1>2, <4>1
      <4>3. h[s] = line[Pick(s)] + h[u]
        BY <2>0, <2>2
      <4> QED
        BY <4>1, <4>2, <4>3
    <3> HIDE DEF u
    <3>2. Cardinality(u) \in S
      BY <1>15, <3>1
    <3> QED
      BY <1>1, <1>3, <2>2, <3>1, <3>2
  <2> QED
    BY <2>1, <2>2
<1>16. \A s \in D : h[s] \in Nat
  <2>1. S \in SUBSET Nat
    OBVIOUS
  <2>2. \A c \in Nat : (\A b \in 0..(c - 1) : b \in S) => c \in S
    BY <1>15
  <2> HIDE DEF S
  <2>3. S = Nat
    BY <2>1, <2>2, StrongInduction
  <2> QED
    BY <1>2, <2>3 DEF S
<1>17. SumFunction(line) = h[1..n] /\ 1..n \in D
  BY <1>1, SumMeans DEF h
<1>18. ASSUME line # << >> PROVE h[1..n] >= 1
  <2> DEFINE s == 1..n
             u == s \ {Pick(s)}
  <2>1. s # {} /\ s \in D
    BY <1>1, <1>18 DEF n
  <2> HIDE DEF s
  <2>2. u \in D /\ h[s] = line[Pick(s)] + h[u] /\ line[Pick(s)] >= 1 /\ line[Pick(s)] \in Nat
    BY <1>1, <1>3, <1>14, <2>1
  <2>3. h[u] \in Nat
    BY <1>16, <2>2
  <2> HIDE DEF u
  <2> QED
    BY <2>2, <2>3 DEF s
<1> QED
  BY <1>16, <1>17, <1>18

\* A text of one word or more.
IsText(text) == text \in Seq(Nat \ {0}) /\ text # << >>

LEMMA LettersAre ==
  ASSUME NEW line, IsText(line)
  PROVE  Letters(line) \in Nat /\ Letters(line) >= 1
<1>1. SumFunction(line) \in Nat /\ SumFunction(line) >= 1
  BY SumIs DEF IsText
<1>2. Len(line) \in Nat /\ Len(line) >= 1
  BY DEF IsText
<1> QED
  BY <1>1, <1>2 DEF Letters

\* Lines of words, none of them empty.
IsLines(lines) ==
  lines \in Seq(Seq(Nat \ {0})) /\ lines # << >> /\ \A i \in DOMAIN lines : IsText(lines[i])

LEMMA TimesMore ==
  ASSUME NEW a \in Nat, NEW b \in Nat, NEW c \in Nat, a <= b
  PROVE  a * c <= b * c
<1>1. PICK d \in Nat : b = a + d
  <2>1. b - a \in Nat /\ b = a + (b - a)
    OBVIOUS
  <2> QED
    BY <2>1
<1>2. b * c = a * c + d * c
  BY <1>1
<1>3. d * c \in Nat /\ a * c \in Nat
  OBVIOUS
<1> QED
  BY <1>2, <1>3

\* A smaller type fits where a larger one does.
LEMMA FitsLess ==
  ASSUME NEW lines, IsLines(lines), NEW a \in Nat, NEW b \in Nat, a <= b, Fits(lines, b)
  PROVE  Fits(lines, a)
<1>1. ASSUME NEW i \in DOMAIN lines PROVE LineWidth(lines[i], a) <= PageWidth
  <2> DEFINE c == Letters(lines[i])
  <2>1. c \in Nat
    BY LettersAre DEF IsLines
  <2>2. b * c <= PageWidth
    BY DEF Fits, LineWidth
  <2> HIDE DEF c
  <2>3. a * c <= b * c /\ a * c \in Nat /\ b * c \in Nat
    BY <2>1, TimesMore
  <2>4. a * c <= PageWidth
    BY <2>2, <2>3, LayoutAssumption
  <2> QED
    BY <2>4 DEF LineWidth, c
<1>2. LineHeight(a) * Len(lines) + Gap * (Len(lines) - 1) <= PageHeight
  <2> DEFINE c == Len(lines)
             rest == Gap * (c - 1)
  <2>1. c \in Nat /\ c >= 1
    BY DEF IsLines
  <2>2. b * c + rest <= PageHeight
    BY DEF Fits, LineHeight
  <2> HIDE DEF c
  <2>3. rest \in Int
    BY <2>1, LayoutAssumption
  <2> HIDE DEF rest
  <2>4. a * c <= b * c /\ a * c \in Nat /\ b * c \in Nat
    BY <2>1, TimesMore
  <2>5. a * c + rest <= PageHeight
    BY <2>2, <2>3, <2>4, LayoutAssumption
  <2> QED
    BY <2>5 DEF LineHeight, c, rest
<1> QED
  BY <1>1, <1>2 DEF Fits

Ends == (MinSize..MaxSize) \X (MinSize..MaxSize)

Narrowed(lines, x) ==
  IF Fits(lines, (x[1] + x[2]) \div 2) THEN <<(x[1] + x[2]) \div 2, x[2]>>
                                       ELSE <<x[1], (x[1] + x[2]) \div 2>>

SearchBody(lines, f) ==
  [x \in Ends |-> IF x[2] - x[1] <= 1 THEN x[1] ELSE f[Narrowed(lines, x)]]

Search(lines) == CHOOSE f : f = SearchBody(lines, f)

LEMMA SearchMeans ==
  ASSUME NEW lines
  PROVE  BestSize(lines) = Search(lines)[<<MinSize, MaxSize>>]
BY DEF BestSize, Search, SearchBody, Ends, Narrowed

Span == [x \in Ends |-> IF x[1] < x[2] THEN x[2] - x[1] ELSE 0]

LEMMA NarrowedIs ==
  ASSUME NEW lines, NEW x \in Ends, ~(x[2] - x[1] <= 1)
  PROVE  /\ Narrowed(lines, x) \in Ends /\ Span[Narrowed(lines, x)] < Span[x]
         /\ Narrowed(lines, x)[1] < Narrowed(lines, x)[2]
         /\ \/ Narrowed(lines, x)[2] = x[2]
            \/ ~Fits(lines, Narrowed(lines, x)[2])
<1> DEFINE lo == x[1]
           hi == x[2]
           mid == (lo + hi) \div 2
           y == Narrowed(lines, x)
<1>1. lo \in MinSize..MaxSize /\ hi \in MinSize..MaxSize /\ lo \in Nat /\ hi \in Nat
  BY LayoutAssumption DEF Ends
<1>2. ~(hi - lo <= 1)
  OBVIOUS
<1> HIDE DEF lo, hi
<1>3. mid \in Nat /\ lo < mid /\ mid < hi /\ mid \in MinSize..MaxSize
  <2>1. lo + 2 <= hi
    BY <1>1, <1>2
  <2>2. mid \in Nat /\ lo < mid /\ mid < hi
    BY <1>1, <2>1
  <2> HIDE DEF mid
  <2> QED
    BY <1>1, <2>2, LayoutAssumption
<1>4. y = IF Fits(lines, mid) THEN <<mid, hi>> ELSE <<lo, mid>>
  BY DEF Narrowed, lo, hi
<1> HIDE DEF mid, y
<1>5. Span[x] = hi - lo
  BY <1>1, <1>3 DEF Span, lo, hi
<1>6. CASE Fits(lines, mid)
  <2>1. y = <<mid, hi>> /\ y[1] = mid /\ y[2] = hi
    BY <1>4, <1>6
  <2>2. y \in Ends
    BY <1>1, <1>3, <2>1 DEF Ends
  <2>3. Span[y] = hi - mid
    BY <1>3, <2>1, <2>2 DEF Span
  <2>4. hi - mid < hi - lo
    BY <1>1, <1>3
  <2> QED
    BY <1>3, <1>5, <2>1, <2>2, <2>3, <2>4 DEF y, hi
<1>7. CASE ~Fits(lines, mid)
  <2>1. y = <<lo, mid>> /\ y[1] = lo /\ y[2] = mid
    BY <1>4, <1>7
  <2>2. y \in Ends
    BY <1>1, <1>3, <2>1 DEF Ends
  <2>3. Span[y] = mid - lo
    BY <1>3, <2>1, <2>2 DEF Span
  <2>4. mid - lo < hi - lo
    BY <1>1, <1>3
  <2> QED
    BY <1>3, <1>5, <1>7, <2>1, <2>2, <2>3, <2>4 DEF y
<1> QED
  BY <1>6, <1>7

LEMMA SearchDefined ==
  ASSUME NEW lines
  PROVE  \A x \in Ends :
           Search(lines)[x] = IF x[2] - x[1] <= 1 THEN x[1] ELSE Search(lines)[Narrowed(lines, x)]
<1> DEFINE V == MinSize..MaxSize
           value(x, f) == IF x[2] - x[1] <= 1 THEN x[1] ELSE f[Narrowed(lines, x)]
           step == [x \in Ends |-> [f \in [Ends -> V] |-> value(x, f)]]
<1>1. Span \in [Ends -> 0..MaxSize]
  <2>1. ASSUME NEW x \in Ends PROVE (IF x[1] < x[2] THEN x[2] - x[1] ELSE 0) \in 0..MaxSize
    <3>1. x[1] \in MinSize..MaxSize /\ x[2] \in MinSize..MaxSize
      BY DEF Ends
    <3> QED
      BY <3>1, LayoutAssumption
  <2> QED
    BY <2>1 DEF Span
<1>2. MinSize \in V /\ MaxSize \in Nat
  BY LayoutAssumption
<1>3. ASSUME NEW x \in Ends, NEW f \in [Ends -> V] PROVE value(x, f) \in V
  <2>1. x[1] \in V
    BY DEF Ends
  <2>2. ~(x[2] - x[1] <= 1) => Narrowed(lines, x) \in Ends
    BY NarrowedIs
  <2> HIDE DEF V
  <2> QED
    BY <2>1, <2>2
<1>4. step \in [Ends -> [[Ends -> V] -> V]]
  <2> HIDE DEF value, V
  <2> QED
    BY <1>3
<1>5. ASSUME NEW x \in Ends, NEW f \in [Ends -> V], NEW g \in [Ends -> V],
             \A y \in Ends : Span[y] < Span[x] => f[y] = g[y]
      PROVE  step[x][f] = step[x][g]
  <2>1. value(x, f) = value(x, g)
    BY <1>5, NarrowedIs
  <2> HIDE DEF value, V
  <2> QED
    BY <2>1
<1>6. RankRecursive(Ends, V, step)
  <2>1. \A x \in Ends : \A f, g \in [Ends -> V] :
          (\A y \in Ends : Span[y] < Span[x] => f[y] = g[y]) => step[x][f] = step[x][g]
    BY <1>5
  <2> HIDE DEF V, step
  <2> QED
    BY <1>1, <1>2, <1>4, <2>1, RankRecursion
<1>7. PICK g \in [Ends -> V] : \A x \in Ends : g[x] = step[x][g]
  BY <1>6 DEF RankRecursive
<1>8. g = SearchBody(lines, g)
  <2>1. \A x \in Ends : g[x] = value(x, g)
    <3> HIDE DEF value, V
    <3> QED
      BY <1>7
  <2>2. SearchBody(lines, g) = [x \in Ends |-> value(x, g)]
    BY DEF SearchBody
  <2> HIDE DEF value
  <2> QED
    BY <2>1, <2>2
<1> DEFINE h == Search(lines)
<1>9. h = SearchBody(lines, h)
  BY <1>8 DEF Search
<1> HIDE DEF h
<1>10. SearchBody(lines, h) = [x \in Ends |-> value(x, h)]
  BY DEF SearchBody
<1>11. \A x \in Ends : h[x] = value(x, h)
  <2> HIDE DEF value
  <2> QED
    BY <1>9, <1>10
<1> QED
  BY <1>11 DEF h

\* The size that is found, and that no larger one the search could find fits.
SizeFound(lines, size) ==
  /\ size \in Nat /\ MinSize <= size /\ size < MaxSize
  /\ \A larger \in (size + 1)..(MaxSize - 1) : ~Fits(lines, larger)

LEMMA BestSizeIs ==
  ASSUME NEW lines, IsLines(lines)
  PROVE  SizeFound(lines, BestSize(lines))
<1> DEFINE h == Search(lines)
           Bracket(x) == x[1] < x[2] /\ (x[2] = MaxSize \/ ~Fits(lines, x[2]))
           S == {c \in Nat : \A x \in Ends : Span[x] = c /\ Bracket(x) => SizeFound(lines, h[x])}
<1>1. \A x \in Ends : h[x] = IF x[2] - x[1] <= 1 THEN x[1] ELSE h[Narrowed(lines, x)]
  BY SearchDefined
<1> HIDE DEF h
<1>2. ASSUME NEW x \in Ends PROVE /\ x[1] \in Nat /\ x[2] \in Nat /\ MinSize <= x[1] /\ x[2] <= MaxSize
                                  /\ Bracket(x) => Span[x] \in Nat
  BY LayoutAssumption DEF Ends, Span
<1>3. ASSUME NEW c \in Nat, \A b \in 0..(c - 1) : b \in S PROVE c \in S
  <2> SUFFICES ASSUME NEW x \in Ends, Span[x] = c, Bracket(x) PROVE SizeFound(lines, h[x])
    OBVIOUS
  <2>1. CASE x[2] - x[1] <= 1
    <3> DEFINE a == x[1]
               b == x[2]
    <3>1. a \in Nat /\ b \in Nat /\ MinSize <= a /\ b <= MaxSize
      BY <1>2
    <3>2. a < b /\ b - a <= 1 /\ h[x] = a /\ (b = MaxSize \/ ~Fits(lines, b))
      BY <1>1, <2>1
    <3> HIDE DEF a, b
    <3>3. b = a + 1 /\ MaxSize \in Nat /\ a < MaxSize
      BY <3>1, <3>2, LayoutAssumption
    <3>4. ASSUME NEW larger \in (a + 1)..(MaxSize - 1) PROVE ~Fits(lines, larger)
      <4>1. larger \in Nat /\ b <= larger /\ b # MaxSize
        BY <3>1, <3>3
      <4>2. ~Fits(lines, b)
        BY <3>2, <4>1
      <4> QED
        BY <3>1, <4>1, <4>2, FitsLess
    <3> QED
      BY <3>1, <3>2, <3>3, <3>4 DEF SizeFound
  <2>2. CASE ~(x[2] - x[1] <= 1)
    <3> DEFINE y == Narrowed(lines, x)
    <3>1. y \in Ends /\ Span[y] < c /\ Bracket(y)
      BY <2>2, NarrowedIs
    <3>2. h[x] = h[y]
      BY <1>1, <2>2
    <3> HIDE DEF y, Bracket
    <3>3. Span[y] \in 0..(c - 1)
      BY <1>2, <3>1
    <3>4. Span[y] \in S
      BY <1>3, <3>3
    <3>5. SizeFound(lines, h[y])
      BY <3>1, <3>4
    <3> QED
      BY <3>2, <3>5
  <2> QED
    BY <2>1, <2>2
<1> DEFINE x == <<MinSize, MaxSize>>
<1>4. x \in Ends /\ Bracket(x)
  BY LayoutAssumption DEF Ends
<1> HIDE DEF x, Bracket
<1>5. SizeFound(lines, h[x])
  <2>1. S \in SUBSET Nat
    OBVIOUS
  <2>2. \A c \in Nat : (\A b \in 0..(c - 1) : b \in S) => c \in S
    BY <1>3
  <2> HIDE DEF S
  <2>3. S = Nat
    BY <2>1, <2>2, StrongInduction
  <2>4. Span[x] \in S
    BY <1>2, <1>4, <2>3
  <2> QED
    BY <1>4, <2>4 DEF S
<1> QED
  BY <1>5, SearchMeans DEF h, x

\* Of finitely many numbers one is the greatest.
Greatest(n, w) == \E i \in 1..n : \A j \in 1..n : w[j] <= w[i]

LEMMA GreatestIs ==
  ASSUME NEW n \in Nat, n >= 1, NEW w \in [1..n -> Nat]
  PROVE  Greatest(n, w)
<1> DEFINE S == {m \in Nat : m < n => \E i \in 1..(m + 1) : \A j \in 1..(m + 1) : w[j] <= w[i]}
<1>1. 0 \in S
  OBVIOUS
<1>2. ASSUME NEW m \in Nat, m \in S PROVE m + 1 \in S
  <2> SUFFICES ASSUME m + 1 < n
               PROVE  \E i \in 1..(m + 2) : \A j \in 1..(m + 2) : w[j] <= w[i]
    OBVIOUS
  <2>1. PICK i \in 1..(m + 1) : \A j \in 1..(m + 1) : w[j] <= w[i]
    BY <1>2
  <2> DEFINE e == m + 2
  <2>2. e \in 1..n /\ \A j \in 1..e : j \in 1..n /\ (j = e \/ j \in 1..(m + 1))
    OBVIOUS
  <2>3. i \in 1..n /\ w[i] \in Nat /\ w[e] \in Nat /\ i \in 1..e /\ e \in 1..e
    BY <2>2
  <2> HIDE DEF e
  <2>4. CASE w[e] <= w[i]
    <3>1. \A j \in 1..e : w[j] <= w[i]
      BY <2>1, <2>2, <2>4
    <3> QED
      BY <2>3, <3>1 DEF e
  <2>5. CASE ~(w[e] <= w[i])
    <3>1. ASSUME NEW j \in 1..e PROVE w[j] <= w[e]
      <4>1. CASE j = e
        BY <2>3, <4>1
      <4>2. CASE j \in 1..(m + 1)
        <5>1. w[j] <= w[i] /\ w[j] \in Nat
          BY <2>1, <2>2, <4>2
        <5> QED
          BY <2>3, <2>5, <5>1
      <4> QED
        BY <2>2, <4>1, <4>2
    <3> QED
      BY <2>3, <3>1 DEF e
  <2> QED
    BY <2>4, <2>5
<1>3. n - 1 \in S
  <2>1. S \in SUBSET Nat
    OBVIOUS
  <2> HIDE DEF S
  <2>2. S = Nat
    BY <1>1, <1>2, <2>1, Induction
  <2> QED
    BY <2>2
<1>4. n - 1 < n /\ n - 1 + 1 = n
  OBVIOUS
<1>5. \E i \in 1..(n - 1 + 1) : \A j \in 1..(n - 1 + 1) : w[j] <= w[i]
  BY <1>3, <1>4
<1> QED
  BY <1>4, <1>5 DEF Greatest

\* The widths of lines, and so the narrowest and the widest, are positive.
LEMMA WidthsAre ==
  ASSUME NEW lines, IsLines(lines), NEW size \in Nat, size >= 1
  PROVE  /\ Min(Widths(lines, size)) \in Nat /\ Min(Widths(lines, size)) >= 1
         /\ Max(Widths(lines, size)) \in Nat /\ Max(Widths(lines, size)) >= 1
<1> DEFINE n == Len(lines)
           w == [i \in 1..n |-> LineWidth(lines[i], size)]
           W == Widths(lines, size)
<1>1. n \in Nat /\ n >= 1 /\ DOMAIN lines = 1..n
  BY DEF IsLines
<1>2. ASSUME NEW i \in 1..n PROVE LineWidth(lines[i], size) \in Nat /\ LineWidth(lines[i], size) >= 1
  <2> DEFINE c == Letters(lines[i])
  <2>1. c \in Nat /\ c >= 1
    BY <1>1, LettersAre DEF IsLines
  <2> HIDE DEF c
  <2>2. size * c \in Nat
    BY <2>1
  <2>3. 1 * c <= size * c
    BY <2>1, TimesMore
  <2> QED
    BY <2>1, <2>2, <2>3 DEF LineWidth, c
<1> HIDE DEF n
<1>3. w \in [1..n -> Nat] /\ \A i \in 1..n : w[i] >= 1
  BY <1>2
<1>4. W = {w[i] : i \in 1..n}
  BY <1>1 DEF Widths
<1> HIDE DEF w, W
<1>5. W \in SUBSET Nat /\ W # {} /\ \A v \in W : v >= 1
  <2>1. 1 \in 1..n
    BY <1>1
  <2> QED
    BY <1>3, <1>4, <2>1
<1>6. \E v \in W : \A u \in W : v <= u
  BY <1>5, Least
<1>7. \E v \in W : \A u \in W : v >= u
  <2>1. PICK i \in 1..n : \A j \in 1..n : w[j] <= w[i]
    BY <1>1, <1>3, GreatestIs DEF Greatest
  <2>2. w[i] \in W /\ \A u \in W : w[i] >= u
    BY <1>3, <1>4, <2>1
  <2> QED
    BY <2>2
<1>8. Min(W) \in W
  BY <1>6 DEF Min
<1>9. Max(W) \in W
  BY <1>7 DEF Max
<1> QED
  BY <1>5, <1>8, <1>9 DEF W

\* The evenness of lines is an order: if a is not more even than b, and c is more
\* even than b, then a is not more even than c.
LEMMA EvenChain ==
  ASSUME NEW a \in Nat, NEW aa \in Nat, NEW b \in Nat, NEW bb \in Nat, NEW c \in Nat, NEW cc \in Nat,
         aa >= 1, bb >= 1, cc >= 1, ~(a * bb > b * aa), c * bb > b * cc
  PROVE  ~(a * cc > c * aa)
<1>1. /\ a * bb \in Nat /\ b * aa \in Nat /\ c * bb \in Nat /\ b * cc \in Nat
      /\ a * cc \in Nat /\ c * aa \in Nat
  OBVIOUS
<1>2. (a * bb) * cc <= (b * aa) * cc
  <2> DEFINE x == a * bb
             y == b * aa
  <2>1. x \in Nat /\ y \in Nat /\ x <= y
    BY <1>1
  <2> HIDE DEF x, y
  <2>2. x * cc <= y * cc
    BY <2>1, TimesMore
  <2> QED
    BY <2>2 DEF x, y
<1>3. (b * cc) * aa <= (c * bb) * aa
  <2> DEFINE x == b * cc
             y == c * bb
  <2>1. x \in Nat /\ y \in Nat /\ x <= y
    BY <1>1
  <2> HIDE DEF x, y
  <2>2. x * aa <= y * aa
    BY <2>1, TimesMore
  <2> QED
    BY <2>2 DEF x, y
<1>4. (a * bb) * cc = (a * cc) * bb /\ (b * aa) * cc = (b * cc) * aa /\ (c * bb) * aa = (c * aa) * bb
  OBVIOUS
<1>5. (a * cc) * bb <= (c * aa) * bb
  <2> DEFINE p == (a * bb) * cc
             q == (b * aa) * cc
             r == (c * bb) * aa
  <2>1. p \in Int /\ q \in Int /\ r \in Int /\ p <= q /\ q <= r
    BY <1>1, <1>2, <1>3, <1>4
  <2>2. p = (a * cc) * bb /\ r = (c * aa) * bb
    BY <1>4
  <2> HIDE DEF p, q, r
  <2> QED
    BY <2>1, <2>2
<1> DEFINE x == a * cc
           y == c * aa
<1>6. x \in Nat /\ y \in Nat /\ x * bb <= y * bb
  BY <1>1, <1>5
<1> HIDE DEF x, y
<1>7. SUFFICES ASSUME x > y PROVE FALSE
  BY DEF x, y
<1>8. y + 1 \in Nat /\ y + 1 <= x
  BY <1>6, <1>7
<1> DEFINE z == y + 1
<1>9. z * bb <= x * bb
  <2> HIDE DEF z
  <2>1. z \in Nat /\ z <= x
    BY <1>8 DEF z
  <2> QED
    BY <1>6, <2>1, TimesMore
<1>10. z * bb = y * bb + bb
  BY <1>6
<1>11. y * bb \in Nat /\ x * bb \in Nat
  BY <1>6
<1> HIDE DEF z
<1> QED
  BY <1>6, <1>9, <1>10, <1>11

LEMMA BalanceIsAnOrder ==
  ASSUME NEW a, IsLines(a), NEW b, IsLines(b), NEW c, IsLines(c), NEW size \in Nat, size >= 1,
         ~MoreBalanced(a, b, size), MoreBalanced(c, b, size)
  PROVE  ~MoreBalanced(a, c, size)
<1> DEFINE x == Widths(a, size)
           y == Widths(b, size)
           z == Widths(c, size)
<1>1. /\ Min(x) \in Nat /\ Max(x) \in Nat /\ Max(x) >= 1
      /\ Min(y) \in Nat /\ Max(y) \in Nat /\ Max(y) >= 1
      /\ Min(z) \in Nat /\ Max(z) \in Nat /\ Max(z) >= 1
  BY WidthsAre
<1>2. ~(Min(x) * Max(y) > Min(y) * Max(x)) /\ Min(z) * Max(y) > Min(y) * Max(z)
  BY DEF MoreBalanced
<1> HIDE DEF x, y, z
<1>3. ~(Min(x) * Max(z) > Min(z) * Max(x))
  BY <1>1, <1>2, EvenChain
<1> QED
  BY <1>3 DEF MoreBalanced, x, z

LEMMA NotMoreThanItself ==
  ASSUME NEW a, IsLines(a), NEW size \in Nat, size >= 1
  PROVE  ~MoreBalanced(a, a, size)
<1> DEFINE m == Min(Widths(a, size)) * Max(Widths(a, size))
<1>1. m \in Nat
  BY WidthsAre
<1>2. MoreBalanced(a, a, size) <=> m > m
  BY DEF MoreBalanced
<1> HIDE DEF m
<1> QED
  BY <1>1, <1>2

BestBody(tried, f) ==
  [i \in 0..Len(tried) |-> IF i = 0 THEN Refused ELSE Better(f[i - 1], tried[i])]

Bests(tried) == CHOOSE f : f = BestBody(tried, f)

LEMMA PlanMeans ==
  ASSUME NEW text, NEW count
  PROVE  PlanLines(text, count) =
           IF \/ text = << >> \/ Letters(text) > MaxLetters
              \/ Len(text) > MaxWords \/ count > Len(text)
             THEN Refused ELSE Bests(Tried(text, count))[Len(Tried(text, count))]
BY DEF PlanLines, Bests, BestBody

LEMMA BestSteps ==
  ASSUME NEW S, NEW tried \in Seq(S)
  PROVE  /\ Bests(tried)[0] = Refused
         /\ \A i \in 1..Len(tried) : Bests(tried)[i] = Better(Bests(tried)[i - 1], tried[i])
<1> DEFINE n == Len(tried)
           T == {Refused} \cup {[lines |-> tried[j], size |-> BestSize(tried[j])] : j \in 1..n}
           step == [i \in 1..n |-> [s \in T |-> Better(s, tried[i])]]
<1>1. n \in Nat
  OBVIOUS
<1>2. ASSUME NEW i \in 1..n, NEW s \in T PROVE Better(s, tried[i]) \in T
  <2> DEFINE new == [lines |-> tried[i], size |-> BestSize(tried[i])]
  <2>1. Better(s, tried[i]) = new \/ Better(s, tried[i]) = s
    BY DEF Better
  <2>2. new \in T
    OBVIOUS
  <2> HIDE DEF new, T
  <2> QED
    BY <2>1, <2>2
<1>3. Refused \in T
  OBVIOUS
<1> HIDE DEF n, T
<1>4. step \in [1..n -> [T -> T]]
  BY <1>2
<1>5. \A i \in 1..n : \A s \in T : step[i][s] = Better(s, tried[i])
  OBVIOUS
<1> HIDE DEF step
<1>6. Recursive(n, T, Refused, step)
  BY <1>1, <1>3, <1>4, Recursion
<1>7. PICK g \in [0..n -> T] : g[0] = Refused /\ \A i \in 1..n : g[i] = step[i][g[i - 1]]
  BY <1>6 DEF Recursive
<1>8. \A i \in 1..n : i - 1 \in 0..n /\ i \in 0..n
  BY <1>1
<1>9. \A i \in 1..n : g[i] = Better(g[i - 1], tried[i])
  BY <1>5, <1>7, <1>8
<1>10. \A i \in 0..n : i = 0 \/ i \in 1..n
  BY <1>1
<1> DEFINE value(f, i) == IF i = 0 THEN Refused ELSE Better(f[i - 1], tried[i])
<1>11. \A f : BestBody(tried, f) = [i \in 0..n |-> value(f, i)]
  BY DEF BestBody, n
<1>12. \A i \in 0..n : g[i] = value(g, i)
  BY <1>7, <1>9, <1>10
<1> HIDE DEF value
<1>13. g = BestBody(tried, g)
  BY <1>11, <1>12
<1> DEFINE h == Bests(tried)
<1>14. h = BestBody(tried, h)
  BY <1>13 DEF Bests
<1> HIDE DEF h
<1>15. \A i \in 0..n : h[i] = value(h, i)
  BY <1>11, <1>14
<1>16. 0 \in 0..n /\ \A i \in 1..n : i # 0
  BY <1>1
<1> QED
  BY <1>8, <1>15, <1>16 DEF h, n, value

\* v is one of the first i layouts, and none of them is better.
Chosen(tried, i, v) ==
  /\ \E j \in 1..i : v.lines = tried[j] /\ v.size = BestSize(tried[j])
  /\ \A j \in 1..i : /\ BestSize(tried[j]) <= v.size
                     /\ BestSize(tried[j]) = v.size => ~MoreBalanced(tried[j], v.lines, v.size)

LEMMA ChosenNext ==
  ASSUME NEW S, NEW tried \in Seq(S), \A j \in 1..Len(tried) : IsLines(tried[j]),
         NEW i \in Nat, i + 1 <= Len(tried), NEW v, (IF i = 0 THEN v = Refused ELSE Chosen(tried, i, v))
  PROVE  Chosen(tried, i + 1, Better(v, tried[i + 1]))
<1> DEFINE e == i + 1
           lines == tried[e]
           size == BestSize(lines)
           w == Better(v, lines)
<1>1. /\ e \in 1..Len(tried) /\ IsLines(lines) /\ e \in 1..e
      /\ \A j \in 1..e : j \in 1..Len(tried) /\ (j = e \/ j \in 1..i)
      /\ \A j \in 1..i : j \in 1..e
  OBVIOUS
<1>2. \A j \in 1..e : IsLines(tried[j]) /\ BestSize(tried[j]) \in Nat /\ BestSize(tried[j]) >= 1
  BY <1>1, BestSizeIs, LayoutAssumption DEF SizeFound
<1>3. size \in Nat /\ size >= 1
  BY <1>1, <1>2
<1>4. v.size \in Nat
  <2>1. CASE i = 0
    BY <2>1 DEF Refused
  <2>2. CASE i # 0
    BY <1>1, <1>2, <2>2 DEF Chosen
  <2> QED
    BY <2>1, <2>2
<1> DEFINE better == size > v.size \/ (size = v.size /\ MoreBalanced(lines, v.lines, size))
<1>5. w = IF better THEN [lines |-> lines, size |-> size] ELSE v
  BY DEF Better
<1>6. lines = tried[e] /\ size = BestSize(lines)
  OBVIOUS
<1> HIDE DEF e, lines, size, w
<1>7. CASE size > v.size
  <2>1. w = [lines |-> lines, size |-> size]
    BY <1>5, <1>7
  <2>2. w.lines = lines /\ w.size = size
    BY <2>1
  <2>3. ~MoreBalanced(lines, lines, size)
    BY <1>1, <1>3, NotMoreThanItself
  <2>4. ASSUME NEW j \in 1..i PROVE BestSize(tried[j]) < size
    <3>1. i # 0 /\ j \in 1..e
      BY <1>1
    <3>2. BestSize(tried[j]) <= v.size
      BY <3>1 DEF Chosen
    <3> QED
      BY <1>2, <1>3, <1>4, <1>7, <3>1, <3>2
  <2>5. ASSUME NEW j \in 1..e
        PROVE  /\ BestSize(tried[j]) <= w.size
               /\ BestSize(tried[j]) = w.size => ~MoreBalanced(tried[j], w.lines, w.size)
    <3>1. CASE j = e
      BY <1>3, <1>6, <2>2, <2>3, <3>1
    <3>2. CASE j \in 1..i
      BY <1>2, <1>3, <2>2, <2>4, <3>2
    <3> QED
      BY <1>1, <3>1, <3>2
  <2>6. Chosen(tried, e, w)
    BY <1>1, <1>6, <2>2, <2>5 DEF Chosen
  <2> QED
    BY <2>6 DEF e, w, lines
<1>8. CASE ~(size > v.size)
  <2>1. i # 0
    <3>1. i = 0 => v.size = 0
      BY DEF Refused
    <3> QED
      BY <1>3, <1>8, <3>1
  <2>2. PICK k \in 1..i : v.lines = tried[k] /\ v.size = BestSize(tried[k])
    BY <2>1 DEF Chosen
  <2>3. \A j \in 1..i : /\ BestSize(tried[j]) <= v.size
                        /\ BestSize(tried[j]) = v.size => ~MoreBalanced(tried[j], v.lines, v.size)
    BY <2>1 DEF Chosen
  <2>4. k \in 1..e /\ IsLines(v.lines) /\ v.size >= 1
    BY <1>1, <1>2, <2>2
  <2>5. CASE better
    <3>1. w = [lines |-> lines, size |-> size]
      BY <1>5, <2>5
    <3>2. w.lines = lines /\ w.size = size
      BY <3>1
    <3>3. size = v.size /\ MoreBalanced(lines, v.lines, size)
      BY <1>8, <2>5
    <3>4. ~MoreBalanced(lines, lines, size)
      BY <1>1, <1>3, NotMoreThanItself
    <3>5. ASSUME NEW j \in 1..e
          PROVE  /\ BestSize(tried[j]) <= w.size
                 /\ BestSize(tried[j]) = w.size => ~MoreBalanced(tried[j], w.lines, w.size)
      <4>1. CASE j = e
        BY <1>3, <1>6, <3>2, <3>4, <4>1
      <4>2. CASE j \in 1..i
        <5> DEFINE other == tried[j]
        <5>1. IsLines(other)
          BY <1>1, <1>2, <4>2
        <5>2. BestSize(other) <= size
          BY <2>3, <3>3, <4>2
        <5>3. BestSize(other) = size => ~MoreBalanced(other, v.lines, size)
          BY <2>3, <3>3, <4>2
        <5> HIDE DEF other
        <5>4. BestSize(other) = size => ~MoreBalanced(other, lines, size)
          BY <1>1, <1>3, <2>4, <3>3, <5>1, <5>3, BalanceIsAnOrder
        <5> QED
          BY <3>2, <5>2, <5>4 DEF other
      <4> QED
        BY <1>1, <4>1, <4>2
    <3>6. Chosen(tried, e, w)
      BY <1>1, <1>6, <3>2, <3>5 DEF Chosen
    <3> QED
      BY <3>6 DEF e, w, lines
  <2>6. CASE ~better
    <3>1. w = v
      BY <1>5, <2>6
    <3>2. size <= v.size /\ (size = v.size => ~MoreBalanced(lines, v.lines, v.size))
      BY <1>3, <1>4, <1>8, <2>6
    <3>3. ASSUME NEW j \in 1..e
          PROVE  /\ BestSize(tried[j]) <= v.size
                 /\ BestSize(tried[j]) = v.size => ~MoreBalanced(tried[j], v.lines, v.size)
      BY <1>1, <1>6, <2>3, <3>2
    <3>4. Chosen(tried, e, v)
      BY <2>2, <2>4, <3>3 DEF Chosen
    <3> QED
      BY <3>1, <3>4 DEF e, w, lines
  <2> QED
    BY <2>5, <2>6
<1> QED
  BY <1>7, <1>8

LEMMA BestIs ==
  ASSUME NEW S, NEW tried \in Seq(S), \A j \in 1..Len(tried) : IsLines(tried[j]), Len(tried) >= 1
  PROVE  Chosen(tried, Len(tried), Bests(tried)[Len(tried)])
<1> DEFINE h == Bests(tried)
           n == Len(tried)
           I == {i \in Nat : i + 1 <= n => Chosen(tried, i + 1, h[i + 1])}
<1>1. n \in Nat /\ h[0] = Refused /\ \A i \in 1..n : h[i] = Better(h[i - 1], tried[i])
  BY BestSteps
<1> HIDE DEF h
<1>2. 0 \in I
  <2>1. 1 \in 1..n /\ 1 - 1 = 0 /\ 0 + 1 = 1
    BY <1>1
  <2>2. h[1] = Better(Refused, tried[1])
    BY <1>1, <2>1
  <2>3. Chosen(tried, 0 + 1, Better(Refused, tried[0 + 1]))
    BY ChosenNext, <2>1
  <2> QED
    BY <2>1, <2>2, <2>3
<1>3. ASSUME NEW i \in Nat, i \in I PROVE i + 1 \in I
  <2> SUFFICES ASSUME i + 1 + 1 <= n PROVE Chosen(tried, i + 1 + 1, h[i + 1 + 1])
    OBVIOUS
  <2> DEFINE e == i + 1
  <2>1. e \in Nat /\ e # 0 /\ e + 1 <= n /\ Chosen(tried, e, h[e])
    BY <1>1, <1>3
  <2> HIDE DEF e
  <2>2. e + 1 \in 1..n /\ (e + 1) - 1 = e
    BY <1>1, <2>1
  <2>3. h[e + 1] = Better(h[e], tried[e + 1])
    <3> DEFINE d == e + 1
    <3>1. d \in 1..n /\ d - 1 = e
      BY <2>2
    <3> HIDE DEF d
    <3>2. h[d] = Better(h[d - 1], tried[d])
      BY <1>1, <3>1
    <3> QED
      BY <3>1, <3>2 DEF d
  <2>4. Chosen(tried, e + 1, Better(h[e], tried[e + 1]))
    BY <2>1, ChosenNext
  <2> QED
    BY <2>3, <2>4 DEF e
<1>4. n - 1 \in I
  <2>1. I \in SUBSET Nat
    OBVIOUS
  <2> HIDE DEF I
  <2>2. I = Nat
    BY <1>2, <1>3, <2>1, Induction
  <2> QED
    BY <1>1, <2>2
<1>5. n - 1 + 1 = n
  BY <1>1
<1> QED
  BY <1>4, <1>5 DEF h

\* What is in a flattened sequence is in one of its parts.
FlatSet(seqs) ==
  ToSet(FlattenSeq(seqs)) = UNION {ToSet(seqs[i]) : i \in 1..Len(seqs)}

LEMMA FlatSetIs ==
  ASSUME NEW S, NEW seqs \in Seq(Seq(S))
  PROVE  FlattenSeq(seqs) \in Seq(S) /\ FlatSet(seqs)
<1> DEFINE n == Len(seqs)
           h == Flat(seqs)
           Upto(m) == UNION {ToSet(seqs[i]) : i \in 1..m}
           I == {m \in Nat : m + 1 <= n => ToSet(h[m + 1]) = Upto(m + 1)}
<1>1. n \in Nat /\ \A i \in 1..n : seqs[i] \in Seq(S)
  OBVIOUS
<1>2. CASE n = 0
  <2>1. FlattenSeq(seqs) = << >> /\ seqs = << >>
    BY <1>2 DEF FlattenSeq
  <2>2. ToSet(<< >>) = {} /\ Upto(0) = {}
    BY DEF ToSet
  <2> QED
    BY <1>2, <2>1, <2>2 DEF FlatSet
<1>3. CASE n # 0
  <2>1. /\ h[1] = seqs[1]
        /\ \A i \in 2..n : h[i] = h[i - 1] \o seqs[i]
        /\ \A i \in 1..n : h[i] \in Seq(S)
    BY <1>3, FlatSteps
  <2>2. FlattenSeq(seqs) = h[n]
    BY <1>3, FlattenMeans
  <2> HIDE DEF h, n
  <2>3. 0 \in I
    <3>1. Upto(1) = ToSet(seqs[1])
      OBVIOUS
    <3>2. 0 + 1 = 1
      OBVIOUS
    <3> QED
      BY <2>1, <3>1, <3>2
  <2>4. ASSUME NEW m \in Nat, m \in I PROVE m + 1 \in I
    <3> SUFFICES ASSUME m + 1 + 1 <= n PROVE ToSet(h[m + 1 + 1]) = Upto(m + 1 + 1)
      OBVIOUS
    <3> DEFINE d == m + 1
               e == d + 1
    <3>1. d \in 1..n /\ e \in 2..n /\ e \in 1..n /\ e - 1 = d /\ 1..e = (1..d) \cup {e}
      BY <1>1
    <3>2. ToSet(h[d]) = Upto(d)
      BY <1>1, <2>4
    <3> HIDE DEF d, e
    <3>3. h[e] = h[d] \o seqs[e]
      <4>1. h[e] = h[e - 1] \o seqs[e]
        BY <2>1, <3>1
      <4> QED
        BY <3>1, <4>1
    <3>4. ToSet(h[e]) = ToSet(h[d]) \cup ToSet(seqs[e])
      <4>1. h[d] \in Seq(S) /\ seqs[e] \in Seq(S)
        BY <1>1, <2>1, <3>1
      <4>2. ToSet(h[d] \o seqs[e]) = ToSet(h[d]) \cup ToSet(seqs[e])
        BY <4>1, JoinedSet
      <4> QED
        BY <3>3, <4>2
    <3>5. Upto(e) = Upto(d) \cup ToSet(seqs[e])
      BY <3>1
    <3> QED
      BY <3>2, <3>4, <3>5 DEF d, e
  <2>5. n - 1 \in I
    <3>1. I \in SUBSET Nat
      OBVIOUS
    <3> HIDE DEF I
    <3>2. I = Nat
      BY <2>3, <2>4, <3>1, Induction
    <3> QED
      BY <1>1, <1>3, <3>2
  <2>6. n - 1 + 1 = n /\ n \in 1..n
    BY <1>1, <1>3
  <2>7. ToSet(h[n]) = Upto(n)
    BY <1>1, <2>5, <2>6
  <2> QED
    BY <2>1, <2>2, <2>6, <2>7 DEF FlatSet, n
<1> QED
  BY <1>2, <1>3

----------------------------------------------------------------------------
(* The ways to cut a text *)

Word == Nat \ {0}

OneLine(text) == [from \in 1..Len(text) |-> << <<SubSeq(text, from, Len(text))>> >>]

\* The first line up to each word that leaves one for each other line.
FirstLines(text, k, prev, from) ==
  [cut \in 1..(Len(text) - from + 2 - k) |->
     [i \in DOMAIN prev[from + cut] |->
        <<SubSeq(text, from, from + cut - 1)>> \o prev[from + cut][i]]]

MoreLines(text, k, prev) == [from \in 1..Len(text) |-> FlattenSeq(FirstLines(text, k, prev, from))]

PartsBody(text, f) ==
  [k \in 1..3 |-> [from \in 1..Len(text) |->
     IF k = 1 THEN << <<SubSeq(text, from, Len(text))>> >>
     ELSE FlattenSeq(FirstLines(text, k, f[k - 1], from))]]

PartsOf(text) == CHOOSE f : f = PartsBody(text, f)

LEMMA PartitionsMean ==
  ASSUME NEW text, NEW count
  PROVE  LinePartitions(text, count) = PartsOf(text)[count][1]
BY DEF LinePartitions, PartsOf, PartsBody, FirstLines

LEMMA PartsSteps ==
  ASSUME NEW text
  PROVE  /\ PartsOf(text)[1] = OneLine(text)
         /\ \A k \in 2..3 : PartsOf(text)[k] = MoreLines(text, k, PartsOf(text)[k - 1])
<1> DEFINE value(f, k) == IF k = 1 THEN OneLine(text) ELSE MoreLines(text, k, f[k - 1])
           one == OneLine(text)
           two == MoreLines(text, 2, one)
           three == MoreLines(text, 3, two)
           g == [k \in 1..3 |-> IF k = 1 THEN one ELSE IF k = 2 THEN two ELSE three]
<1>1. ASSUME NEW f PROVE PartsBody(text, f) = [k \in 1..3 |-> value(f, k)]
  <2>1. ASSUME NEW k \in 1..3
        PROVE  [from \in 1..Len(text) |->
                  IF k = 1 THEN << <<SubSeq(text, from, Len(text))>> >>
                  ELSE FlattenSeq(FirstLines(text, k, f[k - 1], from))] = value(f, k)
    <3>1. CASE k = 1
      BY <3>1 DEF OneLine
    <3>2. CASE k # 1
      BY <3>2 DEF MoreLines
    <3> QED
      BY <3>1, <3>2
  <2> HIDE DEF value
  <2> QED
    BY <2>1 DEF PartsBody
<1> HIDE DEF one, two, three
<1>2. g[1] = one /\ g[2] = two /\ g[3] = three
  OBVIOUS
<1>3. value(g, 1) = one /\ value(g, 2) = two /\ value(g, 3) = three
  BY <1>2 DEF one, two, three
<1>4. \A k \in 1..3 : g[k] = value(g, k)
  <2>1. \A k \in 1..3 : k = 1 \/ k = 2 \/ k = 3
    OBVIOUS
  <2> HIDE DEF g, value
  <2> QED
    BY <1>2, <1>3, <2>1
<1>5. g = PartsBody(text, g)
  <2>1. g = [k \in 1..3 |-> g[k]]
    OBVIOUS
  <2>2. PartsBody(text, g) = [k \in 1..3 |-> value(g, k)]
    BY <1>1
  <2> HIDE DEF g, value
  <2> QED
    BY <1>4, <2>1, <2>2
<1> DEFINE h == PartsOf(text)
<1>6. h = PartsBody(text, h)
  BY <1>5 DEF PartsOf
<1> HIDE DEF h
<1>7. PartsBody(text, h) = [k \in 1..3 |-> value(h, k)]
  BY <1>1
<1>8. \A k \in 1..3 : h[k] = value(h, k)
  <2> HIDE DEF value
  <2> QED
    BY <1>6, <1>7
<1> QED
  BY <1>8 DEF h

\* The ways to cut what follows word lo into k lines.
CutsFrom(text, lo, k) ==
  {cut \in [0..k -> 0..Len(text)] :
     cut[0] = lo /\ cut[k] = Len(text) /\ \A i \in 1..k : cut[i - 1] < cut[i]}

LinesFrom(text, lo, k) == {CutLines(text, k, cut) : cut \in CutsFrom(text, lo, k)}

\* p[from] has the ways to cut the words from from on into k lines.
Splits(text, k, p) ==
  \A from \in 1..Len(text) : /\ p[from] \in Seq(Seq(Seq(Word)))
                             /\ ToSet(p[from]) = LinesFrom(text, from - 1, k)

\* The words between two cuts are a line.
LEMMA LineBetween ==
  ASSUME NEW text \in Seq(Word), NEW a \in 1..(Len(text) + 1), NEW b \in 0..Len(text)
  PROVE  /\ SubSeq(text, a, b) \in Seq(Word)
         /\ a <= b => IsText(SubSeq(text, a, b))
<1> DEFINE s == SubSeq(text, a, b)
<1>1. s \in Seq(Word)
  OBVIOUS
<1>2. a <= b => Len(s) = b - a + 1
  OBVIOUS
<1>3. a <= b => b - a + 1 >= 1
  OBVIOUS
<1> HIDE DEF s
<1>4. a <= b => s # << >>
  BY <1>2, <1>3
<1> QED
  BY <1>1, <1>4 DEF IsText, Word, s

LEMMA CutLinesAre ==
  ASSUME NEW text \in Seq(Word), NEW lo, NEW k \in 1..3, NEW cut \in CutsFrom(text, lo, k)
  PROVE  CutLines(text, k, cut) \in Seq(Seq(Word)) /\ IsLines(CutLines(text, k, cut))
<1> DEFINE n == Len(text)
           s == CutLines(text, k, cut)
<1>1. n \in Nat /\ k \in Nat /\ k >= 1 /\ cut \in [0..k -> 0..n] /\ \A i \in 1..k : cut[i - 1] < cut[i]
  BY DEF CutsFrom
<1>2. ASSUME NEW i \in 1..k
      PROVE  /\ SubSeq(text, cut[i - 1] + 1, cut[i]) \in Seq(Word)
             /\ IsText(SubSeq(text, cut[i - 1] + 1, cut[i]))
  <2> DEFINE a == cut[i - 1]
             b == cut[i]
  <2>1. i - 1 \in 0..k /\ i \in 0..k
    BY <1>1
  <2>2. a \in 0..n /\ b \in 0..n /\ a < b
    BY <1>1, <2>1
  <2> HIDE DEF a, b
  <2>3. a + 1 \in 1..(n + 1) /\ a + 1 <= b
    BY <1>1, <2>2
  <2> HIDE DEF n
  <2>4. SubSeq(text, a + 1, b) \in Seq(Word) /\ IsText(SubSeq(text, a + 1, b))
    BY <2>2, <2>3, LineBetween DEF n
  <2> QED
    BY <2>4 DEF a, b
<1>3. s = [i \in 1..k |-> SubSeq(text, cut[i - 1] + 1, cut[i])]
  BY DEF CutLines
<1> HIDE DEF s
<1>4. DOMAIN s = 1..k /\ \A i \in 1..k : s[i] \in Seq(Word) /\ IsText(s[i])
  BY <1>2, <1>3
<1>5. s \in Seq(Seq(Word)) /\ Len(s) = k
  <2>1. s = [i \in 1..k |-> s[i]]
    BY <1>3, <1>4
  <2>2. s \in [1..k -> Seq(Word)]
    BY <1>4, <2>1
  <2> QED
    BY <1>1, <2>2
<1>6. s # << >>
  BY <1>1, <1>5
<1> QED
  BY <1>4, <1>5, <1>6 DEF IsLines, Word, s

LEMMA OneSplit ==
  ASSUME NEW text \in Seq(Word)
  PROVE  Splits(text, 1, OneLine(text))
<1> SUFFICES ASSUME NEW from \in 1..Len(text)
             PROVE  /\ OneLine(text)[from] \in Seq(Seq(Seq(Word)))
                    /\ ToSet(OneLine(text)[from]) = LinesFrom(text, from - 1, 1)
  BY DEF Splits
<1> DEFINE n == Len(text)
           line == SubSeq(text, from, n)
           s == <<line>>
<1>1. n \in Nat /\ from \in 1..n
  OBVIOUS
<1>2. line \in Seq(Word)
  <2>1. from \in 1..(n + 1) /\ n \in 0..n
    BY <1>1
  <2> QED
    BY <2>1, LineBetween
<1>3. OneLine(text)[from] = <<s>>
  BY DEF OneLine
<1> HIDE DEF line
<1>4. s \in Seq(Seq(Word))
  BY <1>2
<1>5. s = [i \in 1..1 |-> line]
  OBVIOUS
<1>6. <<s>> \in Seq(Seq(Seq(Word))) /\ ToSet(<<s>>) = {s}
  <2> HIDE DEF s
  <2>1. <<s>> \in Seq(Seq(Seq(Word)))
    BY <1>4
  <2>2. DOMAIN <<s>> = {1} /\ <<s>>[1] = s
    OBVIOUS
  <2> QED
    BY <2>1, <2>2 DEF ToSet
<1> HIDE DEF s, n
<1>7. ASSUME NEW cut \in CutsFrom(text, from - 1, 1) PROVE CutLines(text, 1, cut) = s
  <2>1. cut[0] = from - 1 /\ cut[1] = n
    BY <1>7 DEF CutsFrom, n
  <2>2. cut[0] + 1 = from
    BY <1>1, <2>1
  <2>3. \A i \in 1..1 : i = 1 /\ i - 1 = 0
    OBVIOUS
  <2>4. \A i \in 1..1 : SubSeq(text, cut[i - 1] + 1, cut[i]) = line
    BY <2>1, <2>2, <2>3 DEF line
  <2> QED
    BY <1>5, <2>4 DEF CutLines
<1>8. \E cut : cut \in CutsFrom(text, from - 1, 1)
  <2> DEFINE cut == [i \in 0..1 |-> IF i = 0 THEN from - 1 ELSE n]
  <2>1. cut[0] = from - 1 /\ cut[1] = n /\ from - 1 \in 0..n /\ n \in 0..n /\ from - 1 < n
    BY <1>1
  <2>2. cut \in [0..1 -> 0..n]
    BY <2>1
  <2>3. \A i \in 1..1 : cut[i - 1] < cut[i]
    <3>1. \A i \in 1..1 : i = 1 /\ i - 1 = 0
      OBVIOUS
    <3> QED
      BY <2>1, <3>1
  <2> HIDE DEF cut
  <2> QED
    BY <2>1, <2>2, <2>3 DEF CutsFrom, n
<1>9. LinesFrom(text, from - 1, 1) = {s}
  BY <1>7, <1>8 DEF LinesFrom
<1> QED
  BY <1>3, <1>6, <1>9

\* A line before the lines that follow it.
LEMMA LineBefore ==
  ASSUME NEW text \in Seq(Word), NEW k \in 2..3, NEW lo \in Nat, NEW cut \in CutsFrom(text, lo, k)
  PROVE  /\ cut[1] \in Nat /\ lo < cut[1] /\ cut[1] <= Len(text) + 1 - k
         /\ [i \in 0..(k - 1) |-> cut[i + 1]] \in CutsFrom(text, cut[1], k - 1)
         /\ CutLines(text, k, cut) =
              <<SubSeq(text, lo + 1, cut[1])>> \o CutLines(text, k - 1, [i \in 0..(k - 1) |-> cut[i + 1]])
<1> DEFINE n == Len(text)
           c == [i \in 0..(k - 1) |-> cut[i + 1]]
           rest == CutLines(text, k - 1, c)
           line == SubSeq(text, lo + 1, cut[1])
<1>1. n \in Nat
  OBVIOUS
<1>2. /\ cut \in [0..k -> 0..n] /\ cut[0] = lo /\ cut[k] = n
      /\ \A i \in 1..k : cut[i - 1] < cut[i]
  BY DEF CutsFrom
<1> HIDE DEF n
<1>3. \A i \in 0..(k - 1) : i + 1 \in 0..k /\ c[i] = cut[i + 1]
  OBVIOUS
<1>4. c \in [0..(k - 1) -> 0..n]
  BY <1>2, <1>3
<1>5. c[0] = cut[1] /\ c[k - 1] = n
  BY <1>2
<1>6. ASSUME NEW i \in 1..(k - 1) PROVE c[i - 1] < c[i]
  <2> DEFINE e == i + 1
  <2>1. e \in 1..k /\ e - 1 = i /\ i - 1 \in 0..(k - 1) /\ i \in 0..(k - 1) /\ (i - 1) + 1 = i
    OBVIOUS
  <2> HIDE DEF e
  <2>2. cut[e - 1] < cut[e]
    BY <1>2, <2>1
  <2>3. c[i - 1] = cut[(i - 1) + 1] /\ c[i] = cut[e]
    BY <1>3, <2>1 DEF e
  <2> HIDE DEF c
  <2> QED
    BY <2>1, <2>2, <2>3
<1>7. c \in CutsFrom(text, cut[1], k - 1)
  <2> HIDE DEF c
  <2> QED
    BY <1>4, <1>5, <1>6 DEF CutsFrom, n
<1>8. cut[1] \in Nat /\ lo < cut[1] /\ cut[1] <= n + 1 - k
  <2>1. cut[0] \in 0..n /\ cut[1] \in 0..n /\ cut[2] \in 0..n /\ (k = 3 => cut[3] \in 0..n)
    BY <1>2
  <2>2. cut[0] < cut[1] /\ cut[1] < cut[2] /\ (k = 3 => cut[2] < cut[3])
    <3>1. 1 \in 1..k /\ 2 \in 1..k /\ (k = 3 => 3 \in 1..k)
      OBVIOUS
    <3>2. 1 - 1 = 0 /\ 2 - 1 = 1 /\ 3 - 1 = 2
      OBVIOUS
    <3> QED
      BY <1>2, <3>1, <3>2
  <2>3. CASE k = 2
    <3>1. cut[2] = n
      BY <1>2, <2>3
    <3> QED
      BY <1>1, <1>2, <2>1, <2>2, <2>3, <3>1
  <2>4. CASE k = 3
    <3>1. cut[3] = n
      BY <1>2, <2>4
    <3> QED
      BY <1>1, <1>2, <2>1, <2>2, <2>4, <3>1
  <2> QED
    BY <2>3, <2>4
<1>9. CutLines(text, k, cut) = <<line>> \o rest
  <2>1. k - 1 \in Nat /\ rest = [i \in 1..(k - 1) |-> SubSeq(text, c[i - 1] + 1, c[i])]
    BY DEF CutLines
  <2>2. \A i \in 1..(k - 1) : rest[i] = SubSeq(text, cut[i] + 1, cut[i + 1])
    <3> SUFFICES ASSUME NEW i \in 1..(k - 1) PROVE rest[i] = SubSeq(text, cut[i] + 1, cut[i + 1])
      OBVIOUS
    <3>1. i - 1 \in 0..(k - 1) /\ i \in 0..(k - 1) /\ (i - 1) + 1 = i
      OBVIOUS
    <3>2. c[i - 1] = cut[(i - 1) + 1] /\ c[i] = cut[i + 1]
      BY <1>3, <3>1
    <3>3. rest[i] = SubSeq(text, c[i - 1] + 1, c[i])
      BY <2>1
    <3> HIDE DEF c, rest
    <3> QED
      BY <3>1, <3>2, <3>3
  <2>3. rest \in Seq(Seq(Word)) /\ Len(rest) = k - 1
    <3>1. k - 1 \in 1..3
      OBVIOUS
    <3> HIDE DEF c
    <3>2. rest \in Seq(Seq(Word))
      BY <1>7, <3>1, CutLinesAre
    <3>3. DOMAIN rest = 1..(k - 1)
      BY <2>1
    <3> HIDE DEF rest
    <3> QED
      BY <2>1, <3>2, <3>3
  <2>4. line \in Seq(Word)
    <3>1. lo + 1 \in 1..(n + 1) /\ cut[1] \in 0..n
      BY <1>1, <1>2, <1>8
    <3> QED
      BY <3>1, LineBetween DEF n
  <2> HIDE DEF rest, c
  <2> DEFINE q == <<line>> \o rest
  <2>5. /\ Len(q) = 1 + (k - 1) /\ q \in Seq(Seq(Word)) /\ q[1] = line
        /\ \A i \in 1..(k - 1) : q[1 + i] = rest[i]
    <3> HIDE DEF line
    <3>1. <<line>> \in Seq(Seq(Word)) /\ Len(<<line>>) = 1 /\ <<line>>[1] = line
      BY <2>4
    <3> DEFINE a == <<line>>
    <3> HIDE DEF a
    <3>2. /\ a \o rest \in Seq(Seq(Word)) /\ Len(a \o rest) = Len(a) + Len(rest)
          /\ \A i \in 1..Len(a) : (a \o rest)[i] = a[i]
          /\ \A i \in 1..Len(rest) : (a \o rest)[Len(a) + i] = rest[i]
      BY <2>3, <3>1, JoinedSet DEF a
    <3>3. 1 \in 1..Len(a) /\ Len(a) = 1 /\ a[1] = line
      BY <3>1 DEF a
    <3> QED
      BY <2>3, <3>2, <3>3 DEF a
  <2>6. q = [i \in 1..k |-> q[i]]
    BY <2>5
  <2> HIDE DEF q
  <2>7. ASSUME NEW i \in 1..k PROVE q[i] = SubSeq(text, cut[i - 1] + 1, cut[i])
    <3>1. CASE i = 1
      <4>1. cut[i - 1] = lo
        BY <1>2, <3>1
      <4> QED
        BY <2>5, <3>1, <4>1 DEF line
    <3>2. CASE i # 1
      <4> DEFINE d == i - 1
      <4>1. d \in 1..(k - 1) /\ 1 + d = i /\ d + 1 = i
        BY <3>2
      <4> HIDE DEF d
      <4>2. q[1 + d] = rest[d] /\ rest[d] = SubSeq(text, cut[d] + 1, cut[d + 1])
        BY <2>2, <2>5, <4>1
      <4>3. q[i] = SubSeq(text, cut[d] + 1, cut[i])
        BY <4>1, <4>2
      <4> QED
        BY <4>3 DEF d
    <3> QED
      BY <3>1, <3>2
  <2> QED
    BY <2>6, <2>7 DEF CutLines, q
<1> QED
  BY <1>7, <1>8, <1>9 DEF n

\* A line can be put before any lines that follow it.
LEMMA LinePut ==
  ASSUME NEW text \in Seq(Word), NEW k \in 2..3, NEW lo \in Nat, NEW at \in 0..Len(text), lo < at,
         NEW cut \in CutsFrom(text, at, k - 1)
  PROVE  <<SubSeq(text, lo + 1, at)>> \o CutLines(text, k - 1, cut) \in LinesFrom(text, lo, k)
<1> DEFINE n == Len(text)
           d == [i \in 0..k |-> IF i = 0 THEN lo ELSE cut[i - 1]]
           c == [i \in 0..(k - 1) |-> d[i + 1]]
<1>1. n \in Nat /\ at \in 0..n
  OBVIOUS
<1>2. /\ cut \in [0..(k - 1) -> 0..n] /\ cut[0] = at /\ cut[k - 1] = n
      /\ \A i \in 1..(k - 1) : cut[i - 1] < cut[i]
  BY DEF CutsFrom
<1> HIDE DEF n
<1>3. d[0] = lo /\ \A i \in 1..k : d[i] = cut[i - 1] /\ i - 1 \in 0..(k - 1)
  OBVIOUS
<1>4. d \in [0..k -> 0..n]
  <2>1. lo \in 0..n
    BY <1>1
  <2>2. \A i \in 0..k : i # 0 => i \in 1..k
    OBVIOUS
  <2>3. \A i \in 0..k : d[i] \in 0..n
    BY <1>2, <1>3, <2>1, <2>2
  <2>4. d = [i \in 0..k |-> d[i]]
    OBVIOUS
  <2> HIDE DEF d
  <2> QED
    BY <2>3, <2>4
<1>5. d[k] = n /\ d[1] = at
  BY <1>2
<1>6. ASSUME NEW i \in 1..k PROVE d[i - 1] < d[i]
  <2>1. CASE i = 1
    <3>1. d[i - 1] = lo /\ d[i] = at
      BY <1>3, <1>5, <2>1
    <3> HIDE DEF d
    <3> QED
      BY <3>1
  <2>2. CASE i # 1
    <3> DEFINE e == i - 1
    <3>1. e \in 1..(k - 1) /\ e \in 1..k /\ e + 1 = i
      BY <2>2
    <3>2. d[e] = cut[e - 1] /\ d[i] = cut[e]
      BY <1>3, <3>1
    <3> HIDE DEF d, e
    <3>3. cut[e - 1] < cut[e]
      BY <1>2, <3>1
    <3> QED
      BY <3>2, <3>3 DEF e
  <2> QED
    BY <2>1, <2>2
<1>7. d \in CutsFrom(text, lo, k)
  <2> HIDE DEF d
  <2> QED
    BY <1>3, <1>4, <1>5, <1>6 DEF CutsFrom, n
<1>8. c = cut
  <2>1. ASSUME NEW i \in 0..(k - 1) PROVE d[i + 1] = cut[i]
    <3> DEFINE e == i + 1
    <3>1. e \in 1..k /\ e - 1 = i
      OBVIOUS
    <3> HIDE DEF e, d
    <3>2. d[e] = cut[e - 1]
      BY <1>3, <3>1
    <3> QED
      BY <3>1, <3>2 DEF e
  <2> HIDE DEF d
  <2>2. cut = [i \in 0..(k - 1) |-> cut[i]]
    BY <1>2
  <2> QED
    BY <2>1, <2>2
<1> HIDE DEF d
<1>9. CutLines(text, k, d) = <<SubSeq(text, lo + 1, d[1])>> \o CutLines(text, k - 1, c)
  BY <1>7, LineBefore
<1> HIDE DEF c
<1> QED
  BY <1>5, <1>7, <1>8, <1>9 DEF LinesFrom

LEMMA MoreSplit ==
  ASSUME NEW text \in Seq(Word), NEW k \in 2..3, NEW p, Splits(text, k - 1, p)
  PROVE  Splits(text, k, MoreLines(text, k, p))
<1> SUFFICES ASSUME NEW from \in 1..Len(text)
             PROVE  /\ MoreLines(text, k, p)[from] \in Seq(Seq(Seq(Word)))
                    /\ ToSet(MoreLines(text, k, p)[from]) = LinesFrom(text, from - 1, k)
  BY DEF Splits
<1> DEFINE n == Len(text)
           lo == from - 1
           m == n - from + 2 - k
           M == IF m < 0 THEN 0 ELSE m
           ss == FirstLines(text, k, p, from)
           Line(cut) == SubSeq(text, from, from + cut - 1)
           part(cut) == [i \in DOMAIN p[from + cut] |-> <<Line(cut)>> \o p[from + cut][i]]
<1>1. n \in Nat /\ from \in 1..n /\ lo \in Nat /\ m \in Int /\ M \in Nat /\ 1..m = 1..M /\ lo + 1 = from
  OBVIOUS
<1>2. MoreLines(text, k, p)[from] = FlattenSeq(ss)
  BY DEF MoreLines
<1>3. ss = [cut \in 1..M |-> part(cut)]
  BY <1>1 DEF FirstLines
<1>4. ASSUME NEW cut \in 1..M
      PROVE  /\ from + cut \in 1..n /\ from + cut - 1 \in 0..n /\ lo < from + cut - 1
             /\ from + cut - 1 = (from + cut) - 1
  BY <1>1
<1> HIDE DEF n, lo, m, M, part, ss
<1>5. ASSUME NEW cut \in 1..M
      PROVE  /\ p[from + cut] \in Seq(Seq(Seq(Word)))
             /\ ToSet(p[from + cut]) = LinesFrom(text, from + cut - 1, k - 1)
             /\ Line(cut) \in Seq(Word)
  <2> DEFINE e == from + cut
  <2>1. e \in 1..n /\ from + cut - 1 = e - 1
    BY <1>4
  <2>2. Line(cut) \in Seq(Word)
    <3>1. from \in 1..(n + 1) /\ from + cut - 1 \in 0..n
      BY <1>1, <1>4
    <3> QED
      BY <3>1, LineBetween DEF n
  <2> HIDE DEF e
  <2>3. p[e] \in Seq(Seq(Seq(Word))) /\ ToSet(p[e]) = LinesFrom(text, e - 1, k - 1)
    BY <2>1 DEF Splits, n
  <2> QED
    BY <2>1, <2>2, <2>3 DEF e
<1>6. ASSUME NEW cut \in 1..M
      PROVE  /\ part(cut) \in Seq(Seq(Seq(Word)))
             /\ ToSet(part(cut)) = {<<Line(cut)>> \o rest : rest \in LinesFrom(text, from + cut - 1, k - 1)}
  <2> DEFINE e == from + cut
             line == Line(cut)
             q == part(cut)
             s == p[e]
  <2>1. s \in Seq(Seq(Seq(Word))) /\ line \in Seq(Word)
        /\ ToSet(s) = LinesFrom(text, from + cut - 1, k - 1)
    BY <1>5
  <2>2. q = [i \in DOMAIN s |-> <<line>> \o s[i]]
    BY DEF part
  <2> HIDE DEF e, line, q, s
  <2>3. DOMAIN s = 1..Len(s) /\ Len(s) \in Nat /\ \A i \in 1..Len(s) : s[i] \in Seq(Seq(Word))
    BY <2>1
  <2>4. \A u \in Seq(Seq(Word)) : <<line>> \o u \in Seq(Seq(Word))
    <3> DEFINE a == <<line>>
    <3>1. a \in Seq(Seq(Word))
      BY <2>1
    <3> HIDE DEF a
    <3>2. \A u \in Seq(Seq(Word)) : a \o u \in Seq(Seq(Word))
      BY <3>1
    <3> QED
      BY <3>2 DEF a
  <2>5. q \in [1..Len(s) -> Seq(Seq(Word))]
    BY <2>2, <2>3, <2>4
  <2>6. q \in Seq(Seq(Seq(Word)))
    <3> DEFINE All == Seq(Seq(Word))
               l == Len(s)
    <3>1. q \in [1..l -> All] /\ l \in Nat
      BY <2>3, <2>5
    <3> HIDE DEF All, l
    <3>2. q \in Seq(All)
      BY <3>1
    <3> QED
      BY <3>2 DEF All
  <2>7. ToSet(q) = {<<line>> \o u : u \in ToSet(s)}
    BY <2>2 DEF ToSet
  <2> QED
    BY <2>1, <2>6, <2>7 DEF q, line, s, e
<1>7. ss \in Seq(Seq(Seq(Seq(Word)))) /\ Len(ss) = M /\ \A cut \in 1..M : ss[cut] = part(cut)
  <2> DEFINE All == Seq(Seq(Seq(Word)))
  <2>1. \A cut \in 1..M : part(cut) \in All
    BY <1>6
  <2> HIDE DEF All
  <2>2. ss \in [1..M -> All]
    BY <1>3, <2>1
  <2>3. ss \in Seq(All) /\ Len(ss) = M
    BY <1>1, <2>2
  <2> QED
    BY <1>3, <2>3 DEF All
<1>8. FlattenSeq(ss) \in Seq(Seq(Seq(Word)))
      /\ ToSet(FlattenSeq(ss)) = UNION {ToSet(part(cut)) : cut \in 1..M}
  <2> DEFINE All == Seq(Seq(Word))
  <2> HIDE DEF All
  <2>1. ss \in Seq(Seq(All))
    BY <1>7 DEF All
  <2>2. FlattenSeq(ss) \in Seq(All) /\ FlatSet(ss)
    BY <2>1, FlatSetIs
  <2>3. ToSet(FlattenSeq(ss)) = UNION {ToSet(ss[cut]) : cut \in 1..M}
    BY <1>7, <2>2 DEF FlatSet
  <2>4. {ToSet(ss[cut]) : cut \in 1..M} = {ToSet(part(cut)) : cut \in 1..M}
    BY <1>7
  <2> QED
    BY <2>2, <2>3, <2>4 DEF All
<1>9. ASSUME NEW cut \in 1..M, NEW x \in ToSet(part(cut)) PROVE x \in LinesFrom(text, lo, k)
  <2> DEFINE at == from + cut - 1
             line == Line(cut)
  <2>1. PICK rest \in LinesFrom(text, at, k - 1) : x = <<line>> \o rest
    BY <1>6
  <2>2. PICK c \in CutsFrom(text, at, k - 1) : rest = CutLines(text, k - 1, c)
    BY DEF LinesFrom
  <2>3. at \in 0..n /\ lo < at
    BY <1>4
  <2>4. line = SubSeq(text, lo + 1, at)
    BY <1>1
  <2> HIDE DEF at, line
  <2>5. <<SubSeq(text, lo + 1, at)>> \o CutLines(text, k - 1, c) \in LinesFrom(text, lo, k)
    BY <1>1, <2>3, LinePut DEF n
  <2> QED
    BY <2>1, <2>2, <2>4, <2>5
<1>10. ASSUME NEW x \in LinesFrom(text, lo, k) PROVE \E cut \in 1..M : x \in ToSet(part(cut))
  <2>1. PICK d \in CutsFrom(text, lo, k) : x = CutLines(text, k, d)
    BY DEF LinesFrom
  <2> DEFINE at == d[1]
             c == [i \in 0..(k - 1) |-> d[i + 1]]
             cut == at - lo
  <2>2. /\ at \in Nat /\ lo < at /\ at <= n + 1 - k
        /\ c \in CutsFrom(text, at, k - 1)
        /\ CutLines(text, k, d) = <<SubSeq(text, lo + 1, at)>> \o CutLines(text, k - 1, c)
    BY <1>1, LineBefore DEF n
  <2> HIDE DEF at, c
  <2>3. cut \in 1..M /\ from + cut - 1 = at
    <3>1. cut >= 1 /\ cut <= m /\ cut \in Int
      BY <1>1, <2>2 DEF m, lo
    <3>2. from + cut - 1 = at
      BY <1>1, <2>2 DEF lo
    <3> HIDE DEF cut
    <3> QED
      BY <1>1, <3>1, <3>2
  <2> HIDE DEF cut
  <2> DEFINE rest == CutLines(text, k - 1, c)
  <2>4. rest \in LinesFrom(text, from + cut - 1, k - 1)
    BY <2>2, <2>3 DEF LinesFrom
  <2>5. x = <<Line(cut)>> \o rest
    BY <1>1, <2>1, <2>2, <2>3
  <2> HIDE DEF rest, Line
  <2>6. x \in ToSet(part(cut))
    BY <1>6, <2>3, <2>4, <2>5
  <2> QED
    BY <2>3, <2>6
<1>11. ToSet(FlattenSeq(ss)) = LinesFrom(text, lo, k)
  BY <1>8, <1>9, <1>10
<1> QED
  BY <1>2, <1>8, <1>11 DEF lo

\* Every way to break the text into count lines is tried, and nothing else.
LEMMA PartitionsAre ==
  ASSUME NEW text \in Seq(Word), text # << >>, NEW count \in 1..3
  PROVE  /\ LinePartitions(text, count) \in Seq(Seq(Seq(Word)))
         /\ ToSet(LinePartitions(text, count)) = Layouts(text, {count})
<1> DEFINE h == PartsOf(text)
<1>1. h[1] = OneLine(text) /\ \A k \in 2..3 : h[k] = MoreLines(text, k, h[k - 1])
  BY PartsSteps
<1> HIDE DEF h
<1>2. Splits(text, 1, h[1])
  BY <1>1, OneSplit
<1>3. Splits(text, 2, h[2])
  <2>1. h[2] = MoreLines(text, 2, h[1]) /\ 2 \in 2..3 /\ 2 - 1 = 1
    <3>1. 2 \in 2..3 /\ 2 - 1 = 1
      OBVIOUS
    <3> QED
      BY <1>1, <3>1
  <2>2. Splits(text, 2 - 1, h[1])
    BY <1>2, <2>1
  <2> QED
    BY <2>1, <2>2, MoreSplit
<1>4. Splits(text, 3, h[3])
  <2>1. h[3] = MoreLines(text, 3, h[2]) /\ 3 \in 2..3 /\ 3 - 1 = 2
    <3>1. 3 \in 2..3 /\ 3 - 1 = 2
      OBVIOUS
    <3> QED
      BY <1>1, <3>1
  <2>2. Splits(text, 3 - 1, h[2])
    BY <1>3, <2>1
  <2> QED
    BY <2>1, <2>2, MoreSplit
<1>5. Splits(text, count, h[count])
  <2>1. count = 1 \/ count = 2 \/ count = 3
    OBVIOUS
  <2> QED
    BY <1>2, <1>3, <1>4, <2>1
<1>6. 1 \in 1..Len(text) /\ 1 - 1 = 0
  OBVIOUS
<1>7. h[count][1] \in Seq(Seq(Seq(Word))) /\ ToSet(h[count][1]) = LinesFrom(text, 0, count)
  BY <1>5, <1>6 DEF Splits
<1>8. LinesFrom(text, 0, count) = Layouts(text, {count})
  BY DEF LinesFrom, CutsFrom, Layouts, Cuts
<1>9. LinePartitions(text, count) = h[count][1]
  BY PartitionsMean DEF h
<1> QED
  BY <1>7, <1>8, <1>9

\* A text can be cut into as many lines as it has words, and no more.
LEMMA CanBeCut ==
  ASSUME NEW text \in Seq(Word), text # << >>, NEW k \in 1..3
  PROVE  Cuts(text, k) # {} <=> k <= Len(text)
<1> DEFINE n == Len(text)
<1>1. n \in Nat /\ n >= 1
  OBVIOUS
<1> HIDE DEF n
<1>2. ASSUME k <= n PROVE Cuts(text, k) # {}
  <2> DEFINE cut == [i \in 0..k |-> IF i = k THEN n ELSE i]
  <2>1. \A i \in 0..k : cut[i] \in 0..n
    BY <1>1, <1>2
  <2>2. cut[0] = 0 /\ cut[k] = n
    BY <1>1
  <2>3. ASSUME NEW i \in 1..k PROVE cut[i - 1] < cut[i]
    <3>1. i - 1 \in 0..k /\ i - 1 # k /\ i \in 0..k
      OBVIOUS
    <3>2. cut[i - 1] = i - 1 /\ (cut[i] = i \/ cut[i] = n)
      BY <3>1
    <3>3. i - 1 < i /\ i - 1 < n
      BY <1>1, <1>2
    <3> HIDE DEF cut
    <3> QED
      BY <3>2, <3>3
  <2>4. cut \in [0..k -> 0..n]
    <3>1. cut = [i \in 0..k |-> cut[i]]
      OBVIOUS
    <3> HIDE DEF cut
    <3> QED
      BY <2>1, <3>1
  <2> HIDE DEF cut
  <2> QED
    BY <2>2, <2>3, <2>4 DEF Cuts, n
<1>3. ASSUME NEW cut \in Cuts(text, k) PROVE k <= n
  <2>1. /\ cut \in [0..k -> 0..n] /\ cut[0] = 0 /\ cut[k] = n
        /\ \A i \in 1..k : cut[i - 1] < cut[i]
    BY DEF Cuts, n
  <2>2. cut[1] \in 0..n /\ cut[0] < cut[1]
    <3>1. 1 \in 1..k /\ 1 \in 0..k /\ 1 - 1 = 0
      OBVIOUS
    <3> QED
      BY <2>1, <3>1
  <2>3. k >= 2 => cut[2] \in 0..n /\ cut[1] < cut[2]
    <3>1. k >= 2 => 2 \in 1..k /\ 2 \in 0..k
      OBVIOUS
    <3>2. 2 - 1 = 1
      OBVIOUS
    <3> QED
      BY <2>1, <3>1, <3>2
  <2>4. k >= 3 => cut[3] \in 0..n /\ cut[2] < cut[3]
    <3>1. k >= 3 => 3 \in 1..k /\ 3 \in 0..k
      OBVIOUS
    <3>2. 3 - 1 = 2
      OBVIOUS
    <3> QED
      BY <2>1, <3>1, <3>2
  <2>5. k = 1 \/ k = 2 \/ k = 3
    OBVIOUS
  <2> QED
    BY <1>1, <2>1, <2>2, <2>3, <2>4, <2>5
<1> QED
  BY <1>2, <1>3 DEF n

\* The counts that a request for so many lines stands for.
CountsOf(count) == IF count = 0 THEN 1..3 ELSE {count}

LEMMA TriedAre ==
  ASSUME NEW text \in Seq(Word), text # << >>, NEW count \in 0..3, count <= Len(text)
  PROVE  /\ Tried(text, count) \in Seq(Seq(Seq(Word)))
         /\ ToSet(Tried(text, count)) = Layouts(text, CountsOf(count))
<1> DEFINE n == Len(text)
<1>1. n \in Nat /\ n >= 1
  OBVIOUS
<1>2. CASE count > 0
  <2>1. count \in 1..3 /\ count # 0
    BY <1>2
  <2>2. Tried(text, count) = LinePartitions(text, count) /\ CountsOf(count) = {count}
    BY <1>2, <2>1 DEF Tried, CountsOf
  <2> QED
    BY <2>1, <2>2, PartitionsAre
<1>3. CASE ~(count > 0)
  <2> DEFINE m == Min({3, n})
             All == Seq(Seq(Word))
             ss == [k \in 1..m |-> LinePartitions(text, k)]
  <2>1. count = 0
    BY <1>3
  <2>2. m = IF 3 <= n THEN 3 ELSE n
    BY <1>1, MinOfTwo
  <2>3. Tried(text, count) = FlattenSeq(ss)
    BY <2>1 DEF Tried
  <2> HIDE DEF m, n
  <2>4. m \in 1..3 /\ \A k \in 1..3 : k \in 1..m <=> k <= n
    BY <1>1, <2>2
  <2>5. ASSUME NEW k \in 1..m
        PROVE  LinePartitions(text, k) \in Seq(All) /\ ToSet(LinePartitions(text, k)) = Layouts(text, {k})
    <3>1. k \in 1..3
      BY <2>4
    <3> QED
      BY <3>1, PartitionsAre
  <2> HIDE DEF All
  <2>6. ss \in Seq(Seq(All)) /\ Len(ss) = m /\ \A k \in 1..m : ss[k] = LinePartitions(text, k)
    <3>1. ss \in [1..m -> Seq(All)]
      BY <2>5
    <3>2. m \in Nat
      BY <2>4
    <3> DEFINE Each == Seq(All)
    <3>3. ss \in [1..m -> Each]
      BY <3>1
    <3> HIDE DEF Each
    <3>4. ss \in Seq(Each) /\ Len(ss) = m
      <4> HIDE DEF ss
      <4> QED
        BY <3>2, <3>3
    <3> QED
      BY <3>4 DEF Each
  <2> HIDE DEF ss
  <2>7. FlattenSeq(ss) \in Seq(All) /\ ToSet(FlattenSeq(ss)) = UNION {ToSet(ss[k]) : k \in 1..m}
    BY <2>6, FlatSetIs DEF FlatSet
  <2>8. \A k \in 1..m : ToSet(ss[k]) = Layouts(text, {k})
    BY <2>5, <2>6
  <2>9. Layouts(text, 1..3) = UNION {Layouts(text, {k}) : k \in 1..m}
    <3> DEFINE One(k) == {CutLines(text, k, cut) : cut \in Cuts(text, k)}
    <3>1. \A k \in 1..m : Layouts(text, {k}) = One(k)
      BY DEF Layouts
    <3>2. Layouts(text, 1..3) = UNION {One(k) : k \in 1..3}
      BY DEF Layouts
    <3>3. ASSUME NEW k \in 1..3, k \notin 1..m PROVE One(k) = {}
      <4>1. ~(k <= n)
        BY <2>4, <3>3
      <4>2. Cuts(text, k) = {}
        BY <4>1, CanBeCut DEF n
      <4> QED
        BY <4>2
    <3>4. \A k \in 1..m : k \in 1..3
      BY <2>4
    <3> HIDE DEF One
    <3>5. UNION {One(k) : k \in 1..3} = UNION {One(k) : k \in 1..m}
      BY <3>3, <3>4
    <3> QED
      BY <3>1, <3>2, <3>5
  <2>10. ToSet(FlattenSeq(ss)) = Layouts(text, 1..3)
    BY <2>7, <2>8, <2>9
  <2> QED
    BY <2>1, <2>3, <2>7, <2>10 DEF CountsOf, All
<1> QED
  BY <1>2, <1>3

\* What PlanLines makes of any text and number of lines.
BestPlan(text, count) ==
  LET plan == PlanLines(text, count)
      all == Layouts(text, CountsOf(count))
  IN  IF \/ text = << >> \/ Len(text) > MaxWords \/ Letters(text) > MaxLetters \/ all = {}
        THEN plan = Refused
        ELSE /\ plan.lines \in all /\ plan.size = BestSize(plan.lines)
             /\ \A other \in all :
                  /\ \A size \in (plan.size + 1)..(MaxSize - 1) : ~Fits(other, size)
                  /\ BestSize(other) = plan.size => ~MoreBalanced(other, plan.lines, plan.size)

LEMMA PlanIsBest ==
  ASSUME NEW text \in Seq(Word), NEW count \in 0..3
  PROVE  BestPlan(text, count)
<1> DEFINE plan == PlanLines(text, count)
           all == Layouts(text, CountsOf(count))
           tried == Tried(text, count)
           n == Len(tried)
<1>1. CASE text = << >> \/ Len(text) > MaxWords \/ Letters(text) > MaxLetters
  BY <1>1, PlanMeans DEF BestPlan
<1>2. CASE ~(text = << >> \/ Len(text) > MaxWords \/ Letters(text) > MaxLetters)
  <2>1. CountsOf(count) \subseteq 1..3 /\ (count = 0 => 1 \in CountsOf(count))
    BY DEF CountsOf
  <2>2. CASE count > Len(text)
    <3>1. plan = Refused
      BY <1>2, <2>2, PlanMeans
    <3>2. all = {}
      <4>1. count # 0 /\ count \in 1..3 /\ ~(count <= Len(text))
        BY <2>2
      <4>2. CountsOf(count) = {count} /\ Cuts(text, count) = {}
        BY <1>2, <4>1, CanBeCut DEF CountsOf
      <4> QED
        BY <4>2 DEF Layouts
    <3> QED
      BY <3>1, <3>2 DEF BestPlan
  <2>3. CASE ~(count > Len(text))
    <3>1. count <= Len(text) /\ text # << >> /\ 1 <= Len(text)
      BY <1>2, <2>3
    <3>2. tried \in Seq(Seq(Seq(Word))) /\ ToSet(tried) = all
      BY <3>1, TriedAre
    <3>3. all # {}
      <4>1. \E k \in CountsOf(count) : k \in 1..3 /\ k <= Len(text)
        BY <2>1, <3>1 DEF CountsOf
      <4>2. PICK k \in CountsOf(count) : Cuts(text, k) # {}
        BY <3>1, <4>1, CanBeCut
      <4>3. PICK cut : cut \in Cuts(text, k)
        BY <4>2
      <4>4. CutLines(text, k, cut) \in {CutLines(text, k, c) : c \in Cuts(text, k)}
        BY <4>3
      <4> DEFINE Of(i) == {CutLines(text, i, c) : c \in Cuts(text, i)}
      <4>5. Of(k) # {} /\ Of(k) \in {Of(i) : i \in CountsOf(count)}
        BY <4>4
      <4>6. all = UNION {Of(i) : i \in CountsOf(count)}
        BY DEF Layouts
      <4> HIDE DEF Of, all
      <4> QED
        BY <4>5, <4>6
    <3>4. plan = Bests(tried)[n]
      BY <1>2, <2>3, PlanMeans
    <3> HIDE DEF tried, plan
    <3>5. DOMAIN tried = 1..n /\ n \in Nat
      BY <3>2
    <3>6. \A j \in 1..n : tried[j] \in all
      BY <3>2, <3>5 DEF ToSet
    <3>7. \A x \in all : \E j \in 1..n : x = tried[j]
      BY <3>2, <3>5 DEF ToSet
    <3>8. n >= 1
      BY <3>3, <3>5, <3>7
    <3>9. \A x \in all : IsLines(x)
      <4> SUFFICES ASSUME NEW x \in all PROVE IsLines(x)
        OBVIOUS
      <4>1. PICK k \in CountsOf(count) : x \in {CutLines(text, k, cut) : cut \in Cuts(text, k)}
        BY DEF Layouts
      <4>2. PICK cut \in Cuts(text, k) : x = CutLines(text, k, cut)
        BY <4>1
      <4>3. k \in 1..3 /\ cut \in CutsFrom(text, 0, k)
        BY <2>1 DEF Cuts, CutsFrom
      <4> QED
        BY <4>2, <4>3, CutLinesAre
    <3> HIDE DEF all, n
    <3>10. Chosen(tried, n, plan)
      <4> DEFINE S == Seq(Seq(Word))
      <4>1. tried \in Seq(S) /\ \A j \in 1..Len(tried) : IsLines(tried[j])
        BY <3>2, <3>6, <3>9 DEF n
      <4> HIDE DEF S
      <4> QED
        BY <3>4, <3>8, <4>1, BestIs DEF n
    <3>11. PICK j \in 1..n : plan.lines = tried[j] /\ plan.size = BestSize(tried[j])
      BY <3>10 DEF Chosen
    <3>12. plan.lines \in all /\ plan.size = BestSize(plan.lines) /\ plan.size \in Nat
      <4>1. SizeFound(plan.lines, BestSize(plan.lines))
        BY <3>6, <3>9, <3>11, BestSizeIs
      <4> QED
        BY <3>6, <3>11, <4>1 DEF SizeFound
    <3>13. ASSUME NEW other \in all
           PROVE  /\ \A size \in (plan.size + 1)..(MaxSize - 1) : ~Fits(other, size)
                  /\ BestSize(other) = plan.size => ~MoreBalanced(other, plan.lines, plan.size)
      <4>1. PICK i \in 1..n : other = tried[i]
        BY <3>7
      <4>2. /\ BestSize(other) <= plan.size
            /\ BestSize(other) = plan.size => ~MoreBalanced(other, plan.lines, plan.size)
        BY <3>10, <4>1 DEF Chosen
      <4>3. SizeFound(other, BestSize(other))
        BY <3>9, BestSizeIs
      <4>4. ASSUME NEW size \in (plan.size + 1)..(MaxSize - 1) PROVE ~Fits(other, size)
        <5> DEFINE b == BestSize(other)
        <5>1. b \in Nat /\ b <= plan.size
          BY <4>2, <4>3 DEF SizeFound
        <5>2. size \in (b + 1)..(MaxSize - 1)
          <6> HIDE DEF b
          <6> QED
            BY <3>12, <5>1, LayoutAssumption
        <5> QED
          BY <4>3, <5>2 DEF SizeFound
      <4> QED
        BY <4>2, <4>4
    <3> QED
      BY <1>2, <3>3, <3>12, <3>13 DEF BestPlan, plan, all
  <2> QED
    BY <2>2, <2>3
<1> QED
  BY <1>1, <1>2

\* For every text and number of lines, page, gap and range of sizes, PlanLines
\* takes a layout of the largest type, and of those one with the most even lines.
THEOREM BannerIsLargest == LayoutSpec => []LargestType
<1>1. LayoutTypeOK => LargestType
  <2> SUFFICES ASSUME LayoutTypeOK PROVE LargestType
    OBVIOUS
  <2>1. words \in Seq(Word) /\ lineCount \in 0..3
    <3>1. words \in Seq(WordLengths) /\ lineCount \in 0..3
      BY DEF LayoutTypeOK
    <3>2. WordLengths \subseteq Word
      BY TextAssumption DEF Word
    <3>3. Seq(WordLengths) \subseteq Seq(Word)
      BY <3>2
    <3> QED
      BY <3>1, <3>3
  <2>2. BestPlan(words, lineCount)
    BY <2>1, PlanIsBest
  <2> QED
    BY <2>2 DEF LargestType, BestPlan, CountsOf
<1> QED
  BY <1>1, LayoutTypeCorrect, PTL
=============================================================================
