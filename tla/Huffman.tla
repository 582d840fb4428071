------------------------------ MODULE Huffman ------------------------------
(***************************************************************************)
(* The Huffman coder of internal/protocol/protocol.go, as functions.  A    *)
(* node is named by its symbol: a leaf by the byte it stands for, a node   *)
(* made by a merge by Symbols, Symbols + 1 and so on.  A tree is its root  *)
(* and the set of its inner nodes, each with its left and right child.     *)
(* Packed bytes are the sequence of their bits, the first bit first.       *)
(***************************************************************************)
EXTENDS Integers, Sequences, FiniteSets, SequencesExt

CONSTANTS Symbols,    \* how many values a byte of a page has: 256 in the code
          ByteBits    \* how many bits a packed byte has: 8 in the code

ASSUME SymbolsAssumption == Symbols \in Nat /\ Symbols >= 2
ASSUME ByteBitsAssumption == ByteBits \in Nat \ {0}

Byte == 0..(Symbols - 1)

\* No node: a nil child.
None == 2 * Symbols

NoTree == [root |-> None, kids |-> {}]

Inner(t) == {k[1] : k \in t.kids}
NodesOf(t) == {t.root} \cup UNION {{k[1], k[2], k[3]} : k \in t.kids}

\* node.left for bit 0, node.right for bit 1.
Child(t, n, bit) ==
  IF n \in Inner(t) THEN (CHOOSE k \in t.kids : k[1] = n)[2 + bit] ELSE None

----------------------------------------------------------------------------
(* Building a tree *)

Occurrences(data, b) == Cardinality({i \in DOMAIN data : data[i] = b})

Leaf(b, w, o) == [symbol |-> b, weight |-> w, order |-> o]

\* One leaf per byte that occurs; a second one of no weight beside a lonely one.
Leaves(data) ==
  LET used == ToSet(data)
      lonely == CHOOSE b \in used : TRUE
  IN  CASE used = {} -> {Leaf(0, 1, 0), Leaf(1, 0, 1)}
        [] Cardinality(used) = 1 ->
             {Leaf(lonely, Len(data), 0), Leaf(IF lonely = 0 THEN 1 ELSE 0, 0, 1)}
        [] OTHER ->
             {Leaf(b, Occurrences(data, b), Cardinality({c \in used : c < b})) : b \in used}

\* The node the sort puts first.
Lightest(nodes) ==
  CHOOSE x \in nodes : \A y \in nodes :
    x.weight < y.weight \/ (x.weight = y.weight /\ x.order <= y.order)

BuildHuffman(data) ==
  LET leaves == Leaves(data)
      n == Cardinality(leaves)
      forest[i \in 0..(n - 1)] ==
        IF i = 0 THEN [nodes |-> leaves, kids |-> {}]
        ELSE LET f == forest[i - 1]
                 a == Lightest(f.nodes)
                 b == Lightest(f.nodes \ {a})
                 parent == [symbol |-> Symbols + i - 1, weight |-> a.weight + b.weight,
                            order |-> n + i - 1]
             IN  [nodes |-> (f.nodes \ {a, b}) \cup {parent},
                  kids |-> f.kids \cup {<<parent.symbol, a.symbol, b.symbol>>}]
      last == forest[n - 1]
  IN  [root |-> (CHOOSE x \in last.nodes : TRUE).symbol, kids |-> last.kids]

----------------------------------------------------------------------------
(* Sending a tree and rebuilding it *)

Preorder(t) ==
  LET walk[n \in NodesOf(t)] ==
        IF n \in Inner(t) THEN <<n>> \o walk[Child(t, n, 0)] \o walk[Child(t, n, 1)] ELSE <<n>>
  IN  walk[t.root]

Inorder(t) ==
  LET walk[n \in NodesOf(t)] ==
        IF n \in Inner(t) THEN walk[Child(t, n, 0)] \o <<n>> \o walk[Child(t, n, 1)] ELSE <<n>>
  IN  walk[t.root]

\* Every inner node has both children and every leaf stands for a byte.
ValidTree(t) ==
  /\ t # NoTree
  /\ \A k \in t.kids : None \notin {k[2], k[3]}
  /\ \A n \in NodesOf(t) \ Inner(t) : n \in Byte

\* The nodes of mid[lo..hi], which pre lists from p on, for x = <<p, lo, hi>>.  A
\* part that cannot be built leaves its parent without a child.
Build(pre, mid) ==
  LET Parts == {x \in (1..Len(pre)) \X (1..Len(mid)) \X (0..Len(mid)) :
                  x[1] + x[3] - x[2] <= Len(pre)}
      part[x \in Parts] ==
        LET p == x[1]
            lo == x[2]
            hi == x[3]
        IN  IF \E i \in lo..hi : mid[i] = pre[p]
              THEN LET split == CHOOSE i \in lo..hi : mid[i] = pre[p]
                       left  == IF split > lo THEN part[<<p + 1, lo, split - 1>>] ELSE NoTree
                       right == IF split < hi THEN part[<<p + 1 + split - lo, split + 1, hi>>]
                                              ELSE NoTree
                   IN  [root |-> pre[p],
                        kids |-> left.kids \cup right.kids \cup
                                 (IF lo = hi THEN {} ELSE {<<pre[p], left.root, right.root>>})]
              ELSE NoTree
  IN  part[<<1, 1, Len(mid)>>]

\* Mutant of TreeFrom: validate is not called.
MutantUnvalidated(pre, mid) ==
  IF /\ pre # << >> /\ Len(pre) = Len(mid) /\ Len(pre) <= 2 * Symbols - 1
     /\ IsInjective(pre) /\ IsInjective(mid) /\ ToSet(pre) = ToSet(mid)
    THEN Build(pre, mid) ELSE NoTree

\* The decoder's tree, or none: the limit of 511 nodes is a full tree's.
TreeFrom(pre, mid) ==
  IF /\ pre # << >> /\ Len(pre) = Len(mid) /\ Len(pre) <= 2 * Symbols - 1
     /\ IsInjective(pre) /\ IsInjective(mid) /\ ToSet(pre) = ToSet(mid)
     /\ ValidTree(Build(pre, mid))
    THEN Build(pre, mid) ELSE NoTree

----------------------------------------------------------------------------
(* Coding with a tree *)

\* newHuffman: the way from the root to each byte's leaf; a byte without a leaf
\* has an empty code.
Codes(t) ==
  LET way[n \in NodesOf(t)] ==
        IF n = t.root THEN << >>
        ELSE LET k == CHOOSE k \in t.kids : n \in {k[2], k[3]}
             IN  Append(way[k[1]], IF n = k[2] THEN 0 ELSE 1)
  IN  [b \in Byte |-> IF b \notin NodesOf(t) \ Inner(t) THEN << >>
                      ELSE IF b = t.root THEN <<0>> ELSE way[b]]

\* The codes of the bytes, one after the other.
CodeAll(t, data) ==
  LET codes == Codes(t)
  IN  FlattenSeq([i \in DOMAIN data |-> codes[data[i]]])

\* Mutant of Encode: a row that fills its last byte is padded with another one.
MutantFullPad(t, data) ==
  LET bits == CodeAll(t, data)
      pad == ByteBits - (Len(bits) % ByteBits)
  IN  [bits |-> bits \o [i \in 1..pad |-> 1], pad |-> pad]

\* The codes and as many ones as fill the last byte.
Encode(t, data) ==
  LET bits == CodeAll(t, data)
      pad == (ByteBits - (Len(bits) % ByteBits)) % ByteBits
  IN  [bits |-> bits \o [i \in 1..pad |-> 1], pad |-> pad]

\* One bit: down to a child, and at a leaf its byte is out and the next code begins.
Take(t, st, bit) ==
  LET n == Child(t, st.at, bit)
  IN  IF ~st.ok \/ n = None THEN [st EXCEPT !.ok = FALSE]
      ELSE IF n \in Inner(t) THEN [st EXCEPT !.at = n]
      ELSE [at |-> t.root, data |-> Append(st.data, n), ok |-> n \in Byte]

\* Where the decoder is after n bits.
After(t, bits, n) ==
  LET read[i \in 0..n] ==
        IF i = 0 THEN [at |-> t.root, data |-> << >>, ok |-> TRUE]
        ELSE Take(t, read[i - 1], bits[i])
  IN  read[n]

\* Mutant of Decode: it does not count what it has decoded.
MutantAnyLength(t, bits, pad, count) ==
  IF pad < ByteBits /\ pad <= Len(bits)
    THEN LET end == After(t, bits, Len(bits) - pad)
         IN  [ok |-> end.ok /\ end.at = t.root, data |-> end.data]
    ELSE [ok |-> FALSE, data |-> << >>]

\* count bytes from all bits but the padding, ending with a whole code.
Decode(t, bits, pad, count) ==
  IF pad < ByteBits /\ pad <= Len(bits)
    THEN LET end == After(t, bits, Len(bits) - pad)
         IN  [ok |-> end.ok /\ end.at = t.root /\ Len(end.data) = count, data |-> end.data]
    ELSE [ok |-> FALSE, data |-> << >>]
=============================================================================
