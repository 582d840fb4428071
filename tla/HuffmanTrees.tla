---------------------------- MODULE HuffmanTrees ----------------------------
(***************************************************************************)
(* What the decoder of internal/protocol/protocol.go does with any two     *)
(* traversals and any bits, against the definition of a Huffman code.  The *)
(* state is the input: it grows by one node or by one bit at a time.       *)
(***************************************************************************)
EXTENDS Huffman

CONSTANTS MaxNodes,   \* bound: nodes in the traversals
          MaxBits     \* bound: bits after the tree

ASSUME TreesAssumption == MaxNodes \in Nat /\ MaxBits \in Nat

VARIABLES preNodes, midNodes,   \* the tree frame
          codeBits              \* what follows, without its padding

treesVars == <<preNodes, midNodes, codeBits>>

Labels == 0..(2 * Symbols - 2)

TreesInit == preNodes = << >> /\ midNodes = << >> /\ codeBits = << >>

\* One more node in each traversal.
AddNode ==
  /\ codeBits = << >> /\ Len(preNodes) < MaxNodes
  /\ \E a, b \in Labels :    \* a repeated node is repeated once
       /\ IsInjective(preNodes) /\ IsInjective(midNodes)
       /\ preNodes' = Append(preNodes, a) /\ midNodes' = Append(midNodes, b)
  /\ UNCHANGED codeBits

AddBit ==
  /\ TreeFrom(preNodes, midNodes) # NoTree /\ Len(codeBits) < MaxBits
  /\ \E b \in {0, 1} : codeBits' = Append(codeBits, b)
  /\ UNCHANGED <<preNodes, midNodes>>

TreesNext == AddNode \/ AddBit

TreesSpec == TreesInit /\ [][TreesNext]_treesVars

----------------------------------------------------------------------------

TreesTypeOK ==
  /\ preNodes \in Seq(Labels) /\ midNodes \in Seq(Labels)
  /\ Len(preNodes) = Len(midNodes) /\ Len(preNodes) <= MaxNodes
  /\ codeBits \in Seq({0, 1}) /\ Len(codeBits) <= MaxBits

\* Every tree that a node n makes of one of two on its left and one on its right.
Joins(n, lefts, rights) ==
  {[root |-> n, kids |-> l.kids \cup r.kids \cup {<<n, l.root, r.root>>}] :
     l \in lefts, r \in rights}

\* Every tree in which each inner node has two children and each leaf is a byte,
\* by its set of nodes.
FullTrees ==
  LET trees[nodes \in SUBSET Labels] ==
        IF Cardinality(nodes) = 1
          THEN {[root |-> n, kids |-> {}] : n \in nodes \cap Byte}
          ELSE UNION {UNION {Joins(n, trees[left], trees[nodes \ (left \cup {n})]) :
                               left \in (SUBSET (nodes \ {n})) \ {{}, nodes \ {n}}} :
                        n \in nodes}
  IN  UNION {trees[nodes] : nodes \in SUBSET Labels}

\* The two traversals of each of them.
Traversed == [t \in FullTrees |-> <<Preorder(t), Inorder(t)>>]

\* treeFrom accepts two lists exactly when they are the traversals of a full
\* tree, and then rebuilds that tree.
RebuildsExactly ==
  LET trees == {t \in FullTrees : Traversed[t] = <<preNodes, midNodes>>}
      built == TreeFrom(preNodes, midNodes)
  IN  IF trees = {} THEN built = NoTree ELSE trees = {built}

\* Decode returns the one message of the wanted length whose codes are the bits,
\* and refuses the bits when there is none.  No tree of an encoder is one leaf.
DecodesExactly ==
  LET t == TreeFrom(preNodes, midNodes)
      leaves == NodesOf(t) \ Inner(t)
  IN  t.kids # {} =>
        \A count \in 0..MaxBits :
          LET d == Decode(t, codeBits, 0, count)
              messages == IF count > Len(codeBits) THEN {}
                          ELSE {m \in [1..count -> leaves] : CodeAll(t, m) = codeBits}
          IN  IF d.ok THEN messages = {d.data} ELSE messages = {}
=============================================================================
