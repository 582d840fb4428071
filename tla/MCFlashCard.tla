---------------------------- MODULE MCFlashCard -----------------------------
(* Instance of FlashCard for TLC: the disk macOS runs from, two cards that    *)
(* only their media identity tells apart, and one that reports none.         *)
EXTENDS FlashCard, TLC

CONSTANTS root, twinA, twinB, plain, d4, d5, d6, release, other, rebuilt

MCMedia == root :> 1 @@ twinA :> 2 @@ twinB :> 3 @@ plain :> 0
MCSize == root :> 3 @@ twinA :> 2 @@ twinB :> 2 @@ plain :> 2
MCImageSize == release :> 2 @@ other :> 1 @@ rebuilt :> 2
=============================================================================
