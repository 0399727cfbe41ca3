--------------------------- MODULE MC_ImageCheck ---------------------------
(* Two pods that share an image, for two destinations. *)
EXTENDS ImageCheck

CONSTANTS n1, n2, i1, i2

TwoPods == {[images |-> {i1, i2}, node |-> n1], [images |-> {i1}, node |-> n2]}
=============================================================================
