---------------------------- MODULE MCRangeReader ----------------------------
(* A file of five bytes, replaced by one of the same size and by a longer    *)
(* one; blocks of two bytes, two slots, a prefix of one block.               *)
EXTENDS RangeReader

FiveFiveSix == <<5, 5, 6>>
Ours == [etags |-> TRUE, totals |-> TRUE, strays |-> FALSE]
AllServers == {Ours, [Ours EXCEPT !.strays = TRUE], [Ours EXCEPT !.totals = FALSE],
               [Ours EXCEPT !.etags = FALSE]}
OnlyOurs == {Ours}
Careless == {[Ours EXCEPT !.totals = FALSE, !.strays = TRUE]}
==============================================================================
