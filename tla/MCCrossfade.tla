---------------------------- MODULE MCCrossfade ----------------------------
(* Queues of three tracks for TLC.  The last is longer than the crossfade  *)
(* lane, unless it is the short one of CrossfadeShortLast.cfg.             *)
EXTENDS Crossfade
MCLengths == <<10, 12, 13>>
MCShortLast == <<10, 12, 9>>
MCPlans == {<<2, 2>>, <<0, 0>>}
MCFades == {<<2, 2>>}
MCGaplessFirst == {<<0, 2>>}
=============================================================================
