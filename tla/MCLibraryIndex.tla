--------------------------- MODULE MCLibraryIndex ---------------------------
(* Small instances of LibraryIndex for TLC: two or three places, manifests *)
(* of two releases, and the contents each place may hold in each run.      *)
EXTENDS LibraryIndex, TLC

CONSTANTS p1, p2, p3, m1, m1b, m2, m3, bad, f1, f2, f3, r1, r2

\* m1 and m1b are one content formatted twice, m2 is a rival of the same
\* release with other content, m3 is another release.
MCFingerprintOf == (m1 :> f1) @@ (m1b :> f1) @@ (m2 :> f2) @@ (m3 :> f3)
MCReleaseOf == (f1 :> r1) @@ (f2 :> r1) @@ (f3 :> r2)

Holding(text, objects) == [text |-> text, objects |-> objects]

\* A place always holds one content, sound or damaged: packages are never
\* edited in place.  p1 and p3 hold mirrors, p2 their rival.
StablePlaces ==
  (p1 :> {Holding(m1b, "intact"), Holding(m1, "damaged"), Holding(bad, "intact")}) @@
  (p2 :> {Holding(m2, "extra")}) @@
  (p3 :> {Holding(m1b, "intact")})

\* The rival may lose an object.
RivalLosesObject ==
  (p1 :> {Holding(m1, "intact")}) @@
  (p2 :> {Holding(m2, "intact"), Holding(m2, "missing")})

\* A package may lose an alternate representation.
LosesAlternate == (p1 :> {Holding(m1, "intact"), Holding(m1, "altmissing")})

\* Two intact rivals, or a single package that may be damaged.
TwoRivals == (p1 :> {Holding(m1, "intact")}) @@ (p2 :> {Holding(m2, "intact")})
OneDamaged == (p1 :> {Holding(m1, "intact"), Holding(m1, "damaged")})
OneReplaced == (p1 :> {Holding(m1, "intact"), Holding(m3, "intact")})
=============================================================================
