--------------------------- MODULE MCReleaseContent ---------------------------
(* Small instances of ReleaseContent for TLC.                              *)
EXTENDS ReleaseContent

Places == {<<1, 1>>, <<1, 2>>, <<2, 1>>}
Shas == {"a", "b"}

\* The orders in which up to three tracks can be listed, disc after disc.
Layouts ==
  {s \in UNION {[1 .. n -> Places] : n \in 1 .. 3} :
     /\ \A i, j \in DOMAIN s : s[i] = s[j] => i = j
     /\ ~(Len(s) = 3 /\ s[1][1] = s[3][1] /\ s[2][1] # s[1][1])}

Rep(path, sha) == [path |-> path, sha |-> sha]

\* What the first and the last of the tracks have as representations.
RepsFor(kind, i, n) ==
  CASE kind = "plain" -> <<>>
    [] kind = "first" /\ i = 1 -> <<Rep("p", "x"), Rep("q", "x")>>
    [] kind = "last" /\ i = n -> <<Rep("q", "y"), Rep("p", "x")>>
    [] OTHER -> <<>>
AssetsFor(kind) ==
  CASE kind = "plain" -> <<>>
    [] kind = "first" -> <<[key |-> "front", sha |-> "x"]>>
    [] kind = "last" -> <<[key |-> "booklet", sha |-> "x"], [key |-> "front", sha |-> "y"]>>

Manifest(layout, shas, kind) ==
  [tracks |-> [i \in DOMAIN layout |->
                 [disc |-> layout[i][1], number |-> layout[i][2], sha |-> shas[i],
                  waveform |-> kind = "first" /\ i = 1,
                  reps |-> RepsFor(kind, i, Len(layout))]],
   assets |-> AssetsFor(kind)]

Family ==
  {Manifest(l, shas, kind) : <<l, shas, kind>> \in
     UNION {{l} \X [DOMAIN l -> Shas] \X {"plain", "first", "last"} : l \in Layouts}}

\* One release takes any manifest, another keeps to two of them.
OneVaries ==
  [r \in Releases |-> IF r = 1 THEN Family
     ELSE {Manifest(<<<<1, 1>>>>, <<"a">>, "first"), Manifest(<<<<2, 1>>, <<1, 1>>>>, <<"b", "a">>, "last")}]
=============================================================================
