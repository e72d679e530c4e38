------------------------- MODULE ReleaseContentProofs -------------------------
(* Theorems about ReleaseContent, for any releases and any manifests that    *)
(* the reader of manifests admits.                                           *)
EXTENDS ReleaseContent, FiniteSetTheorems, WellFoundedInduction, TLAPS

(* ---- tables that are well kept ------------------------------------------- *)
Bounded(table) == \E n \in Nat : \A row \in table : row.id \in Nat /\ row.id <= n
Ident(table) == \A a, b \in table : a.id = b.id => a = b

(* The columns of the tables.                                                *)
IsMedium(x) == x = [id |-> x.id, release |-> x.release, disc |-> x.disc]
IsTrack(t) == t = [id |-> t.id, media |-> t.media, number |-> t.number, sha |-> t.sha,
                   waveform |-> t.waveform]
IsVariant(v) == v = [id |-> v.id, track |-> v.track, path |-> v.path, sha |-> v.sha]
IsAsset(a) == a = [id |-> a.id, release |-> a.release, key |-> a.key, sha |-> a.sha]
Shaped(db) ==
  /\ db = [media |-> db.media, tracks |-> db.tracks, variants |-> db.variants,
           assets |-> db.assets]
  /\ \A x \in db.media : IsMedium(x)
  /\ \A t \in db.tracks : IsTrack(t)
  /\ \A v \in db.variants : IsVariant(v)
  /\ \A a \in db.assets : IsAsset(a)

(* Ids identify rows, so do the natural keys, and every reference is to a    *)
(* row.                                                                      *)
KeptMedia(db) ==
  /\ Bounded(db.media) /\ Ident(db.media)
  /\ \A x, y \in db.media : x.release = y.release /\ x.disc = y.disc => x = y
KeptTracks(db) ==
  /\ Bounded(db.tracks) /\ Ident(db.tracks)
  /\ \A t \in db.tracks : \E x \in db.media : x.id = t.media
KeptVariants(db) ==
  /\ \A v \in db.variants : \E t \in db.tracks : t.id = v.track
  /\ \A v, w \in db.variants : v.track = w.track /\ v.path = w.path => v = w
KeptAssets(db) ==
  /\ Bounded(db.assets) /\ Ident(db.assets)
  /\ \A a, b \in db.assets : a.release = b.release /\ a.key = b.key => a = b
Kept(db) == Shaped(db) /\ KeptMedia(db) /\ KeptTracks(db) /\ KeptVariants(db) /\ KeptAssets(db)

Same(db, base, rel) ==
  /\ MediaOf(db, rel) = MediaOf(base, rel)
  /\ TracksOf(db, rel) = TracksOf(base, rel)
  /\ VariantsOf(db, rel) = VariantsOf(base, rel)
  /\ AssetsOf(db, rel) = AssetsOf(base, rel)

Below(db, id) == {v \in db.variants : v.track = id}
Shows(db, t, e) ==
  /\ \E x \in db.media : x.id = t.media /\ x.disc = e.disc
  /\ t.number = e.number /\ t.sha = e.sha /\ t.waveform = e.waveform
  /\ {[path |-> v.path, sha |-> v.sha] : v \in Below(db, t.id)} = Listing(e.reps)

Filled(db, rel, out, m, n) ==
  LET written == {t \in TracksOf(db, rel) : t.id \notin out} IN
  /\ \A t \in written : \E j \in 1 .. n : Shows(db, t, m.tracks[j])
  /\ \A j \in 1 .. n : \E t \in written :
       /\ Shows(db, t, m.tracks[j])
       /\ \A u \in written : Shows(db, u, m.tracks[j]) => u = t

OnDiscs(db, rel, m) == {x.disc : x \in MediaOf(db, rel)} = DiscsOf(m)
Holds(a, e) == a.key = e.key /\ a.sha = e.sha
Decked(db, rel, m) ==
  /\ \A a \in AssetsOf(db, rel) : \E j \in DOMAIN m.assets : Holds(a, m.assets[j])
  /\ \A j \in DOMAIN m.assets : \E a \in AssetsOf(db, rel) : Holds(a, m.assets[j])

Whole(db, rel, m) ==
  /\ Filled(db, rel, {}, m, Len(m.tracks))
  /\ OnDiscs(db, rel, m)
  /\ Decked(db, rel, m)

(* ---- the invariant -------------------------------------------------------- *)
(* What is committed is well kept and mirrors the manifests committed.       *)
StoredWell ==
  /\ Kept(stored)
  /\ DOMAIN current = Releases
  /\ \A rel \in Releases : Admissible(current[rel]) /\ Whole(stored, rel, current[rel])

(* While a transaction is open its tables are well kept too, and those of    *)
(* the other releases are what is committed.                                 *)
TxnShaped ==
  txn = [step |-> txn.step, i |-> txn.i, release |-> txn.release, manifest |-> txn.manifest,
         old |-> txn.old, variants |-> txn.variants, assets |-> txn.assets]
Opened ==
  /\ TxnShaped
  /\ txn.i \in Nat \ {0}
  /\ txn.release \in Releases /\ txn.manifest \in Manifests[txn.release]
  /\ txn.variants = VariantsOf(stored, txn.release)
  /\ txn.assets = AssetsOf(stored, txn.release)
  /\ Kept(rows)
  /\ \A rel \in Releases \ {txn.release} : Same(rows, stored, rel)

(* The rows written so far continue the rows that are committed.             *)
SoleIn(m, sha) == Cardinality(HoldersOf(m, sha)) = 1
Follows(db, base, rel, before, after) ==
  /\ \A a \in TracksOf(base, rel), b \in TracksOf(db, rel) :
       /\ a.sha = b.sha /\ SoleIn(before, a.sha) /\ SoleIn(after, a.sha) => a.id = b.id
       /\ a.id = b.id => a.sha = b.sha
  /\ \A v \in VariantsOf(base, rel), w \in VariantsOf(db, rel) :
       v.track = w.track /\ v.path = w.path => v.id = w.id
  /\ \A a \in AssetsOf(base, rel), b \in AssetsOf(db, rel) : a.key = b.key <=> a.id = b.id
Follow == Follows(rows, stored, txn.release, current[txn.release], txn.manifest)

(* Step by step: the discs gone through have media, the tracks gone through  *)
(* have the rows of the release that no longer wait for a match, and the     *)
(* assets gone through have theirs.                                          *)
HaveMedia(n) ==
  \A j \in 1 .. n : \E x \in MediaOf(rows, txn.release) : x.disc = txn.manifest.tracks[j].disc
InMedia ==
  /\ InStep("media") /\ txn.i <= Len(txn.manifest.tracks) + 1
  /\ rows.tracks = stored.tracks /\ rows.variants = stored.variants
  /\ rows.assets = stored.assets
  /\ TracksOf(rows, txn.release) = TracksOf(stored, txn.release)
  /\ txn.old = Snapshot(stored, txn.release)
  /\ HaveMedia(txn.i - 1)

Out == {r.id : r \in txn.old}
Waiting ==
  /\ txn.old \subseteq Snapshot(stored, txn.release)
  /\ \A t \in TracksOf(stored, txn.release) : t.id \in Out =>
       /\ t \in TracksOf(rows, txn.release)
       /\ Below(rows, t.id) = Below(stored, t.id)
  /\ \A t \in TracksOf(stored, txn.release) :
       /\ \E u \in rows.tracks : u.id = t.id
       /\ t.id \in Out \/ \E j \in 1 .. txn.i - 1 : txn.manifest.tracks[j].sha = t.sha
InTracks ==
  /\ InStep("tracks") /\ txn.i <= Len(txn.manifest.tracks) + 1
  /\ rows.assets = stored.assets
  /\ HaveMedia(Len(txn.manifest.tracks))
  /\ Waiting
  /\ Filled(rows, txn.release, Out, txn.manifest, txn.i - 1)

AllTracks == Filled(rows, txn.release, {}, txn.manifest, Len(txn.manifest.tracks))
InShells ==
  /\ InStep("shells")
  /\ rows.assets = stored.assets
  /\ HaveMedia(Len(txn.manifest.tracks))
  /\ AllTracks

Done(a) == \E j \in 1 .. txn.i - 1 : a.key = txn.manifest.assets[j].key
InAssets ==
  /\ InStep("assets") /\ txn.i <= Len(txn.manifest.assets) + 1
  /\ AllTracks /\ OnDiscs(rows, txn.release, txn.manifest)
  /\ \A a \in AssetsOf(rows, txn.release) :
       \/ \E j \in 1 .. txn.i - 1 : Holds(a, txn.manifest.assets[j])
       \/ a \in txn.assets /\ ~Done(a)
  /\ \A j \in 1 .. txn.i - 1 : \E a \in AssetsOf(rows, txn.release) :
       Holds(a, txn.manifest.assets[j])
  /\ \A a \in txn.assets :
       /\ ~Done(a) => a \in AssetsOf(rows, txn.release)
       /\ \E b \in AssetsOf(rows, txn.release) : b.id = a.id

InCommit ==
  /\ InStep("commit")
  /\ Whole(rows, txn.release, txn.manifest)

IInv ==
  /\ StoredWell
  /\ \/ txn = Closed /\ rows = stored
     \/ Opened /\ Follow /\ (InMedia \/ InTracks \/ InShells \/ InAssets \/ InCommit)

-----------------------------------------------------------------------------
(* A set of natural numbers that is bounded and not empty has a greatest     *)
(* element.                                                                  *)
LEMMA GreatestExists ==
  ASSUME NEW S \in SUBSET Nat, S # {}, NEW n \in Nat, \A s \in S : s <= n
  PROVE  \E g \in S : \A s \in S : s <= g
<1> DEFINE Bounds == {b \in Nat : \A s \in S : s <= b}
<1>1. PICK b \in Bounds : \A c \in Bounds : ~(<<c, b>> \in OpToRel(<, Nat))
  <2>1. Bounds \subseteq Nat /\ Bounds # {}
    OBVIOUS
  <2> QED
    BY <2>1, NatLessThanWellFounded, WFMin
<1>2. \A c \in Bounds : b <= c
  <2> SUFFICES ASSUME NEW c \in Bounds, c < b PROVE FALSE
    OBVIOUS
  <2>1. <<c, b>> \in OpToRel(<, Nat)
    BY DEF OpToRel
  <2> QED
    BY <2>1, <1>1
<1>3. b \in S
  <2> SUFFICES ASSUME b \notin S PROVE FALSE
    OBVIOUS
  <2>1. \A s \in S : s <= b - 1
    OBVIOUS
  <2>2. b - 1 \in Nat
    <3>1. PICK s \in S : s <= b - 1
      BY <2>1
    <3> QED
      BY <3>1
  <2>3. b - 1 \in Bounds
    BY <2>1, <2>2
  <2> QED
    BY <2>3, <1>2
<1> QED
  BY <1>3

(* A new row's id is above every id in its table.                            *)
LEMMA NewIdIsNew ==
  ASSUME NEW table, Bounded(table)
  PROVE  /\ NewId(table) \in Nat
         /\ \A row \in table : row.id \in Nat /\ row.id < NewId(table)
<1>1. CASE table = {}
  BY <1>1 DEF NewId
<1>2. CASE table # {}
  <2> DEFINE ids == {r.id : r \in table}
  <2>1. PICK n \in Nat : \A row \in table : row.id \in Nat /\ row.id <= n
    BY DEF Bounded
  <2>2. ids \in SUBSET Nat /\ ids # {} /\ \A s \in ids : s <= n
    BY <2>1, <1>2
  <2>3. \E g \in ids : \A s \in ids : s <= g
    BY <2>2, GreatestExists
  <2>4. \E g \in ids : \A row \in table : row.id <= g
    BY <2>3
  <2> DEFINE top == CHOOSE i \in ids : \A r \in table : r.id <= i
  <2>5. top \in ids /\ \A r \in table : r.id <= top
    BY <2>4
  <2>6. NewId(table) = 1 + top
    BY <1>2 DEF NewId
  <2> HIDE DEF top
  <2> QED
    BY <2>1, <2>2, <2>5, <2>6
<1> QED
  BY <1>1, <1>2
-----------------------------------------------------------------------------
(* The slice a release has in the tables.                                    *)
LEMMA Slices ==
  ASSUME NEW db, NEW rel
  PROVE  /\ \A t : t \in TracksOf(db, rel) <=>
                t \in db.tracks /\ \E x \in db.media : x.release = rel /\ x.id = t.media
         /\ \A v : v \in VariantsOf(db, rel) <=>
                v \in db.variants /\ \E t \in TracksOf(db, rel) : t.id = v.track
  BY DEF TracksOf, VariantsOf, MediaOf

(* A track of a release is under one medium, which is one of the release.    *)
LEMMA UnderOneMedium ==
  ASSUME NEW db, KeptMedia(db), NEW rel, NEW t \in TracksOf(db, rel),
         NEW x \in db.media, x.id = t.media
  PROVE  x \in MediaOf(db, rel)
  BY DEF TracksOf, MediaOf, KeptMedia, Ident

(* No track is one of two releases.                                          *)
LEMMA OfOneRelease ==
  ASSUME NEW db, KeptMedia(db), NEW rel, NEW other,
         NEW t \in TracksOf(db, rel), t \in TracksOf(db, other)
  PROVE  rel = other
  BY DEF TracksOf, MediaOf, KeptMedia, Ident

(* What a row shows depends on the slice of its release only.                *)
LEMMA SameShows ==
  ASSUME NEW db, NEW base, KeptMedia(db), KeptMedia(base), NEW rel,
         MediaOf(db, rel) = MediaOf(base, rel),
         NEW t, t \in TracksOf(db, rel), t \in TracksOf(base, rel),
         Below(db, t.id) = Below(base, t.id), NEW e
  PROVE  Shows(db, t, e) <=> Shows(base, t, e)
<1>1. (\E x \in db.media : x.id = t.media /\ x.disc = e.disc)
        <=> \E x \in MediaOf(db, rel) : x.id = t.media /\ x.disc = e.disc
  BY UnderOneMedium DEF MediaOf
<1>2. (\E x \in base.media : x.id = t.media /\ x.disc = e.disc)
        <=> \E x \in MediaOf(base, rel) : x.id = t.media /\ x.disc = e.disc
  BY UnderOneMedium DEF MediaOf
<1> QED
  BY <1>1, <1>2 DEF Shows

(* What is below a track of a release is in the release's slice.             *)
LEMMA BelowIsOf ==
  ASSUME NEW db, NEW rel, NEW t \in TracksOf(db, rel)
  PROVE  Below(db, t.id) = {v \in VariantsOf(db, rel) : v.track = t.id}
  BY DEF Below, VariantsOf

(* A release whose slice is the same is as whole as it was.                  *)
LEMMA SameIsWhole ==
  ASSUME NEW db, NEW base, KeptMedia(db), KeptMedia(base), NEW rel, Same(db, base, rel),
         NEW m, Whole(base, rel, m)
  PROVE  Whole(db, rel, m)
<1>1. \A t \in TracksOf(base, rel) : \A e : Shows(db, t, e) <=> Shows(base, t, e)
  <2> SUFFICES ASSUME NEW t \in TracksOf(base, rel), NEW e
               PROVE  Shows(db, t, e) <=> Shows(base, t, e)
    OBVIOUS
  <2>1. t \in TracksOf(db, rel) /\ MediaOf(db, rel) = MediaOf(base, rel)
    BY DEF Same
  <2>2. Below(db, t.id) = Below(base, t.id)
    <3>1. Below(db, t.id) = {v \in VariantsOf(db, rel) : v.track = t.id}
      BY <2>1, BelowIsOf
    <3>2. Below(base, t.id) = {v \in VariantsOf(base, rel) : v.track = t.id}
      BY BelowIsOf
    <3>3. VariantsOf(db, rel) = VariantsOf(base, rel)
      BY DEF Same
    <3> QED
      BY <3>1, <3>2, <3>3
  <2> QED
    BY <2>1, <2>2, SameShows
<1>2. TracksOf(db, rel) = TracksOf(base, rel)
  BY DEF Same
<1>3. Filled(db, rel, {}, m, Len(m.tracks))
  <2>1. Filled(base, rel, {}, m, Len(m.tracks))
    BY DEF Whole
  <2> QED
    BY <1>1, <1>2, <2>1 DEF Filled
<1>4. OnDiscs(db, rel, m) /\ Decked(db, rel, m)
  BY DEF Whole, Same, OnDiscs, Decked
<1> QED
  BY <1>3, <1>4 DEF Whole

LEMMA SameTransitive ==
  ASSUME NEW a, NEW b, NEW c, NEW rel, Same(a, b, rel), Same(b, c, rel)
  PROVE  Same(a, c, rel)
  BY DEF Same

-----------------------------------------------------------------------------
(* A medium is added for a disc that has none, and nothing else changes.     *)
LEMMA MediumAdded ==
  ASSUME NEW db, Kept(db), NEW rel, NEW disc, NEW new, new = WithMedium(db, rel, disc)
  PROVE  /\ Kept(new)
         /\ new.tracks = db.tracks /\ new.variants = db.variants /\ new.assets = db.assets
         /\ db.media \subseteq new.media
         /\ TracksOf(new, rel) = TracksOf(db, rel)
         /\ \E x \in MediaOf(new, rel) : x.disc = disc
         /\ \A other : other # rel => Same(new, db, other)
<1> USE DEF Kept
<1>1. CASE \E x \in MediaOf(db, rel) : x.disc = disc
  BY <1>1 DEF WithMedium, Same
<1>2. CASE ~\E x \in MediaOf(db, rel) : x.disc = disc
  <2> DEFINE id == NewId(db.media)
             x == [id |-> id, release |-> rel, disc |-> disc]
  <2>1. Bounded(db.media)
    BY DEF KeptMedia
  <2>2. id \in Nat /\ \A y \in db.media : y.id \in Nat /\ y.id < id
    BY <2>1, NewIdIsNew
  <2>3. new = [db EXCEPT !.media = @ \cup {x}]
    BY <1>2 DEF WithMedium
  <2>4. /\ new = [media |-> new.media, tracks |-> new.tracks, variants |-> new.variants,
                  assets |-> new.assets]
        /\ new.media = db.media \cup {x}
        /\ new.tracks = db.tracks /\ new.variants = db.variants /\ new.assets = db.assets
    BY <2>3 DEF Shaped
  <2>5. x.id = id /\ x.release = rel /\ x.disc = disc /\ IsMedium(x)
    BY DEF IsMedium
  <2> HIDE DEF x, id
  <2>6. Shaped(new)
    BY <2>4, <2>5 DEF Shaped
  <2>7. KeptMedia(new)
    <3>1. Bounded(new.media)
      BY <2>2, <2>4, <2>5 DEF Bounded
    <3>2. Ident(new.media)
      BY <2>2, <2>4, <2>5 DEF Ident, KeptMedia
    <3> QED
      BY <3>1, <3>2, <2>4, <2>5, <1>2 DEF KeptMedia, MediaOf
  <2>8. KeptTracks(new) /\ KeptVariants(new) /\ KeptAssets(new)
    BY <2>4 DEF KeptTracks, KeptVariants, KeptAssets
  <2>9. \A t \in db.tracks : t.media # id
    BY <2>2 DEF KeptTracks
  <2>10. \A other : TracksOf(new, other) = TracksOf(db, other)
    BY <2>4, <2>5, <2>9 DEF TracksOf, MediaOf
  <2>11. \A other : other # rel => MediaOf(new, other) = MediaOf(db, other)
    BY <2>4, <2>5 DEF MediaOf
  <2>12. \A other : VariantsOf(new, other) = VariantsOf(db, other)
                      /\ AssetsOf(new, other) = AssetsOf(db, other)
    BY <2>4, <2>10 DEF VariantsOf, AssetsOf
  <2>13. \E y \in MediaOf(new, rel) : y.disc = disc
    BY <2>4, <2>5 DEF MediaOf
  <2> QED
    BY <2>4, <2>6, <2>7, <2>8, <2>10, <2>11, <2>12, <2>13 DEF Same
<1> QED
  BY <1>1, <1>2

-----------------------------------------------------------------------------
(* Rewriting the representations of a track: afterwards it has one row for   *)
(* each that is listed, rows at a known path keep their id, and the rows of  *)
(* other tracks are untouched.                                               *)
RepsFit(reps) ==
  /\ \A i, j \in DOMAIN reps : reps[i].path = reps[j].path => i = j
  /\ \A i \in DOMAIN reps : reps[i] = [path |-> reps[i].path, sha |-> reps[i].sha]
Knows(known, db, id) ==
  /\ {v \in known : v.track = id} = Below(db, id)
  /\ \A v, w \in Below(db, id) : v.path = w.path => v = w
VariantsPut(db, new, id, reps) ==
  /\ new = [media |-> db.media, tracks |-> db.tracks, variants |-> new.variants,
            assets |-> db.assets]
  /\ {v \in new.variants : v.track # id} = {v \in db.variants : v.track # id}
  /\ \A v \in new.variants : IsVariant(v)
  /\ {[path |-> v.path, sha |-> v.sha] : v \in Below(new, id)} = Listing(reps)
  /\ \A v, w \in Below(new, id) : v.path = w.path => v = w
  /\ \A v \in Below(db, id), w \in Below(new, id) : v.path = w.path => v.id = w.id

LEMMA VariantsWritten ==
  ASSUME NEW db, Shaped(db), NEW id, NEW reps, RepsFit(reps), NEW known, Knows(known, db, id)
  PROVE  VariantsPut(db, WithVariants(db, id, reps, known), id, reps)
<1> SUFFICES ASSUME NEW new, new = WithVariants(db, id, reps, known)
             PROVE  VariantsPut(db, new, id, reps)
  OBVIOUS
<1> USE DEF RepsFit, Knows
<1> DEFINE mine == {v \in known : v.track = id}
           RowAt(path) == {v \in mine : v.path = path}
           fresh == {i \in DOMAIN reps : RowAt(reps[i].path) = {}}
           Earlier(i) == Cardinality({j \in fresh : j < i})
           idOf(i) == IF RowAt(reps[i].path) = {} THEN NewId(db.variants) + Earlier(i)
                      ELSE (CHOOSE v \in RowAt(reps[i].path) : TRUE).id
           row(i) == [id |-> idOf(i), track |-> id, path |-> reps[i].path, sha |-> reps[i].sha]
           updated == UNION {{[v EXCEPT !.sha = reps[i].sha] : v \in RowAt(reps[i].path)} :
                               i \in DOMAIN reps}
           inserted == {[id |-> NewId(db.variants) + Earlier(i), track |-> id,
                         path |-> reps[i].path, sha |-> reps[i].sha] : i \in fresh}
<1>1. new = [db EXCEPT !.variants = (@ \ mine) \cup updated \cup inserted]
  BY DEF WithVariants
<1>2. /\ new = [media |-> db.media, tracks |-> db.tracks, variants |-> new.variants,
                assets |-> db.assets]
      /\ new.variants = (db.variants \ mine) \cup updated \cup inserted
  <2> HIDE DEF mine, updated, inserted
  <2> QED
    BY <1>1 DEF Shaped
<1>3. \A v \in mine : v \in db.variants /\ v.track = id /\ IsVariant(v)
  BY DEF Below, Shaped
<1>4. updated = {row(i) : i \in DOMAIN reps \ fresh}
  <2>1. ASSUME NEW i \in DOMAIN reps, NEW v \in RowAt(reps[i].path)
        PROVE  [v EXCEPT !.sha = reps[i].sha] = row(i)
    <3>1. v \in mine /\ v.path = reps[i].path
      OBVIOUS
    <3>2. (CHOOSE w \in RowAt(reps[i].path) : TRUE) = v
      <4>1. (CHOOSE w \in RowAt(reps[i].path) : TRUE) \in RowAt(reps[i].path)
        BY <2>1
      <4> QED
        BY <4>1, <3>1
    <3>3. idOf(i) = v.id
      BY <2>1, <3>2
    <3>4. v = [id |-> v.id, track |-> id, path |-> reps[i].path, sha |-> v.sha]
      BY <3>1, <1>3 DEF IsVariant
    <3> HIDE DEF idOf
    <3> QED
      BY <3>3, <3>4
  <2>2. \A i \in DOMAIN reps : i \notin fresh <=> RowAt(reps[i].path) # {}
    OBVIOUS
  <2> HIDE DEF row, fresh, RowAt
  <2> QED
    BY <2>1, <2>2
<1>5. inserted = {row(i) : i \in fresh}
  <2>1. \A i \in fresh : idOf(i) = NewId(db.variants) + Earlier(i)
    OBVIOUS
  <2> HIDE DEF idOf, fresh, Earlier
  <2> QED
    BY <2>1
<1>6. new.variants = {v \in db.variants : v.track # id} \cup {row(i) : i \in DOMAIN reps}
  <2>1. db.variants \ mine = {v \in db.variants : v.track # id}
    BY DEF Below
  <2>2. fresh \subseteq DOMAIN reps
    OBVIOUS
  <2> HIDE DEF mine, updated, inserted, row, fresh
  <2> QED
    BY <2>1, <2>2, <1>2, <1>4, <1>5
<1>7. \A v \in mine : \A i \in DOMAIN reps : v.path = reps[i].path => idOf(i) = v.id
  <2> SUFFICES ASSUME NEW v \in mine, NEW i \in DOMAIN reps, v.path = reps[i].path
               PROVE  idOf(i) = v.id
    OBVIOUS
  <2>1. v \in RowAt(reps[i].path)
    OBVIOUS
  <2>2. (CHOOSE w \in RowAt(reps[i].path) : TRUE) \in RowAt(reps[i].path)
    BY <2>1
  <2>3. (CHOOSE w \in RowAt(reps[i].path) : TRUE) = v
    BY <2>1, <2>2
  <2> QED
    BY <2>1, <2>3
<1> HIDE DEF idOf
<1>8. Below(new, id) = {row(i) : i \in DOMAIN reps}
  BY <1>6 DEF Below
<1>9. {v \in new.variants : v.track # id} = {v \in db.variants : v.track # id}
  BY <1>6
<1>10. \A v \in new.variants : IsVariant(v)
  BY <1>6 DEF IsVariant, Shaped
<1>11. {[path |-> v.path, sha |-> v.sha] : v \in Below(new, id)} = Listing(reps)
  <2>1. \A i \in DOMAIN reps : [path |-> row(i).path, sha |-> row(i).sha] = reps[i]
    OBVIOUS
  <2> HIDE DEF row
  <2> QED
    BY <2>1, <1>8 DEF Listing
<1>12. \A v, w \in Below(new, id) : v.path = w.path => v = w
  BY <1>8
<1>13. \A v \in Below(db, id), w \in Below(new, id) : v.path = w.path => v.id = w.id
  <2>2. mine = Below(db, id)
    OBVIOUS
  <2> HIDE DEF mine
  <2> QED
    BY <2>2, <1>7, <1>8
<1> HIDE DEF mine, row
<1> QED
  BY <1>2, <1>9, <1>10, <1>11, <1>12, <1>13 DEF VariantsPut

-----------------------------------------------------------------------------
(* A track is written: the row takes the place of the one with its id, if    *)
(* there is one, under a medium of the release, and its representations are  *)
(* rewritten.                                                                *)
TrackPut(db, new, rel, row, gone, track) ==
  /\ new = [media |-> db.media, tracks |-> new.tracks, variants |-> new.variants,
            assets |-> db.assets]
  /\ new.tracks = (db.tracks \ gone) \cup {row}
  /\ gone \subseteq TracksOf(db, rel)
  /\ \A t \in db.tracks : t.id = row.id <=> t \in gone
  /\ row.id \in Nat /\ IsTrack(row)
  /\ \E x \in MediaOf(db, rel) : x.id = row.media /\ x.disc = track.disc
  /\ row.number = track.number /\ row.sha = track.sha /\ row.waveform = track.waveform
  /\ {v \in new.variants : v.track # row.id} = {v \in db.variants : v.track # row.id}
  /\ \A v \in new.variants : IsVariant(v)
  /\ {[path |-> v.path, sha |-> v.sha] : v \in Below(new, row.id)} = Listing(track.reps)
  /\ \A v, w \in Below(new, row.id) : v.path = w.path => v = w

LEMMA TrackPutKeeps ==
  ASSUME NEW db, Kept(db), NEW new, NEW rel, NEW row, NEW gone, NEW track,
         TrackPut(db, new, rel, row, gone, track)
  PROVE  /\ Kept(new)
         /\ MediaOf(new, rel) = MediaOf(db, rel)
         /\ \A other : other # rel => Same(new, db, other)
         /\ TracksOf(new, rel) = (TracksOf(db, rel) \ gone) \cup {row}
         /\ Shows(new, row, track)
         /\ \A t \in TracksOf(db, rel) \ gone :
              /\ Below(new, t.id) = Below(db, t.id)
              /\ \A e : Shows(new, t, e) <=> Shows(db, t, e)
<1>1. /\ new = [media |-> new.media, tracks |-> new.tracks, variants |-> new.variants,
                assets |-> new.assets]
      /\ new.media = db.media /\ new.assets = db.assets
      /\ new.tracks = (db.tracks \ gone) \cup {row}
  BY DEF TrackPut
<1>2. /\ {v \in new.variants : v.track # row.id} = {v \in db.variants : v.track # row.id}
      /\ \A t \in db.tracks : t.id = row.id <=> t \in gone
      /\ gone \subseteq TracksOf(db, rel) /\ row.id \in Nat
  BY DEF TrackPut
<1>3. PICK x \in MediaOf(db, rel) : x.id = row.media /\ x.disc = track.disc
  BY DEF TrackPut
<1>4. \A v : v \in new.variants /\ v.track # row.id <=> v \in db.variants /\ v.track # row.id
  BY <1>2
<1>5. Shaped(new)
  <2>1. IsTrack(row) /\ \A v \in new.variants : IsVariant(v)
    BY DEF TrackPut
  <2> QED
    BY <2>1, <1>1 DEF Kept, Shaped
<1>6. KeptMedia(new) /\ KeptAssets(new)
  BY <1>1 DEF Kept, KeptMedia, KeptAssets
<1>7. KeptTracks(new)
  <2>1. Bounded(new.tracks)
    <3>1. PICK n \in Nat : \A t \in db.tracks : t.id \in Nat /\ t.id <= n
      BY DEF Kept, KeptTracks, Bounded
    <3>2. CASE row.id <= n
      BY <3>1, <3>2, <1>1, <1>2 DEF Bounded
    <3>3. CASE ~(row.id <= n)
      BY <3>1, <3>3, <1>1, <1>2 DEF Bounded
    <3> QED
      BY <3>2, <3>3
  <2>2. Ident(new.tracks)
    BY <1>1, <1>2 DEF Ident, Kept, KeptTracks
  <2>3. \A t \in new.tracks : \E y \in new.media : y.id = t.media
    BY <1>1, <1>3 DEF Kept, KeptTracks, MediaOf
  <2> QED
    BY <2>1, <2>2, <2>3 DEF KeptTracks
<1>8. KeptVariants(new)
  <2>1. \A v \in new.variants : \E t \in new.tracks : t.id = v.track
    BY <1>1, <1>2, <1>4 DEF Kept, KeptVariants
  <2>2. ASSUME NEW v \in new.variants, NEW w \in new.variants, v.track = w.track, v.path = w.path
        PROVE  v = w
    <3>1. CASE v.track = row.id
      BY <3>1, <2>2 DEF TrackPut, Below
    <3>2. CASE v.track # row.id
      BY <3>2, <2>2, <1>4 DEF Kept, KeptVariants
    <3> QED
      BY <3>1, <3>2
  <2> QED
    BY <2>1, <2>2 DEF KeptVariants
<1>9. \A other : MediaOf(new, other) = MediaOf(db, other) /\ AssetsOf(new, other) = AssetsOf(db, other)
  BY <1>1 DEF MediaOf, AssetsOf
<1>10. TracksOf(new, rel) = (TracksOf(db, rel) \ gone) \cup {row}
  BY <1>1, <1>3, <1>9 DEF TracksOf
<1>11. \A t \in db.tracks \ gone : Below(new, t.id) = Below(db, t.id)
  BY <1>2, <1>4 DEF Below
<1>12. ASSUME NEW t \in TracksOf(db, rel) \ gone, NEW e
       PROVE  Shows(new, t, e) <=> Shows(db, t, e)
  <2>1. t \in TracksOf(new, rel) /\ t \in TracksOf(db, rel) /\ t \in db.tracks \ gone
    BY <1>10 DEF TracksOf
  <2>2. KeptMedia(db) /\ MediaOf(new, rel) = MediaOf(db, rel)
    BY <1>9 DEF Kept
  <2> QED
    BY <2>1, <2>2, <1>6, <1>11, SameShows
<1>13. ASSUME NEW other, other # rel
       PROVE  Same(new, db, other)
  <2>1. \A t \in gone : t \notin TracksOf(db, other)
    BY <1>2, <1>13, OfOneRelease DEF Kept
  <2>2. row.media \notin {y.id : y \in MediaOf(db, other)}
    BY <1>3, <1>13 DEF MediaOf, Kept, KeptMedia, Ident
  <2>3. TracksOf(new, other) = TracksOf(db, other)
    BY <2>1, <2>2, <1>1, <1>9 DEF TracksOf
  <2>4. \A t \in TracksOf(db, other) : t.id # row.id
    BY <2>1, <1>2 DEF TracksOf
  <2>5. VariantsOf(new, other) = VariantsOf(db, other)
    BY <2>3, <2>4, <1>4 DEF VariantsOf
  <2> QED
    BY <2>3, <2>5, <1>9 DEF Same
<1>14. Shows(new, row, track)
  <2>1. \E y \in new.media : y.id = row.media /\ y.disc = track.disc
    BY <1>1, <1>3 DEF MediaOf
  <2> QED
    BY <2>1 DEF Shows, TrackPut
<1> QED
  BY <1>5, <1>6, <1>7, <1>8, <1>9, <1>10, <1>11, <1>12, <1>13, <1>14 DEF Kept, TracksOf

(* An update in place.                                                       *)
UpdateOf(db, new, rel, track, medium, old, known, row, gone) ==
  /\ old \in TracksOf(db, rel)
  /\ \E x \in MediaOf(db, rel) : x.id = medium /\ x.disc = track.disc
  /\ RepsFit(track.reps) /\ Knows(known, db, old.id)
  /\ new = Updated(db, old.id, medium, track, known)
  /\ row = TrackRow(old.id, medium, track) /\ gone = {old}
KeepsIdsBelow(db, new, id) ==
  \A v \in Below(db, id), w \in Below(new, id) : v.path = w.path => v.id = w.id

LEMMA UpdatePuts ==
  ASSUME NEW db, Kept(db), NEW new, NEW rel, NEW track, NEW medium, NEW old, NEW known,
         NEW row, NEW gone, UpdateOf(db, new, rel, track, medium, old, known, row, gone)
  PROVE  TrackPut(db, new, rel, row, gone, track) /\ KeepsIdsBelow(db, new, old.id)
<1> USE DEF UpdateOf
<1>a. PICK between : between = [db EXCEPT !.tracks = (@ \ {old}) \cup {row}]
  OBVIOUS
<1>b. PICK id, reps : id = old.id /\ reps = track.reps
  OBVIOUS
<1>1. old \in db.tracks /\ Ident(db.tracks)
  BY DEF TracksOf, Kept, KeptTracks
<1>2. (CHOOSE r \in db.tracks : r.id = old.id) = old
  BY <1>1 DEF Ident
<1>3. new = WithVariants(between, old.id, track.reps, known)
  BY <1>a, <1>2 DEF Updated
<1>4. /\ row = [id |-> old.id, media |-> medium, number |-> track.number, sha |-> track.sha,
                waveform |-> track.waveform]
      /\ IsTrack(row)
  BY DEF TrackRow, IsTrack
<1>5. /\ between = [media |-> between.media, tracks |-> between.tracks,
                    variants |-> between.variants, assets |-> between.assets]
      /\ between.media = db.media /\ between.assets = db.assets
      /\ between.variants = db.variants
      /\ between.tracks = (db.tracks \ {old}) \cup {row}
  BY <1>a DEF Kept, Shaped
<1>6. Shaped(between)
  BY <1>4, <1>5 DEF Kept, Shaped
<1>7. Below(between, old.id) = Below(db, old.id)
  BY <1>5 DEF Below
<1>9. /\ new = [media |-> between.media, tracks |-> between.tracks, variants |-> new.variants,
                assets |-> between.assets]
      /\ {v \in new.variants : v.track # id} = {v \in between.variants : v.track # id}
      /\ \A v \in new.variants : IsVariant(v)
      /\ {[path |-> v.path, sha |-> v.sha] : v \in Below(new, id)} = Listing(reps)
      /\ \A v, w \in Below(new, id) : v.path = w.path => v = w
      /\ \A v \in Below(between, id), w \in Below(new, id) : v.path = w.path => v.id = w.id
  <2>1. Knows(known, between, id) /\ RepsFit(reps) /\ new = WithVariants(between, id, reps, known)
    BY <1>3, <1>7, <1>b DEF Knows
  <2>2. VariantsPut(between, new, id, reps)
    BY <2>1, <1>6, VariantsWritten
  <2> QED
    BY <2>2 DEF VariantsPut
<1>10. old.id \in Nat
  BY <1>1 DEF Kept, KeptTracks, Bounded
<1>11. \A t \in db.tracks : t.id = row.id <=> t \in {old}
  BY <1>1, <1>4 DEF Ident
<1>12. row.id = old.id /\ row.media = medium /\ row.number = track.number
       /\ row.sha = track.sha /\ row.waveform = track.waveform
  BY <1>4
<1>13. /\ new = [media |-> db.media, tracks |-> new.tracks, variants |-> new.variants,
                 assets |-> db.assets]
       /\ new.tracks = (db.tracks \ {old}) \cup {row}
  BY <1>5, <1>9
<1>14. TrackPut(db, new, rel, row, gone, track)
  BY <1>b, <1>4, <1>5, <1>9, <1>10, <1>11, <1>12, <1>13 DEF TrackPut
<1>15. KeepsIdsBelow(db, new, old.id)
  BY <1>b, <1>7, <1>9 DEF KeepsIdsBelow
<1> QED
  BY <1>14, <1>15

(* An insertion under a new id.                                              *)
LEMMA InsertPuts ==
  ASSUME NEW db, Kept(db), NEW rel, NEW track, NEW medium, NEW id, id = NewId(db.tracks),
         NEW x \in MediaOf(db, rel), x.id = medium, x.disc = track.disc,
         RepsFit(track.reps),
         NEW new, new = Inserted(db, id, medium, track)
  PROVE  /\ TrackPut(db, new, rel, TrackRow(id, medium, track), {}, track)
         /\ \A t \in db.tracks : t.id # id
<1> DEFINE row == TrackRow(id, medium, track)
<1>a. PICK between : between = [db EXCEPT !.tracks = @ \cup {row}]
  OBVIOUS
<1>b. PICK reps : reps = track.reps
  OBVIOUS
<1>1. id \in Nat /\ \A t \in db.tracks : t.id \in Nat /\ t.id < id
  BY NewIdIsNew DEF Kept, KeptTracks
<1>2. \A t \in db.tracks : t.id # id
  BY <1>1
<1>3. new = WithVariants(between, id, track.reps, {})
  BY <1>a DEF Inserted
<1>4. /\ row = [id |-> id, media |-> medium, number |-> track.number, sha |-> track.sha,
                waveform |-> track.waveform]
      /\ IsTrack(row)
  BY DEF TrackRow, IsTrack
<1> HIDE DEF row
<1>5. /\ between = [media |-> between.media, tracks |-> between.tracks,
                    variants |-> between.variants, assets |-> between.assets]
      /\ between.media = db.media /\ between.assets = db.assets
      /\ between.variants = db.variants
      /\ between.tracks = db.tracks \cup {row}
  BY <1>a DEF Kept, Shaped
<1>6. Shaped(between)
  BY <1>4, <1>5 DEF Kept, Shaped
<1>7. Below(between, id) = {}
  BY <1>2, <1>5 DEF Below, Kept, KeptVariants
<1>8. Knows({}, between, id)
  BY <1>7 DEF Knows
<1>9. /\ new = [media |-> between.media, tracks |-> between.tracks, variants |-> new.variants,
                assets |-> between.assets]
      /\ {v \in new.variants : v.track # id} = {v \in between.variants : v.track # id}
      /\ \A v \in new.variants : IsVariant(v)
      /\ {[path |-> v.path, sha |-> v.sha] : v \in Below(new, id)} = Listing(reps)
      /\ \A v, w \in Below(new, id) : v.path = w.path => v = w
  <2>1. RepsFit(reps) /\ new = WithVariants(between, id, reps, {})
    BY <1>3, <1>b
  <2>2. VariantsPut(between, new, id, reps)
    BY <2>1, <1>6, <1>8, VariantsWritten
  <2> QED
    BY <2>2 DEF VariantsPut
<1>12. row.id = id /\ row.media = medium /\ row.number = track.number
       /\ row.sha = track.sha /\ row.waveform = track.waveform
  BY <1>4
<1>13. /\ new = [media |-> db.media, tracks |-> new.tracks, variants |-> new.variants,
                 assets |-> db.assets]
       /\ new.tracks = (db.tracks \ {}) \cup {row}
  BY <1>5, <1>9
<1>14. TrackPut(db, new, rel, row, {}, track)
  BY <1>b, <1>1, <1>2, <1>4, <1>5, <1>9, <1>12, <1>13 DEF TrackPut
<1> QED
  BY <1>2, <1>14 DEF row

-----------------------------------------------------------------------------
(* Deleting tracks of a release takes their representations along and leaves *)
(* the others as they were.                                                  *)
LEMMA TracksDropped ==
  ASSUME NEW db, Kept(db), NEW rel, NEW gone, gone \subseteq TracksOf(db, rel),
         NEW new, new = WithoutTracks(db, gone)
  PROVE  /\ Kept(new)
         /\ MediaOf(new, rel) = MediaOf(db, rel) /\ new.assets = db.assets
         /\ \A other : other # rel => Same(new, db, other)
         /\ TracksOf(new, rel) = TracksOf(db, rel) \ gone
         /\ \A v \in new.variants : v \in db.variants
         /\ \A t \in TracksOf(new, rel) : \A e : Shows(new, t, e) <=> Shows(db, t, e)
<1>1. /\ new = [media |-> new.media, tracks |-> new.tracks, variants |-> new.variants,
                assets |-> new.assets]
      /\ new.media = db.media /\ new.assets = db.assets
      /\ new.tracks = db.tracks \ gone
      /\ new.variants = {v \in db.variants : v.track \notin {t.id : t \in gone}}
  BY DEF WithoutTracks, Kept, Shaped
<1>2. gone \subseteq db.tracks
  BY DEF TracksOf
<1>3. \A t \in db.tracks \ gone : t.id \notin {g.id : g \in gone}
  BY <1>2 DEF Kept, KeptTracks, Ident
<1>4. Shaped(new) /\ KeptMedia(new) /\ KeptAssets(new)
  BY <1>1 DEF Kept, Shaped, KeptMedia, KeptAssets
<1>5. KeptTracks(new)
  <2>1. Bounded(new.tracks)
    BY <1>1 DEF Kept, KeptTracks, Bounded
  <2> QED
    BY <2>1, <1>1 DEF Kept, KeptTracks, Ident
<1>6. KeptVariants(new)
  BY <1>1 DEF Kept, KeptVariants
<1>7. \A t \in new.tracks : Below(new, t.id) = Below(db, t.id)
  BY <1>1, <1>3 DEF Below
<1>8. \A other : MediaOf(new, other) = MediaOf(db, other) /\ AssetsOf(new, other) = AssetsOf(db, other)
  BY <1>1 DEF MediaOf, AssetsOf
<1>9. TracksOf(new, rel) = TracksOf(db, rel) \ gone
  BY <1>1, <1>8 DEF TracksOf
<1>10. ASSUME NEW other, other # rel
       PROVE  Same(new, db, other)
  <2>1. \A t \in gone : t \notin TracksOf(db, other)
    BY <1>10, OfOneRelease DEF Kept
  <2>2. TracksOf(new, other) = TracksOf(db, other)
    BY <2>1, <1>1, <1>8 DEF TracksOf
  <2>3. \A t \in TracksOf(db, other) : t.id \notin {g.id : g \in gone}
    BY <2>1, <1>3 DEF TracksOf
  <2>4. VariantsOf(new, other) = VariantsOf(db, other)
    BY <2>2, <2>3, <1>1 DEF VariantsOf
  <2> QED
    BY <2>2, <2>4, <1>8 DEF Same
<1>11. ASSUME NEW t \in TracksOf(new, rel), NEW e
       PROVE  Shows(new, t, e) <=> Shows(db, t, e)
  <2>1. t \in TracksOf(db, rel) /\ t \in new.tracks /\ MediaOf(new, rel) = MediaOf(db, rel)
    BY <1>8, <1>9 DEF TracksOf
  <2>2. KeptMedia(db)
    BY DEF Kept
  <2> QED
    BY <2>1, <2>2, <1>4, <1>7, SameShows
<1> QED
  BY <1>1, <1>4, <1>5, <1>6, <1>8, <1>9, <1>10, <1>11 DEF Kept

(* Deleting media without tracks.                                            *)
Empty(db, gone) == \A t \in db.tracks : \A x \in gone : t.media # x.id

LEMMA MediaDropped ==
  ASSUME NEW db, Kept(db), NEW rel, NEW gone, gone \subseteq MediaOf(db, rel),
         Empty(db, gone), NEW new, new = WithoutMedia(db, gone)
  PROVE  /\ Kept(new)
         /\ new.tracks = db.tracks /\ new.variants = db.variants /\ new.assets = db.assets
         /\ MediaOf(new, rel) = MediaOf(db, rel) \ gone
         /\ \A other : other # rel => Same(new, db, other)
         /\ TracksOf(new, rel) = TracksOf(db, rel)
         /\ \A t \in TracksOf(new, rel) : \A e : Shows(new, t, e) <=> Shows(db, t, e)
<1> USE DEF Empty
<1>1. {t \in db.tracks : t.media \in {m.id : m \in gone}} = {}
  OBVIOUS
<1>2. /\ new = [media |-> new.media, tracks |-> new.tracks, variants |-> new.variants,
                assets |-> new.assets]
      /\ new.media = db.media \ gone
      /\ new.tracks = db.tracks /\ new.variants = db.variants /\ new.assets = db.assets
  <2>1. PICK between : between = WithoutTracks(db, {})
    OBVIOUS
  <2>2. /\ between = [media |-> between.media, tracks |-> between.tracks,
                      variants |-> between.variants, assets |-> between.assets]
        /\ between.media = db.media /\ between.tracks = db.tracks \ {}
        /\ between.variants = {v \in db.variants : v.track \notin {t.id : t \in {}}}
        /\ between.assets = db.assets
    BY <2>1 DEF WithoutTracks, Kept, Shaped
  <2>3. new = [between EXCEPT !.media = @ \ gone]
    BY <1>1, <2>1 DEF WithoutMedia
  <2>4. between.variants = db.variants /\ between.tracks = db.tracks
    BY <2>2
  <2> QED
    BY <2>2, <2>3, <2>4
<1>3. Shaped(new) /\ KeptVariants(new) /\ KeptAssets(new)
  BY <1>2 DEF Kept, Shaped, KeptVariants, KeptAssets
<1>4. KeptMedia(new)
  BY <1>2 DEF Kept, KeptMedia, Bounded, Ident
<1>5. KeptTracks(new)
  BY <1>2 DEF Kept, KeptTracks
<1>6. MediaOf(new, rel) = MediaOf(db, rel) \ gone
  BY <1>2 DEF MediaOf
<1>7. \A other : other # rel => MediaOf(new, other) = MediaOf(db, other)
  BY <1>2 DEF MediaOf
<1>8. \A other : TracksOf(new, other) = TracksOf(db, other)
  BY <1>2 DEF TracksOf, MediaOf
<1>9. \A other : VariantsOf(new, other) = VariantsOf(db, other) /\ AssetsOf(new, other) = AssetsOf(db, other)
  BY <1>2, <1>8 DEF VariantsOf, AssetsOf
<1>10. ASSUME NEW t \in db.tracks, NEW e
       PROVE  Shows(new, t, e) <=> Shows(db, t, e)
  <2>1. (\E x \in new.media : x.id = t.media /\ x.disc = e.disc)
          <=> \E x \in db.media : x.id = t.media /\ x.disc = e.disc
    BY <1>2
  <2>2. Below(new, t.id) = Below(db, t.id)
    BY <1>2 DEF Below
  <2> QED
    BY <2>1, <2>2 DEF Shows
<1>11. \A t \in TracksOf(new, rel) : \A e : Shows(new, t, e) <=> Shows(db, t, e)
  BY <1>2, <1>10 DEF TracksOf
<1> QED
  BY <1>2, <1>3, <1>4, <1>5, <1>6, <1>7, <1>8, <1>9, <1>11 DEF Kept, Same

-----------------------------------------------------------------------------
(* What happens to the assets leaves media and tracks alone.                 *)
LEMMA AssetsApart ==
  ASSUME NEW db, NEW new,
         new.media = db.media, new.tracks = db.tracks, new.variants = db.variants
  PROVE  /\ \A rel : /\ MediaOf(new, rel) = MediaOf(db, rel)
                     /\ TracksOf(new, rel) = TracksOf(db, rel)
                     /\ VariantsOf(new, rel) = VariantsOf(db, rel)
                     /\ \A out, m, n : Filled(new, rel, out, m, n) <=> Filled(db, rel, out, m, n)
                     /\ \A m : OnDiscs(new, rel, m) <=> OnDiscs(db, rel, m)
<1>1. \A rel : MediaOf(new, rel) = MediaOf(db, rel)
  BY DEF MediaOf
<1>2. \A rel : TracksOf(new, rel) = TracksOf(db, rel)
  BY <1>1 DEF TracksOf
<1>3. \A rel : VariantsOf(new, rel) = VariantsOf(db, rel)
  BY <1>2 DEF VariantsOf
<1>4. \A t, e : Shows(new, t, e) <=> Shows(db, t, e)
  BY DEF Shows, Below
<1>5. \A rel, out, m, n : Filled(new, rel, out, m, n) <=> Filled(db, rel, out, m, n)
  BY <1>2, <1>4 DEF Filled
<1>6. \A rel, m : OnDiscs(new, rel, m) <=> OnDiscs(db, rel, m)
  BY <1>1 DEF OnDiscs
<1> QED
  BY <1>1, <1>2, <1>3, <1>5, <1>6

(* An asset is written over the row of its key, or added under a new id.     *)
LEMMA AssetWritten ==
  ASSUME NEW db, Kept(db), NEW rel, NEW asset, NEW old,
         \A a, b \in old : a.key = b.key => a = b,
         \A a \in old : a.key = asset.key => a \in AssetsOf(db, rel),
         \A a \in AssetsOf(db, rel) : a.key = asset.key => a \in old,
         NEW new, new = WithAsset(db, rel, asset, old)
  PROVE  /\ Kept(new)
         /\ new.media = db.media /\ new.tracks = db.tracks /\ new.variants = db.variants
         /\ \A other : other # rel => AssetsOf(new, other) = AssetsOf(db, other)
         /\ \E row :
              /\ Holds(row, asset)
              /\ AssetsOf(new, rel) = {a \in AssetsOf(db, rel) : a.key # asset.key} \cup {row}
              /\ \A a \in old : a.key = asset.key => row.id = a.id
              /\ (\A a \in old : a.key # asset.key) => \A a \in db.assets : a.id # row.id
<1> DEFINE slot == {a \in old : a.key = asset.key}
<1>1. PICK row : /\ new = [media |-> db.media, tracks |-> db.tracks, variants |-> db.variants,
                           assets |-> new.assets]
                 /\ new.assets = (db.assets \ slot) \cup {row}
                 /\ IsAsset(row) /\ row.release = rel /\ Holds(row, asset) /\ row.id \in Nat
                 /\ \A a \in slot : row.id = a.id
                 /\ slot = {} => \A a \in db.assets : a.id # row.id
  <2>1. CASE slot = {}
    <3> DEFINE id == NewId(db.assets)
    <3>1. PICK row : row = [id |-> id, release |-> rel, key |-> asset.key, sha |-> asset.sha]
      OBVIOUS
    <3>2. Bounded(db.assets)
      BY DEF Kept, KeptAssets
    <3>3. id \in Nat /\ \A a \in db.assets : a.id \in Nat /\ a.id < id
      BY <3>2, NewIdIsNew
    <3>4. new = [db EXCEPT !.assets = @ \cup {row}]
      BY <2>1, <3>1 DEF WithAsset
    <3> HIDE DEF id
    <3>5. row.id = id /\ row.release = rel /\ IsAsset(row) /\ Holds(row, asset)
      BY <3>1 DEF IsAsset, Holds
    <3>6. /\ new = [media |-> db.media, tracks |-> db.tracks, variants |-> db.variants,
                    assets |-> new.assets]
          /\ new.assets = db.assets \cup {row}
      BY <3>4 DEF Kept, Shaped
    <3> QED
      BY <2>1, <3>3, <3>5, <3>6
  <2>2. CASE slot # {}
    <3>1. PICK a \in slot : slot = {a}
      BY <2>2
    <3>2. a \in db.assets /\ a.release = rel /\ a.key = asset.key
      BY <3>1 DEF AssetsOf
    <3>3. PICK row : row = [a EXCEPT !.sha = asset.sha]
      OBVIOUS
    <3>4. row = [id |-> a.id, release |-> rel, key |-> asset.key, sha |-> asset.sha]
      <4>1. a = [id |-> a.id, release |-> a.release, key |-> a.key, sha |-> a.sha]
        BY <3>2 DEF Kept, Shaped, IsAsset
      <4> QED
        BY <4>1, <3>2, <3>3
    <3>5. {[b EXCEPT !.sha = asset.sha] : b \in slot} = {row}
      BY <3>1, <3>3
    <3>6. new = [db EXCEPT !.assets = (@ \ slot) \cup {row}]
      BY <2>2, <3>5 DEF WithAsset
    <3>7. row.id = a.id /\ row.release = rel /\ IsAsset(row) /\ Holds(row, asset)
      BY <3>4 DEF IsAsset, Holds
    <3>8. a.id \in Nat
      BY <3>2 DEF Kept, KeptAssets, Bounded
    <3> HIDE DEF slot
    <3>9. /\ new = [media |-> db.media, tracks |-> db.tracks, variants |-> db.variants,
                    assets |-> new.assets]
          /\ new.assets = (db.assets \ slot) \cup {row}
      BY <3>6 DEF Kept, Shaped
    <3> QED
      BY <2>2, <3>1, <3>7, <3>8, <3>9
  <2> QED
    BY <2>1, <2>2
<1>2. \A a \in slot : a \in db.assets /\ a.release = rel /\ a.key = asset.key
  BY DEF AssetsOf
<1>3. \A a \in db.assets : a.release = rel /\ a.key = asset.key => a \in slot
  BY DEF AssetsOf
<1>4. new.media = db.media /\ new.tracks = db.tracks /\ new.variants = db.variants
  BY <1>1
<1>5. row.release = rel /\ row.key = asset.key /\ row.id \in Nat
  BY <1>1 DEF Holds
<1>6. new.assets = (db.assets \ slot) \cup {row}
  BY <1>1
<1>7. \A a \in db.assets \ slot : a.id # row.id
  BY <1>1, <1>2 DEF Kept, KeptAssets, Ident
<1> HIDE DEF slot
<1>8. Shaped(new)
  BY <1>1 DEF Kept, Shaped
<1>9. KeptMedia(new) /\ KeptTracks(new) /\ KeptVariants(new)
  BY <1>4 DEF Kept, KeptMedia, KeptTracks, KeptVariants
<1>10. KeptAssets(new)
  <2>1. Bounded(new.assets)
    <3>1. PICK n \in Nat : \A a \in db.assets : a.id \in Nat /\ a.id <= n
      BY DEF Kept, KeptAssets, Bounded
    <3>2. CASE row.id <= n
      BY <3>1, <3>2, <1>5, <1>6 DEF Bounded
    <3>3. CASE ~(row.id <= n)
      BY <3>1, <3>3, <1>5, <1>6 DEF Bounded
    <3> QED
      BY <3>2, <3>3
  <2>2. Ident(new.assets)
    BY <1>6, <1>7 DEF Kept, KeptAssets, Ident
  <2> QED
    BY <2>1, <2>2, <1>3, <1>5, <1>6 DEF Kept, KeptAssets
<1>11. AssetsOf(new, rel) = {a \in AssetsOf(db, rel) : a.key # asset.key} \cup {row}
  BY <1>2, <1>3, <1>5, <1>6 DEF AssetsOf
<1>12. \A other : other # rel => AssetsOf(new, other) = AssetsOf(db, other)
  BY <1>2, <1>5, <1>6 DEF AssetsOf
<1> QED
  BY <1>1, <1>4, <1>8, <1>9, <1>10, <1>11, <1>12 DEF Kept, slot

(* Deleting assets of a release.                                             *)
OnlyOf(rel, gone) == \A a \in gone : a.release = rel
WithoutAssets(db, gone) == [db EXCEPT !.assets = @ \ gone]

LEMMA AssetsDropped ==
  ASSUME NEW db, Kept(db), NEW rel, NEW gone, OnlyOf(rel, gone),
         NEW new, new = WithoutAssets(db, gone)
  PROVE  /\ Kept(new)
         /\ new.media = db.media /\ new.tracks = db.tracks /\ new.variants = db.variants
         /\ AssetsOf(new, rel) = AssetsOf(db, rel) \ gone
         /\ \A other : other # rel => AssetsOf(new, other) = AssetsOf(db, other)
<1>1. /\ new = [media |-> db.media, tracks |-> db.tracks, variants |-> db.variants,
                assets |-> new.assets]
      /\ new.assets = db.assets \ gone
  BY DEF Kept, Shaped, WithoutAssets
<1>2. new.media = db.media /\ new.tracks = db.tracks /\ new.variants = db.variants
  BY <1>1
<1>3. Shaped(new)
  BY <1>1 DEF Kept, Shaped
<1>4. KeptMedia(new) /\ KeptTracks(new) /\ KeptVariants(new)
  BY <1>2 DEF Kept, KeptMedia, KeptTracks, KeptVariants
<1>5. KeptAssets(new)
  BY <1>1 DEF Kept, KeptAssets, Bounded, Ident
<1> QED
  BY <1>1, <1>2, <1>3, <1>4, <1>5 DEF Kept, AssetsOf, OnlyOf

-----------------------------------------------------------------------------
(* What an admissible manifest offers the steps.                             *)
LEMMA ManifestFits ==
  ASSUME NEW m, Admissible(m)
  PROVE  /\ Len(m.tracks) \in Nat /\ DOMAIN m.tracks = 1 .. Len(m.tracks)
         /\ Len(m.assets) \in Nat /\ DOMAIN m.assets = 1 .. Len(m.assets)
         /\ \A j \in DOMAIN m.tracks : RepsFit(m.tracks[j].reps)
         /\ \A j, k \in DOMAIN m.tracks :
              m.tracks[j].disc = m.tracks[k].disc /\ m.tracks[j].number = m.tracks[k].number => j = k
         /\ \A j, k \in DOMAIN m.assets : m.assets[j].key = m.assets[k].key => j = k
<1>1. Len(m.tracks) \in Nat /\ DOMAIN m.tracks = 1 .. Len(m.tracks)
  BY DEF Admissible, ListOf
<1>2. Len(m.assets) \in Nat /\ DOMAIN m.assets = 1 .. Len(m.assets)
  BY DEF Admissible, ListOf
<1>3. \A j \in DOMAIN m.tracks : m.tracks[j] \in Listing(m.tracks)
  BY DEF Listing
<1>4. ASSUME NEW j \in DOMAIN m.tracks
      PROVE  RepsFit(m.tracks[j].reps)
  <2>1. PICK t : t = m.tracks[j]
    OBVIOUS
  <2>2. t \in Listing(m.tracks)
    BY <2>1, <1>3
  <2>3. \A rep \in Listing(t.reps) : rep = [path |-> rep.path, sha |-> rep.sha]
    BY <2>2 DEF Admissible
  <2>4. \A i \in DOMAIN t.reps : t.reps[i] \in Listing(t.reps)
    BY DEF Listing
  <2>5. \A i, k \in DOMAIN t.reps : t.reps[i].path = t.reps[k].path => i = k
    BY <2>2 DEF Admissible
  <2>6. RepsFit(t.reps)
    BY <2>3, <2>4, <2>5 DEF RepsFit
  <2> QED
    BY <2>1, <2>6
<1>5. /\ \A j, k \in DOMAIN m.tracks :
            m.tracks[j].disc = m.tracks[k].disc /\ m.tracks[j].number = m.tracks[k].number => j = k
      /\ \A j, k \in DOMAIN m.assets : m.assets[j].key = m.assets[k].key => j = k
  BY DEF Admissible
<1> QED
  BY <1>1, <1>2, <1>4, <1>5

(* A row shows at most one entry.                                            *)
LEMMA ShowsOneEntry ==
  ASSUME NEW db, KeptMedia(db), NEW m, Admissible(m), NEW t,
         NEW j \in DOMAIN m.tracks, NEW k \in DOMAIN m.tracks,
         Shows(db, t, m.tracks[j]), Shows(db, t, m.tracks[k])
  PROVE  j = k
<1>1. m.tracks[j].disc = m.tracks[k].disc
  BY DEF Shows, KeptMedia, Ident
<1>2. m.tracks[j].number = m.tracks[k].number
  BY DEF Shows
<1> QED
  BY <1>1, <1>2, ManifestFits

(* The entries of a list are finitely many.                                  *)
LEMMA ListingFinite ==
  ASSUME NEW s, ListOf(s)
  PROVE  IsFiniteSet(Listing(s))
<1>1. s \in Surjection(1 .. Len(s), Listing(s))
  <2>1. DOMAIN s = 1 .. Len(s) /\ s \in [1 .. Len(s) -> Listing(s)]
    BY DEF ListOf
  <2> QED
    BY <2>1 DEF Surjection, Listing
<1>2. Len(s) \in Nat
  BY DEF ListOf
<1>3. IsFiniteSet(1 .. Len(s))
  BY <1>2, FS_Interval
<1> QED
  BY <1>1, <1>3, FS_Surjection

(* Audio that one entry has is listed at one place.                          *)
LEMMA SoleEntry ==
  ASSUME NEW m, Admissible(m), NEW sha, SoleIn(m, sha),
         NEW j \in DOMAIN m.tracks, NEW k \in DOMAIN m.tracks,
         m.tracks[j].sha = sha, m.tracks[k].sha = sha
  PROVE  j = k
<1>1. IsFiniteSet(Listing(m.tracks))
  BY ListingFinite DEF Admissible
<1>2. IsFiniteSet(HoldersOf(m, sha))
  BY <1>1, FS_Subset DEF HoldersOf
<1>3. PICK e : HoldersOf(m, sha) = {e}
  BY <1>2, FS_Singleton DEF SoleIn
<1>4. m.tracks[j] \in HoldersOf(m, sha) /\ m.tracks[k] \in HoldersOf(m, sha)
  BY DEF HoldersOf, Listing
<1>5. m.tracks[j] = m.tracks[k]
  BY <1>3, <1>4
<1> QED
  BY <1>5, ManifestFits

(* Audio that one entry has is in one row.                                   *)
LEMMA SoleRow ==
  ASSUME NEW db, NEW rel, NEW m, Admissible(m), Whole(db, rel, m),
         NEW a \in TracksOf(db, rel), NEW b \in TracksOf(db, rel),
         a.sha = b.sha, SoleIn(m, a.sha)
  PROVE  a = b
<1>1. DOMAIN m.tracks = 1 .. Len(m.tracks)
  BY ManifestFits
<1>2. PICK j \in DOMAIN m.tracks : Shows(db, a, m.tracks[j])
  BY <1>1 DEF Whole, Filled
<1>3. PICK k \in DOMAIN m.tracks : Shows(db, b, m.tracks[k])
  BY <1>1 DEF Whole, Filled
<1>4. m.tracks[j].sha = a.sha /\ m.tracks[k].sha = a.sha
  BY <1>2, <1>3 DEF Shows
<1>5. j = k
  BY <1>4, SoleEntry
<1> QED
  BY <1>1, <1>2, <1>3, <1>5 DEF Whole, Filled

(* The snapshot has every track of the release once.                         *)
LEMMA SnapshotHolds ==
  ASSUME NEW db, KeptTracks(db), NEW rel
  PROVE  /\ \A t \in TracksOf(db, rel) : \E r \in Snapshot(db, rel) : r.id = t.id /\ r.sha = t.sha
         /\ \A r \in Snapshot(db, rel) : \E t \in TracksOf(db, rel) : r.id = t.id /\ r.sha = t.sha
         /\ \A r, q \in Snapshot(db, rel) : r.id = q.id => r = q
<1> DEFINE Entry(t) == [id |-> t.id, disc |-> DiscOf(db, t), number |-> t.number, sha |-> t.sha]
<1>1. Snapshot(db, rel) = {Entry(t) : t \in TracksOf(db, rel)}
  BY DEF Snapshot
<1>2. \A t : Entry(t).id = t.id /\ Entry(t).sha = t.sha
  OBVIOUS
<1>3. \A t, u \in TracksOf(db, rel) : t.id = u.id => t = u
  BY DEF TracksOf, KeptTracks, Ident
<1> HIDE DEF Entry
<1>4. \A t \in TracksOf(db, rel) : Entry(t) \in Snapshot(db, rel)
  BY <1>1
<1>5. \A r \in Snapshot(db, rel) : \E t \in TracksOf(db, rel) : r = Entry(t)
  BY <1>1
<1>6. ASSUME NEW r \in Snapshot(db, rel), NEW q \in Snapshot(db, rel), r.id = q.id
      PROVE  r = q
  <2>1. PICK t \in TracksOf(db, rel) : r = Entry(t)
    BY <1>5
  <2>2. PICK u \in TracksOf(db, rel) : q = Entry(u)
    BY <1>5
  <2>3. t = u
    BY <2>1, <2>2, <1>2, <1>3, <1>6
  <2> QED
    BY <2>1, <2>2, <2>3
<1> QED
  BY <1>2, <1>4, <1>5, <1>6

(* Rows that did not change continue themselves.                             *)
LEMMA SelfFollows ==
  ASSUME StoredWell, NEW rel \in Releases, NEW after
  PROVE  Follows(stored, stored, rel, current[rel], after)
<1>1. Admissible(current[rel]) /\ Whole(stored, rel, current[rel]) /\ Kept(stored)
  BY DEF StoredWell
<1>2. \A a, b \in TracksOf(stored, rel) :
        /\ a.sha = b.sha /\ SoleIn(current[rel], a.sha) => a = b
        /\ a.id = b.id => a = b
  <2>1. \A a, b \in TracksOf(stored, rel) : a.id = b.id => a = b
    BY <1>1 DEF Kept, KeptTracks, Ident, TracksOf
  <2> QED
    BY <2>1, <1>1, SoleRow
<1>3. \A v, w \in VariantsOf(stored, rel) : v.track = w.track /\ v.path = w.path => v = w
  BY <1>1 DEF Kept, KeptVariants, VariantsOf
<1>4. \A a, b \in AssetsOf(stored, rel) : a.key = b.key <=> a.id = b.id
  BY <1>1 DEF Kept, KeptAssets, Ident, AssetsOf
<1> QED
  BY <1>2, <1>3, <1>4 DEF Follows

(* Fewer rows continue what was committed, too.                              *)
LEMMA FewerFollow ==
  ASSUME NEW db, NEW new, NEW base, NEW rel, NEW before, NEW after,
         Follows(db, base, rel, before, after),
         TracksOf(new, rel) \subseteq TracksOf(db, rel),
         VariantsOf(new, rel) \subseteq VariantsOf(db, rel),
         AssetsOf(new, rel) \subseteq AssetsOf(db, rel)
  PROVE  Follows(new, base, rel, before, after)
  BY DEF Follows

-----------------------------------------------------------------------------
(* A statement of the transaction leaves it open.                            *)
LEMMA StaysOpen ==
  ASSUME Opened, Keep, TxnShaped', txn'.i \in Nat \ {0},
         txn'.release = txn.release, txn'.manifest = txn.manifest,
         txn'.variants = txn.variants, txn'.assets = txn.assets,
         Kept(rows'), \A rel : rel # txn.release => Same(rows', rows, rel)
  PROVE  Opened'
<1>1. stored' = stored
  BY DEF Keep
<1>2. \A rel \in Releases \ {txn.release} : Same(rows', stored, rel)
  BY SameTransitive DEF Opened
<1> QED
  BY <1>1, <1>2 DEF Opened

LEMMA Advances ==
  ASSUME TxnShaped, txn' = [txn EXCEPT !.i = @ + 1]
  PROVE  /\ TxnShaped' /\ txn'.i = txn.i + 1 /\ txn'.step = txn.step
         /\ txn'.release = txn.release /\ txn'.manifest = txn.manifest /\ txn'.old = txn.old
         /\ txn'.variants = txn.variants /\ txn'.assets = txn.assets
<1>1. txn' = [step |-> txn.step, i |-> txn.i + 1, release |-> txn.release,
              manifest |-> txn.manifest, old |-> txn.old, variants |-> txn.variants,
              assets |-> txn.assets]
  BY DEF TxnShaped
<1> QED
  BY <1>1 DEF TxnShaped

LEMMA MovesOn ==
  ASSUME TxnShaped, NEW step, Go(step)
  PROVE  /\ TxnShaped' /\ txn'.i = 1 /\ txn'.step = step
         /\ txn'.release = txn.release /\ txn'.manifest = txn.manifest /\ txn'.old = txn.old
         /\ txn'.variants = txn.variants /\ txn'.assets = txn.assets
<1>1. txn' = [step |-> step, i |-> 1, release |-> txn.release,
              manifest |-> txn.manifest, old |-> txn.old, variants |-> txn.variants,
              assets |-> txn.assets]
  BY DEF TxnShaped, Go
<1> QED
  BY <1>1 DEF TxnShaped

LEMMA StoredStays ==
  ASSUME StoredWell, stored' = stored, current' = current
  PROVE  StoredWell'
  BY DEF StoredWell

LEMMA ManifestOpen ==
  ASSUME Opened
  PROVE  Admissible(txn.manifest)
  BY ManifestsAssumption DEF Opened

-----------------------------------------------------------------------------
(* The transaction opens.                                                    *)
LEMMA IngestKeeps ==
  ASSUME StoredWell, txn = Closed, rows = stored,
         NEW rel \in Releases, NEW m \in Manifests[rel], Ingest(rel, m)
  PROVE  Opened' /\ Follow' /\ InMedia'
<1>1. /\ txn' = [step |-> "media", i |-> 1, release |-> rel, manifest |-> m,
                 old |-> Snapshot(stored, rel), variants |-> VariantsOf(stored, rel),
                 assets |-> AssetsOf(stored, rel)]
      /\ rows' = rows /\ stored' = stored /\ current' = current
  BY DEF Ingest
<1>2. /\ TxnShaped' /\ txn'.step = "media" /\ txn'.i = 1
      /\ txn'.release = rel /\ txn'.manifest = m /\ txn'.old = Snapshot(stored, rel)
      /\ txn'.variants = VariantsOf(stored, rel) /\ txn'.assets = AssetsOf(stored, rel)
  BY <1>1 DEF TxnShaped
<1>3. Kept(rows')
  BY <1>1 DEF StoredWell
<1>4. Opened'
  BY <1>1, <1>2, <1>3 DEF Opened, Same
<1>5. Follow'
  <2>1. Follows(stored, stored, rel, current[rel], m)
    BY SelfFollows
  <2> QED
    BY <2>1, <1>1, <1>2 DEF Follow
<1>6. Len(m.tracks) \in Nat
  BY ManifestsAssumption, ManifestFits
<1>7. InMedia'
  BY <1>1, <1>2, <1>6 DEF InMedia, InStep, HaveMedia
<1> QED
  BY <1>4, <1>5, <1>7

(* ---- the media ------------------------------------------------------------ *)
LEMMA MediaAreGoneThrough ==
  ASSUME StoredWell, Opened, Follow, InMedia, Keep, rows' = rows, Go("tracks"),
         txn.i > Len(txn.manifest.tracks)
  PROVE  Opened' /\ Follow' /\ InTracks'
<1>1. /\ TxnShaped' /\ txn'.i = 1 /\ txn'.step = "tracks"
      /\ txn'.release = txn.release /\ txn'.manifest = txn.manifest /\ txn'.old = txn.old
      /\ txn'.variants = txn.variants /\ txn'.assets = txn.assets
  BY MovesOn DEF Opened
<1>2. stored' = stored /\ current' = current
  BY DEF Keep
<1>3. Opened'
  BY <1>1, StaysOpen DEF Same, Opened
<1>4. Follow'
  BY <1>1, <1>2 DEF Follow
<1>5. Len(txn.manifest.tracks) \in Nat
  BY ManifestOpen, ManifestFits
<1>6. txn.i - 1 = Len(txn.manifest.tracks)
  BY <1>5 DEF InMedia, Opened
<1>7. HaveMedia(Len(txn.manifest.tracks))'
  BY <1>1, <1>6 DEF InMedia, HaveMedia
<1>8. /\ txn.old = Snapshot(stored, txn.release)
      /\ TracksOf(rows, txn.release) = TracksOf(stored, txn.release)
      /\ rows.tracks = stored.tracks /\ rows.variants = stored.variants
  BY DEF InMedia
<1>9. \A t \in TracksOf(stored, txn.release) : t.id \in Out
  BY <1>8, SnapshotHolds DEF Out, StoredWell, Kept
<1>10. Waiting'
  <2>1. \A t \in TracksOf(stored, txn.release) : \E u \in rows.tracks : u.id = t.id
    BY <1>8 DEF TracksOf
  <2>2. \A t \in TracksOf(stored, txn.release) : Below(rows, t.id) = Below(stored, t.id)
    BY <1>8 DEF Below
  <2>3. Out' = Out
    BY <1>1 DEF Out
  <2> QED
    BY <2>1, <2>2, <2>3, <1>1, <1>2, <1>8, <1>9 DEF Waiting
<1>11. Filled(rows, txn.release, Out, txn.manifest, 0)
  BY <1>8, <1>9 DEF Filled
<1>12. Filled(rows, txn.release, Out, txn.manifest, txn.i - 1)'
  <2>1. Out' = Out /\ txn'.i - 1 = 0
    BY <1>1 DEF Out
  <2> QED
    BY <2>1, <1>1, <1>11
<1>13. InTracks'
  BY <1>1, <1>2, <1>5, <1>7, <1>10, <1>12 DEF InTracks, InStep, InMedia
<1> QED
  BY <1>3, <1>4, <1>13

LEMMA MediumIsWritten ==
  ASSUME StoredWell, Opened, Follow, InMedia, Keep,
         txn.i <= Len(txn.manifest.tracks),
         rows' = WithMedium(rows, txn.release, txn.manifest.tracks[txn.i].disc),
         txn' = [txn EXCEPT !.i = @ + 1]
  PROVE  Opened' /\ Follow' /\ InMedia'
<1> DEFINE disc == txn.manifest.tracks[txn.i].disc
<1>1. /\ TxnShaped' /\ txn'.i = txn.i + 1 /\ txn'.step = txn.step
      /\ txn'.release = txn.release /\ txn'.manifest = txn.manifest /\ txn'.old = txn.old
      /\ txn'.variants = txn.variants /\ txn'.assets = txn.assets
  BY Advances DEF Opened
<1>2. stored' = stored /\ current' = current
  BY DEF Keep
<1>3. PICK d : d = disc
  OBVIOUS
<1>4. /\ Kept(rows')
      /\ rows'.tracks = rows.tracks /\ rows'.variants = rows.variants
      /\ rows'.assets = rows.assets
      /\ rows.media \subseteq rows'.media
      /\ TracksOf(rows', txn.release) = TracksOf(rows, txn.release)
      /\ \E x \in MediaOf(rows', txn.release) : x.disc = d
      /\ \A other : other # txn.release => Same(rows', rows, other)
  BY <1>3, MediumAdded DEF Opened
<1>5. Opened'
  <2>1. txn'.i \in Nat \ {0}
    BY <1>1 DEF Opened
  <2> QED
    BY <2>1, <1>1, <1>4, StaysOpen
<1>6. Follow'
  <2>1. VariantsOf(rows', txn.release) = VariantsOf(rows, txn.release)
        /\ AssetsOf(rows', txn.release) = AssetsOf(rows, txn.release)
    BY <1>4 DEF VariantsOf, AssetsOf
  <2>2. Follows(rows', stored, txn.release, current[txn.release], txn.manifest)
    BY <2>1, <1>4, FewerFollow DEF Follow
  <2> QED
    BY <2>2, <1>1, <1>2 DEF Follow
<1>7. HaveMedia(txn.i - 1)'
  <2>1. txn'.i - 1 = txn.i /\ txn.i \in Nat
    BY <1>1 DEF Opened
  <2>2. \A j \in 1 .. txn.i - 1 : \E x \in MediaOf(rows', txn.release) :
          x.disc = txn.manifest.tracks[j].disc
    BY <1>4 DEF InMedia, HaveMedia, MediaOf
  <2>3. \E x \in MediaOf(rows', txn.release) : x.disc = txn.manifest.tracks[txn.i].disc
    BY <1>3, <1>4
  <2>4. \A j \in 1 .. txn.i : j \in 1 .. txn.i - 1 \/ j = txn.i
    BY <2>1
  <2>5. \A j \in 1 .. txn'.i - 1 : \E x \in MediaOf(rows', txn'.release) :
          x.disc = txn'.manifest.tracks[j].disc
    <3>1. ASSUME NEW j \in 1 .. txn.i
          PROVE  \E x \in MediaOf(rows', txn.release) : x.disc = txn.manifest.tracks[j].disc
      BY <2>2, <2>3, <2>4
    <3> QED
      BY <3>1, <2>1, <1>1
  <2> QED
    BY <2>5 DEF HaveMedia
<1>8. InMedia'
  <2>1. txn'.i <= Len(txn.manifest.tracks) + 1
    <3>1. Len(txn.manifest.tracks) \in Nat
      BY ManifestOpen, ManifestFits
    <3> QED
      BY <3>1, <1>1 DEF Opened
  <2> QED
    BY <2>1, <1>1, <1>2, <1>4, <1>7 DEF InMedia, InStep
<1> QED
  BY <1>5, <1>6, <1>8

LEMMA MediaKeep ==
  ASSUME StoredWell, Opened, Follow, InMedia, UpsertMedia
  PROVE  Opened' /\ Follow' /\ (InMedia' \/ InTracks')
<1>1. CASE txn.i > Len(txn.manifest.tracks)
  BY <1>1, MediaAreGoneThrough DEF UpsertMedia
<1>2. CASE ~(txn.i > Len(txn.manifest.tracks))
  <2>1. txn.i <= Len(txn.manifest.tracks)
    <3>1. Len(txn.manifest.tracks) \in Nat
      BY ManifestOpen, ManifestFits
    <3> QED
      BY <3>1, <1>2 DEF Opened
  <2> QED
    BY <1>2, <2>1, MediumIsWritten DEF UpsertMedia
<1> QED
  BY <1>1, <1>2

(* ---- the tracks ----------------------------------------------------------- *)
(* A track that is written, in place of the row that waited for it or under  *)
(* a new id, takes its row out of those that wait.                           *)
Advanced ==
  /\ TxnShaped' /\ txn'.i = txn.i + 1 /\ txn'.step = txn.step
  /\ txn'.release = txn.release /\ txn'.manifest = txn.manifest
  /\ txn'.variants = txn.variants /\ txn'.assets = txn.assets
WaitsNoMore(row, gone) ==
  /\ txn'.old \subseteq txn.old /\ Out' = Out \ {row.id}
  /\ \A t \in gone : t.id \in Out
Continues(row, track) ==
  /\ \A a \in TracksOf(stored, txn.release) :
       /\ a.id = row.id => a.sha = track.sha
       /\ a.sha = track.sha /\ SoleIn(current[txn.release], a.sha)
            /\ SoleIn(txn.manifest, a.sha) => a.id = row.id
  /\ \A v \in VariantsOf(stored, txn.release), w \in Below(rows', row.id) :
       v.track = w.track /\ v.path = w.path => v.id = w.id

LEMMA TrackIsWritten ==
  ASSUME StoredWell, Opened, Follow, InTracks, Keep,
         txn.i <= Len(txn.manifest.tracks),
         NEW row, NEW gone, NEW track, track = txn.manifest.tracks[txn.i],
         TrackPut(rows, rows', txn.release, row, gone, track),
         Advanced, WaitsNoMore(row, gone), Continues(row, track)
  PROVE  Opened' /\ Follow' /\ InTracks'
<1> USE DEF Advanced, WaitsNoMore, Continues
<1> DEFINE rel == txn.release
           m == txn.manifest
           i == txn.i
<1>1. stored' = stored /\ current' = current
  BY DEF Keep
<1>2. Kept(rows)
  BY DEF Opened
<1>3. /\ Kept(rows')
      /\ MediaOf(rows', rel) = MediaOf(rows, rel)
      /\ \A other : other # rel => Same(rows', rows, other)
      /\ TracksOf(rows', rel) = (TracksOf(rows, rel) \ gone) \cup {row}
      /\ Shows(rows', row, track)
      /\ \A t \in TracksOf(rows, rel) \ gone :
           /\ Below(rows', t.id) = Below(rows, t.id)
           /\ \A e : Shows(rows', t, e) <=> Shows(rows, t, e)
  BY <1>2, TrackPutKeeps
<1>4. /\ \A t \in rows.tracks : t.id = row.id <=> t \in gone
      /\ rows'.tracks = (rows.tracks \ gone) \cup {row}
      /\ rows'.assets = rows.assets
      /\ {v \in rows'.variants : v.track # row.id} = {v \in rows.variants : v.track # row.id}
      /\ row.sha = track.sha
  BY DEF TrackPut
<1>5. Admissible(m) /\ Len(m.tracks) \in Nat /\ DOMAIN m.tracks = 1 .. Len(m.tracks)
  BY ManifestOpen, ManifestFits
<1>6. i \in Nat \ {0} /\ i \in DOMAIN m.tracks /\ 1 .. i - 1 \subseteq DOMAIN m.tracks
  BY <1>5 DEF Opened
<1>7. Opened'
  BY <1>3, <1>6, StaysOpen
<1>8. \A t \in TracksOf(rows, rel) \ gone : t.id # row.id
  BY <1>4 DEF TracksOf
<1>9. Waiting'
  <2>1. txn.old \subseteq Snapshot(stored, rel)
    BY DEF InTracks, Waiting
  <2>2. ASSUME NEW t \in TracksOf(stored, rel), t.id \in Out'
        PROVE  t \in TracksOf(rows', rel) /\ Below(rows', t.id) = Below(stored, t.id)
    <3>1. t \in TracksOf(rows, rel) /\ Below(rows, t.id) = Below(stored, t.id) /\ t.id # row.id
      BY <2>2 DEF InTracks, Waiting
    <3>2. t \notin gone
      BY <3>1, <1>4 DEF TracksOf
    <3> QED
      BY <3>1, <3>2, <1>3
  <2>3. ASSUME NEW t \in TracksOf(stored, rel)
        PROVE  \E u \in rows'.tracks : u.id = t.id
    <3>1. PICK u \in rows.tracks : u.id = t.id
      BY DEF InTracks, Waiting
    <3> QED
      BY <3>1, <1>4
  <2>4. ASSUME NEW t \in TracksOf(stored, rel)
        PROVE  t.id \in Out' \/ \E j \in 1 .. i : m.tracks[j].sha = t.sha
    <3>1. CASE t.id = row.id
      BY <3>1, <1>6
    <3>2. CASE t.id # row.id
      <4>1. t.id \in Out \/ \E j \in 1 .. i - 1 : m.tracks[j].sha = t.sha
        BY DEF InTracks, Waiting
      <4> QED
        BY <3>2, <4>1, <1>6
    <3> QED
      BY <3>1, <3>2
  <2>5. txn'.i - 1 = i
    BY <1>6
  <2>6. ASSUME NEW t \in TracksOf(stored, rel)
        PROVE  t.id \in Out' \/ \E j \in 1 .. txn'.i - 1 : m.tracks[j].sha = t.sha
    BY <2>4, <2>5
  <2> QED
    BY <2>1, <2>2, <2>3, <2>6, <1>1 DEF Waiting
<1>10. Filled(rows', rel, Out', m, i)
  <2> DEFINE written == {t \in TracksOf(rows, rel) : t.id \notin Out}
             now == {t \in TracksOf(rows', rel) : t.id \notin Out'}
  <2>1. now = written \cup {row}
    BY <1>3, <1>8
  <2>2. \A t \in written : t \notin gone /\ \A e : Shows(rows', t, e) <=> Shows(rows, t, e)
    BY <1>3
  <2>3. /\ \A t \in written : \E j \in 1 .. i - 1 : Shows(rows, t, m.tracks[j])
        /\ \A j \in 1 .. i - 1 : \E t \in written :
             /\ Shows(rows, t, m.tracks[j])
             /\ \A u \in written : Shows(rows, u, m.tracks[j]) => u = t
    BY DEF InTracks, Filled
  <2> HIDE DEF written, now
  <2>4. KeptMedia(rows')
    BY <1>3 DEF Kept
  <2>5. \A t : \A j, k \in DOMAIN m.tracks :
          Shows(rows', t, m.tracks[j]) /\ Shows(rows', t, m.tracks[k]) => j = k
    BY <2>4, <1>5, ShowsOneEntry
  <2>6. Shows(rows', row, m.tracks[i])
    BY <1>3
  <2>7. \A j \in 1 .. i : j \in 1 .. i - 1 \/ j = i
    BY <1>6
  <2>8. \A j \in 1 .. i - 1 : j # i /\ j \in 1 .. i
    BY <1>6
  <2>9. i \in 1 .. i
    BY <1>6
  <2>10. \A t \in now : \E j \in 1 .. i : Shows(rows', t, m.tracks[j])
    BY <2>1, <2>2, <2>3, <2>6, <2>8, <2>9
  <2>11. ASSUME NEW j \in 1 .. i - 1
         PROVE  \E t \in now : /\ Shows(rows', t, m.tracks[j])
                               /\ \A u \in now : Shows(rows', u, m.tracks[j]) => u = t
    <3>1. PICK t \in written :
            /\ Shows(rows, t, m.tracks[j])
            /\ \A u \in written : Shows(rows, u, m.tracks[j]) => u = t
      BY <2>3
    <3>2. ~Shows(rows', row, m.tracks[j])
      BY <2>5, <2>6, <2>8, <1>6
    <3> QED
      BY <3>1, <3>2, <2>1, <2>2
  <2>12. \A u \in now : Shows(rows', u, m.tracks[i]) => u = row
    <3>1. ASSUME NEW u \in written, Shows(rows', u, m.tracks[i])
          PROVE  FALSE
      <4>1. PICK j \in 1 .. i - 1 : Shows(rows', u, m.tracks[j])
        BY <2>2, <2>3
      <4> QED
        BY <3>1, <4>1, <2>5, <2>8, <1>6
    <3> QED
      BY <3>1, <2>1
  <2>13. \A j \in 1 .. i : \E t \in now :
           /\ Shows(rows', t, m.tracks[j])
           /\ \A u \in now : Shows(rows', u, m.tracks[j]) => u = t
    BY <2>1, <2>6, <2>7, <2>11, <2>12
  <2> QED
    BY <2>10, <2>13 DEF Filled, now
<1>11. InTracks'
  <2>1. Filled(rows', rel, Out', m, txn'.i - 1)
    <3>1. txn'.i - 1 = i
      BY <1>6
    <3> QED
      BY <3>1, <1>10
  <2>2. HaveMedia(Len(txn.manifest.tracks))'
    BY <1>3 DEF InTracks, HaveMedia
  <2>3. txn'.i <= Len(m.tracks) + 1
    BY <1>5, <1>6
  <2> QED
    BY <2>1, <2>2, <2>3, <1>1, <1>4, <1>9 DEF InTracks, InStep
<1>12. Follow'
  <2>1. Follows(rows, stored, rel, current[rel], m)
    BY DEF Follow
  <2>2. ASSUME NEW a \in TracksOf(stored, rel), NEW b \in TracksOf(rows', rel)
        PROVE  /\ a.sha = b.sha /\ SoleIn(current[rel], a.sha) /\ SoleIn(m, a.sha) => a.id = b.id
               /\ a.id = b.id => a.sha = b.sha
    <3>1. CASE b = row
      BY <3>1, <1>4
    <3>2. CASE b \in TracksOf(rows, rel)
      BY <3>2, <2>1 DEF Follows
    <3> QED
      BY <3>1, <3>2, <1>3
  <2>3. ASSUME NEW v \in VariantsOf(stored, rel), NEW w \in VariantsOf(rows', rel),
               v.track = w.track, v.path = w.path
        PROVE  v.id = w.id
    <3>1. w \in rows'.variants /\ \E t \in TracksOf(rows', rel) : t.id = w.track
      BY DEF VariantsOf
    <3>2. CASE w.track = row.id
      BY <3>1, <3>2, <2>3 DEF Below
    <3>3. CASE w.track # row.id
      <4>1. w \in rows.variants
        BY <3>1, <3>3, <1>4
      <4>2. \E t \in TracksOf(rows, rel) : t.id = w.track
        BY <3>1, <3>3, <1>3
      <4>3. w \in VariantsOf(rows, rel)
        BY <4>1, <4>2 DEF VariantsOf
      <4> QED
        BY <4>3, <2>1, <2>3 DEF Follows
    <3> QED
      BY <3>2, <3>3
  <2>4. AssetsOf(rows', rel) = AssetsOf(rows, rel)
    BY <1>4 DEF AssetsOf
  <2>5. \A a \in AssetsOf(stored, rel), b \in AssetsOf(rows', rel) : a.key = b.key <=> a.id = b.id
    BY <2>1, <2>4 DEF Follows
  <2>6. Follows(rows', stored, rel, current[rel], m)
    BY <2>2, <2>3, <2>5 DEF Follows
  <2> QED
    BY <2>6, <1>1 DEF Follow
<1> QED
  BY <1>7, <1>11, <1>12

(* The medium a track is written under.                                      *)
LEMMA MediumOfTrack ==
  ASSUME Opened, InTracks, NEW i \in DOMAIN txn.manifest.tracks,
         NEW medium, medium = CHOOSE x \in MediaOf(rows, txn.release) :
                                x.disc = txn.manifest.tracks[i].disc
  PROVE  medium \in MediaOf(rows, txn.release) /\ medium.disc = txn.manifest.tracks[i].disc
<1>1. DOMAIN txn.manifest.tracks = 1 .. Len(txn.manifest.tracks)
  BY ManifestOpen, ManifestFits
<1>2. \E x \in MediaOf(rows, txn.release) : x.disc = txn.manifest.tracks[i].disc
  BY <1>1 DEF InTracks, HaveMedia
<1> QED
  BY <1>2

LEMMA TrackIsUpdated ==
  ASSUME StoredWell, Opened, Follow, InTracks, Keep,
         txn.i <= Len(txn.manifest.tracks),
         NEW track, track = txn.manifest.tracks[txn.i],
         NEW medium, medium = CHOOSE x \in MediaOf(rows, txn.release) : x.disc = track.disc,
         NEW r \in Match(txn.old, track),
         rows' = Updated(rows, r.id, medium.id, track, txn.variants),
         txn' = [txn EXCEPT !.i = @ + 1, !.old = @ \ {r}]
  PROVE  Opened' /\ Follow' /\ InTracks'
<1> DEFINE rel == txn.release
<1>1. txn.i \in DOMAIN txn.manifest.tracks
  BY ManifestOpen, ManifestFits DEF Opened
<1>2. medium \in MediaOf(rows, rel) /\ medium.disc = track.disc
  BY <1>1, MediumOfTrack
<1>3. RepsFit(track.reps)
  BY <1>1, ManifestOpen, ManifestFits
<1>4. r \in txn.old /\ r.sha = track.sha
  BY DEF Match, AtItsPlace, WithItsContent
<1>5. Kept(stored) /\ Admissible(current[rel]) /\ Whole(stored, rel, current[rel]) /\ Kept(rows)
  BY DEF StoredWell, Opened
<1>6. /\ txn.old \subseteq Snapshot(stored, rel)
      /\ \A q \in Snapshot(stored, rel) : \E t \in TracksOf(stored, rel) : q.id = t.id /\ q.sha = t.sha
      /\ \A p, q \in Snapshot(stored, rel) : p.id = q.id => p = q
  BY <1>5, SnapshotHolds DEF InTracks, Waiting, Kept
<1>7. PICK t \in TracksOf(stored, rel) : r.id = t.id /\ r.sha = t.sha
  BY <1>4, <1>6
<1>8. t.id \in Out
  BY <1>4, <1>7 DEF Out
<1>9. t \in TracksOf(rows, rel) /\ Below(rows, t.id) = Below(stored, t.id)
  BY <1>8 DEF InTracks, Waiting
<1>10. Knows(txn.variants, rows, t.id)
  <2>1. Below(stored, t.id) = {v \in VariantsOf(stored, rel) : v.track = t.id}
    BY BelowIsOf
  <2>2. txn.variants = VariantsOf(stored, rel)
    BY DEF Opened
  <2>3. \A v, w \in Below(rows, t.id) : v.path = w.path => v = w
    BY <1>5 DEF Kept, KeptVariants, Below
  <2> QED
    BY <2>1, <2>2, <2>3, <1>9 DEF Knows
<1>11. PICK id, row, gone, known :
         id = medium.id /\ row = TrackRow(t.id, id, track) /\ gone = {t} /\ known = txn.variants
  OBVIOUS
<1>12. TrackPut(rows, rows', rel, row, gone, track) /\ KeepsIdsBelow(rows, rows', t.id)
  <2>1. rows' = Updated(rows, t.id, id, track, known) /\ Knows(known, rows, t.id)
    BY <1>7, <1>10, <1>11
  <2>2. medium \in MediaOf(rows, rel) /\ medium.id = id /\ medium.disc = track.disc
    BY <1>2, <1>11
  <2>3. t \in TracksOf(rows, rel) /\ Kept(rows) /\ RepsFit(track.reps)
    BY <1>3, <1>5, <1>9
  <2>4. row = TrackRow(t.id, id, track) /\ gone = {t}
    BY <1>11
  <2>5. UpdateOf(rows, rows', rel, track, id, t, known, row, gone)
    BY <2>1, <2>2, <2>3, <2>4 DEF UpdateOf
  <2> HIDE DEF rel
  <2> QED
    BY <2>3, <2>5, UpdatePuts
<1>13. row.id = t.id
  BY <1>11 DEF TrackRow
<1>14. /\ txn' = [step |-> txn.step, i |-> txn.i + 1, release |-> txn.release,
                  manifest |-> txn.manifest, old |-> txn.old \ {r}, variants |-> txn.variants,
                  assets |-> txn.assets]
  BY DEF Opened, TxnShaped
<1>15. /\ TxnShaped' /\ txn'.i = txn.i + 1 /\ txn'.step = txn.step
       /\ txn'.release = txn.release /\ txn'.manifest = txn.manifest
       /\ txn'.variants = txn.variants /\ txn'.assets = txn.assets
       /\ txn'.old = txn.old \ {r}
  BY <1>14 DEF TxnShaped
<1>16. Out' = Out \ {row.id}
  BY <1>4, <1>6, <1>7, <1>13, <1>15 DEF Out
<1>17. \A a \in TracksOf(stored, rel) : a.id = t.id => a = t
  BY <1>5 DEF Kept, KeptTracks, Ident, TracksOf
<1>18. \A a \in TracksOf(stored, rel) : a.sha = t.sha /\ SoleIn(current[rel], a.sha) => a = t
  BY <1>5, SoleRow
<1>19. \A a \in TracksOf(stored, rel) :
         /\ a.id = row.id => a.sha = track.sha
         /\ a.sha = track.sha /\ SoleIn(current[rel], a.sha) /\ SoleIn(txn.manifest, a.sha)
              => a.id = row.id
  BY <1>4, <1>7, <1>13, <1>17, <1>18
<1>20. \A v \in VariantsOf(stored, rel), w \in Below(rows', row.id) :
         v.track = w.track /\ v.path = w.path => v.id = w.id
  <2>1. ASSUME NEW v \in VariantsOf(stored, rel), NEW w \in Below(rows', t.id),
               v.track = w.track, v.path = w.path
        PROVE  v.id = w.id
    <3>1. w.track = t.id
      BY DEF Below
    <3>2. v \in Below(stored, t.id)
      BY <2>1, <3>1 DEF Below, VariantsOf
    <3> QED
      BY <3>2, <2>1, <1>9, <1>12 DEF KeepsIdsBelow
  <2> QED
    BY <2>1, <1>13
<1>21. \A u \in gone : u.id \in Out
  BY <1>8, <1>11
<1>22. txn'.old \subseteq txn.old
  BY <1>15
<1>23. Advanced /\ WaitsNoMore(row, gone) /\ Continues(row, track)
  BY <1>15, <1>16, <1>19, <1>20, <1>21, <1>22 DEF Advanced, WaitsNoMore, Continues
<1> QED
  BY <1>12, <1>23, TrackIsWritten

LEMMA TrackIsInserted ==
  ASSUME StoredWell, Opened, Follow, InTracks, Keep,
         txn.i <= Len(txn.manifest.tracks),
         NEW track, track = txn.manifest.tracks[txn.i],
         NEW medium, medium = CHOOSE x \in MediaOf(rows, txn.release) : x.disc = track.disc,
         Match(txn.old, track) = {},
         rows' = Inserted(rows, NewId(rows.tracks), medium.id, track),
         txn' = [txn EXCEPT !.i = @ + 1]
  PROVE  Opened' /\ Follow' /\ InTracks'
<1> DEFINE rel == txn.release
           m == txn.manifest
<1>1. txn.i \in DOMAIN m.tracks
  BY ManifestOpen, ManifestFits DEF Opened
<1>2. medium \in MediaOf(rows, rel) /\ medium.disc = track.disc
  BY <1>1, MediumOfTrack
<1>3. RepsFit(track.reps)
  BY <1>1, ManifestOpen, ManifestFits
<1>5. Kept(stored) /\ Admissible(current[rel]) /\ Whole(stored, rel, current[rel]) /\ Kept(rows)
  BY DEF StoredWell, Opened
<1>6. /\ txn.old \subseteq Snapshot(stored, rel)
      /\ \A q \in Snapshot(stored, rel) : \E t \in TracksOf(stored, rel) : q.id = t.id /\ q.sha = t.sha
      /\ \A p, q \in Snapshot(stored, rel) : p.id = q.id => p = q
  BY <1>5, SnapshotHolds DEF InTracks, Waiting, Kept
<1>7. PICK new, id, row, gone :
        new = NewId(rows.tracks) /\ id = medium.id /\ row = TrackRow(new, id, track) /\ gone = {}
  OBVIOUS
<1>8. /\ TrackPut(rows, rows', rel, row, gone, track)
      /\ \A t \in rows.tracks : t.id # new
  <2>1. rows' = Inserted(rows, new, id, track) /\ new = NewId(rows.tracks)
    BY <1>7
  <2>2. medium \in MediaOf(rows, rel) /\ medium.id = id /\ medium.disc = track.disc
    BY <1>2, <1>7
  <2>3. Kept(rows) /\ RepsFit(track.reps)
    BY <1>3, <1>5
  <2> HIDE DEF rel
  <2>4. /\ TrackPut(rows, rows', rel, TrackRow(new, id, track), {}, track)
        /\ \A t \in rows.tracks : t.id # new
    BY <2>1, <2>2, <2>3, InsertPuts
  <2> QED
    BY <2>4, <1>7
<1>9. row.id = new
  BY <1>7 DEF TrackRow
<1>10. /\ TxnShaped' /\ txn'.i = txn.i + 1 /\ txn'.step = txn.step
       /\ txn'.release = txn.release /\ txn'.manifest = txn.manifest /\ txn'.old = txn.old
       /\ txn'.variants = txn.variants /\ txn'.assets = txn.assets
  BY Advances DEF Opened
<1>11. \A t \in TracksOf(stored, rel) : t.id # new
  BY <1>8 DEF InTracks, Waiting
<1>12. Out' = Out \ {row.id}
  <2>1. new \notin Out
    BY <1>6, <1>11 DEF Out
  <2>2. Out' = Out
    BY <1>10 DEF Out
  <2> QED
    BY <2>1, <2>2, <1>9
<1>13. ASSUME NEW a \in TracksOf(stored, rel), a.sha = track.sha,
              SoleIn(current[rel], a.sha), SoleIn(m, a.sha)
       PROVE  FALSE
  <2>1. CASE a.id \in Out
    <3>1. PICK r \in txn.old : r.id = a.id
      BY <2>1 DEF Out
    <3>2. \A q \in txn.old : q.sha = track.sha => q = r
      <4>1. ASSUME NEW q \in txn.old, q.sha = track.sha
            PROVE  q = r
        <5>1. PICK t \in TracksOf(stored, rel) : q.id = t.id /\ q.sha = t.sha
          BY <1>6
        <5>2. t = a
          BY <5>1, <4>1, <1>5, <1>13, SoleRow
        <5> QED
          BY <5>1, <5>2, <3>1, <1>6
      <4> QED
        BY <4>1
    <3>3. r.sha = track.sha
      <4>1. PICK t \in TracksOf(stored, rel) : r.id = t.id /\ r.sha = t.sha
        BY <1>6
      <4>2. t = a
        BY <4>1, <3>1, <1>5 DEF Kept, KeptTracks, Ident, TracksOf
      <4> QED
        BY <4>1, <4>2, <1>13
    <3>4. {q \in txn.old : q.sha = track.sha} = {r}
      BY <3>2, <3>3
    <3>5. WithItsContent(txn.old, track) = {r}
      BY <3>4, FS_Singleton DEF WithItsContent
    <3> QED
      BY <3>5 DEF Match
  <2>2. CASE \E j \in 1 .. txn.i - 1 : m.tracks[j].sha = a.sha
    <3>1. PICK j \in 1 .. txn.i - 1 : m.tracks[j].sha = a.sha
      BY <2>2
    <3>2. j \in DOMAIN m.tracks /\ j # txn.i
      BY <1>1, ManifestOpen, ManifestFits DEF Opened
    <3>3. Admissible(m)
      BY ManifestOpen
    <3> QED
      BY <3>1, <3>2, <3>3, <1>1, <1>13, SoleEntry
  <2> QED
    BY <2>1, <2>2 DEF InTracks, Waiting
<1>14. \A a \in TracksOf(stored, rel) :
         /\ a.id = row.id => a.sha = track.sha
         /\ a.sha = track.sha /\ SoleIn(current[rel], a.sha) /\ SoleIn(m, a.sha) => a.id = row.id
  BY <1>9, <1>11, <1>13
<1>15. \A v \in VariantsOf(stored, rel), w \in Below(rows', row.id) :
         v.track = w.track /\ v.path = w.path => v.id = w.id
  BY <1>9, <1>11 DEF Below, VariantsOf
<1>16. (\A u \in gone : u.id \in Out) /\ txn'.old \subseteq txn.old
  BY <1>7, <1>10
<1>17. Advanced /\ WaitsNoMore(row, gone) /\ Continues(row, track)
  BY <1>10, <1>12, <1>14, <1>15, <1>16 DEF Advanced, WaitsNoMore, Continues
<1> QED
  BY <1>8, <1>17, TrackIsWritten

LEMMA TracksKeep ==
  ASSUME StoredWell, Opened, Follow, InTracks, SyncTrack
  PROVE  Opened' /\ Follow' /\ InTracks'
<1>1. PICK track, medium :
        /\ track = txn.manifest.tracks[txn.i]
        /\ medium = CHOOSE x \in MediaOf(rows, txn.release) : x.disc = track.disc
  OBVIOUS
<1>2. Keep /\ txn.i <= Len(txn.manifest.tracks)
  BY DEF SyncTrack
<1>3. CASE \E r \in Match(txn.old, track) :
             /\ rows' = Updated(rows, r.id, medium.id, track, txn.variants)
             /\ txn' = [txn EXCEPT !.i = @ + 1, !.old = @ \ {r}]
  BY <1>1, <1>2, <1>3, TrackIsUpdated
<1>4. CASE /\ Match(txn.old, track) = {}
           /\ rows' = Inserted(rows, NewId(rows.tracks), medium.id, track)
           /\ txn' = [txn EXCEPT !.i = @ + 1]
  BY <1>1, <1>2, <1>4, TrackIsInserted
<1> QED
  BY <1>1, <1>3, <1>4 DEF SyncTrack

(* The tracks that still wait are deleted.                                   *)
LEMMA DroppingTracksKeeps ==
  ASSUME StoredWell, Opened, Follow, InTracks, DropTracks
  PROVE  Opened' /\ Follow' /\ InShells'
<1> DEFINE rel == txn.release
           m == txn.manifest
<1>1. PICK gone : gone = {t \in rows.tracks : t.id \in Out}
  OBVIOUS
<1>2. rows' = WithoutTracks(rows, gone) /\ Go("shells") /\ Keep /\ txn.i > Len(m.tracks)
  BY <1>1 DEF DropTracks, Out
<1>3. /\ TxnShaped' /\ txn'.i = 1 /\ txn'.step = "shells"
      /\ txn'.release = txn.release /\ txn'.manifest = txn.manifest
      /\ txn'.variants = txn.variants /\ txn'.assets = txn.assets
  BY <1>2, MovesOn DEF Opened
<1>4. stored' = stored /\ current' = current /\ Kept(rows) /\ Kept(stored)
  BY <1>2 DEF Keep, Opened, StoredWell
<1>5. gone \subseteq TracksOf(rows, rel)
  <2>1. ASSUME NEW t \in gone
        PROVE  t \in TracksOf(rows, rel)
    <3>1. t \in rows.tracks /\ t.id \in Out
      BY <1>1
    <3>2. PICK r \in txn.old : r.id = t.id
      BY <3>1 DEF Out
    <3>3. PICK u \in TracksOf(stored, rel) : r.id = u.id
      BY <1>4, SnapshotHolds DEF InTracks, Waiting, Kept
    <3>4. u \in TracksOf(rows, rel)
      BY <3>1, <3>2, <3>3 DEF InTracks, Waiting
    <3>5. u = t
      BY <3>1, <3>2, <3>3, <3>4, <1>4 DEF Kept, KeptTracks, Ident, TracksOf
    <3> QED
      BY <3>4, <3>5
  <2> QED
    BY <2>1
<1>6. /\ Kept(rows')
      /\ MediaOf(rows', rel) = MediaOf(rows, rel) /\ rows'.assets = rows.assets
      /\ \A other : other # rel => Same(rows', rows, other)
      /\ TracksOf(rows', rel) = TracksOf(rows, rel) \ gone
      /\ \A v \in rows'.variants : v \in rows.variants
      /\ \A t \in TracksOf(rows', rel) : \A e : Shows(rows', t, e) <=> Shows(rows, t, e)
  BY <1>2, <1>4, <1>5, TracksDropped
<1>7. Opened'
  BY <1>2, <1>3, <1>6, StaysOpen
<1>8. Follow'
  <2>1. VariantsOf(rows', rel) \subseteq VariantsOf(rows, rel)
    BY <1>6 DEF VariantsOf
  <2>2. AssetsOf(rows', rel) = AssetsOf(rows, rel)
    BY <1>6 DEF AssetsOf
  <2>3. Follows(rows', stored, rel, current[rel], m)
    BY <2>1, <2>2, <1>6, FewerFollow DEF Follow
  <2> QED
    BY <2>3, <1>3, <1>4 DEF Follow
<1>9. Filled(rows', rel, {}, m, Len(m.tracks))
  <2>1. txn.i - 1 = Len(m.tracks)
    <3>1. Len(m.tracks) \in Nat
      BY ManifestOpen, ManifestFits
    <3> QED
      BY <3>1, <1>2 DEF InTracks, Opened
  <2>2. Filled(rows, rel, Out, m, Len(m.tracks))
    BY <2>1 DEF InTracks
  <2>3. {t \in TracksOf(rows, rel) : t.id \notin Out} = TracksOf(rows', rel)
    BY <1>1, <1>6 DEF TracksOf
  <2>4. {t \in TracksOf(rows', rel) : t.id \notin {}} = TracksOf(rows', rel)
    OBVIOUS
  <2> QED
    BY <2>2, <2>3, <2>4, <1>6 DEF Filled
<1>10. InShells'
  <2>1. AllTracks'
    BY <1>3, <1>9 DEF AllTracks
  <2>2. HaveMedia(Len(txn.manifest.tracks))'
    BY <1>3, <1>6 DEF InTracks, HaveMedia
  <2> QED
    BY <2>1, <2>2, <1>3, <1>4, <1>6 DEF InShells, InTracks, InStep
<1> QED
  BY <1>7, <1>8, <1>10

(* The discs of a manifest are those of its tracks.                          *)
LEMMA DiscsOfTracks ==
  ASSUME NEW m, Admissible(m)
  PROVE  \A d : d \in DiscsOf(m) <=> \E j \in DOMAIN m.tracks : m.tracks[j].disc = d
  BY DEF DiscsOf, Listing

(* The media without a disc in the manifest hold no tracks by now.           *)
LEMMA DroppingMediaKeeps ==
  ASSUME StoredWell, Opened, Follow, InShells, DropMedia
  PROVE  Opened' /\ Follow' /\ InAssets'
<1> DEFINE rel == txn.release
           m == txn.manifest
<1>1. PICK gone : gone = {x \in MediaOf(rows, rel) : x.disc \notin DiscsOf(m)}
  OBVIOUS
<1>2. rows' = WithoutMedia(rows, gone) /\ Go("assets") /\ Keep
  BY <1>1 DEF DropMedia
<1>3. /\ TxnShaped' /\ txn'.i = 1 /\ txn'.step = "assets"
      /\ txn'.release = txn.release /\ txn'.manifest = txn.manifest
      /\ txn'.variants = txn.variants /\ txn'.assets = txn.assets
  BY <1>2, MovesOn DEF Opened
<1>4. stored' = stored /\ current' = current /\ Kept(rows) /\ Kept(stored)
  BY <1>2 DEF Keep, Opened, StoredWell
<1>5. /\ Admissible(m) /\ DOMAIN m.tracks = 1 .. Len(m.tracks)
      /\ Len(m.tracks) \in Nat /\ Len(m.assets) \in Nat
  BY ManifestOpen, ManifestFits
<1>6. \A d : d \in DiscsOf(m) <=> \E j \in DOMAIN m.tracks : m.tracks[j].disc = d
  BY <1>5, DiscsOfTracks
<1>7. Empty(rows, gone)
  <2> SUFFICES ASSUME NEW t \in rows.tracks, NEW x \in gone, t.media = x.id
               PROVE  FALSE
    BY DEF Empty
  <2>1. x \in rows.media /\ x.release = rel /\ x.disc \notin DiscsOf(m)
    BY <1>1 DEF MediaOf
  <2>2. t \in TracksOf(rows, rel)
    BY <2>1 DEF TracksOf, MediaOf
  <2>3. PICK j \in 1 .. Len(m.tracks) : Shows(rows, t, m.tracks[j])
    BY <2>2 DEF InShells, AllTracks, Filled
  <2>4. PICK y \in rows.media : y.id = t.media /\ y.disc = m.tracks[j].disc
    BY <2>3 DEF Shows
  <2>5. y = x
    BY <2>1, <2>4, <1>4 DEF Kept, KeptMedia, Ident
  <2> QED
    BY <2>1, <2>4, <2>5, <1>5, <1>6
<1>8. gone \subseteq MediaOf(rows, rel)
  BY <1>1
<1>9. /\ Kept(rows')
      /\ rows'.tracks = rows.tracks /\ rows'.variants = rows.variants
      /\ rows'.assets = rows.assets
      /\ MediaOf(rows', rel) = MediaOf(rows, rel) \ gone
      /\ \A other : other # rel => Same(rows', rows, other)
      /\ TracksOf(rows', rel) = TracksOf(rows, rel)
      /\ \A t \in TracksOf(rows', rel) : \A e : Shows(rows', t, e) <=> Shows(rows, t, e)
  BY <1>2, <1>4, <1>7, <1>8, MediaDropped
<1>10. Opened'
  BY <1>2, <1>3, <1>9, StaysOpen
<1>11. Follow'
  <2>1. VariantsOf(rows', rel) \subseteq VariantsOf(rows, rel)
    BY <1>9 DEF VariantsOf
  <2>2. AssetsOf(rows', rel) = AssetsOf(rows, rel)
    BY <1>9 DEF AssetsOf
  <2>3. Follows(rows', stored, rel, current[rel], m)
    BY <2>1, <2>2, <1>9, FewerFollow DEF Follow
  <2> QED
    BY <2>3, <1>3, <1>4 DEF Follow
<1>12. Filled(rows', rel, {}, m, Len(m.tracks))
  <2>1. Filled(rows, rel, {}, m, Len(m.tracks))
    BY DEF InShells, AllTracks
  <2> QED
    BY <2>1, <1>9 DEF Filled
<1>13. OnDiscs(rows', rel, m)
  <2>1. \A x \in MediaOf(rows', rel) : x.disc \in DiscsOf(m)
    BY <1>1, <1>9
  <2>2. ASSUME NEW d \in DiscsOf(m)
        PROVE  \E x \in MediaOf(rows', rel) : x.disc = d
    <3>1. PICK j \in DOMAIN m.tracks : m.tracks[j].disc = d
      BY <1>6
    <3>2. PICK x \in MediaOf(rows, rel) : x.disc = d
      BY <3>1, <1>5 DEF InShells, HaveMedia
    <3> QED
      BY <3>2, <1>1, <1>9
  <2> QED
    BY <2>1, <2>2 DEF OnDiscs
<1>14. AssetsOf(rows', rel) = AssetsOf(stored, rel) /\ txn'.assets = AssetsOf(stored, rel)
  BY <1>3, <1>9 DEF InShells, Opened, AssetsOf
<1>15. InAssets'
  <2>1. AllTracks' /\ OnDiscs(rows, txn.release, txn.manifest)'
    BY <1>3, <1>12, <1>13 DEF AllTracks
  <2>2. \A a : ~Done(a)'
    BY <1>3 DEF Done
  <2>3. \A j \in 1 .. txn'.i - 1 : FALSE
    BY <1>3
  <2>4. txn'.i <= Len(txn'.manifest.assets) + 1
    BY <1>3, <1>5
  <2> QED
    BY <2>1, <2>2, <2>3, <2>4, <1>3, <1>14 DEF InAssets, InStep
<1> QED
  BY <1>10, <1>11, <1>15

(* ---- the assets ----------------------------------------------------------- *)
(* An asset is written over the row of its key or under a new id.            *)
LEMMA AssetsKeep ==
  ASSUME StoredWell, Opened, Follow, InAssets, SyncAsset
  PROVE  Opened' /\ Follow' /\ InAssets'
<1> DEFINE rel == txn.release
           m == txn.manifest
           i == txn.i
<1>1. PICK asset : asset = m.assets[i]
  OBVIOUS
<1>2. /\ rows' = WithAsset(rows, rel, asset, txn.assets)
      /\ txn' = [txn EXCEPT !.i = @ + 1] /\ Keep /\ i <= Len(m.assets) /\ InStep("assets")
  BY <1>1 DEF SyncAsset
<1>3. /\ TxnShaped' /\ txn'.i = i + 1 /\ txn'.step = txn.step
      /\ txn'.release = txn.release /\ txn'.manifest = txn.manifest
      /\ txn'.variants = txn.variants /\ txn'.assets = txn.assets
  BY <1>2, Advances DEF Opened
<1>4. stored' = stored /\ current' = current /\ Kept(rows) /\ Kept(stored)
  BY <1>2 DEF Keep, Opened, StoredWell
<1>5. /\ Admissible(m) /\ Len(m.assets) \in Nat /\ DOMAIN m.assets = 1 .. Len(m.assets)
      /\ \A j, k \in DOMAIN m.assets : m.assets[j].key = m.assets[k].key => j = k
  BY ManifestOpen, ManifestFits
<1>6. i \in Nat \ {0} /\ i \in DOMAIN m.assets /\ 1 .. i - 1 \subseteq DOMAIN m.assets
      /\ i \notin 1 .. i - 1 /\ 1 .. i = (1 .. i - 1) \cup {i} /\ (i + 1) - 1 = i
  BY <1>2, <1>5 DEF Opened
<1>7. \A j \in 1 .. i - 1 : m.assets[j].key # asset.key
  BY <1>1, <1>5, <1>6
<1>8. /\ txn.assets = AssetsOf(stored, rel)
      /\ \A a \in AssetsOf(rows, rel) :
           \/ \E j \in 1 .. i - 1 : Holds(a, m.assets[j])
           \/ a \in txn.assets /\ ~Done(a)
      /\ \A j \in 1 .. i - 1 : \E a \in AssetsOf(rows, rel) : Holds(a, m.assets[j])
      /\ \A a \in txn.assets :
           /\ ~Done(a) => a \in AssetsOf(rows, rel)
           /\ \E b \in AssetsOf(rows, rel) : b.id = a.id
  BY DEF InAssets, Opened
<1>9. \A a \in txn.assets : a.key = asset.key => a \in AssetsOf(rows, rel)
  BY <1>7, <1>8 DEF Done
<1>10. \A a \in AssetsOf(rows, rel) : a.key = asset.key => a \in txn.assets
  BY <1>7, <1>8 DEF Holds
<1>11. \A a, b \in txn.assets : a.key = b.key => a = b
  BY <1>4, <1>8 DEF Kept, KeptAssets, AssetsOf
<1>12. /\ Kept(rows')
       /\ rows'.media = rows.media /\ rows'.tracks = rows.tracks /\ rows'.variants = rows.variants
       /\ \A other : other # rel => AssetsOf(rows', other) = AssetsOf(rows, other)
       /\ \E row :
            /\ Holds(row, asset)
            /\ AssetsOf(rows', rel) = {a \in AssetsOf(rows, rel) : a.key # asset.key} \cup {row}
            /\ \A a \in txn.assets : a.key = asset.key => row.id = a.id
            /\ (\A a \in txn.assets : a.key # asset.key) => \A a \in rows.assets : a.id # row.id
  BY <1>2, <1>4, <1>9, <1>10, <1>11, AssetWritten
<1>13. PICK row :
            /\ Holds(row, asset)
            /\ AssetsOf(rows', rel) = {a \in AssetsOf(rows, rel) : a.key # asset.key} \cup {row}
            /\ \A a \in txn.assets : a.key = asset.key => row.id = a.id
            /\ (\A a \in txn.assets : a.key # asset.key) => \A a \in rows.assets : a.id # row.id
  BY <1>12
<1>14. /\ \A other : /\ MediaOf(rows', other) = MediaOf(rows, other)
                     /\ TracksOf(rows', other) = TracksOf(rows, other)
                     /\ VariantsOf(rows', other) = VariantsOf(rows, other)
       /\ Filled(rows', rel, {}, m, Len(m.tracks)) <=> Filled(rows, rel, {}, m, Len(m.tracks))
       /\ OnDiscs(rows', rel, m) <=> OnDiscs(rows, rel, m)
  BY <1>12, AssetsApart
<1>15. Opened'
  <2>1. \A other : other # rel => Same(rows', rows, other)
    BY <1>12, <1>14 DEF Same
  <2> QED
    BY <2>1, <1>2, <1>3, <1>6, <1>12, StaysOpen
<1>16. InAssets'
  <2>1. AllTracks' /\ OnDiscs(rows, txn.release, txn.manifest)'
    BY <1>3, <1>14 DEF AllTracks, InAssets
  <2>2. \A a : Done(a)' <=> Done(a) \/ a.key = asset.key
    BY <1>1, <1>3, <1>6 DEF Done
  <2>3. ASSUME NEW a \in AssetsOf(rows', rel)
        PROVE  \/ \E j \in 1 .. i : Holds(a, m.assets[j])
               \/ a \in txn.assets /\ ~Done(a)'
    <3>1. CASE a = row
      BY <3>1, <1>1, <1>6, <1>13
    <3>2. CASE a # row
      <4>1. a \in AssetsOf(rows, rel) /\ a.key # asset.key
        BY <3>2, <1>13
      <4> QED
        BY <4>1, <2>2, <1>6, <1>8
    <3> QED
      BY <3>1, <3>2
  <2>4. ASSUME NEW j \in 1 .. i
        PROVE  \E a \in AssetsOf(rows', rel) : Holds(a, m.assets[j])
    <3>1. CASE j = i
      BY <3>1, <1>1, <1>13
    <3>2. CASE j \in 1 .. i - 1
      <4>1. PICK a \in AssetsOf(rows, rel) : Holds(a, m.assets[j])
        BY <3>2, <1>8
      <4>2. a.key # asset.key
        BY <3>2, <4>1, <1>7 DEF Holds
      <4> QED
        BY <4>1, <4>2, <1>13
    <3> QED
      BY <3>1, <3>2, <1>6
  <2>5. ASSUME NEW a \in txn.assets
        PROVE  /\ ~Done(a)' => a \in AssetsOf(rows', rel)
               /\ \E b \in AssetsOf(rows', rel) : b.id = a.id
    <3>1. ~Done(a)' => a \in AssetsOf(rows', rel)
      BY <2>2, <1>8, <1>13
    <3>2. PICK b \in AssetsOf(rows, rel) : b.id = a.id
      BY <1>8
    <3>3. CASE b.key # asset.key
      BY <3>1, <3>2, <3>3, <1>13
    <3>4. CASE b.key = asset.key
      BY <3>1, <3>2, <3>4, <1>10, <1>13
    <3> QED
      BY <3>3, <3>4
  <2>6. txn'.i <= Len(txn'.manifest.assets) + 1 /\ txn'.i - 1 = i
    BY <1>2, <1>3, <1>5, <1>6
  <2> DEFINE n == txn'.i - 1
  <2>7. /\ \A a \in AssetsOf(rows', rel) :
            \/ \E j \in 1 .. n : Holds(a, m.assets[j])
            \/ a \in txn.assets /\ ~Done(a)'
        /\ \A j \in 1 .. n : \E a \in AssetsOf(rows', rel) : Holds(a, m.assets[j])
    BY <2>3, <2>4, <2>6
  <2> QED
    BY <2>1, <2>5, <2>6, <2>7, <1>2, <1>3 DEF InAssets, InStep
<1>17. Follow'
  <2>1. Follows(rows, stored, rel, current[rel], m)
    BY DEF Follow
  <2>2. ASSUME NEW a \in AssetsOf(stored, rel), NEW b \in AssetsOf(rows', rel)
        PROVE  a.key = b.key <=> a.id = b.id
    <3>1. CASE b \in AssetsOf(rows, rel)
      BY <3>1, <2>1 DEF Follows
    <3>2. CASE b = row
      <4>1. b.key = asset.key
        BY <3>2, <1>13 DEF Holds
      <4>2. a.key = b.key => a.id = b.id
        BY <3>2, <4>1, <1>8, <1>13
      <4>3. ASSUME a.id = b.id
            PROVE  a.key = b.key
        <5>1. CASE \A c \in txn.assets : c.key # asset.key
          <6>1. PICK c \in AssetsOf(rows, rel) : c.id = a.id
            BY <1>8
          <6> QED
            BY <5>1, <6>1, <4>3, <3>2, <1>13 DEF AssetsOf
        <5>2. CASE \E c \in txn.assets : c.key = asset.key
          <6>1. PICK c \in txn.assets : c.key = asset.key
            BY <5>2
          <6>2. c.id = a.id
            BY <6>1, <4>3, <3>2, <1>13
          <6>3. c = a
            BY <6>2, <1>4, <1>8 DEF Kept, KeptAssets, Ident, AssetsOf
          <6> QED
            BY <6>1, <6>3, <4>1
        <5> QED
          BY <5>1, <5>2
      <4> QED
        BY <4>2, <4>3
    <3> QED
      BY <3>1, <3>2, <1>13
  <2>3. Follows(rows', stored, rel, current[rel], m)
    BY <2>1, <2>2, <1>14 DEF Follows
  <2> QED
    BY <2>3, <1>3, <1>4 DEF Follow
<1> QED
  BY <1>15, <1>16, <1>17

(* Assets that are no longer listed are deleted.                             *)
LEMMA DroppingAssetsKeeps ==
  ASSUME StoredWell, Opened, Follow, InAssets, DropAssets
  PROVE  Opened' /\ Follow' /\ InCommit'
<1> DEFINE rel == txn.release
           m == txn.manifest
           listed == {a.key : a \in Listing(m.assets)}
<1>1. PICK gone : gone = {a \in txn.assets : a.key \notin listed}
  OBVIOUS
<1>2. rows' = WithoutAssets(rows, gone) /\ Go("commit") /\ Keep /\ txn.i > Len(m.assets)
  BY <1>1 DEF DropAssets, WithoutAssets
<1>3. /\ TxnShaped' /\ txn'.i = 1 /\ txn'.step = "commit"
      /\ txn'.release = txn.release /\ txn'.manifest = txn.manifest
      /\ txn'.variants = txn.variants /\ txn'.assets = txn.assets
  BY <1>2, MovesOn DEF Opened
<1>4. stored' = stored /\ current' = current /\ Kept(rows) /\ Kept(stored)
  BY <1>2 DEF Keep, Opened, StoredWell
<1>5. Admissible(m) /\ Len(m.assets) \in Nat /\ DOMAIN m.assets = 1 .. Len(m.assets)
  BY ManifestOpen, ManifestFits
<1>6. txn.i - 1 = Len(m.assets)
  BY <1>2, <1>5 DEF InAssets, Opened
<1>7. \A a : Done(a) <=> a.key \in listed
  BY <1>5, <1>6 DEF Done, Listing
<1>8. /\ \A a \in AssetsOf(rows, rel) :
           \/ \E j \in DOMAIN m.assets : Holds(a, m.assets[j])
           \/ a \in txn.assets /\ ~Done(a)
      /\ \A j \in DOMAIN m.assets : \E a \in AssetsOf(rows, rel) : Holds(a, m.assets[j])
  BY <1>5, <1>6 DEF InAssets
<1>9. OnlyOf(rel, gone)
  BY <1>1 DEF Opened, AssetsOf, OnlyOf
<1>10. \A j \in DOMAIN m.assets : m.assets[j].key \in listed
  BY DEF Listing
<1> HIDE DEF listed
<1>11. /\ Kept(rows')
       /\ rows'.media = rows.media /\ rows'.tracks = rows.tracks /\ rows'.variants = rows.variants
       /\ AssetsOf(rows', rel) = AssetsOf(rows, rel) \ gone
       /\ \A other : other # rel => AssetsOf(rows', other) = AssetsOf(rows, other)
  BY <1>2, <1>4, <1>9, AssetsDropped
<1>12. /\ \A other : /\ MediaOf(rows', other) = MediaOf(rows, other)
                     /\ TracksOf(rows', other) = TracksOf(rows, other)
                     /\ VariantsOf(rows', other) = VariantsOf(rows, other)
       /\ Filled(rows', rel, {}, m, Len(m.tracks)) <=> Filled(rows, rel, {}, m, Len(m.tracks))
       /\ OnDiscs(rows', rel, m) <=> OnDiscs(rows, rel, m)
  BY <1>11, AssetsApart
<1>13. Opened'
  <2>1. \A other : other # rel => Same(rows', rows, other)
    BY <1>11, <1>12 DEF Same
  <2>2. txn'.i \in Nat \ {0}
    BY <1>3
  <2> QED
    BY <2>1, <2>2, <1>2, <1>3, <1>11, StaysOpen
<1>14. Follow'
  <2>1. Follows(rows', stored, rel, current[rel], m)
    BY <1>11, <1>12, FewerFollow DEF Follow
  <2> QED
    BY <2>1, <1>3, <1>4 DEF Follow
<1>15. Decked(rows', rel, m)
  <2>1. ASSUME NEW a \in AssetsOf(rows', rel)
        PROVE  \E j \in DOMAIN m.assets : Holds(a, m.assets[j])
    BY <1>1, <1>7, <1>8, <1>11
  <2>2. ASSUME NEW j \in DOMAIN m.assets
        PROVE  \E a \in AssetsOf(rows', rel) : Holds(a, m.assets[j])
    <3>1. PICK a \in AssetsOf(rows, rel) : Holds(a, m.assets[j])
      BY <1>8
    <3>2. a \notin gone
      BY <3>1, <1>1, <1>10 DEF Holds
    <3> QED
      BY <3>1, <3>2, <1>11
  <2> QED
    BY <2>1, <2>2 DEF Decked
<1>16. InCommit'
  BY <1>3, <1>12, <1>15 DEF InCommit, InStep, InAssets, AllTracks, Whole
<1> QED
  BY <1>13, <1>14, <1>16

(* ---- the ends of a transaction --------------------------------------------- *)
(* What is committed is what was written, and the other releases' slices are *)
(* what they were.                                                           *)
LEMMA CommitKeeps ==
  ASSUME StoredWell, Opened, InCommit, Commit
  PROVE  StoredWell' /\ txn' = Closed /\ rows' = stored'
<1> DEFINE rel == txn.release
<1>1. /\ stored' = rows /\ rows' = rows /\ txn' = Closed
      /\ current' = [current EXCEPT ![rel] = txn.manifest]
  BY DEF Commit
<1>2. Kept(rows) /\ Kept(stored) /\ rel \in Releases /\ DOMAIN current = Releases
  BY DEF Opened, StoredWell
<1>3. DOMAIN current' = Releases /\ current'[rel] = txn.manifest
      /\ \A other \in Releases : other # rel => current'[other] = current[other]
  BY <1>1, <1>2
<1>4. Admissible(txn.manifest) /\ Whole(rows, rel, txn.manifest)
  BY ManifestOpen DEF InCommit
<1>5. ASSUME NEW other \in Releases, other # rel
      PROVE  Admissible(current[other]) /\ Whole(rows, other, current[other])
  <2>1. PICK m : m = current[other]
    OBVIOUS
  <2>2. Admissible(m) /\ Whole(stored, other, m)
    BY <2>1 DEF StoredWell
  <2>3. Same(rows, stored, other) /\ KeptMedia(rows) /\ KeptMedia(stored)
    BY <1>2, <1>5 DEF Opened, Kept
  <2>4. Whole(rows, other, m)
    BY <2>2, <2>3, SameIsWhole
  <2> QED
    BY <2>1, <2>2, <2>4
<1>6. StoredWell'
  <2>1. \A any \in Releases : Admissible(current'[any]) /\ Whole(rows, any, current'[any])
    BY <1>3, <1>4, <1>5
  <2> QED
    BY <2>1, <1>1, <1>2, <1>3 DEF StoredWell
<1> QED
  BY <1>1, <1>6

(* Before anything is ingested there is nothing to show.                     *)
LEMMA StartsWell == Init => IInv
<1> SUFFICES ASSUME Init PROVE IInv
  OBVIOUS
<1>1. stored = NoRows /\ rows = stored /\ txn = Closed
      /\ current = [r \in Releases |-> NoManifest]
  BY DEF Init
<1>2. /\ stored = [media |-> stored.media, tracks |-> stored.tracks,
                   variants |-> stored.variants, assets |-> stored.assets]
      /\ stored.media = {} /\ stored.tracks = {} /\ stored.variants = {} /\ stored.assets = {}
  BY <1>1 DEF NoRows
<1>3. Kept(stored)
  BY <1>2 DEF Kept, Shaped, KeptMedia, KeptTracks, KeptVariants, KeptAssets, Bounded, Ident
<1>4. /\ NoManifest.tracks = <<>> /\ NoManifest.assets = <<>>
      /\ Listing(<<>>) = {} /\ DOMAIN <<>> = {} /\ Len(<<>>) = 0
  BY DEF NoManifest, Listing
<1>5. Admissible(NoManifest)
  <2>1. ListOf(<<>>)
    BY DEF ListOf
  <2> QED
    BY <2>1, <1>4 DEF Admissible
<1>6. ASSUME NEW rel \in Releases
      PROVE  Whole(stored, rel, NoManifest)
  <2>1. TracksOf(stored, rel) = {} /\ MediaOf(stored, rel) = {} /\ AssetsOf(stored, rel) = {}
    BY <1>2 DEF TracksOf, MediaOf, AssetsOf
  <2>2. DiscsOf(NoManifest) = {}
    BY <1>4 DEF DiscsOf
  <2>3. \A j \in 1 .. Len(NoManifest.tracks) : FALSE
    BY <1>4
  <2>4. Filled(stored, rel, {}, NoManifest, Len(NoManifest.tracks))
    BY <2>1, <2>3 DEF Filled
  <2>5. OnDiscs(stored, rel, NoManifest) /\ Decked(stored, rel, NoManifest)
    BY <2>1, <2>2, <1>4 DEF OnDiscs, Decked
  <2> QED
    BY <2>4, <2>5 DEF Whole
<1>7. StoredWell
  BY <1>1, <1>3, <1>5, <1>6 DEF StoredWell
<1> QED
  BY <1>1, <1>7 DEF IInv

(* Every statement of a transaction keeps the invariant.                     *)
LEMMA StepsKeep == IInv /\ [Next]_vars => IInv'
<1> SUFFICES ASSUME IInv, [Next]_vars PROVE IInv'
  OBVIOUS
<1>1. StoredWell
  BY DEF IInv
<1>2. Closed.step = "closed"
  BY DEF Closed
<1>3. InStep("closed") => txn = Closed /\ rows = stored
  BY DEF IInv, InMedia, InTracks, InShells, InAssets, InCommit, InStep
<1>4. ~InStep("closed") => Opened /\ Follow
  BY <1>2 DEF IInv, InStep
<1>5. /\ InStep("media") => Opened /\ Follow /\ InMedia
      /\ InStep("tracks") => Opened /\ Follow /\ InTracks
      /\ InStep("shells") => Opened /\ Follow /\ InShells
      /\ InStep("assets") => Opened /\ Follow /\ InAssets
      /\ InStep("commit") => Opened /\ Follow /\ InCommit
  BY <1>2 DEF IInv, InMedia, InTracks, InShells, InAssets, InCommit, InStep
<1>6. Keep => StoredWell'
  BY <1>1, StoredStays DEF Keep
<1>7. ASSUME NEW rel \in Releases, NEW m \in Manifests[rel], Ingest(rel, m)
      PROVE  IInv'
  <2>1. InStep("closed")
    BY <1>7 DEF Ingest
  <2>2. Opened' /\ Follow' /\ InMedia'
    BY <2>1, <1>1, <1>3, <1>7, IngestKeeps
  <2>3. StoredWell'
    BY <1>1, <1>7, StoredStays DEF Ingest
  <2> QED
    BY <2>2, <2>3 DEF IInv
<1>8. CASE UpsertMedia
  <2>1. Keep /\ Opened /\ Follow /\ InMedia
    BY <1>5, <1>8 DEF UpsertMedia
  <2> QED
    BY <2>1, <1>1, <1>6, <1>8, MediaKeep DEF IInv
<1>9. CASE SyncTrack
  <2>1. Keep /\ Opened /\ Follow /\ InTracks
    BY <1>5, <1>9 DEF SyncTrack
  <2> QED
    BY <2>1, <1>1, <1>6, <1>9, TracksKeep DEF IInv
<1>10. CASE DropTracks
  <2>1. Keep /\ Opened /\ Follow /\ InTracks
    BY <1>5, <1>10 DEF DropTracks
  <2> QED
    BY <2>1, <1>1, <1>6, <1>10, DroppingTracksKeeps DEF IInv
<1>11. CASE DropMedia
  <2>1. Keep /\ Opened /\ Follow /\ InShells
    BY <1>5, <1>11 DEF DropMedia
  <2> QED
    BY <2>1, <1>1, <1>6, <1>11, DroppingMediaKeeps DEF IInv
<1>12. CASE SyncAsset
  <2>1. Keep /\ Opened /\ Follow /\ InAssets
    BY <1>5, <1>12 DEF SyncAsset
  <2> QED
    BY <2>1, <1>1, <1>6, <1>12, AssetsKeep DEF IInv
<1>13. CASE DropAssets
  <2>1. Keep /\ Opened /\ Follow /\ InAssets
    BY <1>5, <1>13 DEF DropAssets
  <2> QED
    BY <2>1, <1>1, <1>6, <1>13, DroppingAssetsKeeps DEF IInv
<1>14. CASE Commit
  <2>1. Opened /\ InCommit
    BY <1>5, <1>14 DEF Commit
  <2> QED
    BY <2>1, <1>1, <1>14, CommitKeeps DEF IInv
<1>15. CASE Abort
  <2>1. StoredWell' /\ txn' = Closed /\ rows' = stored'
    BY <1>1, <1>15, StoredStays DEF Abort
  <2> QED
    BY <2>1 DEF IInv
<1>16. CASE UNCHANGED vars
  <2>1. /\ rows' = rows /\ stored' = stored /\ current' = current /\ txn' = txn
    BY <1>16 DEF vars
  <2>2. StoredWell'
    BY <2>1, <1>1, StoredStays
  <2>3. CASE InStep("closed")
    BY <2>1, <2>2, <2>3, <1>3 DEF IInv
  <2>4. CASE ~InStep("closed")
    <3>1. Opened' /\ Follow'
      BY <2>1, <2>4, <1>4 DEF Opened, TxnShaped, Follow
    <3>2. InMedia \/ InTracks \/ InShells \/ InAssets \/ InCommit
      BY <2>4, <1>2 DEF IInv, InStep
    <3>3. InMedia => InMedia'
      BY <2>1 DEF InMedia, InStep, HaveMedia
    <3>4. InTracks => InTracks'
      BY <2>1 DEF InTracks, InStep, HaveMedia, Waiting, Out
    <3>5. InShells => InShells'
      BY <2>1 DEF InShells, InStep, HaveMedia, AllTracks
    <3>6. InAssets => InAssets'
      BY <2>1 DEF InAssets, InStep, AllTracks, Done
    <3>7. InCommit => InCommit'
      BY <2>1 DEF InCommit, InStep
    <3> QED
      BY <2>2, <3>1, <3>2, <3>3, <3>4, <3>5, <3>6, <3>7 DEF IInv
  <2> QED
    BY <2>3, <2>4
<1> QED
  BY <1>7, <1>8, <1>9, <1>10, <1>11, <1>12, <1>13, <1>14, <1>15, <1>16 DEF Next

LEMMA AlwaysWell == Spec => []IInv
  BY StartsWell, StepsKeep, PTL DEF Spec

-----------------------------------------------------------------------------
(* ---- ids follow content ----------------------------------------------------- *)
LEMMA CommittedIdsFollow ==
  ASSUME IInv, Next, NEW rel \in Releases
  PROVE  Follows(stored', stored, rel, current[rel], current'[rel])
<1>1. StoredWell /\ Closed.step = "closed"
  BY DEF IInv, Closed
<1>2. CASE Commit
  <2>1. InStep("commit") /\ stored' = rows
        /\ current' = [current EXCEPT ![txn.release] = txn.manifest]
    BY <1>2 DEF Commit
  <2>2. Opened /\ Follow
    BY <2>1, <1>1 DEF IInv, InStep
  <2>3. CASE rel = txn.release
    <3>1. current'[rel] = txn.manifest
      BY <2>1, <2>3, <1>1 DEF StoredWell
    <3> QED
      BY <2>1, <2>2, <2>3, <3>1 DEF Follow
  <2>4. CASE rel # txn.release
    <3>1. Same(rows, stored, rel)
      BY <2>2, <2>4 DEF Opened
    <3>2. PICK after : after = current'[rel]
      OBVIOUS
    <3>3. Follows(stored, stored, rel, current[rel], after)
      BY <1>1, SelfFollows
    <3>4. Follows(rows, stored, rel, current[rel], after)
      BY <3>1, <3>3 DEF Follows, Same
    <3> QED
      BY <2>1, <3>2, <3>4
  <2> QED
    BY <2>3, <2>4
<1>3. CASE stored' = stored
  <2>1. PICK after : after = current'[rel]
    OBVIOUS
  <2>2. Follows(stored, stored, rel, current[rel], after)
    BY <1>1, SelfFollows
  <2> QED
    BY <1>3, <2>1, <2>2
<1>4. Commit \/ stored' = stored
  BY DEF Next, Ingest, UpsertMedia, SyncTrack, DropTracks, DropMedia, SyncAsset, DropAssets,
         Abort, Keep
<1> QED
  BY <1>2, <1>3, <1>4

(* A track whose audio occurs once before and once after an ingest keeps its *)
(* id wherever it moved, no id passes to other audio, and representations    *)
(* and assets that stay keep theirs, for any releases and any manifests the  *)
(* reader admits, although other releases share the tables and ingests may   *)
(* fail half way (library.c:1067, library.c:1281, library.c:1677).           *)
THEOREM ContentKeepsItsIds == Spec => IdsFollowContent
<1> DEFINE Step ==
      \A rel \in Releases :
        LET old == TracksOf(stored, rel)  new == TracksOf(stored', rel) IN
        /\ \A a \in old, b \in new :
             /\ a.sha = b.sha /\ Cardinality(HoldersOf(current[rel], a.sha)) = 1
                  /\ Cardinality(HoldersOf(current'[rel], a.sha)) = 1 => a.id = b.id
             /\ a.id = b.id => a.sha = b.sha
        /\ \A v \in VariantsOf(stored, rel), w \in VariantsOf(stored', rel) :
             v.track = w.track /\ v.path = w.path => v.id = w.id
        /\ \A a \in AssetsOf(stored, rel), b \in AssetsOf(stored', rel) :
             a.key = b.key <=> a.id = b.id
<1>1. IInv /\ [Next]_vars => [Step]_vars
  BY CommittedIdsFollow DEF Follows, SoleIn
<1>2. IdsFollowContent <=> [][Step]_vars
  BY DEF IdsFollowContent
<1> HIDE DEF Step
<1> QED
  BY <1>1, <1>2, AlwaysWell, PTL DEF Spec

(* ---- what is stored mirrors the manifest --------------------------------------- *)
LEMMA OneToOne ==
  ASSUME NEW S, NEW T, NEW f \in [S -> T],
         \A x, y \in S : f[x] = f[y] => x = y,
         \A z \in T : \E x \in S : f[x] = z
  PROVE  ExistsBijection(S, T)
<1>1. f \in Bijection(S, T)
  BY DEF Bijection, Injection, Surjection, IsInjective
<1> QED
  BY <1>1 DEF ExistsBijection

LEMMA AsManyTracks ==
  ASSUME NEW db, KeptMedia(db), NEW rel, NEW m, Admissible(m), Whole(db, rel, m)
  PROVE  Cardinality(TracksOf(db, rel)) = Len(m.tracks)
<1> DEFINE n == Len(m.tracks)
           T == TracksOf(db, rel)
           f == [j \in 1 .. n |-> CHOOSE t \in T : Shows(db, t, m.tracks[j])]
<1>1. n \in Nat /\ DOMAIN m.tracks = 1 .. n
  BY ManifestFits
<1>2. /\ \A t \in T : \E j \in 1 .. n : Shows(db, t, m.tracks[j])
      /\ \A j \in 1 .. n : \E t \in T :
           /\ Shows(db, t, m.tracks[j])
           /\ \A u \in T : Shows(db, u, m.tracks[j]) => u = t
  BY DEF Whole, Filled
<1>3. \A j \in 1 .. n : f[j] \in T /\ Shows(db, f[j], m.tracks[j])
  BY <1>2
<1>4. \A t \in T : \A j, k \in 1 .. n :
        Shows(db, t, m.tracks[j]) /\ Shows(db, t, m.tracks[k]) => j = k
  BY <1>1, ShowsOneEntry
<1>5. f \in [1 .. n -> T]
  BY <1>3
<1> HIDE DEF f
<1>6. \A j, k \in 1 .. n : f[j] = f[k] => j = k
  BY <1>3, <1>4
<1>7. \A t \in T : \E j \in 1 .. n : f[j] = t
  BY <1>2, <1>3
<1> HIDE DEF T, n
<1>8. ExistsBijection(1 .. n, T)
  <2>1. PICK S : S = 1 .. n
    OBVIOUS
  <2>2. ExistsBijection(S, T)
    <3>1. f \in [S -> T] /\ (\A j, k \in S : f[j] = f[k] => j = k)
            /\ \A t \in T : \E j \in S : f[j] = t
      BY <2>1, <1>5, <1>6, <1>7
    <3> QED
      BY <3>1, OneToOne
  <2> QED
    BY <2>1, <2>2
<1>9. Cardinality(T) = n
  BY <1>1, <1>8, FS_CountingElements
<1> QED
  BY <1>9 DEF T, n

LEMMA AsManyAssets ==
  ASSUME NEW db, KeptAssets(db), NEW rel, NEW m, Admissible(m), Whole(db, rel, m)
  PROVE  Cardinality(AssetsOf(db, rel)) = Len(m.assets)
<1> DEFINE n == Len(m.assets)
           T == AssetsOf(db, rel)
           f == [j \in 1 .. n |-> CHOOSE a \in T : Holds(a, m.assets[j])]
<1>1. /\ n \in Nat /\ DOMAIN m.assets = 1 .. n
      /\ \A j, k \in DOMAIN m.assets : m.assets[j].key = m.assets[k].key => j = k
  BY ManifestFits
<1>2. /\ \A a \in T : \E j \in 1 .. n : Holds(a, m.assets[j])
      /\ \A j \in 1 .. n : \E a \in T : Holds(a, m.assets[j])
  BY <1>1 DEF Whole, Decked
<1>3. \A j \in 1 .. n : f[j] \in T /\ Holds(f[j], m.assets[j])
  BY <1>2
<1>4. f \in [1 .. n -> T]
  BY <1>3
<1> HIDE DEF f
<1>5. \A j, k \in 1 .. n : f[j] = f[k] => j = k
  BY <1>1, <1>3 DEF Holds
<1>6. \A a, b \in T : a.key = b.key => a = b
  BY DEF KeptAssets, AssetsOf
<1>7. \A a \in T : \E j \in 1 .. n : f[j] = a
  BY <1>2, <1>3, <1>6 DEF Holds
<1> HIDE DEF T, n
<1>8. ExistsBijection(1 .. n, T)
  <2>1. PICK S : S = 1 .. n
    OBVIOUS
  <2>2. ExistsBijection(S, T)
    <3>1. f \in [S -> T] /\ (\A j, k \in S : f[j] = f[k] => j = k)
            /\ \A a \in T : \E j \in S : f[j] = a
      BY <2>1, <1>4, <1>5, <1>7
    <3> QED
      BY <3>1, OneToOne
  <2> QED
    BY <2>1, <2>2
<1>9. Cardinality(T) = n
  BY <1>1, <1>8, FS_CountingElements
<1> QED
  BY <1>9 DEF T, n

LEMMA AsManyMedia ==
  ASSUME NEW db, KeptMedia(db), NEW rel, NEW m, Admissible(m), OnDiscs(db, rel, m)
  PROVE  Cardinality(MediaOf(db, rel)) = Cardinality(DiscsOf(m))
<1> DEFINE n == Len(m.tracks)
           D == DiscsOf(m)
           M == MediaOf(db, rel)
           f == [d \in D |-> CHOOSE x \in M : x.disc = d]
           g == [j \in 1 .. n |-> m.tracks[j].disc]
<1>1. n \in Nat /\ DOMAIN m.tracks = 1 .. n
  BY ManifestFits
<1>2. IsFiniteSet(D)
  <2>1. \A d : d \in D <=> \E j \in 1 .. n : m.tracks[j].disc = d
    BY <1>1, DiscsOfTracks
  <2>2. g \in Surjection(1 .. n, D)
    BY <2>1 DEF Surjection
  <2>3. IsFiniteSet(1 .. n)
    BY <1>1, FS_Interval
  <2> HIDE DEF g, D, n
  <2> QED
    BY <2>2, <2>3, FS_Surjection
<1>3. D = {x.disc : x \in M}
  BY DEF OnDiscs
<1>4. \A d \in D : f[d] \in M /\ f[d].disc = d
  BY <1>3
<1>5. \A x, y \in M : x.disc = y.disc => x = y
  BY DEF KeptMedia, MediaOf
<1>6. f \in [D -> M]
  BY <1>4
<1> HIDE DEF f, g, D, M
<1>7. \A d, e \in D : f[d] = f[e] => d = e
  BY <1>4
<1>8. \A x \in M : x.disc \in D
  BY <1>3
<1>9. \A x \in M : \E d \in D : f[d] = x
  BY <1>4, <1>5, <1>8
<1>10. ExistsBijection(D, M)
  BY <1>6, <1>7, <1>9, OneToOne
<1>11. Cardinality(M) = Cardinality(D)
  BY <1>2, <1>10, FS_Bijection
<1> QED
  BY <1>11 DEF D, M

(* A row that shows an entry shows it as the API reads it.                   *)
Read(db, t) ==
  [disc |-> DiscOf(db, t), number |-> t.number, sha |-> t.sha, waveform |-> t.waveform,
   reps |-> {[path |-> v.path, sha |-> v.sha] : v \in {v \in db.variants : v.track = t.id}}]

LEMMA ShownAsListed ==
  ASSUME NEW db, KeptMedia(db), NEW t, NEW m, Admissible(m), NEW e \in Listing(m.tracks),
         Shows(db, t, e)
  PROVE  Read(db, t) = [e EXCEPT !.reps = Listing(@)]
<1>1. PICK x \in db.media : x.id = t.media /\ x.disc = e.disc
  BY DEF Shows
<1>2. (CHOOSE y \in db.media : y.id = t.media) = x
  BY <1>1 DEF KeptMedia, Ident
<1>3. DiscOf(db, t) = e.disc
  BY <1>1, <1>2 DEF DiscOf
<1>4. t.number = e.number /\ t.sha = e.sha /\ t.waveform = e.waveform
  BY DEF Shows
<1>5. PICK reps : reps = Listing(e.reps)
  OBVIOUS
<1>6. {[path |-> v.path, sha |-> v.sha] : v \in {v \in db.variants : v.track = t.id}} = reps
  BY <1>5 DEF Shows, Below
<1>7. e = [disc |-> e.disc, number |-> e.number, sha |-> e.sha, waveform |-> e.waveform,
           reps |-> e.reps]
  BY DEF Admissible
<1>8. [e EXCEPT !.reps = reps] =
        [disc |-> e.disc, number |-> e.number, sha |-> e.sha, waveform |-> e.waveform,
         reps |-> reps]
  BY <1>7
<1>9. Read(db, t) = [disc |-> e.disc, number |-> e.number, sha |-> e.sha,
                     waveform |-> e.waveform, reps |-> reps]
  BY <1>3, <1>4, <1>6 DEF Read
<1> QED
  BY <1>5, <1>8, <1>9

LEMMA TracksRead ==
  ASSUME NEW db, KeptMedia(db), NEW rel, NEW m, Admissible(m), Whole(db, rel, m)
  PROVE  {Read(db, t) : t \in TracksOf(db, rel)} =
           {[t EXCEPT !.reps = Listing(@)] : t \in Listing(m.tracks)}
<1> DEFINE Plain(e) == [e EXCEPT !.reps = Listing(@)]
<1>1. DOMAIN m.tracks = 1 .. Len(m.tracks)
  BY ManifestFits
<1>2. /\ \A t \in TracksOf(db, rel) : \E e \in Listing(m.tracks) : Shows(db, t, e)
      /\ \A e \in Listing(m.tracks) : \E t \in TracksOf(db, rel) : Shows(db, t, e)
  BY <1>1 DEF Whole, Filled, Listing
<1>3. \A t : \A e \in Listing(m.tracks) : Shows(db, t, e) => Read(db, t) = Plain(e)
  BY ShownAsListed
<1> HIDE DEF Plain
<1>4. {Read(db, t) : t \in TracksOf(db, rel)} = {Plain(e) : e \in Listing(m.tracks)}
  BY <1>2, <1>3
<1> QED
  BY <1>4 DEF Plain

LEMMA AssetsRead ==
  ASSUME NEW db, NEW rel, NEW m, Admissible(m), Whole(db, rel, m)
  PROVE  {[key |-> a.key, sha |-> a.sha] : a \in AssetsOf(db, rel)} = Listing(m.assets)
<1> DEFINE Pair(a) == [key |-> a.key, sha |-> a.sha]
<1>1. /\ \A a \in AssetsOf(db, rel) : \E e \in Listing(m.assets) : Holds(a, e)
      /\ \A e \in Listing(m.assets) : \E a \in AssetsOf(db, rel) : Holds(a, e)
  BY DEF Whole, Decked, Listing
<1>2. \A e \in Listing(m.assets) : e = Pair(e)
  BY DEF Admissible
<1>3. \A a : \A e \in Listing(m.assets) : Holds(a, e) => Pair(a) = e
  BY <1>2 DEF Holds
<1> HIDE DEF Pair
<1>4. {Pair(a) : a \in AssetsOf(db, rel)} = Listing(m.assets)
  BY <1>1, <1>3
<1> QED
  BY <1>4 DEF Pair

LEMMA WellIsMirrored ==
  ASSUME StoredWell
  PROVE  ContentMirrorsManifest
<1>1. Kept(stored)
  BY DEF StoredWell
<1>2. /\ \A v \in stored.variants : \E t \in stored.tracks : t.id = v.track
      /\ \A t \in stored.tracks : \E x \in stored.media : x.id = t.media
  BY <1>1 DEF Kept, KeptTracks, KeptVariants
<1>3. ASSUME NEW rel \in Releases, NEW m, m = current[rel]
      PROVE  /\ {Read(stored, t) : t \in TracksOf(stored, rel)} =
                  {[t EXCEPT !.reps = Listing(@)] : t \in Listing(m.tracks)}
             /\ Cardinality(TracksOf(stored, rel)) = Len(m.tracks)
             /\ {x.disc : x \in MediaOf(stored, rel)} = DiscsOf(m)
             /\ Cardinality(MediaOf(stored, rel)) = Cardinality(DiscsOf(m))
             /\ {[key |-> a.key, sha |-> a.sha] : a \in AssetsOf(stored, rel)} = Listing(m.assets)
             /\ Cardinality(AssetsOf(stored, rel)) = Len(m.assets)
  <2>1. Admissible(m) /\ Whole(stored, rel, m) /\ KeptMedia(stored) /\ KeptAssets(stored)
    BY <1>1, <1>3 DEF StoredWell, Kept
  <2>2. OnDiscs(stored, rel, m)
    BY <2>1 DEF Whole
  <2>3. {Read(stored, t) : t \in TracksOf(stored, rel)} =
          {[t EXCEPT !.reps = Listing(@)] : t \in Listing(m.tracks)}
    BY <2>1, TracksRead
  <2>4. Cardinality(TracksOf(stored, rel)) = Len(m.tracks)
    BY <2>1, AsManyTracks
  <2>5. Cardinality(MediaOf(stored, rel)) = Cardinality(DiscsOf(m))
    BY <2>1, <2>2, AsManyMedia
  <2>6. {[key |-> a.key, sha |-> a.sha] : a \in AssetsOf(stored, rel)} = Listing(m.assets)
    BY <2>1, AssetsRead
  <2>7. Cardinality(AssetsOf(stored, rel)) = Len(m.assets)
    BY <2>1, AsManyAssets
  <2> QED
    BY <2>2, <2>3, <2>4, <2>5, <2>6, <2>7 DEF OnDiscs
<1>4. ASSUME NEW rel \in Releases
      PROVE  LET m == current[rel]
                 Shown(t) == Read(stored, t)
             IN  /\ {Shown(t) : t \in TracksOf(stored, rel)} =
                      {[t EXCEPT !.reps = Listing(@)] : t \in Listing(m.tracks)}
                 /\ Cardinality(TracksOf(stored, rel)) = Len(m.tracks)
                 /\ {x.disc : x \in MediaOf(stored, rel)} = DiscsOf(m)
                 /\ Cardinality(MediaOf(stored, rel)) = Cardinality(DiscsOf(m))
                 /\ {[key |-> a.key, sha |-> a.sha] : a \in AssetsOf(stored, rel)} = Listing(m.assets)
                 /\ Cardinality(AssetsOf(stored, rel)) = Len(m.assets)
  BY <1>3
<1> QED
  BY <1>2, <1>4 DEF ContentMirrorsManifest, Read

(* What the API reads of a release is exactly the manifest last committed,   *)
(* for any releases and any manifests the reader admits: one row for every   *)
(* entry and no other, nothing orphaned, although rows are rewritten in      *)
(* place, moved between discs, inserted and deleted, other releases share    *)
(* the tables, and ingests may fail half way (library.c:1712).               *)
THEOREM StoredMirrorsManifest == Spec => []ContentMirrorsManifest
<1>1. IInv => ContentMirrorsManifest
  BY WellIsMirrored DEF IInv
<1> QED
  BY <1>1, AlwaysWell, PTL
=============================================================================
