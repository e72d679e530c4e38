---------------------------- MODULE ReleaseTables ----------------------------
(* The tables that hold the inside of a release, and what one entry of a     *)
(* manifest does to them (server/src/library.c, schema.c).                   *)
EXTENDS Naturals, Sequences, FiniteSets

(* A manifest: tracks in the order it lists them, disc after disc, each with *)
(* the checksum of its audio, its representations and whether it has a       *)
(* waveform; and the assets.                                                 *)
NoManifest == [tracks |-> <<>>, assets |-> <<>>]

Listing(s) == {s[i] : i \in DOMAIN s}
DiscsOf(m) == {t.disc : t \in Listing(m.tracks)}
ListOf(s) == s \in Seq(Listing(s))

(* The reader of manifests refuses two discs or tracks of one number and two *)
(* mentions of one path.                                                     *)
Admissible(m) ==
  /\ ListOf(m.tracks) /\ ListOf(m.assets)
  /\ \A t \in Listing(m.tracks) :
       /\ t = [disc |-> t.disc, number |-> t.number, sha |-> t.sha, waveform |-> t.waveform,
               reps |-> t.reps]
       /\ ListOf(t.reps)
       /\ \A rep \in Listing(t.reps) : rep = [path |-> rep.path, sha |-> rep.sha]
       /\ \A i, j \in DOMAIN t.reps : t.reps[i].path = t.reps[j].path => i = j
  /\ \A i, j \in DOMAIN m.tracks :
       m.tracks[i].disc = m.tracks[j].disc /\ m.tracks[i].number = m.tracks[j].number => i = j
  /\ \A a \in Listing(m.assets) : a = [key |-> a.key, sha |-> a.sha]
  /\ \A i, j \in DOMAIN m.assets : m.assets[i].key = m.assets[j].key => i = j

NoRows == [media |-> {}, tracks |-> {}, variants |-> {}, assets |-> {}]
Tables == DOMAIN NoRows

(* ---- reading the tables ------------------------------------------------- *)
(* SQLite gives a new row the highest id in its table plus one.              *)
NewId(table) == IF table = {} THEN 1
                ELSE 1 + (CHOOSE i \in {r.id : r \in table} : \A r \in table : r.id <= i)
MediaOf(db, rel) == {m \in db.media : m.release = rel}
TracksOf(db, rel) == {t \in db.tracks : t.media \in {m.id : m \in MediaOf(db, rel)}}
VariantsOf(db, rel) == {v \in db.variants : v.track \in {t.id : t \in TracksOf(db, rel)}}
AssetsOf(db, rel) == {a \in db.assets : a.release = rel}
DiscOf(db, track) == (CHOOSE m \in db.media : m.id = track.media).disc

(* Deleting a row deletes the rows that refer to it.                         *)
WithoutTracks(db, gone) ==
  [db EXCEPT !.tracks = @ \ gone,
             !.variants = {v \in @ : v.track \notin {t.id : t \in gone}}]
WithoutMedia(db, gone) ==
  LET lost == {t \in db.tracks : t.media \in {m.id : m \in gone}}
  IN [WithoutTracks(db, lost) EXCEPT !.media = @ \ gone]

(* ---- one entry at a time ------------------------------------------------ *)
(* A disc keeps its medium; its number is its identity in the release.       *)
WithMedium(db, rel, disc) ==
  IF \E m \in MediaOf(db, rel) : m.disc = disc THEN db
  ELSE [db EXCEPT !.media = @ \cup {[id |-> NewId(@), release |-> rel, disc |-> disc]}]

(* A track is the row at its place with its content or, failing that, the    *)
(* one unmatched row anywhere in the release with its content.               *)
AtItsPlace(old, track) ==
  {r \in old : r.disc = track.disc /\ r.number = track.number /\ r.sha = track.sha}
WithItsContent(old, track) ==
  LET hits == {r \in old : r.sha = track.sha}
  IN IF Cardinality(hits) = 1 THEN hits ELSE {}

(* Mutant: a track is whatever is at its place.                              *)
MatchPlaceOnly(old, track) == {r \in old : r.disc = track.disc /\ r.number = track.number}

Match(old, track) ==
  IF AtItsPlace(old, track) # {} THEN AtItsPlace(old, track) ELSE WithItsContent(old, track)

(* The representations of a track: those at a known path keep their row, the *)
(* others are new, and rows no longer listed are deleted.                    *)

WithVariants(db, id, reps, known) ==
  LET mine == {v \in known : v.track = id}
      RowAt(path) == {v \in mine : v.path = path}
      fresh == {i \in DOMAIN reps : RowAt(reps[i].path) = {}}
      Earlier(i) == Cardinality({j \in fresh : j < i})
      updated == UNION {{[v EXCEPT !.sha = reps[i].sha] : v \in RowAt(reps[i].path)} : i \in DOMAIN reps}
      inserted == {[id |-> NewId(db.variants) + Earlier(i), track |-> id,
                    path |-> reps[i].path, sha |-> reps[i].sha] : i \in fresh}
  IN [db EXCEPT !.variants = (@ \ mine) \cup updated \cup inserted]

TrackRow(id, medium, track) ==
  [id |-> id, media |-> medium, number |-> track.number, sha |-> track.sha,
   waveform |-> track.waveform]

(* Mutant: an updated track stays under its old medium.                      *)
UpdatedInPlace(db, id, medium, track, known) ==
  LET row == CHOOSE r \in db.tracks : r.id = id
  IN WithVariants([db EXCEPT !.tracks = (@ \ {row}) \cup {TrackRow(id, row.media, track)}],
                  id, track.reps, known)

Updated(db, id, medium, track, known) ==
  LET row == CHOOSE r \in db.tracks : r.id = id
  IN WithVariants([db EXCEPT !.tracks = (@ \ {row}) \cup {TrackRow(id, medium, track)}],
                  id, track.reps, known)
Inserted(db, id, medium, track) ==
  WithVariants([db EXCEPT !.tracks = @ \cup {TrackRow(id, medium, track)}],
               id, track.reps, {})

(* An asset keeps its row while its kind, role and path stay.                *)
WithAsset(db, rel, asset, old) ==
  LET slot == {a \in old : a.key = asset.key}
  IN IF slot # {}
     THEN [db EXCEPT !.assets = (@ \ slot) \cup {[a EXCEPT !.sha = asset.sha] : a \in slot}]
     ELSE [db EXCEPT !.assets = @ \cup {[id |-> NewId(@), release |-> rel,
                                         key |-> asset.key, sha |-> asset.sha]}]

(* The snapshot of what a release stores, taken before anything changes.     *)
Snapshot(db, rel) ==
  {[id |-> t.id, disc |-> DiscOf(db, t), number |-> t.number, sha |-> t.sha] :
     t \in TracksOf(db, rel)}
=============================================================================
