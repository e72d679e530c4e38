------------------------------ MODULE Catalogue ------------------------------
(* The library database above the tables of a release: artists, albums       *)
(* (release groups), releases and packages; what ingesting a package does to *)
(* all of them; and the queries the HTTP API answers from                    *)
(* (server/src/library.c, identity.c, scanner.c, api.c).                     *)
EXTENDS ReleaseTables, SequencesExt

CONSTANTS
  Places,   \* the directories packages lie in
  Nowhere   \* stands for a release no package owns

ASSUME NowhereAssumption == Nowhere \notin Places

(* A package is its manifest with the state of the objects it lists: sound,  *)
(* missing some or damaged.  A credit has a name, the name with its case     *)
(* folded, a MusicBrainz id ("none" also for one that is not canonical) and  *)
(* whether it has a sort name.                                               *)
NoPackage == [status |-> "none", verify |-> "unverified", release |-> 0, manifest |-> NoManifest]

EmptyLibrary ==
  [media |-> {}, tracks |-> {}, variants |-> {}, assets |-> {}, credits |-> {},
   artists |-> {}, groups |-> {}, releases |-> {},
   packages |-> [p \in Places |-> NoPackage]]

TheRow(table, id) == CHOOSE row \in table : row.id = id

-----------------------------------------------------------------------------
(* Identity: a canonical MusicBrainz id, or a hash of what names the album   *)
(* or the edition, in which the order of the artists does not count.         *)
GroupKey(m) == IF m.canonical THEN [mbid |-> m.mbid]
               ELSE [title |-> m.title, artists |-> {c.name : c \in Listing(m.artists)}]
ReleaseKey(m) == m.edition

-----------------------------------------------------------------------------
(* Artists: the row anchored by the credit's id or, failing that, the row of *)
(* that name.  Names are unique without regard to case.                      *)
RowFor(artists, c) ==
  LET anchored == {a \in artists : c.mbid # "none" /\ a.mbid = c.mbid}
  IN  IF anchored # {} THEN anchored ELSE {a \in artists : a.fold = c.fold}

\* Mutant: the newest claim wins.
WithArtistRewritten(artists, c) ==
  IF RowFor(artists, c) = {}
  THEN artists \cup {[id |-> NewId(artists), name |-> c.name, fold |-> c.fold,
                      mbid |-> c.mbid, sort |-> c.sort]}
  ELSE {IF a \in RowFor(artists, c)
        THEN [a EXCEPT !.mbid = IF c.mbid = "none" THEN @ ELSE c.mbid, !.sort = @ \/ c.sort]
        ELSE a : a \in artists}

(* A row adopts an id and a sort name it lacks; nothing is ever rewritten.   *)
WithArtist(artists, c) ==
  IF RowFor(artists, c) = {}
  THEN artists \cup {[id |-> NewId(artists), name |-> c.name, fold |-> c.fold,
                      mbid |-> c.mbid, sort |-> c.sort]}
  ELSE {IF a \in RowFor(artists, c)
        THEN [a EXCEPT !.mbid = IF @ = "none" THEN c.mbid ELSE @, !.sort = @ \/ c.sort]
        ELSE a : a \in artists}

(* The artists after a list of credits, and the ids the credits are given.   *)
Attributed(artists, credits) ==
  FoldLeft(LAMBDA acc, c :
             LET after == WithArtist(acc.artists, c)
             IN  [artists |-> after,
                  ids |-> Append(acc.ids, (CHOOSE a \in RowFor(after, c) : TRUE).id)],
           [artists |-> artists, ids |-> <<>>], credits)

-----------------------------------------------------------------------------
(* Albums and releases.                                                      *)

GroupsOf(db, m) == {g \in db.groups : g.key = GroupKey(m)}
ReleasesOf(db, m) ==
  {r \in db.releases : r.key = ReleaseKey(m) /\ r.group \in {g.id : g \in GroupsOf(db, m)}}

(* No two albums have the same MusicBrainz id, canonical or not: a statement *)
(* that would give one fails, and with it the ingest.                        *)
Clashes(db, m) ==
  m.mbid # "none" /\ \E g \in db.groups : g.mbid = m.mbid /\ g.key # GroupKey(m)

(* The album's row, and when the package takes over also its credits.        *)
WithGroup(db, m) ==
  LET id   == IF GroupsOf(db, m) = {} THEN NewId(db.groups)
              ELSE (CHOOSE g \in GroupsOf(db, m) : TRUE).id
      made == Attributed(db.artists, m.artists)
  IN  [db EXCEPT !.artists = made.artists,
                 !.groups = {g \in @ : g.id # id} \cup
                   {[id |-> id, key |-> GroupKey(m), title |-> m.title, mbid |-> m.mbid,
                     artists |-> made.ids]}]
WithRelease(db, m) ==
  LET group == (CHOOSE g \in GroupsOf(db, m) : TRUE).id
  IN  IF ReleasesOf(db, m) # {}
      THEN [db EXCEPT !.releases = {IF r \in ReleasesOf(db, m) THEN [r EXCEPT !.label = m.label]
                                    ELSE r : r \in @}]
      ELSE [db EXCEPT !.releases = @ \cup {[id |-> NewId(@), group |-> group,
              key |-> ReleaseKey(m), label |-> m.label, owner |-> Nowhere]}]

-----------------------------------------------------------------------------
(* The inside of the release, all entries one after the other.               *)

\* Mutant: a shorter list of credits leaves the tail of the longer one.
WithCreditsOver(db, track, credits) ==
  LET made == Attributed(db.artists, credits)
  IN  [db EXCEPT !.artists = made.artists,
         !.credits = {c \in @ : c.track # track \/ c.position \notin DOMAIN made.ids} \cup
           {[track |-> track, position |-> i, artist |-> made.ids[i]] : i \in DOMAIN made.ids}]

WithCredits(db, track, credits) ==
  LET made == Attributed(db.artists, credits)
  IN  [db EXCEPT !.artists = made.artists,
         !.credits = {c \in @ : c.track # track} \cup
           {[track |-> track, position |-> i, artist |-> made.ids[i]] : i \in DOMAIN made.ids}]

(* acc.old are the stored tracks that no entry has been matched with yet.    *)
SyncedTrack(acc, rel, track, known) ==
  LET medium == (CHOOSE m \in MediaOf(acc.db, rel) : m.disc = track.disc).id
      hits   == Match(acc.old, track)
      row    == CHOOSE r \in hits : TRUE
      fresh  == NewId(acc.db.tracks)
  IN  IF hits = {}
      THEN [acc EXCEPT !.db = WithCredits(Inserted(@, fresh, medium, track), fresh, track.credits)]
      ELSE [db  |-> WithCredits(Updated(acc.db, row.id, medium, track, known), row.id, track.credits),
            old |-> acc.old \ {row}]

Replaced(db, rel, m) ==
  LET shells == FoldLeft(LAMBDA d, t : WithMedium(d, rel, t.disc), db, m.tracks)
      synced == FoldLeft(LAMBDA acc, t : SyncedTrack(acc, rel, t, VariantsOf(db, rel)),
                         [db |-> shells, old |-> Snapshot(db, rel)], m.tracks)
      kept   == WithoutTracks(synced.db, {t \in synced.db.tracks : t.id \in {r.id : r \in synced.old}})
      fitted == WithoutMedia(kept, {x \in MediaOf(kept, rel) : x.disc \notin DiscsOf(m)})
      listed == FoldLeft(LAMBDA d, a : WithAsset(d, rel, a, AssetsOf(db, rel)), fitted, m.assets)
      keys   == {a.key : a \in Listing(m.assets)}
  IN  [listed EXCEPT !.assets = {a \in @ : a.release = rel => a.key \in keys},
                     !.credits = {c \in @ : \E t \in listed.tracks : t.id = c.track}]

-----------------------------------------------------------------------------
(* Ingesting a package.                                                      *)

(* A light scan looks for the objects, a full one verifies them.             *)
StatusOf(m, full) ==
  CASE full /\ m.objects # "sound"   -> <<"checksum-failed", "checksum-failed">>
    [] full /\ m.objects = "sound"   -> <<"valid", "valid">>
    [] ~full /\ m.objects = "missing" -> <<"warning", "unverified">>
    [] OTHER                         -> <<"valid", "unverified">>

Present(package) == package.status \notin {"none", "unavailable", "invalid", "conflict"}
OwnerOf(db, m) == IF ReleasesOf(db, m) = {} THEN Nowhere
                  ELSE (CHOOSE r \in ReleasesOf(db, m) : TRUE).owner

(* A package takes a release nobody has, that it has, or whose owner is gone.*)
Takes(db, place, m) ==
  LET owner == OwnerOf(db, m) IN owner \in {Nowhere, place} \/ ~Present(db.packages[owner])
(* Another owner that is present is matched or contradicted.                 *)
Contradicts(db, place, m) ==
  ~Takes(db, place, m) /\ db.packages[OwnerOf(db, m)].manifest # m

WithPackage(db, place, m, status) ==
  [db EXCEPT !.packages[place] =
     [status |-> status[1], verify |-> status[2], manifest |-> m,
      release |-> (CHOOSE r \in ReleasesOf(db, m) : TRUE).id]]

Owned(db, place, m) ==
  LET rel == (CHOOSE r \in ReleasesOf(db, m) : TRUE)
  IN  [Replaced(db, rel.id, m) EXCEPT !.releases = (@ \ {rel}) \cup {[rel EXCEPT !.owner = place]}]

\* Mutant: a rival's manifest describes the album all the same.
IngestedDescribing(db, place, m, full) ==
  LET status == IF Contradicts(db, place, m) THEN <<"conflict", "unverified">>
                ELSE StatusOf(m, full)
      described == WithRelease(WithGroup(db, m), m)
  IN  IF Takes(db, place, m)
      THEN Owned(WithPackage(described, place, m, status), place, m)
      ELSE WithPackage(described, place, m, status)

Ingested(db, place, m, full) ==
  LET status == IF Contradicts(db, place, m) THEN <<"conflict", "unverified">>
                ELSE StatusOf(m, full)
  IN  IF Takes(db, place, m)
      THEN Owned(WithPackage(WithRelease(WithGroup(db, m), m), place, m, status), place, m)
      ELSE WithPackage(db, place, m, status)

-----------------------------------------------------------------------------
(* What the API may show: releases whose owner is well and verified.         *)

Servable(db, rel) ==
  \E r \in db.releases :
    /\ r.id = rel /\ r.owner # Nowhere
    /\ db.packages[r.owner].status \in {"valid", "warning"}
    /\ db.packages[r.owner].verify \in {"valid", "warning"}
GroupsShown(db) == {g \in db.groups : \E r \in db.releases : r.group = g.id /\ Servable(db, r.id)}
ArtistsShown(db) == {a \in db.artists : \E g \in GroupsShown(db) : a.id \in Listing(g.artists)}

ArtistsOf(db, ids) == [i \in DOMAIN ids |-> TheRow(db.artists, ids[i]).name]
TrackArtists(db, track) ==
  LET mine == {c \in db.credits : c.track = track}
  IN  [i \in 1 .. Cardinality(mine) |->
         TheRow(db.artists, (CHOOSE c \in mine : c.position = i).artist).name]

ReleaseOfTrack(db, track) == TheRow(db.media, TheRow(db.tracks, track).media).release

(* Objects: a row counts only while its release may be shown.                *)
TrackAudio(db, id) ==
  {t \in db.tracks : t.id = id /\ Servable(db, ReleaseOfTrack(db, id))}
TrackWaveform(db, id) == {t \in TrackAudio(db, id) : t.waveform}
TrackVariants(db, track) ==
  {v \in db.variants : v.track = track /\ Servable(db, ReleaseOfTrack(db, track))}
TrackVariant(db, track, id) == {v \in TrackVariants(db, track) : v.id = id}

\* Mutant: lyrics are forgotten.
AssetObjectNoLyrics(db, id) ==
  {a \in db.assets : a.id = id /\ a.key.kind \in {"artwork", "booklet"} /\ Servable(db, a.release)}
(* Extras are not served.                                                    *)
AssetObject(db, id) ==
  {a \in db.assets : a.id = id /\ a.key.kind \in {"artwork", "booklet", "lyrics"}
                     /\ Servable(db, a.release)}

-----------------------------------------------------------------------------
(* The parts of an answer, each read in one snapshot.                        *)

TrackBody(db, t) ==
  [id |-> t.id, number |-> t.number, sha |-> t.sha, waveform |-> t.waveform,
   artists |-> TrackArtists(db, t.id),
   reps |-> {[id |-> v.id, path |-> v.path, sha |-> v.sha] : v \in TrackVariants(db, t.id)}]
ReleaseHead(db, rel) ==
  LET r == TheRow(db.releases, rel)  g == TheRow(db.groups, r.group)
  IN  [id |-> rel, label |-> r.label, album |-> g.id, title |-> g.title,
       artists |-> ArtistsOf(db, g.artists)]
ReleaseMedia(db, rel) ==
  {[disc |-> m.disc, tracks |-> {TrackBody(db, t) : t \in {t \in db.tracks : t.media = m.id}}] :
     m \in MediaOf(db, rel)}
ReleaseAssets(db, rel) == {[id |-> a.id, key |-> a.key, sha |-> a.sha] : a \in AssetsOf(db, rel)}

(* The cover of an album: the first front of a release that may be shown.    *)
Cover(db, group) ==
  {a \in db.assets : /\ a.key.kind = "artwork" /\ a.key.role = "front"
                     /\ Servable(db, a.release)
                     /\ TheRow(db.releases, a.release).group = group}
AlbumHead(db, g) ==
  [id |-> g.id, title |-> g.title, artists |-> ArtistsOf(db, g.artists),
   art |-> {a.id : a \in Cover(db, g.id)}]
AlbumReleases(db, group) ==
  {[id |-> r.id, label |-> r.label, tracks |-> Cardinality(TracksOf(db, r.id)),
    discs |-> {m.disc : m \in MediaOf(db, r.id)}] :
     r \in {r \in db.releases : r.group = group /\ Servable(db, r.id)}}
ArtistRows(db) ==
  {[id |-> a.id, name |-> a.name,
    albums |-> Cardinality({g \in GroupsShown(db) : a.id \in Listing(g.artists)})] :
     a \in ArtistsShown(db)}
ArtistAlbums(db, artist) ==
  {AlbumHead(db, g) : g \in {g \in GroupsShown(db) : artist \in Listing(g.artists)}}
=============================================================================
