-------------------------------- MODULE Drafts --------------------------------
(* What the musicpack tool makes of an album directory: the package that     *)
(* `import` builds at once, and the authoring draft that `inspect` makes,    *)
(* the user edits, `encode-draft` moves to a staging area, `build-draft`     *)
(* turns into a package and `inspect` opens again for an in-place save       *)
(* (core/musicpack/main.c, draft.c; libmusicpack/src/manifest.c, package.c). *)
(* A command is one action here; Publishing has their steps and failures.    *)
EXTENDS Naturals, FiniteSets, SequencesExt

CONSTANTS
  Albums,    \* the album directories considered
  MaxEdits   \* bound: edits of a draft

ASSUME EditsAssumption == MaxEdits \in Nat

(* A path: directory, disc and number prefixes, name, the numbers that       *)
(* unique_target has appended, extension.                                    *)
Path(dir, disc, number, name, ext) ==
  [dir |-> dir, disc |-> disc, number |-> number, name |-> name, copies |-> <<>>, ext |-> ext]
(* unique_target writes "name-2jpg" for "name.jpg": no extension is left.     *)
Ext(p, default) == IF p.copies = <<>> THEN p.ext ELSE default

(* A content: where it comes from in the source directory and what was made  *)
(* of it.                                                                    *)
Content(kind, of, role) == [kind |-> kind, of |-> of, role |-> role]
File(p) == Content("file", p, "")

(* An album directory: `tracks`, its audio files [id, dir, tagDisc, tagNum,  *)
(* fileNum, title, ext, pics, cover]; `cover`, the local cover, `booklet`,   *)
(* `lyrics` and `extras`, sequences of paths, and `images`, other pictures.  *)
SourcePath(t) == Path("", t.dir, 0, t.id, t.ext)
SourceFiles(a) ==
  LET audio == {SourcePath(t) : t \in a.tracks}
      other == ToSet(a.cover \o a.booklet \o a.lyrics \o a.extras) \cup a.images
  IN  [p \in audio \cup other |-> IF p \in audio THEN Content("audio", p, "") ELSE File(p)]

(* ---- the scan of a source directory ------------------------------------ *)
Disc(t) == IF t.dir > 0 THEN t.dir ELSE IF t.tagDisc > 0 THEN t.tagDisc ELSE 1
Number(t) == IF t.tagNum > 0 THEN t.tagNum ELSE t.fileNum
Scanned(t) == [source |-> t, disc |-> Disc(t), number |-> Number(t)]

Unnumbered == 1000  \* sorts behind every number
Rank(s) == IF s.number > 0 THEN s.number ELSE Unnumbered
(* Mutant: the order of the directory walk alone.                             *)
BeforeByPath(s, u) == s.disc < u.disc \/ (s.disc = u.disc /\ s.source.order < u.source.order)
Before(s, u) ==
  \/ s.disc < u.disc
  \/ s.disc = u.disc /\ Rank(s) < Rank(u)
  \/ s.disc = u.disc /\ Rank(s) = Rank(u) /\ s.source.order < u.source.order

Peers(ts, i) == {j \in DOMAIN ts : ts[j].disc = ts[i].disc}
Place(ts, i) == Cardinality({j \in Peers(ts, i) : j <= i})
Renumbered(ts, Needed(_)) ==
  [i \in DOMAIN ts |-> IF Needed(Peers(ts, i)) THEN [ts[i] EXCEPT !.number = Place(ts, i)] ELSE ts[i]]

(* A disc that lacks a number is numbered by position.                       *)
Scan(a) ==
  LET ts == SetToSortSeq({Scanned(t) : t \in a.tracks}, Before)
  IN  Renumbered(ts, LAMBDA peers : \E j \in peers : ts[j].number = 0)
(* For import, a disc with a repeated number is numbered by position too.     *)
Distinct(ts) ==
  Renumbered(ts, LAMBDA peers : \E j, k \in peers : j # k /\ ts[j].number = ts[k].number)

(* musicpack_tag_map_track puts the number of the tag first again.           *)
TrackNumber(s) == IF s.source.tagNum > 0 THEN s.source.tagNum ELSE s.number

(* ---- placing objects in a package -------------------------------------- *)
NoFiles == [p \in {} |-> 0]
With(files, p, c) == [q \in DOMAIN files \cup {p} |-> IF q = p THEN c ELSE files[q]]
Join(f, g) == [p \in DOMAIN f \cup DOMAIN g |-> IF p \in DOMAIN g THEN g[p] ELSE f[p]]

(* The path of an audio object: a single disc has no disc prefix.            *)
AudioPath(discs, disc, number, title, ext) ==
  Path("audio", IF discs > 1 THEN disc ELSE 0, number, title, ext)

(* A path nothing has yet: the given one, or the first free numbered one.     *)
UniqueTarget(files, p) ==
  LET copy(n) == [p EXCEPT !.copies = Append(@, n)]
      free == {n \in 2 .. Cardinality(DOMAIN files) + 2 : copy(n) \notin DOMAIN files}
  IN  IF p \notin DOMAIN files THEN p ELSE copy(Min(free))

(* Objects placed in one directory: the files and what the manifest lists.   *)
None == [files |-> NoFiles, listed |-> <<>>]
Put(placed, role, target, content) ==
  [files |-> With(placed.files, target, content),
   listed |-> Append(placed.listed, [role |-> role, path |-> target, sum |-> content])]
PutUnique(placed, role, target, content) ==
  Put(placed, role, UniqueTarget(placed.files, target), content)
Base(dir, p) == [p EXCEPT !.dir = dir, !.disc = 0, !.number = 0]
PutAll(placed, dir, paths, content(_)) ==
  FoldLeft(LAMBDA acc, p : PutUnique(acc, dir, Base(dir, p), content(p)), placed, paths)

(* ---- manifests and packages -------------------------------------------- *)
(* A package: media, a sequence of discs with their tracks [number, title,   *)
(* path, sum], the listed artwork and loose assets, the waveforms [disc,     *)
(* number, content] and the tracks a sonic document covers, and the files.   *)
Entries(m) ==
  FlattenSeq([k \in DOMAIN m.media |-> m.media[k].tracks])
  \o m.artwork \o m.booklet \o m.lyrics \o m.extras
Keys(media) ==
  UNION {{<<media[k].disc, t.number>> : t \in ToSet(media[k].tracks)} : k \in DOMAIN media}
NoRepeats(s, part(_)) == \A i, j \in DOMAIN s : i # j => part(s[i]) # part(s[j])

(* The rules of the manifest that placing objects can break: discs and       *)
(* tracks are unique and no path is listed twice.                            *)
NumbersUnique(media) ==
  /\ NoRepeats(media, LAMBDA disc : disc.disc)
  /\ \A k \in DOMAIN media : NoRepeats(media[k].tracks, LAMBDA t : t.number)
PathsUnique(m) == NoRepeats(Entries(m), LAMBDA e : e.path)
ValidManifest(m) ==
  /\ m.media # <<>> /\ \A k \in DOMAIN m.media : m.media[k].tracks # <<>>
  /\ NumbersUnique(m.media) /\ PathsUnique(m)

Intact(p, e) == e.path \in DOMAIN p.files /\ p.files[e.path] = e.sum
Verifies(p) ==
  /\ ValidManifest(p)
  /\ \A e \in ToSet(Entries(p)) : Intact(p, e)
  /\ p.sonic \in {{}, Keys(p.media)}

(* The audio files of a package; two tracks on one path fail ValidManifest.   *)
AudioFiles(media) ==
  LET tracks == UNION {ToSet(media[k].tracks) : k \in DOMAIN media}
  IN  [p \in {t.path : t \in tracks} |-> (CHOOSE t \in tracks : t.path = p).sum]

NoPackage == [media |-> <<>>, files |-> NoFiles]

(* ---- import ------------------------------------------------------------ *)
OnDisc(ts, disc) == SelectSeq(ts, LAMBDA s : s.disc = disc)
ImportMedia(ts) ==
  LET discs == SetToSortSeq({ts[i].disc : i \in DOMAIN ts}, LAMBDA d, e : d < e)
      track(s) == [number |-> TrackNumber(s), title |-> s.source.title,
                   path |-> AudioPath(Len(discs), s.disc, TrackNumber(s), s.source.title, s.source.ext),
                   sum |-> Content("audio", SourcePath(s.source), "")]
  IN  [k \in DOMAIN discs |->
         LET here == OnDisc(ts, discs[k])
         IN  [disc |-> discs[k], tracks |-> [j \in DOMAIN here |-> track(here[j])]]]

(* The pictures embedded in the tracks, each with its role, in scan order:    *)
(* FLAC pictures and the front cover of an APEv2 tag.                        *)
Embedded(ts) ==
  FlattenSeq([i \in DOMAIN ts |->
    LET t == ts[i].source
        picture(role) == [role |-> role, path |-> SourcePath(t), tag |-> FALSE]
    IN  [k \in DOMAIN t.pics |-> picture(t.pics[k])]
        \o (IF t.cover THEN <<[picture("front") EXCEPT !.tag = TRUE]>> ELSE <<>>)])
PictureOf(e) == Content("picture", e.path, e.role)
RoleTaken(listed, role) == \E i \in DOMAIN listed : listed[i].role = role
ArtPath(role, ext) == Path("artwork", 0, 0, role, ext)

(* Mutant: every embedded picture is listed.                                  *)
ImportArtworkAll(a, ts) ==
  LET all == FoldLeft(LAMBDA acc, e : Put(acc, e.role, ArtPath(e.role, ".jpg"), PictureOf(e)), None, Embedded(ts))
  IN  IF a.cover = <<>> THEN all
      ELSE Put([all EXCEPT !.listed = <<>>], "front",
               ArtPath("front", Ext(a.cover[1], ".jpg")), File(a.cover[1]))
(* The first embedded picture of every role; a local cover then replaces the *)
(* whole list.                                                               *)
ImportArtwork(a, ts) ==
  LET first(acc, e) == IF RoleTaken(acc.listed, e.role) THEN acc
                       ELSE Put(acc, e.role, ArtPath(e.role, ".jpg"), PictureOf(e))
      embedded == FoldLeft(first, None, Embedded(ts))
  IN  IF a.cover = <<>> THEN embedded
      ELSE Put([embedded EXCEPT !.listed = <<>>], "front",
               ArtPath("front", Ext(a.cover[1], ".jpg")), File(a.cover[1]))

(* Lyrics in tags become files named after the track, before those of the    *)
(* source are placed; the manifest lists them after.                         *)
ImportLyrics(a, ts) ==
  LET tagged == SelectSeq(ts, LAMBDA s : s.source.lyrics)
      fromTag(acc, s) ==
        PutUnique(acc, "lyrics", Path("lyrics", 0, TrackNumber(s), s.source.title, ".txt"),
                  Content("lyrics", SourcePath(s.source), ""))
      tags == FoldLeft(fromTag, None, tagged)
      all == PutAll([tags EXCEPT !.listed = <<>>], "lyrics", a.lyrics, File)
  IN  [all EXCEPT !.listed = @ \o tags.listed]

Imported(a) ==
  LET ts == Distinct(Scan(a))
      media == ImportMedia(ts)
      artwork == ImportArtwork(a, ts)  lyrics == ImportLyrics(a, ts)
      booklet == PutAll(None, "booklet", a.booklet, File)
      extras == PutAll(None, "extras", a.extras, File)
  IN  [media |-> media, artwork |-> artwork.listed, booklet |-> booklet.listed,
       lyrics |-> lyrics.listed, extras |-> extras.listed, waves |-> {}, sonic |-> {},
       files |-> Join(AudioFiles(media), Join(artwork.files,
                   Join(lyrics.files, Join(booklet.files, extras.files))))]

(* ---- inspect: the draft of a directory, or of a package ----------------- *)
(* A draft: the directory its paths are in, the media, the artwork           *)
(* [role, path, embedded], the loose assets [path, object], the waveform     *)
(* block and the tracks the sonic document of the draft covers.              *)
Object(p) == [path |-> p, object |-> TRUE]
Objects(paths) == [i \in DOMAIN paths |-> Object(paths[i])]
NoWaves == [status |-> "none", tracks |-> {}]

(* One medium per number up to the highest disc: a number no track has gives  *)
(* a medium with disc 0 and no track.                                        *)
InspectedMedia(ts) ==
  LET discs == {ts[i].disc : i \in DOMAIN ts}
      track(s) == [number |-> TrackNumber(s), title |-> s.source.title, path |-> SourcePath(s.source)]
  IN  [k \in 1 .. Max(discs) |->
         LET here == OnDisc(ts, k)
         IN  [disc |-> IF k \in discs THEN k ELSE 0,
              tracks |-> [j \in DOMAIN here |-> track(here[j])]]]

(* The local cover, then the first FLAC picture of every role that is left,   *)
(* and the first front cover of a tag when there is no local cover.           *)
InspectedArtwork(a, ts) ==
  LET local == IF a.cover = <<>> THEN <<>>
               ELSE <<[role |-> "front", path |-> a.cover[1], embedded |-> FALSE]>>
      entry(e) == [role |-> e.role, path |-> e.path, embedded |-> TRUE]
      pictures == SelectSeq(Embedded(ts), LAMBDA e : ~e.tag)
      first(acc, e) == IF RoleTaken(acc, e.role) THEN acc ELSE Append(acc, entry(e))
      covers == SelectSeq(Embedded(ts), LAMBDA e : e.tag)
  IN  FoldLeft(first, local, pictures)
      \o (IF local = <<>> /\ covers # <<>> THEN <<entry(covers[1])>> ELSE <<>>)

Inspected(a) ==
  LET ts == Scan(a)
  IN  [root |-> "source", media |-> InspectedMedia(ts), artwork |-> InspectedArtwork(a, ts),
       booklet |-> Objects(a.booklet), lyrics |-> Objects(a.lyrics), extras |-> Objects(a.extras),
       wave |-> NoWaves, sonic |-> {}]

(* Media of a package as those of a draft.                                    *)
Unsummed(media) ==
  LET track(t) == [number |-> t.number, title |-> t.title, path |-> t.path]
  IN  [k \in DOMAIN media |-> [media[k] EXCEPT !.tracks = [j \in DOMAIN @ |-> track(@[j])]]]

(* Mutant: the waveforms of the package are not carried.                      *)
OpenedWithoutWaves(p) ==
  [root |-> "package", media |-> Unsummed(p.media),
   artwork |-> [i \in DOMAIN p.artwork |->
                  [role |-> p.artwork[i].role, path |-> p.artwork[i].path, embedded |-> FALSE]],
   booklet |-> <<>>, lyrics |-> <<>>, extras |-> <<>>, wave |-> NoWaves, sonic |-> p.sonic]
(* A package opens with its booklet, lyrics and extras as plain strings.      *)
Opened(p) ==
  LET strings(listed) == [i \in DOMAIN listed |-> [path |-> listed[i].path, object |-> FALSE]]
  IN  [root |-> "package", media |-> Unsummed(p.media),
       artwork |-> [i \in DOMAIN p.artwork |->
                      [role |-> p.artwork[i].role, path |-> p.artwork[i].path, embedded |-> FALSE]],
       booklet |-> strings(p.booklet), lyrics |-> strings(p.lyrics), extras |-> strings(p.extras),
       wave |-> IF p.waves = {} THEN NoWaves ELSE [status |-> "ready", tracks |-> p.waves],
       sonic |-> p.sonic]

(* ---- validate-draft ---------------------------------------------------- *)
(* draft_to_manifest reads the artwork that names a file and the assets that  *)
(* are objects.                                                              *)
FileArtwork(d) == SelectSeq(d.artwork, LAMBDA e : ~e.embedded)
Loose(entries) == SelectSeq(entries, LAMBDA e : e.object)
Interpreted(d) ==
  [media |-> d.media, artwork |-> FileArtwork(d), booklet |-> Loose(d.booklet),
   lyrics |-> Loose(d.lyrics), extras |-> Loose(d.extras)]

DraftTracks(d) == UNION {ToSet(d.media[k].tracks) : k \in DOMAIN d.media}
MediaValid(d, files) ==
  /\ \A k \in DOMAIN d.media : d.media[k].disc > 0
  /\ \A t \in DraftTracks(d) : t.number > 0 /\ t.path \in DOMAIN files
ArtworkValid(d, files) == \A e \in ToSet(d.artwork) : e.path \in DOMAIN files
Validates(d, files) == MediaValid(d, files) /\ ArtworkValid(d, files) /\ ValidManifest(Interpreted(d))

(* ---- build-draft ------------------------------------------------------- *)
(* The tracks at their package paths, with what `sum` makes of their files.   *)
PlacedMedia(d, files, ext(_), sum(_)) ==
  LET place(disc, t) ==
        [number |-> t.number, title |-> t.title, sum |-> sum(files[t.path]),
         path |-> AudioPath(Len(d.media), disc, t.number, t.title, ext(t.path))]
  IN  [k \in DOMAIN d.media |->
         [d.media[k] EXCEPT !.tracks = [j \in DOMAIN @ |-> place(d.media[k].disc, @[j])]]]
BuiltMedia(d, files) == PlacedMedia(d, files, LAMBDA p : p.ext, LAMBDA c : c)

(* Mutant: a file is written over what has its name.                          *)
PutFileOver(placed, e, files, default) ==
  Put(placed, e.role, ArtPath(e.role, Ext(e.path, default)), files[e.path])
(* File artwork gets a free name; an embedded picture is written over what    *)
(* has its name.                                                             *)
PutFile(placed, e, files, default) ==
  PutUnique(placed, e.role, ArtPath(e.role, Ext(e.path, default)), files[e.path])
PutEmbedded(placed, e) == Put(placed, e.role, ArtPath(e.role, ".jpg"), PictureOf(e))
BuiltArtwork(d, files) ==
  LET copied == FoldLeft(LAMBDA acc, e : PutFile(acc, e, files, ".jpg"), None, FileArtwork(d))
      embedded == SelectSeq(d.artwork, LAMBDA e : e.embedded)
  IN  FoldLeft(PutEmbedded, copied, embedded)
BuiltLoose(dir, entries, files) ==
  PutAll(None, dir, [i \in DOMAIN Loose(entries) |-> Loose(entries)[i].path], LAMBDA p : files[p])

(* A sonic document that does not cover exactly the tracks is left out.       *)
AttachSonic(d) == IF d.sonic = Keys(d.media) THEN d.sonic ELSE {}
WavesFit(d) == \A w \in d.wave.tracks : <<w.disc, w.number>> \in Keys(d.media)

Built(d, files) ==
  LET media == BuiltMedia(d, files)  artwork == BuiltArtwork(d, files)
      booklet == BuiltLoose("booklet", d.booklet, files)
      lyrics == BuiltLoose("lyrics", d.lyrics, files)
      extras == BuiltLoose("extras", d.extras, files)
  IN  [media |-> media, artwork |-> artwork.listed, booklet |-> booklet.listed,
       lyrics |-> lyrics.listed, extras |-> extras.listed,
       waves |-> d.wave.tracks, sonic |-> AttachSonic(d),
       files |-> Join(AudioFiles(media), Join(artwork.files,
                   Join(lyrics.files, Join(booklet.files, extras.files))))]

Decided(d) == d.wave.status \in {"ready", "disabled"}
Copyable(d, files) ==
  LET m == Interpreted(d)
  IN  /\ \A t \in DraftTracks(d) : t.path \in DOMAIN files
      /\ \A e \in ToSet(d.artwork \o m.booklet \o m.lyrics \o m.extras) : e.path \in DOMAIN files
Builds(d, files) ==
  Decided(d) /\ Copyable(d, files) /\ WavesFit(d) /\ Verifies(Built(d, files))

(* ---- encode-draft ------------------------------------------------------ *)
Encodable(d, files) ==
  /\ Validates(d, files)
  /\ \A t \in DraftTracks(d) : t.path.ext \in {".flac", ".wav"}
  /\ Copyable(d, files)

EncodedMedia(d, files) ==
  PlacedMedia(d, files, LAMBDA p : ".mpc", LAMBDA c : [c EXCEPT !.kind = "encoded"])
(* Mutant: staged files are written over each other.                          *)
StagedArtworkOver(d, files) ==
  FoldLeft(LAMBDA acc, e : IF e.embedded THEN PutEmbedded(acc, e)
                           ELSE Put(acc, e.role, ArtPath(e.role, Ext(e.path, ".img")), files[e.path]),
           None, d.artwork)
(* Every artwork, in the order of the draft, becomes a file of the staging    *)
(* area; loose objects too.                                                  *)
StagedArtwork(d, files) ==
  FoldLeft(LAMBDA acc, e : IF e.embedded THEN PutEmbedded(acc, e) ELSE PutFile(acc, e, files, ".img"),
           None, d.artwork)
StagedEntries(entries, placed) ==
  LET rank(i) == Cardinality({j \in 1 .. i : entries[j].object})
  IN  [i \in DOMAIN entries |-> IF entries[i].object THEN Object(placed.listed[rank(i)].path) ELSE entries[i]]

Encoded(d, files) ==
  LET media == EncodedMedia(d, files)  artwork == StagedArtwork(d, files)
      booklet == BuiltLoose("booklet", d.booklet, files)
      lyrics == BuiltLoose("lyrics", d.lyrics, files)
      extras == BuiltLoose("extras", d.extras, files)
  IN  [draft |-> [d EXCEPT !.root = "staging", !.media = Unsummed(media),
                    !.artwork = [i \in DOMAIN @ |-> [role |-> @[i].role, embedded |-> FALSE,
                                                      path |-> artwork.listed[i].path]],
                    !.booklet = StagedEntries(@, booklet), !.lyrics = StagedEntries(@, lyrics),
                    !.extras = StagedEntries(@, extras)],
       files |-> Join(AudioFiles(media), Join(artwork.files,
                   Join(lyrics.files, Join(booklet.files, extras.files))))]

(* ---- the author's steps ------------------------------------------------ *)
VARIABLES
  album,    \* the album directory, never changed
  draft,    \* the draft being edited
  staging,  \* the files of the encode staging area
  package,  \* the package
  edits     \* edits made so far
vars == <<album, draft, staging, package, edits>>

NoDraft == [root |-> "none"]
Opening == draft # NoDraft
Roots == [source |-> SourceFiles(album), staging |-> staging, package |-> package.files]
Files == Roots[draft.root]

Init ==
  /\ album \in Albums
  /\ draft = NoDraft /\ staging = NoFiles /\ package = NoPackage /\ edits = 0

Import ==
  /\ package = NoPackage /\ draft = NoDraft
  /\ Verifies(Imported(album))
  /\ package' = Imported(album)
  /\ UNCHANGED <<album, draft, staging, edits>>

Inspect ==
  /\ draft = NoDraft /\ package = NoPackage
  /\ draft' = Inspected(album)
  /\ UNCHANGED <<album, staging, package, edits>>

(* The application edits a draft that is not encoded yet.                     *)
Edit(d) ==
  /\ Opening /\ draft.root # "staging" /\ edits < MaxEdits
  /\ draft' = d
  /\ edits' = edits + 1
  /\ UNCHANGED <<album, staging, package>>
Pictures == {p \in DOMAIN Files : Files[p].kind = "file" /\ p.ext \in {".jpg", ".png"}}
ArtworkOf(role, p) == [role |-> role, path |-> p, embedded |-> FALSE]
AddArtwork ==
  /\ Opening
  /\ \E role \in {"front", "back"}, p \in Pictures :
       Edit([draft EXCEPT !.artwork = Append(@, ArtworkOf(role, p))])
ChangeFront ==
  /\ Opening
  /\ \E p \in Pictures :
       Edit([draft EXCEPT !.artwork =
               Append(SelectSeq(@, LAMBDA e : e.role # "front"), ArtworkOf("front", p))])
RemoveArtwork ==
  /\ Opening
  /\ \E i \in DOMAIN draft.artwork : Edit([draft EXCEPT !.artwork = RemoveAt(@, i)])
AddAsset ==
  /\ Opening
  /\ \E kind \in {"booklet", "extras"}, p \in {q \in DOMAIN Files : Files[q].kind = "file"} :
       Edit([draft EXCEPT ![kind] = Append(@, Object(p))])
Retitle ==
  /\ Opening
  /\ \E k \in DOMAIN draft.media : \E j \in DOMAIN draft.media[k].tracks :
       Edit([draft EXCEPT !.media[k].tracks[j].title = "retitled"])

(* waveform-draft: one waveform per track, named after its disc and number.   *)
Waveforms ==
  /\ Opening /\ draft.wave.status = "none"
  /\ \A t \in DraftTracks(draft) : t.path \in DOMAIN Files
  /\ draft' = [draft EXCEPT !.wave =
       [status |-> "ready",
        tracks |-> UNION {{[disc |-> draft.media[k].disc, number |-> t.number,
                            content |-> Content("wave", Files[t.path].of, "")] :
                             t \in ToSet(draft.media[k].tracks)} : k \in DOMAIN draft.media}]]
  /\ UNCHANGED <<album, staging, package, edits>>
(* Mutant: the waveforms stay when they are switched off.                     *)
SetWaveformsKeeping ==
  /\ Opening
  /\ draft' = [draft EXCEPT !.wave.status = IF @ = "disabled" THEN "none" ELSE "disabled"]
  /\ UNCHANGED <<album, staging, package, edits>>
(* The switch of the waveform panel.                                          *)
SetWaveforms ==
  /\ Opening
  /\ draft' = [draft EXCEPT !.wave = IF @.status = "disabled" THEN NoWaves
                                     ELSE [status |-> "disabled", tracks |-> {}]]
  /\ UNCHANGED <<album, staging, package, edits>>
Sonic ==
  /\ Opening /\ draft.sonic # Keys(draft.media)
  /\ draft' = [draft EXCEPT !.sonic = Keys(draft.media)]
  /\ UNCHANGED <<album, staging, package, edits>>

Encode ==
  /\ Opening /\ draft.root # "staging" /\ Encodable(draft, Files)
  /\ draft' = Encoded(draft, Files).draft
  /\ staging' = Encoded(draft, Files).files
  /\ UNCHANGED <<album, package, edits>>

Build ==
  /\ Opening /\ package = NoPackage
  /\ Builds(draft, Files)
  /\ package' = Built(draft, Files)
  /\ UNCHANGED <<album, draft, staging, edits>>
Open ==
  /\ package # NoPackage
  /\ draft' = Opened(package)
  /\ UNCHANGED <<album, staging, package, edits>>
(* The save in place of an opened package; the application opens the result.  *)
Save ==
  /\ Opening /\ draft.root = "package"
  /\ Builds(draft, Files)
  /\ package' = Built(draft, Files)
  /\ draft' = Opened(package')
  /\ UNCHANGED <<album, staging, edits>>

Next ==
  \/ Import \/ Inspect \/ Open \/ Save \/ Build \/ Encode
  \/ AddArtwork \/ ChangeFront \/ RemoveArtwork \/ AddAsset \/ Retitle
  \/ Waveforms \/ SetWaveforms \/ Sonic
Spec == Init /\ [][Next]_vars

-----------------------------------------------------------------------------
(* What an artwork or asset list holds, its order and file names aside.       *)
Holds(listed) == [rs \in {<<listed[i].role, listed[i].sum>> : i \in DOMAIN listed} |->
                    Cardinality({i \in DOMAIN listed : <<listed[i].role, listed[i].sum>> = rs})]
SameAlbum(p, q) == p.media = q.media /\ Holds(p.artwork) = Holds(q.artwork)
SameAssets(p, q) ==
  /\ Holds(p.booklet) = Holds(q.booklet) /\ Holds(p.extras) = Holds(q.extras)
(* Two artworks of one role, one of them embedded: they get one path.         *)
SharesRole(d) ==
  \E i, j \in DOMAIN d.artwork :
    i # j /\ d.artwork[i].embedded /\ d.artwork[i].role = d.artwork[j].role

(* The state of the program has the shape the commands read and write.        *)
TypeOK ==
  /\ draft.root \in {"none", "source", "staging", "package"}
  /\ Opening => /\ draft.wave.status \in {"none", "ready", "disabled"}
                /\ draft.wave.status # "ready" => draft.wave.tracks = {}
                /\ draft.root # "source" => \A e \in ToSet(draft.artwork) : ~e.embedded
  /\ package # NoPackage => Verifies(package)
  /\ edits \in 0 .. MaxEdits

(* A draft that validates, its waveforms made or switched off, builds a       *)
(* package that verifies: the green light of validate-draft is kept, whatever *)
(* was edited, encoded or opened (main.c:2960, 4430), but when an embedded    *)
(* picture has the role of another artwork.                                  *)
ValidDraftsBuild ==
  Opening /\ Validates(draft, Files) /\ Decided(draft) /\ ~SharesRole(draft) => Builds(draft, Files)

(* A package holds every track of the album once, on the disc the scan gives   *)
(* it and in the order of the numbers, and every waveform is that of the audio *)
(* of its track (main.c:1523, 4242, 3953).                                    *)
SourceOf(entry) == CHOOSE t \in album.tracks : SourcePath(t) = entry.sum.of
InOrder(tracks) ==
  \A i, j \in DOMAIN tracks :
    LET t == SourceOf(tracks[i])  u == SourceOf(tracks[j])
    IN  i < j /\ Number(t) > 0 /\ Number(u) > 0 => Number(t) <= Number(u)
TracksAreThemselves ==
  LET tracks(k) == package.media[k].tracks
      order == FlattenSeq([k \in DOMAIN package.media |-> tracks(k)])
      sources == {SourcePath(t) : t \in album.tracks}
  IN  package # NoPackage =>
        /\ {order[i].sum.of : i \in DOMAIN order} = sources /\ Len(order) = Cardinality(sources)
        /\ \A k \in DOMAIN package.media :
             /\ \A t \in ToSet(tracks(k)) : Disc(SourceOf(t)) = package.media[k].disc
             /\ InOrder(tracks(k))
        /\ \A w \in package.waves : \E k \in DOMAIN package.media : \E t \in ToSet(tracks(k)) :
             /\ package.media[k].disc = w.disc /\ t.number = w.number
             /\ t.sum.of = w.content.of

(* Opening a package and saving it at once gives a package with the same      *)
(* tracks, artwork, waveforms and sonic analysis: the draft of a package is   *)
(* a faithful one (main.c:3102, 4343).                                        *)
SaveChangesNothing ==
  package # NoPackage =>
    LET again == [Opened(package) EXCEPT !.wave.status = IF @ = "none" THEN "disabled" ELSE @]
        saved == Built(again, package.files)
    IN  /\ Builds(again, package.files)
        /\ SameAlbum(saved, package) /\ saved.waves = package.waves /\ saved.sonic = package.sonic

(* Encoding and building gives what building gives, with encoded audio: the   *)
(* staging area stands for the source (main.c:5763, 5788).                    *)
EncodeCommutes ==
  Opening /\ draft.root = "source" /\ Encodable(draft, Files) /\ ~SharesRole(draft) =>
    LET encoded == Encoded(draft, Files)
        direct == Built(draft, Files)
        staged == Built(encoded.draft, encoded.files)
    IN  /\ staged.media = EncodedMedia(draft, Files)
        /\ Holds(staged.artwork) = Holds(direct.artwork)
        /\ SameAssets(staged, direct) /\ staged.waves = direct.waves

(* The one-step import and the draft of the same directory agree: the same    *)
(* tracks at the same paths, the same artwork and assets (main.c:2117, 3307), *)
(* for an album whose discs are numbered without gaps and whose numbers are   *)
(* either all in the tags or all from the file names, and distinct.           *)
Regular(a) ==
  /\ \A t, u \in a.tracks : t # u /\ Disc(t) = Disc(u) => t.tagNum # u.tagNum \/ t.tagNum = 0
  /\ \A t, u \in a.tracks : Disc(t) = Disc(u) => (t.tagNum = 0) = (u.tagNum = 0)
  /\ {Disc(t) : t \in a.tracks} = 1 .. Max({Disc(t) : t \in a.tracks})
  /\ a.cover = <<>> \/ \A t \in a.tracks : t.pics = <<>>
ImportAgrees ==
  Regular(album) =>
    LET opened == [Inspected(album) EXCEPT !.wave.status = "disabled"]
        built == Built(opened, SourceFiles(album))
    IN  /\ Verifies(Imported(album))
        /\ SharesRole(opened) \/ Builds(opened, SourceFiles(album))
        /\ built.media = Imported(album).media
        /\ SharesRole(opened) \/ Holds(built.artwork) = Holds(Imported(album).artwork)
        /\ SameAssets(built, Imported(album))

(* Saving an opened package keeps its booklet, lyrics and extras. The code    *)
(* writes them to the draft as strings and reads only objects (main.c:3113,   *)
(* draft.c:203).                                                             *)
SaveKeepsAssets ==
  package # NoPackage /\ Builds(Opened(package), package.files) =>
    SameAssets(Built(Opened(package), package.files), package)
=============================================================================
