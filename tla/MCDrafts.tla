------------------------------- MODULE MCDrafts -------------------------------
(* Albums for Drafts: every rule of the scan and of the artwork is met by one. *)
EXTENDS Drafts

Track(id, order, ext) ==
  [id |-> id, order |-> order, dir |-> 0, tagDisc |-> 0, tagNum |-> 0, fileNum |-> 0,
   title |-> id, ext |-> ext, pics |-> <<>>, cover |-> FALSE, lyrics |-> FALSE]
Bare == [tracks |-> {}, cover |-> <<>>, booklet |-> <<>>, lyrics |-> <<>>, extras |-> <<>>, images |-> {}]
InDisc(k, name, ext) == Path("", k, 0, name, ext)
Named(name, ext) == InDisc(0, name, ext)

(* One disc in tag order, pictures embedded, every kind of asset.             *)
Tagged == [Bare EXCEPT
  !.tracks = {[Track("a", 1, ".flac") EXCEPT !.tagNum = 2, !.pics = <<"front">>],
              [Track("b", 2, ".flac") EXCEPT !.tagNum = 1, !.pics = <<"front", "back">>, !.lyrics = TRUE]},
  !.booklet = <<Named("booklet", ".pdf")>>, !.lyrics = <<Named("b", ".txt")>>,
  !.extras = <<Named("notes", ".txt"), InDisc(1, "notes", ".txt")>>]
(* Two discs, one by directory and one by tag; Musepack with a front cover.   *)
TwoDiscs == [Bare EXCEPT
  !.tracks = {[Track("a", 1, ".mpc") EXCEPT !.dir = 1, !.fileNum = 1, !.cover = TRUE],
              [Track("b", 2, ".mpc") EXCEPT !.tagDisc = 2, !.tagNum = 1]},
  !.images = {Named("scan", ".png")}]
(* No numbers; a local cover and other pictures.                              *)
Unnumbered2 == [Bare EXCEPT
  !.tracks = {Track("a", 1, ".wav"), [Track("b", 2, ".wav") EXCEPT !.fileNum = 1]},
  !.cover = <<Named("cover", ".jpg")>>, !.images = {Named("scan", ".jpg")}]
(* A number twice in the tags.                                                *)
Repeated == [Bare EXCEPT
  !.tracks = {[Track("a", 1, ".flac") EXCEPT !.tagNum = 1], [Track("b", 2, ".flac") EXCEPT !.tagNum = 1]}]
(* A disc is missing.                                                         *)
Gap == [Bare EXCEPT
  !.tracks = {[Track("a", 1, ".flac") EXCEPT !.dir = 1, !.tagNum = 1],
              [Track("b", 2, ".flac") EXCEPT !.dir = 3, !.tagNum = 1]}]
(* FLAC and Musepack tracks, both with a front picture, and a local picture.  *)
Mixed == [Bare EXCEPT
  !.tracks = {[Track("a", 1, ".flac") EXCEPT !.tagNum = 1, !.pics = <<"front">>],
              [Track("b", 2, ".mpc") EXCEPT !.tagNum = 2, !.cover = TRUE]},
  !.images = {Named("scan", ".jpg")}]

MCAlbums == {Tagged, TwoDiscs, Unnumbered2, Repeated, Gap, Mixed}
=============================================================================
