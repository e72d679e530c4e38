--------------------------- MODULE MCLibraryServer ---------------------------
(* Small instances of LibraryServer for TLC.                                 *)
EXTENDS LibraryServer

Credit(name, fold, mbid) == [name |-> name, fold |-> fold, mbid |-> mbid, sort |-> mbid # "none"]
Ann      == Credit("Ann", "ann", "none")
AnnAgain == Credit("ANN", "ann", "id1")
Anna     == Credit("Anna", "anna", "id1")
AnnElse  == Credit("Ann", "ann", "id2")

Asset(kind, role, sha) == [key |-> [kind |-> kind, role |-> role, path |-> role], sha |-> sha]
Track(disc, number, sha, extra, credits) ==
  [disc |-> disc, number |-> number, sha |-> sha, waveform |-> extra, credits |-> credits,
   reps |-> IF extra THEN <<[path |-> "p", sha |-> sha]>> ELSE <<>>]

Manifest(title, mbid, canonical, artists, edition, label, tracks, assets) ==
  [title |-> title, mbid |-> mbid, canonical |-> canonical, artists |-> artists,
   edition |-> edition, label |-> label, objects |-> "sound", tracks |-> tracks,
   assets |-> assets]

\* One release in two versions: the audio moves, leaves and arrives.
First == Manifest("A", "g1", TRUE, <<Ann>>, "e1", "one",
                  <<Track(1, 1, "a", TRUE, <<Ann>>), Track(1, 2, "b", FALSE, <<AnnElse>>)>>,
                  <<Asset("artwork", "front", "x"), Asset("extra", "log", "y")>>)
Second == Manifest("A2", "g1", TRUE, <<AnnAgain>>, "e1", "two",
                   <<Track(2, 1, "b", TRUE, <<Anna, Ann>>), Track(1, 1, "c", FALSE, <<>>)>>,
                   <<Asset("lyrics", "words", "z"), Asset("artwork", "front", "z")>>)
\* Another edition of that album, and albums that claim one MusicBrainz id.
Other == Manifest("A3", "g1", TRUE, <<Anna>>, "e2", "one",
                  <<Track(1, 1, "a", FALSE, <<Ann>>)>>, <<Asset("booklet", "book", "x")>>)
Raw(title) == [Manifest(title, "raw", FALSE, <<Anna>>, "e1", "one",
                        <<Track(1, 1, "d", TRUE, <<AnnAgain>>)>>, <<>>)
                 EXCEPT !.objects = "missing"]

Ask(path, id, sub) ==
  [origin |-> "none", method |-> "GET", path |-> path, id |-> id, sub |-> sub,
   via |-> "bearer", who |-> "t1", body |-> "none"]
Start(kind) == [Ask(kind, 0, 0) EXCEPT !.method = "POST"]
ByCookie(req) == [req EXCEPT !.via = "cookie", !.who = 1]

\* A reader of a library that changes.
Reader(manifests, verifying, requests) ==
  [requests |-> requests \cup {Start("scan"), Start("verify")},
   manifests |-> manifests, verifying |-> verifying, writes |-> 3, days |-> 0, revoked |-> {}]
ReadsOneRelease ==
  Reader({First, Second, Other}, BOOLEAN, {Ask("release", 1, 0)})
BrowsesTheLot ==
  Reader({First, Second, Other, Raw("P"), Raw("Q")}, {TRUE},
         {Ask("artists", 0, 0), Ask("artist", 1, 0), Ask("albums", 0, 0), Ask("album", 1, 0),
          Ask("release", 2, 0)})
PlaysThings ==
  Reader({First, Second}, {TRUE},
         {Ask("track", 1, 0), Ask("audio", 2, 0), Ask("waveform", 1, 0),
          Ask("representation", 1, 1), Ask("asset", 1, 0), Ask("asset", 2, 0)})

\* Callers of every kind, over days, while a job writes.
Session(method, body) ==
  [Ask("session", 0, 0) EXCEPT !.method = method, !.body = body, !.via = "none"]
Calls ==
  {Start("scan"), Session("POST", "t1"), Session("POST", "t2"), Session("POST", "malformed"),
   Session("HEAD", "none"), ByCookie(Session("DELETE", "none")), ByCookie(Session("GET", "none")),
   ByCookie(Ask("status", 0, 0)), ByCookie(Ask("albums", 0, 0)), Ask("artist", 0, 0),
   Ask("representation", 1, 0), Ask("tracks", 0, 0), Ask("nowhere", 0, 0), Ask("scan", 0, 0),
   Ask("health", 0, 0), [Ask("albums", 0, 0) EXCEPT !.via = "none"],
   [Ask("albums", 0, 0) EXCEPT !.origin = "foreign"],
   [Ask("albums", 0, 0) EXCEPT !.method = "OPTIONS"],
   [Ask("albums", 0, 0) EXCEPT !.method = "OPTIONS", !.origin = "same"],
   [Ask("albums", 0, 0) EXCEPT !.method = "PUT"]}
CallsOverDays ==
  [requests |-> Calls, manifests |-> {First}, verifying |-> {TRUE}, writes |-> 1, days |-> 3,
   revoked |-> {"t1"}]

AllVisits == {ReadsOneRelease, BrowsesTheLot, PlaysThings, CallsOverDays}
=============================================================================
