---------------------------- MODULE LibraryServer ----------------------------
(* The HTTP API of the server over the library database while a background  *)
(* job rewrites it (server/src/api.c, sessions.c, tokens.c, http.c).         *)
(* One thread answers requests.  Every statement of a handler reads its own  *)
(* snapshot of what is committed; a job holds the write lock from the begin  *)
(* of a transaction to its end, and the request thread does not wait for it. *)
EXTENDS Catalogue

CONSTANTS
  Tokens,       \* names of bearer tokens
  SessionDays,  \* days a session lasts from its last use
  MaxSessions,  \* bound: sessions created
  Visits        \* what an instance looks at: the requests, the packages a job
                \* may find, whether it verifies them, and how often it writes;
                \* the days that pass

ASSUME DaysAssumption == SessionDays \in Nat
\* Who exchanges a token names one, or sends what cannot be read.
ASSUME VisitsAssumption ==
  \A v \in Visits : \A req \in v.requests :
    req.path = "session" /\ req.method = "POST" => req.body \in Tokens \cup {"malformed"}

VARIABLES
  db,        \* the committed library
  writer,    \* the open write transaction of a job
  job,       \* the kind of the running job
  writes,    \* what is left for jobs to write
  tokens, sessions,
  now,       \* the day
  request,   \* the request being answered
  answer,    \* what has just been answered
  wrote,     \* history: per release, the manifest its content was written from
  told,      \* history: those of the release being answered, while it is
  seen,      \* history: per session, the last day its use could be recorded
  visit
vars == <<db, writer, job, writes, tokens, sessions, now, request, answer, wrote, told, seen, visit>>

Free == [open |-> FALSE]
Idle == [step |-> 0]
NoAnswer == [status |-> 0]

Init ==
  /\ visit \in Visits
  /\ db = EmptyLibrary /\ writer = Free /\ job = "idle" /\ writes = visit.writes
  /\ tokens = [t \in Tokens |-> "none"] /\ sessions = <<>> /\ now = 0
  /\ request = Idle /\ answer = NoAnswer
  /\ wrote = {} /\ told = {} /\ seen = <<>>

LibraryKept == UNCHANGED <<db, writer, job, writes, wrote>>
AccountsKept == UNCHANGED <<tokens, sessions, now, seen>>
Unanswered == answer' = NoAnswer

-----------------------------------------------------------------------------
(* The routes.  A request has an origin header, a method, a path with ids (0 *)
(* for one that does not parse), and a credential or a body.                 *)

Content == {"artists", "artist", "albums", "album", "release", "track", "audio",
            "waveform", "representation", "asset"}
Jobs == {"scan", "verify"}

\* Answered before anyone is asked who they are; 0 when not.
Gate(req) ==
  CASE req.origin = "foreign" -> 403
    [] req.method = "OPTIONS" -> IF req.origin = "none" THEN 403 ELSE 204
    [] req.method = "PUT" -> 405
    [] req.path = "health" -> 200
    [] req.path = "session" /\ req.method = "HEAD" -> 405
    [] req.path = "session" /\ req.method = "POST" /\ req.body = "malformed" -> 400
    [] OTHER -> 0
Protected(req) == req.path # "session"

\* Answered once they are known; 0 when the library is looked at first.
Known(req) ==
  CASE req.path \in Jobs -> IF req.method # "POST" THEN 405
                            ELSE IF job # "idle" THEN 409 ELSE 202
    [] req.path = "status" -> 200
    [] req.path = "tracks" -> 400
    [] req.path \in Content \ {"artists", "albums"} /\ req.id = 0 -> 400
    [] req.path = "representation" /\ req.sub = 0 -> 400
    [] req.path \notin Content -> 404
    [] OTHER -> 0

-----------------------------------------------------------------------------
(* Credentials.                                                              *)

\* Mutant: a token's end does not reach its sessions.
AcceptedOnItsOwn(req) ==
  \/ req.via = "bearer" /\ tokens[req.who] = "active"
  \/ /\ req.via = "cookie" /\ req.who \in DOMAIN sessions
     /\ LET s == sessions[req.who] IN ~s.revoked /\ s.until >= now

(* A session counts while it is not logged out or expired and its token is   *)
(* active.  A bearer header is looked at alone, cookie or not.               *)
Accepted(req) ==
  \/ req.via = "bearer" /\ tokens[req.who] = "active"
  \/ /\ req.via = "cookie" /\ req.who \in DOMAIN sessions
     /\ LET s == sessions[req.who]
        IN  ~s.revoked /\ tokens[s.token] = "active" /\ s.until >= now

(* Use moves the end of a session, unless a job is writing.                  *)
Slid(req) ==
  IF req.via = "cookie" /\ Accepted(req) /\ ~writer.open
  THEN /\ sessions' = [sessions EXCEPT ![req.who].until = now + SessionDays]
       /\ seen' = [seen EXCEPT ![req.who] = now]
  ELSE UNCHANGED <<sessions, seen>>

-----------------------------------------------------------------------------
(* Requests that are answered at once.                                       *)

Answered(req, status) == answer' = [status |-> status, req |-> req, parts |-> <<>>]

Turn(req) == request = Idle /\ req \in visit.requests

Gated(req) ==
  /\ Turn(req) /\ Gate(req) # 0
  /\ Answered(req, Gate(req))
  /\ LibraryKept /\ AccountsKept /\ UNCHANGED <<request, told, visit>>

Unauthorized(req) ==
  /\ Turn(req) /\ Gate(req) = 0 /\ Protected(req) /\ ~Accepted(req)
  /\ Answered(req, 401)
  /\ LibraryKept /\ AccountsKept /\ UNCHANGED <<request, told, visit>>

Direct(req) ==
  /\ Turn(req) /\ Gate(req) = 0 /\ Protected(req) /\ Accepted(req) /\ Known(req) # 0
  /\ Slid(req)
  /\ Answered(req, Known(req))
  /\ job' = IF Known(req) = 202 THEN req.path ELSE job
  /\ UNCHANGED <<db, writer, writes, wrote, tokens, now, request, told, visit>>

(* The probe is answered without asking; a session it is made with slides.   *)
Probe(req) ==
  /\ Turn(req) /\ Gate(req) = 0 /\ req.path = "session" /\ req.method = "GET"
  /\ Slid(req)
  /\ Answered(req, 200)
  /\ LibraryKept /\ UNCHANGED <<tokens, now, request, told, visit>>

(* Logging out: answered well also when the row could not be written.        *)
Logout(req) ==
  /\ Turn(req) /\ Gate(req) = 0 /\ req.path = "session" /\ req.method = "DELETE"
  /\ sessions' = IF req.via = "cookie" /\ req.who \in DOMAIN sessions /\ ~writer.open
                 THEN [sessions EXCEPT ![req.who].revoked = TRUE] ELSE sessions
  /\ Answered(req, 204)
  /\ LibraryKept /\ UNCHANGED <<tokens, now, seen, request, told, visit>>

-----------------------------------------------------------------------------
(* Exchange of a token for a session: the token is looked up, then the row   *)
(* is inserted, tried again for two seconds while a job writes.              *)

Exchange(req) ==
  /\ Turn(req) /\ Gate(req) = 0 /\ req.path = "session" /\ req.method = "POST"
  /\ IF tokens[req.body] = "active"
     THEN request' = [step |-> 1, req |-> req, parts |-> <<>>] /\ Unanswered
     ELSE UNCHANGED request /\ Answered(req, 401)
  /\ LibraryKept /\ AccountsKept /\ UNCHANGED <<told, visit>>

Exchanging == request # Idle /\ request.req.path = "session"

InsertSession ==
  /\ Exchanging /\ ~writer.open /\ Len(sessions) < MaxSessions
  /\ sessions' = Append(sessions, [token |-> request.req.body, revoked |-> FALSE,
                                   until |-> now + SessionDays])
  /\ seen' = Append(seen, now)
  /\ Answered(request.req, 200)
  /\ request' = Idle
  /\ LibraryKept /\ UNCHANGED <<tokens, now, told, visit>>

\* Mutant: contention passes for a bad token.
GiveUpRefusing ==
  /\ Exchanging /\ writer.open
  /\ Answered(request.req, 401)
  /\ request' = Idle
  /\ LibraryKept /\ AccountsKept /\ UNCHANGED <<told, visit>>

GiveUp ==
  /\ Exchanging /\ writer.open
  /\ Answered(request.req, 503)
  /\ request' = Idle
  /\ LibraryKept /\ AccountsKept /\ UNCHANGED <<told, visit>>

-----------------------------------------------------------------------------
(* Requests for content: an answer is put together from snapshots.           *)

Steps(req) == CASE req.path = "release" -> 3
                [] req.path \in {"artists", "artist", "albums", "album"} -> 2
                [] OTHER -> 1

Has(table, id) == \E row \in table : row.id = id

Found(req, step) ==
  CASE req.path = "release" -> step = 1 => Servable(db, req.id)
    [] req.path = "album" -> IF step = 1 THEN Has(db.groups, req.id)
                             ELSE AlbumReleases(db, req.id) # {}
    [] req.path = "artist" -> step = 1 => Has(db.artists, req.id)
    [] req.path \in {"track", "audio"} -> TrackAudio(db, req.id) # {}
    [] req.path = "waveform" -> TrackWaveform(db, req.id) # {}
    [] req.path = "representation" -> TrackVariant(db, req.id, req.sub) # {}
    [] req.path = "asset" -> AssetObject(db, req.id) # {}
    [] OTHER -> TRUE

Read(req, step) ==
  CASE req.path = "release" -> IF step = 1 THEN ReleaseHead(db, req.id)
                               ELSE IF step = 2 THEN ReleaseMedia(db, req.id)
                               ELSE ReleaseAssets(db, req.id)
    [] req.path = "album" -> IF step = 1 THEN AlbumHead(db, TheRow(db.groups, req.id))
                             ELSE AlbumReleases(db, req.id)
    [] req.path = "albums" -> IF step = 1 THEN Cardinality(GroupsShown(db))
                              ELSE {AlbumHead(db, g) : g \in GroupsShown(db)}
    [] req.path = "artist" -> IF step = 1 THEN TheRow(db.artists, req.id).name
                              ELSE ArtistAlbums(db, req.id)
    [] req.path = "artists" -> IF step = 1 THEN Cardinality(ArtistsShown(db)) ELSE ArtistRows(db)
    [] req.path = "track" -> {TrackBody(db, t) : t \in TrackAudio(db, req.id)}
    [] req.path = "audio" -> {t.sha : t \in TrackAudio(db, req.id)}
    [] req.path = "waveform" -> {t.sha : t \in TrackWaveform(db, req.id)}
    [] req.path = "representation" -> {v.sha : v \in TrackVariant(db, req.id, req.sub)}
    [] req.path = "asset" -> {a.sha : a \in AssetObject(db, req.id)}

\* What the content of a release was written from.
Behind(rel) == {w.manifest : w \in {w \in wrote : w.release = rel}}

Admit(req) ==
  /\ Turn(req) /\ Gate(req) = 0 /\ Protected(req) /\ Accepted(req) /\ Known(req) = 0
  /\ Slid(req)
  /\ request' = [step |-> 1, req |-> req, parts |-> <<>>]
  /\ Unanswered
  /\ LibraryKept /\ UNCHANGED <<tokens, now, told, visit>>

Fetch ==
  LET req == request.req  step == request.step
      parts == Append(request.parts, Read(req, step))
  IN
  /\ request # Idle /\ req.path \in Content
  /\ IF ~Found(req, step)
     THEN Answered(req, 404) /\ request' = Idle /\ told' = {}
     ELSE IF step < Steps(req)
     THEN /\ request' = [step |-> step + 1, req |-> req, parts |-> parts]
          /\ told' = IF req.path = "release" THEN told \cup Behind(req.id) ELSE {}
          /\ Unanswered
     ELSE /\ answer' = [status |-> 200, req |-> req, parts |-> parts, told |-> told]
          /\ request' = Idle /\ told' = {}
  /\ LibraryKept /\ AccountsKept /\ UNCHANGED visit

-----------------------------------------------------------------------------
(* The job writes, one transaction at a time.                                *)

\* The release a package takes over with its manifest, and the manifest.
TakenBy(library, place, m) ==
  IF Takes(db, place, m) THEN {[release |-> library.packages[place].release, manifest |-> m]}
  ELSE {}

Begin(place, m, full) ==
  LET library == Ingested(db, place, m, full) IN
  /\ job = "scan" /\ ~writer.open /\ writes > 0
  /\ writer' = [open |-> TRUE, place |-> place, library |-> library,
                fails |-> Clashes(db, m) /\ Takes(db, place, m),
                takes |-> TakenBy(library, place, m)]
  /\ writes' = writes - 1
  /\ Unanswered /\ AccountsKept /\ UNCHANGED <<db, job, wrote, request, told, visit>>

Commit ==
  /\ writer.open /\ ~writer.fails
  /\ db' = writer.library
  /\ wrote' = {w \in wrote : \A t \in writer.takes : w.release # t.release} \cup writer.takes
  /\ told' = IF told = {} THEN {}
             ELSE told \cup {t.manifest : t \in {t \in writer.takes : t.release = request.req.id}}
  /\ writer' = Free
  /\ Unanswered /\ AccountsKept /\ UNCHANGED <<job, writes, request, visit>>

\* A statement fails, of itself or because two albums have one MusicBrainz id.
Rollback ==
  /\ writer.open
  /\ writer' = Free
  /\ Unanswered /\ AccountsKept
  /\ UNCHANGED <<db, job, writes, wrote, request, told, visit>>

(* What a job records of a package it need not ingest: a verification its    *)
(* verdict, a light scan that objects are missing or that the package is     *)
(* there again.                                                              *)
Verdicts(package) ==
  IF job = "verify"
  THEN IF ~Present(package) THEN {}
       ELSE {<<"warning", "unverified">>, <<"checksum-failed", "checksum-failed">>,
             <<"valid", "valid">>}
  ELSE {<<"warning", "unverified">>} \cup
         IF package.status = "unavailable" THEN {<<"valid", package.verify>>} ELSE {}
Record(place) ==
  /\ job # "idle" /\ ~writer.open /\ writes > 0
  /\ db.packages[place].status # "none"
  /\ \E v \in Verdicts(db.packages[place]) :
       db' = [db EXCEPT !.packages[place].status = v[1], !.packages[place].verify = v[2]]
  /\ writes' = writes - 1
  /\ Unanswered /\ AccountsKept /\ UNCHANGED <<writer, job, wrote, request, told, visit>>

(* A scan ends by recording what it did not come across.                     *)
Sweep ==
  /\ job = "scan" /\ ~writer.open /\ writes > 0
  /\ \E gone \in SUBSET {p \in Places : db.packages[p].status
                                            \notin {"none", "unavailable", "conflict"}} :
       db' = [db EXCEPT !.packages =
                [p \in Places |-> IF p \in gone THEN [@[p] EXCEPT !.status = "unavailable"]
                                  ELSE @[p]]]
  /\ job' = "idle" /\ writes' = writes - 1
  /\ Unanswered /\ AccountsKept /\ UNCHANGED <<writer, wrote, request, told, visit>>

JobEnds ==
  /\ job # "idle" /\ ~writer.open
  /\ job' = "idle"
  /\ Unanswered /\ AccountsKept /\ UNCHANGED <<db, writer, writes, wrote, request, told, visit>>

-----------------------------------------------------------------------------
(* The operator and the calendar.  Creating and revoking a token waits for   *)
(* the write lock.                                                           *)

TokenCreate(t) ==
  /\ tokens[t] = "none" /\ ~writer.open
  /\ tokens' = [tokens EXCEPT ![t] = "active"]
  /\ Unanswered /\ LibraryKept /\ UNCHANGED <<sessions, now, seen, request, told, visit>>
TokenRevoke(t) ==
  /\ tokens[t] = "active" /\ ~writer.open /\ t \in visit.revoked
  /\ tokens' = [tokens EXCEPT ![t] = "revoked"]
  /\ Unanswered /\ LibraryKept /\ UNCHANGED <<sessions, now, seen, request, told, visit>>

Tick ==
  /\ now < visit.days
  /\ now' = now + 1
  /\ Unanswered /\ LibraryKept /\ UNCHANGED <<tokens, sessions, seen, request, told, visit>>

Next ==
  \/ \E req \in visit.requests :
       \/ Gated(req) \/ Unauthorized(req) \/ Direct(req) \/ Probe(req) \/ Logout(req)
       \/ Exchange(req) \/ Admit(req)
  \/ InsertSession \/ GiveUp \/ Fetch
  \/ \E place \in Places, m \in visit.manifests, full \in visit.verifying :
       Begin(place, m, full)
  \/ Commit \/ Rollback \/ Sweep \/ JobEnds
  \/ \E place \in Places : Record(place)
  \/ \E t \in Tokens : TokenCreate(t) \/ TokenRevoke(t)
  \/ Tick

Spec == Init /\ [][Next]_vars
-----------------------------------------------------------------------------
(* Properties.                                                               *)

\* The artist shown for a credit has its id or its name.
Credited(shown, credits) ==
  /\ Len(shown) = Len(credits)
  /\ \A i \in DOMAIN shown : \E a \in db.artists :
       /\ a.name = shown[i]
       /\ a.fold = credits[i].fold \/ (a.mbid = credits[i].mbid /\ a.mbid # "none")
ListsMedia(media, m) ==
  LET discs == {d.disc : d \in media}
      At(t)  == UNION {d.tracks : d \in {d \in media : d.disc = t.disc}}
  IN  /\ discs = DiscsOf(m) /\ Cardinality(media) = Cardinality(discs)
      /\ Cardinality(UNION {d.tracks : d \in media}) = Len(m.tracks)
      /\ \A t \in Listing(m.tracks) : \E b \in At(t) :
           /\ b.number = t.number /\ b.sha = t.sha /\ b.waveform = t.waveform
           /\ Credited(b.artists, t.credits)
           /\ b.reps = {} \/ {[path |-> r.path, sha |-> r.sha] : r \in b.reps} = Listing(t.reps)

(* A release is answered from three snapshots between which a job may rewrite*)
(* it, give its ids to other rows and change artists other releases share.   *)
(* Each part is, in full and with nothing of another release, what one       *)
(* manifest of that release listed while the answer was put together         *)
(* (api.c:1186, library.c:1712).                                             *)
AnswersAreWhole ==
  answer.status = 200 /\ answer.req.path = "release" =>
    /\ \E m \in answer.told : answer.parts[1].label = m.label
    /\ \E m \in answer.told : ListsMedia(answer.parts[2], m)
    /\ \E m \in answer.told :
         /\ {[key |-> a.key, sha |-> a.sha] : a \in answer.parts[3]} = Listing(m.assets)
         /\ Cardinality(answer.parts[3]) = Len(m.assets)

(* What the API lists it serves: every link of a release that may be shown   *)
(* resolves, extras aside, its album and artists are listed; and the ids of  *)
(* a release that may not be shown resolve to nothing (api.c:31).            *)
ListedIsServed ==
  \A r \in db.releases :
    LET mine == TracksOf(db, r.id)  shown == Servable(db, r.id) IN
    /\ \A t \in mine : /\ (TrackAudio(db, t.id) # {}) = shown
                       /\ (TrackWaveform(db, t.id) # {}) = (shown /\ t.waveform)
    /\ \A v \in VariantsOf(db, r.id) : (TrackVariant(db, v.track, v.id) # {}) = shown
    /\ \A a \in AssetsOf(db, r.id) :
         (AssetObject(db, a.id) # {}) = (shown /\ a.key.kind # "extra")
    /\ shown => \E g \in GroupsShown(db) :
         g.id = r.group /\ \A a \in Listing(g.artists) : Has(ArtistsShown(db), a)

(* "There is one row per artist": none is rewritten or loses its id once it  *)
(* has one, and no two have one name or one MusicBrainz id, in whatever      *)
(* order packages that spell them differently are ingested (library.c:316).  *)
ArtistsKeepIdentity ==
  /\ \A a \in db.artists : \E b \in db'.artists :
       /\ b.id = a.id /\ b.name = a.name /\ b.fold = a.fold
       /\ a.mbid # "none" => b.mbid = a.mbid
  /\ \A a, b \in db'.artists :
       a.fold = b.fold \/ (a.mbid = b.mbid /\ a.mbid # "none") => a = b

(* An ingest changes the release it takes over and no other, whatever ids    *)
(* they share tables and artists with; one that is quarantined or mirrors    *)
(* the owner changes only its own package's row (scanner.c:246); and artists *)
(* that releases share keep their identity.                                  *)
IngestsStayApart ==
  [][ArtistsKeepIdentity /\ (Commit =>
       /\ \A r \in db.releases : (\A t \in writer.takes : t.release # r.id) =>
            /\ r \in db'.releases
            /\ ReleaseMedia(db, r.id)
                 = {[disc |-> m.disc,
                     tracks |-> {[id |-> t.id, number |-> t.number, sha |-> t.sha,
                                  waveform |-> t.waveform, artists |-> TrackArtists(db', t.id),
                                  reps |-> {[id |-> v.id, path |-> v.path, sha |-> v.sha] :
                                              v \in TrackVariants(db, t.id)}] :
                                   t \in {t \in db'.tracks : t.media = m.id}}] :
                      m \in MediaOf(db', r.id)}
            /\ VariantsOf(db, r.id) = VariantsOf(db', r.id)
            /\ AssetsOf(db, r.id) = AssetsOf(db', r.id)
       /\ writer.takes = {} => db' = [db EXCEPT !.packages[writer.place]
                                               = db'.packages[writer.place]])]_vars

\* Why a request may be refused.
Reason(req) ==
  IF req.path = "session" THEN tokens[req.body] # "active"
  ELSE CASE req.via = "bearer" -> tokens[req.who] # "active"
         [] req.via = "cookie" -> \/ req.who \notin DOMAIN sessions
                                  \/ sessions[req.who].revoked
                                  \/ tokens[sessions[req.who].token] # "active"
                                  \/ now > seen[req.who] + SessionDays
         [] OTHER -> TRUE

(* Who holds a good credential is never told it is bad, whatever a job is    *)
(* writing meanwhile; and nobody is let in by a token that was revoked, a    *)
(* session from one, one logged out, or one unused for too long              *)
(* (sessions.c:118, sessions.c:140, tokens.c:124).                           *)
RefusalsHaveReasons ==
  [][/\ answer'.status = 401 => Reason(answer'.req)
     /\ request = Idle /\ request' # Idle => ~Reason(request'.req)]_vars
=============================================================================
