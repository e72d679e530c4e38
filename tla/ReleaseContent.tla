---------------------------- MODULE ReleaseContent ----------------------------
(* The rows the server keeps for the inside of a release: media, tracks with *)
(* their audio object and waveform, alternate representations, assets        *)
(* (server/src/library.c).  Ingesting a manifest rewrites them in one        *)
(* transaction, statement by statement, and matches what the manifest lists  *)
(* with the rows already there so that ids handed out by the API survive.    *)
EXTENDS ReleaseTables

CONSTANTS
  Releases,    \* the releases whose rows share the tables
  Manifests,   \* per release: the manifests that may be ingested
  MaxIngests,  \* bound: manifests ingested
  MaxAborts    \* bound: transactions that do not commit

ASSUME IngestsAssumption == MaxIngests \in Nat /\ MaxAborts \in Nat
ASSUME ManifestsAssumption == \A rel \in Releases : \A m \in Manifests[rel] : Admissible(m)

VARIABLES
  rows,     \* the tables as the open transaction sees them
  stored,   \* the tables as committed, which is what the API reads
  current,  \* per release: the manifest last committed
  txn,      \* the transaction
  highest,  \* the highest track id ever committed
  ingests, aborts
vars == <<rows, stored, current, txn, highest, ingests, aborts>>

(* ---- the transaction ----------------------------------------------------- *)
Closed == [step |-> "closed"]
InStep(step) == txn.step = step
Go(step) == txn' = [txn EXCEPT !.step = step, !.i = 1]
Keep == UNCHANGED <<stored, current, highest, ingests, aborts>>

Ingest(rel, m) ==
  /\ InStep("closed") /\ ingests < MaxIngests
  /\ txn' = [step |-> "media", i |-> 1, release |-> rel, manifest |-> m,
             old |-> Snapshot(stored, rel), variants |-> VariantsOf(stored, rel),
             assets |-> AssetsOf(stored, rel)]
  /\ ingests' = ingests + 1
  /\ UNCHANGED <<rows, stored, current, highest, aborts>>

(* A medium for every disc.  Discs come with their tracks, so going through  *)
(* the tracks goes through the discs in order.                               *)
UpsertMedia ==
  LET tracks == txn.manifest.tracks IN
  /\ InStep("media")
  /\ IF txn.i > Len(tracks) THEN Go("tracks") /\ UNCHANGED rows
     ELSE /\ rows' = WithMedium(rows, txn.release, tracks[txn.i].disc)
          /\ txn' = [txn EXCEPT !.i = @ + 1]
  /\ Keep

SyncTrack ==
  LET track == txn.manifest.tracks[txn.i]
      medium == CHOOSE m \in MediaOf(rows, txn.release) : m.disc = track.disc
  IN
  /\ InStep("tracks") /\ txn.i <= Len(txn.manifest.tracks)
  /\ \/ \E r \in Match(txn.old, track) :
          /\ rows' = Updated(rows, r.id, medium.id, track, txn.variants)
          /\ txn' = [txn EXCEPT !.i = @ + 1, !.old = @ \ {r}]
     \/ /\ Match(txn.old, track) = {}
        /\ rows' = Inserted(rows, NewId(rows.tracks), medium.id, track)
        /\ txn' = [txn EXCEPT !.i = @ + 1]
  /\ Keep

(* Rows that matched nothing are deleted.                                    *)
DropTracks ==
  /\ InStep("tracks") /\ txn.i > Len(txn.manifest.tracks)
  /\ rows' = WithoutTracks(rows, {t \in rows.tracks : t.id \in {r.id : r \in txn.old}})
  /\ Go("shells")
  /\ Keep

(* The media of discs that are gone are deleted with whatever is under them. *)
DropMedia ==
  /\ InStep("shells")
  /\ rows' = WithoutMedia(rows, {m \in MediaOf(rows, txn.release) :
                                   m.disc \notin DiscsOf(txn.manifest)})
  /\ Go("assets")
  /\ Keep

SyncAsset ==
  /\ InStep("assets") /\ txn.i <= Len(txn.manifest.assets)
  /\ rows' = WithAsset(rows, txn.release, txn.manifest.assets[txn.i], txn.assets)
  /\ txn' = [txn EXCEPT !.i = @ + 1]
  /\ Keep

DropAssets ==
  LET listed == {a.key : a \in Listing(txn.manifest.assets)} IN
  /\ InStep("assets") /\ txn.i > Len(txn.manifest.assets)
  /\ rows' = [rows EXCEPT !.assets = @ \ {a \in txn.assets : a.key \notin listed}]
  /\ Go("commit")
  /\ Keep

Commit ==
  /\ InStep("commit")
  /\ stored' = rows
  /\ current' = [current EXCEPT ![txn.release] = txn.manifest]
  /\ highest' = IF NewId(rows.tracks) > highest THEN NewId(rows.tracks) - 1 ELSE highest
  /\ txn' = Closed
  /\ UNCHANGED <<rows, ingests, aborts>>

(* A statement fails and the caller rolls back, or the process dies.         *)

(* Mutant: a failed statement ends the ingest and what was written stays.    *)
AbortKeeping ==
  /\ ~InStep("closed") /\ aborts < MaxAborts
  /\ stored' = rows /\ txn' = Closed
  /\ aborts' = aborts + 1
  /\ UNCHANGED <<rows, current, highest, ingests>>

Abort ==
  /\ ~InStep("closed") /\ aborts < MaxAborts
  /\ rows' = stored /\ txn' = Closed
  /\ aborts' = aborts + 1
  /\ UNCHANGED <<stored, current, highest, ingests>>

Init ==
  /\ rows = NoRows /\ stored = NoRows
  /\ current = [r \in Releases |-> NoManifest]
  /\ txn = Closed
  /\ highest = 0 /\ ingests = 0 /\ aborts = 0

Next ==
  \/ \E rel \in Releases : \E m \in Manifests[rel] : Ingest(rel, m)
  \/ UpsertMedia \/ SyncTrack \/ DropTracks \/ DropMedia
  \/ SyncAsset \/ DropAssets \/ Commit \/ Abort

Spec == Init /\ [][Next]_vars

(* ---- properties ----------------------------------------------------------- *)
(* The id of the stored row a track, variant or asset is known by.           *)
TrackIds(db, rel, track) ==
  {t.id : t \in {t \in TracksOf(db, rel) :
     DiscOf(db, t) = track.disc /\ t.number = track.number /\ t.sha = track.sha}}
HoldersOf(m, sha) == {t \in Listing(m.tracks) : t.sha = sha}

(* What the API reads of a release is exactly the manifest last committed:   *)
(* one row for every entry and no other, nothing orphaned, although the rows *)
(* were rewritten in place, moved between discs, inserted and deleted, other *)
(* releases share the tables, and ingests may fail half way                  *)
(* (library.c:1712).                                                         *)
ContentMirrorsManifest ==
  /\ \A v \in stored.variants : \E t \in stored.tracks : t.id = v.track
  /\ \A t \in stored.tracks : \E m \in stored.media : m.id = t.media
  /\ \A rel \in Releases :
       LET m == current[rel]
           Shown(t) == [disc |-> DiscOf(stored, t), number |-> t.number, sha |-> t.sha,
                        waveform |-> t.waveform,
                        reps |-> {[path |-> v.path, sha |-> v.sha] :
                                    v \in {v \in stored.variants : v.track = t.id}}]
       IN /\ {Shown(t) : t \in TracksOf(stored, rel)} =
               {[t EXCEPT !.reps = Listing(@)] : t \in Listing(m.tracks)}
          /\ Cardinality(TracksOf(stored, rel)) = Len(m.tracks)
          /\ {x.disc : x \in MediaOf(stored, rel)} = DiscsOf(m)
          /\ Cardinality(MediaOf(stored, rel)) = Cardinality(DiscsOf(m))
          /\ {[key |-> a.key, sha |-> a.sha] : a \in AssetsOf(stored, rel)} = Listing(m.assets)
          /\ Cardinality(AssetsOf(stored, rel)) = Len(m.assets)

(* "Identity follows audio content": a track whose audio occurs once before  *)
(* and once after an ingest keeps its id wherever it moved, an id never      *)
(* passes to other audio, and representations and assets that stay keep      *)
(* theirs (library.c:1067, library.c:1281, library.c:1677).                  *)
IdsFollowContent ==
  [][\A rel \in Releases :
       LET old == TracksOf(stored, rel)  new == TracksOf(stored', rel) IN
       /\ \A a \in old, b \in new :
            /\ a.sha = b.sha /\ Cardinality(HoldersOf(current[rel], a.sha)) = 1
                 /\ Cardinality(HoldersOf(current'[rel], a.sha)) = 1 => a.id = b.id
            /\ a.id = b.id => a.sha = b.sha
       /\ \A v \in VariantsOf(stored, rel), w \in VariantsOf(stored', rel) :
            v.track = w.track /\ v.path = w.path => v.id = w.id
       /\ \A a \in AssetsOf(stored, rel), b \in AssetsOf(stored', rel) :
            a.key = b.key <=> a.id = b.id]_vars

(* Ingesting a manifest again changes no row, duplicates of the same audio   *)
(* included, and no ingest touches the rows of another release               *)
(* (library.c:1047, library.c:1778).                                         *)
ReingestChangesNothing ==
  [][\A rel \in Releases : current'[rel] = current[rel] =>
       /\ MediaOf(stored', rel) = MediaOf(stored, rel)
       /\ TracksOf(stored', rel) = TracksOf(stored, rel)
       /\ VariantsOf(stored', rel) = VariantsOf(stored, rel)
       /\ AssetsOf(stored', rel) = AssetsOf(stored, rel)]_vars

(* "duplicate audio content within one package can only be matched           *)
(* positionally, never by content alone" (musicpack-api-v1.md:145-147).  A copy  *)
(* listed before a track that did not change takes its row.                  *)
UnmovedKeepsId ==
  [][\A rel \in Releases : \A t \in Listing(current[rel].tracks) :
       (\E u \in Listing(current'[rel].tracks) :
          u.disc = t.disc /\ u.number = t.number /\ u.sha = t.sha)
         => TrackIds(stored', rel, t) = TrackIds(stored, rel, t)]_vars

(* "removing an entry from a manifest deletes its rows (with them, their     *)
(* ids); re-adding it later yields fresh ids" (musicpack-api-v1.md:141-142).     *)
(* The table hands the highest id out again.                                 *)
NewIdsAreFresh ==
  [][\A t \in stored'.tracks :
       t.id <= highest => \E u \in stored.tracks : u.id = t.id]_vars
=============================================================================
