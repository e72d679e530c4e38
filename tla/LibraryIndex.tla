----------------------------- MODULE LibraryIndex -----------------------------
(***************************************************************************)
(* The server's library index: the filesystem it scans, the `packages` and *)
(* `releases` tables, and the three writers of those tables (the scan, the *)
(* library-wide verification and the unavailable sweep), with the rule     *)
(* that decides which release is servable.                                 *)
(*                                                                         *)
(*   src/server/src/scanner.c   process_package, ingest_valid, handle_move,*)
(*                              record_invalid, mp_scan_library,           *)
(*                              mp_verify_library                          *)
(*   src/server/src/library.c   the SQL the scanner runs                   *)
(*   src/server/src/api.c       VISIBLE                                    *)
(*                                                                         *)
(* A scanning process reads a package in three steps (hash the manifest;   *)
(* open the package and read its row; write), because the code re-reads    *)
(* manifest.json and reads the row before it opens its transaction.  Each  *)
(* write is one SQLite transaction and may fail.  Each package is read and *)
(* written by name, so the filesystem may change between any two steps.    *)
(*                                                                         *)
(* Data is abstracted to what identity and verification tell apart.  A     *)
(* manifest is a model value with a fingerprint; two manifests with one    *)
(* fingerprint differ in formatting only.  Manifests with different        *)
(* fingerprints declare different bytes under the same object names.       *)
(***************************************************************************)
EXTENDS Naturals, Sequences, FiniteSets

CONSTANTS
  Paths,          \* the places a .mpack directory can have under the root
  Manifests,      \* raw manifest.json texts that open as a package
  Broken,         \* raw manifest.json texts musicpack_package_open_dir rejects
  NoText,         \* manifest.json cannot be read (its stored sha is "")
  Fingerprints,   \* content fingerprints
  NoFp,           \* the fingerprint "" of an invalid row
  Releases,       \* release identities (group_key and release_key)
  FingerprintOf,  \* mp_identity_package_fingerprint of a manifest
  ReleaseOf,      \* release identity a fingerprint's content derives
  NoDir,          \* no directory at a path
  Placeable,      \* Placeable[p]: the directory contents that may occur at p
  Scanners,       \* the processes that scan: the server's worker, the CLI
  Worker,         \* the scanner that is the server's job worker
  Retries,        \* how often the verification retries a locked database (100)
  MaxEdits        \* bound on filesystem changes, for model checking only

Objects == {"intact", "extra", "missing", "altmissing", "damaged"}
Contents == [text : Manifests \cup Broken \cup {NoText}, objects : Objects]

ASSUME TextsAssumption ==
  /\ Manifests \cap Broken = {}
  /\ NoText \notin Manifests \cup Broken
ASSUME IdentityAssumption ==
  /\ NoFp \notin Fingerprints
  /\ FingerprintOf \in [Manifests -> Fingerprints]
  /\ ReleaseOf \in [Fingerprints -> Releases]
ASSUME PlacesAssumption ==
  /\ Paths # {}
  /\ NoDir \notin Contents
  /\ Placeable \in [Paths -> SUBSET Contents]
ASSUME BoundAssumption == MaxEdits \in Nat /\ Retries \in Nat
ASSUME ScannersAssumption == Worker \in Scanners /\ "nobody" \notin Scanners

Status == {"valid", "warning", "checksum-failed", "conflict", "invalid",
           "unavailable"}
VerifyStatus == {"unverified", "valid", "warning", "checksum-failed"}
Ok == {"valid", "warning"}
Absent == {"unavailable", "invalid", "conflict"}

(* One row of `packages`.  mark is last_scan: the scanner whose current    *)
(* scan stamped the row ("nobody" for an older scan).  release_id is not   *)
(* kept: it is always ReleaseOf[fp].  proof is a history variable, the     *)
(* fingerprint whose bytes the verification behind `verify` hashed.        *)
Row == [path : Paths, fp : Fingerprints \cup {NoFp},
        sha : Manifests \cup Broken \cup {NoText},
        status : Status, verify : VerifyStatus,
        mark : Scanners \cup {"nobody"},
        proof : Fingerprints \cup {NoFp}]

VARIABLES
  dirs,      \* the filesystem: what each path holds now
  packages,  \* table packages, a row per id in order of insertion
  owner,     \* releases.owner_package_id, 0 when the release has no row
  content,   \* fingerprint the release's media/track/asset rows come from
  scan,      \* the scan each process runs
  verifier,  \* the worker's mp_verify_library run
  edits      \* number of filesystem changes so far

vars == <<dirs, packages, owner, content, scan, verifier, edits>>

-----------------------------------------------------------------------------
(* Operators on the tables.                                                *)

(* mp_library_package_by_path, 0 when there is no row.                     *)
RowAt(p) ==
  IF \E i \in DOMAIN packages : packages[i].path = p
    THEN CHOOSE i \in DOMAIN packages : packages[i].path = p
    ELSE 0

(* mp_library_package_by_fingerprint: the lowest id, 0 when none.          *)
IsFirst(i, fp) == /\ packages[i].fp = fp
                  /\ \A j \in DOMAIN packages : packages[j].fp = fp => i <= j
RowWith(fp) == IF \E i \in DOMAIN packages : IsFirst(i, fp)
                 THEN CHOOSE i \in DOMAIN packages : IsFirst(i, fp)
                 ELSE 0

(* mp_library_package_owner_present                                        *)
Present(i) == i \in DOMAIN packages /\ packages[i].status \notin Absent

(* Insert (id 0) or update of one row; the UNIQUE index on path refuses a  *)
(* second row for a path.                                                  *)
CanPut(id, row) == \A j \in DOMAIN packages : packages[j].path = row.path => j = id
Put(id, row) == IF id = 0 THEN Append(packages, row)
                          ELSE [packages EXCEPT ![id] = row]

(* What musicpack_package_verify reports of the bytes a directory holds    *)
(* now against an opened manifest.                                         *)
Hashes(c, m) == /\ c # NoDir
                /\ c.text \in Manifests
                /\ FingerprintOf[c.text] = FingerprintOf[m]
                /\ c.objects \in {"intact", "extra"}
Audit(c, m) ==
  CASE ~Hashes(c, m) -> "checksum-failed"
    [] Hashes(c, m) /\ c.objects = "extra" -> "warning"
    [] OTHER -> "valid"

(* count_missing_objects > 0: tracks, artwork, booklet, lyrics, extras and *)
(* analysis are counted, waveforms and representations are not.            *)
CountsMissing(c) == c = NoDir \/ c.objects = "missing"

(* determine_status.  Mutant: a lightweight scan vouches for the bytes.    *)
DeterminedTrusting(c, m, full) ==
  IF full
    THEN [status |-> Audit(c, m), verify |-> Audit(c, m),
          proof |-> IF Audit(c, m) \in Ok THEN FingerprintOf[m] ELSE NoFp]
    ELSE [status |-> IF CountsMissing(c) THEN "warning" ELSE "valid",
          verify |-> "valid", proof |-> NoFp]
Determined(c, m, full) ==
  IF full
    THEN LET a == Audit(c, m) IN
         [status |-> a, verify |-> a,
          proof |-> IF a \in Ok THEN FingerprintOf[m] ELSE NoFp]
    ELSE [status |-> IF CountsMissing(c) THEN "warning" ELSE "valid",
          verify |-> "unverified", proof |-> NoFp]

(* A release is servable: VISIBLE over its owning package.                 *)
Visible(r) == /\ owner[r] \in DOMAIN packages
              /\ packages[owner[r]].status \in Ok
              /\ packages[owner[r]].verify \in Ok

-----------------------------------------------------------------------------
(* A plan is the write process_package has decided on: record an invalid   *)
(* package, rewrite the row, rewrite it as a move, or ingest.              *)

Plans == [op : {"none", "invalid", "update", "move", "ingest"},
          id : Nat, row : Row, man : Manifests \cup {NoText}]

ScanStates == [pc : {"idle", "walk", "open", "write"}, full : BOOLEAN,
               todo : SUBSET Paths, failed : BOOLEAN, calm : BOOLEAN,
               dir : Paths, sha : Manifests \cup Broken \cup {NoText},
               plan : Plans]

AnyPath == CHOOSE p \in Paths : TRUE
NoRow == [path |-> AnyPath, fp |-> NoFp, sha |-> NoText, status |-> "invalid",
          verify |-> "unverified", mark |-> "nobody", proof |-> NoFp]
NoPlan == [op |-> "none", id |-> 0, row |-> NoRow, man |-> NoText]
IdleScan == [pc |-> "idle", full |-> FALSE, todo |-> {}, failed |-> FALSE,
             calm |-> FALSE, dir |-> AnyPath, sha |-> NoText, plan |-> NoPlan]

VerifyEntries == [id : Nat, path : Paths]
VerifyStates == [pc : {"idle", "hash", "store"}, todo : SUBSET VerifyEntries,
                 entry : VerifyEntries, status : Status, tries : Nat,
                 verify : VerifyStatus, proof : Fingerprints \cup {NoFp}]
IdleVerifier == [pc |-> "idle", todo |-> {}, entry |-> [id |-> 0, path |-> AnyPath],
                 status |-> "valid", tries |-> 0, verify |-> "unverified",
                 proof |-> NoFp]

Init ==
  /\ dirs \in [Paths -> {NoDir}]
  /\ packages = <<>>
  /\ owner = [r \in Releases |-> 0]
  /\ content = [r \in Releases |-> NoFp]
  /\ scan = [s \in Scanners |-> IdleScan]
  /\ verifier = IdleVerifier
  /\ edits = 0

-----------------------------------------------------------------------------
(* The operator's filesystem: a directory appears, is replaced, loses or   *)
(* damages objects, disappears, or is renamed.  calm records that nothing  *)
(* changed since a scan began and that no record of an invalid package was *)
(* lost to a refused write, the one failure the scan does not count.       *)

Disturb == [s \in Scanners |-> [scan[s] EXCEPT !.calm = FALSE]]

ChangeDir ==
  /\ edits < MaxEdits
  /\ \E p \in Paths : \E c \in Placeable[p] \cup {NoDir} :
       /\ c # dirs[p]
       /\ dirs' = [dirs EXCEPT ![p] = c]
  /\ edits' = edits + 1
  /\ scan' = Disturb
  /\ UNCHANGED <<packages, owner, content, verifier>>

RenameDir ==
  /\ edits < MaxEdits
  /\ \E p, q \in Paths :
       /\ dirs[p] # NoDir /\ dirs[q] = NoDir
       /\ dirs[p] \in Placeable[q]
       /\ dirs' = [dirs EXCEPT ![p] = NoDir, ![q] = dirs[p]]
  /\ edits' = edits + 1
  /\ scan' = Disturb
  /\ UNCHANGED <<packages, owner, content, verifier>>

-----------------------------------------------------------------------------
(* The scan.                                                               *)

(* A new scan id: no row carries it yet.                                   *)
StartScan(s) ==
  /\ scan[s].pc = "idle"
  /\ s = Worker => verifier.pc = "idle"
  /\ \E full \in BOOLEAN :
       scan' = [scan EXCEPT ![s] = [IdleScan EXCEPT !.pc = "walk", !.full = full,
                                                    !.todo = Paths, !.calm = TRUE]]
  /\ packages' = [i \in DOMAIN packages |->
                    IF packages[i].mark = s THEN [packages[i] EXCEPT !.mark = "nobody"]
                                            ELSE packages[i]]
  /\ UNCHANGED <<dirs, owner, content, verifier, edits>>

(* readdir does not return a directory that is not there.                  *)
PassBy(s, p) ==
  /\ scan[s].pc = "walk" /\ p \in scan[s].todo
  /\ dirs[p] = NoDir
  /\ scan' = [scan EXCEPT ![s].todo = @ \ {p}]
  /\ UNCHANGED <<dirs, packages, owner, content, verifier, edits>>

(* opendir, lstat, closedir or a budget fails: a subtree is left unvisited. *)
TraversalError(s) ==
  /\ scan[s].pc = "walk"
  /\ \E left \in SUBSET scan[s].todo :
       scan' = [scan EXCEPT ![s].todo = left, ![s].failed = TRUE]
  /\ UNCHANGED <<dirs, packages, owner, content, verifier, edits>>

(* read_file_bounded and mp_identity_manifest_hash on one package.         *)
HashManifest(s, p) ==
  /\ scan[s].pc = "walk" /\ p \in scan[s].todo
  /\ dirs[p] # NoDir
  /\ scan' = [scan EXCEPT ![s].pc = "open", ![s].todo = @ \ {p},
                          ![s].dir = p, ![s].sha = dirs[p].text]
  /\ UNCHANGED <<dirs, packages, owner, content, verifier, edits>>

(* What musicpack_package_open_dir finds at the path now.                  *)
Opened(p) == IF dirs[p] # NoDir /\ dirs[p].text \in Manifests
               THEN dirs[p].text ELSE NoText

InvalidRow(s) == [path |-> scan[s].dir, fp |-> NoFp, sha |-> scan[s].sha,
                  status |-> "invalid", verify |-> "unverified", mark |-> s,
                  proof |-> NoFp]
InvalidPlan(s) == [op |-> "invalid", id |-> RowAt(scan[s].dir),
                   row |-> InvalidRow(s), man |-> NoText]

(* The unchanged-manifest fast path of a lightweight scan.                 *)
Refreshed(s, i) ==
  IF CountsMissing(dirs[scan[s].dir])
    THEN [packages[i] EXCEPT !.mark = s, !.status = "warning",
                             !.verify = "unverified", !.proof = NoFp]
    ELSE [packages[i] EXCEPT !.mark = s,
                             !.status = IF @ = "unavailable" THEN "valid" ELSE @]

(* handle_move: the row of this content at a path that is gone; a          *)
(* quarantined row stays quarantined.  Mutant: it does not.                *)
MovedRowReleased(s, i, m) ==
  LET d == Determined(dirs[scan[s].dir], m, scan[s].full)
  IN  [path |-> scan[s].dir, fp |-> FingerprintOf[m], sha |-> scan[s].sha,
       status |-> d.status, verify |-> d.verify, mark |-> s, proof |-> d.proof]
MovedRow(s, i, m) ==
  LET d == Determined(dirs[scan[s].dir], m, scan[s].full)
      quarantined == packages[i].status = "conflict"
  IN  [path |-> scan[s].dir, fp |-> FingerprintOf[m], sha |-> scan[s].sha,
       status |-> IF quarantined THEN "conflict" ELSE d.status,
       verify |-> IF quarantined THEN "unverified" ELSE d.verify,
       mark |-> s, proof |-> IF quarantined THEN NoFp ELSE d.proof]

IsMove(s, m) == LET i == RowWith(FingerprintOf[m]) IN
  /\ RowAt(scan[s].dir) = 0
  /\ i # 0
  /\ packages[i].path # scan[s].dir
  /\ dirs[packages[i].path] = NoDir

(* process_package from the manifest hash to the decision what to write.   *)
Decision(s) ==
  LET sha == scan[s].sha
      id == RowAt(scan[s].dir)
      m == Opened(scan[s].dir)
      unchanged == ~scan[s].full /\ id # 0 /\ packages[id].sha = sha
      settled == unchanged /\ packages[id].status = "invalid"
  IN  CASE sha = NoText -> InvalidPlan(s)
        [] sha # NoText /\ settled ->
             [op |-> "update", id |-> id, man |-> NoText,
              row |-> [packages[id] EXCEPT !.mark = s]]
        [] sha # NoText /\ ~settled /\ m = NoText -> InvalidPlan(s)
        [] sha # NoText /\ ~settled /\ m # NoText /\ unchanged ->
             [op |-> "update", id |-> id, row |-> Refreshed(s, id), man |-> NoText]
        [] sha # NoText /\ m # NoText /\ ~unchanged /\ IsMove(s, m) ->
             LET i == RowWith(FingerprintOf[m]) IN
             [op |-> "move", id |-> i, row |-> MovedRow(s, i, m), man |-> m]
        [] OTHER -> [op |-> "ingest", id |-> id, row |-> NoRow, man |-> m]

OpenPackage(s) ==
  /\ scan[s].pc = "open"
  /\ scan' = [scan EXCEPT ![s].pc = "write", ![s].plan = Decision(s)]
  /\ UNCHANGED <<dirs, packages, owner, content, verifier, edits>>

(* The loop goes on with the next directory.  Mutant: with this one again. *)
ResumeSame(s) == [scan[s] EXCEPT !.pc = "walk", !.plan = NoPlan,
                                 !.todo = @ \cup {scan[s].dir}]
Resume(s) == [scan[s] EXCEPT !.pc = "walk", !.plan = NoPlan]

(* The transaction of a row rewrite, a move, or an invalid record.         *)
WriteRow(s) ==
  /\ scan[s].pc = "write" /\ scan[s].plan.op \in {"invalid", "update", "move"}
  /\ CanPut(scan[s].plan.id, scan[s].plan.row)
  /\ packages' = Put(scan[s].plan.id, scan[s].plan.row)
  /\ scan' = [scan EXCEPT ![s] = Resume(s)]
  /\ UNCHANGED <<dirs, owner, content, verifier, edits>>

(* ingest_valid: the ownership decision and what follows from it.          *)
(* Mutants: any package the table knows already may take over; the id of   *)
(* an update is taken for that of an insert.                               *)
TakesWhenKnown(id, r) == id # 0 \/ ~Present(owner[r])
TakesOwnership(id, r) == \/ owner[r] = 0
                         \/ id # 0 /\ owner[r] = id
                         \/ ~Present(owner[r])
NextRowId(id) == Len(packages) + 1
IngestedId(id) == IF id = 0 THEN Len(packages) + 1 ELSE id
Conflicts(id, r, fp) == /\ ~TakesOwnership(id, r)
                        /\ packages[owner[r]].fp # fp

IngestedRow(s) ==
  LET m == scan[s].plan.man
      fp == FingerprintOf[m]
      d == Determined(dirs[scan[s].dir], m, scan[s].full)
      clash == Conflicts(scan[s].plan.id, ReleaseOf[fp], fp)
  IN  [path |-> scan[s].dir, fp |-> fp, sha |-> scan[s].sha,
       status |-> IF clash THEN "conflict" ELSE d.status,
       verify |-> IF clash THEN "unverified" ELSE d.verify,
       mark |-> s, proof |-> IF clash THEN NoFp ELSE d.proof]

Ingest(s) ==
  LET id == scan[s].plan.id
      fp == FingerprintOf[scan[s].plan.man]
      r == ReleaseOf[fp]
  IN
  /\ scan[s].pc = "write" /\ scan[s].plan.op = "ingest"
  /\ CanPut(id, IngestedRow(s))
  /\ packages' = Put(id, IngestedRow(s))
  /\ IF TakesOwnership(id, r)
       THEN /\ owner' = [owner EXCEPT ![r] = IngestedId(id)]
            /\ content' = [content EXCEPT ![r] = fp]
       ELSE UNCHANGED <<owner, content>>
  /\ scan' = [scan EXCEPT ![s] = Resume(s)]
  /\ UNCHANGED <<dirs, verifier, edits>>

(* A write that the database refuses: rolled back.  The failure of an      *)
(* invalid record is swallowed, a failed move falls through to ingest, and *)
(* any other failure makes the traversal incomplete.                       *)
WriteFails(s) ==
  /\ scan[s].pc = "write"
  /\ scan' =
       [scan EXCEPT ![s] =
          CASE scan[s].plan.op = "move" ->
                 [scan[s] EXCEPT !.plan = [op |-> "ingest", id |-> RowAt(scan[s].dir),
                                           row |-> NoRow, man |-> scan[s].plan.man]]
            [] scan[s].plan.op = "invalid" -> [Resume(s) EXCEPT !.calm = FALSE]
            [] OTHER -> [Resume(s) EXCEPT !.failed = TRUE]]
  /\ UNCHANGED <<dirs, packages, owner, content, verifier, edits>>

(* mp_library_package_sweep after a complete traversal.  Mutant: also      *)
(* after one that failed part way.                                         *)
SweepAnyway(s) ==
  /\ scan[s].pc = "walk" /\ scan[s].todo = {}
  /\ packages' = [i \in DOMAIN packages |->
       IF packages[i].mark # s /\ packages[i].status \notin {"unavailable", "conflict"}
         THEN [packages[i] EXCEPT !.status = "unavailable"]
         ELSE packages[i]]
  /\ scan' = [scan EXCEPT ![s] = IdleScan]
  /\ UNCHANGED <<dirs, owner, content, verifier, edits>>
Sweep(s) ==
  /\ scan[s].pc = "walk" /\ scan[s].todo = {} /\ ~scan[s].failed
  /\ packages' = [i \in DOMAIN packages |->
       IF packages[i].mark # s /\ packages[i].status \notin {"unavailable", "conflict"}
         THEN [packages[i] EXCEPT !.status = "unavailable"]
         ELSE packages[i]]
  /\ scan' = [scan EXCEPT ![s] = IdleScan]
  /\ UNCHANGED <<dirs, owner, content, verifier, edits>>

(* An incomplete traversal, or a sweep the database refuses: no sweep.     *)
AbortScan(s) ==
  /\ scan[s].pc = "walk" /\ scan[s].todo = {}
  /\ scan' = [scan EXCEPT ![s] = IdleScan]
  /\ UNCHANGED <<dirs, packages, owner, content, verifier, edits>>

-----------------------------------------------------------------------------
(* mp_verify_library, which only the server's worker runs.                 *)

StartVerify ==
  /\ scan[Worker].pc = "idle" /\ verifier.pc = "idle"
  /\ verifier' = [IdleVerifier EXCEPT !.pc = "hash",
       !.todo = {[id |-> i, path |-> packages[i].path] :
                   i \in {j \in DOMAIN packages : Present(j)}}]
  /\ UNCHANGED <<dirs, packages, owner, content, scan, edits>>

(* Opens and hashes the package at the path remembered from the query.     *)
HashPackage ==
  /\ verifier.pc = "hash"
  /\ \E e \in verifier.todo :
       /\ \A f \in verifier.todo : e.id <= f.id
       /\ LET m == Opened(e.path)
              a == IF m = NoText THEN "warning" ELSE Audit(dirs[e.path], m)
          IN  verifier' = [pc |-> "store", todo |-> verifier.todo \ {e}, entry |-> e,
                           status |-> a, tries |-> 0,
                           verify |-> IF m = NoText THEN "unverified" ELSE a,
                           proof |-> IF m # NoText /\ a \in Ok
                                       THEN FingerprintOf[m] ELSE NoFp]
  /\ UNCHANGED <<dirs, packages, owner, content, scan, edits>>

(* pkg_set_verify: only a quarantined row is exempt.                       *)
StoreVerdict ==
  LET i == verifier.entry.id IN
  /\ verifier.pc = "store"
  /\ packages' = IF packages[i].status = "conflict" THEN packages
                 ELSE [packages EXCEPT ![i].status = verifier.status,
                                       ![i].verify = verifier.verify,
                                       ![i].proof = verifier.proof]
  /\ verifier' = [verifier EXCEPT !.pc = "hash"]
  /\ UNCHANGED <<dirs, owner, content, scan, edits>>

(* The database is busy or locked: another attempt, up to a bound.         *)
(* Mutant: the attempts are never counted up to it.                        *)
StoreRefusedForever ==
  /\ verifier.pc = "store"
  /\ verifier' = [verifier EXCEPT !.tries = 1 - @]
  /\ UNCHANGED <<dirs, packages, owner, content, scan, edits>>
StoreRefused ==
  /\ verifier.pc = "store" /\ verifier.tries < Retries
  /\ verifier' = [verifier EXCEPT !.tries = @ + 1]
  /\ UNCHANGED <<dirs, packages, owner, content, scan, edits>>

(* The list is done, or a verdict could not be stored: for another reason  *)
(* than a lock at once, for a lock after the last attempt.                 *)
EndVerify ==
  /\ \/ verifier.pc = "hash" /\ verifier.todo = {}
     \/ verifier.pc = "store"
  /\ verifier' = IdleVerifier
  /\ UNCHANGED <<dirs, packages, owner, content, scan, edits>>

(* The process dies.  Whatever it had not committed is lost, and so is its *)
(* scan; the server's worker dies with its verification.                   *)
Crash(s) ==
  /\ \/ scan[s].pc # "idle"
     \/ s = Worker /\ verifier.pc # "idle"
  /\ scan' = [scan EXCEPT ![s] = IdleScan]
  /\ verifier' = IF s = Worker THEN IdleVerifier ELSE verifier
  /\ UNCHANGED <<dirs, packages, owner, content, edits>>

-----------------------------------------------------------------------------
ScanStep(s) ==
  \/ \E p \in Paths : PassBy(s, p) \/ HashManifest(s, p)
  \/ OpenPackage(s) \/ WriteRow(s) \/ Ingest(s) \/ WriteFails(s)
  \/ Sweep(s) \/ AbortScan(s)

VerifyStep == HashPackage \/ StoreVerdict \/ StoreRefused \/ EndVerify

Environment == ChangeDir \/ RenameDir

Next ==
  \/ Environment
  \/ \E s \in Scanners : StartScan(s) \/ ScanStep(s) \/ TraversalError(s) \/ Crash(s)
  \/ StartVerify \/ VerifyStep

Spec == Init /\ [][Next]_vars

(* The processes that run a job keep running it.                           *)
Fairness == /\ \A s \in Scanners : WF_vars(ScanStep(s))
            /\ WF_vars(VerifyStep)
FairSpec == Spec /\ Fairness
-----------------------------------------------------------------------------
(* Type correctness of the tables and of the two jobs that write them.     *)
TypeOK ==
  /\ dirs \in [Paths -> Contents \cup {NoDir}]
  /\ packages \in Seq(Row)
  /\ owner \in [Releases -> 0 .. Len(packages)]
  /\ content \in [Releases -> Fingerprints \cup {NoFp}]
  /\ scan \in [Scanners -> ScanStates]
  /\ verifier \in VerifyStates
  /\ edits \in Nat

(* The bytes of a servable release were hashed, and what was hashed is the *)
(* content the release's track and asset rows describe ("Only fully        *)
(* verified packages are servable", VISIBLE in api.c).  It takes a scan, a *)
(* verification and a filesystem change in the wrong order to break it.    *)
VisibleIsVerified ==
  \A r \in Releases : Visible(r) => packages[owner[r]].proof = content[r]

(* The package that owns a servable release still holds that release's     *)
(* content: its row's fingerprint is the one the track rows came from      *)
(* (schema.c: "no arbitrary visible package can supply bytes for content   *)
(* it does not own").                                                      *)
OwnerHoldsItsRelease ==
  \A r \in Releases : Visible(r) => packages[owner[r]].fp = content[r]

(* Two packages that both count as present and claim one release have the  *)
(* same content: the second with other content is quarantined (scanner.c   *)
(* ingest_valid, "anything else is an identity conflict").                 *)
NoRivals ==
  \A i, j \in DOMAIN packages :
    /\ Present(i) /\ Present(j) /\ NoFp \notin {packages[i].fp, packages[j].fp}
    /\ ReleaseOf[packages[i].fp] = ReleaseOf[packages[j].fp]
    => packages[i].fp = packages[j].fp

(* Full scans settle rivalry: when they keep running to their end          *)
(* undisturbed, the table comes to where no two present packages claim one *)
(* release with different content, and stays there (hardening document: "A *)
(* lightweight or full verification scan re-arbitrates ownership the same  *)
(* way ingestion does").  A single scan need not do it: a move is not      *)
(* arbitrated, and an owner may turn out invalid after a mirror of its     *)
(* content was let in.                                                     *)
FullScanDone == \E s \in Scanners : scan[s].full /\ scan[s].calm /\ Sweep(s)
ScansSettleRivals == []<><<FullScanDone>>_vars => <>[]NoRivals

(* A quarantined package comes back only by arbitration: at that moment it *)
(* owns its release, or mirrors the content of the package that does.      *)
QuarantineEndsByArbitration ==
  [][\A i \in DOMAIN packages :
       packages[i].status = "conflict" /\ packages'[i].status \notin Absent =>
         LET r == ReleaseOf[packages'[i].fp]
         IN  owner'[r] = i \/ packages'[owner'[r]].fp = packages'[i].fp]_vars

(* After a scan that nothing disturbed, the table mirrors the filesystem:  *)
(* every directory has its row with the manifest's hash and is not         *)
(* unavailable, an unreadable manifest is invalid, a full scan clears a    *)
(* stale invalid mark, and no row of a vanished directory still counts as  *)
(* present.                                                                *)
Mirrors(rows, full) ==
  \A p \in Paths :
    /\ dirs[p] = NoDir =>
         \A i \in DOMAIN rows : rows[i].path = p => rows[i].status \in Absent
    /\ dirs[p] # NoDir =>
         \E i \in DOMAIN rows :
           /\ rows[i].path = p /\ rows[i].sha = dirs[p].text
           /\ rows[i].status # "unavailable"
           /\ dirs[p].text \notin Manifests => rows[i].status = "invalid"
           /\ full /\ dirs[p].text \in Manifests => rows[i].status # "invalid"
SweptBy(s) == scan[s].pc = "walk" /\ scan'[s].pc = "idle" /\ scan[s].calm
ScanMirrorsFilesystem ==
  [][\A s \in Scanners : SweptBy(s) /\ Sweep(s) => Mirrors(packages', scan[s].full)]_vars

(* A lightweight rescan that nothing disturbed leaves no package servable  *)
(* that lacks a referenced object (hardening document: "a disappeared      *)
(* object downgrades the package to unverified so it stops serving").      *)
RescanNoticesMissingObjects ==
  [][\A s \in Scanners : SweptBy(s) /\ Sweep(s) =>
       \A i \in DOMAIN packages' :
         /\ packages'[i].status \in Ok /\ packages'[i].verify \in Ok
         /\ dirs[packages'[i].path] # NoDir
         => dirs[packages'[i].path].objects \notin {"missing", "altmissing"}]_vars

(* A scan that nothing disturbed marks a package unavailable ("package     *)
(* directory not found", library.c) only when its directory is gone.       *)
OnlyVanishedAreSwept ==
  [][\A s \in Scanners : SweptBy(s) /\ Sweep(s) =>
       \A i \in DOMAIN packages :
         packages'[i].status = "unavailable" /\ packages[i].status # "unavailable"
           => dirs[packages[i].path] = NoDir]_vars

(* A package whose bytes failed verification becomes verified only by      *)
(* another verification (deployment.md: "A checksum-failed or quarantined  *)
(* package is never served").                                              *)
FailedStaysFailed ==
  [][\A i \in DOMAIN packages :
       packages[i].verify = "checksum-failed" /\ packages'[i].verify \in Ok =>
         \/ verifier.pc = "store"
         \/ \E s \in Scanners : scan[s].pc = "write" /\ scan[s].full]_vars

(* A scan and a verification that began come to an end.                    *)
ScanTerminates == \A s \in Scanners : scan[s].pc # "idle" ~> scan[s].pc = "idle"
VerifyTerminates == verifier.pc # "idle" ~> verifier.pc = "idle"
=============================================================================
