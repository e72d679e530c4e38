--------------------------- MODULE OfflineInstall ---------------------------
(* Downloads for offline playback, for one release (web/app/src/lib/offline) *)
(* The installer fetches every planned asset into a staging directory,      *)
(* verifies it, copies the staged files over the committed ones and writes  *)
(* one catalogue record.  The manager removes packages, flags updates, and  *)
(* at boot sweeps the staging area and audits the records.  Files live in   *)
(* the origin-private file system, records in IndexedDB; each await of the  *)
(* code is a step of its own here, so the tasks interleave at every await.  *)
(* The page may be reloaded at any step, and the browser may evict files.   *)
EXTENDS Naturals, Sequences, FiniteSets, SequencesExt

CONSTANTS
  Plan,          \* the planned assets, in download order
  Critical,      \* those that must verify for the install to commit
  Versions,      \* the contents the release may have on the server
  Installs,      \* 1 .. n: the installs the user starts, in order
  MaxEvictions,  \* bound: files the browser drops
  MaxReloads,    \* bound: page reloads
  Disturbances   \* what else happens: a "remove" or an update "check" beside an
                 \* install, an install during "boot"

ASSUME PlanAssumption == Plan \in Seq(Range(Plan)) /\ IsInjective(Plan)
ASSUME VersionsAssumption == Versions \cap {"absent", "empty"} = {}
ASSUME CriticalAssumption == Critical \subseteq Range(Plan)
ASSUME BoundsAssumption == MaxEvictions \in Nat /\ MaxReloads \in Nat
ASSUME DisturbancesAssumption == Disturbances \subseteq {"boot", "remove", "check"}

Keys == Range(Plan)
None == "none"

VARIABLES
  files,      \* committed files: the version each holds, Absent or Empty
  catalog,    \* the record of the release
  staging,    \* verified files in staging, as <<install, key>>
  installed,  \* what the playback path is offered (availability's map)
  ui,         \* the state the page shows
  flagged,    \* the boot audit found the release damaged
  active,     \* the install whose abort controller is registered, or 0
  run,        \* the installs
  boot,       \* the boot task
  remover,    \* the removal task
  checker,    \* the update check
  refresh,    \* a cancellation has yet to refresh the page
  lost,       \* files the browser or a removal dropped and no install wrote since
  torn,       \* history: something broke the tie between the record and its files
  past,       \* history: every package the catalogue has named
  reloads     \* page reloads so far
durable == <<files, catalog, staging>>
page == <<installed, ui, flagged, active>>
tasks == <<run, boot, remover, checker, refresh>>
history == <<lost, torn, past, reloads>>
vars == <<files, catalog, staging, installed, ui, flagged, active, run, boot,
          remover, checker, refresh, lost, torn, past, reloads>>

(* ---- records and tasks ------------------------------------------------- *)
NoRecord == [status |-> None, ver |-> None, keys |-> {}, stale |-> FALSE]
FailedRecord == [NoRecord EXCEPT !.status = "failed"]
InstalledRecord(v, K) == [status |-> "installed", ver |-> v, keys |-> K, stale |-> FALSE]
IdleRun == [pc |-> "idle", ver |-> None, aborted |-> FALSE, n |-> 0, staged |-> {}]
IdleTask == [pc |-> "idle", todo |-> {}, seen |-> NoRecord]

Live(i) == run[i].pc \notin {"idle", "done"}
SomeLive == \E i \in Installs : Live(i)
Booted == boot.pc = "up"
AtRest == ~SomeLive /\ Booted /\ remover.pc = "idle" /\ checker.pc = "idle" /\ ~refresh

(* What refreshState shows for the current record.                          *)
Shown == CASE catalog.status = None -> "not-installed"
           [] catalog.status = "failed" -> "failed"
           [] flagged -> "damaged"
           [] catalog.stale -> "stale"
           [] OTHER -> "installed"

(* setState: every state but "damaged" clears the damaged mark.             *)
Show(s) == ui' = s /\ flagged' = (s = "damaged")
Remember(r) == installed' = IF r.status = "installed" THEN r ELSE installed

(* The package a record names: what the abstract shelf sees of it.           *)
OnShelf(r) ==
  IF r.status = "installed" THEN [edition |-> r.ver, keys |-> r.keys]
  ELSE [edition |-> "none", keys |-> {}]

(* ---- the installer ----------------------------------------------------- *)
To(i, pc) == run' = [run EXCEPT ![i].pc = pc]

(* The head of the asset loop; after the last asset nothing looks at the    *)
(* abort signal any more.                                                   *)
AtAssetPast(r, n) ==
  IF n > Len(Plan) + 1 THEN [r EXCEPT !.pc = "committing", !.n = 1]
  ELSE [r EXCEPT !.n = n, !.pc = IF r.aborted THEN "failing" ELSE "fetching"]
AtAsset(r, n) ==
  IF n > Len(Plan) THEN [r EXCEPT !.pc = "committing", !.n = 1]
  ELSE [r EXCEPT !.n = n, !.pc = IF r.aborted THEN "failing" ELSE "fetching"]

(* install: the previous live install of the release is aborted.            *)
Supersede(i, v) ==
  [j \in Installs |->
     IF j = i THEN AtAsset([IdleRun EXCEPT !.ver = v], 1)
     ELSE IF j = active THEN [run[j] EXCEPT !.aborted = TRUE] ELSE run[j]]

Install(i, v) ==
  /\ run[i].pc = "idle" /\ \A j \in Installs : j < i => run[j].pc # "idle"
  /\ Booted \/ "boot" \in Disturbances
  /\ remover.pc = "idle" \/ "remove" \in Disturbances
  /\ checker.pc = "idle" \/ "check" \in Disturbances
  /\ run' = Supersede(i, v)
  /\ active' = i
  /\ Show("downloading")
  /\ UNCHANGED <<durable, installed, boot, remover, checker, refresh, history>>

(* stageOne returns: every byte was received, hashed and verified.          *)
Staged(i) ==
  LET key == Plan[run[i].n]
      kept == [run[i] EXCEPT !.staged = @ \cup {key}] IN
  /\ run[i].pc = "fetching"
  /\ staging' = staging \cup {<<i, key>>}
  /\ run' = [run EXCEPT ![i] = AtAsset(kept, run[i].n + 1)]
  /\ Show("downloading")
  /\ UNCHANGED <<files, catalog, installed, active, boot, remover, checker, refresh, history>>

(* The size or the hash is wrong: a critical asset fails the install, an    *)
(* alternate is left out of it.                                             *)
FailsInstall(i) == run[i].aborted \/ Plan[run[i].n] \in Critical
Mismatch(i) ==
  /\ run[i].pc = "fetching"
  /\ run' = [run EXCEPT ![i] =
               IF FailsInstall(i)
               THEN [@ EXCEPT !.pc = "failing"]
               ELSE AtAsset(@, run[i].n + 1)]
  /\ IF run'[i].pc = "failing" THEN UNCHANGED <<ui, flagged>> ELSE Show("downloading")
  /\ UNCHANGED <<durable, installed, active, boot, remover, checker, refresh, history>>

(* Network, HTTP status or quota error, or the abort of the fetch.          *)
FetchFails(i) ==
  /\ run[i].pc = "fetching"
  /\ To(i, "failing")
  /\ UNCHANGED <<durable, page, boot, remover, checker, refresh, history>>

(* What a commit copies: an entry the sweep removed is created anew, empty. *)
Source(i, key) == IF <<i, key>> \in staging THEN run[i].ver ELSE "empty"

(* fileStore.commit copies the staged files one by one, in plan order.      *)
ToCopy(i) == {n \in run[i].n .. Len(Plan) : Plan[n] \in run[i].staged}

NextToCopy(i) == CHOOSE n \in ToCopy(i) : \A m \in ToCopy(i) : n <= m

(* An install that has copied a file and has not written its record: the     *)
(* files are partly its own.                                                 *)
Begun(i) ==
  /\ run[i].pc \in {"committing", "writing", "clearing", "publishing"}
  /\ \E m \in 1 .. run[i].n - 1 : Plan[m] \in run[i].staged
BreaksOff(i) == To(i, "failing") /\ torn' = (torn \/ Begun(i))

(* Each copy first opens the committed file, which makes an empty one where  *)
(* there was none, and then writes it; either may fail.                      *)
Open(i) ==
  /\ run[i].pc = "committing" /\ ToCopy(i) # {}
  /\ LET n == NextToCopy(i) IN
       /\ files' = [files EXCEPT ![Plan[n]] = IF @ = "absent" THEN "empty" ELSE @]
       /\ run' = [run EXCEPT ![i].pc = "writing", ![i].n = n]
  /\ UNCHANGED <<catalog, staging, page, boot, remover, checker, refresh, history>>

Write(i) ==
  /\ run[i].pc = "writing"
  /\ LET k == Plan[run[i].n] IN
       /\ files' = [files EXCEPT ![k] = Source(i, k)]
       /\ lost' = lost \ {k}
  /\ run' = [run EXCEPT ![i].pc = "committing", ![i].n = @ + 1]
  /\ torn' = (torn \/ \E j \in Installs \ {i} : Begun(j))
  /\ UNCHANGED <<catalog, staging, page, boot, remover, checker, refresh, past, reloads>>

CopyFails(i) ==
  /\ run[i].pc \in {"committing", "writing"}
  /\ BreaksOff(i)
  /\ UNCHANGED <<durable, page, boot, remover, checker, refresh, lost, past, reloads>>

AllCopied(i) ==
  /\ run[i].pc = "committing" /\ ToCopy(i) = {}
  /\ To(i, "clearing")
  /\ UNCHANGED <<durable, page, boot, remover, checker, refresh, history>>

Commit(i) == Open(i) \/ Write(i) \/ CopyFails(i) \/ AllCopied(i)

(* A staging tree that cannot be removed stays, as one a reload leaves does. *)
Unstage(i) == staging' = {s \in staging : s[1] # i}

(* The record of an install names the assets that verified.                 *)
CommittedPlan(i) == InstalledRecord(run[i].ver, Keys)
Committed(i) == InstalledRecord(run[i].ver, run[i].staged)

Publish(i) ==
  /\ run[i].pc = "publishing"
  /\ \/ /\ catalog' = Committed(i)
        /\ past' = past \cup {OnShelf(Committed(i))}
        /\ active' = 0
        /\ To(i, "remembering")
        /\ UNCHANGED torn
     \/ /\ BreaksOff(i)
        /\ UNCHANGED <<catalog, past, active>>
  /\ UNCHANGED <<files, staging, installed, ui, flagged, boot, remover, checker, refresh, lost, reloads>>

(* After the copy, and first of all in fail.                                *)
Clear(i) ==
  /\ run[i].pc \in {"clearing", "failing"}
  /\ Unstage(i)
  /\ To(i, IF run[i].pc = "clearing" THEN "publishing" ELSE "recording")
  /\ UNCHANGED <<files, catalog, page, boot, remover, checker, refresh, history>>

(* fail: a failed record is written if it can be, also over the record of an *)
(* earlier install.  Whatever way an install ends, it drops the controller   *)
(* that is registered for the release.                                       *)
WriteFailed(i) ==
  /\ run[i].pc = "recording"
  /\ catalog' \in {catalog, FailedRecord}
  /\ active' = 0
  /\ torn' = (torn \/ (catalog' # catalog /\ \E j \in Installs : run[j].pc = "remembering"))
  /\ UNCHANGED <<files, staging, installed, ui, flagged, boot, remover, checker, refresh, lost,
                 past, reloads>>
RecordSilently(i) == WriteFailed(i) /\ To(i, "done")
Record(i) == WriteFailed(i) /\ To(i, "settling")

(* handle.done of a committed install: availability takes the record.       *)
Remembering(i) ==
  /\ run[i].pc = "remembering"
  /\ Remember(catalog)
  /\ To(i, "settling")
  /\ UNCHANGED <<durable, ui, flagged, active, boot, remover, checker, refresh, history>>

Settle(i) ==
  /\ run[i].pc = "settling"
  /\ To(i, "done")
  /\ Show(Shown)
  /\ UNCHANGED <<durable, installed, active, boot, remover, checker, refresh, history>>

(* ---- the manager ------------------------------------------------------- *)
Cancel ==
  /\ ui = "downloading"
  /\ run' = IF active = 0 THEN run ELSE [run EXCEPT ![active].aborted = TRUE]
  /\ refresh' = TRUE
  /\ UNCHANGED <<durable, page, boot, remover, checker, history>>

Refresh ==
  /\ refresh
  /\ refresh' = FALSE
  /\ Show(Shown)
  /\ UNCHANGED <<durable, installed, active, run, boot, remover, checker, history>>

(* remove: the record's files one by one, the record, then the page.        *)
StartRemove ==
  /\ remover.pc = "idle" /\ catalog.status # None
  /\ AtRest \/ (Booted /\ "remove" \in Disturbances)
  /\ remover' = [IdleTask EXCEPT !.pc = "files", !.todo = catalog.keys]
  /\ UNCHANGED <<durable, page, run, boot, checker, refresh, history>>

RemoveFile ==
  /\ remover.pc = "files"
  /\ \E k \in remover.todo :
       /\ files' = [files EXCEPT ![k] = "absent"]
       /\ lost' = lost \cup {k}
       /\ remover' = [remover EXCEPT !.todo = @ \ {k}]
  /\ UNCHANGED <<catalog, staging, page, run, boot, checker, refresh, torn, past, reloads>>

RemoveRecord ==
  /\ remover.pc = "files" /\ remover.todo = {}
  /\ catalog' = NoRecord
  /\ installed' = NoRecord
  /\ remover' = [remover EXCEPT !.pc = "page"]
  /\ UNCHANGED <<files, staging, ui, flagged, active, run, boot, checker, refresh, history>>

RemoveFails ==
  /\ remover.pc = "files"
  /\ remover' = IdleTask
  /\ UNCHANGED <<durable, page, run, boot, checker, refresh, history>>

RemoveShown ==
  /\ remover.pc = "page"
  /\ remover' = IdleTask
  /\ Show(Shown)
  /\ UNCHANGED <<durable, installed, active, run, boot, checker, refresh, history>>

(* checkForUpdate: the record read is written back with the stale mark.     *)
StartCheck ==
  /\ checker.pc = "idle" /\ catalog.status = "installed"
  /\ AtRest \/ (Booted /\ "check" \in Disturbances)
  /\ \E online \in Versions : online # catalog.ver /\ catalog.keys # {}
  /\ checker' = [IdleTask EXCEPT !.pc = "mark", !.seen = catalog]
  /\ UNCHANGED <<durable, page, run, boot, remover, refresh, history>>

MarkStale ==
  /\ checker.pc = "mark"
  /\ catalog' = [checker.seen EXCEPT !.stale = TRUE]
  /\ torn' = (torn \/ catalog # checker.seen)
  /\ checker' = [checker EXCEPT !.pc = "page"]
  /\ UNCHANGED <<files, staging, page, run, boot, remover, refresh, lost, past, reloads>>

CheckShown ==
  /\ checker.pc = "page"
  /\ checker' = IdleTask
  /\ Show(Shown)
  /\ UNCHANGED <<durable, installed, active, run, boot, remover, refresh, history>>

(* ---- boot: hydrate, sweep, audit, show --------------------------------- *)
Hydrate ==
  /\ boot.pc = "off"
  /\ Remember(catalog)
  /\ boot' = [boot EXCEPT !.pc = "list"]
  /\ UNCHANGED <<durable, ui, flagged, active, run, remover, checker, refresh, history>>

ListStaging ==
  /\ boot.pc = "list"
  /\ boot' = [boot EXCEPT !.pc = "sweep", !.todo = {s[1] : s \in staging}]
  /\ UNCHANGED <<durable, page, run, remover, checker, refresh, history>>

SweepOne ==
  /\ boot.pc = "sweep"
  /\ \E i \in boot.todo :
       /\ staging' = {s \in staging : s[1] # i}
       /\ boot' = [boot EXCEPT !.todo = @ \ {i}]
  /\ UNCHANGED <<files, catalog, page, run, remover, checker, refresh, history>>

(* auditAll takes its snapshot of the catalogue and looks at every asset.   *)
StartAudit ==
  /\ boot.pc = "sweep" /\ boot.todo = {}
  /\ boot' = IF catalog.status = "installed"
             THEN [pc |-> "audit", todo |-> catalog.keys, seen |-> [catalog EXCEPT !.keys = {}]]
             ELSE [boot EXCEPT !.pc = "show"]
  /\ UNCHANGED <<durable, page, run, remover, checker, refresh, history>>

(* A missing file is damage, and so is one of another size; two versions of *)
(* an asset may have the same size.                                         *)
Damaged(k) ==
  IF files[k] \in {"absent", "empty"} THEN {TRUE}
  ELSE IF files[k] = boot.seen.ver THEN {FALSE} ELSE BOOLEAN

AuditFile ==
  /\ boot.pc = "audit"
  /\ \E k \in boot.todo : \E bad \in Damaged(k) :
       boot' = [boot EXCEPT !.todo = @ \ {k},
                            !.seen.keys = IF bad THEN @ \cup {k} ELSE @]
  /\ UNCHANGED <<durable, page, run, remover, checker, refresh, history>>

(* boot.seen.keys holds the damaged keys; the record is read again.         *)
AuditVerdict ==
  /\ boot.pc = "audit" /\ boot.todo = {}
  /\ boot' = IF boot.seen.keys = {} \/ catalog.status = None
             THEN [boot EXCEPT !.pc = IF boot.seen.keys = {} THEN "show" ELSE "flag"]
             ELSE [boot EXCEPT !.pc = "strip",
                     !.seen = [catalog EXCEPT !.keys = @ \ boot.seen.keys, !.stale = TRUE]]
  /\ UNCHANGED <<durable, page, run, remover, checker, refresh, history>>

StripStale ==
  /\ boot.pc = "strip"
  /\ catalog' = boot.seen
  /\ Remember(catalog)
  /\ boot' = [boot EXCEPT !.pc = "flag"]
  /\ torn' = (torn \/ catalog.ver # boot.seen.ver)
  /\ past' = IF boot.seen.status = "installed" THEN past \cup {OnShelf(boot.seen)} ELSE past
  /\ UNCHANGED <<files, staging, ui, flagged, active, run, remover, checker, refresh, lost, reloads>>
Strip ==
  /\ boot.pc = "strip"
  /\ catalog' = boot.seen
  /\ Remember(boot.seen)
  /\ boot' = [boot EXCEPT !.pc = "flag"]
  /\ torn' = (torn \/ catalog.ver # boot.seen.ver)
  /\ past' = IF boot.seen.status = "installed" THEN past \cup {OnShelf(boot.seen)} ELSE past
  /\ UNCHANGED <<files, staging, ui, flagged, active, run, remover, checker, refresh, lost, reloads>>

ShowBooted ==
  /\ boot.pc \in {"show", "flag"}
  /\ boot' = [IdleTask EXCEPT !.pc = "up"]
  /\ IF catalog.status = None THEN UNCHANGED <<ui, flagged>>
     ELSE Show(IF boot.pc = "flag" THEN "damaged" ELSE Shown)
  /\ UNCHANGED <<durable, installed, active, run, remover, checker, refresh, history>>

(* An error of the stores ends the boot; the page stays as it is.           *)
BootFails ==
  /\ boot.pc # "up"
  /\ boot' = [IdleTask EXCEPT !.pc = "up"]
  /\ UNCHANGED <<durable, page, run, remover, checker, refresh, history>>

(* ---- the environment --------------------------------------------------- *)
(* The browser drops a file while no install is live.                       *)
Evict ==
  /\ ~SomeLive
  /\ \E k \in Keys :
       /\ files[k] # "absent" /\ Cardinality(lost) < MaxEvictions
       /\ files' = [files EXCEPT ![k] = "absent"]
       /\ lost' = lost \cup {k}
  /\ UNCHANGED <<catalog, staging, page, tasks, torn, past, reloads>>

(* The page is reloaded or crashes: tasks and memory are gone.              *)
Reload ==
  /\ reloads < MaxReloads
  /\ reloads' = reloads + 1
  /\ installed' = NoRecord /\ ui' = "unknown" /\ flagged' = FALSE /\ active' = 0
  /\ run' = [i \in Installs |-> IF Live(i) THEN [IdleRun EXCEPT !.pc = "done"] ELSE run[i]]
  /\ boot' = [IdleTask EXCEPT !.pc = "off"]
  /\ remover' = IdleTask /\ checker' = IdleTask /\ refresh' = FALSE
  /\ torn' = (torn \/ \E i \in Installs : Begun(i))
  /\ UNCHANGED <<durable, lost, past>>

Init ==
  /\ files = [k \in Keys |-> "absent"]
  /\ catalog = NoRecord /\ staging = {} /\ installed = NoRecord
  /\ ui = "unknown" /\ flagged = FALSE /\ active = 0
  /\ run = [i \in Installs |-> IdleRun]
  /\ boot = [IdleTask EXCEPT !.pc = "off"]
  /\ remover = IdleTask /\ checker = IdleTask /\ refresh = FALSE
  /\ lost = {} /\ torn = FALSE /\ past = {} /\ reloads = 0

InstallStep(i) ==
  Staged(i) \/ Mismatch(i) \/ FetchFails(i) \/ Commit(i) \/ Publish(i)
    \/ Clear(i) \/ Record(i) \/ Remembering(i) \/ Settle(i)
RemoveStep == RemoveFile \/ RemoveRecord \/ RemoveFails \/ RemoveShown
CheckStep == MarkStale \/ CheckShown
BootStep ==
  Hydrate \/ ListStaging \/ SweepOne \/ StartAudit \/ AuditFile \/ AuditVerdict
    \/ Strip \/ ShowBooted \/ BootFails

Next ==
  \/ \E i \in Installs : InstallStep(i) \/ \E v \in Versions : Install(i, v)
  \/ Cancel \/ Refresh \/ StartRemove \/ StartCheck \/ RemoveStep \/ CheckStep \/ BootStep
  \/ Evict \/ Reload

Spec == Init /\ [][Next]_vars

(* Every request is answered or breaks, and no promise of the stores stays  *)
(* pending for ever.                                                        *)
Fairness ==
  /\ \A i \in Installs : WF_vars(InstallStep(i))
  /\ WF_vars(RemoveStep) /\ WF_vars(CheckStep) /\ WF_vars(BootStep)
  /\ WF_vars(Refresh)
FairSpec == Spec /\ Fairness

(* ---- what must hold ---------------------------------------------------- *)
RecordType ==
  [status : {None, "failed", "installed"}, ver : Versions \cup {None},
   keys : SUBSET Keys, stale : BOOLEAN]
TypeOK ==
  /\ files \in [Keys -> Versions \cup {"absent", "empty"}]
  /\ catalog \in RecordType /\ installed \in RecordType
  /\ staging \subseteq Installs \X Keys
  /\ ui \in {"unknown", "not-installed", "downloading", "failed", "damaged", "stale", "installed"}
  /\ flagged \in BOOLEAN /\ refresh \in BOOLEAN /\ active \in {0} \cup Installs
  /\ run \in [Installs -> [pc : {"idle", "fetching", "committing", "writing", "clearing", "publishing",
                "failing", "recording", "remembering", "settling", "done"},
                ver : Versions \cup {None}, aborted : BOOLEAN,
                n : 0 .. Len(Plan) + 1, staged : SUBSET Keys]]
  /\ \A i \in Installs : run[i].pc \in {"fetching", "writing"} => run[i].n \in DOMAIN Plan
  /\ \A i \in Installs : run[i].pc = "committing" => run[i].n > 0
  /\ lost \subseteq Keys /\ torn \in BOOLEAN
  /\ past \subseteq [edition : Versions \cup {None}, keys : SUBSET Keys] /\ reloads \in 0 .. MaxReloads

(* Every asset the playback path is offered is a whole, verified file, of    *)
(* the version its record names, however installs were aborted, superseded,  *)
(* broken off while they fetched, or left an alternate out.  A file may be   *)
(* gone, or made empty again, once the browser or a removal has dropped it.  *)
(* It may be of the version that replaces it while an install copies, and    *)
(* from then on when the copy broke off or ran beside another one, or a      *)
(* record that had been read earlier was written over a newer one (torn).    *)
Replacing == \E i \in Installs : Begun(i) \/ run[i].pc = "remembering"
PlayableIsWhole ==
  \A k \in installed.keys :
    \/ files[k] = installed.ver
    \/ k \in lost
    \/ files[k] \in Versions /\ (torn \/ Replacing)

(* A record that was never audited as damaged names every critical asset.   *)
RecordIsUsable ==
  catalog.status = "installed" /\ ~catalog.stale => Critical \subseteq catalog.keys

(* With nothing in flight the page shows what the catalogue holds.          *)
PageTellsTruth == AtRest => ui \in {"unknown", Shown}

(* A download the page shows ends: it is installed, failed or gone.         *)
DownloadsSettle == (ui = "downloading") ~> (ui # "downloading")

(* Against its documents the code lets a failing install overwrite the       *)
(* record of a finished one, and tasks that overlap restore earlier records. *)
Breaches == {"overwrite"} \cup (IF Disturbances = {} THEN {} ELSE {"restore"})

(* The detailed steps implement the shelf, but for these breaches of it.     *)
Shelf == INSTANCE OfflineShelf WITH
  Assets <- Keys, Editions <- Versions,
  published <- OnShelf(catalog), shelf <- OnShelf(installed)
ImplementsShelf == Shelf!Spec

(* web/app/src/lib/offline/installer.ts:162: a reinstall "replaces the      *)
(* whole set atomically", so a record and its files are of one version.     *)
RecordMatchesFiles ==
  catalog.status = "installed" =>
    \A k \in catalog.keys : files[k] \in {catalog.ver, "absent"}

(* installer.ts:80: one live install per release.                           *)
OneLiveInstall == Cardinality({i \in Installs : Live(i) /\ ~run[i].aborted}) <= 1
=============================================================================
