------------------------ MODULE OfflineInstallProofs ------------------------
(* Proof that the offline installer keeps the promise of the shelf but for   *)
(* the breaches it names, whatever tasks overlap, and that what the playback *)
(* path is offered is whole, as long as no install starts during the boot:   *)
(* for any plan, critical assets, versions, installs, reloads and evictions. *)
EXTENDS OfflineInstall, WellFoundedInduction, TLAPS

(* ---- the invariant ----------------------------------------------------- *)
BootSteps == {"off", "list", "sweep", "audit", "strip", "flag", "show", "up"}
Tasks(pcs, S) == [pc : pcs, todo : SUBSET S, seen : RecordType]
TaskTypes ==
  /\ boot \in Tasks(BootSteps, Keys \cup Installs)
  /\ boot.pc = "audit" => boot.todo \subseteq Keys
  /\ remover \in Tasks({"idle", "files", "page"}, Keys)
  /\ checker \in Tasks({"idle", "mark", "page"}, Keys)

(* An install that is past an asset has staged it, or can do without.        *)
Committing == {"committing", "writing", "clearing", "publishing"}
StagesCritical ==
  \A i \in Installs :
    /\ Live(i) => run[i].ver \in Versions
    /\ run[i].pc = "fetching" =>
         \A m \in 1 .. run[i].n - 1 : Plan[m] \in Critical => Plan[m] \in run[i].staged
    /\ run[i].pc \in Committing => Critical \subseteq run[i].staged

(* Whatever is about to be written back was a record once, or most of one.   *)
Known(r) == r.status = "installed" => OnShelf(r) \in past
FromPast ==
  /\ Known(catalog)
  /\ checker.pc = "mark" => checker.seen.status = "installed" /\ Known(checker.seen)
  /\ boot.pc = "strip" /\ boot.seen.status = "installed" =>
       \E p \in past : OnShelf(boot.seen) \in Shelf!Rests(p)

(* Where nothing overlaps, the tasks of one manager keep apart, so that the  *)
(* record a task has read is the record that is there still.                 *)
Alone ==
  /\ ~Booted => ~SomeLive /\ remover.pc = "idle" /\ checker.pc = "idle"
  /\ remover.pc # "idle" => ~SomeLive /\ checker.pc = "idle"
  /\ checker.pc # "idle" => ~SomeLive
SeenIsThere ==
  /\ checker.pc = "mark" => catalog.status = "installed" /\ checker.seen = catalog
  /\ boot.pc \in {"audit", "strip"} => catalog.status = "installed"
  /\ boot.pc = "strip" =>
       /\ boot.seen.status = "installed" /\ boot.seen.ver = catalog.ver
       /\ boot.seen.keys \subseteq catalog.keys

ShelfInv ==
  /\ TypeOK /\ TaskTypes /\ StagesCritical /\ FromPast
  /\ Disturbances = {} => Alone /\ SeenIsThere

(* ---- types -------------------------------------------------------------- *)
Steps == {"idle", "fetching", "committing", "writing", "clearing", "publishing", "failing",
          "recording", "remembering", "settling", "done"}
Runs == [pc : Steps, ver : Versions \cup {None}, aborted : BOOLEAN,
         n : 0 .. Len(Plan) + 1, staged : SUBSET Keys]
States == {"unknown", "not-installed", "downloading", "failed", "damaged", "stale", "installed"}

(* The plan names every asset, and nothing else.                             *)
LEMMA PlanNamesKeys ==
  /\ Len(Plan) \in Nat /\ DOMAIN Plan = 1 .. Len(Plan)
  /\ \A n \in 1 .. Len(Plan) : Plan[n] \in Keys
  /\ \A k \in Keys : \E n \in 1 .. Len(Plan) : Plan[n] = k
<1>1. Plan \in Seq(Keys)  BY PlanAssumption DEF Keys
<1> QED  BY <1>1 DEF Keys, Range

(* What TypeOK says of one install.                                          *)
LEMMA RunTypes ==
  ASSUME TypeOK
  PROVE  /\ run \in [Installs -> Runs]
         /\ \A i \in Installs : run[i].pc \in {"fetching", "writing"} => run[i].n \in 1 .. Len(Plan)
         /\ \A i \in Installs : run[i].pc = "committing" => run[i].n > 0
BY PlanNamesKeys DEF TypeOK, Runs, Steps

(* The records the code writes.                                              *)
LEMMA Records ==
  /\ NoRecord \in RecordType /\ FailedRecord \in RecordType
  /\ \A v \in Versions, K \in SUBSET Keys : InstalledRecord(v, K) \in RecordType
  /\ \A r \in RecordType, K \in SUBSET Keys, b \in BOOLEAN :
       /\ [r EXCEPT !.stale = b] \in RecordType /\ [r EXCEPT !.keys = K] \in RecordType
       /\ [r EXCEPT !.keys = K, !.stale = b] \in RecordType
BY DEF RecordType, NoRecord, FailedRecord, InstalledRecord

(* The page always shows one of its states.                                  *)
LEMMA ShownIsAState == Shown \in States
BY DEF Shown, States

(* Where the asset loop goes from its head.                                  *)
LEMMA AssetLoop ==
  ASSUME NEW r \in Runs, NEW n \in 1 .. Len(Plan) + 1
  PROVE  LET to == AtAsset(r, n) IN
         /\ to \in Runs
         /\ to.ver = r.ver /\ to.staged = r.staged
         /\ to.pc \in {"fetching", "failing", "committing"}
         /\ to.pc = "fetching" => to.n = n /\ n \in 1 .. Len(Plan)
         /\ to.pc = "committing" => to.n = 1 /\ n = Len(Plan) + 1
<1>1. Len(Plan) \in Nat  BY PlanNamesKeys
<1>2. CASE n > Len(Plan)
  <2>1. AtAsset(r, n) = [r EXCEPT !.pc = "committing", !.n = 1]
    BY <1>2 DEF AtAsset
  <2>2. 1 \in 0 .. Len(Plan) + 1 /\ n = Len(Plan) + 1  BY <1>1, <1>2
  <2> QED  BY <2>1, <2>2 DEF Runs, Steps
<1>3. CASE ~(n > Len(Plan))
  <2> DEFINE pc == IF r.aborted THEN "failing" ELSE "fetching"
  <2>1. AtAsset(r, n) = [r EXCEPT !.n = n, !.pc = pc]
    BY <1>3 DEF AtAsset
  <2>2. n \in 0 .. Len(Plan) + 1 /\ n \in 1 .. Len(Plan)  BY <1>1, <1>3
  <2>3. pc \in {"failing", "fetching"}  OBVIOUS
  <2> QED  BY <2>1, <2>2, <2>3 DEF Runs, Steps
<1> QED  BY <1>2, <1>3

LEMMA RunFields ==
  /\ IdleRun \in Runs /\ IdleRun.staged = {} /\ IdleRun.pc = "idle" /\ ~IdleRun.aborted
  /\ \A r \in Runs, v \in Versions :
       LET to == [r EXCEPT !.ver = v] IN
       to \in Runs /\ to.ver = v /\ to.staged = r.staged /\ to.aborted = r.aborted
  /\ \A r \in Runs, K \in SUBSET Keys :
       LET to == [r EXCEPT !.staged = K] IN
       to \in Runs /\ to.ver = r.ver /\ to.staged = K
<1>1. 0 \in 0 .. Len(Plan) + 1  BY PlanNamesKeys
<1>2. IdleRun \in Runs  BY <1>1 DEF IdleRun, Runs, Steps
<1>3. IdleRun.staged = {} /\ IdleRun.pc = "idle" /\ ~IdleRun.aborted  BY DEF IdleRun
<1>4. ASSUME NEW r \in Runs, NEW v \in Versions
      PROVE  LET to == [r EXCEPT !.ver = v] IN
             to \in Runs /\ to.ver = v /\ to.staged = r.staged /\ to.aborted = r.aborted
  BY DEF Runs
<1>5. ASSUME NEW r \in Runs, NEW K \in SUBSET Keys
      PROVE  LET to == [r EXCEPT !.staged = K] IN
             to \in Runs /\ to.ver = r.ver /\ to.staged = K
  BY DEF Runs
<1> QED  BY <1>2, <1>3, <1>4, <1>5

(* A step that only moves an install on.                                     *)
LEMMA Moves ==
  ASSUME TypeOK, NEW i \in Installs, NEW pc \in Steps, To(i, pc)
  PROVE  /\ run' \in [Installs -> Runs]
         /\ run'[i].pc = pc /\ run'[i].ver = run[i].ver
         /\ run'[i].n = run[i].n /\ run'[i].staged = run[i].staged
         /\ \A j \in Installs \ {i} : run'[j] = run[j]
BY RunTypes DEF To, Runs

(* ---- what a step does to the installs ----------------------------------- *)
(* The install stands where it stood; it may have been told to stop.         *)
Stands(j) ==
  /\ run'[j].pc = run[j].pc /\ run'[j].ver = run[j].ver
  /\ run'[j].n = run[j].n /\ run'[j].staged = run[j].staged

LEMMA Starting ==
  ASSUME TypeOK, NEW i \in Installs, NEW v \in Versions, Install(i, v)
  PROVE  /\ run' \in [Installs -> Runs]
         /\ run'[i].ver = v /\ run'[i].staged = {}
         /\ run'[i].pc \in {"fetching", "committing"}
         /\ run'[i].pc = "fetching" => run'[i].n = 1 /\ 1 \in 1 .. Len(Plan)
         /\ run'[i].pc = "committing" => run'[i].n = 1 /\ Len(Plan) = 0
         /\ \A j \in Installs \ {i} : Stands(j)
<1> DEFINE r == [IdleRun EXCEPT !.ver = v]
<1>1. /\ r \in Runs /\ r.ver = v /\ r.staged = {} /\ r.aborted = FALSE
  BY RunFields
<1>2. 1 \in 1 .. Len(Plan) + 1  BY PlanNamesKeys
<1>3. AtAsset(r, 1).pc # "failing"
  BY <1>1 DEF AtAsset, Runs
<1>4. run' = [j \in Installs |->
               IF j = i THEN AtAsset(r, 1)
               ELSE IF j = active THEN [run[j] EXCEPT !.aborted = TRUE] ELSE run[j]]
  BY DEF Install, Supersede
<1>5. \A j \in Installs \ {i} : run'[j] \in Runs /\ Stands(j)
  BY <1>4, RunTypes DEF Runs, Stands
<1>6. /\ AtAsset(r, 1) \in Runs
      /\ AtAsset(r, 1).ver = v /\ AtAsset(r, 1).staged = {}
      /\ AtAsset(r, 1).pc \in {"fetching", "committing"}
      /\ AtAsset(r, 1).pc = "fetching" => AtAsset(r, 1).n = 1 /\ 1 \in 1 .. Len(Plan)
      /\ AtAsset(r, 1).pc = "committing" => AtAsset(r, 1).n = 1 /\ Len(Plan) = 0
  <2> HIDE DEF r
  <2>1. 1 = Len(Plan) + 1 => Len(Plan) = 0  BY PlanNamesKeys
  <2> QED  BY <1>1, <1>2, <1>3, <2>1, AssetLoop
<1>7. run'[i] = AtAsset(r, 1)  BY <1>4
<1>8. run' \in [Installs -> Runs]
  <2> HIDE DEF r
  <2> QED  BY <1>4, <1>5, <1>6, <1>7
<1> QED  BY <1>5, <1>6, <1>7, <1>8

LEMMA Staging ==
  ASSUME TypeOK, NEW i \in Installs, Staged(i)
  PROVE  /\ run' \in [Installs -> Runs]
         /\ run[i].pc = "fetching" /\ run[i].n \in 1 .. Len(Plan) /\ Plan[run[i].n] \in Keys
         /\ run'[i].ver = run[i].ver /\ run'[i].staged = run[i].staged \cup {Plan[run[i].n]}
         /\ run'[i].pc \in {"fetching", "failing", "committing"}
         /\ run'[i].pc = "fetching" => run'[i].n = run[i].n + 1 /\ run'[i].n \in 1 .. Len(Plan)
         /\ run'[i].pc = "committing" => run'[i].n = 1 /\ run[i].n = Len(Plan)
         /\ \A j \in Installs \ {i} : run'[j] = run[j]
<1> DEFINE key == Plan[run[i].n]
           r == [run[i] EXCEPT !.staged = @ \cup {key}]
           to == AtAsset(r, run[i].n + 1)
<1>1. /\ run[i].pc = "fetching" /\ run[i].n \in 1 .. Len(Plan) /\ key \in Keys
      /\ run' = [run EXCEPT ![i] = to]
  BY RunTypes, PlanNamesKeys DEF Staged
<1>2. /\ run[i].n + 1 \in 1 .. Len(Plan) + 1
      /\ run[i].n + 1 = Len(Plan) + 1 => run[i].n = Len(Plan)
  BY <1>1, PlanNamesKeys
<1>3. r \in Runs /\ r.ver = run[i].ver /\ r.staged = run[i].staged \cup {key}
  <2>1. run[i] \in Runs /\ run[i].staged \cup {key} \in SUBSET Keys
    BY <1>1, RunTypes DEF Runs
  <2> HIDE DEF key
  <2> QED  BY <2>1, RunFields
<1>4. /\ to \in Runs /\ to.ver = run[i].ver /\ to.staged = run[i].staged \cup {key}
      /\ to.pc \in {"fetching", "failing", "committing"}
      /\ to.pc = "fetching" => to.n = run[i].n + 1 /\ run[i].n + 1 \in 1 .. Len(Plan)
      /\ to.pc = "committing" => to.n = 1 /\ run[i].n = Len(Plan)
  <2> HIDE DEF r
  <2> QED  BY <1>2, <1>3, AssetLoop
<1> HIDE DEF to, key
<1> QED  BY <1>1, <1>4, RunTypes DEF key

LEMMA Skipping ==
  ASSUME TypeOK, NEW i \in Installs, Mismatch(i)
  PROVE  /\ run' \in [Installs -> Runs]
         /\ run[i].pc = "fetching" /\ run[i].n \in 1 .. Len(Plan)
         /\ run'[i].ver = run[i].ver /\ run'[i].staged = run[i].staged
         /\ run'[i].pc \in {"fetching", "failing", "committing"}
         /\ run'[i].pc # "failing" => Plan[run[i].n] \notin Critical
         /\ run'[i].pc = "fetching" => run'[i].n = run[i].n + 1 /\ run'[i].n \in 1 .. Len(Plan)
         /\ run'[i].pc = "committing" => run'[i].n = 1 /\ run[i].n = Len(Plan)
         /\ \A j \in Installs \ {i} : run'[j] = run[j]
<1> DEFINE to == AtAsset(run[i], run[i].n + 1)
<1>1. /\ run[i].pc = "fetching" /\ run[i].n \in 1 .. Len(Plan) /\ run[i] \in Runs
      /\ run' = [run EXCEPT ![i] = IF FailsInstall(i) THEN [run[i] EXCEPT !.pc = "failing"] ELSE to]
  BY RunTypes DEF Mismatch
<1>2. /\ run[i].n + 1 \in 1 .. Len(Plan) + 1
      /\ run[i].n + 1 = Len(Plan) + 1 => run[i].n = Len(Plan)
  BY <1>1, PlanNamesKeys
<1>3. CASE FailsInstall(i)
  BY <1>1, <1>3, RunTypes DEF Runs, Steps
<1>4. CASE ~FailsInstall(i)
  <2>1. /\ to \in Runs /\ to.ver = run[i].ver /\ to.staged = run[i].staged
        /\ to.pc \in {"fetching", "failing", "committing"}
        /\ to.pc = "fetching" => to.n = run[i].n + 1 /\ run[i].n + 1 \in 1 .. Len(Plan)
        /\ to.pc = "committing" => to.n = 1 /\ run[i].n = Len(Plan)
    BY <1>1, <1>2, AssetLoop
  <2>2. Plan[run[i].n] \notin Critical  BY <1>4 DEF FailsInstall
  <2> HIDE DEF to
  <2> QED  BY <1>1, <1>4, <2>1, <2>2, RunTypes
<1> QED  BY <1>3, <1>4

(* The files are copied in the order of the plan.                            *)
LEMMA FirstToCopy ==
  ASSUME TypeOK, NEW i \in Installs, ToCopy(i) # {}
  PROVE  \E n \in ToCopy(i) : \A m \in ToCopy(i) : n <= m
<1>1. ToCopy(i) \subseteq Nat
  BY RunTypes, PlanNamesKeys DEF ToCopy, Runs
<1>2. PICK n \in ToCopy(i) : \A m \in ToCopy(i) : ~(<<m, n>> \in OpToRel(<, Nat))
  BY <1>1, NatLessThanWellFounded, WFMin, Zenon
<1>3. ASSUME NEW m \in ToCopy(i), ~(n <= m)  PROVE FALSE
  <2>1. m \in Nat /\ n \in Nat /\ m < n  BY <1>1, <1>3
  <2>2. <<m, n>> \in OpToRel(<, Nat)  BY <2>1 DEF OpToRel
  <2> QED  BY <1>2, <2>2
<1> QED  BY <1>3

LEMMA Opening ==
  ASSUME TypeOK, NEW i \in Installs, Open(i)
  PROVE  LET n == NextToCopy(i) IN
         /\ run' \in [Installs -> Runs]
         /\ n \in run[i].n .. Len(Plan) /\ n \in 1 .. Len(Plan)
         /\ Plan[n] \in run[i].staged /\ Plan[n] \in Keys
         /\ \A m \in run[i].n .. n - 1 : Plan[m] \notin run[i].staged
         /\ run'[i].pc = "writing" /\ run'[i].n = n
         /\ run'[i].ver = run[i].ver /\ run'[i].staged = run[i].staged
         /\ \A j \in Installs \ {i} : run'[j] = run[j]
<1> DEFINE n == NextToCopy(i)
<1>1. n \in ToCopy(i) /\ \A m \in ToCopy(i) : n <= m
  BY FirstToCopy DEF Open, NextToCopy
<1> HIDE DEF n
<1>2. run[i] \in Runs /\ run[i].n \in Nat /\ run[i].n > 0 /\ Len(Plan) \in Nat
  BY RunTypes, PlanNamesKeys DEF Runs, Open
<1>3. n \in run[i].n .. Len(Plan) /\ n \in 1 .. Len(Plan) /\ Plan[n] \in run[i].staged
  BY <1>1, <1>2 DEF ToCopy
<1>4. \A m \in run[i].n .. n - 1 : Plan[m] \notin run[i].staged
  <2>1. SUFFICES ASSUME NEW m \in run[i].n .. n - 1  PROVE Plan[m] \notin run[i].staged
    OBVIOUS
  <2>2. m \in run[i].n .. Len(Plan) /\ ~(n <= m)  BY <1>2, <1>3
  <2> QED  BY <1>1, <2>2 DEF ToCopy
<1>5. run' = [run EXCEPT ![i].pc = "writing", ![i].n = n]  BY DEF Open, n
<1>6. Plan[n] \in Keys  BY <1>3, PlanNamesKeys
<1>7. [run[i] EXCEPT !.pc = "writing", !.n = n] \in Runs
  <2>1. n \in 0 .. Len(Plan) + 1  BY <1>2, <1>3
  <2> QED  BY <1>2, <2>1 DEF Runs, Steps
<1>8. run'[i] = [run[i] EXCEPT !.pc = "writing", !.n = n] /\ run' \in [Installs -> Runs]
  BY <1>5, <1>7, RunTypes
<1>9. \A j \in Installs \ {i} : run'[j] = run[j]  BY <1>5, RunTypes
<1>10. /\ run'[i].pc = "writing" /\ run'[i].n = n
       /\ run'[i].ver = run[i].ver /\ run'[i].staged = run[i].staged
  BY <1>2, <1>8 DEF Runs
<1> QED  BY <1>3, <1>4, <1>6, <1>8, <1>9, <1>10 DEF n

LEMMA Writing ==
  ASSUME TypeOK, NEW i \in Installs, Write(i)
  PROVE  /\ run' \in [Installs -> Runs]
         /\ run[i].n \in 1 .. Len(Plan) /\ Plan[run[i].n] \in Keys
         /\ run'[i].pc = "committing" /\ run'[i].n = run[i].n + 1
         /\ run'[i].ver = run[i].ver /\ run'[i].staged = run[i].staged
         /\ \A j \in Installs \ {i} : run'[j] = run[j]
<1>1. run[i] \in Runs /\ run[i].n \in 1 .. Len(Plan) /\ Len(Plan) \in Nat
  BY RunTypes, PlanNamesKeys DEF Write
<1>2. run[i].n + 1 \in 0 .. Len(Plan) + 1  BY <1>1
<1>3. [run[i] EXCEPT !.pc = "committing", !.n = @ + 1] \in Runs
  BY <1>1, <1>2 DEF Runs, Steps
<1>4. run'[i] = [run[i] EXCEPT !.pc = "committing", !.n = @ + 1] /\ run' \in [Installs -> Runs]
  BY <1>3, RunTypes DEF Write
<1>5. \A j \in Installs \ {i} : run'[j] = run[j]  BY RunTypes DEF Write
<1> QED  BY <1>1, <1>4, <1>5, PlanNamesKeys DEF Runs

LEMMA Cancelling ==
  ASSUME TypeOK, Cancel
  PROVE  run' \in [Installs -> Runs] /\ \A j \in Installs : Stands(j)
<1>1. CASE active = 0
  BY <1>1, RunTypes DEF Cancel, Stands
<1>2. CASE active # 0
  <2>1. active \in Installs /\ run' = [run EXCEPT ![active].aborted = TRUE]
    BY <1>2 DEF Cancel, TypeOK
  <2> QED  BY <2>1, RunTypes DEF Runs, Stands
<1> QED  BY <1>1, <1>2

LEMMA Reloading ==
  ASSUME TypeOK, Reload
  PROVE  /\ run' \in [Installs -> Runs]
         /\ \A j \in Installs : run'[j].pc \in {"idle", "done"}
<1>1. run' = [i \in Installs |-> IF Live(i) THEN [IdleRun EXCEPT !.pc = "done"] ELSE run[i]]
  BY DEF Reload
<1>2. [IdleRun EXCEPT !.pc = "done"] \in Runs /\ [IdleRun EXCEPT !.pc = "done"].pc = "done"
  BY RunFields DEF Runs, Steps
<1>3. \A i \in Installs : ~Live(i) => run[i].pc \in {"idle", "done"}
  BY DEF Live
<1> QED  BY <1>1, <1>2, <1>3, RunTypes

(* ---- types are kept ----------------------------------------------------- *)
LEMMA InitialTypes == Init => TypeOK /\ TaskTypes
<1> SUFFICES ASSUME Init PROVE TypeOK /\ TaskTypes  OBVIOUS
<1>1. run \in [Installs -> Runs] /\ \A i \in Installs : run[i].pc = "idle"
  BY RunFields DEF Init
<1>2. IdleTask = [pc |-> "idle", todo |-> {}, seen |-> NoRecord]  BY DEF IdleTask
<1>3. TaskTypes
  BY <1>2, Records DEF Init, TaskTypes, Tasks, BootSteps
<1>4. 0 \in 0 .. MaxReloads  BY BoundsAssumption
<1> QED  BY <1>1, <1>3, <1>4, Records DEF Init, TypeOK, Runs, Steps

RunsTyped ==
  /\ run \in [Installs -> Runs]
  /\ \A i \in Installs : run[i].pc \in {"fetching", "writing"} => run[i].n \in 1 .. Len(Plan)
  /\ \A i \in Installs : run[i].pc = "committing" => run[i].n > 0
ShelfPackages == [edition : Versions \cup {None}, keys : SUBSET Keys]
DataTyped ==
  /\ files \in [Keys -> Versions \cup {"absent", "empty"}]
  /\ catalog \in RecordType /\ installed \in RecordType
  /\ staging \subseteq Installs \X Keys
  /\ ui \in States /\ flagged \in BOOLEAN /\ refresh \in BOOLEAN /\ active \in {0} \cup Installs
  /\ lost \subseteq Keys /\ torn \in BOOLEAN /\ past \subseteq ShelfPackages
  /\ reloads \in 0 .. MaxReloads
TypesKept == RunsTyped' /\ DataTyped' /\ TaskTypes'

LEMMA TypeParts ==
  /\ TypeOK <=> RunsTyped /\ DataTyped
  /\ TypeOK' <=> RunsTyped' /\ DataTyped'
BY PlanNamesKeys DEF TypeOK, RunsTyped, DataTyped, Runs, Steps, States, ShelfPackages

LEMMA InstallTypes ==
  ASSUME TypeOK, TaskTypes, StagesCritical, NEW i \in Installs
  PROVE  /\ InstallStep(i) => TypesKept
         /\ \A v \in Versions : Install(i, v) => TypesKept
<1> USE DEF TypesKept, TaskTypes, Show, durable, page, history
<1>0. RunsTyped /\ DataTyped  BY TypeParts
<1>1. ASSUME NEW v \in Versions, Install(i, v)  PROVE TypesKept
  <2>1. RunsTyped'
    BY <1>0, <1>1, Starting DEF RunsTyped, Stands
  <2>2. DataTyped' /\ TaskTypes'
    BY <1>0, <1>1 DEF Install, DataTyped, States
  <2> QED  BY <2>1, <2>2
<1>2. ASSUME Staged(i)  PROVE TypesKept
  <2>1. RunsTyped'
    BY <1>0, <1>2, Staging DEF RunsTyped
  <2>a. Plan[run[i].n] \in Keys  BY <1>2, Staging
  <2>b. staging' = staging \cup {<<i, Plan[run[i].n]>>}  BY <1>2 DEF Staged
  <2>2. staging' \subseteq Installs \X Keys
    BY <1>0, <2>a, <2>b DEF DataTyped
  <2>3. UNCHANGED <<files, catalog, installed, active, boot, remover, checker, refresh, history>>
    BY <1>2 DEF Staged
  <2>4. ui' \in States /\ flagged' \in BOOLEAN
    BY <1>2 DEF Staged, States
  <2>5. DataTyped'
    BY <1>0, <2>2, <2>3, <2>4 DEF DataTyped
  <2> QED  BY <2>1, <2>3, <2>5
<1>3. ASSUME Mismatch(i)  PROVE TypesKept
  <2>1. RunsTyped'
    BY <1>0, <1>3, Skipping DEF RunsTyped
  <2>2. ui' \in States /\ flagged' \in BOOLEAN
    BY <1>0, <1>3 DEF Mismatch, DataTyped, States
  <2>3. UNCHANGED <<files, catalog, staging, installed, active, refresh, history>>
    BY <1>3 DEF Mismatch
  <2>4. UNCHANGED <<boot, remover, checker>>
    BY <1>3 DEF Mismatch
  <2>5. DataTyped'
    BY <1>0, <2>2, <2>3 DEF DataTyped
  <2> QED  BY <2>1, <2>4, <2>5
<1>m. ASSUME NEW pc \in Steps \ {"fetching", "writing", "committing"}, To(i, pc)  PROVE RunsTyped'
  BY <1>0, <1>m, Moves DEF RunsTyped
<1>4. ASSUME FetchFails(i)  PROVE TypesKept
  <2>1. RunsTyped'  BY <1>4, <1>m DEF FetchFails, Steps
  <2>2. DataTyped' /\ TaskTypes'
    BY <1>0, <1>4 DEF FetchFails, DataTyped
  <2> QED  BY <2>1, <2>2
<1>5. ASSUME Commit(i)  PROVE TypesKept
  <2>1. CASE Open(i)
    <3>1. RunsTyped'  BY <1>0, <2>1, Opening DEF RunsTyped
    <3>2. DataTyped' /\ TaskTypes'
      BY <1>0, <2>1 DEF Open, DataTyped
    <3> QED  BY <3>1, <3>2
  <2>2. CASE Write(i)
    <3>1. /\ RunsTyped' /\ Plan[run[i].n] \in Keys
      <4>1. run[i].n + 1 > 0  BY <2>2, Writing
      <4> QED  BY <1>0, <2>2, <4>1, Writing DEF RunsTyped
    <3>2. Source(i, Plan[run[i].n]) \in Versions \cup {"absent", "empty"}
      BY <2>2 DEF Source, Write, StagesCritical, Live
    <3>3. DataTyped' /\ TaskTypes'
      BY <1>0, <2>2, <3>1, <3>2 DEF Write, DataTyped
    <3> QED  BY <3>1, <3>3
  <2>3. CASE CopyFails(i)
    <3>1. RunsTyped'  BY <2>3, <1>m DEF CopyFails, BreaksOff, Steps
    <3>2. DataTyped' /\ TaskTypes'
      BY <1>0, <2>3 DEF CopyFails, BreaksOff, DataTyped
    <3> QED  BY <3>1, <3>2
  <2>4. CASE AllCopied(i)
    <3>1. RunsTyped'  BY <2>4, <1>m DEF AllCopied, Steps
    <3>2. DataTyped' /\ TaskTypes'
      BY <1>0, <2>4 DEF AllCopied, DataTyped
    <3> QED  BY <3>1, <3>2
  <2> QED  BY <1>5, <2>1, <2>2, <2>3, <2>4 DEF Commit
<1>6. ASSUME Publish(i)  PROVE TypesKept
  <2>1. RunsTyped'  BY <1>6, <1>m DEF Publish, BreaksOff, Steps
  <2>2. Committed(i) \in RecordType /\ OnShelf(Committed(i)) \in ShelfPackages
    <3>1. run[i].ver \in Versions /\ run[i].staged \in SUBSET Keys
      BY <1>0, <1>6 DEF Publish, StagesCritical, Live, RunsTyped, Runs
    <3> QED  BY <3>1, Records DEF Committed, InstalledRecord, OnShelf, ShelfPackages
  <2>3. DataTyped' /\ TaskTypes'
    BY <1>0, <1>6, <2>2 DEF Publish, BreaksOff, DataTyped
  <2> QED  BY <2>1, <2>3
<1>7. ASSUME Clear(i)  PROVE TypesKept
  <2>1. RunsTyped'  BY <1>7, <1>m DEF Clear, Steps
  <2>2. DataTyped' /\ TaskTypes'
    BY <1>0, <1>7 DEF Clear, Unstage, DataTyped
  <2> QED  BY <2>1, <2>2
<1>8. ASSUME Record(i)  PROVE TypesKept
  <2>1. RunsTyped'  BY <1>8, <1>m DEF Record, Steps
  <2>2. DataTyped' /\ TaskTypes'
    BY <1>0, <1>8, Records DEF Record, WriteFailed, DataTyped
  <2> QED  BY <2>1, <2>2
<1>9. ASSUME Remembering(i)  PROVE TypesKept
  <2>1. RunsTyped'  BY <1>9, <1>m DEF Remembering, Steps
  <2>2. DataTyped' /\ TaskTypes'
    BY <1>0, <1>9 DEF Remembering, Remember, DataTyped
  <2> QED  BY <2>1, <2>2
<1>10. ASSUME Settle(i)  PROVE TypesKept
  <2>1. RunsTyped'  BY <1>10, <1>m DEF Settle, Steps
  <2>2. DataTyped' /\ TaskTypes'
    BY <1>0, <1>10, ShownIsAState DEF Settle, DataTyped
  <2> QED  BY <2>1, <2>2
<1> QED  BY <1>1, <1>2, <1>3, <1>4, <1>5, <1>6, <1>7, <1>8, <1>9, <1>10 DEF InstallStep

(* The states a task goes through.                                           *)
LEMMA TaskFields ==
  ASSUME NEW pcs, NEW S, NEW t \in Tasks(pcs, S), NEW pc \in pcs, NEW K \in SUBSET S
  PROVE  /\ [t EXCEPT !.pc = pc] \in Tasks(pcs, S) /\ [t EXCEPT !.pc = pc].todo = t.todo
         /\ [t EXCEPT !.pc = pc].pc = pc
         /\ [t EXCEPT !.todo = K] \in Tasks(pcs, S) /\ [t EXCEPT !.todo = K].todo = K
BY DEF Tasks
LEMMA IdleTaskFields ==
  ASSUME NEW pcs, NEW S, NEW pc \in pcs, NEW K \in SUBSET S, NEW r \in RecordType
  PROVE  /\ [IdleTask EXCEPT !.pc = pc] \in Tasks(pcs, S)
         /\ [IdleTask EXCEPT !.pc = pc].pc = pc /\ [IdleTask EXCEPT !.pc = pc].todo = {}
         /\ [IdleTask EXCEPT !.pc = pc, !.todo = K] \in Tasks(pcs, S)
         /\ [IdleTask EXCEPT !.pc = pc, !.seen = r] \in Tasks(pcs, S)
         /\ "idle" \in pcs => IdleTask \in Tasks(pcs, S)
BY Records DEF Tasks, IdleTask

LEMMA RemoverTypes ==
  ASSUME TypeOK, TaskTypes, StartRemove \/ RemoveStep
  PROVE  TypesKept
<1> USE DEF TypesKept, TaskTypes, Show, durable, page, history
<1>0. RunsTyped /\ DataTyped  BY TypeParts
<1>1. UNCHANGED <<run, boot, checker>>
  BY DEF StartRemove, RemoveStep, RemoveFile, RemoveRecord, RemoveFails, RemoveShown
<1>2. CASE StartRemove
  <2>1. remover' \in Tasks({"idle", "files", "page"}, Keys)
    BY <1>0, <1>2, IdleTaskFields DEF StartRemove, RecordType, DataTyped
  <2> QED  BY <1>0, <1>1, <1>2, <2>1 DEF StartRemove, DataTyped, RunsTyped
<1>3. CASE RemoveFile
  <2>1. remover' \in Tasks({"idle", "files", "page"}, Keys)
    <3>1. PICK k \in remover.todo : remover' = [remover EXCEPT !.todo = @ \ {k}]
      BY <1>3 DEF RemoveFile
    <3>2. remover.todo \ {k} \in SUBSET Keys  BY DEF Tasks
    <3> QED  BY <3>1, <3>2 DEF Tasks
  <2>2. files' \in [Keys -> Versions \cup {"absent", "empty"}] /\ lost' \subseteq Keys
    BY <1>0, <1>3 DEF RemoveFile, DataTyped, Tasks
  <2> QED  BY <1>0, <1>1, <1>3, <2>1, <2>2 DEF RemoveFile, DataTyped, RunsTyped
<1>4. CASE RemoveRecord
  <2>1. remover' \in Tasks({"idle", "files", "page"}, Keys)
    BY <1>4, TaskFields DEF RemoveRecord, Tasks
  <2> QED  BY <1>0, <1>1, <1>4, <2>1, Records DEF RemoveRecord, DataTyped, RunsTyped
<1>5. CASE RemoveFails
  <2>1. remover' \in Tasks({"idle", "files", "page"}, Keys)
    BY <1>5, IdleTaskFields, Records DEF RemoveFails
  <2> QED  BY <1>0, <1>1, <1>5, <2>1 DEF RemoveFails, DataTyped, RunsTyped
<1>6. CASE RemoveShown
  <2>1. remover' \in Tasks({"idle", "files", "page"}, Keys)
    BY <1>6, IdleTaskFields, Records DEF RemoveShown
  <2> QED  BY <1>0, <1>1, <1>6, <2>1, ShownIsAState DEF RemoveShown, DataTyped, RunsTyped
<1> QED  BY <1>2, <1>3, <1>4, <1>5, <1>6 DEF RemoveStep

LEMMA CheckerTypes ==
  ASSUME TypeOK, TaskTypes, StartCheck \/ CheckStep
  PROVE  TypesKept
<1> USE DEF TypesKept, TaskTypes, Show, durable, page, history
<1>0. RunsTyped /\ DataTyped  BY TypeParts
<1>1. UNCHANGED <<run, boot, remover>>
  BY DEF StartCheck, CheckStep, MarkStale, CheckShown
<1>2. CASE StartCheck
  <2>1. checker' \in Tasks({"idle", "mark", "page"}, Keys)
    BY <1>0, <1>2, IdleTaskFields DEF StartCheck, DataTyped
  <2> QED  BY <1>0, <1>1, <1>2, <2>1 DEF StartCheck, DataTyped, RunsTyped
<1>3. CASE MarkStale
  <2>1. checker' \in Tasks({"idle", "mark", "page"}, Keys)
    BY <1>3, TaskFields DEF MarkStale, Tasks
  <2>2. catalog' \in RecordType
    BY <1>3, Records DEF MarkStale, Tasks
  <2> QED  BY <1>0, <1>1, <1>3, <2>1, <2>2 DEF MarkStale, DataTyped, RunsTyped
<1>4. CASE CheckShown
  <2>1. checker' \in Tasks({"idle", "mark", "page"}, Keys)
    BY <1>4, IdleTaskFields, Records DEF CheckShown
  <2> QED  BY <1>0, <1>1, <1>4, <2>1, ShownIsAState DEF CheckShown, DataTyped, RunsTyped
<1> QED  BY <1>2, <1>3, <1>4 DEF CheckStep

LEMMA BootTypes ==
  ASSUME TypeOK, TaskTypes, BootStep
  PROVE  TypesKept
<1> USE DEF TypesKept, TaskTypes, Show, durable, page, history
<1> DEFINE BootTask == boot' \in Tasks(BootSteps, Keys \cup Installs)
                       /\ (boot'.pc = "audit" => boot'.todo \subseteq Keys)
<1>0. RunsTyped /\ DataTyped  BY TypeParts
<1>1. UNCHANGED <<run, remover, checker>>
  BY DEF BootStep, Hydrate, ListStaging, SweepOne, StartAudit, AuditFile, AuditVerdict,
         Strip, ShowBooted, BootFails
<1>2. ASSUME NEW pc \in BootSteps \ {"audit"}, boot' = [boot EXCEPT !.pc = pc]  PROVE BootTask
  BY <1>2, TaskFields DEF Tasks
<1>3. ASSUME boot' = [IdleTask EXCEPT !.pc = "up"]  PROVE BootTask
  BY <1>3, IdleTaskFields, Records DEF BootSteps
<1>4. CASE Hydrate
  <2>1. BootTask  BY <1>2, <1>4 DEF Hydrate, BootSteps
  <2> QED  BY <1>0, <1>1, <1>4, <2>1 DEF Hydrate, Remember, DataTyped, RunsTyped
<1>5. CASE ListStaging
  <2>1. {s[1] : s \in staging} \in SUBSET (Keys \cup Installs)
    BY <1>0 DEF DataTyped
  <2>2. BootTask
    BY <1>5, <2>1, TaskFields DEF ListStaging, BootSteps, Tasks
  <2> QED  BY <1>0, <1>1, <1>5, <2>2 DEF ListStaging, DataTyped, RunsTyped
<1>6. CASE SweepOne
  <2>1. PICK i \in boot.todo :
           /\ staging' = {s \in staging : s[1] # i}
           /\ boot' = [boot EXCEPT !.todo = @ \ {i}]
    BY <1>6 DEF SweepOne
  <2>2. boot.todo \ {i} \in SUBSET (Keys \cup Installs)  BY DEF Tasks
  <2>3. BootTask  BY <1>6, <2>1, <2>2, TaskFields DEF SweepOne, Tasks
  <2> QED  BY <1>0, <1>1, <1>6, <2>1, <2>3 DEF SweepOne, DataTyped, RunsTyped
<1>7. CASE StartAudit
  <2>1. ASSUME catalog.status = "installed"  PROVE BootTask
    <3>1. catalog.keys \in SUBSET Keys /\ [catalog EXCEPT !.keys = {}] \in RecordType
      BY <1>0, Records DEF DataTyped, RecordType
    <3> QED  BY <1>7, <2>1, <3>1 DEF StartAudit, Tasks, BootSteps
  <2>2. ASSUME catalog.status # "installed"  PROVE BootTask
    BY <1>2, <1>7, <2>2 DEF StartAudit, BootSteps
  <2>3. BootTask  BY <2>1, <2>2
  <2> QED  BY <1>0, <1>1, <1>7, <2>3 DEF StartAudit, DataTyped, RunsTyped
<1>8. CASE AuditFile
  <2>1. PICK k \in boot.todo, bad \in BOOLEAN :
           boot' = [boot EXCEPT !.todo = @ \ {k},
                                !.seen.keys = IF bad THEN @ \cup {k} ELSE @]
    BY <1>8 DEF AuditFile, Damaged
  <2>2. k \in Keys /\ boot.todo \ {k} \subseteq Keys /\ boot.pc = "audit"
    BY <1>8 DEF AuditFile, Tasks
  <2>3. BootTask
    <3>1. (IF bad THEN boot.seen.keys \cup {k} ELSE boot.seen.keys) \in SUBSET Keys
      BY <2>2 DEF Tasks, RecordType
    <3>2. boot.seen \in RecordType /\ boot.todo \ {k} \in SUBSET (Keys \cup Installs)
      BY <2>2 DEF Tasks
    <3> DEFINE K == IF bad THEN boot.seen.keys \cup {k} ELSE boot.seen.keys
               T == boot.todo \ {k}
    <3>3. boot' = [boot EXCEPT !.todo = T, !.seen = [boot.seen EXCEPT !.keys = K]]
      BY <2>1 DEF Tasks
    <3>4. [boot.seen EXCEPT !.keys = K] \in RecordType
      BY <3>1, <3>2, Records
    <3>5. T \in SUBSET (Keys \cup Installs) /\ T \subseteq Keys  BY <2>2
    <3> HIDE DEF K, T
    <3> QED  BY <2>2, <3>3, <3>4, <3>5 DEF Tasks
  <2> QED  BY <1>0, <1>1, <1>8, <2>3 DEF AuditFile, DataTyped, RunsTyped
<1>9. CASE AuditVerdict
  <2>1. ASSUME boot' = [boot EXCEPT !.pc = IF boot.seen.keys = {} THEN "show" ELSE "flag"]
        PROVE  BootTask
    BY <1>2, <2>1 DEF BootSteps
  <2>2. ASSUME boot' = [boot EXCEPT !.pc = "strip",
                          !.seen = [catalog EXCEPT !.keys = @ \ boot.seen.keys, !.stale = TRUE]]
        PROVE  BootTask
    <3>1. catalog.keys \ boot.seen.keys \in SUBSET Keys
      BY <1>0 DEF DataTyped, RecordType
    <3>2. [catalog EXCEPT !.keys = @ \ boot.seen.keys, !.stale = TRUE] \in RecordType
      BY <1>0, <3>1, Records DEF DataTyped
    <3> QED  BY <2>2, <3>2 DEF BootSteps, Tasks
  <2>3. BootTask  BY <1>9, <2>1, <2>2 DEF AuditVerdict
  <2> QED  BY <1>0, <1>1, <1>9, <2>3 DEF AuditVerdict, DataTyped, RunsTyped
<1>10. CASE Strip
  <2>1. BootTask  BY <1>2, <1>10 DEF Strip, BootSteps
  <2>2. boot.seen \in RecordType  BY DEF Tasks
  <2>3. past' \subseteq ShelfPackages /\ torn' \in BOOLEAN
    BY <1>0, <1>10, <2>2 DEF Strip, DataTyped, OnShelf, ShelfPackages, RecordType
  <2> QED  BY <1>0, <1>1, <1>10, <2>1, <2>2, <2>3 DEF Strip, Remember, DataTyped, RunsTyped
<1>11. CASE ShowBooted
  <2>1. BootTask  BY <1>3, <1>11 DEF ShowBooted
  <2>2. ui' \in States /\ flagged' \in BOOLEAN
    BY <1>0, <1>11, ShownIsAState DEF ShowBooted, DataTyped, States
  <2> QED  BY <1>0, <1>1, <1>11, <2>1, <2>2 DEF ShowBooted, DataTyped, RunsTyped
<1>12. CASE BootFails
  <2>1. BootTask  BY <1>3, <1>12 DEF BootFails
  <2> QED  BY <1>0, <1>1, <1>12, <2>1 DEF BootFails, DataTyped, RunsTyped
<1> QED  BY <1>4, <1>5, <1>6, <1>7, <1>8, <1>9, <1>10, <1>11, <1>12 DEF BootStep

LEMMA WorldTypes ==
  ASSUME TypeOK, TaskTypes, Cancel \/ Refresh \/ Evict \/ Reload
  PROVE  TypesKept
<1> USE DEF TypesKept, TaskTypes, Show, durable, page, history
<1>0. RunsTyped /\ DataTyped  BY TypeParts
<1>1. CASE Cancel
  <2>1. RunsTyped'
    BY <1>0, <1>1, Cancelling DEF RunsTyped, Stands
  <2> QED  BY <1>0, <1>1, <2>1 DEF Cancel, DataTyped
<1>2. CASE Refresh
  BY <1>0, <1>2, ShownIsAState DEF Refresh, DataTyped, RunsTyped
<1>3. CASE Evict
  BY <1>0, <1>3 DEF Evict, tasks, DataTyped, RunsTyped
<1>4. CASE Reload
  <2>1. RunsTyped'
    BY <1>4, Reloading DEF RunsTyped
  <2>2. TaskTypes'
    BY <1>4, IdleTaskFields, Records DEF Reload, BootSteps
  <2>3. reloads' \in 0 .. MaxReloads
    BY <1>0, <1>4, BoundsAssumption DEF Reload, DataTyped
  <2> QED  BY <1>0, <1>4, <2>1, <2>2, <2>3, Records DEF Reload, DataTyped, States
<1> QED  BY <1>1, <1>2, <1>3, <1>4

LEMMA TypesStay ==
  ASSUME TypeOK, TaskTypes, StagesCritical, [Next]_vars
  PROVE  TypeOK' /\ TaskTypes'
<1>1. CASE UNCHANGED vars
  <2>1. RunsTyped /\ DataTyped  BY TypeParts
  <2>2. RunsTyped' /\ DataTyped' /\ TaskTypes'
    BY <1>1, <2>1 DEF vars, RunsTyped, DataTyped, TaskTypes
  <2> QED  BY <2>2, TypeParts
<1>2. CASE Next
  <2>1. TypesKept
    BY <1>2, InstallTypes, RemoverTypes, CheckerTypes, BootTypes, WorldTypes DEF Next
  <2> QED  BY <2>1, TypeParts DEF TypesKept
<1> QED  BY <1>1, <1>2

(* ---- what a step leaves alone ------------------------------------------- *)
LEMMA InstallFrame ==
  ASSUME TypeOK, NEW i \in Installs, InstallStep(i)
  PROVE  /\ Live(i)
         /\ UNCHANGED <<boot, remover, checker, reloads>>
         /\ \A j \in Installs \ {i} : run'[j] = run[j]
<1>1. Live(i)
  BY DEF InstallStep, Staged, Mismatch, FetchFails, Commit, Open, Write, CopyFails, AllCopied,
         Publish, Clear, Record, WriteFailed, Remembering, Settle, Live
<1>2. UNCHANGED <<boot, remover, checker, reloads>>
  BY DEF InstallStep, Staged, Mismatch, FetchFails, Commit, Open, Write, CopyFails, AllCopied,
         Publish, Clear, Record, WriteFailed, Remembering, Settle, history
<1>3. \A j \in Installs \ {i} : run'[j] = run[j]
  BY Staging, Skipping, Opening, Writing, RunTypes
  DEF InstallStep, FetchFails, Commit, CopyFails, AllCopied, BreaksOff, Publish, Clear, Record,
      Remembering, Settle, To
<1> QED  BY <1>1, <1>2, <1>3

TaskStep ==
  \/ Refresh \/ StartRemove \/ StartCheck \/ RemoveStep \/ CheckStep \/ BootStep
  \/ Evict \/ UNCHANGED vars
LEMMA TaskFrame == TaskStep => UNCHANGED run
BY DEF TaskStep, Refresh, StartRemove, StartCheck, RemoveStep, CheckStep, BootStep, Evict, vars,
       tasks, RemoveFile, RemoveRecord, RemoveFails, RemoveShown, MarkStale, CheckShown, Hydrate,
       ListStaging, SweepOne, StartAudit, AuditFile, AuditVerdict, Strip, ShowBooted, BootFails

(* ---- the tasks keep apart ----------------------------------------------- *)
(* When nothing overlaps, an install starts only once the others are done.   *)
LEMMA AloneStays ==
  ASSUME TypeOK, TaskTypes, Alone, Disturbances = {}, [Next]_vars
  PROVE  Alone'
<1> USE DEF Alone, Booted, SomeLive
<1>r. run \in [Installs -> Runs]  BY RunTypes
<1>1. ASSUME NEW i \in Installs, NEW v \in Versions, Install(i, v)  PROVE Alone'
  BY <1>1 DEF Install
<1>2. ASSUME NEW i \in Installs, InstallStep(i)  PROVE Alone'
  BY <1>2, InstallFrame
<1>3. ASSUME UNCHANGED run \/ \A j \in Installs : Stands(j)  PROVE SomeLive' <=> SomeLive
  BY <1>3 DEF Live, Stands
<1>4. ASSUME Cancel  PROVE Alone'
  BY <1>3, <1>4, Cancelling DEF Cancel
<1>5. ASSUME Refresh \/ Evict \/ UNCHANGED vars  PROVE Alone'
  BY <1>3, <1>5 DEF Refresh, Evict, tasks, vars
<1>6. ASSUME StartRemove  PROVE Alone'
  BY <1>3, <1>6 DEF StartRemove, AtRest
<1>7. ASSUME StartCheck  PROVE Alone'
  BY <1>3, <1>7 DEF StartCheck, AtRest
<1>8. ASSUME RemoveStep  PROVE Alone'
  <2>1. remover.pc # "idle" /\ UNCHANGED <<run, boot, checker>>
    BY <1>8 DEF RemoveStep, RemoveFile, RemoveRecord, RemoveFails, RemoveShown
  <2> QED  BY <1>3, <2>1
<1>9. ASSUME CheckStep  PROVE Alone'
  <2>1. checker.pc # "idle" /\ UNCHANGED <<run, boot, remover>>
    BY <1>9 DEF CheckStep, MarkStale, CheckShown
  <2> QED  BY <1>3, <2>1
<1>10. ASSUME BootStep  PROVE Alone'
  <2>1. boot.pc # "up" /\ UNCHANGED <<run, remover, checker>>
    BY <1>10 DEF BootStep, Hydrate, ListStaging, SweepOne, StartAudit, AuditFile, AuditVerdict,
                 Strip, ShowBooted, BootFails
  <2> QED  BY <1>3, <2>1
<1>11. ASSUME Reload  PROVE Alone'
  <2>1. ~SomeLive'  BY <1>11, Reloading DEF Live
  <2>2. remover'.pc = "idle" /\ checker'.pc = "idle"  BY <1>11 DEF Reload, IdleTask
  <2> QED  BY <2>1, <2>2
<1> QED
  BY <1>1, <1>2, <1>4, <1>5, <1>6, <1>7, <1>8, <1>9, <1>10, <1>11 DEF Next

(* So nobody writes the record between a task's reading and its writing.     *)
LEMMA SeenStays ==
  ASSUME TypeOK, TaskTypes, Alone, SeenIsThere, [Next]_vars
  PROVE  SeenIsThere'
<1> USE DEF SeenIsThere
<1>1. ASSUME UNCHANGED <<catalog, boot, checker>>  PROVE SeenIsThere'
  BY <1>1
<1>2. ASSUME NEW i \in Installs, InstallStep(i)  PROVE SeenIsThere'
  <2>1. SomeLive /\ UNCHANGED <<boot, checker>>  BY <1>2, InstallFrame DEF SomeLive
  <2>2. checker.pc = "idle" /\ boot.pc = "up"  BY <2>1 DEF Alone, Booted
  <2> QED  BY <2>1, <2>2
<1>4. ASSUME StartRemove \/ RemoveFile \/ RemoveFails \/ RemoveShown  PROVE SeenIsThere'
  BY <1>1, <1>4 DEF StartRemove, RemoveFile, RemoveFails, RemoveShown, durable
<1>5. ASSUME RemoveRecord  PROVE SeenIsThere'
  <2>1. checker.pc = "idle" /\ boot.pc = "up"
    BY <1>5 DEF Alone, Booted, RemoveRecord
  <2> QED  BY <1>5, <2>1 DEF RemoveRecord
<1>6. ASSUME StartCheck  PROVE SeenIsThere'
  <2>1. UNCHANGED <<catalog, boot>> /\ checker'.seen = catalog /\ catalog.status = "installed"
    BY <1>6 DEF StartCheck, IdleTask, durable
  <2> QED  BY <2>1
<1>7. ASSUME MarkStale  PROVE SeenIsThere'
  <2>1. checker'.pc = "page" /\ boot.pc = "up" /\ UNCHANGED boot
    BY <1>7 DEF MarkStale, Alone, Booted, TaskTypes, Tasks
  <2> QED  BY <2>1
<1>8. ASSUME CheckShown  PROVE SeenIsThere'
  BY <1>8 DEF CheckShown, IdleTask, durable
<1>9. ASSUME BootStep  PROVE SeenIsThere'
  <2>1. checker.pc = "idle" /\ UNCHANGED checker
    BY <1>9 DEF BootStep, Hydrate, ListStaging, SweepOne, StartAudit, AuditFile, AuditVerdict,
                Strip, ShowBooted, BootFails, Alone, Booted
  <2>2. CASE Hydrate \/ ListStaging \/ SweepOne
    BY <2>1, <2>2 DEF Hydrate, ListStaging, SweepOne, TaskTypes, Tasks, durable
  <2>3. CASE StartAudit
    BY <2>1, <2>3 DEF StartAudit, TaskTypes, Tasks, durable
  <2>4. CASE AuditFile
    <3>1. boot'.pc = "audit" /\ boot.pc = "audit" /\ UNCHANGED catalog
      BY <2>4 DEF AuditFile, TaskTypes, Tasks, durable
    <3> QED  BY <2>1, <3>1
  <2>5. CASE AuditVerdict
    <3>1. UNCHANGED catalog /\ catalog.status = "installed"
      BY <2>5 DEF AuditVerdict, durable
    <3>2. \/ boot'.pc \in {"show", "flag"}
          \/ boot'.seen = [catalog EXCEPT !.keys = @ \ boot.seen.keys, !.stale = TRUE]
      BY <2>5 DEF AuditVerdict, TaskTypes, Tasks
    <3>3. catalog \in RecordType  BY DEF TypeOK
    <3> QED  BY <2>1, <3>1, <3>2, <3>3 DEF RecordType
  <2>6. CASE Strip \/ ShowBooted \/ BootFails
    BY <2>1, <2>6 DEF Strip, ShowBooted, BootFails, TaskTypes, Tasks, IdleTask
  <2> QED  BY <1>9, <2>2, <2>3, <2>4, <2>5, <2>6 DEF BootStep
<1>10. ASSUME Reload  PROVE SeenIsThere'
  BY <1>10 DEF Reload, IdleTask, durable
<1>11. ASSUME NEW i \in Installs, NEW v \in Versions, Install(i, v)  PROVE SeenIsThere'
  BY <1>1, <1>11 DEF Install, durable
<1>12. ASSUME Cancel \/ Refresh \/ Evict \/ UNCHANGED vars  PROVE SeenIsThere'
  BY <1>1, <1>12 DEF Cancel, Refresh, Evict, vars, durable, tasks
<1> QED
  BY <1>2, <1>4, <1>5, <1>6, <1>7, <1>8, <1>9, <1>10, <1>11, <1>12
  DEF Next, RemoveStep, CheckStep

(* ---- an install that commits has staged what is critical ---------------- *)
LEMMA StagesStays ==
  ASSUME TypeOK, StagesCritical, [Next]_vars
  PROVE  StagesCritical'
<1> USE RunTypes, PlanNamesKeys
<1> DEFINE Stages(j) ==
             /\ Live(j) => run[j].ver \in Versions
             /\ run[j].pc = "fetching" =>
                  \A m \in 1 .. run[j].n - 1 : Plan[m] \in Critical => Plan[m] \in run[j].staged
             /\ run[j].pc \in Committing => Critical \subseteq run[j].staged
<1>a. \A j \in Installs : Stages(j)  BY DEF StagesCritical
<1>b. SUFFICES ASSUME NEW j \in Installs  PROVE Stages(j)'
  BY DEF StagesCritical
<1>1. ASSUME Stands(j) \/ run'[j] = run[j]  PROVE Stages(j)'
  BY <1>a, <1>1 DEF Stands, Live
<1>2. ASSUME NEW v \in Versions, Install(j, v)  PROVE Stages(j)'
  <2>1. Critical = {} \/ Len(Plan) # 0
    BY CriticalAssumption DEF Keys
  <2> QED  BY <1>2, <2>1, Starting DEF Live, Committing
<1>3. ASSUME Staged(j)  PROVE Stages(j)'
  <2>1. ASSUME run'[j].pc = "fetching"  PROVE Stages(j)'
    <3>1. ASSUME NEW m \in 1 .. run'[j].n - 1, Plan[m] \in Critical
          PROVE  Plan[m] \in run'[j].staged
      <4>1. m \in 1 .. run[j].n - 1 \/ m = run[j].n  BY <2>1, <1>3, <3>1, Staging
      <4> QED  BY <1>a, <1>3, <3>1, <4>1, Staging
    <3>2. run'[j].ver \in Versions  BY <1>a, <1>3, Staging DEF Live
    <3> QED  BY <2>1, <3>1, <3>2 DEF Committing
  <2>2. ASSUME run'[j].pc = "committing", NEW k \in Critical  PROVE k \in run'[j].staged
    <3>1. PICK m \in 1 .. Len(Plan) : Plan[m] = k  BY CriticalAssumption DEF Keys
    <3>2. m \in 1 .. run[j].n - 1 \/ m = run[j].n  BY <2>2, <1>3, Staging
    <3> QED  BY <1>a, <1>3, <2>2, <3>1, <3>2, Staging
  <2> QED  BY <1>a, <1>3, <2>1, <2>2, Staging DEF Live, Committing
<1>4. ASSUME Mismatch(j)  PROVE Stages(j)'
  <2>1. run'[j].pc = "fetching" => Stages(j)'
    BY <1>a, <1>4, Skipping DEF Live, Committing
  <2>2. ASSUME run'[j].pc = "committing", NEW k \in Critical  PROVE k \in run'[j].staged
    <3>1. PICK m \in 1 .. Len(Plan) : Plan[m] = k  BY CriticalAssumption DEF Keys
    <3>2. m \in 1 .. run[j].n - 1 \/ m = run[j].n  BY <2>2, <1>4, Skipping
    <3> QED  BY <1>a, <1>4, <2>2, <3>1, <3>2, Skipping
  <2> QED  BY <1>a, <1>4, <2>1, <2>2, Skipping DEF Live, Committing
<1>5. ASSUME NEW pc \in Steps, To(j, pc), Live(j), pc \in Committing => run[j].pc \in Committing,
             pc # "fetching"
      PROVE  Stages(j)'
  BY <1>a, <1>5, Moves DEF Live
<1>6. ASSUME Open(j) \/ Write(j)  PROVE Stages(j)'
  <2>1. /\ run[j].pc \in {"committing", "writing"} /\ run'[j].pc \in {"committing", "writing"}
        /\ run'[j].ver = run[j].ver /\ run'[j].staged = run[j].staged
    BY <1>6, Opening, Writing DEF Open, Write
  <2> QED  BY <1>a, <2>1 DEF Live, Committing
<1>7. ASSUME InstallStep(j)  PROVE Stages(j)'
  <2>1. Live(j)  BY <1>7, InstallFrame
  <2>2. \/ Staged(j) \/ Mismatch(j) \/ Open(j) \/ Write(j)
        \/ To(j, "failing") \/ To(j, "done") \/ To(j, "recording") \/ To(j, "settling")
        \/ To(j, "remembering")
        \/ (To(j, "clearing") /\ run[j].pc \in Committing)
        \/ (To(j, "publishing") /\ run[j].pc \in Committing)
    BY <1>7 DEF InstallStep, FetchFails, Commit, CopyFails, AllCopied, BreaksOff, Publish, Clear,
                Record, Remembering, Settle, Committing
  <2> QED  BY <1>3, <1>4, <1>5, <1>6, <2>1, <2>2 DEF Steps, Committing
<1>8. ASSUME NEW i \in Installs \ {j}, InstallStep(i)  PROVE run'[j] = run[j]
  BY <1>8, InstallFrame
<1>9. ASSUME NEW i \in Installs \ {j}, NEW v \in Versions, Install(i, v)  PROVE Stands(j)
  BY <1>9, Starting
<1>10. ASSUME Cancel  PROVE Stands(j)
  BY <1>10, Cancelling
<1>11. ASSUME Reload  PROVE Stages(j)'
  BY <1>11, Reloading DEF Live, Committing
<1>12. ASSUME TaskStep  PROVE run'[j] = run[j]
  BY <1>12, TaskFrame
<1> HIDE DEF Stages
<1> QED
  BY <1>1, <1>2, <1>7, <1>8, <1>9, <1>10, <1>11, <1>12 DEF Next, TaskStep

(* ---- what is written back was a record ---------------------------------- *)
LEMMA FromPastStays ==
  ASSUME TypeOK, TaskTypes, FromPast, [Next]_vars
  PROVE  FromPast'
<1> USE DEF FromPast, Known
<1>1. ASSUME UNCHANGED <<catalog, boot, checker>>, past \subseteq past'  PROVE FromPast'
  BY <1>1 DEF OnShelf
<1>2. ASSUME NEW i \in Installs, InstallStep(i)  PROVE FromPast'
  <2>1. UNCHANGED <<boot, checker>>  BY <1>2, InstallFrame
  <2>2. /\ past \subseteq past'
        /\ \/ UNCHANGED catalog
           \/ catalog' = FailedRecord
           \/ OnShelf(catalog') \in past'
    BY <1>2 DEF InstallStep, Staged, Mismatch, FetchFails, Commit, Open, Write, CopyFails,
                AllCopied, Publish, Clear, Record, WriteFailed, Remembering, Settle, history,
                durable
  <2>3. FailedRecord.status # "installed"  BY DEF FailedRecord, NoRecord
  <2> QED  BY <2>1, <2>2, <2>3 DEF OnShelf
<1>3. ASSUME StartRemove \/ RemoveFile \/ RemoveFails \/ RemoveShown  PROVE FromPast'
  BY <1>1, <1>3 DEF StartRemove, RemoveFile, RemoveFails, RemoveShown, durable, history
<1>4. ASSUME RemoveRecord  PROVE FromPast'
  <2>1. catalog'.status # "installed" /\ UNCHANGED <<boot, checker, past>>
    BY <1>4 DEF RemoveRecord, NoRecord, None, history
  <2> QED  BY <2>1 DEF OnShelf
<1>5. ASSUME StartCheck  PROVE FromPast'
  <2>1. /\ UNCHANGED <<catalog, boot, past>> /\ checker'.seen = catalog
        /\ catalog.status = "installed"
    BY <1>5 DEF StartCheck, IdleTask, durable, history
  <2> QED  BY <2>1 DEF OnShelf
<1>6. ASSUME MarkStale  PROVE FromPast'
  <2>1. /\ UNCHANGED <<boot, past>> /\ checker'.pc = "page"
        /\ catalog' = [checker.seen EXCEPT !.stale = TRUE] /\ checker.pc = "mark"
    BY <1>6 DEF MarkStale, TaskTypes, Tasks
  <2>2. checker.seen \in RecordType  BY DEF TaskTypes, Tasks
  <2>3. OnShelf(catalog') = OnShelf(checker.seen)
    BY <2>1, <2>2 DEF OnShelf, RecordType
  <2> QED  BY <2>1, <2>3 DEF OnShelf
<1>7. ASSUME CheckShown  PROVE FromPast'
  BY <1>7 DEF CheckShown, IdleTask, durable, history, OnShelf
<1>8. ASSUME BootStep  PROVE FromPast'
  <2>1. UNCHANGED checker
    BY <1>8 DEF BootStep, Hydrate, ListStaging, SweepOne, StartAudit, AuditFile, AuditVerdict,
                Strip, ShowBooted, BootFails
  <2>2. ASSUME boot'.pc # "strip", UNCHANGED <<catalog, past>>  PROVE FromPast'
    BY <2>1, <2>2 DEF OnShelf
  <2>3. CASE Hydrate \/ ListStaging \/ SweepOne \/ StartAudit \/ AuditFile \/ ShowBooted \/ BootFails
    <3>1. UNCHANGED <<catalog, past>>
      BY <2>3 DEF Hydrate, ListStaging, SweepOne, StartAudit, AuditFile, ShowBooted, BootFails,
                  durable, history
    <3>2. CASE Hydrate \/ ListStaging
      BY <2>2, <3>1, <3>2 DEF Hydrate, ListStaging, TaskTypes, Tasks
    <3>3. CASE SweepOne \/ AuditFile
      BY <2>2, <3>1, <3>3 DEF SweepOne, AuditFile, TaskTypes, Tasks
    <3>4. CASE StartAudit
      BY <2>2, <3>1, <3>4 DEF StartAudit, TaskTypes, Tasks
    <3>5. CASE ShowBooted \/ BootFails
      BY <2>2, <3>1, <3>5 DEF ShowBooted, BootFails, IdleTask
    <3> QED  BY <2>3, <3>2, <3>3, <3>4, <3>5
  <2>4. CASE AuditVerdict
    <3>1. UNCHANGED <<catalog, past>>  BY <2>4 DEF AuditVerdict, durable, history
    <3>2. CASE boot'.pc # "strip"  BY <2>2, <3>1, <3>2
    <3>3. CASE boot'.pc = "strip"
      <4>1. boot'.seen = [catalog EXCEPT !.keys = @ \ boot.seen.keys, !.stale = TRUE]
        BY <2>4, <3>3 DEF AuditVerdict, TaskTypes, Tasks
      <4>2. catalog \in RecordType  BY DEF TypeOK
      <4>3. boot'.seen.status = catalog.status /\ boot'.seen.ver = catalog.ver
            /\ boot'.seen.keys = catalog.keys \ boot.seen.keys
        BY <4>1, <4>2 DEF RecordType
      <4>4. ASSUME catalog.status = "installed"
            PROVE  OnShelf(catalog) \in past /\ OnShelf(boot'.seen) \in Shelf!Rests(OnShelf(catalog))
        <5>1. /\ OnShelf(catalog) = [edition |-> catalog.ver, keys |-> catalog.keys]
              /\ OnShelf(boot'.seen) = [edition |-> catalog.ver, keys |-> boot'.seen.keys]
          BY <4>3, <4>4 DEF OnShelf
        <5>2. \A r, K : r = [edition |-> catalog.ver, keys |-> catalog.keys] =>
                 [edition |-> catalog.ver, keys |-> K] = [r EXCEPT !.keys = K]
          OBVIOUS
        <5>5. OnShelf(boot'.seen) = [OnShelf(catalog) EXCEPT !.keys = boot'.seen.keys]
          <6> HIDE DEF FromPast, Known
          <6> QED  BY <5>1, <5>2
        <5>6. boot'.seen.keys \in SUBSET OnShelf(catalog).keys
          <6> HIDE DEF FromPast, Known
          <6>1. OnShelf(catalog).keys = catalog.keys  BY <5>1
          <6> QED  BY <4>3, <6>1
        <5>3. OnShelf(catalog) \in past  BY <4>4
        <5>4. OnShelf(boot'.seen) \in Shelf!Rests(OnShelf(catalog))
          <6> HIDE DEF FromPast, Known
          <6> QED  BY <5>5, <5>6 DEF Shelf!Rests
        <5> QED  BY <5>3, <5>4
      <4> QED  BY <2>1, <3>1, <4>3, <4>4 DEF OnShelf
    <3> QED  BY <3>2, <3>3
  <2>5. CASE Strip
    <3>1. /\ catalog' = boot.seen /\ boot'.pc = "flag" /\ past \subseteq past'
          /\ boot.seen.status = "installed" => OnShelf(boot.seen) \in past'
      BY <2>5 DEF Strip, TaskTypes, Tasks
    <3> QED  BY <2>1, <3>1 DEF OnShelf
  <2> QED  BY <1>8, <2>3, <2>4, <2>5 DEF BootStep
<1>9. ASSUME Reload  PROVE FromPast'
  <2>1. UNCHANGED <<catalog, past>> /\ checker'.pc # "mark" /\ boot'.pc # "strip"
    BY <1>9 DEF Reload, IdleTask, durable
  <2> QED  BY <2>1 DEF OnShelf
<1>10. ASSUME NEW i \in Installs, NEW v \in Versions, Install(i, v)  PROVE FromPast'
  BY <1>1, <1>10 DEF Install, durable, history
<1>11. ASSUME Cancel \/ Refresh \/ Evict \/ UNCHANGED vars  PROVE FromPast'
  BY <1>1, <1>11 DEF Cancel, Refresh, Evict, vars, durable, tasks, history
<1> QED
  BY <1>2, <1>3, <1>4, <1>5, <1>6, <1>7, <1>8, <1>9, <1>10, <1>11
  DEF Next, RemoveStep, CheckStep

(* ---- the shelf's invariant ---------------------------------------------- *)
LEMMA ShelfInvHolds == Spec => []ShelfInv
<1>1. Init => ShelfInv
  <2> SUFFICES ASSUME Init PROVE ShelfInv  OBVIOUS
  <2>1. TypeOK /\ TaskTypes  BY InitialTypes
  <2>2. \A i \in Installs : run[i].pc = "idle"  BY RunFields DEF Init
  <2>3. Alone  BY <2>2 DEF Init, Alone, SomeLive, Live, IdleTask
  <2>4. SeenIsThere  BY DEF Init, SeenIsThere, IdleTask
  <2>5. StagesCritical  BY <2>2 DEF StagesCritical, Live, Committing
  <2>6. FromPast  BY DEF Init, FromPast, Known, IdleTask, NoRecord, None
  <2> QED  BY <2>1, <2>3, <2>4, <2>5, <2>6 DEF ShelfInv
<1>2. ShelfInv /\ [Next]_vars => ShelfInv'
  <2> SUFFICES ASSUME ShelfInv, [Next]_vars  PROVE ShelfInv'  OBVIOUS
  <2>1. TypeOK' /\ TaskTypes' /\ StagesCritical' /\ FromPast'
    BY TypesStay, StagesStays, FromPastStays DEF ShelfInv
  <2>2. Disturbances = {} => Alone' /\ SeenIsThere'
    BY AloneStays, SeenStays DEF ShelfInv
  <2> QED  BY <2>1, <2>2 DEF ShelfInv
<1> QED  BY <1>1, <1>2, PTL DEF Spec

(* ---- the refinement ----------------------------------------------------- *)
(* The catalogue is what was published, the playback path's map the shelf.   *)
LEMMA OnShelfIs ==
  OnShelf(NoRecord) = Shelf!Nothing /\ OnShelf(FailedRecord) = Shelf!Nothing
<1>1. NoRecord.status # "installed" /\ FailedRecord.status # "installed"
  BY DEF NoRecord, FailedRecord, None
<1> QED  BY <1>1 DEF OnShelf, Shelf!Nothing

LEMMA ShelfStep ==
  ASSUME ShelfInv, [Next]_vars
  PROVE  [Shelf!Next]_(Shelf!shelfVars)
<1> DEFINE Still == UNCHANGED <<OnShelf(catalog), OnShelf(installed), past>>
<1>t. TypeOK /\ TaskTypes /\ StagesCritical /\ FromPast  BY DEF ShelfInv
<1>b. "overwrite" \in Breaches /\ (Disturbances # {} => "restore" \in Breaches)
  BY DEF Breaches
<1>1. ASSUME UNCHANGED <<catalog, installed, past>>  PROVE Still
  BY <1>1 DEF OnShelf
<1>2. ASSUME NEW i \in Installs, Publish(i)  PROVE Still \/ Shelf!Publish
  <2>1. CASE catalog' = Committed(i) /\ past' = past \cup {OnShelf(Committed(i))}
    <3>1. run[i].ver \in Versions /\ Critical \subseteq run[i].staged
      BY <1>t, <1>2 DEF Publish, StagesCritical, Live, Committing
    <3>2. run[i].staged \in SUBSET Keys  BY <1>t, RunTypes DEF Runs
    <3>3. OnShelf(catalog') = [edition |-> run[i].ver, keys |-> run[i].staged]
      BY <2>1 DEF OnShelf, Committed, InstalledRecord
    <3>4. OnShelf(catalog)' \in Shelf!Packages
      BY <3>1, <3>2, <3>3 DEF Shelf!Packages, OnShelf
    <3>5. UNCHANGED OnShelf(installed)  BY <1>2 DEF Publish, OnShelf
    <3>6. past' = past \cup {OnShelf(catalog)'}  BY <2>1 DEF OnShelf
    <3> QED  BY <3>4, <3>5, <3>6 DEF Shelf!Publish
  <2>2. CASE UNCHANGED <<catalog, past>>
    BY <1>1, <1>2, <2>2 DEF Publish
  <2> QED  BY <1>2, <2>1, <2>2 DEF Publish
<1>3. ASSUME NEW i \in Installs, Record(i)  PROVE Still \/ Shelf!Overwrite
  <2>1. CASE catalog' = FailedRecord
    <3>1. OnShelf(catalog)' = Shelf!Nothing /\ UNCHANGED <<OnShelf(installed), past>>
      BY <1>3, <2>1, OnShelfIs DEF Record, WriteFailed, OnShelf
    <3> QED  BY <1>b, <3>1 DEF Shelf!Overwrite
  <2>2. CASE UNCHANGED catalog
    BY <1>1, <1>3, <2>2 DEF Record, WriteFailed
  <2> QED  BY <1>3, <2>1, <2>2 DEF Record, WriteFailed
(* A record is taken over as it is, or passed over.                          *)
<1>4. ASSUME Remember(catalog), UNCHANGED <<catalog, past>>
      PROVE  Still \/ Shelf!Offer \/ Shelf!Forget
  <2>1. CASE catalog.status = "installed"
    <3>1. /\ OnShelf(installed)' = OnShelf(catalog)
          /\ UNCHANGED <<OnShelf(catalog), past>>
      BY <1>4, <2>1 DEF Remember, OnShelf
    <3>2. CASE OnShelf(catalog) # Shelf!Nothing
      BY <3>1, <3>2 DEF Shelf!Offer
    <3>3. CASE OnShelf(catalog) = Shelf!Nothing
      BY <3>1, <3>3 DEF Shelf!Forget
    <3> QED  BY <3>2, <3>3
  <2>2. CASE catalog.status # "installed"
    BY <1>1, <1>4, <2>2 DEF Remember
  <2> QED  BY <2>1, <2>2
<1>5. ASSUME NEW i \in Installs, Remembering(i)  PROVE Still \/ Shelf!Offer \/ Shelf!Forget
  BY <1>4, <1>5 DEF Remembering, durable, history
<1>6. ASSUME Hydrate  PROVE Still \/ Shelf!Offer \/ Shelf!Forget
  BY <1>4, <1>6 DEF Hydrate, durable, history
<1>7. ASSUME RemoveRecord  PROVE Shelf!Remove
  <2>1. OnShelf(catalog)' = Shelf!Nothing /\ OnShelf(installed)' = Shelf!Nothing /\ UNCHANGED past
    BY <1>7, OnShelfIs DEF RemoveRecord, OnShelf, history
  <2> QED  BY <2>1 DEF Shelf!Remove
(* The mark is put on the record that is there, or on one of the past.       *)
<1>8. ASSUME MarkStale  PROVE Still \/ Shelf!Restore
  <2>1. /\ catalog' = [checker.seen EXCEPT !.stale = TRUE] /\ UNCHANGED <<installed, past>>
        /\ checker.pc = "mark"
    BY <1>8 DEF MarkStale, page
  <2>2. checker.seen \in RecordType /\ checker.seen.status = "installed"
    BY <1>t, <2>1 DEF TaskTypes, Tasks, FromPast
  <2>3. OnShelf(catalog)' = OnShelf(checker.seen) /\ OnShelf(checker.seen) \in past
    BY <1>t, <2>1, <2>2 DEF OnShelf, RecordType, FromPast, Known
  <2>4. UNCHANGED OnShelf(installed)  BY <2>1 DEF OnShelf
  <2>5. CASE Disturbances = {}
    <3>1. checker.seen = catalog  BY <2>1, <2>5 DEF ShelfInv, SeenIsThere
    <3> QED  BY <2>1, <2>3, <2>4, <3>1
  <2>6. CASE Disturbances # {}
    BY <1>b, <2>1, <2>3, <2>4, <2>6 DEF Shelf!Restore
  <2> QED  BY <2>5, <2>6
<1>9. ASSUME Strip
      PROVE  Shelf!Damage \/ Shelf!Remove \/ Shelf!Overwrite \/ Shelf!Restore
  <2>0. /\ OnShelf(catalog)' = OnShelf(boot.seen) /\ boot.pc = "strip"
        /\ boot.seen \in RecordType
    BY <1>t, <1>9 DEF Strip, OnShelf, TaskTypes, Tasks
  <2>1. CASE boot.seen.status # "installed"
    <3>1. OnShelf(catalog)' = Shelf!Nothing  BY <2>0, <2>1 DEF OnShelf, Shelf!Nothing
    <3>2. UNCHANGED <<OnShelf(installed), past>>  BY <1>9, <2>1 DEF Strip, Remember, OnShelf
    <3> QED  BY <1>b, <3>1, <3>2 DEF Shelf!Overwrite
  <2>2. CASE boot.seen.status = "installed"
    <3>1. /\ OnShelf(installed)' = OnShelf(boot.seen)
          /\ past' = past \cup {OnShelf(boot.seen)}
      BY <1>9, <2>2 DEF Strip, Remember, OnShelf
    <3>2. CASE Disturbances # {}
      <4>1. PICK p \in past : OnShelf(boot.seen) \in Shelf!Rests(p)
        BY <1>t, <2>0, <2>2 DEF FromPast
      <4> QED  BY <1>b, <2>0, <3>1, <3>2, <4>1 DEF Shelf!Restore
    <3>3. CASE Disturbances = {}
      <4>1. /\ catalog.status = "installed"
            /\ boot.seen.ver = catalog.ver /\ boot.seen.keys \subseteq catalog.keys
        BY <2>0, <3>3 DEF ShelfInv, SeenIsThere
      <4>2. /\ OnShelf(catalog) = [edition |-> catalog.ver, keys |-> catalog.keys]
            /\ OnShelf(boot.seen) = [edition |-> catalog.ver, keys |-> boot.seen.keys]
        BY <2>2, <4>1 DEF OnShelf
      <4>3. CASE OnShelf(catalog) # Shelf!Nothing
        <5>1. OnShelf(boot.seen) = [OnShelf(catalog) EXCEPT !.keys = boot.seen.keys]
          BY <4>2
        <5>2. boot.seen.keys \in SUBSET OnShelf(catalog).keys  BY <4>1, <4>2
        <5>3. OnShelf(boot.seen) \in Shelf!Rests(OnShelf(catalog))
          BY <5>1, <5>2 DEF Shelf!Rests
        <5> QED  BY <2>0, <3>1, <4>3, <5>3 DEF Shelf!Damage
      <4>4. CASE OnShelf(catalog) = Shelf!Nothing
        <5>1. OnShelf(catalog).keys = {} /\ OnShelf(catalog).edition = "none"
          BY <4>4 DEF Shelf!Nothing
        <5>2. OnShelf(boot.seen) = Shelf!Nothing
          BY <4>1, <4>2, <5>1 DEF Shelf!Nothing
        <5>3. Shelf!Nothing \in past  BY <1>t, <4>1, <4>4 DEF FromPast, Known
        <5>4. past' = past  BY <3>1, <5>2, <5>3
        <5> QED  BY <2>0, <3>1, <5>2, <5>4 DEF Shelf!Remove
      <4> QED  BY <4>3, <4>4
    <3> QED  BY <3>2, <3>3
  <2> QED  BY <2>1, <2>2
<1>10. ASSUME Reload  PROVE Shelf!Forget
  <2>1. /\ UNCHANGED <<OnShelf(catalog), past>>
        /\ OnShelf(installed)' = Shelf!Nothing
    BY <1>10, OnShelfIs DEF Reload, durable, OnShelf
  <2> QED  BY <2>1 DEF Shelf!Forget
(* Every other step leaves the record and the map alone.                     *)
<1>11. ASSUME NEW i \in Installs,
              \/ Staged(i) \/ Mismatch(i) \/ FetchFails(i) \/ Commit(i) \/ Clear(i) \/ Settle(i)
              \/ \E v \in Versions : Install(i, v)
       PROVE  Still
  <2>1. UNCHANGED <<catalog, installed, past>>
    BY <1>11 DEF Staged, Mismatch, FetchFails, Commit, Open, Write, CopyFails, AllCopied, Clear,
                 Settle, Install, durable, page, history
  <2> QED  BY <1>1, <2>1
<1>12. ASSUME \/ Cancel \/ Refresh \/ StartRemove \/ StartCheck \/ Evict \/ UNCHANGED vars
              \/ RemoveFile \/ RemoveFails \/ RemoveShown \/ CheckShown \/ ListStaging
              \/ SweepOne \/ StartAudit \/ AuditFile \/ AuditVerdict \/ ShowBooted \/ BootFails
       PROVE  Still
  <2>1. UNCHANGED <<catalog, installed, past>>
    BY <1>12 DEF Cancel, Refresh, StartRemove, StartCheck, Evict, vars, RemoveFile, RemoveFails,
                 RemoveShown, CheckShown, ListStaging, SweepOne, StartAudit, AuditFile,
                 AuditVerdict, ShowBooted, BootFails, durable, page, history
  <2> QED  BY <1>1, <2>1
<1> HIDE DEF Still
<1>13. \/ Still \/ Shelf!Next
  BY <1>2, <1>3, <1>5, <1>6, <1>7, <1>8, <1>9, <1>10, <1>11, <1>12
  DEF Next, InstallStep, RemoveStep, CheckStep, BootStep, Shelf!Next
<1> QED  BY <1>13 DEF Still, Shelf!shelfVars

(* Whatever tasks overlap, fail, are superseded or are cut short by a        *)
(* reload, the offline store implements the shelf: a package is published    *)
(* whole in one step, is offered as it is published, and never grows; but    *)
(* for a failed replacement, which takes it away, and, where tasks overlap,  *)
(* a write-back, which brings nothing but a package of the past              *)
(* (web/app/src/lib/offline/installer.ts, manager.ts and audit.ts).          *)
THEOREM ShelfIsImplemented == Spec => ImplementsShelf
<1>1. Init => Shelf!Init
  BY OnShelfIs DEF Init, Shelf!Init
<1>2. Spec => []ShelfInv  BY ShelfInvHolds
<1>3. ShelfInv /\ [Next]_vars => [Shelf!Next]_(Shelf!shelfVars)  BY ShelfStep
<1> QED  BY <1>1, <1>2, <1>3, PTL DEF Spec, ImplementsShelf, Shelf!Spec

(* ---- what is offered is whole ------------------------------------------- *)
(* Without an install during the boot, the boot has the release to itself.   *)
BootAlone ==
  /\ ~Booted => ~SomeLive /\ remover.pc = "idle" /\ checker.pc = "idle"
  /\ boot.pc \in {"audit", "strip"} => catalog.status = "installed"
  /\ boot.pc = "strip" =>
       /\ boot.seen.status = "installed" /\ boot.seen.ver = catalog.ver
       /\ boot.seen.keys \subseteq catalog.keys

(* A staged file stays until it is copied, and only staged ones are copied.  *)
Early == {"fetching", "committing", "writing"}
StagedIsThere ==
  \A i \in Installs :
    /\ run[i].pc \in Early => \A k \in run[i].staged : <<i, k>> \in staging
    /\ run[i].pc = "writing" => Plan[run[i].n] \in run[i].staged

(* An install past its copying has copied all it has staged.                 *)
CopiesAll ==
  \A i \in Installs : run[i].pc \in {"clearing", "publishing"} =>
    \A k \in run[i].staged : \E m \in 1 .. run[i].n - 1 : Plan[m] = k

(* Whatever a record names or an install has copied is whole, or was dropped. *)
Whole(k) == files[k] \in Versions \/ k \in lost
HasCopied(i, k) ==
  /\ run[i].pc \in Committing /\ k \in run[i].staged
  /\ \E m \in 1 .. run[i].n - 1 : Plan[m] = k
NamedIsWhole ==
  /\ \A k \in catalog.keys \cup installed.keys : Whole(k)
  /\ checker.pc = "mark" => \A k \in checker.seen.keys : Whole(k)
  /\ \A i \in Installs, k \in Keys : HasCopied(i, k) => Whole(k)

(* While nothing was torn, it also is of the version of the record, unless   *)
(* the one install that has begun to copy over it is not done with it.       *)
Own(k, v) == files[k] = v \/ k \in lost
Tied ==
  /\ \A i, j \in Installs : Begun(i) /\ Begun(j) => i = j
  /\ \A i \in Installs, k \in Keys : HasCopied(i, k) => Own(k, run[i].ver)
  /\ catalog.status = "installed" =>
       \A k \in catalog.keys : Own(k, catalog.ver) \/ \E i \in Installs : Begun(i)
  /\ \A k \in installed.keys : Own(k, installed.ver) \/ Replacing
  /\ (\E i \in Installs : run[i].pc = "remembering") =>
       catalog.status = "installed" \/ installed.keys = {}

WholeInv ==
  /\ BootAlone /\ StagedIsThere /\ CopiesAll /\ NamedIsWhole
  /\ ~torn => Tied


LEMMA BegunIs ==
  ASSUME TypeOK, NEW i \in Installs
  PROVE  Begun(i) <=> \E k \in Keys : HasCopied(i, k)
<1>1. run[i].staged \subseteq Keys  BY RunTypes DEF Runs
<1> QED  BY <1>1 DEF Begun, HasCopied, Committing

(* ---- the installs, before and after a step ------------------------------- *)
LEMMA CopiedBefore ==
  ASSUME TypeOK, [Next]_vars, NEW j \in Installs, NEW k \in Keys, HasCopied(j, k)'
  PROVE  /\ HasCopied(j, k) \/ (Write(j) /\ k = Plan[run[j].n])
         /\ run'[j].ver = run[j].ver
<1> DEFINE Was == /\ HasCopied(j, k) \/ (Write(j) /\ k = Plan[run[j].n])
                  /\ run'[j].ver = run[j].ver
<1>0. /\ run'[j].pc \in Committing /\ k \in run'[j].staged
      /\ \E m \in 1 .. run'[j].n - 1 : Plan[m] = k
  BY DEF HasCopied
<1>r. run[j].n \in Nat /\ Len(Plan) \in Nat  BY RunTypes, PlanNamesKeys DEF Runs
<1>1. ASSUME Stands(j) \/ run'[j] = run[j]  PROVE Was
  BY <1>0, <1>1 DEF Stands, HasCopied
<1>2. ASSUME run'[j].pc = "committing", run'[j].n = 1  PROVE FALSE
  BY <1>0, <1>2
<1>3. ASSUME NEW pc \in Steps \ Committing, To(j, pc)  PROVE FALSE
  BY <1>0, <1>3, Moves
<1>4. ASSUME NEW pc \in Steps, To(j, pc), run[j].pc \in Committing  PROVE Was
  BY <1>0, <1>4, Moves DEF HasCopied
<1>5. CASE Open(j)
  <2> DEFINE n == NextToCopy(j)
  <2> HIDE DEF n
  <2>1. /\ run'[j].n = n /\ run'[j].staged = run[j].staged /\ run'[j].ver = run[j].ver
        /\ n \in run[j].n .. Len(Plan)
        /\ \A m \in run[j].n .. n - 1 : Plan[m] \notin run[j].staged
    BY <1>5, Opening DEF n
  <2>2. PICK m \in 1 .. n - 1 : Plan[m] = k  BY <1>0, <2>1
  <2>3. m \in 1 .. run[j].n - 1 \/ m \in run[j].n .. n - 1  BY <1>r, <2>1, <2>2
  <2>4. m \in 1 .. run[j].n - 1  BY <1>0, <2>1, <2>2, <2>3
  <2> QED  BY <1>0, <1>5, <2>1, <2>2, <2>4 DEF HasCopied, Open, Committing
<1>6. CASE Write(j)
  <2>1. /\ run'[j].n = run[j].n + 1 /\ run'[j].staged = run[j].staged
        /\ run'[j].ver = run[j].ver
    BY <1>6, Writing
  <2>2. PICK m \in 1 .. run[j].n : Plan[m] = k  BY <1>0, <1>r, <2>1
  <2>3. CASE m = run[j].n  BY <1>6, <2>1, <2>2, <2>3
  <2>4. CASE m # run[j].n
    <3>1. m \in 1 .. run[j].n - 1  BY <1>r, <2>2, <2>4
    <3> QED  BY <1>0, <1>6, <2>1, <2>2, <3>1 DEF HasCopied, Write, Committing
  <2> QED  BY <2>3, <2>4
<1>7. CASE InstallStep(j)
  <2>1. CASE Staged(j)
    BY <1>0, <1>2, <2>1, Staging DEF Committing
  <2>2. CASE Mismatch(j)
    BY <1>0, <1>2, <2>2, Skipping DEF Committing
  <2>3. \/ Staged(j) \/ Mismatch(j) \/ Open(j) \/ Write(j)
        \/ To(j, "failing") \/ To(j, "done") \/ To(j, "recording") \/ To(j, "settling")
        \/ To(j, "remembering")
        \/ (To(j, "clearing") /\ run[j].pc \in Committing)
        \/ (To(j, "publishing") /\ run[j].pc \in Committing)
    BY <1>7 DEF InstallStep, FetchFails, Commit, CopyFails, AllCopied, BreaksOff, Publish, Clear,
                Record, Remembering, Settle, Committing
  <2> QED  BY <1>3, <1>4, <1>5, <1>6, <2>1, <2>2, <2>3 DEF Steps, Committing
<1>8. ASSUME NEW i \in Installs \ {j}, InstallStep(i)  PROVE run'[j] = run[j]
  BY <1>8, InstallFrame
<1>9. ASSUME NEW i \in Installs \ {j}, NEW v \in Versions, Install(i, v)  PROVE Stands(j)
  BY <1>9, Starting
<1>10. ASSUME NEW v \in Versions, Install(j, v)  PROVE FALSE
  BY <1>0, <1>2, <1>10, Starting DEF Committing
<1>11. CASE Cancel  BY <1>1, <1>11, Cancelling
<1>12. CASE Reload  BY <1>0, <1>12, Reloading DEF Committing
<1>13. CASE TaskStep  BY <1>1, <1>13, TaskFrame
<1> QED
  BY <1>1, <1>7, <1>8, <1>9, <1>10, <1>11, <1>12, <1>13 DEF Next, TaskStep

(* What an install has copied it keeps until its record is there, or the     *)
(* copy is broken off.                                                       *)
LEMMA CopiedAfter ==
  ASSUME TypeOK, [Next]_vars, NEW j \in Installs, NEW k \in Keys, HasCopied(j, k)
  PROVE  HasCopied(j, k)' \/ torn' \/ run'[j].pc = "remembering"
<1> DEFINE Has == HasCopied(j, k)'
<1>0. /\ run[j].pc \in Committing /\ k \in run[j].staged
      /\ \E m \in 1 .. run[j].n - 1 : Plan[m] = k
  BY DEF HasCopied
<1>b. Begun(j)  BY BegunIs
<1>r. run[j].n \in Nat /\ Len(Plan) \in Nat  BY RunTypes, PlanNamesKeys DEF Runs
<1>1. ASSUME Stands(j) \/ run'[j] = run[j]  PROVE Has
  BY <1>0, <1>1 DEF Stands, HasCopied
<1>2. ASSUME NEW pc \in Committing, To(j, pc)  PROVE Has
  BY <1>0, <1>2, Moves DEF HasCopied, Committing, Steps
<1>3. CASE Open(j)
  <2> DEFINE n == NextToCopy(j)
  <2> HIDE DEF n
  <2>1. /\ run'[j].n = n /\ run'[j].staged = run[j].staged /\ run'[j].pc = "writing"
        /\ n \in run[j].n .. Len(Plan)
    BY <1>3, Opening DEF n
  <2>2. 1 .. run[j].n - 1 \subseteq 1 .. n - 1  BY <1>r, <2>1
  <2> QED  BY <1>0, <2>1, <2>2 DEF HasCopied, Committing
<1>4. CASE Write(j)
  <2>1. 1 .. run[j].n - 1 \subseteq 1 .. run'[j].n - 1  BY <1>4, <1>r, Writing
  <2> QED  BY <1>0, <1>4, <2>1, Writing DEF HasCopied, Committing
<1>5. CASE InstallStep(j)
  <2>1. \/ Open(j) \/ Write(j) \/ BreaksOff(j)
        \/ To(j, "clearing") \/ To(j, "publishing") \/ To(j, "remembering")
    BY <1>0, <1>5 DEF InstallStep, Staged, Mismatch, FetchFails, Commit, CopyFails, AllCopied,
                      Publish, Clear, Record, WriteFailed, Remembering, Settle, Committing
  <2>2. CASE BreaksOff(j)  BY <1>b, <2>2 DEF BreaksOff
  <2>3. CASE To(j, "remembering")  BY <2>3, Moves DEF Steps
  <2> QED  BY <1>2, <1>3, <1>4, <2>1, <2>2, <2>3 DEF Committing
<1>8. ASSUME NEW i \in Installs \ {j}, InstallStep(i)  PROVE run'[j] = run[j]
  BY <1>8, InstallFrame
<1>9. ASSUME NEW i \in Installs \ {j}, NEW v \in Versions, Install(i, v)  PROVE Stands(j)
  BY <1>9, Starting
<1>10. ASSUME NEW v \in Versions, Install(j, v)  PROVE FALSE
  BY <1>0, <1>10 DEF Install, Committing
<1>11. CASE Cancel  BY <1>1, <1>11, Cancelling
<1>12. CASE Reload  BY <1>b, <1>12 DEF Reload
<1>13. CASE TaskStep  BY <1>1, <1>13, TaskFrame
<1> QED
  BY <1>1, <1>5, <1>8, <1>9, <1>10, <1>11, <1>12, <1>13 DEF Next, TaskStep

(* Only a record that was put makes an install remember it.                  *)
LEMMA RememberingBefore ==
  ASSUME TypeOK, [Next]_vars, NEW j \in Installs, run'[j].pc = "remembering"
  PROVE  run[j].pc = "remembering" \/ (Publish(j) /\ catalog' = Committed(j))
<1>1. ASSUME Stands(j) \/ run'[j] = run[j]  PROVE run[j].pc = "remembering"
  BY <1>1 DEF Stands
<1>2. ASSUME NEW pc \in Steps \ {"remembering"}, To(j, pc)  PROVE FALSE
  BY <1>2, Moves
<1>3. CASE InstallStep(j)
  <2>1. \/ Staged(j) \/ Mismatch(j) \/ Open(j) \/ Write(j)
        \/ To(j, "failing") \/ To(j, "done") \/ To(j, "recording") \/ To(j, "settling")
        \/ To(j, "clearing") \/ To(j, "publishing")
        \/ (Publish(j) /\ catalog' = Committed(j))
    BY <1>3 DEF InstallStep, FetchFails, Commit, CopyFails, AllCopied, BreaksOff, Publish, Clear,
                Record, Remembering, Settle
  <2>2. ~Staged(j) /\ ~Mismatch(j) /\ ~Open(j) /\ ~Write(j)
    BY Staging, Skipping, Opening, Writing
  <2> QED  BY <1>2, <2>1, <2>2 DEF Steps
<1>8. ASSUME NEW i \in Installs \ {j}, InstallStep(i)  PROVE run'[j] = run[j]
  BY <1>8, InstallFrame
<1>9. ASSUME NEW i \in Installs \ {j}, NEW v \in Versions, Install(i, v)  PROVE Stands(j)
  BY <1>9, Starting
<1>10. ASSUME NEW v \in Versions, Install(j, v)  PROVE FALSE
  BY <1>10, Starting
<1>11. CASE Cancel  BY <1>1, <1>11, Cancelling
<1>12. CASE Reload  BY <1>12, Reloading
<1>13. CASE TaskStep  BY <1>1, <1>13, TaskFrame
<1> QED
  BY <1>1, <1>3, <1>8, <1>9, <1>10, <1>11, <1>12, <1>13 DEF Next, TaskStep

LEMMA RememberingAfter ==
  ASSUME TypeOK, [Next]_vars, NEW j \in Installs, run[j].pc = "remembering"
  PROVE  run'[j].pc = "remembering" \/ Remembering(j) \/ Reload
<1>1. ASSUME Stands(j) \/ run'[j] = run[j]  PROVE run'[j].pc = "remembering"
  BY <1>1 DEF Stands
<1>2. CASE InstallStep(j)
  BY <1>2 DEF InstallStep, Staged, Mismatch, FetchFails, Commit, Open, Write, CopyFails,
              AllCopied, Publish, Clear, Record, WriteFailed, Settle
<1>8. ASSUME NEW i \in Installs \ {j}, InstallStep(i)  PROVE run'[j] = run[j]
  BY <1>8, InstallFrame
<1>9. ASSUME NEW i \in Installs \ {j}, NEW v \in Versions, Install(i, v)  PROVE Stands(j)
  BY <1>9, Starting
<1>10. ASSUME NEW v \in Versions, Install(j, v)  PROVE FALSE
  BY <1>10 DEF Install
<1>11. CASE Cancel  BY <1>1, <1>11, Cancelling
<1>13. CASE TaskStep  BY <1>1, <1>13, TaskFrame
<1> QED
  BY <1>1, <1>2, <1>8, <1>9, <1>10, <1>11, <1>13 DEF Next, TaskStep

(* ---- the parts of the invariant ----------------------------------------- *)
LEMMA BootAloneStays ==
  ASSUME TypeOK, TaskTypes, BootAlone, "boot" \notin Disturbances, [Next]_vars
  PROVE  BootAlone'
<1> USE DEF BootAlone, Booted, SomeLive
<1>1. ASSUME NEW i \in Installs, NEW v \in Versions, Install(i, v)  PROVE BootAlone'
  <2>1. boot.pc = "up" /\ UNCHANGED boot  BY <1>1 DEF Install
  <2> QED  BY <2>1
<1>2. ASSUME NEW i \in Installs, InstallStep(i)  PROVE BootAlone'
  <2>1. boot.pc = "up" /\ UNCHANGED boot  BY <1>2, InstallFrame
  <2> QED  BY <2>1
<1>3. ASSUME UNCHANGED run \/ \A j \in Installs : Stands(j)  PROVE SomeLive' <=> SomeLive
  BY <1>3 DEF Live, Stands
<1>4. ASSUME Cancel \/ Refresh \/ Evict \/ UNCHANGED vars  PROVE BootAlone'
  <2>1. UNCHANGED <<catalog, boot, remover, checker>>
    BY <1>4 DEF Cancel, Refresh, Evict, vars, tasks, durable
  <2>2. SomeLive' <=> SomeLive
    BY <1>3, <1>4, Cancelling DEF Refresh, Evict, vars, tasks
  <2> QED  BY <2>1, <2>2
<1>5. ASSUME StartRemove \/ StartCheck  PROVE BootAlone'
  <2>1. boot.pc = "up" /\ UNCHANGED boot  BY <1>5 DEF StartRemove, StartCheck, AtRest
  <2> QED  BY <2>1
<1>6. ASSUME RemoveStep \/ CheckStep  PROVE BootAlone'
  <2>1. boot.pc = "up" /\ UNCHANGED boot
    BY <1>6 DEF RemoveStep, RemoveFile, RemoveRecord, RemoveFails, RemoveShown, CheckStep,
                MarkStale, CheckShown
  <2> QED  BY <2>1
<1>7. ASSUME BootStep  PROVE BootAlone'
  <2>1. boot.pc # "up" /\ UNCHANGED <<run, remover, checker>>
    BY <1>7 DEF BootStep, Hydrate, ListStaging, SweepOne, StartAudit, AuditFile, AuditVerdict,
                Strip, ShowBooted, BootFails
  <2>2. ~SomeLive' /\ remover'.pc = "idle" /\ checker'.pc = "idle"  BY <1>3, <2>1
  <2>3. CASE Hydrate \/ ListStaging \/ SweepOne
    BY <2>2, <2>3 DEF Hydrate, ListStaging, SweepOne, TaskTypes, Tasks, durable
  <2>4. CASE StartAudit
    BY <2>2, <2>4 DEF StartAudit, TaskTypes, Tasks, durable
  <2>5. CASE AuditFile
    <3>1. boot'.pc = "audit" /\ boot.pc = "audit" /\ UNCHANGED catalog
      BY <2>5 DEF AuditFile, TaskTypes, Tasks, durable
    <3> QED  BY <2>2, <3>1
  <2>6. CASE AuditVerdict
    <3>1. UNCHANGED catalog /\ catalog.status = "installed"
      BY <2>6 DEF AuditVerdict, durable
    <3>2. \/ boot'.pc \in {"show", "flag"}
          \/ boot'.seen = [catalog EXCEPT !.keys = @ \ boot.seen.keys, !.stale = TRUE]
      BY <2>6 DEF AuditVerdict, TaskTypes, Tasks
    <3>3. catalog \in RecordType  BY DEF TypeOK
    <3> QED  BY <2>2, <3>1, <3>2, <3>3 DEF RecordType
  <2>7. CASE Strip \/ ShowBooted \/ BootFails
    BY <2>2, <2>7 DEF Strip, ShowBooted, BootFails, TaskTypes, Tasks, IdleTask
  <2> QED  BY <1>7, <2>3, <2>4, <2>5, <2>6, <2>7 DEF BootStep
<1>8. ASSUME Reload  PROVE BootAlone'
  <2>1. ~SomeLive'  BY <1>8, Reloading DEF Live
  <2>2. remover'.pc = "idle" /\ checker'.pc = "idle" /\ boot'.pc = "off"
    BY <1>8 DEF Reload, IdleTask
  <2> QED  BY <2>1, <2>2
<1> QED  BY <1>1, <1>2, <1>4, <1>5, <1>6, <1>7, <1>8 DEF Next

LEMMA StagedStays ==
  ASSUME TypeOK, TaskTypes, BootAlone, StagedIsThere, [Next]_vars
  PROVE  StagedIsThere'
<1> DEFINE There(j) ==
             /\ run[j].pc \in Early => \A k \in run[j].staged : <<j, k>> \in staging
             /\ run[j].pc = "writing" => Plan[run[j].n] \in run[j].staged
<1> USE DEF Early
<1>a. \A j \in Installs : There(j)  BY DEF StagedIsThere
<1>b. SUFFICES ASSUME NEW j \in Installs  PROVE There(j)'
  BY DEF StagedIsThere
<1>1. ASSUME Stands(j) \/ run'[j] = run[j], staging \subseteq staging'  PROVE There(j)'
  BY <1>a, <1>1 DEF Stands
<1>2. ASSUME NEW v \in Versions, Install(j, v)  PROVE There(j)'
  BY <1>2, Starting
<1>3. ASSUME Staged(j)  PROVE There(j)'
  <2>1. staging' = staging \cup {<<j, Plan[run[j].n]>>} /\ run[j].pc = "fetching"
    BY <1>3 DEF Staged
  <2>2. run'[j].staged = run[j].staged \cup {Plan[run[j].n]} /\ run'[j].pc # "writing"
    BY <1>3, Staging
  <2> QED  BY <1>a, <2>1, <2>2
<1>4. ASSUME Mismatch(j)  PROVE There(j)'
  <2>1. UNCHANGED staging  BY <1>4 DEF Mismatch, durable
  <2> QED  BY <1>a, <1>4, <2>1, Skipping
<1>5. ASSUME NEW pc \in Steps \ Early, To(j, pc)  PROVE There(j)'
  BY <1>5, Moves
<1>6. ASSUME Open(j) \/ Write(j)  PROVE There(j)'
  <2>1. UNCHANGED staging /\ run'[j].staged = run[j].staged /\ run[j].pc \in Early
    BY <1>6, Opening, Writing DEF Open, Write
  <2>2. run'[j].pc = "writing" => Plan[run'[j].n] \in run'[j].staged
    BY <1>6, Opening, Writing
  <2> QED  BY <1>a, <2>1, <2>2
<1>7. ASSUME InstallStep(j)  PROVE There(j)'
  <2>1. \/ Staged(j) \/ Mismatch(j) \/ Open(j) \/ Write(j)
        \/ To(j, "failing") \/ To(j, "done") \/ To(j, "recording") \/ To(j, "settling")
        \/ To(j, "remembering") \/ To(j, "clearing") \/ To(j, "publishing")
    BY <1>7 DEF InstallStep, FetchFails, Commit, CopyFails, AllCopied, BreaksOff, Publish, Clear,
                Record, Remembering, Settle
  <2> QED  BY <1>3, <1>4, <1>5, <1>6, <2>1 DEF Steps
<1>8. ASSUME NEW i \in Installs \ {j}, InstallStep(i)  PROVE There(j)'
  <2>1. run'[j] = run[j]  BY <1>8, InstallFrame
  <2>2. \A k : <<j, k>> \in staging => <<j, k>> \in staging'
    BY <1>8 DEF InstallStep, Staged, Mismatch, FetchFails, Commit, Open, Write, CopyFails,
                AllCopied, Publish, Clear, Unstage, Record, WriteFailed, Remembering, Settle,
                durable
  <2> QED  BY <1>a, <2>1, <2>2
<1>9. ASSUME NEW i \in Installs \ {j}, NEW v \in Versions, Install(i, v)  PROVE There(j)'
  BY <1>1, <1>9, Starting DEF Install, durable
<1>10. ASSUME Cancel  PROVE There(j)'
  BY <1>1, <1>10, Cancelling DEF Cancel, durable
<1>11. ASSUME Reload  PROVE There(j)'
  BY <1>11, Reloading
<1>12. ASSUME SweepOne  PROVE There(j)'
  <2>1. ~Live(j) /\ UNCHANGED run
    BY <1>12 DEF SweepOne, BootAlone, Booted, SomeLive
  <2> QED  BY <2>1 DEF Live
<1>13. ASSUME \/ Refresh \/ StartRemove \/ StartCheck \/ RemoveStep \/ CheckStep \/ Evict
              \/ UNCHANGED vars \/ (BootStep /\ ~SweepOne)
       PROVE  There(j)'
  <2>1. UNCHANGED <<run, staging>>
    BY <1>13
    DEF Refresh, StartRemove, StartCheck, RemoveStep, CheckStep, BootStep, Evict, vars, tasks,
        durable, RemoveFile, RemoveRecord, RemoveFails, RemoveShown, MarkStale, CheckShown, Hydrate,
        ListStaging, StartAudit, AuditFile, AuditVerdict, Strip, ShowBooted, BootFails
  <2> QED  BY <1>1, <2>1
<1> HIDE DEF There
<1> QED
  BY <1>2, <1>7, <1>8, <1>9, <1>10, <1>11, <1>12, <1>13 DEF Next, BootStep

LEMMA CopiesAllStays ==
  ASSUME TypeOK, CopiesAll, [Next]_vars
  PROVE  CopiesAll'
<1> DEFINE All(j) == run[j].pc \in {"clearing", "publishing"} =>
                       \A k \in run[j].staged : \E m \in 1 .. run[j].n - 1 : Plan[m] = k
<1>a. \A j \in Installs : All(j)  BY DEF CopiesAll
<1>b. SUFFICES ASSUME NEW j \in Installs  PROVE All(j)'
  BY DEF CopiesAll
<1>1. ASSUME Stands(j) \/ run'[j] = run[j]  PROVE All(j)'
  BY <1>a, <1>1 DEF Stands
<1>2. ASSUME run'[j].pc \notin {"clearing", "publishing"}  PROVE All(j)'
  BY <1>2
<1>3. CASE AllCopied(j)
  <2>1. run'[j].pc = "clearing" /\ run'[j].n = run[j].n /\ run'[j].staged = run[j].staged
    BY <1>3, Moves DEF AllCopied, Steps
  <2>2. SUFFICES ASSUME NEW k \in run[j].staged
                 PROVE  \E m \in 1 .. run[j].n - 1 : Plan[m] = k
    BY <2>1
  <2>3. PICK m \in 1 .. Len(Plan) : Plan[m] = k  BY RunTypes, PlanNamesKeys DEF Runs
  <2>4. m \notin run[j].n .. Len(Plan)  BY <1>3, <2>2, <2>3 DEF AllCopied, ToCopy
  <2>5. m \in 1 .. run[j].n - 1  BY <2>3, <2>4, RunTypes, PlanNamesKeys DEF Runs
  <2> QED  BY <2>3, <2>5
<1>4. CASE Clear(j)
  <2>1. /\ \/ To(j, "publishing") /\ run[j].pc = "clearing"
           \/ To(j, "recording")
    BY <1>4 DEF Clear
  <2> QED  BY <1>a, <2>1, Moves DEF Steps
<1>5. CASE InstallStep(j)
  <2>1. \/ Staged(j) \/ Mismatch(j) \/ Open(j) \/ Write(j) \/ AllCopied(j) \/ Clear(j)
        \/ To(j, "failing") \/ To(j, "done") \/ To(j, "settling") \/ To(j, "remembering")
    BY <1>5 DEF InstallStep, FetchFails, Commit, CopyFails, BreaksOff, Publish, Record,
                Remembering, Settle
  <2>2. CASE Staged(j) \/ Mismatch(j) \/ Open(j) \/ Write(j)
    BY <1>2, <2>2, Staging, Skipping, Opening, Writing
  <2>3. CASE To(j, "failing") \/ To(j, "done") \/ To(j, "settling") \/ To(j, "remembering")
    BY <1>2, <2>3, Moves DEF Steps
  <2> QED  BY <1>3, <1>4, <2>1, <2>2, <2>3
<1>8. ASSUME NEW i \in Installs \ {j}, InstallStep(i)  PROVE run'[j] = run[j]
  BY <1>8, InstallFrame
<1>9. ASSUME NEW i \in Installs \ {j}, NEW v \in Versions, Install(i, v)  PROVE Stands(j)
  BY <1>9, Starting
<1>10. ASSUME NEW v \in Versions, Install(j, v)  PROVE All(j)'
  BY <1>2, <1>10, Starting
<1>11. CASE Cancel  BY <1>1, <1>11, Cancelling
<1>12. CASE Reload  BY <1>2, <1>12, Reloading
<1>13. CASE TaskStep  BY <1>1, <1>13, TaskFrame
<1> HIDE DEF All
<1> QED
  BY <1>1, <1>5, <1>8, <1>9, <1>10, <1>11, <1>12, <1>13 DEF Next, TaskStep

(* A whole file is only ever overwritten by a whole one, or dropped; opening *)
(* it makes nothing of a file that is there.                                 *)
LEMMA WholeKept ==
  ASSUME TypeOK, TaskTypes, StagesCritical, StagedIsThere, [Next]_vars, NEW k \in Keys
  PROVE  /\ Whole(k) => Whole(k)'
         /\ \A i \in Installs : Write(i) /\ k = Plan[run[i].n] => files'[k] = run[i].ver
         /\ \A v \in Versions \cup {None} :
              \/ Own(k, v) => Own(k, v)'
              \/ \E i \in Installs : Write(i) /\ k = Plan[run[i].n]
<1> DEFINE Goal ==
             /\ Whole(k) => Whole(k)'
             /\ \A i \in Installs : Write(i) /\ k = Plan[run[i].n] => files'[k] = run[i].ver
             /\ \A v \in Versions \cup {None} :
                  \/ Own(k, v) => Own(k, v)'
                  \/ \E i \in Installs : Write(i) /\ k = Plan[run[i].n]
<1>t. files \in [Keys -> Versions \cup {"absent", "empty"}] /\ lost \subseteq Keys
  BY DEF TypeOK
<1>v. \A v \in Versions \cup {None} : v # "absent"
  BY VersionsAssumption DEF None
<1>w. ASSUME NEW i \in Installs, Write(i), k = Plan[run[i].n]
      PROVE  files'[k] = run[i].ver /\ run[i].ver \in Versions
  <2>1. run[i].pc = "writing" /\ run[i].n \in 1 .. Len(Plan)
    BY <1>w, Writing DEF Write
  <2>2. run[i].ver \in Versions  BY <2>1 DEF StagesCritical, Live
  <2>3. CASE <<i, k>> \in staging
    BY <1>w, <1>t, <2>2, <2>3 DEF Write, Source
  <2>4. CASE <<i, k>> \notin staging
    BY <1>w, <2>1, <2>4 DEF StagedIsThere, Early
  <2> QED  BY <2>2, <2>3, <2>4
<1>1. ASSUME UNCHANGED <<files, lost>>  PROVE Goal
  BY <1>1, <1>w DEF Whole, Own
<1>2. ASSUME NEW i \in Installs, Write(i)  PROVE Goal
  <2>1. CASE k = Plan[run[i].n]
    <3>1. Whole(k)'  BY <1>2, <2>1, <1>w DEF Whole
    <3> QED  BY <1>2, <1>w, <2>1, <3>1
  <2>2. CASE k # Plan[run[i].n]
    <3>1. files'[k] = files[k] /\ (k \in lost => k \in lost')
      BY <1>2, <2>2, <1>t DEF Write
    <3> QED  BY <1>w, <3>1 DEF Whole, Own
  <2> QED  BY <2>1, <2>2
<1>3. ASSUME NEW i \in Installs, Open(i)  PROVE Goal
  <2>1. /\ files'[k] = files[k] \/ files[k] = "absent"
        /\ UNCHANGED lost
    BY <1>3, <1>t DEF Open, history
  <2> QED  BY <1>v, <1>w, <2>1, VersionsAssumption DEF Whole, Own
<1>4. ASSUME RemoveFile \/ Evict  PROVE Goal
  <2>1. files'[k] = files[k] \/ k \in lost'
    BY <1>4, <1>t DEF RemoveFile, Evict
  <2>2. lost \subseteq lost'
    BY <1>4 DEF RemoveFile, Evict
  <2> QED  BY <1>w, <2>1, <2>2 DEF Whole, Own
(* Every other step leaves the files alone.                                  *)
<1>5. ASSUME ~\E i \in Installs : Write(i) \/ Open(i), ~RemoveFile, ~Evict  PROVE Goal
  <2>1. UNCHANGED <<files, lost>>
    <3>1. ASSUME NEW i \in Installs, InstallStep(i)  PROVE UNCHANGED <<files, lost>>
      BY <1>5, <3>1
      DEF InstallStep, Staged, Mismatch, FetchFails, Commit, CopyFails, AllCopied, Publish, Clear,
          Record, WriteFailed, Remembering, Settle, durable, history
    <3>2. ASSUME NEW i \in Installs, NEW v \in Versions, Install(i, v)
          PROVE  UNCHANGED <<files, lost>>
      BY <3>2 DEF Install, durable, history
    <3>3. ASSUME Cancel \/ Refresh \/ StartRemove \/ StartCheck \/ CheckStep \/ Reload
                 \/ UNCHANGED vars
          PROVE  UNCHANGED <<files, lost>>
      BY <3>3 DEF Cancel, Refresh, StartRemove, StartCheck, CheckStep, MarkStale, CheckShown,
                  Reload, vars, durable, history
    <3>4. ASSUME RemoveStep \/ BootStep  PROVE UNCHANGED <<files, lost>>
      BY <1>5, <3>4
      DEF RemoveStep, RemoveRecord, RemoveFails, RemoveShown, BootStep, Hydrate, ListStaging,
          SweepOne, StartAudit, AuditFile, AuditVerdict, Strip, ShowBooted, BootFails, durable,
          history
    <3> QED  BY <1>5, <3>1, <3>2, <3>3, <3>4 DEF Next
  <2> QED  BY <1>1, <2>1
<1> HIDE DEF Goal
<1>6. Goal  BY <1>2, <1>3, <1>4, <1>5
<1> QED  BY <1>6 DEF Goal

(* ---- where records come from --------------------------------------------- *)
LEMMA CatalogFrom ==
  ASSUME [Next]_vars
  PROVE  \/ UNCHANGED catalog
         \/ \E i \in Installs : Publish(i) /\ catalog' = Committed(i)
         \/ \E i \in Installs : Record(i) /\ catalog' = FailedRecord
         \/ RemoveRecord \/ MarkStale \/ Strip
<1> DEFINE Goal ==
             \/ UNCHANGED catalog
             \/ \E i \in Installs : Publish(i) /\ catalog' = Committed(i)
             \/ \E i \in Installs : Record(i) /\ catalog' = FailedRecord
             \/ RemoveRecord \/ MarkStale \/ Strip
<1>1. ASSUME NEW i \in Installs, InstallStep(i)  PROVE Goal
  <2>1. CASE Publish(i)  BY <2>1 DEF Publish
  <2>2. CASE Record(i)  BY <2>2 DEF Record, WriteFailed
  <2>3. CASE ~Publish(i) /\ ~Record(i)
    BY <1>1, <2>3
    DEF InstallStep, Staged, Mismatch, FetchFails, Commit, Open, Write, CopyFails, AllCopied,
        Clear, Remembering, Settle, durable
  <2> QED  BY <2>1, <2>2, <2>3
<1>2. ASSUME NEW i \in Installs, NEW v \in Versions, Install(i, v)  PROVE Goal
  BY <1>2 DEF Install, durable
<1>3. ASSUME \/ Cancel \/ Refresh \/ StartRemove \/ StartCheck \/ Evict \/ Reload
             \/ UNCHANGED vars
      PROVE  Goal
  BY <1>3 DEF Cancel, Refresh, StartRemove, StartCheck, Evict, Reload, vars, durable
<1>4. ASSUME RemoveStep \/ CheckStep \/ BootStep  PROVE Goal
  BY <1>4
  DEF RemoveStep, RemoveFile, RemoveFails, RemoveShown, CheckStep, CheckShown, BootStep, Hydrate,
      ListStaging, SweepOne, StartAudit, AuditFile, AuditVerdict, ShowBooted, BootFails, durable
<1> HIDE DEF Goal
<1>5. Goal  BY <1>1, <1>2, <1>3, <1>4 DEF Next
<1> QED  BY <1>5 DEF Goal

LEMMA InstalledFrom ==
  ASSUME [Next]_vars
  PROVE  \/ UNCHANGED installed
         \/ Remember(catalog) /\ UNCHANGED catalog
         \/ Strip
         \/ installed' = NoRecord
<1> DEFINE Goal ==
             \/ UNCHANGED installed
             \/ Remember(catalog) /\ UNCHANGED catalog
             \/ Strip
             \/ installed' = NoRecord
<1>1. ASSUME NEW i \in Installs, InstallStep(i)  PROVE Goal
  <2>1. CASE Remembering(i)  BY <2>1 DEF Remembering, durable
  <2>2. CASE ~Remembering(i)
    BY <1>1, <2>2
    DEF InstallStep, Staged, Mismatch, FetchFails, Commit, Open, Write, CopyFails, AllCopied,
        Publish, Clear, Record, WriteFailed, Settle, page
  <2> QED  BY <2>1, <2>2
<1>2. ASSUME NEW i \in Installs, NEW v \in Versions, Install(i, v)  PROVE Goal
  BY <1>2 DEF Install
<1>3. ASSUME \/ Cancel \/ Refresh \/ StartRemove \/ StartCheck \/ Evict \/ Reload
             \/ UNCHANGED vars
      PROVE  Goal
  BY <1>3 DEF Cancel, Refresh, StartRemove, StartCheck, Evict, Reload, vars, page
<1>4. ASSUME RemoveStep \/ CheckStep  PROVE Goal
  BY <1>4
  DEF RemoveStep, RemoveFile, RemoveRecord, RemoveFails, RemoveShown, CheckStep, MarkStale,
      CheckShown, page
<1>5. ASSUME BootStep  PROVE Goal
  BY <1>5
  DEF BootStep, Hydrate, ListStaging, SweepOne, StartAudit, AuditFile, AuditVerdict, ShowBooted,
      BootFails, durable, page
<1> HIDE DEF Goal
<1>6. Goal  BY <1>1, <1>2, <1>3, <1>4, <1>5 DEF Next
<1> QED  BY <1>6 DEF Goal

LEMMA NamedStays ==
  ASSUME TypeOK, TaskTypes, StagesCritical, BootAlone, StagedIsThere, CopiesAll, NamedIsWhole,
         [Next]_vars, TypeOK', TaskTypes'
  PROVE  NamedIsWhole'
<1>w. \A k \in Keys : Whole(k) => Whole(k)'  BY WholeKept
<1>c. \A k \in catalog.keys \cup installed.keys : k \in Keys /\ Whole(k)
  BY DEF NamedIsWhole, TypeOK, RecordType
<1>s. Strip => /\ boot.seen.status = "installed" /\ boot.seen.keys \subseteq catalog.keys
               /\ boot.seen.ver = catalog.ver
  BY DEF Strip, BootAlone
<1>1. ASSUME NEW k \in catalog'.keys  PROVE Whole(k)'
  <2>1. ASSUME NEW i \in Installs, Publish(i), catalog' = Committed(i)  PROVE Whole(k)'
    <3>1. run[i].pc = "publishing" /\ k \in run[i].staged
      BY <1>1, <2>1 DEF Publish, Committed, InstalledRecord
    <3>2. k \in Keys  BY <3>1, RunTypes DEF Runs
    <3>3. HasCopied(i, k)  BY <3>1 DEF CopiesAll, HasCopied, Committing
    <3> QED  BY <1>w, <3>2, <3>3 DEF NamedIsWhole
  <2>2. CASE MarkStale
    <3>1. checker.pc = "mark" /\ k \in checker.seen.keys
      BY <1>1, <2>2 DEF MarkStale, TaskTypes, Tasks, RecordType
    <3>2. k \in Keys  BY <3>1 DEF TaskTypes, Tasks, RecordType
    <3> QED  BY <1>w, <3>1, <3>2 DEF NamedIsWhole
  <2>3. CASE Strip
    BY <1>1, <1>c, <1>s, <1>w, <2>3 DEF Strip
  <2>4. CASE catalog' \in {FailedRecord, NoRecord}
    <3>1. FailedRecord.keys = {} /\ NoRecord.keys = {}  BY DEF FailedRecord, NoRecord
    <3> QED  BY <1>1, <2>4, <3>1
  <2> QED  BY <1>1, <1>c, <1>w, <2>1, <2>2, <2>3, <2>4, CatalogFrom DEF RemoveRecord
<1>2. ASSUME NEW k \in installed'.keys  PROVE Whole(k)'
  <2>1. CASE Strip
    BY <1>2, <1>c, <1>s, <1>w, <2>1 DEF Strip, Remember
  <2>2. CASE installed' = NoRecord
    BY <1>2, <2>2 DEF NoRecord
  <2> QED  BY <1>2, <1>c, <1>w, <2>1, <2>2, InstalledFrom DEF Remember
<1>3. ASSUME checker'.pc = "mark", NEW k \in checker'.seen.keys  PROVE Whole(k)'
  <2>1. UNCHANGED checker \/ checker'.seen = catalog
    <3>1. ASSUME NEW i \in Installs, InstallStep(i)  PROVE UNCHANGED checker
      BY <3>1, InstallFrame
    <3>2. ASSUME NEW i \in Installs, NEW v \in Versions, Install(i, v)  PROVE UNCHANGED checker
      BY <3>2 DEF Install
    <3>3. ASSUME \/ Cancel \/ Refresh \/ StartRemove \/ Evict \/ UNCHANGED vars \/ RemoveStep
          PROVE  UNCHANGED checker
      BY <3>3 DEF Cancel, Refresh, StartRemove, Evict, vars, tasks, RemoveStep, RemoveFile,
                  RemoveRecord, RemoveFails, RemoveShown
    <3>4. ASSUME BootStep  PROVE UNCHANGED checker
      BY <3>4 DEF BootStep, Hydrate, ListStaging, SweepOne, StartAudit, AuditFile, AuditVerdict,
                  Strip, ShowBooted, BootFails
    <3>5. CASE StartCheck
      BY <3>5 DEF StartCheck, IdleTask
    <3>6. CASE Reload
      BY <1>3, <3>6 DEF Reload, IdleTask
    <3>7. CASE CheckStep
      BY <1>3, <3>7 DEF CheckStep, MarkStale, CheckShown, IdleTask, TaskTypes, Tasks
    <3> QED  BY <3>1, <3>2, <3>3, <3>4, <3>5, <3>6, <3>7 DEF Next
  <2>2. CASE UNCHANGED checker
    <3>1. k \in Keys  BY <1>3, <2>2 DEF TaskTypes, Tasks, RecordType
    <3> QED  BY <1>3, <1>w, <2>2, <3>1 DEF NamedIsWhole
  <2> QED  BY <1>3, <1>c, <1>w, <2>1, <2>2
<1>4. ASSUME NEW i \in Installs, NEW k \in Keys, HasCopied(i, k)'  PROVE Whole(k)'
  <2>1. HasCopied(i, k) \/ (Write(i) /\ k = Plan[run[i].n])  BY <1>4, CopiedBefore
  <2>2. CASE HasCopied(i, k)  BY <1>w, <2>2 DEF NamedIsWhole
  <2>3. CASE Write(i) /\ k = Plan[run[i].n]
    <3>1. files'[k] = run[i].ver  BY <2>3, WholeKept
    <3>2. run[i].ver \in Versions  BY <2>3 DEF Write, StagesCritical, Live
    <3> QED  BY <3>1, <3>2 DEF Whole
  <2> QED  BY <2>1, <2>2, <2>3
<1> QED  BY <1>1, <1>2, <1>3, <1>4 DEF NamedIsWhole

(* ---- a record and its files ---------------------------------------------- *)
LEMMA TiedStays ==
  ASSUME TypeOK, TaskTypes, StagesCritical, BootAlone, StagedIsThere, CopiesAll, NamedIsWhole,
         ~torn => Tied, [Next]_vars, TypeOK', ~torn'
  PROVE  Tied'
<1>0. ~torn
  <2>1. torn' = torn \/ torn'
    BY DEF TypeOK, Next, vars, InstallStep, Staged, Mismatch, FetchFails, Commit, Open, Write,
        CopyFails, BreaksOff, AllCopied, Publish, Clear, Record, WriteFailed, Remembering, Settle,
        Install, Cancel, Refresh, StartRemove, StartCheck, RemoveStep, RemoveFile, RemoveRecord,
        RemoveFails, RemoveShown, CheckStep, MarkStale, CheckShown, BootStep, Hydrate, ListStaging,
        SweepOne, StartAudit, AuditFile, AuditVerdict, Strip, ShowBooted, BootFails, Evict, Reload,
        tasks, history
  <2> QED  BY <2>1
<1>t. Tied  BY <1>0
<1>v. \A i \in Installs : run[i].ver \in Versions \cup {None}  BY RunTypes DEF Runs
<1>r. catalog \in RecordType /\ installed \in RecordType  BY DEF TypeOK
<1>b. ASSUME NEW i \in Installs  PROVE Begun(i)' <=> \E k \in Keys : HasCopied(i, k)'
  <2>1. run'[i].staged \subseteq Keys  BY DEF TypeOK
  <2> QED  BY <2>1 DEF Begun, HasCopied, Committing
(* What two installs have begun was begun before, or torn by the second.     *)
<1>1. ASSUME NEW i \in Installs, NEW k \in Keys, HasCopied(i, k)'
      PROVE  /\ HasCopied(i, k) \/ (Write(i) /\ k = Plan[run[i].n])
             /\ run'[i].ver = run[i].ver
             /\ Begun(i) \/ Write(i)
  BY <1>1, CopiedBefore, BegunIs
<1>2. ASSUME NEW i \in Installs, Write(i), NEW j \in Installs, Begun(j)  PROVE i = j
  BY <1>2 DEF Write
<1>3. ASSUME NEW i \in Installs, Write(i), NEW j \in Installs, Write(j)  PROVE i = j
  <2>1. run'[i].pc = "committing" /\ run[j].pc = "writing" /\ run'[j].pc = "committing"
    BY <1>3, Writing DEF Write
  <2>2. i # j => run'[j] = run[j]  BY <1>3, Writing
  <2> QED  BY <2>1, <2>2
<1>4. ASSUME NEW i \in Installs, NEW j \in Installs, Begun(i)', Begun(j)'  PROVE i = j
  <2>1. PICK k \in Keys : HasCopied(i, k)'  BY <1>4, <1>b
  <2>2. PICK l \in Keys : HasCopied(j, l)'  BY <1>4, <1>b
  <2>3. (Begun(i) \/ Write(i)) /\ (Begun(j) \/ Write(j))  BY <1>1, <2>1, <2>2
  <2> QED  BY <1>2, <1>3, <1>t, <2>3 DEF Tied
(* A copy over a file is begun with it.                                      *)
<1>5. ASSUME NEW i \in Installs, Write(i)  PROVE Begun(i)'
  <2>1. /\ run'[i].pc = "committing" /\ run'[i].n = run[i].n + 1
        /\ run'[i].staged = run[i].staged /\ run[i].n \in 1 .. Len(Plan)
    BY <1>5, Writing
  <2>2. Plan[run[i].n] \in run[i].staged  BY <1>5 DEF Write, StagedIsThere
  <2>3. run[i].n \in 1 .. run'[i].n - 1  BY <2>1
  <2> QED  BY <2>1, <2>2, <2>3 DEF Begun
<1>6. ASSUME NEW k \in Keys, NEW v \in Versions \cup {None}, Own(k, v)
      PROVE  Own(k, v)' \/ \E i \in Installs : Begun(i)'
  BY <1>5, <1>6, WholeKept
<1>7. ASSUME NEW i \in Installs, Begun(i)
      PROVE  Begun(i)' \/ run'[i].pc = "remembering"
  <2>1. PICK k \in Keys : HasCopied(i, k)  BY <1>7, BegunIs
  <2>2. HasCopied(i, k)' => Begun(i)'  BY <1>b
  <2> QED  BY <2>1, <2>2, CopiedAfter
<1>8. ASSUME NEW i \in Installs, NEW k \in Keys, HasCopied(i, k)'
      PROVE  Own(k, run[i].ver)'
  <2>1. CASE Write(i) /\ k = Plan[run[i].n]
    <3>1. files'[k] = run[i].ver  BY <2>1, WholeKept
    <3>2. run'[i].ver = run[i].ver  BY <1>1, <1>8
    <3> QED  BY <3>1, <3>2 DEF Own
  <2>2. CASE HasCopied(i, k) /\ ~(Write(i) /\ k = Plan[run[i].n])
    <3>1. Own(k, run[i].ver) /\ Begun(i)  BY <1>t, <2>2, BegunIs DEF Tied
    <3>2. ~\E j \in Installs : Write(j) /\ k = Plan[run[j].n]  BY <1>2, <2>2, <3>1
    <3>3. \/ Own(k, run[i].ver) => files'[k] = run[i].ver \/ k \in lost'
          \/ \E j \in Installs : Write(j) /\ k = Plan[run[j].n]
      BY <1>v, WholeKept DEF Own
    <3>4. run'[i].ver = run[i].ver  BY <1>1, <1>8
    <3> QED  BY <3>1, <3>2, <3>3, <3>4 DEF Own
  <2> QED  BY <1>1, <1>8, <2>1, <2>2
(* The record of an install is of the version of the files it has copied.    *)
<1>9. ASSUME NEW i \in Installs, Publish(i), catalog' = Committed(i), NEW k \in catalog'.keys
      PROVE  Own(k, catalog.ver)' \/ \E j \in Installs : Begun(j)'
  <2>1. run[i].pc = "publishing" /\ k \in run[i].staged /\ catalog'.ver = run[i].ver
    BY <1>9 DEF Publish, Committed, InstalledRecord
  <2>2. k \in Keys  BY <2>1, RunTypes DEF Runs
  <2>3. HasCopied(i, k)  BY <2>1 DEF CopiesAll, HasCopied, Committing
  <2>4. Own(k, run[i].ver)  BY <1>t, <2>2, <2>3 DEF Tied
  <2>5. (files'[k] = run[i].ver \/ k \in lost') \/ \E j \in Installs : Begun(j)'
    BY <1>6, <1>v, <2>2, <2>4 DEF Own
  <2> QED  BY <2>1, <2>5 DEF Own
(* A record that stays, or leaves out what is damaged.                       *)
<1>10. ASSUME catalog.status = "installed", NEW k \in catalog.keys
       PROVE  files'[k] = catalog.ver \/ k \in lost' \/ Replacing'
  <2>1. k \in Keys /\ catalog.ver \in Versions \cup {None}  BY <1>r DEF RecordType
  <2>2. Own(k, catalog.ver) \/ \E i \in Installs : Begun(i)  BY <1>t, <1>10 DEF Tied
  <2>3. CASE Own(k, catalog.ver)  BY <1>6, <2>1, <2>3 DEF Own, Replacing
  <2>4. CASE \E i \in Installs : Begun(i)  BY <1>7, <2>4 DEF Replacing
  <2> QED  BY <2>2, <2>3, <2>4
<1>11. MarkStale => /\ catalog'.status = catalog.status /\ catalog'.keys = catalog.keys
                    /\ catalog'.ver = catalog.ver
  BY <1>r DEF MarkStale, RecordType
<1>12. Strip => /\ catalog'.status = "installed" /\ catalog.status = "installed"
                /\ catalog'.keys \subseteq catalog.keys /\ catalog'.ver = catalog.ver
                /\ installed' = catalog'
  BY DEF Strip, BootAlone, Remember
<1>13. FailedRecord.status = "failed" /\ NoRecord.status = None /\ NoRecord.keys = {}
  BY DEF FailedRecord, NoRecord
<1>14. ASSUME catalog'.status = "installed", NEW k \in catalog'.keys
       PROVE  Own(k, catalog.ver)' \/ \E i \in Installs : Begun(i)'
  <2>1. CASE \E i \in Installs : Publish(i) /\ catalog' = Committed(i)
    BY <1>9, <1>14, <2>1
  <2>2. CASE ~\E i \in Installs : Publish(i) /\ catalog' = Committed(i)
    <3>1. UNCHANGED catalog \/ MarkStale \/ Strip
      BY <1>13, <1>14, <2>2, CatalogFrom DEF RemoveRecord, None
    <3>2. catalog.status = "installed" /\ k \in catalog.keys /\ catalog'.ver = catalog.ver
      BY <1>11, <1>12, <1>14, <3>1
    <3>3. k \in Keys /\ catalog.ver \in Versions \cup {None}  BY <1>r, <3>2 DEF RecordType
    <3>4. Own(k, catalog.ver) \/ \E i \in Installs : Begun(i)  BY <1>t, <3>2 DEF Tied
    <3>5. ASSUME NEW i \in Installs, Begun(i)  PROVE Begun(i)'
      <4>1. run'[i].pc = "remembering" => run[i].pc = "remembering"
        BY <2>2, RememberingBefore
      <4> QED  BY <1>7, <3>5, <4>1 DEF Begun
    <3>6. Own(k, catalog.ver) => \/ files'[k] = catalog.ver \/ k \in lost'
                                 \/ \E i \in Installs : Begun(i)'
      BY <1>6, <3>3 DEF Own
    <3> QED  BY <3>2, <3>4, <3>5, <3>6 DEF Own
  <2> QED  BY <2>1, <2>2
<1>15. ASSUME NEW k \in installed'.keys  PROVE Own(k, installed.ver)' \/ Replacing'
  <2>1. CASE installed' = catalog /\ catalog.status = "installed"
    BY <1>10, <1>15, <2>1 DEF Own
  <2>2. CASE Strip
    BY <1>10, <1>12, <1>15, <2>2 DEF Own
  <2>3. CASE installed' = NoRecord
    BY <1>13, <1>15, <2>3
  <2>4. CASE UNCHANGED installed
    <3>1. k \in Keys /\ installed.ver \in Versions \cup {None}
      BY <1>r, <1>15, <2>4 DEF RecordType
    <3>2. Own(k, installed.ver) \/ Replacing  BY <1>t, <1>15, <2>4 DEF Tied
    <3>3. CASE Own(k, installed.ver)
      BY <1>6, <2>4, <3>1, <3>3 DEF Own, Replacing
    <3>4. ASSUME NEW i \in Installs, Begun(i)  PROVE Replacing'
      BY <1>7, <3>4 DEF Replacing
    <3>5. ASSUME NEW i \in Installs, run[i].pc = "remembering"
          PROVE  Own(k, installed.ver)' \/ Replacing'
      <4>1. CASE run'[i].pc = "remembering"  BY <4>1 DEF Replacing
      <4>2. CASE Reload  BY <1>13, <1>15, <4>2 DEF Reload
      <4>3. CASE Remembering(i)
        <5>1. catalog.status = "installed" \/ installed.keys = {}  BY <1>t, <3>5 DEF Tied
        <5>2. catalog.status = "installed"  BY <1>15, <2>4, <5>1
        <5>3. installed' = catalog  BY <4>3, <5>2 DEF Remembering, Remember
        <5> QED  BY <2>1, <5>2, <5>3
      <4> QED  BY <3>5, <4>1, <4>2, <4>3, RememberingAfter
    <3> QED  BY <3>2, <3>3, <3>4, <3>5 DEF Replacing
  <2> QED  BY <2>1, <2>2, <2>3, <2>4, InstalledFrom DEF Remember
<1>16. ASSUME NEW i \in Installs, run'[i].pc = "remembering"
       PROVE  catalog'.status = "installed" \/ installed'.keys = {}
  <2>1. CASE \E j \in Installs : Publish(j) /\ catalog' = Committed(j)
    BY <2>1 DEF Committed, InstalledRecord
  <2>2. CASE ~\E j \in Installs : Publish(j) /\ catalog' = Committed(j)
    <3>1. run[i].pc = "remembering"  BY <1>16, <2>2, RememberingBefore
    <3>2. CASE catalog.status = "installed"
      <4>1. ASSUME NEW j \in Installs, Record(j), catalog' = FailedRecord  PROVE FALSE
        BY <1>13, <3>1, <3>2, <4>1 DEF Record, WriteFailed
      <4>2. RemoveRecord => installed'.keys = {}  BY <1>13 DEF RemoveRecord
      <4> QED  BY <1>11, <1>12, <2>2, <3>2, <4>1, <4>2, CatalogFrom
    <3>3. CASE catalog.status # "installed"
      <4>1. installed.keys = {}  BY <1>t, <3>1, <3>3 DEF Tied
      <4> QED  BY <1>12, <1>13, <3>3, <4>1, InstalledFrom DEF Remember
    <3> QED  BY <3>2, <3>3
  <2> QED  BY <2>1, <2>2
<1>17. \A i \in Installs, k \in Keys : HasCopied(i, k)' => Own(k, run[i].ver)'
  BY <1>8
<1> QED  BY <1>4, <1>14, <1>15, <1>16, <1>17 DEF Tied

LEMMA WholeInvHolds ==
  ASSUME "boot" \notin Disturbances
  PROVE  Spec => []WholeInv
<1>1. Init => WholeInv
  <2> SUFFICES ASSUME Init PROVE WholeInv  OBVIOUS
  <2>1. \A i \in Installs : run[i].pc = "idle"  BY RunFields DEF Init
  <2>2. /\ catalog = NoRecord /\ installed = NoRecord
        /\ NoRecord.keys = {} /\ NoRecord.status = None
    BY DEF Init, NoRecord
  <2>3. BootAlone  BY <2>1, <2>2 DEF Init, BootAlone, SomeLive, Live, IdleTask
  <2>4. StagedIsThere /\ CopiesAll  BY <2>1 DEF StagedIsThere, CopiesAll, Early
  <2>5. \A i \in Installs, k \in Keys : ~HasCopied(i, k)
    BY <2>1 DEF HasCopied, Committing
  <2>6. \A i \in Installs : ~Begun(i)  BY <2>1 DEF Begun
  <2>7. NamedIsWhole  BY <2>2, <2>5 DEF Init, NamedIsWhole, IdleTask
  <2>8. Tied  BY <2>1, <2>2, <2>5, <2>6 DEF Tied, None
  <2> QED  BY <2>3, <2>4, <2>7, <2>8 DEF WholeInv
<1>2. WholeInv /\ ShelfInv /\ ShelfInv' /\ [Next]_vars => WholeInv'
  <2> SUFFICES ASSUME WholeInv, ShelfInv, ShelfInv', [Next]_vars  PROVE WholeInv'  OBVIOUS
  <2>1. /\ TypeOK /\ TaskTypes /\ StagesCritical /\ TypeOK' /\ TaskTypes'  BY DEF ShelfInv
  <2>2. BootAlone' /\ StagedIsThere' /\ CopiesAll' /\ NamedIsWhole'
    BY <2>1, BootAloneStays, StagedStays, CopiesAllStays, NamedStays DEF WholeInv
  <2>3. ~torn' => Tied'  BY <2>1, TiedStays DEF WholeInv
  <2> QED  BY <2>2, <2>3 DEF WholeInv
<1> QED  BY <1>1, <1>2, ShelfInvHolds, PTL DEF Spec

(* Without an install during the boot, every asset the playback path is      *)
(* offered is whole and of the version its record names, or was dropped by   *)
(* the browser or a removal; it is of another version only while an install  *)
(* replaces it, or once a copy over it broke off, ran beside another copy,   *)
(* or an earlier record was written back (fileStore.commit in                *)
(* web/app/src/lib/offline/browser-stores.ts, installer.ts, audit.ts).       *)
THEOREM PlayableStaysWhole ==
  ASSUME "boot" \notin Disturbances
  PROVE  Spec => []PlayableIsWhole
<1>1. WholeInv => PlayableIsWhole
  <2> SUFFICES ASSUME WholeInv, NEW k \in installed.keys
               PROVE  \/ files[k] = installed.ver
                      \/ k \in lost
                      \/ files[k] \in Versions /\ (torn \/ Replacing)
    BY DEF PlayableIsWhole
  <2>1. Whole(k)  BY DEF WholeInv, NamedIsWhole
  <2>2. ~torn => Own(k, installed.ver) \/ Replacing  BY DEF WholeInv, Tied
  <2> QED  BY <2>1, <2>2 DEF Whole, Own
<1> QED  BY <1>1, WholeInvHolds, PTL

=============================================================================
