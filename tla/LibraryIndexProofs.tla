-------------------------- MODULE LibraryIndexProofs --------------------------
(* Theorems about LibraryIndex, for any number of places, manifests,       *)
(* releases and scanning processes.                                        *)
EXTENDS LibraryIndex, SequenceTheorems, TLAPS

(* What TypeOK leaves out and its proof needs: a plan that ingests or      *)
(* moves holds a manifest that opened, and the ids that plans and the      *)
(* verification hold are ids of rows.                                      *)
PlansFit ==
  \A s \in Scanners :
    /\ scan[s].plan.op \in {"move", "ingest"} => scan[s].plan.man \in Manifests
    /\ scan[s].plan.id \in 0 .. Len(packages)

VerifierFits ==
  /\ \A e \in verifier.todo : e.id \in 1 .. Len(packages)
  /\ verifier.pc = "store" => verifier.entry.id \in 1 .. Len(packages)

Typed == TypeOK /\ PlansFit /\ VerifierFits

(* The idle states of the two jobs and their placeholder row and plan are  *)
(* well typed.                                                             *)
LEMMA PlaceholdersTyped ==
  /\ NoRow \in Row
  /\ NoPlan \in Plans
  /\ IdleScan \in ScanStates
  /\ IdleVerifier \in VerifyStates
<1>1. AnyPath \in Paths
  BY PlacesAssumption DEF AnyPath
<1>2. NoRow \in Row
  BY <1>1 DEF NoRow, Row, Status, VerifyStatus
<1>3. NoPlan \in Plans
  BY <1>2 DEF NoPlan, Plans
<1>4. IdleScan \in ScanStates
  BY <1>1, <1>3 DEF IdleScan, ScanStates
<1>5. IdleVerifier \in VerifyStates
  BY <1>1 DEF IdleVerifier, VerifyStates, VerifyEntries, Status, VerifyStatus
<1> QED
  BY <1>2, <1>3, <1>4, <1>5

(* mp_library_package_by_path returns 0 or a row at that path.             *)
LEMMA RowAtFinds ==
  ASSUME packages \in Seq(Row), NEW p
  PROVE  /\ RowAt(p) \in Nat
         /\ RowAt(p) # 0 => /\ RowAt(p) \in DOMAIN packages
                            /\ packages[RowAt(p)].path = p
  BY DEF RowAt

(* mp_library_package_by_fingerprint returns 0 or a row of that content.   *)
LEMMA RowWithFinds ==
  ASSUME packages \in Seq(Row), NEW fp
  PROVE  /\ RowWith(fp) \in Nat
         /\ RowWith(fp) # 0 => /\ RowWith(fp) \in DOMAIN packages
                               /\ packages[RowWith(fp)].fp = fp
  BY DEF RowWith, IsFirst

(* Writing a row keeps the table a sequence of rows and every other row.   *)
LEMMA PutKeepsRows ==
  ASSUME packages \in Seq(Row), NEW id \in 0 .. Len(packages), NEW row \in Row
  PROVE  /\ Put(id, row) \in Seq(Row)
         /\ Len(Put(id, row)) = IF id = 0 THEN Len(packages) + 1 ELSE Len(packages)
         /\ \A i \in DOMAIN packages :
              Put(id, row)[i] = IF i = id THEN row ELSE packages[i]
         /\ id = 0 => Put(id, row)[Len(packages) + 1] = row
<1>1. CASE id = 0
  BY <1>1 DEF Put
<1>2. CASE id # 0
  <2>1. id \in 1 .. Len(packages) /\ DOMAIN packages = 1 .. Len(packages)
    BY <1>2
  <2> QED
    BY <1>2, <2>1, ExceptSeq DEF Put
<1> QED
  BY <1>1, <1>2

(* The statuses that determine_status and the verification give a package. *)
LEMMA DeterminedTyped ==
  ASSUME NEW c \in Contents \cup {NoDir}, NEW m \in Manifests, NEW full \in BOOLEAN
  PROVE  Determined(c, m, full) \in [status : Status, verify : VerifyStatus,
                                     proof : Fingerprints \cup {NoFp}]
<1>1. FingerprintOf[m] \in Fingerprints
  BY IdentityAssumption
<1>2. Audit(c, m) \in Status \cap VerifyStatus
  BY DEF Audit, Status, VerifyStatus
<1> QED
  BY <1>1, <1>2 DEF Determined, Status, VerifyStatus

(* The row rewrites of the fast path.                                      *)
LEMMA RefreshTyped ==
  ASSUME NEW row \in Row, NEW s \in Scanners
  PROVE  /\ [row EXCEPT !.mark = s] \in Row
         /\ [row EXCEPT !.mark = "nobody"] \in Row
         /\ [row EXCEPT !.status = "unavailable"] \in Row
         /\ [row EXCEPT !.mark = s, !.status = "warning",
                        !.verify = "unverified", !.proof = NoFp] \in Row
         /\ [row EXCEPT !.mark = s,
                        !.status = IF @ = "unavailable" THEN "valid" ELSE @] \in Row
  BY DEF Row, Status, VerifyStatus

(* What process_package decides to write is a well-typed plan.             *)
LEMMA DecisionTyped ==
  ASSUME TypeOK, NEW s \in Scanners
  PROVE  /\ Decision(s) \in Plans
         /\ Decision(s).op \in {"move", "ingest"} => Decision(s).man \in Manifests
         /\ Decision(s).id \in 0 .. Len(packages)
<1> DEFINE p == scan[s].dir
           sha == scan[s].sha
           id == RowAt(p)
           m == Opened(p)
           i == RowWith(FingerprintOf[m])
<1>1. /\ scan[s] \in ScanStates /\ packages \in Seq(Row)
      /\ p \in Paths /\ sha \in Manifests \cup Broken \cup {NoText}
  BY DEF TypeOK, ScanStates
<1>2. m \in Manifests \cup {NoText} /\ NoText \notin Manifests
  BY <1>1, TextsAssumption DEF Opened
<1>3. /\ id \in 0 .. Len(packages)
      /\ id # 0 => packages[id] \in Row
  BY <1>1, RowAtFinds
<1>4. /\ i \in 0 .. Len(packages)
      /\ i # 0 => packages[i] \in Row
  BY <1>1, RowWithFinds
<1>5. InvalidPlan(s) \in Plans /\ InvalidPlan(s).op = "invalid" /\ InvalidPlan(s).id = id
  BY <1>1, <1>3 DEF InvalidPlan, InvalidRow, Plans, Row, Status, VerifyStatus
<1>6. id # 0 => /\ Refreshed(s, id) \in Row
                /\ [packages[id] EXCEPT !.mark = s] \in Row
  <2> SUFFICES ASSUME id # 0
               PROVE  Refreshed(s, id) \in Row /\ [packages[id] EXCEPT !.mark = s] \in Row
    OBVIOUS
  <2> DEFINE row == packages[id]
  <2>1. row \in Row
    BY <1>3
  <2> HIDE DEF row
  <2>2. /\ [row EXCEPT !.mark = s] \in Row
        /\ [row EXCEPT !.mark = s, !.status = "warning",
                       !.verify = "unverified", !.proof = NoFp] \in Row
        /\ [row EXCEPT !.mark = s,
                       !.status = IF @ = "unavailable" THEN "valid" ELSE @] \in Row
    BY <2>1, RefreshTyped
  <2> QED
    BY <2>2 DEF Refreshed, row
<1>7. m # NoText => MovedRow(s, i, m) \in Row
  <2> SUFFICES ASSUME m # NoText PROVE MovedRow(s, i, m) \in Row
    OBVIOUS
  <2>1. m \in Manifests /\ FingerprintOf[m] \in Fingerprints
    BY <1>2, IdentityAssumption
  <2>2. dirs[p] \in Contents \cup {NoDir} /\ scan[s].full \in BOOLEAN
    BY <1>1 DEF TypeOK, ScanStates
  <2>3. Determined(dirs[p], m, scan[s].full)
          \in [status : Status, verify : VerifyStatus, proof : Fingerprints \cup {NoFp}]
    BY <2>1, <2>2, DeterminedTyped
  <2> QED
    BY <1>1, <2>1, <2>3 DEF MovedRow, Row, Status, VerifyStatus
<1>8. NoRow \in Row
  BY PlaceholdersTyped
<1> HIDE DEF p, sha, id, m, i
<1> DEFINE unchanged == ~scan[s].full /\ id # 0 /\ packages[id].sha = sha
           settled == unchanged /\ packages[id].status = "invalid"
           refresh(row) == [op |-> "update", id |-> id, row |-> row, man |-> NoText]
           move == [op |-> "move", id |-> i, row |-> MovedRow(s, i, m), man |-> m]
           ingest == [op |-> "ingest", id |-> id, row |-> NoRow, man |-> m]
<1>9. \/ Decision(s) = InvalidPlan(s)
      \/ id # 0 /\ Decision(s) = refresh([packages[id] EXCEPT !.mark = s])
      \/ id # 0 /\ Decision(s) = refresh(Refreshed(s, id))
      \/ m # NoText /\ Decision(s) = move
      \/ m # NoText /\ Decision(s) = ingest
  BY DEF Decision, p, sha, id, m, i
<1>10. Len(packages) \in Nat
  BY <1>1
<1> QED
  BY <1>2, <1>3, <1>4, <1>5, <1>6, <1>7, <1>8, <1>9, <1>10 DEF Plans

(* A function on the ids of the table, row by row, is again such a table.  *)
LEMMA MapKeepsRows ==
  ASSUME packages \in Seq(Row), NEW f \in [DOMAIN packages -> Row]
  PROVE  f \in Seq(Row) /\ Len(f) = Len(packages)
<1>1. Len(packages) \in Nat /\ DOMAIN packages = 1 .. Len(packages)
  BY LenProperties
<1> QED
  BY <1>1

(* Typed holds initially.                                                  *)
LEMMA TypedInit == Init => Typed
<1> SUFFICES ASSUME Init PROVE Typed
  OBVIOUS
<1>1. /\ dirs \in [Paths -> Contents \cup {NoDir}]
      /\ packages \in Seq(Row) /\ Len(packages) = 0
      /\ owner \in [Releases -> 0 .. Len(packages)]
      /\ content \in [Releases -> Fingerprints \cup {NoFp}]
      /\ edits \in Nat
  BY DEF Init
<1>2. scan \in [Scanners -> ScanStates] /\ verifier \in VerifyStates
  BY PlaceholdersTyped DEF Init
<1>3. PlansFit
  BY <1>1 DEF Init, PlansFit, IdleScan, NoPlan
<1>4. VerifierFits
  BY DEF Init, VerifierFits, IdleVerifier
<1> QED
  BY <1>1, <1>2, <1>3, <1>4 DEF Typed, TypeOK

(* A step that changes one scan only, to a well-typed state whose plan     *)
(* fits the table, keeps Typed.                                            *)
LEMMA ScanStepTyped ==
  ASSUME Typed, NEW s \in Scanners, NEW next \in ScanStates,
         scan' = [scan EXCEPT ![s] = next],
         next.plan.op \in {"move", "ingest"} => next.plan.man \in Manifests,
         next.plan.id \in 0 .. Len(packages),
         UNCHANGED <<dirs, packages, owner, content, verifier, edits>>
  PROVE  Typed'
<1>1. TypeOK'
  BY DEF Typed, TypeOK
<1>2. PlansFit'
  BY DEF Typed, TypeOK, PlansFit
<1>3. VerifierFits'
  BY DEF Typed, VerifierFits
<1> QED
  BY <1>1, <1>2, <1>3 DEF Typed

(* A write of the tables that keeps every row typed and never shortens the *)
(* table keeps Typed, with the scan of the writer resumed.                 *)
LEMMA TableWriteTyped ==
  ASSUME Typed, NEW s \in Scanners, NEW next \in ScanStates,
         scan' = [scan EXCEPT ![s] = next], next.plan = NoPlan,
         packages' \in Seq(Row), Len(packages') >= Len(packages),
         owner' \in [Releases -> 0 .. Len(packages')],
         content' \in [Releases -> Fingerprints \cup {NoFp}],
         UNCHANGED <<dirs, verifier, edits>>
  PROVE  Typed'
<1> USE DEF Typed
<1>1. Len(packages) \in Nat /\ Len(packages') \in Nat
  BY LenProperties DEF TypeOK
<1>2. TypeOK'
  BY DEF TypeOK
<1>3. PlansFit'
  BY <1>1 DEF TypeOK, PlansFit, NoPlan
<1>4. VerifierFits'
  BY <1>1 DEF VerifierFits
<1> QED
  BY <1>2, <1>3, <1>4

(* Setting the flags and the plan of a scan state keeps its type.          *)
LEMMA ScanStateExcept ==
  ASSUME NEW st \in ScanStates, NEW plan \in Plans
  PROVE  /\ [st EXCEPT !.calm = FALSE] \in ScanStates
         /\ [st EXCEPT !.calm = FALSE].plan = st.plan
         /\ [st EXCEPT !.failed = TRUE] \in ScanStates
         /\ [st EXCEPT !.failed = TRUE].plan = st.plan
         /\ [st EXCEPT !.plan = plan] \in ScanStates
         /\ [st EXCEPT !.plan = plan].plan = plan
  BY DEF ScanStates

(* A resumed scan and the parts of a scan state a step may replace.        *)
LEMMA ScanStateParts ==
  ASSUME TypeOK, NEW s \in Scanners
  PROVE  /\ Resume(s) \in ScanStates
         /\ Resume(s).plan = NoPlan
         /\ scan[s] = [pc |-> scan[s].pc, full |-> scan[s].full, todo |-> scan[s].todo,
                       failed |-> scan[s].failed, calm |-> scan[s].calm,
                       dir |-> scan[s].dir, sha |-> scan[s].sha, plan |-> scan[s].plan]
         /\ scan[s].pc \in {"idle", "walk", "open", "write"}
         /\ scan[s].full \in BOOLEAN /\ scan[s].failed \in BOOLEAN
         /\ scan[s].calm \in BOOLEAN /\ scan[s].todo \in SUBSET Paths
         /\ scan[s].dir \in Paths /\ scan[s].plan \in Plans
         /\ scan[s].sha \in Manifests \cup Broken \cup {NoText}
<1>1. scan[s] \in ScanStates /\ NoPlan \in Plans
  BY PlaceholdersTyped DEF TypeOK
<1> QED
  BY <1>1 DEF Resume, ScanStates

(* Filesystem changes only disturb the scans.                              *)
LEMMA EnvironmentTyped == Typed /\ Environment => Typed'
<1> SUFFICES ASSUME Typed, Environment PROVE Typed'
  OBVIOUS
<1>1. dirs' \in [Paths -> Contents \cup {NoDir}] /\ edits' \in Nat
  <2>1. CASE ChangeDir
    <3>1. PICK p \in Paths : \E c \in Placeable[p] \cup {NoDir} : dirs' = [dirs EXCEPT ![p] = c]
      BY <2>1 DEF ChangeDir
    <3>2. Placeable[p] \in SUBSET Contents
      BY PlacesAssumption
    <3>3. PICK c \in Contents \cup {NoDir} : dirs' = [dirs EXCEPT ![p] = c]
      BY <3>1, <3>2
    <3>4. edits' \in Nat
      BY <2>1 DEF ChangeDir, Typed, TypeOK
    <3> QED
      BY <3>3, <3>4 DEF Typed, TypeOK
  <2>2. CASE RenameDir
    BY <2>2, PlacesAssumption DEF RenameDir, Typed, TypeOK
  <2> QED
    BY <2>1, <2>2 DEF Environment
<1>2. scan' = Disturb /\ UNCHANGED <<packages, owner, content, verifier>>
  BY DEF Environment, ChangeDir, RenameDir
<1>3. \A s \in Scanners : scan'[s] \in ScanStates /\ scan'[s].plan = scan[s].plan
  BY <1>2 DEF Typed, TypeOK, Disturb, ScanStates
<1>4. scan' \in [Scanners -> ScanStates]
  BY <1>2, <1>3 DEF Disturb
<1>5. TypeOK'
  BY <1>1, <1>2, <1>4 DEF Typed, TypeOK
<1>6. PlansFit' /\ VerifierFits'
  BY <1>2, <1>3 DEF Typed, PlansFit, VerifierFits
<1> QED
  BY <1>5, <1>6 DEF Typed

(* The row an ingest writes is well typed.                                 *)
LEMMA IngestedRowTyped ==
  ASSUME Typed, NEW s \in Scanners, Ingest(s)
  PROVE  IngestedRow(s) \in Row
<1>1. TypeOK /\ scan[s].plan.man \in Manifests
  BY DEF Typed, PlansFit, Ingest
<1>2. FingerprintOf[scan[s].plan.man] \in Fingerprints
  BY <1>1, IdentityAssumption
<1>3. Determined(dirs[scan[s].dir], scan[s].plan.man, scan[s].full)
        \in [status : Status, verify : VerifyStatus, proof : Fingerprints \cup {NoFp}]
  BY <1>1, ScanStateParts, DeterminedTyped DEF TypeOK
<1> QED
  BY <1>1, <1>2, <1>3, ScanStateParts DEF IngestedRow, Row, Status, VerifyStatus

(* The steps of one scan.                                                  *)
LEMMA ScanTyped ==
  ASSUME Typed, NEW s \in Scanners,
         StartScan(s) \/ ScanStep(s) \/ TraversalError(s) \/ Crash(s)
  PROVE  Typed'
<1> USE DEF Typed
<1>1. /\ packages \in Seq(Row) /\ scan \in [Scanners -> ScanStates]
      /\ Len(packages) \in Nat /\ DOMAIN packages = 1 .. Len(packages)
      /\ scan[s].plan.op \in {"move", "ingest"} => scan[s].plan.man \in Manifests
      /\ scan[s].plan.id \in 0 .. Len(packages)
  BY LenProperties DEF TypeOK, PlansFit
<1>2. CASE StartScan(s)
  <2>1. PICK full \in BOOLEAN :
          scan' = [scan EXCEPT ![s] = [IdleScan EXCEPT !.pc = "walk", !.full = full,
                                                !.todo = Paths, !.calm = TRUE]]
    BY <1>2 DEF StartScan
  <2> DEFINE next == [IdleScan EXCEPT !.pc = "walk", !.full = full,
                                      !.todo = Paths, !.calm = TRUE]
  <2>2. next \in ScanStates /\ next.plan = NoPlan
    BY PlaceholdersTyped DEF ScanStates, IdleScan
  <2>3. \A i \in DOMAIN packages :
          packages[i] \in Row /\ [packages[i] EXCEPT !.mark = "nobody"] \in Row
    <3>1. \A i \in DOMAIN packages : packages[i] \in Row
      BY <1>1
    <3> QED
      BY <3>1, RefreshTyped, Zenon
  <2>4. packages' \in [DOMAIN packages -> Row]
    <3>1. packages' = [i \in DOMAIN packages |->
                        IF packages[i].mark = s THEN [packages[i] EXCEPT !.mark = "nobody"]
                                                ELSE packages[i]]
      BY <1>2 DEF StartScan
    <3> QED
      BY <2>3, <3>1, Zenon
  <2>5. packages' \in Seq(Row) /\ Len(packages') = Len(packages)
    BY <1>1, <2>4, MapKeepsRows
  <2>6. UNCHANGED <<dirs, owner, content, verifier, edits>>
    BY <1>2 DEF StartScan
  <2>7. /\ owner' \in [Releases -> 0 .. Len(packages')] /\ Len(packages') >= Len(packages)
        /\ content' \in [Releases -> Fingerprints \cup {NoFp}]
    BY <1>1, <2>5, <2>6 DEF TypeOK
  <2>8. scan' = [scan EXCEPT ![s] = next]
    BY <2>1
  <2> HIDE DEF next
  <2> QED
    BY <2>2, <2>5, <2>6, <2>7, <2>8, TableWriteTyped
<1>3. CASE \E p \in Paths : PassBy(s, p) \/ HashManifest(s, p)
  <2>1. PICK p \in Paths : PassBy(s, p) \/ HashManifest(s, p)
    BY <1>3
  <2>2. CASE PassBy(s, p)
    <3> DEFINE next == [scan[s] EXCEPT !.todo = @ \ {p}]
    <3>1. next \in ScanStates /\ next.plan = scan[s].plan
      BY <1>1, ScanStateParts DEF ScanStates
    <3>2. scan' = [scan EXCEPT ![s] = next]
      BY <1>1, <2>2 DEF PassBy
    <3>3. UNCHANGED <<dirs, packages, owner, content, verifier, edits>>
      BY <2>2 DEF PassBy
    <3> HIDE DEF next
    <3> QED
      BY <1>1, <3>1, <3>2, <3>3, ScanStepTyped
  <2>3. CASE HashManifest(s, p)
    <3> DEFINE next == [scan[s] EXCEPT !.pc = "open", !.todo = @ \ {p},
                                       !.dir = p, !.sha = dirs[p].text]
    <3>1. dirs[p].text \in Manifests \cup Broken \cup {NoText}
      BY <2>3 DEF HashManifest, TypeOK, Contents
    <3>2. next \in ScanStates /\ next.plan = scan[s].plan
      BY <1>1, <3>1, ScanStateParts DEF ScanStates
    <3>3. scan' = [scan EXCEPT ![s] = next]
      BY <1>1, <2>3 DEF HashManifest
    <3>4. UNCHANGED <<dirs, packages, owner, content, verifier, edits>>
      BY <2>3 DEF HashManifest
    <3> HIDE DEF next
    <3> QED
      BY <1>1, <3>2, <3>3, <3>4, ScanStepTyped
  <2> QED
    BY <2>1, <2>2, <2>3
<1>4. CASE OpenPackage(s)
  <2> DEFINE next == [scan[s] EXCEPT !.pc = "write", !.plan = Decision(s)]
  <2>1. next \in ScanStates /\ next.plan = Decision(s)
    BY <1>1, DecisionTyped, ScanStateParts DEF ScanStates
  <2>2. scan' = [scan EXCEPT ![s] = next]
    BY <1>1, <1>4 DEF OpenPackage
  <2>3. UNCHANGED <<dirs, packages, owner, content, verifier, edits>>
    BY <1>4 DEF OpenPackage
  <2> HIDE DEF next
  <2> QED
    BY <2>1, <2>2, <2>3, DecisionTyped, ScanStepTyped
<1>5. CASE WriteRow(s)
  <2>1. scan[s].plan.row \in Row
    BY ScanStateParts DEF Plans
  <2>2. /\ packages' = Put(scan[s].plan.id, scan[s].plan.row)
        /\ scan' = [scan EXCEPT ![s] = Resume(s)]
        /\ UNCHANGED <<dirs, owner, content, verifier, edits>>
    BY <1>5 DEF WriteRow
  <2>3. packages' \in Seq(Row) /\ Len(packages') \in {Len(packages), Len(packages) + 1}
    BY <1>1, <2>1, <2>2, PutKeepsRows
  <2>4. /\ owner' \in [Releases -> 0 .. Len(packages')] /\ Len(packages') >= Len(packages)
        /\ content' \in [Releases -> Fingerprints \cup {NoFp}]
    BY <1>1, <2>2, <2>3 DEF TypeOK
  <2> QED
    BY <2>2, <2>3, <2>4, ScanStateParts, TableWriteTyped
<1>6. CASE Ingest(s)
  <2> DEFINE id == scan[s].plan.id
             fp == FingerprintOf[scan[s].plan.man]
             r == ReleaseOf[fp]
  <2>1. scan[s].plan.man \in Manifests /\ fp \in Fingerprints /\ r \in Releases
    BY <1>1, <1>6, IdentityAssumption DEF Ingest
  <2>2. IngestedRow(s) \in Row
    BY <1>6, IngestedRowTyped
  <2>3. /\ packages' = Put(id, IngestedRow(s))
        /\ scan' = [scan EXCEPT ![s] = Resume(s)]
        /\ UNCHANGED <<dirs, verifier, edits>>
    BY <1>6 DEF Ingest
  <2>4. /\ packages' \in Seq(Row)
        /\ Len(packages') = IF id = 0 THEN Len(packages) + 1 ELSE Len(packages)
    BY <1>1, <2>2, <2>3, PutKeepsRows
  <2>5. /\ owner' \in [Releases -> 0 .. Len(packages')]
        /\ content' \in [Releases -> Fingerprints \cup {NoFp}]
    <3>1. CASE TakesOwnership(id, r)
      <4>1. /\ owner' = [owner EXCEPT ![r] = IF id = 0 THEN Len(packages) + 1 ELSE id]
            /\ content' = [content EXCEPT ![r] = fp]
        BY <1>6, <3>1 DEF Ingest, IngestedId
      <4>2. (IF id = 0 THEN Len(packages) + 1 ELSE id) \in 0 .. Len(packages')
        BY <1>1, <2>4
      <4>3. \A q \in Releases : owner[q] \in 0 .. Len(packages')
        BY <1>1, <2>4 DEF TypeOK
      <4> QED
        BY <2>1, <4>1, <4>2, <4>3 DEF TypeOK
    <3>2. CASE ~TakesOwnership(id, r)
      <4>1. UNCHANGED <<owner, content>>
        BY <1>6, <3>2 DEF Ingest
      <4> QED
        BY <1>1, <2>4, <4>1 DEF TypeOK
    <3> QED
      BY <3>1, <3>2
  <2> HIDE DEF id, fp, r
  <2>6. Len(packages') >= Len(packages)
    BY <1>1, <2>4
  <2> QED
    BY <2>3, <2>4, <2>5, <2>6, ScanStateParts, TableWriteTyped
<1>7. CASE WriteFails(s)
  <2> DEFINE retry == [op |-> "ingest", id |-> RowAt(scan[s].dir), row |-> NoRow,
                       man |-> scan[s].plan.man]
             next == CASE scan[s].plan.op = "move" ->
                            [scan[s] EXCEPT !.plan = retry]
                       [] scan[s].plan.op = "invalid" -> [Resume(s) EXCEPT !.calm = FALSE]
                       [] OTHER -> [Resume(s) EXCEPT !.failed = TRUE]
  <2>1. scan' = [scan EXCEPT ![s] = next]
        /\ UNCHANGED <<dirs, packages, owner, content, verifier, edits>>
    BY <1>7 DEF WriteFails
  <2>2. CASE scan[s].plan.op = "move"
    <3>1. retry \in Plans /\ retry.id \in 0 .. Len(packages) /\ retry.man \in Manifests
      BY <1>1, <2>2, RowAtFinds, PlaceholdersTyped DEF Plans
    <3>2. next = [scan[s] EXCEPT !.plan = retry]
      BY <2>2
    <3> HIDE DEF next
    <3>3. next \in ScanStates /\ next.plan = retry
      BY <1>1, <3>1, <3>2, ScanStateExcept
    <3>4. retry.op \in {"move", "ingest"} => retry.man \in Manifests
      BY <3>1
    <3> HIDE DEF retry
    <3> QED
      BY <2>1, <3>1, <3>3, <3>4, ScanStepTyped
  <2>3. CASE scan[s].plan.op # "move"
    <3>1. \/ next = [Resume(s) EXCEPT !.calm = FALSE]
          \/ next = [Resume(s) EXCEPT !.failed = TRUE]
      BY <2>3
    <3> HIDE DEF next
    <3>2. next \in ScanStates /\ next.plan = NoPlan
      <4>1. Resume(s) \in ScanStates /\ Resume(s).plan = NoPlan /\ NoPlan \in Plans
        BY ScanStateParts, PlaceholdersTyped DEF TypeOK
      <4> QED
        BY <3>1, <4>1, ScanStateExcept
    <3>3. /\ next.plan.op \in {"move", "ingest"} => next.plan.man \in Manifests
          /\ next.plan.id \in 0 .. Len(packages)
      <4>1. next.plan.op = "none" /\ next.plan.id = 0
        BY <3>2 DEF NoPlan
      <4> QED
        BY <1>1, <4>1
    <3> QED
      BY <2>1, <3>2, <3>3, ScanStepTyped
  <2> QED
    BY <2>2, <2>3
<1>8. CASE Sweep(s)
  <2>1. \A i \in DOMAIN packages :
          packages[i] \in Row /\ [packages[i] EXCEPT !.status = "unavailable"] \in Row
    <3>1. \A i \in DOMAIN packages : packages[i] \in Row
      BY <1>1
    <3> QED
      BY <3>1, RefreshTyped, Zenon
  <2>2. packages' \in [DOMAIN packages -> Row]
    <3>1. packages' = [i \in DOMAIN packages |->
             IF packages[i].mark # s /\ packages[i].status \notin {"unavailable", "conflict"}
               THEN [packages[i] EXCEPT !.status = "unavailable"] ELSE packages[i]]
      BY <1>8 DEF Sweep
    <3> QED
      BY <2>1, <3>1, Zenon
  <2>3. packages' \in Seq(Row) /\ Len(packages') = Len(packages)
    BY <1>1, <2>2, MapKeepsRows
  <2>4. scan' = [scan EXCEPT ![s] = IdleScan] /\ UNCHANGED <<dirs, owner, content, verifier, edits>>
    BY <1>8 DEF Sweep
  <2>5. IdleScan \in ScanStates /\ IdleScan.plan = NoPlan
    BY PlaceholdersTyped DEF IdleScan
  <2>6. /\ owner' \in [Releases -> 0 .. Len(packages')] /\ Len(packages') >= Len(packages)
        /\ content' \in [Releases -> Fingerprints \cup {NoFp}]
    BY <1>1, <2>3, <2>4 DEF TypeOK
  <2> QED
    BY <2>3, <2>4, <2>5, <2>6, TableWriteTyped
<1>9. CASE AbortScan(s)
  <2>1. IdleScan \in ScanStates /\ IdleScan.plan = NoPlan
    BY PlaceholdersTyped DEF IdleScan
  <2>2. /\ scan' = [scan EXCEPT ![s] = IdleScan]
        /\ UNCHANGED <<dirs, packages, owner, content, verifier, edits>>
    BY <1>9 DEF AbortScan
  <2>3. /\ owner' \in [Releases -> 0 .. Len(packages')] /\ Len(packages') >= Len(packages)
        /\ content' \in [Releases -> Fingerprints \cup {NoFp}] /\ packages' \in Seq(Row)
    BY <1>1, <2>2 DEF TypeOK
  <2> QED
    BY <2>1, <2>2, <2>3, TableWriteTyped
<1>10. CASE TraversalError(s)
  <2>1. PICK left \in SUBSET scan[s].todo :
          scan' = [scan EXCEPT ![s].todo = left, ![s].failed = TRUE]
    BY <1>10 DEF TraversalError
  <2> DEFINE next == [scan[s] EXCEPT !.todo = left, !.failed = TRUE]
  <2>2. next \in ScanStates /\ next.plan = scan[s].plan
    BY <1>1, ScanStateParts DEF ScanStates
  <2>3. scan' = [scan EXCEPT ![s] = next]
    BY <1>1, <2>1
  <2>4. UNCHANGED <<dirs, packages, owner, content, verifier, edits>>
    BY <1>10 DEF TraversalError
  <2> HIDE DEF next
  <2> QED
    BY <1>1, <2>2, <2>3, <2>4, ScanStepTyped
<1>11. CASE Crash(s)
  <2>1. IdleScan \in ScanStates /\ IdleScan.plan = NoPlan /\ NoPlan.id = 0 /\ NoPlan.op = "none"
    BY PlaceholdersTyped DEF IdleScan, NoPlan
  <2>2. /\ scan' = [scan EXCEPT ![s] = IdleScan]
        /\ verifier' \in {verifier, IdleVerifier}
        /\ UNCHANGED <<dirs, packages, owner, content, edits>>
    BY <1>11 DEF Crash
  <2>3. TypeOK' /\ PlansFit'
    BY <1>1, <2>1, <2>2, PlaceholdersTyped DEF TypeOK, PlansFit
  <2>4. VerifierFits'
    BY <2>2 DEF VerifierFits, IdleVerifier
  <2> QED
    BY <2>3, <2>4
<1> QED
  BY <1>2, <1>3, <1>4, <1>5, <1>6, <1>7, <1>8, <1>9, <1>10, <1>11 DEF ScanStep

(* The steps of the library-wide verification.                             *)
LEMMA VerifyTyped == Typed /\ (StartVerify \/ VerifyStep) => Typed'
<1> SUFFICES ASSUME Typed, StartVerify \/ VerifyStep PROVE Typed'
  OBVIOUS
<1> USE DEF Typed
<1>1. /\ packages \in Seq(Row) /\ verifier \in VerifyStates
      /\ Len(packages) \in Nat /\ DOMAIN packages = 1 .. Len(packages)
  BY LenProperties DEF TypeOK
<1>2. CASE StartVerify
  <2> DEFINE todo == {[id |-> i, path |-> packages[i].path] :
                        i \in {j \in DOMAIN packages : Present(j)}}
  <2>1. todo \in SUBSET VerifyEntries /\ \A e \in todo : e.id \in 1 .. Len(packages)
    <3>1. \A i \in DOMAIN packages : packages[i] \in Row
      BY <1>1
    <3>2. \A i \in DOMAIN packages : packages[i].path \in Paths
      BY <3>1 DEF Row
    <3> QED
      BY <1>1, <3>2 DEF VerifyEntries
  <2>2. verifier' = [IdleVerifier EXCEPT !.pc = "hash", !.todo = todo]
        /\ UNCHANGED <<dirs, packages, owner, content, scan, edits>>
    BY <1>2 DEF StartVerify
  <2> HIDE DEF todo
  <2>3. verifier' \in VerifyStates /\ verifier'.todo = todo /\ verifier'.pc = "hash"
    BY <2>1, <2>2, PlaceholdersTyped DEF VerifyStates
  <2> QED
    BY <2>1, <2>2, <2>3 DEF TypeOK, PlansFit, VerifierFits
<1>3. CASE HashPackage
  <2>1. PICK e \in verifier.todo :
          LET m == Opened(e.path)
              a == IF m = NoText THEN "warning" ELSE Audit(dirs[e.path], m)
          IN  verifier' = [pc |-> "store", todo |-> verifier.todo \ {e}, entry |-> e,
                           status |-> a, tries |-> 0,
                           verify |-> IF m = NoText THEN "unverified" ELSE a,
                           proof |-> IF m # NoText /\ a \in Ok
                                       THEN FingerprintOf[m] ELSE NoFp]
    BY <1>3 DEF HashPackage
  <2> DEFINE m == Opened(e.path)
             a == IF m = NoText THEN "warning" ELSE Audit(dirs[e.path], m)
  <2>2. verifier' = [pc |-> "store", todo |-> verifier.todo \ {e}, entry |-> e, status |-> a,
                     tries |-> 0, verify |-> IF m = NoText THEN "unverified" ELSE a,
                     proof |-> IF m # NoText /\ a \in Ok THEN FingerprintOf[m] ELSE NoFp]
    BY <2>1
  <2>3. /\ e \in VerifyEntries /\ verifier.todo \in SUBSET VerifyEntries
        /\ e.id \in 1 .. Len(packages)
    BY <1>1 DEF VerifyStates, VerifierFits
  <2>4. m # NoText => FingerprintOf[m] \in Fingerprints
    BY IdentityAssumption DEF Opened
  <2>5. a \in Status \cap VerifyStatus
    BY DEF Audit, Status, VerifyStatus
  <2> HIDE DEF m, a
  <2>6. verifier' \in VerifyStates
    BY <2>2, <2>3, <2>4, <2>5 DEF VerifyStates, VerifyStatus
  <2>7. UNCHANGED <<dirs, packages, owner, content, scan, edits>>
    BY <1>3 DEF HashPackage
  <2> QED
    BY <2>2, <2>3, <2>6, <2>7 DEF TypeOK, PlansFit, VerifierFits
<1>4. CASE StoreVerdict
  <2> DEFINE i == verifier.entry.id
             row == [packages[i] EXCEPT !.status = verifier.status,
                                        !.verify = verifier.verify,
                                        !.proof = verifier.proof]
  <2>1. i \in 1 .. Len(packages) /\ packages[i] \in Row
    BY <1>1, <1>4 DEF StoreVerdict, VerifierFits
  <2>2. row \in Row
    <3>1. /\ verifier.status \in Status /\ verifier.verify \in VerifyStatus
          /\ verifier.proof \in Fingerprints \cup {NoFp}
      BY <1>1 DEF VerifyStates
    <3> DEFINE old == packages[i]
    <3> HIDE DEF old
    <3>3. old \in Row => [old EXCEPT !.status = verifier.status, !.verify = verifier.verify,
                                     !.proof = verifier.proof] \in Row
      BY <3>1 DEF Row
    <3> QED
      BY <2>1, <3>3 DEF old
  <2>3. packages' \in {packages, [packages EXCEPT ![i] = row]}
    BY <1>4 DEF StoreVerdict
  <2> HIDE DEF row, i
  <2>4. packages' \in Seq(Row) /\ Len(packages') = Len(packages)
    BY <1>1, <2>1, <2>2, <2>3, ExceptSeq
  <2>5. verifier' = [verifier EXCEPT !.pc = "hash"] /\ UNCHANGED <<dirs, owner, content, scan, edits>>
    BY <1>4 DEF StoreVerdict
  <2>6. verifier' \in VerifyStates /\ verifier'.todo = verifier.todo /\ verifier'.pc = "hash"
    BY <1>1, <2>5 DEF VerifyStates
  <2> QED
    BY <2>4, <2>5, <2>6 DEF TypeOK, PlansFit, VerifierFits
<1>5. CASE EndVerify
  <2>1. verifier' = IdleVerifier /\ UNCHANGED <<dirs, packages, owner, content, scan, edits>>
    BY <1>5 DEF EndVerify
  <2>2. IdleVerifier \in VerifyStates /\ IdleVerifier.todo = {} /\ IdleVerifier.pc = "idle"
    BY PlaceholdersTyped DEF IdleVerifier
  <2> QED
    BY <2>1, <2>2 DEF TypeOK, PlansFit, VerifierFits
<1>6. CASE StoreRefused
  <2>1. verifier' = [verifier EXCEPT !.tries = @ + 1]
        /\ UNCHANGED <<dirs, packages, owner, content, scan, edits>>
    BY <1>6 DEF StoreRefused
  <2>2. verifier' \in VerifyStates /\ verifier'.todo = verifier.todo
        /\ verifier'.pc = verifier.pc /\ verifier'.entry = verifier.entry
    BY <1>1, <2>1 DEF VerifyStates
  <2> QED
    BY <2>1, <2>2 DEF TypeOK, PlansFit, VerifierFits
<1> QED
  BY <1>2, <1>3, <1>4, <1>5, <1>6 DEF VerifyStep

(* Typed is inductive.                                                     *)
LEMMA TypedStep == Typed /\ [Next]_vars => Typed'
<1> SUFFICES ASSUME Typed, [Next]_vars PROVE Typed'
  OBVIOUS
<1>1. CASE UNCHANGED vars
  BY <1>1 DEF vars, Typed, TypeOK, PlansFit, VerifierFits
<1>2. CASE Environment
  BY <1>2, EnvironmentTyped
<1>3. CASE \E s \in Scanners : StartScan(s) \/ ScanStep(s) \/ TraversalError(s) \/ Crash(s)
  BY <1>3, ScanTyped
<1>4. CASE StartVerify \/ VerifyStep
  BY <1>4, VerifyTyped
<1> QED
  BY <1>1, <1>2, <1>3, <1>4 DEF Next

(* The tables and the jobs of every reachable state are well typed: no row *)
(* with a status outside the schema's, no owner that is not a row, and no  *)
(* job holding the id of a row that does not exist.                        *)
THEOREM TypeCorrect == Spec => []TypeOK
<1>1. Init => Typed
  BY TypedInit
<1>2. Typed /\ [Next]_vars => Typed'
  BY TypedStep
<1>3. Typed => TypeOK
  BY DEF Typed
<1> QED
  BY <1>1, <1>2, <1>3, PTL DEF Spec

-----------------------------------------------------------------------------
(***************************************************************************)
(* Only verified content is served, in a library whose directory names are *)
(* never reused for other content: every manifest that may ever open at a  *)
(* path has one fingerprint (docs/deployment.md, "Never modify a finalized *)
(* package").  The argument follows that fingerprint, the path's home,     *)
(* through the tables: rows, plans, verdicts and releases never mix homes. *)
(***************************************************************************)
StableNames ==
  \A p \in Paths : \A c, d \in Placeable[p] :
    c.text \in Manifests /\ d.text \in Manifests
      => FingerprintOf[c.text] = FingerprintOf[d.text]

HoldsContent(p, fp) == \E c \in Placeable[p] : c.text \in Manifests /\ FingerprintOf[c.text] = fp
Home(p) == CHOOSE fp \in Fingerprints : HoldsContent(p, fp)

RowAtHome(row) == /\ row.fp \in {NoFp, Home(row.path)}
                  /\ row.verify \in Ok => row.proof = Home(row.path)

DirsAtHome == \A p \in Paths : dirs[p] \in Placeable[p] \cup {NoDir}
RowsAtHome == \A i \in DOMAIN packages : RowAtHome(packages[i])
OwnersAtHome ==
  \A r \in Releases : owner[r] # 0 => content[r] = Home(packages[owner[r]].path)

PlanAtHome(plan, dir) ==
  /\ plan.op \in {"invalid", "update", "move"} =>
       /\ RowAtHome(plan.row)
       /\ plan.id # 0 => Home(packages[plan.id].path) = Home(plan.row.path)
  /\ plan.op \in {"move", "ingest"} => FingerprintOf[plan.man] = Home(dir)
  /\ plan.op = "ingest" /\ plan.id # 0 => Home(packages[plan.id].path) = Home(dir)
PlansAtHome ==
  \A s \in Scanners : scan[s].pc = "write" => PlanAtHome(scan[s].plan, scan[s].dir)

VerifierAtHome ==
  /\ \A e \in verifier.todo : Home(packages[e.id].path) = Home(e.path)
  /\ verifier.pc = "store" =>
       LET e == verifier.entry IN
       /\ Home(packages[e.id].path) = Home(e.path)
       /\ verifier.verify \in Ok => verifier.proof = Home(e.path)

AtHome == DirsAtHome /\ RowsAtHome /\ OwnersAtHome /\ PlansAtHome /\ VerifierAtHome

(* The manifest a path holds now, when it opens, is its home.              *)
LEMMA OpensAtHome ==
  ASSUME StableNames, DirsAtHome, NEW p \in Paths, Opened(p) # NoText
  PROVE  /\ Opened(p) \in Manifests
         /\ FingerprintOf[Opened(p)] = Home(p)
<1>1. dirs[p] \in Placeable[p] /\ dirs[p].text \in Manifests /\ Opened(p) = dirs[p].text
  BY DEF Opened, DirsAtHome
<1>2. FingerprintOf[dirs[p].text] \in Fingerprints
  BY <1>1, IdentityAssumption
<1>3. HoldsContent(p, FingerprintOf[dirs[p].text])
  BY <1>1 DEF HoldsContent
<1>4. \A fp \in Fingerprints : HoldsContent(p, fp) => fp = FingerprintOf[dirs[p].text]
  BY <1>1 DEF HoldsContent, StableNames
<1>5. Home(p) = FingerprintOf[dirs[p].text]
  BY <1>2, <1>3, <1>4 DEF Home
<1> QED
  BY <1>1, <1>5

(* A verified status comes with the fingerprint that was hashed.           *)
LEMMA DeterminedProof ==
  ASSUME NEW c, NEW m, NEW full \in BOOLEAN, Determined(c, m, full).verify \in Ok
  PROVE  Determined(c, m, full).proof = FingerprintOf[m]
<1>1. full
  BY DEF Determined, Ok
<1> QED
  BY <1>1 DEF Determined

(* What process_package decides stays at home.                             *)
LEMMA DecisionAtHome ==
  ASSUME StableNames, Typed, AtHome, NEW s \in Scanners
  PROVE  PlanAtHome(Decision(s), scan[s].dir)
<1> DEFINE p == scan[s].dir
           sha == scan[s].sha
           id == RowAt(p)
           m == Opened(p)
           i == RowWith(FingerprintOf[m])
<1>1. /\ packages \in Seq(Row) /\ p \in Paths /\ scan[s].full \in BOOLEAN
  BY ScanStateParts DEF Typed, TypeOK
<1>2. m # NoText => m \in Manifests /\ FingerprintOf[m] = Home(p) /\ FingerprintOf[m] # NoFp
  BY <1>1, OpensAtHome, IdentityAssumption DEF AtHome
<1>3. id # 0 => id \in DOMAIN packages /\ packages[id].path = p
  BY <1>1, RowAtFinds
<1>4. i # 0 => i \in DOMAIN packages /\ packages[i].fp = FingerprintOf[m]
  BY <1>1, RowWithFinds
<1>5. id # 0 => RowAtHome(packages[id]) /\ packages[id] \in Row
  BY <1>1, <1>3 DEF AtHome, RowsAtHome
<1>6. PlanAtHome(InvalidPlan(s), p)
  BY <1>3 DEF PlanAtHome, InvalidPlan, InvalidRow, RowAtHome, Ok
<1>7. ASSUME id # 0
      PROVE  /\ RowAtHome([packages[id] EXCEPT !.mark = s])
             /\ [packages[id] EXCEPT !.mark = s].path = p
             /\ RowAtHome(Refreshed(s, id)) /\ Refreshed(s, id).path = p
  <2> DEFINE row == packages[id]
  <2>1. row \in Row /\ RowAtHome(row) /\ row.path = p
    BY <1>3, <1>5, <1>7
  <2> HIDE DEF row
  <2>2. \A r \in { [row EXCEPT !.mark = s],
                   [row EXCEPT !.mark = s, !.status = "warning",
                               !.verify = "unverified", !.proof = NoFp],
                   [row EXCEPT !.mark = s,
                               !.status = IF @ = "unavailable" THEN "valid" ELSE @] } :
          RowAtHome(r) /\ r.path = p
    BY <2>1 DEF RowAtHome, Row, Ok
  <2> QED
    BY <2>2 DEF Refreshed, row
<1>8. ASSUME m # NoText, i # 0
      PROVE  /\ RowAtHome(MovedRow(s, i, m)) /\ MovedRow(s, i, m).path = p
             /\ Home(packages[i].path) = Home(p)
  <2>1. Home(packages[i].path) = Home(p)
    BY <1>2, <1>4, <1>8 DEF AtHome, RowsAtHome, RowAtHome
  <2>2. Determined(dirs[p], m, scan[s].full).verify \in Ok =>
          Determined(dirs[p], m, scan[s].full).proof = Home(p)
    BY <1>1, <1>2, <1>8, DeterminedProof
  <2> QED
    BY <1>2, <1>8, <2>1, <2>2 DEF MovedRow, RowAtHome, Ok
<1> HIDE DEF p, sha, id, m, i
<1> DEFINE refresh(row) == [op |-> "update", id |-> id, row |-> row, man |-> NoText]
           move == [op |-> "move", id |-> i, row |-> MovedRow(s, i, m), man |-> m]
           ingest == [op |-> "ingest", id |-> id, row |-> NoRow, man |-> m]
<1>9. \/ Decision(s) = InvalidPlan(s)
      \/ id # 0 /\ Decision(s) = refresh([packages[id] EXCEPT !.mark = s])
      \/ id # 0 /\ Decision(s) = refresh(Refreshed(s, id))
      \/ m # NoText /\ i # 0 /\ Decision(s) = move
      \/ m # NoText /\ Decision(s) = ingest
  BY DEF Decision, IsMove, p, sha, id, m, i
<1>10. ASSUME NEW row, id # 0, RowAtHome(row), row.path = p PROVE PlanAtHome(refresh(row), p)
  BY <1>3, <1>10 DEF PlanAtHome
<1>11. m # NoText /\ i # 0 => PlanAtHome(move, p)
  BY <1>2, <1>8 DEF PlanAtHome
<1>12. m # NoText => PlanAtHome(ingest, p)
  BY <1>2, <1>3 DEF PlanAtHome
<1> QED
  BY <1>6, <1>7, <1>9, <1>10, <1>11, <1>12 DEF p

(* A step that changes one scan only keeps everything at home, if the      *)
(* scan's new plan is.                                                     *)
LEMMA ScanStepAtHome ==
  ASSUME Typed, AtHome, NEW s \in Scanners, NEW next,
         scan' = [scan EXCEPT ![s] = next],
         next.pc = "write" => PlanAtHome(next.plan, next.dir),
         UNCHANGED <<dirs, packages, owner, content, verifier>>
  PROVE  AtHome'
<1>1. scan \in [Scanners -> ScanStates]
  BY DEF Typed, TypeOK
<1>2. \A t \in Scanners : scan'[t].pc = "write" => PlanAtHome(scan'[t].plan, scan'[t].dir)
  BY <1>1 DEF AtHome, PlansAtHome
<1>3. PlansAtHome'
  BY <1>2 DEF PlansAtHome, PlanAtHome
<1>4. DirsAtHome' /\ RowsAtHome' /\ OwnersAtHome' /\ VerifierAtHome'
  BY DEF AtHome, DirsAtHome, RowsAtHome, OwnersAtHome, VerifierAtHome
<1> QED
  BY <1>3, <1>4 DEF AtHome

(* A write that leaves every row in its home keeps the plans of the other  *)
(* scans and the verification's entries at home.                           *)
LEMMA TableWriteAtHome ==
  ASSUME Typed, AtHome, NEW s \in Scanners, NEW next,
         scan' = [scan EXCEPT ![s] = next], next.pc # "write",
         Len(packages') >= Len(packages), packages' \in Seq(Row),
         \A i \in DOMAIN packages : Home(packages'[i].path) = Home(packages[i].path),
         RowsAtHome', OwnersAtHome',
         UNCHANGED <<dirs, verifier>>
  PROVE  AtHome'
<1>1. /\ scan \in [Scanners -> ScanStates]
      /\ Len(packages) \in Nat /\ DOMAIN packages = 1 .. Len(packages)
  BY LenProperties DEF Typed, TypeOK
<1>2. PlansAtHome'
  <2> SUFFICES ASSUME NEW t \in Scanners, scan'[t].pc = "write"
               PROVE  PlanAtHome(scan[t].plan, scan[t].dir)'
    BY DEF PlansAtHome
  <2>1. t # s /\ scan'[t] = scan[t]
    BY <1>1
  <2>2. PlanAtHome(scan[t].plan, scan[t].dir)
    BY <2>1 DEF AtHome, PlansAtHome
  <2>3. scan[t].plan.id # 0 => scan[t].plan.id \in DOMAIN packages
    BY <1>1 DEF Typed, PlansFit
  <2> QED
    BY <2>1, <2>2, <2>3 DEF PlanAtHome, RowAtHome
<1>3. VerifierAtHome'
  <2>1. /\ \A e \in verifier.todo : e.id \in DOMAIN packages
        /\ verifier.pc = "store" => verifier.entry.id \in DOMAIN packages
    BY <1>1 DEF Typed, VerifierFits
  <2> QED
    BY <2>1 DEF AtHome, VerifierAtHome
<1>4. DirsAtHome'
  BY DEF AtHome, DirsAtHome
<1> QED
  BY <1>2, <1>3, <1>4 DEF AtHome

(* Writing a row at home, over a row of the same home, keeps everything at *)
(* home.                                                                   *)
LEMMA PutAtHome ==
  ASSUME Typed, AtHome, NEW s \in Scanners, NEW next,
         NEW id \in 0 .. Len(packages), NEW row \in Row, RowAtHome(row),
         id # 0 => Home(packages[id].path) = Home(row.path),
         packages' = Put(id, row),
         scan' = [scan EXCEPT ![s] = next], next.pc # "write",
         UNCHANGED <<dirs, owner, content, verifier>>
  PROVE  AtHome'
<1>1. /\ packages \in Seq(Row) /\ Len(packages) \in Nat
      /\ DOMAIN packages = 1 .. Len(packages)
      /\ owner \in [Releases -> 0 .. Len(packages)]
  BY LenProperties DEF Typed, TypeOK
<1>2. /\ packages' \in Seq(Row) /\ Len(packages') >= Len(packages)
      /\ \A i \in DOMAIN packages : packages'[i] = IF i = id THEN row ELSE packages[i]
      /\ \A i \in DOMAIN packages' : i \in DOMAIN packages \/ packages'[i] = row
  <2>1. /\ packages' \in Seq(Row)
        /\ Len(packages') = IF id = 0 THEN Len(packages) + 1 ELSE Len(packages)
        /\ \A i \in DOMAIN packages : packages'[i] = IF i = id THEN row ELSE packages[i]
        /\ id = 0 => packages'[Len(packages) + 1] = row
    <3>1. /\ Put(id, row) \in Seq(Row)
          /\ Len(Put(id, row)) = IF id = 0 THEN Len(packages) + 1 ELSE Len(packages)
          /\ \A i \in DOMAIN packages : Put(id, row)[i] = IF i = id THEN row ELSE packages[i]
          /\ id = 0 => Put(id, row)[Len(packages) + 1] = row
      BY <1>1, PutKeepsRows
    <3> QED
      BY <3>1
  <2>2. DOMAIN packages' = 1 .. Len(packages')
    BY <2>1, LenProperties
  <2> QED
    BY <1>1, <2>1, <2>2
<1>3. \A i \in DOMAIN packages : Home(packages'[i].path) = Home(packages[i].path)
  BY <1>1, <1>2
<1>4. RowsAtHome'
  <2>1. \A i \in DOMAIN packages' : RowAtHome(packages'[i])
    BY <1>2 DEF AtHome, RowsAtHome
  <2> QED
    BY <2>1 DEF RowsAtHome, RowAtHome
<1>5. OwnersAtHome'
  BY <1>1, <1>3 DEF AtHome, OwnersAtHome
<1> QED
  BY <1>2, <1>3, <1>4, <1>5, TableWriteAtHome

(* Each step of a scan keeps everything at home.                           *)
LEMMA ScanAtHome ==
  ASSUME StableNames, Typed, AtHome, NEW s \in Scanners,
         StartScan(s) \/ ScanStep(s) \/ TraversalError(s) \/ Crash(s)
  PROVE  AtHome'
<1>0. packages' \in Seq(Row)
  <2>1. Typed'
    BY ScanTyped
  <2> QED
    BY <2>1 DEF Typed, TypeOK
<1>1. /\ packages \in Seq(Row)
      /\ scan \in [Scanners -> ScanStates]
      /\ Len(packages) \in Nat /\ DOMAIN packages = 1 .. Len(packages)
      /\ owner \in [Releases -> 0 .. Len(packages)]
      /\ content \in [Releases -> Fingerprints \cup {NoFp}]
      /\ scan[s].plan.id \in 0 .. Len(packages)
  BY LenProperties DEF Typed, TypeOK, PlansFit
<1>2. scan[s].pc = "write" => PlanAtHome(scan[s].plan, scan[s].dir)
  BY DEF AtHome, PlansAtHome
<1>3. IdleScan.pc = "idle" /\ Resume(s).pc = "walk"
  <2>1. scan[s] \in ScanStates
    BY <1>1
  <2> QED
    BY <2>1 DEF IdleScan, Resume, ScanStates
<1>4. ASSUME \A i \in DOMAIN packages :
               packages'[i].path = packages[i].path /\ RowAtHome(packages'[i]),
             Len(packages') = Len(packages), UNCHANGED <<owner, content>>
      PROVE  RowsAtHome' /\ OwnersAtHome'
             /\ \A i \in DOMAIN packages : Home(packages'[i].path) = Home(packages[i].path)
  <2>1. DOMAIN packages' = DOMAIN packages
    BY <1>0, <1>1, <1>4, LenProperties
  <2>2. RowsAtHome'
    BY <1>4, <2>1 DEF RowsAtHome, RowAtHome
  <2>3. OwnersAtHome'
    BY <1>1, <1>4 DEF AtHome, OwnersAtHome
  <2> QED
    BY <1>4, <2>2, <2>3
<1>5. CASE StartScan(s)
  <2>1. PICK full \in BOOLEAN :
          scan' = [scan EXCEPT ![s] = [IdleScan EXCEPT !.pc = "walk", !.full = full,
                                                !.todo = Paths, !.calm = TRUE]]
    BY <1>5 DEF StartScan
  <2> DEFINE next == [IdleScan EXCEPT !.pc = "walk", !.full = full,
                                      !.todo = Paths, !.calm = TRUE]
  <2>2. next.pc # "write" /\ scan' = [scan EXCEPT ![s] = next]
    BY <2>1 DEF IdleScan
  <2>3. \A row \in Row : /\ [row EXCEPT !.mark = "nobody"].path = row.path
                         /\ RowAtHome(row) => RowAtHome([row EXCEPT !.mark = "nobody"])
    BY DEF Row, RowAtHome
  <2>4. \A i \in DOMAIN packages : packages[i] \in Row /\ RowAtHome(packages[i])
    BY <1>1 DEF AtHome, RowsAtHome
  <2>5. packages' = [i \in DOMAIN packages |->
                      IF packages[i].mark = s THEN [packages[i] EXCEPT !.mark = "nobody"]
                                              ELSE packages[i]]
    BY <1>5 DEF StartScan
  <2>6. \A i \in DOMAIN packages :
          packages'[i].path = packages[i].path /\ RowAtHome(packages'[i])
    BY <2>3, <2>4, <2>5, Zenon
  <2>7. Len(packages') = Len(packages)
    BY <1>0, <1>1, <2>5, LenProperties
  <2>8. UNCHANGED <<dirs, owner, content, verifier>>
    BY <1>5 DEF StartScan
  <2> HIDE DEF next
  <2> QED
    <3>1. /\ RowsAtHome' /\ OwnersAtHome'
          /\ \A i \in DOMAIN packages : Home(packages'[i].path) = Home(packages[i].path)
      BY <1>4, <2>6, <2>7, <2>8
    <3>2. Len(packages') >= Len(packages)
      BY <1>1, <2>7
    <3> QED
      BY <1>0, <2>2, <2>8, <3>1, <3>2, TableWriteAtHome
<1>6. CASE \E p \in Paths : PassBy(s, p) \/ HashManifest(s, p)
  <2>1. PICK p \in Paths : PassBy(s, p) \/ HashManifest(s, p)
    BY <1>6
  <2>2. CASE PassBy(s, p)
    <3> DEFINE next == [scan[s] EXCEPT !.todo = @ \ {p}]
    <3>1. next.pc = "walk"
      BY <2>2, ScanStateParts DEF PassBy, Typed
    <3>2. scan' = [scan EXCEPT ![s] = next] /\ UNCHANGED <<dirs, packages, owner, content, verifier>>
      BY <1>1, <2>2 DEF PassBy
    <3> HIDE DEF next
    <3> QED
      BY <3>1, <3>2, ScanStepAtHome
  <2>3. CASE HashManifest(s, p)
    <3> DEFINE next == [scan[s] EXCEPT !.pc = "open", !.todo = @ \ {p},
                                       !.dir = p, !.sha = dirs[p].text]
    <3>1. next.pc = "open"
      BY ScanStateParts DEF Typed
    <3>3. scan' = [scan EXCEPT ![s] = next] /\ UNCHANGED <<dirs, packages, owner, content, verifier>>
      BY <1>1, <2>3 DEF HashManifest
    <3> HIDE DEF next
    <3> QED
      BY <3>1, <3>3, ScanStepAtHome
  <2> QED
    BY <2>1, <2>2, <2>3
<1>7. CASE OpenPackage(s)
  <2> DEFINE next == [scan[s] EXCEPT !.pc = "write", !.plan = Decision(s)]
  <2>1. next.plan = Decision(s) /\ next.dir = scan[s].dir
    BY ScanStateParts DEF Typed
  <2>2. scan' = [scan EXCEPT ![s] = next] /\ UNCHANGED <<dirs, packages, owner, content, verifier>>
    BY <1>1, <1>7 DEF OpenPackage
  <2> HIDE DEF next
  <2> QED
    BY <2>1, <2>2, DecisionAtHome, ScanStepAtHome
<1>8. CASE WriteRow(s)
  <2> DEFINE id == scan[s].plan.id
             row == scan[s].plan.row
  <2>1. /\ packages' = Put(id, row) /\ row \in Row /\ RowAtHome(row)
        /\ scan' = [scan EXCEPT ![s] = Resume(s)]
        /\ UNCHANGED <<dirs, owner, content, verifier>>
        /\ id # 0 => Home(packages[id].path) = Home(row.path)
    BY <1>2, <1>8, ScanStateParts DEF WriteRow, PlanAtHome, Typed, Plans
  <2> QED
    BY <1>1, <1>3, <2>1, PutAtHome
<1>9. CASE Ingest(s)
  <2> DEFINE id == scan[s].plan.id
             m == scan[s].plan.man
             p == scan[s].dir
             row == IngestedRow(s)
             r == ReleaseOf[FingerprintOf[m]]
             d == Determined(dirs[p], m, scan[s].full)
  <2>1. /\ scan[s].pc = "write" /\ packages' = Put(id, row)
        /\ scan' = [scan EXCEPT ![s] = Resume(s)]
        /\ UNCHANGED <<dirs, verifier>>
    BY <1>9 DEF Ingest
  <2>2. /\ FingerprintOf[m] = Home(p)
        /\ id # 0 => Home(packages[id].path) = Home(p)
    BY <1>2, <1>9, <2>1 DEF Ingest, PlanAtHome
  <2>3. row.path = p /\ row \in Row
    BY <1>9, IngestedRowTyped DEF IngestedRow, Ingest
  <2>4. RowAtHome(row)
    <3>1. scan[s].full \in BOOLEAN
      BY ScanStateParts DEF Typed
    <3>2. d.verify \in Ok => d.proof = FingerprintOf[m]
      BY <3>1, DeterminedProof
    <3> HIDE DEF d
    <3> QED
      BY <2>2, <3>2 DEF RowAtHome, IngestedRow, Ok, d
  <2>5. /\ \A i \in DOMAIN packages : packages'[i] = IF i = id THEN row ELSE packages[i]
        /\ Len(packages') = IF id = 0 THEN Len(packages) + 1 ELSE Len(packages)
        /\ id = 0 => packages'[Len(packages) + 1] = row
    <3>1. /\ Len(Put(id, row)) = IF id = 0 THEN Len(packages) + 1 ELSE Len(packages)
          /\ \A i \in DOMAIN packages : Put(id, row)[i] = IF i = id THEN row ELSE packages[i]
          /\ id = 0 => Put(id, row)[Len(packages) + 1] = row
      <4> HIDE DEF row, id
      <4>1. id \in 0 .. Len(packages) /\ packages \in Seq(Row) /\ row \in Row
        BY <1>1, <2>3 DEF id
      <4> QED
        BY <4>1, PutKeepsRows
    <3> QED
      BY <2>1, <3>1
  <2>6. \A i \in DOMAIN packages : Home(packages'[i].path) = Home(packages[i].path)
    BY <1>1, <2>2, <2>3, <2>5
  <2>7. RowsAtHome'
    <3>1. DOMAIN packages' = 1 .. Len(packages')
      BY <1>0, LenProperties
    <3>2. \A i \in DOMAIN packages' : RowAtHome(packages'[i])
      BY <1>1, <2>4, <2>5, <3>1 DEF AtHome, RowsAtHome
    <3> QED
      BY <3>2 DEF RowsAtHome, RowAtHome
  <2>8. OwnersAtHome'
    <3> DEFINE new == IF id = 0 THEN Len(packages) + 1 ELSE id
    <3>1. CASE ~TakesOwnership(id, r)
      <4>1. UNCHANGED <<owner, content>>
        BY <1>9, <3>1 DEF Ingest
      <4> QED
        BY <1>1, <2>6, <4>1 DEF AtHome, OwnersAtHome
    <3>2. CASE TakesOwnership(id, r)
      <4>1. /\ owner' = [owner EXCEPT ![r] = new]
            /\ content' = [content EXCEPT ![r] = FingerprintOf[m]]
        BY <1>9, <3>2 DEF Ingest, IngestedId
      <4>2. Home(packages'[new].path) = FingerprintOf[m]
        BY <1>1, <2>2, <2>3, <2>5
      <4>3. \A q \in Releases : q # r /\ owner[q] # 0 =>
              content[q] = Home(packages'[owner[q]].path)
        BY <1>1, <2>6 DEF AtHome, OwnersAtHome
      <4> HIDE DEF new
      <4>4. \A q \in Releases : owner'[q] # 0 => content'[q] = Home(packages'[owner'[q]].path)
        BY <1>1, <4>1, <4>2, <4>3
      <4> QED
        BY <4>4 DEF OwnersAtHome
    <3> QED
      BY <3>1, <3>2
  <2> QED
    <3>1. Len(packages') >= Len(packages)
      BY <1>1, <2>5
    <3> QED
      BY <1>0, <1>3, <2>1, <2>6, <2>7, <2>8, <3>1, TableWriteAtHome
<1>10. CASE WriteFails(s)
  <2>1. /\ scan' = [scan EXCEPT ![s] =
          CASE scan[s].plan.op = "move" ->
                 [scan[s] EXCEPT !.plan = [op |-> "ingest", id |-> RowAt(scan[s].dir),
                                           row |-> NoRow, man |-> scan[s].plan.man]]
            [] scan[s].plan.op = "invalid" -> [Resume(s) EXCEPT !.calm = FALSE]
            [] OTHER -> [Resume(s) EXCEPT !.failed = TRUE]]
        /\ UNCHANGED <<dirs, packages, owner, content, verifier>>
    BY <1>10 DEF WriteFails
  <2>2. Resume(s) \in ScanStates
    BY ScanStateParts DEF Typed
  <2>3. CASE scan[s].plan.op = "move"
    <3> DEFINE plan == [op |-> "ingest", id |-> RowAt(scan[s].dir),
                        row |-> NoRow, man |-> scan[s].plan.man]
               next == [scan[s] EXCEPT !.plan = plan]
    <3>1. scan' = [scan EXCEPT ![s] = next]
      BY <2>1, <2>3
    <3>2. next.plan = plan /\ next.dir = scan[s].dir
      BY <1>1 DEF ScanStates
    <3>3. FingerprintOf[scan[s].plan.man] = Home(scan[s].dir)
      BY <1>2, <1>10, <2>3 DEF WriteFails, PlanAtHome
    <3>4. RowAt(scan[s].dir) # 0 => packages[RowAt(scan[s].dir)].path = scan[s].dir
      BY <1>1, RowAtFinds
    <3>5. PlanAtHome(plan, scan[s].dir)
      BY <3>3, <3>4 DEF PlanAtHome
    <3> HIDE DEF plan, next
    <3> QED
      BY <2>1, <3>1, <3>2, <3>5, ScanStepAtHome
  <2>4. CASE scan[s].plan.op = "invalid"
    <3> DEFINE next == [Resume(s) EXCEPT !.calm = FALSE]
    <3>1. scan' = [scan EXCEPT ![s] = next]
      BY <2>1, <2>4
    <3>2. next.pc = "walk"
      BY <1>3, <2>2 DEF ScanStates
    <3> HIDE DEF next
    <3> QED
      BY <2>1, <3>1, <3>2, ScanStepAtHome
  <2>5. CASE scan[s].plan.op \notin {"move", "invalid"}
    <3> DEFINE next == [Resume(s) EXCEPT !.failed = TRUE]
    <3>1. scan' = [scan EXCEPT ![s] = next]
      BY <2>1, <2>5
    <3>2. next.pc = "walk"
      BY <1>3, <2>2 DEF ScanStates
    <3> HIDE DEF next
    <3> QED
      BY <2>1, <3>1, <3>2, ScanStepAtHome
  <2> QED
    BY <2>3, <2>4, <2>5
<1>11. CASE Sweep(s)
  <2>1. \A r \in Row : /\ [r EXCEPT !.status = "unavailable"].path = r.path
                       /\ RowAtHome(r) => RowAtHome([r EXCEPT !.status = "unavailable"])
    BY DEF Row, RowAtHome
  <2>2. \A i \in DOMAIN packages : packages[i] \in Row /\ RowAtHome(packages[i])
    BY <1>1 DEF AtHome, RowsAtHome
  <2>3. packages' = [i \in DOMAIN packages |->
          IF packages[i].mark # s /\ packages[i].status \notin {"unavailable", "conflict"}
            THEN [packages[i] EXCEPT !.status = "unavailable"]
            ELSE packages[i]]
    BY <1>11 DEF Sweep
  <2>4. \A i \in DOMAIN packages :
          packages'[i].path = packages[i].path /\ RowAtHome(packages'[i])
    BY <2>1, <2>2, <2>3, Zenon
  <2>5. Len(packages') = Len(packages)
    BY <1>0, <1>1, <2>3, LenProperties
  <2>6. UNCHANGED <<dirs, owner, content, verifier>> /\ scan' = [scan EXCEPT ![s] = IdleScan]
    BY <1>11 DEF Sweep
  <2> QED
    <3>1. /\ RowsAtHome' /\ OwnersAtHome'
          /\ \A i \in DOMAIN packages : Home(packages'[i].path) = Home(packages[i].path)
      BY <1>4, <2>4, <2>5, <2>6
    <3>2. Len(packages') >= Len(packages)
      BY <1>1, <2>5
    <3>3. IdleScan.pc # "write"
      BY <1>3
    <3> QED
      BY <1>0, <2>6, <3>1, <3>2, <3>3, TableWriteAtHome
<1>12. CASE AbortScan(s)
  <2>1. /\ scan' = [scan EXCEPT ![s] = IdleScan]
        /\ UNCHANGED <<dirs, packages, owner, content, verifier>>
    BY <1>12 DEF AbortScan
  <2> QED
    BY <1>3, <2>1, ScanStepAtHome
<1>13. CASE TraversalError(s)
  <2>1. PICK left \in SUBSET scan[s].todo :
          scan' = [scan EXCEPT ![s].todo = left, ![s].failed = TRUE]
    BY <1>13 DEF TraversalError
  <2> DEFINE next == [scan[s] EXCEPT !.todo = left, !.failed = TRUE]
  <2>2. next.pc = "walk"
    <3>1. scan[s] \in ScanStates /\ scan[s].pc = "walk"
      BY <1>1, <1>13 DEF TraversalError
    <3> QED
      BY <3>1 DEF ScanStates
  <2>3. scan' = [scan EXCEPT ![s] = next]
    BY <1>1, <2>1
  <2>4. UNCHANGED <<dirs, packages, owner, content, verifier>>
    BY <1>13 DEF TraversalError
  <2> HIDE DEF next
  <2> QED
    BY <2>2, <2>3, <2>4, ScanStepAtHome
<1>14. CASE Crash(s)
  <2>1. /\ scan' = [scan EXCEPT ![s] = IdleScan]
        /\ verifier' = IF s = Worker THEN IdleVerifier ELSE verifier
        /\ UNCHANGED <<dirs, packages, owner, content>>
    BY <1>14 DEF Crash
  <2>2. DirsAtHome' /\ RowsAtHome' /\ OwnersAtHome'
    BY <2>1 DEF AtHome, DirsAtHome, RowsAtHome, OwnersAtHome
  <2>3. VerifierAtHome'
    BY <2>1 DEF AtHome, VerifierAtHome, IdleVerifier
  <2>4. \A t \in Scanners : scan'[t].pc = "write" =>
          scan'[t] = scan[t] /\ PlanAtHome(scan[t].plan, scan[t].dir)
    BY <1>1, <1>3, <2>1 DEF AtHome, PlansAtHome
  <2>5. PlansAtHome'
    BY <2>1, <2>4 DEF PlansAtHome, PlanAtHome
  <2> QED
    BY <2>2, <2>3, <2>5 DEF AtHome
<1> QED
  BY <1>5, <1>6, <1>7, <1>8, <1>9, <1>10, <1>11, <1>12, <1>13, <1>14 DEF ScanStep

(* The filesystem only ever holds what may occur.                          *)
LEMMA EnvironmentPlaces ==
  ASSUME Typed, DirsAtHome, Environment
  PROVE  DirsAtHome'
<1>1. dirs \in [Paths -> Contents \cup {NoDir}]
  BY DEF Typed, TypeOK
<1>2. CASE ChangeDir
  <2>1. PICK p \in Paths : \E c \in Placeable[p] \cup {NoDir} : dirs' = [dirs EXCEPT ![p] = c]
    BY <1>2 DEF ChangeDir
  <2> QED
    BY <1>1, <2>1 DEF DirsAtHome
<1>3. CASE RenameDir
  <2>1. PICK p, q \in Paths : /\ dirs[p] \in Placeable[q]
                             /\ dirs' = [dirs EXCEPT ![p] = NoDir, ![q] = dirs[p]]
    BY <1>3 DEF RenameDir
  <2> QED
    BY <1>1, <2>1 DEF DirsAtHome
<1> QED
  BY <1>2, <1>3 DEF Environment

(* Filesystem changes keep every path at its home.                         *)
LEMMA EnvironmentAtHome == Typed /\ AtHome /\ Environment => AtHome'
<1> SUFFICES ASSUME Typed, AtHome, Environment PROVE AtHome'
  OBVIOUS
<1>1. dirs \in [Paths -> Contents \cup {NoDir}] /\ scan \in [Scanners -> ScanStates]
  BY DEF Typed, TypeOK
<1>2. DirsAtHome'
  BY EnvironmentPlaces DEF AtHome
<1>3. scan' = Disturb /\ UNCHANGED <<packages, owner, content, verifier>>
  BY DEF Environment, ChangeDir, RenameDir
<1>4. \A s \in Scanners : /\ scan'[s].pc = scan[s].pc /\ scan'[s].plan = scan[s].plan
                          /\ scan'[s].dir = scan[s].dir
  BY <1>1, <1>3 DEF Disturb, ScanStates
<1>5. PlansAtHome'
  BY <1>3, <1>4 DEF AtHome, PlansAtHome, PlanAtHome
<1>6. RowsAtHome' /\ OwnersAtHome' /\ VerifierAtHome'
  BY <1>3 DEF AtHome, RowsAtHome, OwnersAtHome, VerifierAtHome
<1> QED
  BY <1>2, <1>5, <1>6 DEF AtHome

(* The verification stores the fingerprint it hashed, on a row of the same *)
(* home.                                                                   *)
LEMMA VerifyAtHome ==
  ASSUME StableNames, Typed, AtHome, StartVerify \/ VerifyStep
  PROVE  AtHome'
<1>1. /\ packages \in Seq(Row) /\ verifier \in VerifyStates
      /\ Len(packages) \in Nat /\ DOMAIN packages = 1 .. Len(packages)
      /\ owner \in [Releases -> 0 .. Len(packages)]
  BY LenProperties DEF Typed, TypeOK
<1>2. ASSUME UNCHANGED <<dirs, packages, owner, content, scan>>
      PROVE  DirsAtHome' /\ RowsAtHome' /\ OwnersAtHome' /\ PlansAtHome'
  BY <1>2 DEF AtHome, DirsAtHome, RowsAtHome, OwnersAtHome, PlansAtHome, PlanAtHome
<1>3. CASE StartVerify
  <2> DEFINE todo == {[id |-> i, path |-> packages[i].path] :
                        i \in {j \in DOMAIN packages : Present(j)}}
  <2>1. verifier' = [IdleVerifier EXCEPT !.pc = "hash", !.todo = todo]
        /\ UNCHANGED <<dirs, packages, owner, content, scan>>
    BY <1>3 DEF StartVerify
  <2>2. \A e \in todo : Home(packages[e.id].path) = Home(e.path)
    OBVIOUS
  <2> HIDE DEF todo
  <2>3. verifier'.todo = todo /\ verifier'.pc = "hash"
    BY <2>1 DEF IdleVerifier
  <2>4. VerifierAtHome'
    BY <2>1, <2>2, <2>3 DEF VerifierAtHome
  <2> QED
    BY <1>2, <2>1, <2>4 DEF AtHome
<1>4. CASE HashPackage
  <2>1. PICK e \in verifier.todo :
          LET m == Opened(e.path)
              a == IF m = NoText THEN "warning" ELSE Audit(dirs[e.path], m)
          IN  verifier' = [pc |-> "store", todo |-> verifier.todo \ {e}, entry |-> e,
                           status |-> a, tries |-> 0,
                           verify |-> IF m = NoText THEN "unverified" ELSE a,
                           proof |-> IF m # NoText /\ a \in Ok
                                       THEN FingerprintOf[m] ELSE NoFp]
    BY <1>4 DEF HashPackage
  <2> DEFINE m == Opened(e.path)
             a == IF m = NoText THEN "warning" ELSE Audit(dirs[e.path], m)
  <2>2. verifier' = [pc |-> "store", todo |-> verifier.todo \ {e}, entry |-> e, status |-> a,
                     tries |-> 0, verify |-> IF m = NoText THEN "unverified" ELSE a,
                     proof |-> IF m # NoText /\ a \in Ok THEN FingerprintOf[m] ELSE NoFp]
    BY <2>1
  <2>3. e.path \in Paths
    BY <1>1 DEF VerifyStates, VerifyEntries
  <2>4. m # NoText => FingerprintOf[m] = Home(e.path)
    BY <2>3, OpensAtHome DEF AtHome
  <2> HIDE DEF m, a
  <2>5. verifier'.verify \in Ok => verifier'.proof = Home(e.path)
    BY <2>2, <2>4 DEF Ok
  <2>6. UNCHANGED <<dirs, packages, owner, content, scan>>
    BY <1>4 DEF HashPackage
  <2>7. \A f \in verifier.todo : Home(packages[f.id].path) = Home(f.path)
    BY DEF AtHome, VerifierAtHome
  <2>8. verifier'.todo \subseteq verifier.todo /\ verifier'.entry = e
    BY <2>2
  <2>9. VerifierAtHome'
    BY <2>5, <2>6, <2>7, <2>8 DEF VerifierAtHome
  <2> QED
    BY <1>2, <2>6, <2>9 DEF AtHome
<1>5. CASE StoreVerdict
  <2> DEFINE i == verifier.entry.id
             old == packages[i]
             row == [old EXCEPT !.status = verifier.status,
                                !.verify = verifier.verify,
                                !.proof = verifier.proof]
  <2>1. i \in DOMAIN packages /\ old \in Row
    BY <1>1, <1>5 DEF StoreVerdict, Typed, VerifierFits
  <2>2. /\ RowAtHome(old)
        /\ verifier.verify \in Ok => verifier.proof = Home(old.path)
    BY <1>5, <2>1 DEF StoreVerdict, AtHome, RowsAtHome, VerifierAtHome
  <2>3. packages' \in {packages, [packages EXCEPT ![i] = row]}
    BY <1>5 DEF StoreVerdict
  <2>4. verifier' = [verifier EXCEPT !.pc = "hash"] /\ UNCHANGED <<dirs, owner, content, scan>>
    BY <1>5 DEF StoreVerdict
  <2> HIDE DEF i, old
  <2>5. RowAtHome(row) /\ row.path = old.path
    BY <2>1, <2>2 DEF RowAtHome, Row
  <2> HIDE DEF row
  <2>6. \A j \in DOMAIN packages : packages'[j] \in {packages[j], IF j = i THEN row ELSE packages[j]}
    BY <2>3
  <2>7. \A j \in DOMAIN packages : packages'[j].path = packages[j].path /\ RowAtHome(packages'[j])
    BY <2>5, <2>6 DEF AtHome, RowsAtHome, old
  <2>8. DOMAIN packages' = DOMAIN packages
    BY <2>3
  <2>9. RowsAtHome'
    BY <2>7, <2>8 DEF RowsAtHome, RowAtHome
  <2>10. OwnersAtHome'
    BY <1>1, <2>4, <2>7 DEF AtHome, OwnersAtHome
  <2>11. PlansAtHome'
    <3>1. \A t \in Scanners : scan[t].plan.id # 0 => scan[t].plan.id \in DOMAIN packages
      BY <1>1 DEF Typed, PlansFit
    <3> QED
      BY <2>4, <2>7, <3>1 DEF AtHome, PlansAtHome, PlanAtHome, RowAtHome
  <2>12. VerifierAtHome'
    <3>1. verifier'.pc = "hash" /\ verifier'.todo = verifier.todo
      BY <1>1, <2>4 DEF VerifyStates
    <3>2. \A e \in verifier.todo : e.id \in DOMAIN packages
      BY <1>1 DEF Typed, VerifierFits
    <3> QED
      BY <2>7, <3>1, <3>2 DEF AtHome, VerifierAtHome
  <2>13. DirsAtHome'
    BY <2>4 DEF AtHome, DirsAtHome
  <2> QED
    BY <2>9, <2>10, <2>11, <2>12, <2>13 DEF AtHome
<1>6. CASE EndVerify
  <2>1. verifier' = IdleVerifier /\ UNCHANGED <<dirs, packages, owner, content, scan>>
    BY <1>6 DEF EndVerify
  <2>2. VerifierAtHome'
    BY <2>1 DEF VerifierAtHome, IdleVerifier
  <2> QED
    BY <1>2, <2>1, <2>2 DEF AtHome
<1>7. CASE StoreRefused
  <2>1. verifier' = [verifier EXCEPT !.tries = @ + 1]
        /\ UNCHANGED <<dirs, packages, owner, content, scan>>
    BY <1>7 DEF StoreRefused
  <2>2. /\ verifier'.todo = verifier.todo /\ verifier'.pc = verifier.pc
        /\ verifier'.entry = verifier.entry /\ verifier'.verify = verifier.verify
        /\ verifier'.proof = verifier.proof
    BY <1>1, <2>1 DEF VerifyStates
  <2>3. VerifierAtHome'
    BY <2>1, <2>2 DEF AtHome, VerifierAtHome
  <2> QED
    BY <1>2, <2>1, <2>3 DEF AtHome
<1> QED
  BY <1>3, <1>4, <1>5, <1>6, <1>7 DEF VerifyStep

(* With names never reused, what a servable release serves was hashed and  *)
(* is the content its track rows describe, however scans, verifications,   *)
(* failures, crashes and changes of the filesystem interleave.             *)
THEOREM VisibleOnlyVerified ==
  ASSUME StableNames
  PROVE  Spec => []VisibleIsVerified
<1> DEFINE Inv == Typed /\ AtHome
<1>1. Init => Inv
  <2> SUFFICES ASSUME Init PROVE Inv
    OBVIOUS
  <2>1. DirsAtHome /\ RowsAtHome
    BY DEF Init, DirsAtHome, RowsAtHome
  <2>2. OwnersAtHome /\ PlansAtHome /\ VerifierAtHome
    BY DEF Init, OwnersAtHome, PlansAtHome, VerifierAtHome, IdleScan, IdleVerifier
  <2> QED
    BY <2>1, <2>2, TypedInit DEF AtHome
<1>2. Inv /\ [Next]_vars => Inv'
  <2> SUFFICES ASSUME Typed, AtHome, [Next]_vars PROVE AtHome'
    BY TypedStep
  <2>1. CASE UNCHANGED vars
    BY <2>1 DEF vars, AtHome, DirsAtHome, RowsAtHome, OwnersAtHome, PlansAtHome,
       PlanAtHome, VerifierAtHome
  <2>2. CASE Environment
    BY <2>2, EnvironmentAtHome
  <2>3. CASE \E s \in Scanners : StartScan(s) \/ ScanStep(s) \/ TraversalError(s) \/ Crash(s)
    BY <2>3, ScanAtHome
  <2>4. CASE StartVerify \/ VerifyStep
    BY <2>4, VerifyAtHome
  <2> QED
    BY <2>1, <2>2, <2>3, <2>4 DEF Next
<1>3. Inv => VisibleIsVerified
  <2> SUFFICES ASSUME Typed, AtHome, NEW r \in Releases, Visible(r)
               PROVE  packages[owner[r]].proof = content[r]
    BY DEF VisibleIsVerified
  <2>1. owner[r] \in DOMAIN packages /\ owner[r] # 0
    <3>1. packages \in Seq(Row) /\ DOMAIN packages = 1 .. Len(packages)
      BY LenProperties DEF Typed, TypeOK
    <3> QED
      BY <3>1 DEF Visible
  <2> QED
    BY <2>1 DEF Visible, AtHome, RowsAtHome, RowAtHome, OwnersAtHome
<1> QED
  BY <1>1, <1>2, <1>3, PTL DEF Spec

-----------------------------------------------------------------------------
(***************************************************************************)
(* One scanning process.  Between the step that reads a package's row and  *)
(* the step that writes it nobody else writes the tables: the worker       *)
(* verifies only while it does not scan.                                   *)
(***************************************************************************)
OneProcess == Scanners = {Worker}
Now == scan[Worker]
JobAlone == verifier.pc # "idle" => Now.pc = "idle"

(* What process_package decides, with what it found out on the way.        *)
Refresh(s, row) == [op |-> "update", id |-> RowAt(scan[s].dir), row |-> row, man |-> NoText]
LEMMA Decides ==
  ASSUME Typed, NEW s \in Scanners
  PROVE  LET p == scan[s].dir
             id == RowAt(p)
             m == Opened(p)
             i == RowWith(FingerprintOf[m])
             known == ~scan[s].full /\ id # 0 /\ packages[id].sha = scan[s].sha
         IN  \/ /\ scan[s].sha = NoText \/ m = NoText
                /\ Decision(s) = InvalidPlan(s)
             \/ /\ known /\ packages[id].status = "invalid"
                /\ Decision(s) = Refresh(s, [packages[id] EXCEPT !.mark = s])
             \/ /\ known /\ packages[id].status # "invalid" /\ m # NoText
                /\ Decision(s) = Refresh(s, Refreshed(s, id))
             \/ /\ m # NoText /\ i # 0 /\ dirs[packages[i].path] = NoDir
                /\ Decision(s) = [op |-> "move", id |-> i, row |-> MovedRow(s, i, m), man |-> m]
             \/ /\ m # NoText
                /\ Decision(s) = [op |-> "ingest", id |-> id, row |-> NoRow, man |-> m]
  BY DEF Decision, Refresh, IsMove

(* Only the worker's own steps move its scan on.                           *)
LEMMA JobAloneStep ==
  ASSUME OneProcess, Typed, JobAlone, [Next]_vars
  PROVE  JobAlone'
<1>1. scan \in [Scanners -> ScanStates] /\ Worker \in Scanners
  BY ScannersAssumption DEF Typed, TypeOK
<1>2. CASE UNCHANGED vars
  BY <1>2 DEF vars, JobAlone, Now
<1>3. CASE Environment
  <2>1. scan' = Disturb /\ verifier' = verifier
    BY <1>3 DEF Environment, ChangeDir, RenameDir
  <2>2. Now'.pc = Now.pc
    BY <1>1, <2>1 DEF Disturb, Now, ScanStates
  <2> QED
    BY <2>1, <2>2 DEF JobAlone
<1>4. ASSUME NEW s \in Scanners, StartScan(s) \/ ScanStep(s) \/ TraversalError(s) \/ Crash(s)
      PROVE  JobAlone'
  <2>1. s = Worker
    BY DEF OneProcess
  <2>2. CASE StartScan(s)
    BY <1>1, <2>1, <2>2 DEF StartScan, JobAlone, Now
  <2>3. CASE Crash(s)
    BY <1>1, <2>1, <2>3 DEF Crash, JobAlone, Now, IdleVerifier
  <2>4. CASE ScanStep(s) \/ TraversalError(s)
    <3>1. Now.pc # "idle" /\ verifier' = verifier
      BY <2>1, <2>4 DEF ScanStep, TraversalError, PassBy, HashManifest, OpenPackage, WriteRow,
         Ingest, WriteFails, Sweep, AbortScan, Now
    <3> QED
      BY <3>1 DEF JobAlone
  <2> QED
    BY <1>4, <2>2, <2>3, <2>4
<1>5. CASE StartVerify \/ VerifyStep
  <2>1. scan' = scan
    BY <1>5 DEF StartVerify, VerifyStep, HashPackage, StoreVerdict, StoreRefused, EndVerify
  <2>2. Now.pc = "idle"
    BY <1>5 DEF StartVerify, VerifyStep, HashPackage, StoreVerdict, StoreRefused, EndVerify, JobAlone, Now
  <2> QED
    BY <2>1, <2>2 DEF JobAlone, Now
<1> QED
  BY <1>2, <1>3, <1>4, <1>5 DEF Next

(***************************************************************************)
(* Quarantine.  A plan that is not an ingest keeps a quarantined row out   *)
(* of the present ones, unless the package lacks an object: then the fast  *)
(* path makes the row a warning (scanner.c:525).                           *)
(***************************************************************************)
NothingMissing == \A p \in Paths : \A c \in Placeable[p] : c.objects # "missing"
PlanKeepsQuarantine ==
  Now.pc = "write" /\ Now.plan.op # "ingest" /\ Now.plan.id # 0
    /\ packages[Now.plan.id].status = "conflict" => Now.plan.row.status \in Absent
Quarantined == Typed /\ DirsAtHome /\ JobAlone /\ PlanKeepsQuarantine

LEMMA DecisionKeepsQuarantine ==
  ASSUME NothingMissing, Typed, DirsAtHome, NEW s \in Scanners,
         Decision(s).op # "ingest", Decision(s).id # 0,
         packages[Decision(s).id].status = "conflict"
  PROVE  Decision(s).row.status \in Absent
<1> DEFINE p == scan[s].dir
           id == RowAt(p)
           m == Opened(p)
           i == RowWith(FingerprintOf[m])
<1>1. /\ packages \in Seq(Row) /\ p \in Paths
  BY ScanStateParts DEF Typed, TypeOK
<1>2. id # 0 => packages[id] \in Row
  BY <1>1, RowAtFinds
<1>3. CASE Decision(s) = InvalidPlan(s)
  BY <1>3 DEF InvalidPlan, InvalidRow, Absent
<1>4. CASE id # 0 /\ packages[id].status = "invalid"
           /\ Decision(s) = Refresh(s, [packages[id] EXCEPT !.mark = s])
  BY <1>4 DEF Refresh
<1>5. CASE id # 0 /\ m # NoText /\ Decision(s) = Refresh(s, Refreshed(s, id))
  <2>1. ~CountsMissing(dirs[p])
    BY <1>1, <1>5 DEF Opened, DirsAtHome, NothingMissing, CountsMissing
  <2>2. Decision(s).id = id /\ Decision(s).row = Refreshed(s, id)
    BY <1>5 DEF Refresh
  <2>3. packages[id].status = "conflict"
    BY <2>2
  <2>4. Refreshed(s, id).status = "conflict"
    BY <1>2, <1>5, <2>1, <2>3 DEF Refreshed, Row
  <2> QED
    BY <2>2, <2>4 DEF Absent
<1>6. CASE Decision(s) = [op |-> "move", id |-> i, row |-> MovedRow(s, i, m), man |-> m]
  BY <1>6 DEF MovedRow, Absent
<1> QED
  BY <1>3, <1>4, <1>5, <1>6, Decides

LEMMA QuarantinedStep ==
  ASSUME OneProcess, NothingMissing, Quarantined, [Next]_vars
  PROVE  Quarantined'
<1>1. Typed' /\ JobAlone'
  BY TypedStep, JobAloneStep DEF Quarantined
<1>2. scan \in [Scanners -> ScanStates] /\ Worker \in Scanners /\ Now \in ScanStates
  BY ScannersAssumption DEF Quarantined, Typed, TypeOK, Now
<1>3. CASE UNCHANGED vars
  BY <1>1, <1>3 DEF vars, Quarantined, DirsAtHome, PlanKeepsQuarantine, Now
<1>4. CASE Environment
  <2>1. DirsAtHome'
    BY <1>4, EnvironmentPlaces DEF Quarantined
  <2>2. scan' = Disturb /\ packages' = packages
    BY <1>4 DEF Environment, ChangeDir, RenameDir
  <2>3. Now'.pc = Now.pc /\ Now'.plan = Now.plan
    BY <1>2, <2>2 DEF Disturb, Now, ScanStates
  <2>4. PlanKeepsQuarantine'
    BY <2>2, <2>3 DEF Quarantined, PlanKeepsQuarantine
  <2> QED
    BY <1>1, <2>1, <2>4 DEF Quarantined
<1>5. ASSUME NEW s \in Scanners, StartScan(s) \/ ScanStep(s) \/ TraversalError(s) \/ Crash(s)
      PROVE  Quarantined'
  <2>1. s = Worker
    BY DEF OneProcess
  <2>2. dirs' = dirs
    BY <1>5 DEF StartScan, ScanStep, TraversalError, Crash, PassBy, HashManifest, OpenPackage,
       WriteRow, Ingest, WriteFails, Sweep, AbortScan
  <2>3. DirsAtHome'
    BY <2>2 DEF Quarantined, DirsAtHome
  <2>4. PlanKeepsQuarantine'
    <3>1. CASE OpenPackage(s)
      <4>1. Now'.plan = Decision(s) /\ packages' = packages
        BY <1>2, <2>1, <3>1 DEF OpenPackage, Now, ScanStates
      <4> QED
        BY <4>1, DecisionKeepsQuarantine DEF PlanKeepsQuarantine, Quarantined
    <3>2. CASE WriteFails(s)
      <4>1. Now'.pc # "write" \/ Now'.plan.op = "ingest"
        BY <1>2, <2>1, <3>2 DEF WriteFails, Resume, Now, ScanStates
      <4> QED
        BY <4>1 DEF PlanKeepsQuarantine
    <3>3. CASE ~OpenPackage(s) /\ ~WriteFails(s)
      <4>1. Now'.pc # "write"
        <5>1. CASE StartScan(s)
          BY <1>2, <2>1, <5>1 DEF StartScan, IdleScan, Now
        <5>2. CASE WriteRow(s) \/ Ingest(s)
          <6>1. Resume(s).pc = "walk"
            BY <1>2, <2>1 DEF Resume, Now, ScanStates
          <6>2. scan' = [scan EXCEPT ![s] = Resume(s)]
            BY <5>2 DEF WriteRow, Ingest
          <6> QED
            BY <1>2, <2>1, <6>1, <6>2 DEF Now
        <5>3. CASE Sweep(s) \/ AbortScan(s) \/ Crash(s)
          BY <1>2, <2>1, <5>3 DEF Sweep, AbortScan, Crash, IdleScan, Now
        <5>4. CASE TraversalError(s)
          <6>1. PICK left \in SUBSET scan[s].todo :
                  scan' = [scan EXCEPT ![s].todo = left, ![s].failed = TRUE]
            BY <5>4 DEF TraversalError
          <6> QED
            BY <1>2, <2>1, <5>4, <6>1 DEF TraversalError, Now, ScanStates
        <5>5. ASSUME NEW p \in Paths, PassBy(s, p) \/ HashManifest(s, p)
              PROVE  Now'.pc # "write"
          BY <1>2, <2>1, <5>5 DEF PassBy, HashManifest, Now, ScanStates
        <5> QED
          BY <1>5, <3>3, <5>1, <5>2, <5>3, <5>4, <5>5 DEF ScanStep
      <4> QED
        BY <4>1 DEF PlanKeepsQuarantine
    <3> QED
      BY <3>1, <3>2, <3>3
  <2> QED
    BY <1>1, <2>3, <2>4 DEF Quarantined
<1>6. CASE StartVerify \/ VerifyStep
  <2>1. scan' = scan /\ dirs' = dirs
    BY <1>6 DEF StartVerify, VerifyStep, HashPackage, StoreVerdict, StoreRefused, EndVerify
  <2>2. Now.pc = "idle"
    BY <1>6 DEF StartVerify, VerifyStep, HashPackage, StoreVerdict, StoreRefused, EndVerify, JobAlone, Now,
       Quarantined
  <2>3. PlanKeepsQuarantine' /\ DirsAtHome'
    BY <2>1, <2>2 DEF PlanKeepsQuarantine, Now, DirsAtHome, Quarantined
  <2> QED
    BY <1>1, <2>3 DEF Quarantined
<1> QED
  BY <1>3, <1>4, <1>5, <1>6 DEF Next

(* A quarantined package becomes present only by an ingest that gives it     *)
(* its release or finds the owner to have the same content: with one         *)
(* scanning process, and where no package lacks an object (scanner.c:315,    *)
(* 406).                                                                     *)
THEOREM QuarantineHolds ==
  ASSUME OneProcess, NothingMissing
  PROVE  Spec => QuarantineEndsByArbitration
<1> DEFINE Arbitrated(i) ==
      packages[i].status = "conflict" /\ packages'[i].status \notin Absent =>
        LET r == ReleaseOf[packages'[i].fp]
        IN  owner'[r] = i \/ packages'[owner'[r]].fp = packages'[i].fp
<1>1. Init => Quarantined
  <2> SUFFICES ASSUME Init  PROVE Quarantined
    OBVIOUS
  <2>1. DirsAtHome
    BY DEF Init, DirsAtHome
  <2>2. Now = IdleScan /\ verifier = IdleVerifier
    BY ScannersAssumption DEF Init, Now
  <2> QED
    BY <2>1, <2>2, TypedInit DEF Quarantined, JobAlone, PlanKeepsQuarantine, IdleScan, IdleVerifier
<1>2. Quarantined /\ [Next]_vars => Quarantined'
  BY QuarantinedStep
<1>3. Quarantined /\ [Next]_vars => [\A i \in DOMAIN packages : Arbitrated(i)]_vars
  <2> SUFFICES ASSUME Quarantined, Next, NEW i \in DOMAIN packages,
                      packages[i].status = "conflict", packages'[i].status \notin Absent
               PROVE  LET r == ReleaseOf[packages'[i].fp]
                      IN  owner'[r] = i \/ packages'[owner'[r]].fp = packages'[i].fp
    OBVIOUS
  <2>1. /\ packages \in Seq(Row) /\ DOMAIN packages = 1 .. Len(packages) /\ i # 0
        /\ packages[i] \in Row
        /\ owner \in [Releases -> 0 .. Len(packages)] /\ scan \in [Scanners -> ScanStates]
    BY LenProperties DEF Quarantined, Typed, TypeOK
  <2>2. packages'[i] # packages[i]
    BY DEF Absent
  <2>3. ASSUME NEW s \in Scanners, Ingest(s)
        PROVE  LET r == ReleaseOf[packages'[i].fp]
               IN  owner'[r] = i \/ packages'[owner'[r]].fp = packages'[i].fp
    <3> DEFINE id == scan[s].plan.id
               fp == FingerprintOf[scan[s].plan.man]
               r == ReleaseOf[fp]
               row == IngestedRow(s)
    <3>1. /\ scan[s].plan.man \in Manifests /\ id \in 0 .. Len(packages)
          /\ fp \in Fingerprints /\ r \in Releases /\ row \in Row
      BY <2>3, IdentityAssumption, IngestedRowTyped DEF Ingest, Quarantined, Typed, PlansFit
    <3>2. packages' = Put(id, row)
      BY <2>3 DEF Ingest
    <3>3. ASSUME NEW j \in DOMAIN packages
          PROVE  packages'[j] = IF j = id THEN row ELSE packages[j]
      <4>1. packages \in Seq(Row) /\ id \in 0 .. Len(packages) /\ row \in Row
        BY <2>1, <3>1
      <4> HIDE DEF id, row
      <4> QED
        BY <4>1, <3>2, PutKeepsRows
    <3>4. i = id /\ packages'[i] = row
      BY <2>2, <3>3
    <3>5. row.fp = fp /\ row.status # "conflict"
      BY <3>4 DEF IngestedRow, Absent
    <3>6. CASE TakesOwnership(id, r)
      <4>1. owner' = [owner EXCEPT ![r] = IngestedId(id)]
        BY <2>3, <3>6 DEF Ingest
      <4>2. owner'[r] = i
        BY <2>1, <3>1, <3>4, <4>1 DEF IngestedId
      <4> QED
        BY <3>4, <3>5, <4>2
    <3>7. CASE ~TakesOwnership(id, r)
      <4>1. owner' = owner
        BY <2>3, <3>7 DEF Ingest
      <4>2. packages[owner[r]].fp = fp
        BY <3>5, <3>7 DEF IngestedRow, Conflicts
      <4>3. owner[r] \in DOMAIN packages /\ owner[r] # id
        BY <2>1, <3>4, <3>7 DEF TakesOwnership, Present
      <4>4. packages'[owner[r]] = packages[owner[r]]
        BY <3>3, <4>3
      <4> QED
        BY <3>4, <3>5, <4>1, <4>2, <4>4
    <3> QED
      BY <3>6, <3>7
  <2>4. ASSUME NEW s \in Scanners, WriteRow(s)
        PROVE  FALSE
    <3> DEFINE id == scan[s].plan.id
               row == scan[s].plan.row
    <3>1. id \in 0 .. Len(packages) /\ row \in Row
      BY ScanStateParts DEF Quarantined, Typed, PlansFit, Plans
    <3>2. packages' = Put(id, row) /\ scan[s].pc = "write" /\ scan[s].plan.op # "ingest"
      BY <2>4 DEF WriteRow
    <3>3. packages'[i] = IF i = id THEN row ELSE packages[i]
      <4> HIDE DEF id, row
      <4> QED
        BY <2>1, <3>1, <3>2, PutKeepsRows
    <3>4. i = id /\ row.status \notin Absent
      BY <2>2, <3>3
    <3>5. s = Worker
      BY DEF OneProcess
    <3> QED
      BY <2>1, <3>2, <3>4, <3>5 DEF Quarantined, PlanKeepsQuarantine, Now
  <2>5. CASE StoreVerdict
    <3>1. verifier.entry.id \in DOMAIN packages
      BY <2>1, <2>5 DEF StoreVerdict, Quarantined, Typed, VerifierFits
    <3>2. i # verifier.entry.id
      BY <2>2, <2>5 DEF StoreVerdict
    <3> QED
      BY <2>1, <2>2, <2>5, <3>1, <3>2 DEF StoreVerdict
  <2>6. ASSUME NEW s \in Scanners, StartScan(s) \/ Sweep(s)
        PROVE  FALSE
    <3>1. CASE StartScan(s)
      <4>1. packages'[i] \in {packages[i], [packages[i] EXCEPT !.mark = "nobody"]}
        BY <3>1 DEF StartScan
      <4>2. packages'[i].status = packages[i].status
        BY <2>1, <4>1 DEF Row
      <4> QED
        BY <4>2 DEF Absent
    <3>2. CASE Sweep(s)
      BY <2>2, <3>2 DEF Sweep
    <3> QED
      BY <2>6, <3>1, <3>2
  <2>7. CASE UNCHANGED packages
    BY <2>2, <2>7
  <2>8. \/ UNCHANGED packages \/ StoreVerdict
        \/ \E s \in Scanners : Ingest(s) \/ WriteRow(s) \/ StartScan(s) \/ Sweep(s)
    BY DEF Next, Environment, ChangeDir, RenameDir, ScanStep, PassBy, HashManifest,
       OpenPackage, WriteFails, AbortScan, TraversalError, Crash, StartVerify, VerifyStep,
       HashPackage, StoreRefused, EndVerify
  <2> QED
    BY <2>3, <2>4, <2>5, <2>6, <2>7, <2>8
<1> QED
  BY <1>1, <1>2, <1>3, PTL DEF Spec, QuarantineEndsByArbitration

(***************************************************************************)
(* The table after a scan.  While nothing has disturbed the scan, each     *)
(* directory it has passed has its row, stamped by this scan, and nothing  *)
(* else is stamped; so the sweep takes exactly what is not there.          *)
(***************************************************************************)
Calm == Now.pc # "idle" /\ Now.calm /\ ~Now.failed
Handled(p) == p \notin Now.todo /\ ~(Now.pc # "walk" /\ Now.dir = p)
Stamped(row, p, c, full) ==
  /\ row.path = p /\ row.sha = c.text /\ row.mark = Worker
  /\ row.status # "unavailable"
  /\ c.text \notin Manifests => row.status = "invalid"
  /\ full /\ c.text \in Manifests => row.status # "invalid"

HandledMirrored == Calm =>
  \A p \in Paths : dirs[p] # NoDir /\ Handled(p) =>
    \E i \in DOMAIN packages : Stamped(packages[i], p, dirs[p], Now.full)
MarkedIsThere == Calm =>
  \A i \in DOMAIN packages : packages[i].mark = Worker => dirs[packages[i].path] # NoDir
ReadsTrue == Calm /\ Now.pc \in {"open", "write"} =>
  dirs[Now.dir] # NoDir /\ Now.sha = dirs[Now.dir].text
PlanMirrors == Calm /\ Now.pc = "write" =>
  /\ Now.plan.id # 0 =>
       packages[Now.plan.id].path = Now.dir \/ dirs[packages[Now.plan.id].path] = NoDir
  /\ Now.plan.op # "ingest" => Stamped(Now.plan.row, Now.dir, dirs[Now.dir], Now.full)
  /\ Now.plan.op \in {"move", "ingest"} => dirs[Now.dir].text \in Manifests
Mirroring == HandledMirrored /\ MarkedIsThere /\ ReadsTrue /\ PlanMirrors

(* The scan of the one process, before and after a step of it.             *)
LEMMA NowTyped ==
  ASSUME Typed
  PROVE  /\ Worker \in Scanners /\ scan \in [Scanners -> ScanStates] /\ Now \in ScanStates
         /\ packages \in Seq(Row) /\ DOMAIN packages = 1 .. Len(packages)
         /\ \A i \in DOMAIN packages : packages[i] \in Row
  BY ScannersAssumption, LenProperties DEF Typed, TypeOK, Now

(* A scan that is over, failed or disturbed claims nothing.                *)
LEMMA NotCalm == ~Calm => Mirroring
  BY DEF Mirroring, HandledMirrored, MarkedIsThere, ReadsTrue, PlanMirrors

(* What is decided for a directory is a row that mirrors it.               *)
LEMMA DecisionMirrors ==
  ASSUME Typed, ReadsTrue, Calm, Now.pc = "open",
         NEW plan, plan = Decision(Worker)
  PROVE  /\ plan.id # 0 =>
              packages[plan.id].path = Now.dir \/ dirs[packages[plan.id].path] = NoDir
         /\ plan.op # "ingest" => Stamped(plan.row, Now.dir, dirs[Now.dir], Now.full)
         /\ plan.op \in {"move", "ingest"} => dirs[Now.dir].text \in Manifests
<1> DEFINE p == Now.dir
           c == dirs[p]
           id == RowAt(p)
           m == Opened(p)
           i == RowWith(FingerprintOf[m])
<1>1. /\ Worker \in Scanners /\ packages \in Seq(Row)
      /\ Now.full \in BOOLEAN /\ p \in Paths
  BY NowTyped DEF ScanStates
<1>2. c # NoDir /\ Now.sha = c.text
  BY DEF ReadsTrue
<1>3. /\ m = IF c.text \in Manifests THEN c.text ELSE NoText
      /\ NoText \notin Manifests
  BY <1>2, TextsAssumption DEF Opened
<1>4. id # 0 => packages[id] \in Row /\ packages[id].path = p
  BY <1>1, RowAtFinds
<1>5. CASE Decision(Worker) = InvalidPlan(Worker) /\ (Now.sha = NoText \/ m = NoText)
  <2>1. c.text \notin Manifests
    BY <1>2, <1>3, <1>5
  <2>2. plan.id = id /\ plan.op = "invalid" /\ plan.row = InvalidRow(Worker)
    BY <1>5 DEF InvalidPlan, Now
  <2>3. Stamped(plan.row, p, c, Now.full)
    BY <1>2, <2>1, <2>2 DEF Stamped, InvalidRow, Now
  <2> QED
    BY <1>4, <2>2, <2>3
<1>6. CASE /\ ~Now.full /\ id # 0 /\ packages[id].sha = Now.sha /\ packages[id].status = "invalid"
           /\ Decision(Worker) = Refresh(Worker, [packages[id] EXCEPT !.mark = Worker])
  <2>1. plan.id = id /\ plan.op = "update" /\ plan.row = [packages[id] EXCEPT !.mark = Worker]
    BY <1>6 DEF Refresh, Now
  <2>2. Stamped(plan.row, p, c, Now.full)
    BY <1>2, <1>4, <1>6, <2>1 DEF Stamped, Row
  <2> QED
    BY <1>4, <2>1, <2>2
<1>7. CASE /\ ~Now.full /\ id # 0 /\ packages[id].sha = Now.sha
           /\ packages[id].status # "invalid" /\ m # NoText
           /\ Decision(Worker) = Refresh(Worker, Refreshed(Worker, id))
  <2>1. plan.id = id /\ plan.op = "update" /\ plan.row = Refreshed(Worker, id)
    BY <1>7 DEF Refresh, Now
  <2>2. c.text \in Manifests
    BY <1>3, <1>7
  <2>3. Stamped(plan.row, p, c, Now.full)
    BY <1>2, <1>4, <1>7, <2>1, <2>2 DEF Stamped, Refreshed, Row
  <2> QED
    BY <1>4, <2>1, <2>3
<1>8. CASE /\ m # NoText /\ i # 0 /\ dirs[packages[i].path] = NoDir
           /\ Decision(Worker) = [op |-> "move", id |-> i, row |-> MovedRow(Worker, i, m), man |-> m]
  <2>1. plan.id = i /\ plan.op = "move" /\ plan.row = MovedRow(Worker, i, m)
    BY <1>8
  <2>2. c.text \in Manifests
    BY <1>3, <1>8
  <2>3. Determined(dirs[p], m, Now.full).status \in {"valid", "warning", "checksum-failed"}
    BY DEF Determined, Audit
  <2>4. Stamped(plan.row, p, c, Now.full)
    BY <1>2, <2>1, <2>2, <2>3 DEF Stamped, MovedRow, Now
  <2> QED
    BY <1>8, <2>1, <2>2, <2>4
<1>9. CASE /\ m # NoText
           /\ Decision(Worker) = [op |-> "ingest", id |-> id, row |-> NoRow, man |-> m]
  BY <1>3, <1>4, <1>9
<1> QED
  <2>1. /\ scan[Worker].dir = p /\ scan[Worker].sha = Now.sha /\ scan[Worker].full = Now.full
    BY DEF Now
  <2> QED
    BY <1>1, <1>5, <1>6, <1>7, <1>8, <1>9, <2>1, Decides

(* The row that is written takes the directory's place in the table, and   *)
(* no row of another directory's.                                          *)
LEMMA WriteMirrors ==
  ASSUME Typed, Mirroring, Calm, Now.pc = "write",
         NEW id, id = Now.plan.id, NEW row \in Row,
         Stamped(row, Now.dir, dirs[Now.dir], Now.full),
         packages' = Put(id, row), scan' = [scan EXCEPT ![Worker] = Resume(Worker)],
         dirs' = dirs
  PROVE  Mirroring'
<1>1. /\ Worker \in Scanners /\ scan \in [Scanners -> ScanStates] /\ Now \in ScanStates
      /\ packages \in Seq(Row) /\ DOMAIN packages = 1 .. Len(packages)
  BY NowTyped
<1>2. id \in 0 .. Len(packages)
  BY <1>1 DEF Typed, PlansFit, Now
<1>3. /\ Now'.pc = "walk" /\ Now'.todo = Now.todo /\ Now'.full = Now.full /\ Now'.calm = Now.calm /\ Now'.failed = Now.failed
  BY <1>1 DEF Now, Resume, ScanStates
<1>4. /\ packages' \in Seq(Row) /\ \A i \in DOMAIN packages : packages'[i] = IF i = id THEN row ELSE packages[i]
      /\ Len(packages') = IF id = 0 THEN Len(packages) + 1 ELSE Len(packages)
      /\ id = 0 => packages'[Len(packages) + 1] = row
  <2>1. /\ Put(id, row) \in Seq(Row)
        /\ \A i \in DOMAIN packages : Put(id, row)[i] = IF i = id THEN row ELSE packages[i]
        /\ Len(Put(id, row)) = IF id = 0 THEN Len(packages) + 1 ELSE Len(packages)
        /\ id = 0 => Put(id, row)[Len(packages) + 1] = row
    <3>1. packages \in Seq(Row)
      BY <1>1
    <3> QED
      BY <1>2, <3>1, PutKeepsRows
  <2> QED
    BY <2>1
<1>5. DOMAIN packages' = 1 .. Len(packages') /\ Len(packages) \in Nat
  BY <1>1, <1>4, LenProperties
<1>6. PICK k \in DOMAIN packages' : packages'[k] = row
  <2>1. CASE id = 0
    BY <1>4, <1>5, <2>1
  <2>2. CASE id # 0
    BY <1>1, <1>2, <1>4, <1>5, <2>2
  <2> QED
    BY <2>1, <2>2
<1>7. \A j \in DOMAIN packages' : packages'[j] = row \/ (j \in DOMAIN packages /\ packages'[j] = packages[j])
  <2>1. CASE id = 0
    BY <1>1, <1>4, <1>5, <2>1
  <2>2. CASE id # 0
    BY <1>1, <1>4, <1>5, <2>2
  <2> QED
    BY <2>1, <2>2
<1>8. HandledMirrored'
  <2> SUFFICES ASSUME NEW p \in Paths, dirs[p] # NoDir, Handled(p)'
               PROVE  \E i \in DOMAIN packages' : Stamped(packages'[i], p, dirs[p], Now'.full)
    BY DEF HandledMirrored
  <2>1. CASE p = Now.dir
    BY <1>3, <1>6, <2>1
  <2>2. CASE p # Now.dir
    <3>1. Handled(p)
      BY <1>3, <2>2 DEF Handled
    <3>2. PICK i \in DOMAIN packages : Stamped(packages[i], p, dirs[p], Now.full)
      BY <3>1 DEF Mirroring, HandledMirrored
    <3>3. i # id
      <4>1. packages[i].path = p
        BY <3>2 DEF Stamped
      <4>2. id # 0 => packages[id].path = Now.dir \/ dirs[packages[id].path] = NoDir
        BY DEF Mirroring, PlanMirrors
      <4> QED
        BY <1>1, <2>2, <4>1, <4>2
    <3>4. packages'[i] = packages[i] /\ i \in DOMAIN packages'
      BY <1>1, <1>4, <1>5, <3>3
    <3> QED
      BY <1>3, <3>2, <3>4
  <2> QED
    BY <2>1, <2>2
<1>9. MarkedIsThere'
  <2> SUFFICES ASSUME NEW j \in DOMAIN packages', packages'[j].mark = Worker
               PROVE  dirs[packages'[j].path] # NoDir
    BY DEF MarkedIsThere
  <2>1. CASE packages'[j] = row
    BY <2>1 DEF Stamped, Mirroring, ReadsTrue
  <2>2. CASE j \in DOMAIN packages /\ packages'[j] = packages[j]
    BY <2>2 DEF Mirroring, MarkedIsThere
  <2> QED
    BY <1>7, <2>1, <2>2
<1>10. ReadsTrue' /\ PlanMirrors'
  BY <1>3 DEF ReadsTrue, PlanMirrors
<1> QED
  BY <1>8, <1>9, <1>10 DEF Mirroring

LEMMA MirroringStep ==
  ASSUME OneProcess, Typed, JobAlone, Mirroring, [Next]_vars
  PROVE  Mirroring'
<1>1. /\ Worker \in Scanners /\ scan \in [Scanners -> ScanStates] /\ Now \in ScanStates
      /\ packages \in Seq(Row) /\ DOMAIN packages = 1 .. Len(packages)
      /\ \A i \in DOMAIN packages : packages[i] \in Row
  BY NowTyped
<1>2. ~Calm' => Mirroring'
  BY NotCalm, PTL
<1>3. CASE UNCHANGED vars
  BY <1>3 DEF vars, Mirroring, HandledMirrored, MarkedIsThere, ReadsTrue, PlanMirrors, Calm,
     Handled, Now
<1>4. CASE Environment
  <2>1. scan' = Disturb
    BY <1>4 DEF Environment, ChangeDir, RenameDir
  <2>2. ~Calm'
    BY <1>1, <2>1 DEF Disturb, Calm, Now, ScanStates
  <2> QED
    BY <1>2, <2>2
<1>5. CASE StartVerify \/ VerifyStep
  <2>1. scan' = scan
    BY <1>5 DEF StartVerify, VerifyStep, HashPackage, StoreVerdict, StoreRefused, EndVerify
  <2>2. Now.pc = "idle"
    BY <1>5 DEF StartVerify, VerifyStep, HashPackage, StoreVerdict, StoreRefused, EndVerify, JobAlone, Now
  <2>3. ~Calm'
    BY <2>1, <2>2 DEF Calm, Now
  <2> QED
    BY <1>2, <2>3
<1>6. CASE StartScan(Worker)
  <2>1. Now'.pc = "walk" /\ Now'.todo = Paths
    BY <1>1, <1>6 DEF StartScan, IdleScan, Now
  <2>2. packages' = [i \in DOMAIN packages |->
                      IF packages[i].mark = Worker THEN [packages[i] EXCEPT !.mark = "nobody"]
                                                   ELSE packages[i]]
    BY <1>6 DEF StartScan
  <2>3. \A i \in DOMAIN packages' : packages'[i].mark # Worker
    <3> SUFFICES ASSUME NEW i \in DOMAIN packages'  PROVE packages'[i].mark # Worker
      OBVIOUS
    <3>1. i \in DOMAIN packages /\ packages[i] \in Row
      BY <1>1, <2>2
    <3>2. CASE packages[i].mark = Worker
      <4>1. packages'[i] = [packages[i] EXCEPT !.mark = "nobody"]
        BY <2>2, <3>1, <3>2
      <4>2. packages'[i].mark = "nobody"
        BY <3>1, <4>1 DEF Row
      <4> QED
        BY <1>1, <4>2, ScannersAssumption
    <3>3. CASE packages[i].mark # Worker
      BY <2>2, <3>1, <3>3
    <3> QED
      BY <3>2, <3>3
  <2> QED
    BY <2>1, <2>3 DEF Mirroring, HandledMirrored, MarkedIsThere, ReadsTrue, PlanMirrors, Handled
<1>7. CASE TraversalError(Worker)
  <2>1. PICK left \in SUBSET Now.todo :
          scan' = [scan EXCEPT ![Worker].todo = left, ![Worker].failed = TRUE]
    BY <1>7 DEF TraversalError, Now
  <2>2. ~Calm'
    BY <1>1, <2>1 DEF Calm, Now, ScanStates
  <2> QED
    BY <1>2, <2>2
<1>8. CASE Crash(Worker) \/ Sweep(Worker) \/ AbortScan(Worker)
  <2>1. ~Calm'
    BY <1>1, <1>8 DEF Crash, Sweep, AbortScan, IdleScan, Calm, Now
  <2> QED
    BY <1>2, <2>1
<1>9. CASE WriteFails(Worker)
  <2>1. CASE Now.plan.op # "move"
    <3>1. ~Calm'
      BY <1>1, <1>9, <2>1 DEF WriteFails, Resume, Calm, Now, ScanStates
    <3> QED
      BY <1>2, <3>1
  <2>2. CASE Now.plan.op = "move"
    <3> DEFINE retry == [op |-> "ingest", id |-> RowAt(Now.dir), row |-> NoRow,
                         man |-> Now.plan.man]
    <3>1. scan' = [scan EXCEPT ![Worker] = [scan[Worker] EXCEPT !.plan = retry]]
          /\ dirs' = dirs /\ packages' = packages /\ Now.pc = "write"
      BY <1>9, <2>2 DEF WriteFails, Now
    <3>2. /\ Now'.pc = "write" /\ Now'.todo = Now.todo /\ Now'.full = Now.full
          /\ Now'.calm = Now.calm /\ Now'.failed = Now.failed /\ Now'.dir = Now.dir
          /\ Now'.sha = Now.sha /\ Now'.plan = retry
      BY <1>1, <3>1 DEF Now, ScanStates
    <3>3. Calm' = Calm /\ \A q \in Paths : Handled(q)' = Handled(q)
      BY <3>1, <3>2 DEF Calm, Handled
    <3>4. retry.id # 0 => packages[retry.id].path = Now.dir
      BY <1>1, RowAtFinds
    <3>5. PlanMirrors'
      BY <2>2, <3>1, <3>2, <3>3, <3>4 DEF Mirroring, PlanMirrors
    <3> QED
      BY <3>1, <3>2, <3>3, <3>5 DEF Mirroring, HandledMirrored, MarkedIsThere, ReadsTrue
  <2> QED
    BY <2>1, <2>2
<1>10. ASSUME NEW p \in Paths, PassBy(Worker, p)  PROVE Mirroring'
  <2>1. /\ Now'.pc = "walk" /\ Now'.todo = Now.todo \ {p} /\ Now'.full = Now.full
        /\ Now'.calm = Now.calm /\ Now'.failed = Now.failed /\ Now.pc = "walk" /\ dirs[p] = NoDir
    BY <1>1, <1>10 DEF PassBy, Now, ScanStates
  <2>2. dirs' = dirs /\ packages' = packages
    BY <1>10 DEF PassBy
  <2>3. \A q \in Paths : dirs[q] # NoDir /\ Handled(q)' => Handled(q)
    BY <2>1 DEF Handled
  <2>4. Calm' => Calm
    BY <2>1 DEF Calm
  <2> QED
    BY <2>1, <2>2, <2>3, <2>4 DEF Mirroring, HandledMirrored, MarkedIsThere, ReadsTrue, PlanMirrors
<1>11. ASSUME NEW p \in Paths, HashManifest(Worker, p)  PROVE Mirroring'
  <2>1. /\ Now'.pc = "open" /\ Now'.todo = Now.todo \ {p} /\ Now'.full = Now.full
        /\ Now'.calm = Now.calm /\ Now'.failed = Now.failed /\ Now'.dir = p /\ Now'.sha = dirs[p].text
        /\ Now.pc = "walk" /\ dirs[p] # NoDir
    BY <1>1, <1>11 DEF HashManifest, Now, ScanStates
  <2>2. dirs' = dirs /\ packages' = packages
    BY <1>11 DEF HashManifest
  <2>3. \A q \in Paths : Handled(q)' => Handled(q)
    BY <2>1 DEF Handled
  <2>4. Calm' => Calm
    BY <2>1 DEF Calm
  <2> QED
    BY <2>1, <2>2, <2>3, <2>4 DEF Mirroring, HandledMirrored, MarkedIsThere, ReadsTrue, PlanMirrors
<1>12. CASE OpenPackage(Worker)
  <2>1. /\ Now'.pc = "write" /\ Now'.todo = Now.todo /\ Now'.full = Now.full
        /\ Now'.calm = Now.calm /\ Now'.failed = Now.failed /\ Now'.dir = Now.dir /\ Now'.sha = Now.sha
        /\ Now'.plan = Decision(Worker) /\ Now.pc = "open"
    BY <1>1, <1>12 DEF OpenPackage, Now, ScanStates
  <2>2. dirs' = dirs /\ packages' = packages
    BY <1>12 DEF OpenPackage
  <2>3. \A q \in Paths : Handled(q)' => Handled(q)
    BY <2>1 DEF Handled
  <2>4. Calm' => Calm
    BY <2>1 DEF Calm
  <2>5. PlanMirrors'
    <3> SUFFICES ASSUME Calm'  PROVE PlanMirrors'
      BY DEF PlanMirrors
    <3>1. ReadsTrue /\ Calm
      BY <2>4 DEF Mirroring
    <3> DEFINE plan == Decision(Worker)
    <3>2. /\ plan.id # 0 =>
               packages[plan.id].path = Now.dir \/ dirs[packages[plan.id].path] = NoDir
          /\ plan.op # "ingest" => Stamped(plan.row, Now.dir, dirs[Now.dir], Now.full)
          /\ plan.op \in {"move", "ingest"} => dirs[Now.dir].text \in Manifests
      BY <2>1, <3>1, DecisionMirrors
    <3> QED
      BY <2>1, <2>2, <3>2 DEF PlanMirrors
  <2> QED
    BY <2>1, <2>2, <2>3, <2>4, <2>5 DEF Mirroring, HandledMirrored, MarkedIsThere, ReadsTrue
<1>13. CASE WriteRow(Worker)
  <2>1. CASE ~Calm
    <3>1. ~Calm'
      BY <1>1, <1>13, <2>1 DEF WriteRow, Resume, Calm, Now, ScanStates
    <3> QED
      BY <1>2, <3>1
  <2>2. CASE Calm
    <3> DEFINE row == Now.plan.row
               id == Now.plan.id
    <3>1. /\ Now.pc = "write" /\ packages' = Put(id, row)
          /\ scan' = [scan EXCEPT ![Worker] = Resume(Worker)] /\ dirs' = dirs
          /\ Now.plan.op # "ingest"
      BY <1>13 DEF WriteRow, Now
    <3>2. row \in Row
      BY <1>1 DEF ScanStates, Plans
    <3>3. Stamped(row, Now.dir, dirs[Now.dir], Now.full)
      BY <2>2, <3>1 DEF Mirroring, PlanMirrors
    <3>4. id = Now.plan.id
      OBVIOUS
    <3> HIDE DEF row, id
    <3> QED
      BY <2>2, <3>1, <3>2, <3>3, <3>4, WriteMirrors
  <2> QED
    BY <2>1, <2>2
<1>14. CASE Ingest(Worker)
  <2>1. CASE ~Calm
    <3>1. ~Calm'
      BY <1>1, <1>14, <2>1 DEF Ingest, Resume, Calm, Now, ScanStates
    <3> QED
      BY <1>2, <3>1
  <2>2. CASE Calm
    <3> DEFINE row == IngestedRow(Worker)
               id == Now.plan.id
    <3>1. /\ Now.pc = "write" /\ packages' = Put(id, row)
          /\ scan' = [scan EXCEPT ![Worker] = Resume(Worker)] /\ dirs' = dirs
          /\ Now.plan.op = "ingest"
      BY <1>14 DEF Ingest, Now
    <3>2. row \in Row
      BY <1>1, <1>14, IngestedRowTyped
    <3>3. Stamped(row, Now.dir, dirs[Now.dir], Now.full)
      <4>1. dirs[Now.dir].text \in Manifests /\ Now.sha = dirs[Now.dir].text
        BY <2>2, <3>1 DEF Mirroring, PlanMirrors, ReadsTrue
      <4>2. /\ row.path = Now.dir /\ row.sha = Now.sha /\ row.mark = Worker
            /\ row.status \in {"conflict", "valid", "warning", "checksum-failed"}
        BY DEF IngestedRow, Now, Determined, Audit
      <4> HIDE DEF row
      <4> QED
        BY <4>1, <4>2 DEF Stamped
    <3>4. id = Now.plan.id
      OBVIOUS
    <3> HIDE DEF row, id
    <3> QED
      BY <2>2, <3>1, <3>2, <3>3, <3>4, WriteMirrors
  <2> QED
    BY <2>1, <2>2
<1> QED
  <2>1. \A s \in Scanners : s = Worker
    BY DEF OneProcess
  <2> QED
    BY <1>3, <1>4, <1>5, <1>6, <1>7, <1>8, <1>9, <1>10, <1>11, <1>12, <1>13, <1>14, <2>1
       DEF Next, ScanStep

(* After a scan that nothing disturbed, the table mirrors the filesystem:    *)
(* with one scanning process, for any places, manifests and earlier history  *)
(* of the table (scanner.c:696, library.c:286).                              *)
THEOREM ScanLeavesAMirror ==
  ASSUME OneProcess
  PROVE  Spec => ScanMirrorsFilesystem
<1> DEFINE Inv == Typed /\ JobAlone /\ Mirroring
           Mirrored == \A s \in Scanners : SweptBy(s) /\ Sweep(s) => Mirrors(packages', scan[s].full)
<1>1. Init => Inv
  <2> SUFFICES ASSUME Init  PROVE Inv
    OBVIOUS
  <2>1. Now = IdleScan /\ verifier = IdleVerifier
    BY ScannersAssumption DEF Init, Now
  <2>2. JobAlone /\ ~Calm
    BY <2>1 DEF JobAlone, Calm, IdleScan, IdleVerifier
  <2> QED
    BY <2>2, TypedInit, NotCalm
<1>2. Inv /\ [Next]_vars => Inv'
  BY TypedStep, JobAloneStep, MirroringStep
<1>3. Inv /\ [Next]_vars => [Mirrored]_vars
  <2> SUFFICES ASSUME Inv, NEW s \in Scanners, SweptBy(s), Sweep(s)
               PROVE  Mirrors(packages', scan[s].full)
    OBVIOUS
  <2>1. s = Worker /\ Calm /\ Now.todo = {} /\ Now.pc = "walk" /\ scan[s].full = Now.full
    BY NowTyped DEF OneProcess, SweptBy, Sweep, Calm, Now, ScanStates
  <2>2. packages' = [i \in DOMAIN packages |->
           IF packages[i].mark # Worker /\ packages[i].status \notin {"unavailable", "conflict"}
             THEN [packages[i] EXCEPT !.status = "unavailable"]
             ELSE packages[i]]
    BY <2>1 DEF Sweep
  <2>3. \A i \in DOMAIN packages : packages[i] \in Row
    BY NowTyped
  <2>4. ASSUME NEW p \in Paths, dirs[p] = NoDir, NEW i \in DOMAIN packages', packages'[i].path = p
        PROVE  packages'[i].status \in Absent
    <3>1. i \in DOMAIN packages /\ packages[i] \in Row
      BY <2>2, <2>3
    <3>2. packages[i].path = p
      BY <2>2, <2>4, <3>1 DEF Row
    <3>3. packages[i].mark # Worker
      BY <2>1, <2>4, <3>1, <3>2 DEF Mirroring, MarkedIsThere
    <3> QED
      BY <2>2, <3>1, <3>3 DEF Row, Absent
  <2>5. ASSUME NEW p \in Paths, dirs[p] # NoDir
        PROVE  \E i \in DOMAIN packages' :
                 /\ packages'[i].path = p /\ packages'[i].sha = dirs[p].text
                 /\ packages'[i].status # "unavailable"
                 /\ dirs[p].text \notin Manifests => packages'[i].status = "invalid"
                 /\ Now.full /\ dirs[p].text \in Manifests => packages'[i].status # "invalid"
    <3>1. Handled(p)
      BY <2>1 DEF Handled
    <3>2. PICK i \in DOMAIN packages : Stamped(packages[i], p, dirs[p], Now.full)
      BY <2>1, <2>5, <3>1 DEF Mirroring, HandledMirrored
    <3>3. i \in DOMAIN packages' /\ packages'[i] = packages[i]
      BY <2>2, <3>2 DEF Stamped
    <3> QED
      BY <3>2, <3>3 DEF Stamped
  <2> QED
    BY <2>1, <2>4, <2>5 DEF Mirrors
<1> QED
  BY <1>1, <1>2, <1>3, PTL DEF Spec, ScanMirrorsFilesystem
===============================================================================
