--------------------------- MODULE PublishingProofs ---------------------------
(* Proof that a published package is never lost, for any processes, commands *)
(* and sources: an in-place save keeps the old package until another one is  *)
(* at the destination or aside, whatever runs beside it.                     *)
EXTENDS Publishing, FiniteSetTheorems, TLAPS

(* A command that has not published holds its staging directory; a save that *)
(* has moved the old package aside holds that as well.                       *)
Early == {"copying", "salvaging", "tagging", "listing", "verifying", "publishing", "aside", "installing"}
Staged == \A p \in Procs : proc[p].pc \in Early => stage[p].there
Aside == \A p \in Procs : proc[p].pc = "installing" => old[p].there

(* A save about to forget the old package knows of another: at the           *)
(* destination, or moved aside by a save that has not come so far.           *)
Another(p) == dest.there \/ \E q \in Procs : old[q].there /\ proc[q].pc # "forgetting"
Replaced == \A p \in Procs : proc[p].pc = "forgetting" => Another(p)

PInv == TypeOK /\ Staged /\ Aside /\ Replaced

(* ---- types ------------------------------------------------------------- *)
LEMMA Types ==
  ASSUME TypeOK, NEW p \in Procs
  PROVE  /\ proc[p] \in Process /\ stage[p] \in Directories /\ old[p] \in Directories
         /\ dest \in Directories /\ packed \in Directories /\ source \in [Kinds -> Content]
BY DEF TypeOK

LEMMA Values ==
  /\ Missing \in Content /\ CutShort \in Content /\ Nothing \in [Kinds -> Content] /\ FromSources \in [Kinds -> Content]
  /\ Absent \in Directories /\ Published \in Directories
  /\ \A p \in Procs : Fresh(p) \in Directories
  /\ \A c \in Content : Tagged(c) \in Content
  /\ Idle \in Process /\ Nothing \in Manifests /\ NoManifest \in Manifests
<1>1. 0 \in 0 .. MaxChanges + 2 /\ 1 \in 0 .. MaxChanges + 2 /\ MaxChanges + 2 \in 0 .. MaxChanges + 2
  BY BoundsAssumption
<1>2. Missing \in Content /\ CutShort \in Content  BY <1>1 DEF Missing, CutShort, Content
<1>3. [Missing EXCEPT !.version = 1] \in Content  BY <1>1 DEF Missing, Content
<1>4. Nothing \in [Kinds -> Content] /\ FromSources \in [Kinds -> Content]
  BY <1>2, <1>3 DEF Nothing, FromSources
<1>5. Nothing \in Manifests /\ NoManifest \in Manifests /\ FromSources \in Manifests
  BY <1>4 DEF Manifests
<1>6. Absent \in Directories /\ Published \in Directories
  BY <1>4, <1>5 DEF Absent, Published, Directories
<1>7. ASSUME NEW p \in Procs PROVE Fresh(p) \in Directories
  BY <1>6 DEF Fresh, Absent, Directories
<1>8. ASSUME NEW c \in Content PROVE Tagged(c) \in Content
  BY DEF Tagged, Content
<1>9. Idle \in Process
  BY <1>4 DEF Idle, Process, AllCommands, Steps, Ended
<1> QED  BY <1>2, <1>4, <1>5, <1>6, <1>7, <1>8, <1>9

(* Moving on to another step keeps the rest of a process, but for the note   *)
(* that something is left.                                                   *)
LEMMA GoOn ==
  ASSUME TypeOK, NEW p \in Procs, NEW pc \in Steps, Go(p, pc) \/ Leave(p, pc)
  PROVE  /\ proc' \in [Procs -> Process]
         /\ proc'[p].pc = pc
         /\ \A q \in Procs \ {p} : proc'[q] = proc[q]
<1>1. CASE Go(p, pc)  BY <1>1 DEF TypeOK, Go, Process
<1>2. CASE Leave(p, pc)
  <2> DEFINE r == [proc[p] EXCEPT !.pc = pc, !.left = TRUE]
  <2>1. r \in Process /\ r.pc = pc  BY DEF TypeOK, Process
  <2>2. proc' = [proc EXCEPT ![p] = r]  BY <1>2 DEF Leave, TypeOK
  <2> QED  BY <2>1, <2>2 DEF TypeOK
<1> QED  BY <1>1, <1>2

(* The sources a command reads from.                                        *)
LEMMA Readable ==
  ASSUME TypeOK, NEW p \in Procs
  PROVE  Origin(p) \in [Kinds -> Content]
BY Types DEF Origin, Directories, Process

(* A step that puts a typed process and typed directories in place.          *)
LEMMA Update ==
  ASSUME TypeOK, NEW p \in Procs, NEW r \in Process,
         proc' = [proc EXCEPT ![p] = r]
  PROVE  /\ proc' \in [Procs -> Process] /\ proc'[p] = r
         /\ \A q \in Procs \ {p} : proc'[q] = proc[q]
BY DEF TypeOK

(* ---- every action keeps the types -------------------------------------- *)
LEMMA StartTypes ==
  ASSUME TypeOK, NEW p \in Procs, NEW c \in AllCommands, Start(p, c)
  PROVE  TypeOK'
<1> DEFINE sums == IF c \in {"update", "pack"} THEN dest.manifest
                   ELSE IF c = "unpack" THEN packed.manifest ELSE Nothing
           from == IF c = "unpack" THEN packed.files ELSE Nothing
           begun == [cmd |-> c, pc |-> FirstStep(c), left |-> FALSE,
                     todo |-> Copies[c] \cap Listed(c), sums |-> sums, from |-> from]
<1>1. CASE Accepts(c)
  <2>1. dest.manifest \in Manifests /\ packed.manifest \in Manifests
    BY DEF TypeOK, Directories
  <2>2. sums \in [Kinds -> Content]
    BY <1>1, <2>1, Values DEF Accepts, Whole, Manifests
  <2>3. Copies[c] \cap Listed(c) \in SUBSET Kinds
    BY SourcesAssumption DEF Copies, CreateCopies, ImportCopies, BuildCopies, Kinds
  <2>4. begun \in Process
    <3>1. packed.files \in [Kinds -> Content]  BY DEF TypeOK, Directories
    <3>2. from \in [Kinds -> Content]  BY <3>1, Values
    <3> HIDE DEF from, sums
    <3> QED  BY <2>2, <2>3, <3>2 DEF Process, Steps, FirstStep
  <2>5. proc' = [proc EXCEPT ![p] = begun]
    BY <1>1 DEF Start
  <2>6. proc' \in [Procs -> Process]
    BY <2>4, <2>5, Update
  <2>7. stage' \in [Procs -> Directories]
    BY <1>1, Values DEF Start, TypeOK
  <2> QED  BY <2>6, <2>7 DEF Start, TypeOK
<1>2. CASE ~Accepts(c)
  <2>1. [Idle EXCEPT !.cmd = c, !.pc = "refused"] \in Process
    BY Values DEF Process, Steps, Ended
  <2>2. proc' \in [Procs -> Process]
    BY <1>2, <2>1, Update DEF Start
  <2> QED  BY <1>2, <2>2 DEF Start, TypeOK
<1> QED  BY <1>1, <1>2

LEMMA AssembleTypes ==
  ASSUME TypeOK, NEW p \in Procs, Assemble(p)
  PROVE  TypeOK'
<1>1. ASSUME NEW k \in Kinds, CopyObject(p, k) PROVE TypeOK'
  <2>1. Origin(p)[k] \in Content  BY Readable
  <2>2. proc[p] \in Process /\ stage[p] \in Directories  BY Types
  <2>3. CASE Origin(p)[k] # Missing
    <3> DEFINE r == [proc[p] EXCEPT !.todo = @ \ {k}, !.sums[k] = Origin(p)[k]]
               d == [stage[p] EXCEPT !.files[k] = Origin(p)[k]]
    <3>1. r \in Process  BY <2>1, <2>2 DEF Process
    <3>2. d \in Directories  BY <2>1, <2>2 DEF Directories
    <3>3. proc' = [proc EXCEPT ![p] = r]  BY <1>1, <2>3 DEF CopyObject
    <3>4. stage' = [stage EXCEPT ![p] = d]  BY <1>1, <2>3 DEF CopyObject
    <3>5. proc' \in [Procs -> Process]  BY <3>1, <3>3, Update
    <3>6. stage' \in [Procs -> Directories]  BY <3>2, <3>4 DEF TypeOK
    <3> QED  BY <1>1, <3>5, <3>6 DEF CopyObject, TypeOK
  <2>4. CASE Origin(p)[k] = Missing
    <3> DEFINE r == [proc[p] EXCEPT !.todo = @ \ {k},
                        !.pc = IF k \in Droppable THEN "copying" ELSE "failing"]
    <3>1. r \in Process  BY <2>2 DEF Process, Steps
    <3>2. proc' = [proc EXCEPT ![p] = r]  BY <1>1, <2>4 DEF CopyObject
    <3>3. proc' \in [Procs -> Process]  BY <3>1, <3>2, Update
    <3> QED  BY <1>1, <2>4, <3>3 DEF CopyObject, TypeOK
  <2> QED  BY <2>3, <2>4
<1>2. ASSUME WriteManifest(p) \/ Relist(p) PROVE TypeOK'
  <2>1. \E pc \in Steps : Go(p, pc)  BY <1>2 DEF WriteManifest, Relist, Steps
  <2>2. proc' \in [Procs -> Process]  BY <2>1, GoOn
  <2>3. proc[p].sums \in Manifests  BY Types DEF Process, Manifests
  <2>4. [stage[p] EXCEPT !.manifest = proc[p].sums] \in Directories
    BY <2>3, Types DEF Directories
  <2>5. stage' = [stage EXCEPT ![p] = [stage[p] EXCEPT !.manifest = proc[p].sums]]
    BY <1>2 DEF WriteManifest, Relist
  <2>6. stage' \in [Procs -> Directories]  BY <2>4, <2>5 DEF TypeOK
  <2> QED  BY <1>2, <2>2, <2>6 DEF WriteManifest, Relist, TypeOK
<1>3. ASSUME SyncTags(p) PROVE TypeOK'
  <2>1. proc[p] \in Process /\ stage[p] \in Directories  BY Types
  <2>2. "audio" \in Kinds  BY DEF Kinds
  <2>3. Tagged(stage[p].files.audio) \in Content
    BY <2>1, <2>2, Values DEF Directories
  <2>4. CASE Go(p, "verifying") /\ UNCHANGED stage
    BY <1>3, <2>4, GoOn DEF SyncTags, TypeOK, Steps
  <2>5. CASE ~(Go(p, "verifying") /\ UNCHANGED stage)
    <3> DEFINE r == [proc[p] EXCEPT !.sums.audio = Tagged(stage[p].files.audio),
                                    !.pc = "listing"]
               d == [stage[p] EXCEPT !.files.audio = Tagged(@)]
    <3>1. r \in Process  BY <2>1, <2>2, <2>3 DEF Process, Steps
    <3>2. d \in Directories  BY <2>1, <2>2, <2>3 DEF Directories
    <3>3. proc' = [proc EXCEPT ![p] = r]  BY <1>3, <2>5 DEF SyncTags
    <3>4. stage' = [stage EXCEPT ![p] = d]  BY <1>3, <2>5 DEF SyncTags
    <3>5. proc' \in [Procs -> Process]  BY <3>1, <3>3, Update
    <3>6. stage' \in [Procs -> Directories]  BY <3>2, <3>4 DEF TypeOK
    <3> QED  BY <1>3, <3>5, <3>6 DEF SyncTags, TypeOK
  <2> QED  BY <2>4, <2>5
<1>4. ASSUME VerifyStage(p) PROVE TypeOK'
  <2>1. \E pc \in Steps : Go(p, pc)  BY <1>4 DEF VerifyStage, Steps
  <2>2. proc' \in [Procs -> Process]  BY <2>1, GoOn
  <2> QED  BY <1>4, <2>2 DEF VerifyStage, TypeOK, files
<1> QED  BY <1>1, <1>2, <1>3, <1>4 DEF Assemble

LEMMA PublishTypes ==
  ASSUME TypeOK, NEW p \in Procs, Publish(p) \/ Swap(p) \/ CleanUp(p)
  PROVE  TypeOK'
<1>1. \E pc \in Steps : Go(p, pc) \/ Leave(p, pc)
  BY DEF Publish, Swap, MoveAside, Install, RollBack, ForgetOld, CleanUp, Steps, Ended
<1>2. proc' \in [Procs -> Process]  BY <1>1, GoOn
<1>3. stage[p] \in Directories /\ old[p] \in Directories  BY Types
<1>4. CASE Publish(p)  BY <1>2, <1>3, <1>4, Values DEF Publish, TypeOK
<1>5. CASE MoveAside(p)  BY <1>2, <1>3, <1>5, Values DEF MoveAside, TypeOK
<1>6. CASE Install(p)  BY <1>2, <1>3, <1>6, Values DEF Install, TypeOK
<1>7. CASE RollBack(p)  BY <1>2, <1>3, <1>7, Values DEF RollBack, TypeOK
<1>8. CASE ForgetOld(p)  BY <1>2, <1>3, <1>8, Values DEF ForgetOld, TypeOK
<1>9. CASE CleanUp(p)  BY <1>2, <1>3, <1>9, Values DEF CleanUp, TypeOK
<1> QED  BY <1>4, <1>5, <1>6, <1>7, <1>8, <1>9 DEF Swap

LEMMA EditTypes ==
  ASSUME TypeOK, NEW p \in Procs, Edit(p)
  PROVE  TypeOK'
<1>1. proc[p] \in Process /\ dest \in Directories  BY Types
<1>2. "audio" \in Kinds  BY DEF Kinds
<1>3. ASSUME Retag(p) PROVE TypeOK'
  <2>1. CASE Go(p, "ok") /\ UNCHANGED dest
    BY <1>3, <2>1, GoOn DEF Retag, TypeOK, Steps, Ended
  <2>2. CASE ~(Go(p, "ok") /\ UNCHANGED dest)
    <3> DEFINE r == [proc[p] EXCEPT !.sums.audio = Tagged(dest.files.audio), !.pc = "saving"]
               d == [dest EXCEPT !.files.audio = Tagged(@)]
    <3>1. Tagged(dest.files.audio) \in Content  BY <1>1, <1>2, Values DEF Directories
    <3>2. r \in Process  BY <1>1, <1>2, <3>1 DEF Process, Steps
    <3>3. d \in Directories  BY <1>1, <1>2, <3>1 DEF Directories
    <3>4. proc' = [proc EXCEPT ![p] = r]  BY <1>3, <2>2 DEF Retag
    <3>5. dest' = d  BY <1>3, <2>2 DEF Retag
    <3>6. proc' \in [Procs -> Process]  BY <3>2, <3>4, Update
    <3> QED  BY <1>3, <3>3, <3>5, <3>6 DEF Retag, TypeOK
  <2> QED  BY <2>1, <2>2
<1>4. ASSUME Truncate(p) \/ SaveManifest(p) \/ SaveFails(p) PROVE TypeOK'
  <2>1. \E pc \in Steps : Go(p, pc)
    BY <1>4 DEF Truncate, SaveManifest, SaveFails, Steps, Ended
  <2>2. proc' \in [Procs -> Process]  BY <2>1, GoOn
  <2>3. proc[p].sums \in Manifests  BY <1>1 DEF Process, Manifests
  <2>4. \A s \in Manifests : [dest EXCEPT !.manifest = s] \in Directories
    BY <1>1 DEF Directories
  <2>5. dest' \in Directories
    BY <1>1, <1>4, <2>3, <2>4, Values DEF Truncate, SaveManifest, SaveFails, files
  <2> QED  BY <1>4, <2>2, <2>5 DEF Truncate, SaveManifest, SaveFails, TypeOK, files
<1> QED  BY <1>3, <1>4 DEF Edit

LEMMA PackTypes ==
  ASSUME TypeOK, NEW p \in Procs, Pack(p)
  PROVE  TypeOK'
<1>1. proc[p] \in Process /\ stage[p] \in Directories  BY Types
<1>2. ASSUME NEW k \in Kinds, PackMember(p, k) PROVE TypeOK'
  <2> DEFINE r == [proc[p] EXCEPT !.todo = @ \ {k}]
             d == [stage[p] EXCEPT !.files[k] = Origin(p)[k]]
  <2>1. CASE Go(p, "failing") /\ UNCHANGED stage
    <3>1. "failing" \in Steps  BY DEF Steps
    <3>2. proc' \in [Procs -> Process]  BY <2>1, <3>1, GoOn
    <3> QED  BY <1>2, <2>1, <3>2 DEF PackMember, TypeOK
  <2>2. CASE ~(Go(p, "failing") /\ UNCHANGED stage)
    <3>1. r \in Process  BY <1>1 DEF Process
    <3>2. d \in Directories  BY <1>1, Readable DEF Directories
    <3>3. proc' = [proc EXCEPT ![p] = r]  BY <1>2, <2>2 DEF PackMember
    <3>4. stage' = [stage EXCEPT ![p] = d]  BY <1>2, <2>2 DEF PackMember
    <3>5. proc' \in [Procs -> Process]  BY <3>1, <3>3, Update
    <3>6. stage' \in [Procs -> Directories]  BY <3>2, <3>4 DEF TypeOK
    <3> QED  BY <1>2, <3>5, <3>6 DEF PackMember, TypeOK
  <2> QED  BY <2>1, <2>2
<1>3. ASSUME ListMembers(p) \/ PublishFile(p)  PROVE TypeOK'
  <2>1. \E pc \in Steps : Go(p, pc)
    BY <1>3 DEF ListMembers, PublishFile, Steps, Ended
  <2>2. proc' \in [Procs -> Process]  BY <2>1, GoOn
  <2>3. proc[p].sums \in Manifests  BY <1>1 DEF Process, Manifests
  <2>4. [stage[p] EXCEPT !.manifest = proc[p].sums] \in Directories
    BY <1>1, <2>3 DEF Directories
  <2>5. CASE ListMembers(p)
    <3>1. stage' = [stage EXCEPT ![p] = [stage[p] EXCEPT !.manifest = proc[p].sums]]
      BY <2>5 DEF ListMembers
    <3>2. stage' \in [Procs -> Directories]  BY <2>4, <3>1 DEF TypeOK
    <3> QED  BY <2>2, <2>5, <3>2 DEF ListMembers, TypeOK
  <2>6. CASE PublishFile(p)  BY <1>1, <2>2, <2>6, Values DEF PublishFile, TypeOK
  <2> QED  BY <1>3, <2>5, <2>6
<1> QED  BY <1>2, <1>3 DEF Pack

(* Giving up a member or all that is left of them.                           *)
LEMMA DropTypes ==
  ASSUME TypeOK, NEW p \in Procs, NEW pc \in Steps, NEW rest \in SUBSET Kinds,
         proc' = [proc EXCEPT ![p].todo = rest, ![p].pc = pc]
  PROVE  proc' \in [Procs -> Process]
<1> DEFINE r == [proc[p] EXCEPT !.todo = rest, !.pc = pc]
<1>1. r \in Process  BY DEF TypeOK, Process
<1>2. proc' = [proc EXCEPT ![p] = r]  OBVIOUS
<1> QED  BY <1>1, <1>2, Update

LEMMA UnpackTypes ==
  ASSUME TypeOK, NEW p \in Procs, Unpack(p)
  PROVE  TypeOK'
<1>1. proc[p] \in Process /\ stage[p] \in Directories  BY Types
<1>2. /\ proc[p].todo \in SUBSET Kinds /\ proc[p].pc \in Steps /\ "salvaging" \in Steps
      /\ {} \in SUBSET Kinds
  BY <1>1 DEF Process, Steps
<1>3. ASSUME UnpackManifest(p)  PROVE TypeOK'
  <2>1. CASE Go(p, "copying")
    <3>1. proc[p].sums \in Manifests  BY <1>1 DEF Process, Manifests
    <3>2. [stage[p] EXCEPT !.manifest = proc[p].sums] \in Directories
      BY <1>1, <3>1 DEF Directories
    <3>3. stage' = [stage EXCEPT ![p] = [stage[p] EXCEPT !.manifest = proc[p].sums]] \/ stage' = stage
      BY <1>3 DEF UnpackManifest
    <3>4. stage' \in [Procs -> Directories]  BY <3>2, <3>3 DEF TypeOK
    <3>5. proc' \in [Procs -> Process]  BY <2>1, GoOn DEF Steps
    <3> QED  BY <1>3, <3>4, <3>5 DEF UnpackManifest, TypeOK
  <2>2. CASE ~Go(p, "copying")
    <3>1. proc' = [proc EXCEPT ![p].todo = {}, ![p].pc = "salvaging"]
      BY <1>3, <2>2 DEF UnpackManifest
    <3> DEFINE r == [proc[p] EXCEPT !.todo = {}, !.pc = "salvaging"]
    <3>0. r \in Process /\ proc' = [proc EXCEPT ![p] = r]
      BY <1>1, <1>2, <3>1 DEF TypeOK, Process
    <3>2. proc' \in [Procs -> Process]  BY <3>0, Update
    <3> QED  BY <1>3, <2>2, <3>2 DEF UnpackManifest, TypeOK
  <2> QED  BY <2>1, <2>2
<1>4. ASSUME NEW k \in Kinds, UnpackMember(p, k)  PROVE TypeOK'
  <2>1. PICK content \in Content, pc \in Steps : Extract(p, k, content, pc)
    <3>1. Origin(p)[k] \in Content  BY Readable
    <3> QED  BY <1>2, <1>4, <3>1, Values DEF UnpackMember
  <2>2. proc[p].todo \ {k} \in SUBSET Kinds  BY <1>2
  <2>3. proc' = [proc EXCEPT ![p].todo = proc[p].todo \ {k}, ![p].pc = pc]  BY <2>1 DEF Extract
  <2>4. proc' \in [Procs -> Process]  BY <2>2, <2>3, DropTypes
  <2>5. [stage[p] EXCEPT !.files[k] = content] \in Directories  BY <1>1 DEF Directories
  <2>6. stage' = [stage EXCEPT ![p] = [stage[p] EXCEPT !.files[k] = content]]  BY <2>1 DEF Extract
  <2>7. stage' \in [Procs -> Directories]  BY <2>5, <2>6 DEF TypeOK
  <2> QED  BY <1>4, <2>4, <2>7 DEF UnpackMember, TypeOK
<1>5. ASSUME UnpackBreaksOff(p)  PROVE TypeOK'
  <2> DEFINE r == [proc[p] EXCEPT !.todo = {}, !.pc = "salvaging"]
  <2>0. r \in Process /\ proc' = [proc EXCEPT ![p] = r]
    BY <1>1, <1>2, <1>5 DEF UnpackBreaksOff, TypeOK, Process
  <2>1. proc' \in [Procs -> Process]  BY <2>0, Update
  <2> QED  BY <1>5, <2>1 DEF UnpackBreaksOff, TypeOK, files
<1>6. ASSUME PublishExtracted(p) \/ CheckExtracted(p)  PROVE TypeOK'
  <2>1. \E pc \in Steps : Go(p, pc)
    BY <1>6 DEF PublishExtracted, CheckExtracted, Steps, Ended
  <2>2. proc' \in [Procs -> Process]  BY <2>1, GoOn
  <2>3. CASE PublishExtracted(p)  BY <1>1, <2>2, <2>3, Values DEF PublishExtracted, TypeOK
  <2>4. CASE CheckExtracted(p)  BY <2>2, <2>4 DEF CheckExtracted, TypeOK, files
  <2> QED  BY <1>6, <2>3, <2>4
<1> QED  BY <1>3, <1>4, <1>5, <1>6 DEF Unpack

LEMMA ChangeTypes ==
  ASSUME TypeOK, NEW k \in Sources, ChangeSource(k)
  PROVE  TypeOK'
<1>1. k \in Kinds  BY SourcesAssumption
<1>2. changes + 1 \in 0 .. MaxChanges /\ changes + 2 \in 0 .. MaxChanges + 2
  BY BoundsAssumption DEF ChangeSource, TypeOK
<1>3. source[k] \in Content  BY <1>1 DEF TypeOK
<1>4. [source[k] EXCEPT !.version = changes + 2] \in Content  BY <1>2, <1>3 DEF Content
<1>5. source' = [source EXCEPT ![k] = [source[k] EXCEPT !.version = changes + 2]]
      \/ source' = [source EXCEPT ![k] = Missing]
  BY DEF ChangeSource
<1>6. source' \in [Kinds -> Content]  BY <1>1, <1>4, <1>5, Values DEF TypeOK
<1>7. changes' \in 0 .. MaxChanges  BY <1>2 DEF ChangeSource
<1> QED  BY <1>6, <1>7 DEF ChangeSource, TypeOK, files

LEMMA StopTypes ==
  ASSUME TypeOK, NEW p \in Procs, IOFails(p) \/ Kill(p)
  PROVE  TypeOK'
<1>1. \E pc \in Steps : Go(p, pc)  BY DEF IOFails, Kill, Steps, Ended
<1>2. proc' \in [Procs -> Process]  BY <1>1, GoOn
<1>3. kills' \in 0 .. MaxKills  BY BoundsAssumption DEF IOFails, Kill, TypeOK
<1> QED  BY <1>2, <1>3 DEF IOFails, Kill, TypeOK, files

LEMMA NextTypes == TypeOK /\ [Next]_vars => TypeOK'
<1> SUFFICES ASSUME TypeOK, [Next]_vars PROVE TypeOK'  OBVIOUS
<1>1. CASE UNCHANGED vars  BY <1>1 DEF vars, TypeOK
<1>2. ASSUME NEW p \in Procs, NEW c \in Commands, Start(p, c) PROVE TypeOK'
  BY <1>2, CommandsAssumption, StartTypes
<1>3. ASSUME NEW p \in Procs, Progress(p) PROVE TypeOK'
  BY <1>3, AssembleTypes, PublishTypes, EditTypes, PackTypes, UnpackTypes DEF Progress
<1>4. ASSUME NEW p \in Procs, IOFails(p) \/ Kill(p) PROVE TypeOK'
  BY <1>4, StopTypes
<1>5. ASSUME NEW k \in Sources, ChangeSource(k) PROVE TypeOK'
  BY <1>5, ChangeTypes
<1> QED  BY <1>1, <1>2, <1>3, <1>4, <1>5 DEF Next

(* ---- the old package is held until it is replaced ----------------------- *)
Inner == Staged /\ Aside /\ Replaced

(* What every step but those of the swap has in common.                      *)
Steady(p) ==
  /\ \A q \in Procs \ {p} : proc'[q] = proc[q] /\ stage'[q].there = stage[q].there
  /\ old' = old
  /\ dest.there => dest'.there
  /\ proc'[p].pc \notin {"forgetting", "installing"}
  /\ proc'[p].pc \in Early => stage'[p].there

LEMMA SteadyKeeps ==
  ASSUME PInv, NEW p \in Procs, Steady(p)
  PROVE  Inner' /\ (Held # {} => Held' # {})
<1>1. Staged'  BY DEF PInv, Steady, Staged
<1>2. Aside'  BY DEF PInv, Steady, Aside
<1>3. Replaced'
  <2> SUFFICES ASSUME NEW q \in Procs, proc'[q].pc = "forgetting" PROVE Another(q)'
    BY DEF Replaced
  <2>1. q # p /\ proc[q].pc = "forgetting"  BY DEF Steady
  <2>2. Another(q)  BY <2>1 DEF PInv, Replaced
  <2>3. CASE dest.there  BY <2>3 DEF Steady, Another
  <2>4. ASSUME NEW r \in Procs, old[r].there, proc[r].pc # "forgetting"
        PROVE  Another(q)'
    BY <2>4 DEF Steady, Another
  <2> QED  BY <2>2, <2>3, <2>4 DEF Another
<1>4. Held # {} => Held' # {}  BY DEF Steady, Held
<1> QED  BY <1>1, <1>2, <1>3, <1>4 DEF Inner

LEMMA StagesApart ==
  ASSUME TypeOK, NEW p \in Procs, NEW d, stage' = [stage EXCEPT ![p] = d] \/ stage' = stage
  PROVE  /\ \A q \in Procs \ {p} : stage'[q] = stage[q]
         /\ stage' # stage => stage'[p] = d
BY DEF TypeOK

LEMMA StartSteady ==
  ASSUME PInv, NEW p \in Procs, NEW c \in AllCommands, Start(p, c)
  PROVE  Steady(p)
<1>1. \A q \in Procs \ {p} : proc'[q] = proc[q] /\ stage'[q] = stage[q]
  BY DEF PInv, TypeOK, Start
<1>2. CASE Accepts(c) /\ c = "update"
  <2>1. proc'[p].pc = "retag"  BY <1>2 DEF PInv, TypeOK, Start, FirstStep
  <2> QED  BY <1>1, <2>1 DEF Start, Steady, Early
<1>3. CASE Accepts(c) /\ c # "update"
  <2>1. proc'[p].pc \in {"copying", "listing"}  BY <1>3 DEF PInv, TypeOK, Start, FirstStep
  <2>2. stage'[p] = Fresh(p)  BY <1>3 DEF PInv, TypeOK, Start, Stages
  <2>3. stage'[p].there  BY <2>2 DEF Fresh, Absent
  <2> QED  BY <1>1, <2>1, <2>3 DEF Start, Steady, Early
<1>4. CASE ~Accepts(c)
  <2>1. proc'[p].pc = "refused"
    BY <1>4 DEF PInv, TypeOK, Start, Idle
  <2> QED  BY <1>1, <1>4, <2>1 DEF Start, Steady, Early
<1> QED  BY <1>2, <1>3, <1>4

LEMMA AssembleSteady ==
  ASSUME PInv, NEW p \in Procs, Assemble(p)
  PROVE  Steady(p)
<1>1. proc[p] \in Process /\ stage[p] \in Directories  BY Types DEF PInv
<1>2. ASSUME NEW k \in Kinds, CopyObject(p, k) PROVE Steady(p)
  <2>1. proc[p].pc = "copying" /\ stage[p].there
    BY <1>2 DEF CopyObject, At, PInv, Staged, Early
  <2>2. proc'[p].pc \in {"copying", "failing"}
    BY <1>1, <1>2, <2>1 DEF CopyObject, PInv, TypeOK, Process
  <2>3. \A q \in Procs \ {p} : proc'[q] = proc[q] /\ stage'[q] = stage[q]
    BY <1>2 DEF CopyObject, PInv, TypeOK
  <2>4. stage'[p].there
    BY <1>1, <1>2, <2>1 DEF CopyObject, PInv, TypeOK, Directories
  <2> QED  BY <1>2, <2>2, <2>3, <2>4 DEF CopyObject, Steady
<1>3. ASSUME WriteManifest(p) \/ Relist(p) PROVE Steady(p)
  <2>1. stage[p].there
    BY <1>3 DEF WriteManifest, Relist, At, PInv, Staged, Early
  <2>2. \E pc \in {"tagging", "verifying"} : Go(p, pc)
    BY <1>3 DEF WriteManifest, Relist
  <2>3. proc'[p].pc \in {"tagging", "verifying"} /\ \A q \in Procs \ {p} : proc'[q] = proc[q]
    BY <2>2, GoOn DEF PInv, Steps
  <2>4. stage'[p].there /\ \A q \in Procs \ {p} : stage'[q] = stage[q]
    BY <1>1, <1>3, <2>1 DEF WriteManifest, Relist, PInv, TypeOK, Directories
  <2> QED  BY <1>3, <2>3, <2>4 DEF WriteManifest, Relist, Steady
<1>4. ASSUME SyncTags(p) PROVE Steady(p)
  <2>1. stage[p].there
    BY <1>4 DEF SyncTags, At, PInv, Staged, Early
  <2>2. proc'[p].pc \in {"verifying", "listing"} /\ \A q \in Procs \ {p} : proc'[q] = proc[q]
    BY <1>1, <1>4 DEF SyncTags, Go, PInv, TypeOK, Process
  <2>3. stage'[p].there /\ \A q \in Procs \ {p} : stage'[q] = stage[q]
    BY <1>1, <1>4, <2>1 DEF SyncTags, PInv, TypeOK, Directories
  <2> QED  BY <1>4, <2>2, <2>3 DEF SyncTags, Steady
<1>5. ASSUME VerifyStage(p) PROVE Steady(p)
  <2>1. stage[p].there
    BY <1>5 DEF VerifyStage, At, PInv, Staged, Early
  <2>2. \E pc \in {"failing", "aside", "publishing"} : Go(p, pc)
    BY <1>5 DEF VerifyStage
  <2>3. proc'[p].pc \in {"failing", "aside", "publishing"}
        /\ \A q \in Procs \ {p} : proc'[q] = proc[q]
    BY <2>2, GoOn DEF PInv, Steps
  <2> QED  BY <1>5, <2>1, <2>3 DEF VerifyStage, Steady, files
<1> QED  BY <1>2, <1>3, <1>4, <1>5 DEF Assemble

LEMMA PublishSteady ==
  ASSUME PInv, NEW p \in Procs, Publish(p) \/ CleanUp(p)
  PROVE  Steady(p)
<1>1. \E pc \in {"failing", "ok", "failed"} : Go(p, pc) \/ Leave(p, pc)
  BY DEF Publish, CleanUp
<1>2. proc'[p].pc \in {"failing", "ok", "failed"} /\ \A q \in Procs \ {p} : proc'[q] = proc[q]
  BY <1>1, GoOn DEF PInv, Steps, Ended
<1>3. CASE Publish(p)
  <2>1. stage[p].there  BY <1>3 DEF Publish, At, PInv, Staged, Early
  <2> QED  BY <1>2, <1>3, <2>1 DEF Publish, Steady, Early, PInv, TypeOK
<1>4. CASE CleanUp(p)
  BY <1>2, <1>4 DEF CleanUp, Steady, Early, PInv, TypeOK
<1> QED  BY <1>3, <1>4

LEMMA EditSteady ==
  ASSUME PInv, NEW p \in Procs, Edit(p)
  PROVE  Steady(p)
<1>1. dest \in Directories /\ proc[p] \in Process  BY Types DEF PInv
<1>2. CASE Retag(p)
  <2>1. proc'[p].pc \in {"saving", "ok"} /\ \A q \in Procs \ {p} : proc'[q] = proc[q]
    BY <1>1, <1>2 DEF Retag, Go, PInv, TypeOK, Process
  <2>2. dest'.there = dest.there  BY <1>1, <1>2 DEF Retag, Directories
  <2> QED  BY <1>2, <2>1, <2>2 DEF Retag, Steady, Early
<1>3. CASE Truncate(p) \/ SaveManifest(p) \/ SaveFails(p)
  <2>1. \E pc \in {"writing", "ok", "failed"} : Go(p, pc)
    BY <1>3 DEF Truncate, SaveManifest, SaveFails
  <2>2. proc'[p].pc \in {"writing", "ok", "failed"} /\ \A q \in Procs \ {p} : proc'[q] = proc[q]
    BY <2>1, GoOn DEF PInv, Steps, Ended
  <2>3. dest'.there = dest.there
    BY <1>1, <1>3 DEF Truncate, SaveManifest, SaveFails, files, Directories
  <2> QED  BY <1>3, <2>2, <2>3 DEF Truncate, SaveManifest, SaveFails, files, Steady, Early
<1> QED  BY <1>2, <1>3 DEF Edit

LEMMA PackSteady ==
  ASSUME PInv, NEW p \in Procs, Pack(p)
  PROVE  Steady(p)
<1>1. stage[p] \in Directories /\ proc[p] \in Process  BY Types DEF PInv
<1>2. ASSUME NEW k \in Kinds, PackMember(p, k) PROVE Steady(p)
  <2>1. proc[p].pc = "copying" /\ stage[p].there
    BY <1>2 DEF PackMember, At, PInv, Staged, Early
  <2>2. proc'[p].pc \in {"copying", "failing"} /\ \A q \in Procs \ {p} : proc'[q] = proc[q]
    BY <1>1, <1>2, <2>1 DEF PackMember, Go, PInv, TypeOK, Process
  <2>3. stage'[p].there /\ \A q \in Procs \ {p} : stage'[q] = stage[q]
    BY <1>1, <1>2, <2>1 DEF PackMember, PInv, TypeOK, Directories
  <2> QED  BY <1>2, <2>2, <2>3 DEF PackMember, Steady
<1>3. ASSUME ListMembers(p) PROVE Steady(p)
  <2>1. stage[p].there  BY <1>3 DEF ListMembers, At, PInv, Staged, Early
  <2>2. proc'[p].pc = "verifying" /\ \A q \in Procs \ {p} : proc'[q] = proc[q]
    BY <1>3, GoOn DEF ListMembers, PInv, Steps
  <2>3. stage'[p].there /\ \A q \in Procs \ {p} : stage'[q] = stage[q]
    BY <1>1, <1>3, <2>1 DEF ListMembers, PInv, TypeOK, Directories
  <2> QED  BY <1>3, <2>2, <2>3 DEF ListMembers, Steady
<1>4. ASSUME PublishFile(p) PROVE Steady(p)
  <2>1. proc'[p].pc = "ok" /\ \A q \in Procs \ {p} : proc'[q] = proc[q]
    BY <1>4, GoOn DEF PublishFile, PInv, Steps, Ended
  <2>2. \A q \in Procs \ {p} : stage'[q] = stage[q]
    BY <1>4 DEF PublishFile, PInv, TypeOK
  <2> QED  BY <1>4, <2>1, <2>2 DEF PublishFile, Steady, Early
<1> QED  BY <1>2, <1>3, <1>4 DEF Pack

(* What the steps of an unpack do to the processes.                          *)
LEMMA UnpackMoves ==
  ASSUME TypeOK, NEW p \in Procs, Unpack(p)
  PROVE  /\ \A q \in Procs \ {p} : proc'[q] = proc[q] /\ stage'[q] = stage[q]
         /\ proc'[p].cmd = proc[p].cmd /\ proc[p].cmd = "unpack"
         /\ proc[p].pc \in {"listing", "copying", "salvaging", "checking"}
<1>1. proc[p] \in Process /\ stage[p] \in Directories  BY Types
<1>2. proc[p].cmd = "unpack" /\ proc[p].pc \in {"listing", "copying", "salvaging", "checking"}
  BY DEF Unpack, UnpackManifest, UnpackMember, UnpackBreaksOff, PublishExtracted, CheckExtracted,
         At, Extracting
<1>3. \E pc, rest : \/ Go(p, pc)
                    \/ proc' = [proc EXCEPT ![p].todo = rest, ![p].pc = pc]
  BY DEF Unpack, UnpackManifest, UnpackMember, UnpackBreaksOff, PublishExtracted, CheckExtracted,
         Extract
<1>4. /\ \A q \in Procs \ {p} : proc'[q] = proc[q]
      /\ proc'[p].cmd = proc[p].cmd
  BY <1>1, <1>3 DEF Go, TypeOK, Process
<1>5. \A q \in Procs \ {p} : stage'[q] = stage[q]
  <2>1. \E d : stage' = [stage EXCEPT ![p] = d] \/ stage' = stage
    BY DEF Unpack, UnpackManifest, UnpackMember, UnpackBreaksOff, PublishExtracted, CheckExtracted,
           Extract, files
  <2> QED  BY <2>1 DEF TypeOK
<1> QED  BY <1>2, <1>4, <1>5

LEMMA UnpackSteady ==
  ASSUME PInv, NEW p \in Procs, Unpack(p)
  PROVE  Steady(p)
<1> USE DEF PInv
<1>1. stage[p] \in Directories /\ proc[p] \in Process  BY Types
<1>2. \A q \in Procs \ {p} : proc'[q] = proc[q] /\ stage'[q] = stage[q]  BY UnpackMoves
<1>3. CASE UnpackManifest(p)
  <2>1. stage[p].there  BY <1>3 DEF UnpackManifest, At, Staged, Early
  <2>2. proc'[p].pc \in {"copying", "salvaging"}
    <3>1. CASE Go(p, "copying")  BY <3>1, GoOn DEF Steps
    <3>2. CASE ~Go(p, "copying")
      BY <1>1, <1>3, <3>2 DEF UnpackManifest, TypeOK, Process
    <3> QED  BY <3>1, <3>2
  <2>3. stage'[p].there
    <3>1. stage' = [stage EXCEPT ![p].manifest = proc[p].sums] \/ stage' = stage
      BY <1>3 DEF UnpackManifest
    <3> QED  BY <1>1, <2>1, <3>1 DEF TypeOK, Directories
  <2> QED  BY <1>2, <1>3, <2>2, <2>3 DEF UnpackManifest, Steady
<1>4. ASSUME NEW k \in Kinds, UnpackMember(p, k)  PROVE Steady(p)
  <2>1. stage[p].there /\ proc[p].pc \in {"copying", "salvaging"}
    BY <1>4 DEF UnpackMember, Extracting, Staged, Early
  <2>2. PICK pc \in {"copying", "salvaging"} : \E content : Extract(p, k, content, pc)
    BY <1>4, <2>1 DEF UnpackMember
  <2>3. proc'[p].pc = pc  BY <1>1, <2>2 DEF Extract, TypeOK, Process
  <2>4. stage'[p].there  BY <1>1, <2>1, <2>2 DEF Extract, TypeOK, Directories
  <2> QED  BY <1>2, <1>4, <2>3, <2>4 DEF UnpackMember, Steady
<1>5. CASE UnpackBreaksOff(p)
  <2>1. stage[p].there  BY <1>5 DEF UnpackBreaksOff, Extracting, Staged, Early
  <2>2. proc'[p].pc = "salvaging"  BY <1>1, <1>5 DEF UnpackBreaksOff, TypeOK, Process
  <2> QED  BY <1>2, <1>5, <2>1, <2>2 DEF UnpackBreaksOff, Steady, files
<1>6. CASE PublishExtracted(p)
  <2>1. stage[p].there  BY <1>6 DEF PublishExtracted, Extracting, Staged, Early
  <2>2. \E pc \in {"checking", "failed", "failing"} : Go(p, pc)  BY <1>6 DEF PublishExtracted
  <2>3. proc'[p].pc \in {"checking", "failed", "failing"}  BY <2>2, GoOn DEF Steps, Ended
  <2>4. dest.there => dest'.there  BY <1>6, <2>1 DEF PublishExtracted
  <2> QED  BY <1>2, <1>6, <2>3, <2>4 DEF PublishExtracted, Steady, Early
<1>7. CASE CheckExtracted(p)
  <2>1. \E pc \in {"ok", "failed"} : Go(p, pc)  BY <1>7 DEF CheckExtracted
  <2>2. proc'[p].pc \in {"ok", "failed"}  BY <2>1, GoOn DEF Steps, Ended
  <2> QED  BY <1>2, <1>7, <2>2 DEF CheckExtracted, files, Steady, Early
<1> QED  BY <1>3, <1>4, <1>5, <1>6, <1>7 DEF Unpack

LEMMA StopSteady ==
  ASSUME PInv, NEW p \in Procs, IOFails(p) \/ Kill(p)
  PROVE  Steady(p)
<1>1. \E pc \in {"failing", "killed"} : Go(p, pc)  BY DEF IOFails, Kill
<1>2. proc'[p].pc \in {"failing", "killed"} /\ \A q \in Procs \ {p} : proc'[q] = proc[q]
  BY <1>1, GoOn DEF PInv, Steps, Ended
<1> QED  BY <1>2 DEF IOFails, Kill, files, Steady, Early

(* The four steps of the swap.                                              *)
LEMMA SwapKeeps ==
  ASSUME PInv, NEW p \in Procs, Swap(p)
  PROVE  Inner' /\ (Held # {} => Held' # {})
<1>0. \E pc \in {"installing", "failing", "forgetting", "ok"} : Go(p, pc) \/ Leave(p, pc)
  BY DEF Swap, MoveAside, Install, RollBack, ForgetOld
<1>1. \A q \in Procs \ {p} : proc'[q] = proc[q]
  BY <1>0, GoOn DEF PInv, Steps, Ended
<1>2. \A pc \in Steps : Go(p, pc) \/ Leave(p, pc) => proc'[p].pc = pc  BY GoOn DEF PInv
<1>3. CASE MoveAside(p)
  <2>1. CASE ~dest.there
    <3>1. proc'[p].pc = "failing"  BY <1>2, <1>3, <2>1 DEF MoveAside, Steps
    <3>2. Steady(p)  BY <1>1, <1>3, <2>1, <3>1 DEF MoveAside, Steady, Early
    <3> QED  BY <3>2, SteadyKeeps
  <2>2. CASE dest.there
    <3>1. proc'[p].pc = "installing"  BY <1>2, <1>3, <2>2 DEF MoveAside, Steps
    <3>2. old'[p].there /\ \A q \in Procs \ {p} : old'[q] = old[q]
      BY <1>3, <2>2 DEF MoveAside, PInv, TypeOK
    <3>3. stage[p].there  BY <1>3 DEF MoveAside, At, PInv, Staged, Early
    <3>4. Staged'  BY <1>1, <1>3, <3>3 DEF MoveAside, PInv, Staged
    <3>5. Aside'  BY <1>1, <3>1, <3>2 DEF PInv, Aside
    <3>6. Replaced'  BY <3>1, <3>2 DEF Replaced, Another
    <3>7. Held' # {}  BY <3>2 DEF Held
    <3> QED  BY <3>4, <3>5, <3>6, <3>7 DEF Inner
  <2> QED  BY <2>1, <2>2
<1>4. CASE Install(p)
  <2>1. proc'[p].pc = "forgetting"  BY <1>2, <1>4 DEF Install, Steps
  <2>2. dest'.there /\ old' = old  BY <1>4 DEF Install, At, PInv, Staged, Early
  <2>3. \A q \in Procs \ {p} : stage'[q] = stage[q]  BY <1>4 DEF Install, PInv, TypeOK
  <2>4. Staged'  BY <1>1, <2>1, <2>3 DEF PInv, Staged, Early
  <2>5. Aside'  BY <1>1, <2>1, <2>2 DEF PInv, Aside
  <2>6. Replaced' /\ Held' # {}  BY <2>2 DEF Replaced, Another, Held
  <2> QED  BY <2>4, <2>5, <2>6 DEF Inner
<1>5. CASE RollBack(p)
  <2>1. proc'[p].pc = "failing"  BY <1>2, <1>5 DEF RollBack, Steps
  <2>2. old[p].there /\ proc[p].pc = "installing"  BY <1>5 DEF RollBack, At, PInv, Aside
  <2>3. \A q \in Procs \ {p} : old'[q] = old[q]  BY <1>5 DEF RollBack, PInv, TypeOK
  <2>4. Staged'  BY <1>1, <1>5, <2>1 DEF RollBack, PInv, Staged, Early
  <2>5. Aside'  BY <1>1, <2>1, <2>3 DEF PInv, Aside
  <2>6. dest'.there \/ (old'[p].there /\ proc'[p].pc # "forgetting")
    BY <1>5, <2>1, <2>2 DEF RollBack
  <2>7. Replaced' /\ Held' # {}  BY <2>6 DEF Replaced, Another, Held
  <2> QED  BY <2>4, <2>5, <2>7 DEF Inner
<1>6. CASE ForgetOld(p)
  <2>1. proc'[p].pc = "ok"  BY <1>2, <1>6 DEF ForgetOld, Steps, Ended
  <2>2. \A q \in Procs \ {p} : old'[q] = old[q]  BY <1>6 DEF ForgetOld, PInv, TypeOK
  <2>3. PICK d \in Procs : dest.there \/ (old[d].there /\ proc[d].pc # "forgetting")
    BY <1>6 DEF ForgetOld, At, PInv, Replaced, Another
  <2>4. dest'.there \/ (old'[d].there /\ proc'[d].pc # "forgetting")
    BY <1>1, <1>6, <2>2, <2>3 DEF ForgetOld, At
  <2>5. Replaced' /\ Held' # {}  BY <2>4 DEF Replaced, Another, Held
  <2>6. Staged'  BY <1>1, <1>6, <2>1 DEF ForgetOld, PInv, Staged, Early
  <2>7. Aside'  BY <1>1, <2>1, <2>2 DEF PInv, Aside
  <2> QED  BY <2>5, <2>6, <2>7 DEF Inner
<1> QED  BY <1>3, <1>4, <1>5, <1>6 DEF Swap

LEMMA Step ==
  ASSUME PInv, [Next]_vars
  PROVE  PInv' /\ (Held # {} => Held' # {})
<1>1. TypeOK'  BY NextTypes DEF PInv
<1>2. Inner' /\ (Held # {} => Held' # {})
  <2>1. CASE UNCHANGED vars
    BY <2>1 DEF vars, PInv, Inner, Staged, Aside, Replaced, Another, Held
  <2>2. ASSUME NEW p \in Procs, NEW c \in Commands, Start(p, c)
        PROVE  Inner' /\ (Held # {} => Held' # {})
    BY <2>2, CommandsAssumption, StartSteady, SteadyKeeps
  <2>3. ASSUME NEW p \in Procs, Progress(p)
        PROVE  Inner' /\ (Held # {} => Held' # {})
    BY <2>3, AssembleSteady, PublishSteady, EditSteady, PackSteady, UnpackSteady, SwapKeeps, SteadyKeeps
       DEF Progress
  <2>4. ASSUME NEW p \in Procs, IOFails(p) \/ Kill(p)
        PROVE  Inner' /\ (Held # {} => Held' # {})
    BY <2>4, StopSteady, SteadyKeeps
  <2>5. ASSUME NEW k \in Sources, ChangeSource(k)
        PROVE  Inner' /\ (Held # {} => Held' # {})
    BY <2>5 DEF ChangeSource, files, PInv, Inner, Staged, Aside, Replaced, Another, Held
  <2> QED  BY <2>1, <2>2, <2>3, <2>4, <2>5 DEF Next
<1> QED  BY <1>1, <1>2 DEF PInv, Inner

LEMMA Start0 == Init => PInv
<1> SUFFICES ASSUME Init PROVE PInv  OBVIOUS
<1>1. changes \in 0 .. MaxChanges /\ kills \in 0 .. MaxKills
  BY BoundsAssumption DEF Init
<1>2. TypeOK  BY <1>1, Values DEF Init, TypeOK
<1>3. \A p \in Procs : proc[p].pc = "idle"  BY DEF Init, Idle
<1>4. Staged /\ Aside /\ Replaced  BY <1>3 DEF Staged, Aside, Replaced, Early
<1> QED  BY <1>2, <1>4 DEF PInv

(* The processes, their directories and the packages keep their types for    *)
(* every set of processes, commands and sources (core/musicpack/main.c).     *)
THEOREM PublishingTypes == Spec => []TypeOK
<1>1. PInv => TypeOK  BY DEF PInv
<1>2. PInv /\ [Next]_vars => PInv'  BY Step
<1> QED  BY <1>1, <1>2, Start0, PTL DEF Spec

(* Whatever runs beside it, is killed or fails, an in-place save never       *)
(* leaves the user without a package (main.c:4457).                          *)
THEOREM PublishingKeepsPackages == Spec => PackageSurvives
<1>1. PInv /\ [Next]_vars => PInv'  BY Step
<1>2. PInv /\ [Next]_vars => [Held # {} => Held' # {}]_vars  BY Step
<1> QED  BY <1>1, <1>2, Start0, PTL DEF Spec, PackageSurvives

(* ---- what each process has staged --------------------------------------- *)
(* What is about to be published has been found whole, but for what an       *)
(* unpack has extracted; the rest holds no staging directory, unless its     *)
(* removal failed.                                                           *)
Unused == {"idle", "refused"}
Bare == {"idle", "refused", "ok", "forgetting", "checking"}
Fit(p) ==
  /\ proc[p].pc \in {"publishing", "aside", "installing"} => Whole(stage[p])
  /\ proc[p].cmd = "unpack" /\ proc[p].pc = "copying" => stage[p].manifest # NoManifest
  /\ \/ proc[p].pc \in Bare \/ proc[p].cmd = "update"
     \/ proc[p].pc = "failed" /\ ~proc[p].left
     => ~stage[p].there
  /\ stage[p].there => stage[p].by = p
AllFit == \A p \in Procs : Fit(p)

(* ---- what is published -------------------------------------------------- *)
PackedWhole == packed.there => Whole(packed)
Salvaged(d) == \E p \in Procs :
  d.by = p /\ proc[p].cmd = "unpack" /\ proc[p].pc \notin Unused
HeldWhole == Editing \/ \A d \in Held : Whole(d) \/ Salvaged(d)

(* An edit that runs alone has in memory what it has written.                *)
Alone(p) == \A q \in Procs \ {p} : proc[q].pc \in Unused
LoneEdit == \A p \in Procs : proc[p].cmd = "update" /\ Alone(p) =>
  /\ proc[p].pc = "retag" => Whole(dest) /\ proc[p].sums = dest.manifest
  /\ proc[p].pc \in {"saving", "writing"} => dest.there /\ dest.files = proc[p].sums

(* Only a save moves a package aside, and whoever holds one knows of another *)
(* at the destination, of a save between its two renames, or of one that did *)
(* not get it back.                                                          *)
NeverAside == \A p \in Procs :
  proc[p].pc \in Unused \/ proc[p].cmd = "update" => ~old[p].there
Holding(q) == /\ old[q].there
              /\ \/ proc[q].pc \in {"installing", "killed"}
                 \/ proc[q].left /\ proc[q].pc # "forgetting"
Beside == (\E p \in Procs : old[p].there) => dest.there \/ \E q \in Procs : Holding(q)

(* Whoever has put a package in place has published, and no two of the       *)
(* packages come from one process.                                           *)
Done(p) == proc[p].pc \in {"ok", "forgetting", "checking", "killed"}
           \/ (proc[p].cmd = "unpack" /\ proc[p].pc = "failed")
From(d, p) == d.there /\ d.by = p
Credited == \A p \in Procs :
  From(dest, p) \/ (\E q \in Procs : From(old[q], p)) => Done(p)
Apart ==
  /\ \A p \in Procs : old[p].there /\ dest.there => old[p].by # dest.by
  /\ \A p, q \in Procs : p # q /\ old[p].there /\ old[q].there => old[p].by # old[q].by

Placed == NeverAside /\ Beside /\ Credited /\ Apart
Shown == PackedWhole /\ HeldWhole /\ LoneEdit /\ Placed
QInv == PInv /\ AllFit /\ Shown

(* ---- each step keeps what a process has staged -------------------------- *)
LEMMA OthersFit ==
  ASSUME AllFit, TypeOK, NEW p \in Procs,
         \A q \in Procs \ {p} : proc'[q] = proc[q] /\ stage'[q] = stage[q], Fit(p)'
  PROVE  AllFit'
<1> SUFFICES ASSUME NEW q \in Procs, q # p  PROVE Fit(q)'
  BY DEF AllFit
<1>1. Fit(q) /\ proc'[q] = proc[q] /\ stage'[q] = stage[q]  BY DEF AllFit
<1> QED  BY <1>1 DEF Fit

LEMMA StartFits ==
  ASSUME QInv, NEW p \in Procs, NEW c \in AllCommands, Start(p, c)
  PROVE  AllFit'
<1> USE DEF QInv, PInv
<1>1. \A q \in Procs \ {p} : proc'[q] = proc[q] /\ stage'[q] = stage[q]
  BY DEF TypeOK, Start
<1>2. ~stage[p].there  BY DEF AllFit, Fit, Start, Bare
<1>3. CASE ~Accepts(c)
  <2>1. proc'[p] = [Idle EXCEPT !.cmd = c, !.pc = "refused"] /\ stage' = stage
    BY <1>3 DEF Start, TypeOK
  <2>2. proc'[p].pc = "refused"  BY <2>1 DEF Idle
  <2>3. Fit(p)'  BY <1>2, <2>1, <2>2 DEF Fit
  <2> QED  BY <1>1, <2>3, OthersFit
<1>4. CASE Accepts(c) /\ c = "update"
  <2>1. stage' = stage /\ proc'[p].pc = "retag" /\ proc'[p].cmd = "update"
    BY <1>4 DEF Start, TypeOK, Stages, FirstStep
  <2>2. Fit(p)'  BY <1>2, <2>1 DEF Fit
  <2> QED  BY <1>1, <2>2, OthersFit
<1>5. CASE Accepts(c) /\ c # "update"
  <2>1. /\ stage'[p] = Fresh(p) /\ proc'[p].cmd = c /\ proc'[p].pc = FirstStep(c)
    BY <1>5 DEF Start, TypeOK, Stages
  <2>2. stage'[p].there /\ stage'[p].by = p
    BY <2>1 DEF Fresh, Absent
  <2>3. proc'[p].pc \in {"copying", "listing"} /\ (c = "unpack" => proc'[p].pc = "listing")
    BY <1>5, <2>1 DEF FirstStep
  <2>4. Fit(p)'  BY <1>5, <2>1, <2>2, <2>3 DEF Fit, Bare
  <2> QED  BY <1>1, <2>4, OthersFit
<1> QED  BY <1>3, <1>4, <1>5

LEMMA AssembleFits ==
  ASSUME QInv, NEW p \in Procs, Assemble(p)
  PROVE  AllFit'
<1> USE DEF QInv, PInv
<1>1. proc[p] \in Process /\ stage[p] \in Directories /\ Fit(p)  BY Types DEF AllFit
<1>2. ASSUME NEW k \in Kinds, CopyObject(p, k) PROVE AllFit'
  <2>1. /\ proc[p].pc = "copying" /\ proc[p].cmd \in {"create", "import", "build", "save"}
        /\ \A q \in Procs \ {p} : proc'[q] = proc[q] /\ stage'[q] = stage[q]
    BY <1>2 DEF CopyObject, At, TypeOK
  <2>2. /\ proc'[p].pc \in {"copying", "failing"} /\ proc'[p].cmd = proc[p].cmd
        /\ stage'[p].there = stage[p].there /\ stage'[p].by = stage[p].by
    BY <1>1, <1>2, <2>1 DEF CopyObject, TypeOK, Process, Directories
  <2>3. Fit(p)'  BY <1>1, <2>1, <2>2 DEF Fit, Bare
  <2> QED  BY <2>1, <2>3, OthersFit
<1>3. ASSUME WriteManifest(p) \/ Relist(p) PROVE AllFit'
  <2>1. /\ proc[p].cmd \in {"create", "import", "build", "save"}
        /\ \A q \in Procs \ {p} : proc'[q] = proc[q] /\ stage'[q] = stage[q]
    BY <1>3 DEF WriteManifest, Relist, At, Go, TypeOK
  <2>2. /\ proc'[p].pc \in {"tagging", "verifying"} /\ proc'[p].cmd = proc[p].cmd
        /\ stage'[p].there = stage[p].there /\ stage'[p].by = stage[p].by
    BY <1>1, <1>3 DEF WriteManifest, Relist, Go, TypeOK, Process, Directories
  <2>3. Fit(p)'  BY <1>1, <2>1, <2>2 DEF Fit, Bare
  <2> QED  BY <2>1, <2>3, OthersFit
<1>4. ASSUME SyncTags(p) PROVE AllFit'
  <2>1. /\ proc[p].cmd = "save"
        /\ \A q \in Procs \ {p} : proc'[q] = proc[q] /\ stage'[q] = stage[q]
    BY <1>4 DEF SyncTags, At, Go, TypeOK
  <2>2. /\ proc'[p].pc \in {"listing", "verifying"} /\ proc'[p].cmd = proc[p].cmd
        /\ stage'[p].there = stage[p].there /\ stage'[p].by = stage[p].by
    BY <1>1, <1>4 DEF SyncTags, Go, TypeOK, Process, Directories
  <2>3. Fit(p)'  BY <1>1, <2>1, <2>2 DEF Fit, Bare
  <2> QED  BY <2>1, <2>3, OthersFit
<1>5. ASSUME VerifyStage(p) PROVE AllFit'
  <2>1. /\ stage' = stage /\ proc[p].cmd # "update" /\ stage[p].there
        /\ \A q \in Procs \ {p} : proc'[q] = proc[q]
    BY <1>5 DEF VerifyStage, At, Go, TypeOK, files, Staged, Early
  <2>2. /\ proc'[p].pc \in {"failing", "aside", "publishing"} /\ proc'[p].cmd = proc[p].cmd
        /\ proc'[p].pc # "failing" => Whole(stage[p])
    BY <1>1, <1>5 DEF VerifyStage, Go, TypeOK, Process
  <2>3. Fit(p)'  BY <1>1, <2>1, <2>2 DEF Fit, Bare, Whole
  <2> QED  BY <2>1, <2>3, OthersFit
<1> QED  BY <1>2, <1>3, <1>4, <1>5 DEF Assemble

LEMMA GoesOn ==
  ASSUME TypeOK, NEW p \in Procs, NEW pc, Go(p, pc)
  PROVE  /\ proc'[p].pc = pc /\ proc'[p].cmd = proc[p].cmd
         /\ proc'[p].sums = proc[p].sums /\ proc'[p].left = proc[p].left
         /\ \A q \in Procs \ {p} : proc'[q] = proc[q]
BY DEF TypeOK, Go, Process

LEMMA LeavesOn ==
  ASSUME TypeOK, NEW p \in Procs, NEW pc, Leave(p, pc)
  PROVE  /\ proc'[p].pc = pc /\ proc'[p].cmd = proc[p].cmd
         /\ proc'[p].left
         /\ \A q \in Procs \ {p} : proc'[q] = proc[q]
BY DEF TypeOK, Leave, Process

LEMMA PublishFits ==
  ASSUME QInv, NEW p \in Procs, Publish(p) \/ Swap(p) \/ CleanUp(p)
  PROVE  AllFit'
<1> USE DEF QInv, PInv
<1>1. proc[p] \in Process /\ Fit(p)  BY Types DEF AllFit
<1>2. /\ \A q \in Procs \ {p} : proc'[q] = proc[q] /\ stage'[q] = stage[q]
      /\ proc'[p].cmd = proc[p].cmd
  <2>1. \E pc \in Steps : Go(p, pc) \/ Leave(p, pc)
    BY DEF Publish, Swap, MoveAside, Install, RollBack, ForgetOld, CleanUp, Steps, Ended
  <2>2. stage' = stage \/ stage' = [stage EXCEPT ![p] = Absent]
    BY DEF Publish, Swap, MoveAside, Install, RollBack, ForgetOld, CleanUp
  <2> QED  BY <2>1, <2>2, GoesOn, LeavesOn DEF TypeOK
<1>3. CASE stage' = stage /\ proc'[p].pc \in {"failing", "installing", "ok"}
           /\ (proc'[p].pc = "installing" => proc[p].pc = "aside")
           /\ (proc'[p].pc = "ok" => proc[p].pc = "forgetting")
           /\ proc[p].cmd # "update"
  <2>1. Fit(p)'  BY <1>1, <1>2, <1>3 DEF Fit, Bare
  <2> QED  BY <1>2, <2>1, OthersFit
<1>4. CASE stage'[p] = Absent /\ proc'[p].pc \in {"ok", "forgetting", "failed"}
  <2>1. ~stage'[p].there  BY <1>4 DEF Absent
  <2>2. Fit(p)'  BY <1>4, <2>1 DEF Fit
  <2> QED  BY <1>2, <2>2, OthersFit
<1>5. CASE Publish(p)
  <2>1. CASE ~Vacant
    BY <1>3, <1>5, <2>1, GoesOn DEF Publish, At
  <2>2. CASE Vacant
    <3>1. stage'[p] = Absent  BY <1>5, <2>2 DEF Publish, TypeOK
    <3> QED  BY <1>4, <1>5, <2>2, <3>1, GoesOn DEF Publish
  <2> QED  BY <2>1, <2>2
<1>6. CASE MoveAside(p)
  <2>1. proc'[p].pc \in {"installing", "failing"} /\ stage' = stage
    BY <1>6, GoesOn DEF MoveAside
  <2> QED  BY <1>3, <1>6, <2>1 DEF MoveAside, At
<1>7. CASE Install(p)
  <2>1. stage'[p] = Absent  BY <1>7 DEF Install, TypeOK
  <2> QED  BY <1>4, <1>7, <2>1, GoesOn DEF Install
<1>8. CASE RollBack(p)
  <2>1. proc'[p].pc = "failing" /\ stage' = stage
    BY <1>8, GoesOn, LeavesOn DEF RollBack
  <2> QED  BY <1>3, <1>8, <2>1 DEF RollBack, At
<1>9. CASE ForgetOld(p)
  <2>1. proc'[p].pc = "ok" /\ stage' = stage  BY <1>9, GoesOn, LeavesOn DEF ForgetOld
  <2> QED  BY <1>3, <1>9, <2>1 DEF ForgetOld, At
<1>10. CASE CleanUp(p)
  <2>1. CASE stage' = [stage EXCEPT ![p] = Absent] /\ Go(p, "failed")
    <3>1. stage'[p] = Absent  BY <2>1 DEF TypeOK
    <3> QED  BY <1>4, <2>1, <3>1, GoesOn
  <2>2. CASE UNCHANGED stage /\ Leave(p, "failed")
    <3>1. proc'[p].pc = "failed" /\ proc'[p].left  BY <2>2, LeavesOn
    <3>2. Fit(p)'  BY <1>1, <1>2, <2>2, <3>1 DEF Fit, Bare
    <3> QED  BY <1>2, <3>2, OthersFit
  <2> QED  BY <1>10, <2>1, <2>2 DEF CleanUp
<1> QED  BY <1>5, <1>6, <1>7, <1>8, <1>9, <1>10 DEF Swap

LEMMA EditFits ==
  ASSUME QInv, NEW p \in Procs, Edit(p)
  PROVE  AllFit'
<1> USE DEF QInv, PInv
<1>1. proc[p] \in Process /\ Fit(p)  BY Types DEF AllFit
<1>2. proc[p].cmd = "update" /\ stage' = stage /\ ~stage[p].there
  BY <1>1 DEF Edit, Retag, Truncate, SaveManifest, SaveFails, At, files, Fit
<1>3. /\ proc'[p].pc \in {"saving", "ok", "writing", "failed"} /\ proc'[p].cmd = "update"
      /\ \A q \in Procs \ {p} : proc'[q] = proc[q]
  <2>1. CASE Retag(p)  BY <1>1, <1>2, <2>1 DEF Retag, Go, TypeOK, Process
  <2>2. CASE Truncate(p) \/ SaveManifest(p) \/ SaveFails(p)
    BY <1>2, <2>2, GoesOn DEF Truncate, SaveManifest, SaveFails
  <2> QED  BY <2>1, <2>2 DEF Edit
<1>4. Fit(p)'  BY <1>2, <1>3 DEF Fit
<1> QED  BY <1>2, <1>3, <1>4, OthersFit

(* A list of checksums is not the empty file.                                *)
LEMMA Listing ==
  ASSUME NEW sums \in [Kinds -> Content]
  PROVE  sums # NoManifest
<1>1. "audio" \in DOMAIN sums  BY DEF Kinds
<1>2. DOMAIN NoManifest = {}  BY DEF NoManifest
<1> QED  BY <1>1, <1>2

LEMMA PackFits ==
  ASSUME QInv, NEW p \in Procs, Pack(p)
  PROVE  AllFit'
<1> USE DEF QInv, PInv
<1>1. proc[p] \in Process /\ stage[p] \in Directories /\ Fit(p)  BY Types DEF AllFit
<1>2. ASSUME NEW k \in Kinds, PackMember(p, k) PROVE AllFit'
  <2>1. /\ proc[p].pc = "copying" /\ proc[p].cmd = "pack"
        /\ \A q \in Procs \ {p} : proc'[q] = proc[q] /\ stage'[q] = stage[q]
    BY <1>2 DEF PackMember, At, Go, TypeOK
  <2>2. /\ proc'[p].pc \in {"copying", "failing"} /\ proc'[p].cmd = proc[p].cmd
        /\ stage'[p].there = stage[p].there /\ stage'[p].by = stage[p].by
    BY <1>1, <1>2, <2>1 DEF PackMember, Go, TypeOK, Process, Directories
  <2>3. Fit(p)'  BY <1>1, <2>1, <2>2 DEF Fit, Bare
  <2> QED  BY <2>1, <2>3, OthersFit
<1>3. ASSUME ListMembers(p) PROVE AllFit'
  <2>1. /\ proc[p].pc = "copying" /\ proc[p].cmd = "pack"
        /\ \A q \in Procs \ {p} : proc'[q] = proc[q] /\ stage'[q] = stage[q]
    BY <1>3 DEF ListMembers, At, Go, TypeOK
  <2>2. proc'[p].pc = "verifying" /\ proc'[p].cmd = proc[p].cmd
    BY <1>3, GoesOn DEF ListMembers
  <2>3. /\ stage'[p].there = stage[p].there /\ stage'[p].by = stage[p].by
    BY <1>1, <1>3 DEF ListMembers, TypeOK, Directories
  <2>4. Fit(p)'  BY <1>1, <2>1, <2>2, <2>3 DEF Fit, Bare
  <2> QED  BY <2>1, <2>4, OthersFit
<1>4. CASE PublishFile(p)
  <2>1. stage' = [stage EXCEPT ![p] = Absent] /\ Go(p, "ok")  BY <1>4 DEF PublishFile
  <2>2. /\ \A q \in Procs \ {p} : proc'[q] = proc[q] /\ stage'[q] = stage[q]
        /\ proc'[p].pc = "ok" /\ stage'[p] = Absent
    BY <2>1, GoesOn DEF TypeOK
  <2>3. Fit(p)'  BY <2>2 DEF Fit, Absent
  <2> QED  BY <2>2, <2>3, OthersFit
<1> QED  BY <1>2, <1>3, <1>4 DEF Pack

LEMMA UnpackFits ==
  ASSUME QInv, NEW p \in Procs, Unpack(p)
  PROVE  AllFit'
<1> USE DEF QInv, PInv
<1>1. proc[p] \in Process /\ stage[p] \in Directories /\ Fit(p)  BY Types DEF AllFit
<1>2. /\ \A q \in Procs \ {p} : proc'[q] = proc[q] /\ stage'[q] = stage[q]
      /\ proc[p].cmd = "unpack" /\ proc'[p].cmd = "unpack"
  BY UnpackMoves
<1>3. CASE UnpackManifest(p)
  <2>1. CASE Go(p, "copying")
    <3>1. proc'[p].pc = "copying"  BY <2>1, GoesOn
    <3>2. CASE stage' = [stage EXCEPT ![p].manifest = proc[p].sums]
      <4>1. /\ stage'[p].there = stage[p].there /\ stage'[p].by = stage[p].by
            /\ stage'[p].manifest = proc[p].sums
        BY <1>1, <3>2 DEF TypeOK, Directories
      <4>2. proc[p].sums # NoManifest  BY <1>1, Listing DEF Process
      <4>3. Fit(p)'  BY <1>1, <1>2, <3>1, <4>1, <4>2 DEF Fit, Bare
      <4> QED  BY <1>2, <4>3, OthersFit
    <3>3. CASE stage' # [stage EXCEPT ![p].manifest = proc[p].sums]
      <4>1. proc' = [proc EXCEPT ![p].todo = {}, ![p].pc = "salvaging"]
        BY <1>3, <3>3 DEF UnpackManifest
      <4>2. proc'[p].pc = "salvaging"  BY <1>1, <4>1 DEF TypeOK, Process
      <4> QED  BY <3>1, <4>2
    <3> QED  BY <3>2, <3>3
  <2>2. CASE ~Go(p, "copying")
    <3>1. stage' = stage /\ proc' = [proc EXCEPT ![p].todo = {}, ![p].pc = "salvaging"]
      BY <1>3, <2>2 DEF UnpackManifest
    <3>2. proc'[p].pc = "salvaging"  BY <1>1, <3>1 DEF TypeOK, Process
    <3>3. Fit(p)'  BY <1>1, <1>2, <3>1, <3>2 DEF Fit, Bare
    <3> QED  BY <1>2, <3>3, OthersFit
  <2> QED  BY <2>1, <2>2
<1>4. ASSUME NEW k \in Kinds, UnpackMember(p, k)  PROVE AllFit'
  <2>1. PICK pc \in {proc[p].pc, "salvaging"} : \E content : Extract(p, k, content, pc)
    BY <1>4 DEF UnpackMember
  <2>2. proc'[p].pc = pc  BY <1>1, <2>1 DEF Extract, TypeOK, Process
  <2>3. /\ stage'[p].there = stage[p].there /\ stage'[p].by = stage[p].by
        /\ stage'[p].manifest = stage[p].manifest
    BY <1>1, <2>1 DEF Extract, TypeOK, Directories
  <2>4. proc[p].pc \in {"copying", "salvaging"}  BY <1>4 DEF UnpackMember, Extracting
  <2>5. Fit(p)'  BY <1>1, <1>2, <2>1, <2>2, <2>3, <2>4 DEF Fit, Bare
  <2> QED  BY <1>2, <2>5, OthersFit
<1>5. CASE UnpackBreaksOff(p)
  <2>1. stage' = stage /\ proc'[p].pc = "salvaging"
    BY <1>1, <1>5 DEF UnpackBreaksOff, TypeOK, Process, files
  <2>2. Fit(p)'  BY <1>1, <1>2, <2>1 DEF Fit, Bare
  <2> QED  BY <1>2, <2>2, OthersFit
<1>6. CASE PublishExtracted(p)
  <2>1. CASE Vacant
    <3>1. stage'[p] = Absent  BY <1>6, <2>1 DEF PublishExtracted, TypeOK
    <3>2. proc'[p].pc \in {"checking", "failed"}  BY <1>6, <2>1, GoesOn DEF PublishExtracted
    <3>3. Fit(p)'  BY <3>1, <3>2 DEF Fit, Absent
    <3> QED  BY <1>2, <3>3, OthersFit
  <2>2. CASE ~Vacant
    <3>1. stage' = stage /\ proc'[p].pc = "failing"
      BY <1>6, <2>2, GoesOn DEF PublishExtracted
    <3>2. Fit(p)'  BY <1>1, <1>2, <3>1 DEF Fit, Bare
    <3> QED  BY <1>2, <3>2, OthersFit
  <2> QED  BY <2>1, <2>2
<1>7. CASE CheckExtracted(p)
  <2>1. stage' = stage /\ ~stage[p].there
    BY <1>1, <1>7 DEF CheckExtracted, At, Fit, Bare, files
  <2>2. proc'[p].pc \in {"ok", "failed"}  BY <1>7, GoesOn DEF CheckExtracted
  <2>3. Fit(p)'  BY <2>1, <2>2 DEF Fit
  <2> QED  BY <1>2, <2>3, OthersFit
<1> QED  BY <1>3, <1>4, <1>5, <1>6, <1>7 DEF Unpack

LEMMA StopFits ==
  ASSUME QInv, NEW p \in Procs, IOFails(p) \/ Kill(p)
  PROVE  AllFit'
<1> USE DEF QInv, PInv
<1>1. Fit(p) /\ stage' = stage  BY DEF AllFit, IOFails, Kill, files
<1>2. /\ proc'[p].pc \in {"failing", "killed"} /\ proc'[p].cmd = proc[p].cmd
      /\ \A q \in Procs \ {p} : proc'[q] = proc[q]
  <2>1. \E pc \in {"failing", "killed"} : Go(p, pc)  BY DEF IOFails, Kill
  <2> QED  BY <2>1, GoesOn
<1>3. Fit(p)'  BY <1>1, <1>2 DEF Fit, Bare
<1> QED  BY <1>1, <1>2, <1>3, OthersFit

(* ---- each step keeps what is published ---------------------------------- *)
(* A step of a command other than an edit, already begun: it goes on with    *)
(* the edits that are on, and none is alone beside it.                       *)
Busy(p) ==
  /\ \A q \in Procs \ {p} : proc'[q] = proc[q] /\ old'[q] = old[q]
  /\ proc'[p].cmd = proc[p].cmd /\ proc[p].cmd # "update"
  /\ proc[p].pc \notin Unused /\ proc'[p].pc \notin Unused

LEMMA BusyKeeps ==
  ASSUME QInv, NEW p \in Procs, Busy(p),
         \A d \in Held' : d \in Held \/ Whole(d) \/ Salvaged(d)'
  PROVE  HeldWhole' /\ LoneEdit' /\ NeverAside'
<1> USE DEF QInv, Shown, Placed
<1>1. ASSUME Editing  PROVE Editing'
  <2>1. PICK u \in Procs :
          /\ proc[u].cmd = "update" /\ proc[u].pc \notin {"idle", "refused"}
          /\ ~(proc[u].pc = "ok" /\ \A q \in Procs \ {u} : proc[q].pc \in {"idle", "refused"})
    BY <1>1 DEF Editing
  <2>2. u # p /\ proc'[u] = proc[u]  BY <2>1 DEF Busy
  <2>3. p \in Procs \ {u} /\ proc'[p].pc \notin {"idle", "refused"}  BY <2>2 DEF Busy, Unused
  <2> QED  BY <2>1, <2>2, <2>3 DEF Editing
<1>2. HeldWhole'
  <2>1. CASE Editing  BY <1>1, <2>1 DEF HeldWhole
  <2>2. CASE ~Editing
    <3>1. \A d : Salvaged(d) => Salvaged(d)'  BY DEF Salvaged, Busy
    <3>2. \A d \in Held' : Whole(d) \/ Salvaged(d)'  BY <2>2, <3>1 DEF HeldWhole
    <3> QED  BY <3>2 DEF HeldWhole, Whole
  <2> QED  BY <2>1, <2>2
<1>3. \A r \in Procs : proc'[r].cmd = "update" => ~Alone(r)'
  BY DEF Busy, Alone
<1>4. LoneEdit'  BY <1>3 DEF LoneEdit
<1>5. NeverAside'  BY DEF NeverAside, Busy
<1> QED  BY <1>2, <1>4, <1>5

(* A step that publishes nothing, removes nothing and ends no edit well.     *)
Quiet(p) ==
  /\ dest' = dest /\ packed' = packed /\ old' = old
  /\ \A q \in Procs \ {p} : proc'[q] = proc[q]
  /\ proc'[p].cmd = proc[p].cmd
  /\ proc[p].pc \notin Unused /\ proc'[p].pc \notin Unused
  /\ Done(p) => Done(p)'
  /\ proc[p].pc \in {"installing", "killed"} => proc'[p].pc \in {"installing", "killed"}
  /\ proc[p].left => proc'[p].left /\ proc'[p].pc # "forgetting"
  /\ proc[p].cmd = "update" => proc'[p].pc \in {"failed", "killed"}

LEMMA QuietKeeps ==
  ASSUME QInv, NEW p \in Procs, Quiet(p)
  PROVE  Shown'
<1> USE DEF QInv, Shown, Placed
<1>1. Held' = Held  BY DEF Held, Quiet
<1>2. \A r \in Procs : Done(r) => Done(r)'  BY DEF Quiet, Done
<1>3. Credited' /\ Apart' /\ PackedWhole'
  <2>1. Credited'  BY <1>2 DEF Credited, Quiet, From
  <2>2. Apart' /\ PackedWhole'  BY DEF Apart, PackedWhole, Quiet, Whole
  <2> QED  BY <2>1, <2>2
<1>4. Beside'  BY DEF Beside, Holding, Quiet
<1>5. HeldWhole' /\ LoneEdit' /\ NeverAside'
  <2>1. CASE proc[p].cmd # "update"
    <3>1. Busy(p)  BY <2>1 DEF Quiet, Busy
    <3> QED  BY <1>1, <3>1, BusyKeeps
  <2>2. CASE proc[p].cmd = "update"
    <3>1. Editing'  BY <2>2 DEF Quiet, Editing, Unused
    <3>2. \A r \in Procs : proc'[r].cmd = "update" /\ Alone(r)' => r = p
      BY DEF Quiet, Alone
    <3>3. LoneEdit'  BY <2>2, <3>2 DEF LoneEdit, Quiet
    <3>4. NeverAside'  BY DEF NeverAside, Quiet
    <3> QED  BY <3>1, <3>3, <3>4 DEF HeldWhole
  <2> QED  BY <2>1, <2>2
<1> QED  BY <1>3, <1>4, <1>5

LEMMA AssembleShows ==
  ASSUME QInv, NEW p \in Procs, Assemble(p)
  PROVE  Shown'
<1> USE DEF QInv, PInv
<1>1. proc[p] \in Process  BY Types
<1>2. /\ proc[p].pc \in {"copying", "tagging", "listing", "verifying"} /\ proc[p].cmd # "update"
      /\ UNCHANGED <<dest, packed, old>>
  BY DEF Assemble, CopyObject, WriteManifest, SyncTags, Relist, VerifyStage, At, files
<1>3. /\ \A q \in Procs \ {p} : proc'[q] = proc[q]
      /\ proc'[p].cmd = proc[p].cmd /\ proc'[p].left = proc[p].left
      /\ proc'[p].pc \in {"copying", "tagging", "listing", "verifying", "failing", "aside", "publishing"}
  <2>1. ASSUME NEW k \in Kinds, CopyObject(p, k)
        PROVE  /\ \A q \in Procs \ {p} : proc'[q] = proc[q]
               /\ proc'[p].cmd = proc[p].cmd /\ proc'[p].left = proc[p].left
               /\ proc'[p].pc \in {"copying", "failing"}
    BY <1>1, <2>1 DEF CopyObject, At, TypeOK, Process
  <2>2. CASE WriteManifest(p) \/ Relist(p) \/ VerifyStage(p)
    <3>1. \E pc \in {"tagging", "verifying", "failing", "aside", "publishing"} : Go(p, pc)
      BY <2>2 DEF WriteManifest, Relist, VerifyStage
    <3> QED  BY <3>1, GoesOn
  <2>3. CASE SyncTags(p)
    BY <1>1, <2>3 DEF SyncTags, Go, TypeOK, Process
  <2> QED  BY <2>1, <2>2, <2>3 DEF Assemble
<1>4. Quiet(p)  BY <1>2, <1>3 DEF Quiet, Unused, Done
<1> QED  BY <1>4, QuietKeeps

LEMMA StopShows ==
  ASSUME QInv, NEW p \in Procs, IOFails(p) \/ Kill(p) \/ CleanUp(p)
  PROVE  Shown'
<1> USE DEF QInv, PInv
<1>1. UNCHANGED <<dest, packed, old>>  BY DEF IOFails, Kill, CleanUp, files
<1>2. CASE IOFails(p)
  <2>1. proc[p].pc \in Fallible /\ proc[p].cmd # "update" /\ Go(p, "failing")
    BY <1>2 DEF IOFails, Stages
  <2>2. Quiet(p)  BY <1>1, <2>1, GoesOn DEF Quiet, Unused, Done, Fallible
  <2> QED  BY <2>2, QuietKeeps
<1>3. CASE Kill(p)
  <2>1. proc[p].pc \notin Unused /\ Go(p, "killed")
    BY <1>3 DEF Kill, Running, Ended, Unused
  <2>2. Quiet(p)  BY <1>1, <2>1, GoesOn DEF Quiet, Unused, Done
  <2> QED  BY <2>2, QuietKeeps
<1>4. CASE CleanUp(p)
  <2>1. proc[p].pc = "failing" /\ (Go(p, "failed") \/ Leave(p, "failed"))  BY <1>4 DEF CleanUp
  <2>2. /\ proc'[p].pc = "failed" /\ proc'[p].cmd = proc[p].cmd
        /\ proc[p].left => proc'[p].left
        /\ \A q \in Procs \ {p} : proc'[q] = proc[q]
    BY <2>1, GoesOn, LeavesOn
  <2>3. Quiet(p)  BY <1>1, <2>1, <2>2 DEF Quiet, Unused, Done
  <2> QED  BY <2>3, QuietKeeps
<1> QED  BY <1>2, <1>3, <1>4

(* A staged package that comes to the destination.                           *)
LEMMA Arrives ==
  ASSUME QInv, NEW p \in Procs,
         \/ proc[p].pc \in {"publishing", "installing"} /\ proc[p].cmd # "unpack"
         \/ Extracting(p),
         proc[p].cmd # "update", dest' = stage[p], UNCHANGED <<packed, old>>,
         NEW pc \in {"ok", "forgetting", "checking", "failed"}, Go(p, pc),
         pc = "failed" => proc[p].cmd = "unpack"
  PROVE  Shown'
<1> USE DEF QInv, PInv, Shown, Placed
<1>1. /\ proc'[p].pc = pc /\ proc'[p].cmd = proc[p].cmd
      /\ \A q \in Procs \ {p} : proc'[q] = proc[q]
  BY GoesOn
<1>2. (Whole(dest') \/ Salvaged(dest)') /\ dest'.there /\ dest'.by = p
  <2>1. stage[p].there /\ stage[p].by = p
    BY DEF AllFit, Fit, Staged, Early, Extracting
  <2>2. CASE proc[p].pc \in {"publishing", "installing"}
    BY <2>1, <2>2 DEF AllFit, Fit
  <2>3. CASE Extracting(p)
    <3>1. proc'[p].cmd = "unpack" /\ proc'[p].pc \notin Unused  BY <1>1, <2>3 DEF Extracting, Unused
    <3> QED  BY <2>1, <3>1 DEF Salvaged
  <2> QED  BY <2>1, <2>2, <2>3
<1>3. ~Done(p) /\ Done(p)'  BY <1>1 DEF Done, Extracting
<1>4. \A q \in Procs : ~From(old[q], p)  BY <1>3 DEF Credited
<1>5. Busy(p)  BY <1>1 DEF Busy, Unused, Extracting
<1>6. \A d \in Held' : d \in Held \/ Whole(d) \/ Salvaged(d)'
  <2>1. \A d \in Held' : d = dest' \/ d \in Held  BY DEF Held
  <2> QED  BY <1>2, <2>1
<1>7. HeldWhole' /\ LoneEdit' /\ NeverAside'  BY <1>5, <1>6, BusyKeeps
<1>8. PackedWhole'  BY DEF PackedWhole, Whole
<1>9. Beside'  BY <1>2 DEF Beside
<1>10. Credited'
  <2>1. \A r \in Procs \ {p} : ~From(dest', r) /\ (Done(r) => Done(r)')
    BY <1>1, <1>2 DEF From, Done
  <2> QED  BY <1>3, <2>1 DEF Credited, From
<1>11. Apart'
  <2>1. \A q \in Procs : old[q].there => old[q].by # p  BY <1>4 DEF From
  <2> QED  BY <1>2, <2>1 DEF Apart
<1> QED  BY <1>7, <1>8, <1>9, <1>10, <1>11

LEMMA SwapShows ==
  ASSUME QInv, NEW p \in Procs, Swap(p)
  PROVE  Shown'
<1> USE DEF QInv, PInv, Shown, Placed
<1>0. old \in [Procs -> Directories]  BY DEF TypeOK
<1>1. proc[p].cmd = "save" /\ packed' = packed
  BY DEF Swap, MoveAside, Install, RollBack, ForgetOld, At
<1>2. PackedWhole'  BY <1>1 DEF PackedWhole, Whole
<1>3. ~Absent.there  BY DEF Absent
<1>4. CASE MoveAside(p)
  <2>1. CASE ~dest.there
    <3>1. proc[p].pc = "aside" /\ Go(p, "failing") /\ UNCHANGED <<dest, old>>
      BY <1>4, <2>1 DEF MoveAside, At
    <3>2. Quiet(p)  BY <1>1, <3>1, GoesOn DEF Quiet, Unused, Done
    <3> QED  BY <3>2, QuietKeeps
  <2>2. CASE dest.there
    <3>1. /\ proc[p].pc = "aside" /\ Go(p, "installing")
          /\ old'[p] = dest /\ \A q \in Procs \ {p} : old'[q] = old[q]
          /\ ~dest'.there
      BY <1>0, <1>3, <1>4, <2>2 DEF MoveAside, At
    <3>2. /\ proc'[p].pc = "installing" /\ proc'[p].cmd = proc[p].cmd
          /\ \A q \in Procs \ {p} : proc'[q] = proc[q]
      BY <3>1, GoesOn
    <3>3. Busy(p)  BY <1>1, <3>1, <3>2 DEF Busy, Unused
    <3>4. \A d \in Held' : d \in Held  BY <2>2, <3>1 DEF Held
    <3>5. HeldWhole' /\ LoneEdit' /\ NeverAside'  BY <3>3, <3>4, BusyKeeps
    <3>6. Beside'  BY <2>2, <3>1, <3>2 DEF Beside, Holding
    <3>7. ~Done(p)  BY <1>1, <3>1 DEF Done
    <3>8. Credited'
      <4>1. \A r \in Procs \ {p} : Done(r) => Done(r)'  BY <3>2 DEF Done
      <4>2. \A r \in Procs : ~From(dest', r)  BY <3>1 DEF From
      <4>3. \A r, q \in Procs : From(old'[q], r) => From(dest, r) \/ From(old[q], r)
        BY <3>1
      <4>4. \A r \in Procs : From(dest, r) \/ (\E q \in Procs : From(old[q], r)) => r # p
        BY <3>7 DEF Credited
      <4> QED  BY <4>1, <4>2, <4>3, <4>4 DEF Credited, From
    <3>9. Apart'
      <4>1. \A q \in Procs \ {p} : old[q].there => old[q].by # dest.by  BY <2>2 DEF Apart
      <4>2. ASSUME NEW q \in Procs, NEW r \in Procs, q # r, old'[q].there, old'[r].there
            PROVE  old'[q].by # old'[r].by
        <5>1. CASE q = p  BY <3>1, <4>1, <4>2, <5>1
        <5>2. CASE r = p  BY <3>1, <4>1, <4>2, <5>2
        <5>3. CASE q # p /\ r # p  BY <3>1, <4>2, <5>3 DEF Apart
        <5> QED  BY <5>1, <5>2, <5>3
      <4> QED  BY <3>1, <4>2 DEF Apart
    <3> QED  BY <1>2, <3>5, <3>6, <3>8, <3>9
  <2> QED  BY <2>1, <2>2
<1>5. CASE Install(p)
  <2>1. /\ proc[p].pc = "installing" /\ Go(p, "forgetting") /\ dest' = stage[p]
        /\ UNCHANGED <<packed, old>>
    BY <1>5 DEF Install, At
  <2> QED  BY <1>1, <2>1, Arrives
<1>6. CASE RollBack(p)
  <2>1. proc[p].pc = "installing" /\ old[p].there
    BY <1>6 DEF RollBack, At, Aside
  <2>2. /\ proc'[p].pc = "failing" /\ proc'[p].cmd = proc[p].cmd
        /\ \A q \in Procs \ {p} : proc'[q] = proc[q]
    BY <1>6, GoesOn, LeavesOn DEF RollBack
  <2>3. \/ dest' = dest /\ old' = old /\ (dest.there \/ proc'[p].left)
        \/ /\ dest' = old[p] /\ ~old'[p].there
           /\ \A q \in Procs \ {p} : old'[q] = old[q]
    BY <1>0, <1>3, <1>6, LeavesOn DEF RollBack, Vacant
  <2>4. Busy(p)  BY <1>1, <2>1, <2>2, <2>3 DEF Busy, Unused
  <2>5. dest'.there \/ Holding(p)'  BY <2>1, <2>2, <2>3 DEF Holding
  <2>6. \A d \in Held' : d \in Held  BY <2>1, <2>3 DEF Held
  <2>7. HeldWhole' /\ LoneEdit' /\ NeverAside'  BY <2>4, <2>6, BusyKeeps
  <2>8. Beside'  BY <2>5 DEF Beside
  <2>9. ~Done(p)  BY <1>1, <2>1 DEF Done
  <2>10. Credited'
    <3>1. \A r \in Procs \ {p} : Done(r) => Done(r)'  BY <2>2 DEF Done
    <3>2. \A r \in Procs : From(dest', r) => From(dest, r) \/ From(old[p], r)  BY <2>3
    <3>3. \A r, q \in Procs : From(old'[q], r) => From(old[q], r)  BY <2>3 DEF From
    <3>4. \A r \in Procs : From(dest, r) \/ (\E q \in Procs : From(old[q], r)) => r # p
      BY <2>9 DEF Credited
    <3> QED  BY <3>1, <3>2, <3>3, <3>4 DEF Credited, From
  <2>11. Apart'
    <3>1. ASSUME NEW q \in Procs, old'[q].there, dest'.there  PROVE old'[q].by # dest'.by
      BY <2>3, <2>1, <3>1 DEF Apart
    <3>2. ASSUME NEW q \in Procs, NEW r \in Procs, q # r, old'[q].there, old'[r].there
          PROVE  old'[q].by # old'[r].by
      BY <2>3, <3>2 DEF Apart
    <3> QED  BY <3>1, <3>2 DEF Apart
  <2> QED  BY <1>2, <2>7, <2>8, <2>10, <2>11
<1>7. CASE ForgetOld(p)
  <2>1. /\ proc[p].pc = "forgetting" /\ dest' = dest
        /\ ~old'[p].there \/ old'[p] = old[p]
        /\ \A q \in Procs \ {p} : old'[q] = old[q]
    BY <1>0, <1>3, <1>7 DEF ForgetOld, At
  <2>2. /\ proc'[p].pc = "ok" /\ proc'[p].cmd = proc[p].cmd
        /\ \A q \in Procs \ {p} : proc'[q] = proc[q]
    BY <1>7, GoesOn, LeavesOn DEF ForgetOld
  <2>3. Busy(p)  BY <1>1, <2>1, <2>2 DEF Busy, Unused
  <2>4. \A d \in Held' : d \in Held  BY <2>1 DEF Held
  <2>5. HeldWhole' /\ LoneEdit' /\ NeverAside'  BY <2>3, <2>4, BusyKeeps
  <2>6. Beside'
    <3> SUFFICES ASSUME NEW r \in Procs, old'[r].there, ~dest'.there
                 PROVE  \E q \in Procs : Holding(q)'
      BY DEF Beside
    <3>1. old[r].there /\ ~dest.there  BY <2>1
    <3>2. PICK q \in Procs : Holding(q)  BY <3>1 DEF Beside
    <3>3. q # p  BY <2>1, <3>2 DEF Holding
    <3> QED  BY <2>1, <2>2, <3>2, <3>3 DEF Holding
  <2>7. Credited'
    <3>1. \A r \in Procs : Done(r) => Done(r)'  BY <2>2 DEF Done
    <3>2. \A r, q \in Procs : From(old'[q], r) => From(old[q], r)  BY <2>1 DEF From
    <3> QED  BY <2>1, <3>1, <3>2 DEF Credited
  <2>8. Apart'
    <3>1. \A q \in Procs : old'[q].there => old'[q] = old[q]  BY <2>1
    <3> QED  BY <2>1, <3>1 DEF Apart
  <2> QED  BY <1>2, <2>5, <2>6, <2>7, <2>8
<1> QED  BY <1>4, <1>5, <1>6, <1>7 DEF Swap

LEMMA PublishShows ==
  ASSUME QInv, NEW p \in Procs, Publish(p)
  PROVE  Shown'
<1> USE DEF QInv, PInv
<1>1. proc[p].pc = "publishing" /\ proc[p].cmd # "update" /\ UNCHANGED <<packed, old>>
  BY DEF Publish, At
<1>2. CASE ~Vacant
  <2>1. Go(p, "failing") /\ dest' = dest  BY <1>2 DEF Publish
  <2>2. proc[p].cmd # "unpack"  BY DEF Publish, At
  <2>3. Quiet(p)  BY <1>1, <2>1, <2>2, GoesOn DEF Quiet, Unused, Done
  <2> QED  BY <2>3, QuietKeeps
<1>3. CASE Vacant
  <2>1. Go(p, "ok") /\ dest' = stage[p]  BY <1>3 DEF Publish
  <2>2. proc[p].cmd # "unpack"  BY DEF Publish, At
  <2> QED  BY <1>1, <2>1, <2>2, Arrives
<1> QED  BY <1>2, <1>3

LEMMA PackShows ==
  ASSUME QInv, NEW p \in Procs, Pack(p)
  PROVE  Shown'
<1> USE DEF QInv, PInv, Shown, Placed
<1>1. proc[p] \in Process  BY Types
<1>2. CASE (\E k \in Kinds : PackMember(p, k)) \/ ListMembers(p)
  <2>1. /\ proc[p].pc = "copying" /\ proc[p].cmd = "pack" /\ UNCHANGED <<dest, packed, old>>
    BY <1>2 DEF PackMember, ListMembers, At
  <2>2. /\ \A q \in Procs \ {p} : proc'[q] = proc[q]
        /\ proc'[p].cmd = proc[p].cmd /\ proc'[p].left = proc[p].left
        /\ proc'[p].pc \in {"copying", "failing", "verifying"}
    <3>1. ASSUME NEW k \in Kinds, PackMember(p, k)
          PROVE  /\ \A q \in Procs \ {p} : proc'[q] = proc[q]
                 /\ proc'[p].cmd = proc[p].cmd /\ proc'[p].left = proc[p].left
                 /\ proc'[p].pc \in {"copying", "failing"}
      BY <1>1, <2>1, <3>1 DEF PackMember, Go, TypeOK, Process
    <3>2. CASE ListMembers(p)  BY <3>2, GoesOn DEF ListMembers
    <3> QED  BY <1>2, <3>1, <3>2
  <2>3. Quiet(p)  BY <2>1, <2>2 DEF Quiet, Unused, Done
  <2> QED  BY <2>3, QuietKeeps
<1>3. CASE PublishFile(p)
  <2>1. /\ proc[p].pc = "publishing" /\ proc[p].cmd = "pack" /\ Go(p, "ok")
        /\ packed' = stage[p] /\ UNCHANGED <<dest, old>>
    BY <1>3 DEF PublishFile, At
  <2>2. /\ proc'[p].pc = "ok" /\ proc'[p].cmd = proc[p].cmd /\ proc'[p].left = proc[p].left
        /\ \A q \in Procs \ {p} : proc'[q] = proc[q]
    BY <2>1, GoesOn
  <2>3. PackedWhole'  BY <2>1 DEF PackedWhole, AllFit, Fit, Whole
  <2>4. Busy(p) /\ Held' = Held  BY <2>1, <2>2 DEF Busy, Unused, Held
  <2>5. HeldWhole' /\ LoneEdit' /\ NeverAside'  BY <2>4, BusyKeeps
  <2>6. Beside'  BY <2>1, <2>2 DEF Beside, Holding
  <2>7. Credited'
    <3>1. \A r \in Procs : Done(r) => Done(r)'  BY <2>2 DEF Done
    <3> QED  BY <2>1, <3>1 DEF Credited, From
  <2>8. Apart'  BY <2>1 DEF Apart
  <2> QED  BY <2>3, <2>5, <2>6, <2>7, <2>8
<1> QED  BY <1>2, <1>3 DEF Pack

LEMMA UnpackShows ==
  ASSUME QInv, NEW p \in Procs, Unpack(p)
  PROVE  Shown'
<1> USE DEF QInv, PInv, Shown, Placed
<1>1. proc[p] \in Process  BY Types
<1>2. /\ \A q \in Procs \ {p} : proc'[q] = proc[q]
      /\ proc[p].cmd = "unpack" /\ proc'[p].cmd = "unpack"
      /\ proc[p].pc \in {"listing", "copying", "salvaging", "checking"}
  BY UnpackMoves
<1>3. ASSUME UNCHANGED <<dest, packed, old>>, proc'[p].left = proc[p].left,
             proc'[p].pc \in {"copying", "salvaging", "failing", "ok", "failed"},
             proc[p].pc = "checking" => proc'[p].pc \in {"ok", "failed"}
      PROVE  Shown'
  <2>1. Quiet(p)  BY <1>2, <1>3 DEF Quiet, Unused, Done
  <2> QED  BY <2>1, QuietKeeps
<1>4. CASE UnpackManifest(p)
  <2>1. proc[p].pc = "listing" /\ UNCHANGED <<dest, packed, old>>
    BY <1>4 DEF UnpackManifest, At
  <2>2. proc'[p].left = proc[p].left /\ proc'[p].pc \in {"copying", "salvaging"}
    BY <1>1, <1>4 DEF UnpackManifest, Go, TypeOK, Process
  <2> QED  BY <1>3, <2>1, <2>2
<1>5. ASSUME NEW k \in Kinds, UnpackMember(p, k)  PROVE Shown'
  <2>1. proc[p].pc \in {"copying", "salvaging"} /\ UNCHANGED <<dest, packed, old>>
    BY <1>5 DEF UnpackMember, Extracting
  <2>2. PICK pc \in {"copying", "salvaging"} : \E content : Extract(p, k, content, pc)
    BY <1>5, <2>1 DEF UnpackMember
  <2>3. proc'[p].left = proc[p].left /\ proc'[p].pc \in {"copying", "salvaging"}
    BY <1>1, <2>2 DEF Extract, TypeOK, Process
  <2> QED  BY <1>3, <2>1, <2>3
<1>6. CASE UnpackBreaksOff(p)
  <2>1. proc[p].pc \in {"copying", "salvaging"} /\ UNCHANGED <<dest, packed, old>>
    BY <1>6 DEF UnpackBreaksOff, Extracting, files
  <2>2. proc'[p].left = proc[p].left /\ proc'[p].pc = "salvaging"
    BY <1>1, <1>6 DEF UnpackBreaksOff, TypeOK, Process
  <2> QED  BY <1>3, <2>1, <2>2
<1>7. CASE PublishExtracted(p)
  <2>1. Extracting(p) /\ proc[p].pc # "checking" /\ UNCHANGED <<packed, old>>
    BY <1>7 DEF PublishExtracted, Extracting
  <2>2. CASE ~Vacant
    <3>1. Go(p, "failing") /\ dest' = dest  BY <1>7, <2>2 DEF PublishExtracted
    <3> QED  BY <1>3, <2>1, <3>1, GoesOn
  <2>3. CASE Vacant
    <3>1. \E pc \in {"checking", "failed"} : Go(p, pc)  BY <1>7, <2>3 DEF PublishExtracted
    <3>2. dest' = stage[p]  BY <1>7, <2>3 DEF PublishExtracted
    <3> QED  BY <1>2, <2>1, <3>1, <3>2, Arrives
  <2> QED  BY <2>2, <2>3
<1>8. CASE CheckExtracted(p)
  <2>1. UNCHANGED <<dest, packed, old>> /\ \E pc \in {"ok", "failed"} : Go(p, pc)
    BY <1>8 DEF CheckExtracted, files
  <2> QED  BY <1>3, <2>1, GoesOn
<1> QED  BY <1>4, <1>5, <1>6, <1>7, <1>8 DEF Unpack

(* A process that starts changes no package; an edit that starts alone finds *)
(* a whole one.                                                              *)
LEMMA StartShows ==
  ASSUME QInv, NEW p \in Procs, NEW c \in AllCommands, Start(p, c)
  PROVE  Shown'
<1> USE DEF QInv, PInv, Shown, Placed
<1>1. /\ proc[p].pc = "idle" /\ UNCHANGED <<dest, packed, old>>
      /\ \A q \in Procs \ {p} : proc'[q] = proc[q]
  BY DEF Start, TypeOK
<1>2. \/ proc'[p].pc = "refused"
      \/ /\ Accepts(c) /\ c # "update" /\ proc'[p].pc \in {"copying", "listing"}
         /\ proc'[p].cmd = c
      \/ /\ Accepts("update") /\ proc'[p].pc = "retag" /\ proc'[p].cmd = "update"
         /\ proc'[p].sums = dest.manifest
  <2>1. CASE ~Accepts(c)  BY <2>1 DEF Start, TypeOK, Idle
  <2>2. CASE Accepts(c) /\ c = "update"
    <3>1. proc'[p].pc = "retag" /\ proc'[p].cmd = "update" /\ proc'[p].sums = dest.manifest
      BY <2>2 DEF Start, TypeOK, FirstStep
    <3> QED  BY <2>2, <3>1
  <2>3. CASE Accepts(c) /\ c # "update"  BY <2>3 DEF Start, TypeOK, FirstStep
  <2> QED  BY <2>1, <2>2, <2>3
<1>3. Held' = Held /\ PackedWhole'  BY <1>1 DEF Held, PackedWhole, Whole
<1>4. ASSUME Editing  PROVE Editing'
  <2>1. PICK u \in Procs :
          /\ proc[u].cmd = "update" /\ proc[u].pc \notin {"idle", "refused"}
          /\ ~(proc[u].pc = "ok" /\ \A q \in Procs \ {u} : proc[q].pc \in {"idle", "refused"})
    BY <1>4 DEF Editing
  <2>2. u # p /\ proc'[u] = proc[u]  BY <1>1, <2>1
  <2>3. ASSUME \A q \in Procs \ {u} : proc'[q].pc \in {"idle", "refused"}
        PROVE  \A q \in Procs \ {u} : proc[q].pc \in {"idle", "refused"}
    BY <1>1, <2>3
  <2> QED  BY <2>1, <2>2, <2>3 DEF Editing
<1>5. HeldWhole'
  <2>1. CASE Editing  BY <1>4, <2>1 DEF HeldWhole
  <2>2. CASE ~Editing
    <3>1. \A d : Salvaged(d) => Salvaged(d)'  BY <1>1 DEF Salvaged, Unused
    <3>2. \A d \in Held' : Whole(d) \/ Salvaged(d)'  BY <1>3, <2>2, <3>1 DEF HeldWhole
    <3> QED  BY <3>2 DEF HeldWhole, Whole
  <2> QED  BY <2>1, <2>2
<1>6. LoneEdit'
  <2> SUFFICES ASSUME NEW r \in Procs, proc'[r].cmd = "update", Alone(r)'
               PROVE  /\ proc'[r].pc = "retag" => Whole(dest)' /\ proc'[r].sums = dest'.manifest
                      /\ proc'[r].pc \in {"saving", "writing"} => dest'.there /\ dest'.files = proc'[r].sums
    BY DEF LoneEdit
  <2>1. CASE r # p
    <3>1. proc'[r] = proc[r] /\ Alone(r)  BY <1>1, <2>1 DEF Alone, Unused
    <3> QED  BY <1>1, <2>1, <3>1 DEF LoneEdit, Whole
  <2>2. CASE r = p /\ proc'[p].pc = "retag"
    <3>1. Accepts("update") /\ proc'[p].sums = dest.manifest  BY <1>2, <2>2
    <3>2. dest.there  BY <3>1 DEF Accepts
    <3>3. \A q \in Procs : proc[q].pc \in Unused  BY <1>1, <2>2 DEF Alone, Unused
    <3>4. ~Editing  BY <3>3 DEF Editing, Unused
    <3>5. Whole(dest)  BY <3>2, <3>3, <3>4 DEF HeldWhole, Held, Salvaged
    <3> QED  BY <1>1, <2>2, <3>1, <3>5 DEF Whole
  <2>3. CASE r = p /\ proc'[p].pc # "retag"  BY <1>2, <2>3
  <2> QED  BY <2>1, <2>2, <2>3
<1>7. NeverAside'  BY <1>1 DEF NeverAside, Unused
<1>8. Beside'
  <2>1. \A q \in Procs : old[q].there => proc'[q] = proc[q]
    BY <1>1 DEF NeverAside, Unused
  <2> QED  BY <1>1, <2>1 DEF Beside, Holding
<1>9. Credited'
  <2>1. \A r \in Procs : Done(r) => Done(r)'  BY <1>1 DEF Done
  <2> QED  BY <1>1, <2>1 DEF Credited, From
<1>10. Apart'  BY <1>1 DEF Apart
<1> QED  BY <1>3, <1>5, <1>6, <1>7, <1>8, <1>9, <1>10

(* An edit that ends well and was alone leaves the package whole; beside     *)
(* another command nothing is claimed.                                       *)
LEMMA EditShows ==
  ASSUME QInv, NEW p \in Procs, Edit(p)
  PROVE  Shown'
<1> USE DEF QInv, PInv, Shown, Placed
<1>1. proc[p] \in Process /\ dest \in Directories  BY Types
<1>2. CASE SaveFails(p)
  <2>1. /\ proc[p].cmd = "update" /\ proc[p].pc \in {"saving", "writing"} /\ Go(p, "failed")
        /\ UNCHANGED <<dest, packed, old>>
    BY <1>2 DEF SaveFails, files
  <2>2. Quiet(p)  BY <2>1, GoesOn DEF Quiet, Unused, Done
  <2> QED  BY <2>2, QuietKeeps
<1>3. CASE Retag(p) \/ Truncate(p) \/ SaveManifest(p)
  <2>1. /\ proc[p].cmd = "update" /\ proc[p].pc \in {"retag", "saving", "writing"}
        /\ UNCHANGED <<packed, old>>
    BY <1>3 DEF Retag, Truncate, SaveManifest, At
  <2>2. dest'.there = dest.there /\ dest'.by = dest.by
    BY <1>1, <1>3 DEF Retag, Truncate, SaveManifest, Directories
  <2>3. /\ proc'[p].cmd = "update" /\ proc'[p].pc \in {"saving", "writing", "ok", "failed"}
        /\ \A q \in Procs \ {p} : proc'[q] = proc[q]
    <3>1. CASE Retag(p)  BY <1>1, <2>1, <3>1 DEF Retag, Go, TypeOK, Process
    <3>2. CASE Truncate(p) \/ SaveManifest(p)
      <4>1. \E pc \in {"writing", "failed", "ok"} : Go(p, pc)
        BY <3>2 DEF Truncate, SaveManifest
      <4> QED  BY <2>1, <4>1, GoesOn
    <3> QED  BY <1>3, <3>1, <3>2
  <2>4. PackedWhole'  BY <2>1 DEF PackedWhole, Whole
  <2>5. ~Done(p)  BY <2>1 DEF Done
  <2>6. Credited'
    <3>1. \A r \in Procs : Done(r) => Done(r)'  BY <2>3, <2>5 DEF Done
    <3> QED  BY <2>1, <2>2, <3>1 DEF Credited, From
  <2>7. Apart'  BY <2>1, <2>2 DEF Apart
  <2>8. NeverAside'  BY <2>1, <2>3 DEF NeverAside, Unused
  <2>9. Beside'
    <3>1. \A q \in Procs : old[q].there => proc'[q] = proc[q]
      BY <2>1, <2>3 DEF NeverAside
    <3> QED  BY <2>1, <2>2, <3>1 DEF Beside, Holding
  <2>10. ASSUME Alone(p), proc'[p].pc \in {"saving", "writing"}
         PROVE  dest'.there /\ dest'.files = proc'[p].sums
    <3>1. CASE Retag(p)
      <4>1. /\ dest' = [dest EXCEPT !.files.audio = Tagged(@)]
            /\ proc' = [proc EXCEPT ![p].sums.audio = Tagged(dest.files.audio), ![p].pc = "saving"]
            /\ proc[p].pc = "retag"
        BY <2>3, <2>10, <3>1, GoesOn DEF Retag, At
      <4>2. dest.there /\ dest.files = proc[p].sums
        BY <2>1, <2>10, <4>1 DEF LoneEdit, Whole
      <4>3. dest'.files = [dest.files EXCEPT !["audio"] = Tagged(dest.files.audio)]
        BY <1>1, <4>1 DEF Directories
      <4>4. proc'[p].sums = [proc[p].sums EXCEPT !["audio"] = Tagged(dest.files.audio)]
        BY <1>1, <4>1 DEF TypeOK, Process
      <4> QED  BY <2>2, <4>2, <4>3, <4>4
    <3>2. CASE Truncate(p)
      <4>1. Go(p, "writing") /\ dest' = [dest EXCEPT !.manifest = NoManifest] /\ proc[p].pc = "saving"
        BY <2>10, <3>2, GoesOn DEF Truncate, At
      <4>2. dest.there /\ dest.files = proc[p].sums  BY <2>1, <2>10, <4>1 DEF LoneEdit
      <4>3. dest'.files = dest.files  BY <1>1, <4>1 DEF Directories
      <4>4. proc'[p].sums = proc[p].sums  BY <1>1, <4>1 DEF Go, TypeOK, Process
      <4> QED  BY <2>2, <4>2, <4>3, <4>4
    <3>3. CASE SaveManifest(p)
      <4>1. proc'[p].pc = "ok"  BY <3>3, GoesOn DEF SaveManifest
      <4> QED  BY <2>10, <4>1
    <3> QED  BY <1>3, <3>1, <3>2, <3>3
  <2>11. LoneEdit'
    <3>1. \A r \in Procs : Alone(r)' => r = p /\ Alone(p)
      BY <2>3 DEF Alone, Unused
    <3> QED  BY <2>3, <2>10, <3>1 DEF LoneEdit
  <2>12. HeldWhole'
    <3>1. CASE proc'[p].pc # "ok" \/ ~Alone(p)
      <4>1. ~(proc'[p].pc = "ok" /\ \A q \in Procs \ {p} : proc'[q].pc \in {"idle", "refused"})
        BY <2>3, <3>1 DEF Alone, Unused
      <4>2. Editing'  BY <2>3, <4>1 DEF Editing
      <4> QED  BY <4>2 DEF HeldWhole
    <3>2. CASE proc'[p].pc = "ok" /\ Alone(p)
      <4>1. \A q \in Procs : ~old'[q].there  BY <2>1, <3>2 DEF NeverAside, Alone
      <4>2. \A d \in Held' : d = dest' /\ dest'.there  BY <4>1 DEF Held
      <4>3. dest'.there => Whole(dest')
        <5>1. CASE Retag(p)
          <6>1. dest' = dest /\ proc[p].pc = "retag"  BY <3>2, <5>1, <1>1 DEF Retag, At, TypeOK, Process
          <6> QED  BY <2>1, <3>2, <6>1 DEF LoneEdit
        <5>2. CASE Truncate(p)
          <6>1. proc'[p].pc \in {"writing", "failed"}  BY <5>2, GoesOn DEF Truncate
          <6> QED  BY <3>2, <6>1
        <5>3. CASE SaveManifest(p)
          <6>1. dest.there /\ dest.files = proc[p].sums
            BY <2>1, <3>2, <5>3 DEF SaveManifest, At, LoneEdit
          <6>2. dest'.there /\ dest'.files = proc[p].sums /\ dest'.manifest = proc[p].sums
            BY <1>1, <5>3, <6>1 DEF SaveManifest, Directories
          <6>3. proc[p].sums # NoManifest
            <7>1. proc[p].sums \in [Kinds -> Content]  BY <1>1 DEF Process
            <7> QED  BY <7>1, Listing
          <6> QED  BY <6>2, <6>3 DEF Whole
        <5> QED  BY <1>3, <5>1, <5>2, <5>3
      <4>4. \A d \in Held' : Whole(d)  BY <4>2, <4>3
      <4> QED  BY <4>4 DEF HeldWhole, Whole
    <3> QED  BY <3>1, <3>2
  <2> QED  BY <2>4, <2>6, <2>7, <2>8, <2>9, <2>11, <2>12
<1> QED  BY <1>2, <1>3 DEF Edit

(* What leaves the packages and the processes alone.                         *)
LEMMA Unmoved ==
  ASSUME QInv, UNCHANGED <<dest, packed, stage, old, proc>>
  PROVE  AllFit' /\ Shown'
<1> USE DEF QInv, Shown, Placed
<1>1. UNCHANGED <<dest, packed, stage, old, proc>>  OBVIOUS
<1>2. AllFit'  BY <1>1 DEF AllFit, Fit, Whole
<1>3. Held' = Held  BY <1>1 DEF Held
<1>4. Editing => Editing'  BY <1>1 DEF Editing
<1>5. HeldWhole'  BY <1>1, <1>3, <1>4 DEF HeldWhole, Whole, Salvaged
<1>6. LoneEdit'  BY <1>1 DEF LoneEdit, Alone, Whole
<1>7. PackedWhole' /\ NeverAside' /\ Beside' /\ Apart'
  BY <1>1 DEF PackedWhole, NeverAside, Beside, Holding, Apart, Whole
<1>8. Credited'  BY <1>1 DEF Credited, From, Done
<1> QED  BY <1>2, <1>5, <1>6, <1>7, <1>8

(* ---- the invariant ------------------------------------------------------ *)
LEMMA QStart == Init => QInv
<1> SUFFICES ASSUME Init  PROVE QInv  OBVIOUS
<1>1. PInv  BY Start0
<1>2. /\ \A p \in Procs : /\ stage[p] = Absent /\ old[p] = Absent /\ proc[p] = Idle
      /\ ~Absent.there /\ Idle.pc = "idle" /\ Idle.cmd = "create"
  BY DEF Init, Absent, Idle
<1>3. AllFit  BY <1>2 DEF AllFit, Fit
<1>4. Whole(Published)
  BY Values, Listing DEF Published, Whole
<1>5. PackedWhole /\ HeldWhole
  <2>1. dest \in {Absent, Published} /\ packed \in {Absent, Published}  BY DEF Init
  <2>2. \A d \in Held : d = Published  BY <1>2, <2>1 DEF Held
  <2> QED  BY <1>2, <1>4, <2>1, <2>2 DEF PackedWhole, HeldWhole
<1>6. LoneEdit  BY <1>2 DEF LoneEdit
<1>7. NeverAside /\ Beside /\ Apart  BY <1>2 DEF NeverAside, Beside, Apart
<1>8. Credited
  <2>1. dest.by = 0  BY DEF Init, Absent, Published
  <2>2. \A p \in Procs : p # 0  BY ProcsAssumption
  <2> QED  BY <1>2, <2>1, <2>2 DEF Credited, From
<1> QED  BY <1>1, <1>3, <1>5, <1>6, <1>7, <1>8 DEF QInv, Shown, Placed

LEMMA QStep == QInv /\ [Next]_vars => QInv'
<1> SUFFICES ASSUME QInv, [Next]_vars  PROVE QInv'  OBVIOUS
<1>1. PInv'  BY Step DEF QInv
<1>2. AllFit' /\ Shown'
  <2>1. CASE UNCHANGED vars
    <3>1. UNCHANGED <<dest, packed, stage, old, proc>>  BY <2>1 DEF vars
    <3> QED  BY <3>1, Unmoved
  <2>2. ASSUME NEW k \in Sources, ChangeSource(k)  PROVE AllFit' /\ Shown'
    <3>1. UNCHANGED <<dest, packed, stage, old, proc>>  BY <2>2 DEF ChangeSource, files
    <3> QED  BY <3>1, Unmoved
  <2>3. ASSUME NEW p \in Procs, NEW c \in Commands, Start(p, c)  PROVE AllFit' /\ Shown'
    BY <2>3, CommandsAssumption, StartFits, StartShows
  <2>4. ASSUME NEW p \in Procs, Progress(p)  PROVE AllFit' /\ Shown'
    <3>1. CASE Assemble(p)  BY <3>1, AssembleFits, AssembleShows
    <3>2. CASE Publish(p)  BY <3>2, PublishFits, PublishShows
    <3>3. CASE Swap(p)  BY <3>3, PublishFits, SwapShows
    <3>4. CASE CleanUp(p)  BY <3>4, PublishFits, StopShows
    <3>5. CASE Edit(p)  BY <3>5, EditFits, EditShows
    <3>6. CASE Pack(p)  BY <3>6, PackFits, PackShows
    <3>7. CASE Unpack(p)  BY <3>7, UnpackFits, UnpackShows
    <3> QED  BY <2>4, <3>1, <3>2, <3>3, <3>4, <3>5, <3>6, <3>7 DEF Progress
  <2>5. ASSUME NEW p \in Procs, IOFails(p) \/ Kill(p)  PROVE AllFit' /\ Shown'
    BY <2>5, StopFits, StopShows
  <2> QED  BY <2>1, <2>2, <2>3, <2>4, <2>5 DEF Next
<1> QED  BY <1>1, <1>2 DEF QInv

(* ---- what an unpack has called complete --------------------------------- *)
(* While nobody edits or saves, what an unpack has put in place stays there, *)
(* and is whole once the unpack has called it a success.                     *)
Reported == \A p \in Procs :
  proc[p].cmd = "unpack" /\ proc[p].pc \in {"checking", "ok"} /\ ~Editing /\ ~Saving =>
    /\ From(dest, p) /\ dest.manifest # NoManifest
    /\ proc[p].pc = "ok" => Whole(dest)

(* A command that has begun goes on with what it is.                         *)
LEMMA Onward ==
  ASSUME TypeOK, NEW p \in Procs, Progress(p) \/ IOFails(p) \/ Kill(p)
  PROVE  /\ \A q \in Procs \ {p} : proc'[q] = proc[q]
         /\ proc'[p].cmd = proc[p].cmd
         /\ proc[p].pc \notin Unused /\ proc'[p].pc \notin Unused
<1>1. proc[p] \in Process  BY Types
<1>2. CASE Publish(p) \/ Swap(p) \/ CleanUp(p) \/ IOFails(p) \/ Kill(p)
  <2>1. \E pc \in Steps \ Unused : Go(p, pc) \/ Leave(p, pc)
    BY <1>2 DEF Publish, Swap, MoveAside, Install, RollBack, ForgetOld, CleanUp, IOFails, Kill,
                Steps, Ended, Unused
  <2>2. proc[p].pc \notin Unused
    BY <1>2 DEF Publish, Swap, MoveAside, Install, RollBack, ForgetOld, CleanUp, IOFails, Kill,
                At, Fallible, Running, Ended, Unused
  <2> QED  BY <2>1, <2>2, GoesOn, LeavesOn
<1>3. CASE Edit(p)
  <2>1. CASE Retag(p)  BY <1>1, <2>1 DEF Retag, At, Go, TypeOK, Process, Unused
  <2>2. CASE Truncate(p) \/ SaveManifest(p) \/ SaveFails(p)
    <3>1. \E pc \in Steps \ Unused : Go(p, pc)
      BY <2>2 DEF Truncate, SaveManifest, SaveFails, Steps, Ended, Unused
    <3>2. proc[p].pc \notin Unused  BY <2>2 DEF Truncate, SaveManifest, SaveFails, At, Unused
    <3> QED  BY <3>1, <3>2, GoesOn
  <2> QED  BY <1>3, <2>1, <2>2 DEF Edit
<1>4. CASE Assemble(p)
  <2>1. ASSUME NEW k \in Kinds, CopyObject(p, k)
        PROVE  /\ \A q \in Procs \ {p} : proc'[q] = proc[q]
               /\ proc'[p].cmd = proc[p].cmd /\ proc'[p].pc \in {"copying", "failing"}
               /\ proc[p].pc = "copying"
    BY <1>1, <2>1 DEF CopyObject, At, TypeOK, Process
  <2>2. CASE SyncTags(p)  BY <1>1, <2>2 DEF SyncTags, At, Go, TypeOK, Process, Unused
  <2>3. CASE WriteManifest(p) \/ Relist(p) \/ VerifyStage(p)
    <3>1. \E pc \in Steps \ Unused : Go(p, pc)
      BY <2>3 DEF WriteManifest, Relist, VerifyStage, Steps, Ended, Unused
    <3>2. proc[p].pc \notin Unused  BY <2>3 DEF WriteManifest, Relist, VerifyStage, At, Unused
    <3> QED  BY <3>1, <3>2, GoesOn
  <2> QED  BY <1>4, <2>1, <2>2, <2>3 DEF Assemble, Unused
<1>5. CASE Pack(p)
  <2>1. ASSUME NEW k \in Kinds, PackMember(p, k)
        PROVE  /\ \A q \in Procs \ {p} : proc'[q] = proc[q]
               /\ proc'[p].cmd = proc[p].cmd /\ proc'[p].pc \in {"copying", "failing"}
               /\ proc[p].pc = "copying"
    BY <1>1, <2>1 DEF PackMember, At, Go, TypeOK, Process
  <2>2. CASE ListMembers(p) \/ PublishFile(p)
    <3>1. \E pc \in Steps \ Unused : Go(p, pc)
      BY <2>2 DEF ListMembers, PublishFile, Steps, Ended, Unused
    <3>2. proc[p].pc \notin Unused  BY <2>2 DEF ListMembers, PublishFile, At, Unused
    <3> QED  BY <3>1, <3>2, GoesOn
  <2> QED  BY <1>5, <2>1, <2>2 DEF Pack, Unused
<1>6. CASE Unpack(p)
  <2>1. \E pc \in {"copying", "salvaging", "checking", "failing", "ok", "failed"} : \E rest :
          Go(p, pc) \/ proc' = [proc EXCEPT ![p].todo = rest, ![p].pc = pc]
    <3>1. CASE UnpackManifest(p)  BY <3>1 DEF UnpackManifest
    <3>2. CASE UnpackBreaksOff(p)  BY <3>2 DEF UnpackBreaksOff
    <3>3. CASE PublishExtracted(p)  BY <3>3 DEF PublishExtracted
    <3>4. CASE CheckExtracted(p)  BY <3>4 DEF CheckExtracted
    <3>5. ASSUME NEW k \in Kinds, UnpackMember(p, k)
          PROVE  \E pc \in {"copying", "salvaging"} : \E rest :
                   proc' = [proc EXCEPT ![p].todo = rest, ![p].pc = pc]
      <4>1. PICK pc \in {"copying", "salvaging"} : \E content : Extract(p, k, content, pc)
        BY <3>5 DEF UnpackMember, Extracting
      <4> QED  BY <4>1 DEF Extract
    <3> QED  BY <1>6, <3>1, <3>2, <3>3, <3>4, <3>5 DEF Unpack
  <2>2. proc'[p].pc \notin Unused  BY <1>1, <2>1 DEF Go, TypeOK, Process, Unused
  <2> QED  BY <1>6, <2>2, UnpackMoves DEF Unused
<1> QED  BY <1>2, <1>3, <1>4, <1>5, <1>6 DEF Progress

(* What is at the destination changes only if rename may replace it, or by a *)
(* save or an edit.                                                          *)
LEMMA Stays ==
  ASSUME NEW p \in Procs, Progress(p) \/ IOFails(p) \/ Kill(p), dest' # dest
  PROVE  \/ Vacant /\ (Publish(p) \/ PublishExtracted(p))
         \/ proc[p].cmd \in {"save", "update"}
<1>1. CASE Assemble(p)
  BY <1>1 DEF Assemble, CopyObject, WriteManifest, SyncTags, Relist, VerifyStage, files
<1>2. CASE Publish(p)  BY <1>2 DEF Publish
<1>3. CASE Swap(p)  BY <1>3 DEF Swap, MoveAside, Install, RollBack, ForgetOld, At
<1>4. CASE Edit(p)  BY <1>4 DEF Edit, Retag, Truncate, SaveManifest, SaveFails, At
<1>5. CASE Pack(p)  BY <1>5 DEF Pack, PackMember, ListMembers, PublishFile
<1>6. CASE Unpack(p)
  BY <1>6 DEF Unpack, UnpackManifest, UnpackMember, UnpackBreaksOff, PublishExtracted,
              CheckExtracted, files
<1>7. CASE CleanUp(p) \/ IOFails(p) \/ Kill(p)  BY <1>7 DEF CleanUp, IOFails, Kill, files
<1> QED  BY <1>1, <1>2, <1>3, <1>4, <1>5, <1>6, <1>7 DEF Progress

(* An edit or a save that is on does not vanish beside a running unpack.     *)
LEMMA StillOn ==
  ASSUME NEW u \in Procs, proc'[u].pc \notin Unused, proc'[u].cmd = "unpack",
         \A q \in Procs : proc[q].pc \notin Unused =>
           proc'[q].cmd = proc[q].cmd /\ proc'[q].pc \notin Unused
  PROVE  (Editing => Editing') /\ (Saving => Saving')
<1>1. Saving => Saving'  BY DEF Saving, Unused
<1>2. ASSUME Editing  PROVE Editing'
  <2>1. PICK q \in Procs : proc[q].cmd = "update" /\ proc[q].pc \notin {"idle", "refused"}
    BY <1>2 DEF Editing
  <2>2. /\ proc'[q].cmd = "update" /\ proc'[q].pc \notin {"idle", "refused"} /\ u # q
    BY <2>1 DEF Unused
  <2> QED  BY <2>2 DEF Editing, Unused
<1> QED  BY <1>1, <1>2

LEMMA ReportedStep ==
  ASSUME QInv, Reported, NEW p \in Procs, Progress(p) \/ IOFails(p) \/ Kill(p)
  PROVE  Reported'
<1> USE DEF QInv, PInv
<1> SUFFICES ASSUME NEW u \in Procs, proc'[u].cmd = "unpack", proc'[u].pc \in {"checking", "ok"},
                    ~Editing', ~Saving'
             PROVE  /\ From(dest', u) /\ dest'.manifest # NoManifest
                    /\ proc'[u].pc = "ok" => Whole(dest')
  BY DEF Reported, Whole
<1>1. /\ \A q \in Procs \ {p} : proc'[q] = proc[q]
      /\ proc'[p].cmd = proc[p].cmd
      /\ proc[p].pc \notin Unused /\ proc'[p].pc \notin Unused
  BY Onward
<1>2. ~Editing /\ ~Saving
  <2>1. \A q \in Procs : proc[q].pc \notin Unused =>
           proc'[q].cmd = proc[q].cmd /\ proc'[q].pc \notin Unused
    BY <1>1
  <2>2. proc'[u].pc \notin Unused  BY DEF Unused
  <2> QED  BY <2>1, <2>2, StillOn
<1>3. proc[p].cmd \notin {"save", "update"}
  <2>1. proc[p].cmd # "save"  BY <1>1, <1>2 DEF Saving, Unused
  <2>2. ASSUME proc[p].cmd = "update"  PROVE FALSE
    <3>1. u # p /\ proc'[u].pc \notin {"idle", "refused"}  BY <1>1, <2>2
    <3> QED  BY <1>1, <2>2, <3>1 DEF Editing, Unused
  <2> QED  BY <2>1, <2>2
<1>4. ASSUME proc[u].cmd = "unpack", proc[u].pc \in {"checking", "ok"},
             proc'[u].pc = "ok" => proc[u].pc = "ok" \/ Whole(dest)
      PROVE  /\ From(dest', u) /\ dest'.manifest # NoManifest
             /\ proc'[u].pc = "ok" => Whole(dest')
  <2>1. From(dest, u) /\ dest.manifest # NoManifest /\ (proc'[u].pc = "ok" => Whole(dest))
    BY <1>2, <1>4 DEF Reported
  <2>2. ~Vacant  BY <2>1 DEF Vacant, From
  <2>3. dest' = dest  BY <1>3, <2>2, Stays
  <2> QED  BY <2>1, <2>3
<1>5. CASE u # p  BY <1>1, <1>4, <1>5
<1>6. CASE u = p
  <2>1. Unpack(p)
    <3>1. proc[p].cmd = "unpack"  BY <1>1, <1>6
    <3>2. ~Assemble(p) /\ ~Publish(p) /\ ~Swap(p) /\ ~Edit(p) /\ ~Pack(p)
      BY <3>1 DEF Assemble, CopyObject, WriteManifest, SyncTags, Relist, VerifyStage, Publish, Swap,
                  MoveAside, Install, RollBack, ForgetOld, Edit, Retag, Truncate, SaveManifest,
                  SaveFails, Pack, PackMember, ListMembers, PublishFile, At
    <3>3. ~CleanUp(p) /\ ~IOFails(p) /\ ~Kill(p)
      BY <1>6, GoesOn, LeavesOn DEF CleanUp, IOFails, Kill
    <3> QED  BY <3>2, <3>3 DEF Progress
  <2>2. proc[p] \in Process  BY Types
  <2>3. CASE UnpackManifest(p) \/ UnpackBreaksOff(p) \/ \E k \in Kinds : UnpackMember(p, k)
    <3>1. \E pc \in {"copying", "salvaging"} : \E rest :
            Go(p, pc) \/ proc' = [proc EXCEPT ![p].todo = rest, ![p].pc = pc]
      <4>1. CASE UnpackManifest(p) \/ UnpackBreaksOff(p)
        BY <4>1 DEF UnpackManifest, UnpackBreaksOff
      <4>2. ASSUME NEW k \in Kinds, UnpackMember(p, k)
            PROVE  \E pc \in {"copying", "salvaging"} : \E rest :
                     proc' = [proc EXCEPT ![p].todo = rest, ![p].pc = pc]
        <5>1. PICK pc \in {"copying", "salvaging"} : \E content : Extract(p, k, content, pc)
          BY <4>2 DEF UnpackMember, Extracting
        <5> QED  BY <5>1 DEF Extract
      <4> QED  BY <2>3, <4>1, <4>2
    <3>2. proc'[p].pc \in {"copying", "salvaging"}  BY <2>2, <3>1 DEF Go, TypeOK, Process
    <3> QED  BY <1>6, <3>2
  <2>4. CASE PublishExtracted(p)
    <3>1. Extracting(p) /\ Fit(p) /\ stage[p].there
      BY <2>4 DEF PublishExtracted, Extracting, AllFit, Staged, Early
    <3>2. Vacant /\ proc[p].pc = "copying" /\ proc'[p].pc = "checking" /\ dest' = stage[p]
      BY <1>6, <2>4, <3>1, GoesOn DEF PublishExtracted, Extracting
    <3> QED  BY <1>6, <3>1, <3>2 DEF Fit, From, Extracting
  <2>5. CASE CheckExtracted(p)
    <3>1. proc[p].cmd = "unpack" /\ proc[p].pc = "checking"  BY <2>5 DEF CheckExtracted, At
    <3>2. proc'[p].pc = "ok" => Whole(dest)  BY <2>5, GoesOn DEF CheckExtracted
    <3> QED  BY <1>4, <1>6, <3>1, <3>2
  <2> QED  BY <2>1, <2>3, <2>4, <2>5 DEF Unpack
<1> QED  BY <1>5, <1>6

LEMMA ReportedHolds == QInv /\ Reported /\ [Next]_vars => Reported'
<1> SUFFICES ASSUME QInv, Reported, [Next]_vars  PROVE Reported'  OBVIOUS
<1>1. CASE UNCHANGED <<dest, proc>>
  BY <1>1 DEF Reported, From, Editing, Saving, Whole
<1>2. ASSUME NEW p \in Procs, NEW c \in Commands, Start(p, c)  PROVE Reported'
  <2>1. /\ proc[p].pc = "idle" /\ dest' = dest
        /\ \A q \in Procs \ {p} : proc'[q] = proc[q]
    BY <1>2 DEF Start, QInv, PInv, TypeOK
  <2>2. proc'[p].pc \notin {"checking", "ok"}
    <3>1. CASE Accepts(c)
      <4>1. proc'[p].pc = FirstStep(c)  BY <1>2, <3>1 DEF Start, QInv, PInv, TypeOK
      <4> QED  BY <4>1 DEF FirstStep
    <3>2. CASE ~Accepts(c)  BY <1>2, <3>2 DEF Start, QInv, PInv, TypeOK, Idle
    <3> QED  BY <3>1, <3>2
  <2> SUFFICES ASSUME NEW u \in Procs, proc'[u].cmd = "unpack", proc'[u].pc \in {"checking", "ok"},
                      ~Editing', ~Saving'
               PROVE  /\ From(dest', u) /\ dest'.manifest # NoManifest
                      /\ proc'[u].pc = "ok" => Whole(dest')
    BY DEF Reported, Whole
  <2>3. u # p /\ proc'[u] = proc[u]  BY <2>1, <2>2
  <2>4. ~Editing /\ ~Saving
    <3>1. \A q \in Procs : proc[q].pc \notin Unused =>
             proc'[q].cmd = proc[q].cmd /\ proc'[q].pc \notin Unused
      BY <2>1 DEF Unused
    <3>2. proc'[u].pc \notin Unused  BY DEF Unused
    <3> QED  BY <3>1, <3>2, StillOn
  <2> QED  BY <2>1, <2>3, <2>4 DEF Reported
<1>3. ASSUME NEW p \in Procs, Progress(p) \/ IOFails(p) \/ Kill(p)  PROVE Reported'
  BY <1>3, ReportedStep
<1>4. ASSUME NEW k \in Sources, ChangeSource(k)  PROVE Reported'
  BY <1>1, <1>4 DEF ChangeSource, files
<1> QED  BY <1>1, <1>2, <1>3, <1>4 DEF Next, vars

RInv == QInv /\ Reported
LEMMA RStart == Init => RInv
<1>1. Init => Reported  BY DEF Init, Idle, Reported
<1> QED  BY <1>1, QStart DEF RInv
LEMMA RStep == RInv /\ [Next]_vars => RInv'
BY QStep, ReportedHolds DEF RInv

(* No directory or file a user can find is half built: the single-file       *)
(* package, the package at the destination and those moved aside have the    *)
(* files their manifests list, with their checksums, for any processes,      *)
(* commands and sources, whatever changes, fails or is killed; an edit in    *)
(* place that has ended well alone included (main.c:199, 6281; mpak.c:1798). *)
(* The exception is what an unpack has saved of a package it could not       *)
(* extract as a whole, which it never calls a success (main.c:6322).         *)
THEOREM PublishedIsWhole == Spec => []PackagesAreWhole
<1>1. RInv => PackagesAreWhole
  <2> SUFFICES ASSUME RInv, ~Editing, NEW d \in Held, ~Whole(d)  PROVE Extraction(d)
    BY DEF RInv, QInv, Shown, PackedWhole, PackagesAreWhole
  <2>1. PICK p \in Procs : d.by = p /\ proc[p].cmd = "unpack"
    BY DEF RInv, QInv, Shown, HeldWhole, Salvaged
  <2>2. ASSUME proc[p].pc = "ok", ~Saving  PROVE FALSE
    <3>1. From(dest, p) /\ Whole(dest)  BY <2>1, <2>2 DEF RInv, Reported
    <3>2. PICK q \in Procs : d = old[q] /\ old[q].there  BY <3>1 DEF Held
    <3> QED  BY <2>1, <3>1, <3>2 DEF RInv, QInv, Shown, Placed, Apart, From
  <2> QED  BY <2>1, <2>2 DEF Extraction
<1> QED  BY <1>1, RStart, RStep, PTL DEF Spec

(* The package at the destination was put there by a command that reported   *)
(* success, that was killed, or that has still to end (main.c:4457, 6281).   *)
THEOREM ReportsTellTheTruth == Spec => []ReportsAreTrue
<1>1. QInv => ReportsAreTrue
  <2> SUFFICES ASSUME QInv, NEW p \in Procs, dest.there, dest.by = p
               PROVE  proc[p].pc \in {"ok", "forgetting", "checking", "killed"}
                      \/ proc[p].cmd = "unpack"
    BY DEF ReportsAreTrue
  <2>1. From(dest, p)  BY DEF From
  <2>2. Done(p)  BY <2>1 DEF QInv, Shown, Placed, Credited
  <2> QED  BY <2>2 DEF Done
<1> QED  BY <1>1, QStart, QStep, PTL DEF Spec

(* What the user can find is finite, and two different packages are two.     *)
LEMMA TwoAreHeld ==
  ASSUME TypeOK, NEW d \in Held, NEW e \in Held, d # e
  PROVE  Cardinality(Held) > 1
<1> DEFINE backups == {old[p] : p \in Procs}
<1>1. IsFiniteSet(Held)
  <2>1. old \in Surjection(Procs, backups)  BY DEF TypeOK, Surjection
  <2>2. IsFiniteSet(backups)  BY <2>1, ProcsAssumption, FS_Surjection
  <2>3. IsFiniteSet(backups \cup {dest})  BY <2>2, FS_AddElement
  <2>4. Held \in SUBSET (backups \cup {dest})  BY DEF Held
  <2> QED  BY <2>3, <2>4, FS_Subset
<1>2. Cardinality(Held) \in Nat  BY <1>1, FS_CardinalityType
<1>3. Cardinality(Held) # 0  BY <1>1, FS_EmptySet
<1>4. Cardinality(Held) # 1
  <2> SUFFICES ASSUME Cardinality(Held) = 1  PROVE FALSE  OBVIOUS
  <2>1. PICK x : Held = {x}  BY <1>1, FS_Singleton
  <2> QED  BY <2>1
<1> QED  BY <1>2, <1>3, <1>4

(* A command that ends by itself leaves no staging directory, and a package  *)
(* moved aside only when another command took the place meanwhile, unless    *)
(* one of its own removals or its renaming back failed (main.c:4457, 4470).  *)
THEOREM NothingIsLeft == Spec => []LeavesNothing
<1>1. QInv => LeavesNothing
  <2> SUFFICES ASSUME QInv, NEW p \in Procs, proc[p].pc \in {"ok", "failed", "refused"},
                      ~proc[p].left
               PROVE  ~stage[p].there /\ (old[p].there => Cardinality(Held) > 1)
    BY DEF LeavesNothing
  <2>1. ~stage[p].there  BY DEF QInv, AllFit, Fit, Bare
  <2>2. ASSUME old[p].there  PROVE Cardinality(Held) > 1
    <3>1. old[p] \in Held  BY <2>2 DEF Held
    <3>2. CASE dest.there
      <4>1. dest \in Held /\ dest # old[p]
        BY <2>2, <3>2 DEF Held, QInv, Shown, Placed, Apart
      <4> QED  BY <3>1, <4>1, TwoAreHeld DEF QInv, PInv
    <3>3. CASE ~dest.there
      <4>1. PICK q \in Procs : Holding(q)
        BY <2>2, <3>3 DEF QInv, Shown, Placed, Beside
      <4>2. q # p /\ old[q].there  BY <4>1 DEF Holding
      <4>3. old[q] \in Held /\ old[q] # old[p]
        BY <2>2, <4>2 DEF Held, QInv, Shown, Placed, Apart
      <4> QED  BY <3>1, <4>3, TwoAreHeld DEF QInv, PInv
    <3> QED  BY <3>2, <3>3
  <2> QED  BY <2>1, <2>2
<1> QED  BY <1>1, QStart, QStep, PTL DEF Spec
=============================================================================
