------------------------------ MODULE Publishing ------------------------------
(* The musicpack command-line tool as a publisher (core/musicpack/main.c):   *)
(* commands that assemble a package in a staging directory beside their      *)
(* destination and rename it into place, the in-place save that swaps the    *)
(* new package with the old one, the edit that writes into a package, and    *)
(* pack and unpack between a directory and a single file.  Several processes *)
(* run at once on one destination; any of them may be killed at any step.    *)
EXTENDS Naturals, Sequences, FiniteSets

CONSTANTS
  Procs,       \* the processes started by the user or by the author app
  Commands,    \* the commands they run
  Sources,     \* the kinds of object the source directory holds
  MaxChanges,  \* bound: changes of the source while commands read it
  MaxKills     \* bound: processes killed

AllCommands == {"create", "import", "build", "save", "update", "pack", "unpack"}
ASSUME BoundsAssumption == MaxChanges \in Nat /\ MaxKills \in Nat
ASSUME CommandsAssumption == Commands \subseteq AllCommands

(* What a command copies.  The commands copy kind by kind in a fixed order,  *)
(* on which nothing here depends: the model leaves it open.  "save" is       *)
(* build-draft with --replace and --sync-tags, which reads the package it is *)
(* to replace.                                                               *)
Kinds == {"audio", "artwork", "booklet", "lyrics", "extras", "sonic", "waveform"}
CreateCopies == {"audio", "artwork"}
ImportCopies == Kinds \ {"sonic", "waveform"}
BuildCopies == Kinds
Copies ==
  [c \in AllCommands |-> CASE c = "create" -> CreateCopies
                          [] c = "import" -> ImportCopies
                          [] c = "update" -> {}
                          [] OTHER -> BuildCopies]
ASSUME SourcesAssumption == Sources \subseteq Kinds
ASSUME ProcsAssumption == IsFiniteSet(Procs) /\ 0 \notin Procs  \* 0 put nothing there

(* The content of an object: the version of its bytes and whether the        *)
(* manifest's metadata has been written into it as tags.  A file cut short   *)
(* by a failing write has bytes of its own.                                  *)
Missing == [version |-> 0, tagged |-> FALSE]
CutShort == [Missing EXCEPT !.version = MaxChanges + 2]
Content == [version : 0 .. MaxChanges + 2, tagged : BOOLEAN]
Nothing == [k \in Kinds |-> Missing]
NoManifest == <<>>  \* a manifest file that is absent, empty or cut short

(* A directory: its files, and the checksums its manifest lists.             *)
Absent == [there |-> FALSE, files |-> Nothing, manifest |-> NoManifest, by |-> 0]
Fresh(p) == [Absent EXCEPT !.there = TRUE, !.by = p]
Whole(d) == d.there /\ d.manifest # NoManifest /\ d.files = d.manifest

VARIABLES
  source,   \* the source directory of create, import and build
  dest,     \* the package directory at the destination
  packed,   \* the single-file package
  stage,    \* per process: its staging directory or file
  old,      \* per process: the package an in-place save has moved aside
  proc,     \* the processes
  changes, kills
files == <<dest, packed, stage, old>>
vars == <<source, dest, packed, stage, old, proc, changes, kills>>

(* left: something the command meant to take away with it is still there,    *)
(* because a removal or the renaming back failed.                            *)
Idle == [cmd |-> "create", pc |-> "idle", todo |-> {}, sums |-> Nothing, from |-> Nothing,
         left |-> FALSE]
Ended == {"ok", "failed", "refused", "killed"}
Running(p) == proc[p].pc \notin Ended \cup {"idle"}
Go(p, pc) == proc' = [proc EXCEPT ![p].pc = pc]
Leave(p, pc) == proc' = [proc EXCEPT ![p].pc = pc, ![p].left = TRUE]
At(p, cmds, pc) == proc[p].cmd \in cmds /\ proc[p].pc = pc

(* ---- starting ---------------------------------------------------------- *)
(* prepare_stage and the checks of build-draft: what the destination must be. *)
Accepts(c) ==
  CASE c \in {"create", "import", "build"} -> ~dest.there
    [] c = "save" -> dest.there
    [] c = "update" -> dest.there /\ dest.manifest # NoManifest
    [] c = "pack" -> ~packed.there /\ Whole(dest)
    [] c = "unpack" -> ~dest.there /\ packed.there /\ packed.manifest # NoManifest

Stages(c) == c # "update"
FirstStep(c) == CASE c = "update" -> "retag" [] c = "unpack" -> "listing" [] OTHER -> "copying"

(* The objects a command means to copy: the scan of the source, the draft,   *)
(* or the manifest of the package it reads.                                  *)
Listed(c) ==
  CASE c \in {"create", "import", "build"} -> Sources
    [] c \in {"save", "update"} -> {k \in Kinds : dest.files[k] # Missing}
    [] c = "pack" -> {k \in Kinds : dest.manifest[k] # Missing}
    [] c = "unpack" -> {k \in Kinds : packed.manifest[k] # Missing}

Start(p, c) ==
  /\ proc[p].pc = "idle"
  /\ IF Accepts(c)
     THEN /\ proc' = [proc EXCEPT ![p] =
                [cmd |-> c, pc |-> FirstStep(c), left |-> FALSE,
                 todo |-> Copies[c] \cap Listed(c),
                 sums |-> IF c \in {"update", "pack"} THEN dest.manifest
                          ELSE IF c = "unpack" THEN packed.manifest ELSE Nothing,
                 from |-> IF c = "unpack" THEN packed.files ELSE Nothing]]
          /\ stage' = IF Stages(c) THEN [stage EXCEPT ![p] = Fresh(p)] ELSE stage
     ELSE /\ proc' = [proc EXCEPT ![p] = [Idle EXCEPT !.cmd = c, !.pc = "refused"]]
          /\ UNCHANGED stage
  /\ UNCHANGED <<source, dest, packed, old, changes, kills>>

(* ---- assembling the package -------------------------------------------- *)
(* A command opens each object as it comes to it; only unpack keeps the one  *)
(* file open that it was given, whatever is renamed over it.                 *)
Origin(p) ==
  CASE proc[p].cmd = "save" -> dest.files
    [] proc[p].cmd = "pack" -> dest.files
    [] proc[p].cmd = "unpack" -> proc[p].from
    [] OTHER -> source

(* An object that cannot be read fails the command, but a sonic document is  *)
(* left out with a warning.                                                  *)
Droppable == {"sonic"}

(* Copy one object and take the checksum of the copy.                        *)
CopyObject(p, k) ==
  LET content == Origin(p)[k] IN
  /\ At(p, {"create", "import", "build", "save"}, "copying") /\ k \in proc[p].todo
  /\ IF content # Missing
     THEN /\ stage' = [stage EXCEPT ![p].files[k] = content]
          /\ proc' = [proc EXCEPT ![p].todo = @ \ {k}, ![p].sums[k] = content]
     ELSE /\ proc' = [proc EXCEPT ![p].todo = @ \ {k},
                                  ![p].pc = IF k \in Droppable THEN "copying" ELSE "failing"]
          /\ UNCHANGED stage
  /\ UNCHANGED <<source, dest, packed, old, changes, kills>>

WriteManifest(p) ==
  /\ At(p, {"create", "import", "build", "save"}, "copying") /\ proc[p].todo = {}
  /\ stage' = [stage EXCEPT ![p].manifest = proc[p].sums]
  /\ Go(p, IF proc[p].cmd = "save" THEN "tagging" ELSE "verifying")
  /\ UNCHANGED <<source, dest, packed, old, changes, kills>>

(* --sync-tags: write the tags of the staged audio that is out of step,      *)
(* refresh its checksum, and write the manifest again.                       *)
(* Mutant: writing a tag counts as a new version of the audio.               *)
TaggedAnew(content) == [version |-> content.version + 1, tagged |-> TRUE]

Tagged(content) == [content EXCEPT !.tagged = TRUE]

(* Mutant: the tags are written to the package being replaced.               *)
SyncTagsInPlace(p) ==
  /\ At(p, {"save"}, "tagging")
  /\ IF stage[p].files.audio \in {Missing, Tagged(stage[p].files.audio)}
     THEN Go(p, "verifying") /\ UNCHANGED dest
     ELSE /\ dest' = [dest EXCEPT !.files.audio = Tagged(@)]
          /\ proc' = [proc EXCEPT ![p].pc = "listing"]
  /\ UNCHANGED <<source, packed, stage, old, changes, kills>>

SyncTags(p) ==
  /\ At(p, {"save"}, "tagging")
  /\ IF stage[p].files.audio \in {Missing, Tagged(stage[p].files.audio)}
     THEN /\ Go(p, "verifying") /\ UNCHANGED stage
     ELSE /\ stage' = [stage EXCEPT ![p].files.audio = Tagged(@)]
          /\ proc' = [proc EXCEPT ![p].sums.audio = Tagged(stage[p].files.audio),
                                  ![p].pc = "listing"]
  /\ UNCHANGED <<source, dest, packed, old, changes, kills>>
Relist(p) ==
  /\ At(p, {"save"}, "listing")
  /\ stage' = [stage EXCEPT ![p].manifest = proc[p].sums]
  /\ Go(p, "verifying")
  /\ UNCHANGED <<source, dest, packed, old, changes, kills>>

VerifyStage(p) ==
  /\ At(p, AllCommands \ {"update", "unpack"}, "verifying")
  /\ Go(p, IF ~Whole(stage[p]) THEN "failing"
           ELSE IF proc[p].cmd = "save" THEN "aside" ELSE "publishing")
  /\ UNCHANGED <<source, files, changes, kills>>

(* ---- publishing -------------------------------------------------------- *)
(* rename replaces no directory that holds files; an empty one it does.      *)
Vacant == ~dest.there \/ (dest.files = Nothing /\ dest.manifest = NoManifest)

(* Mutant: a failure after the rename is still reported as one.              *)
PublishThenFail(p) ==
  /\ At(p, {"create", "import", "build"}, "publishing")
  /\ ~dest.there
  /\ dest' = stage[p] /\ stage' = [stage EXCEPT ![p] = Absent]
  /\ Go(p, "failing")
  /\ UNCHANGED <<source, packed, old, changes, kills>>

Publish(p) ==
  /\ At(p, {"create", "import", "build"}, "publishing")
  /\ IF Vacant
     THEN /\ dest' = stage[p] /\ stage' = [stage EXCEPT ![p] = Absent]
          /\ Go(p, "ok")
     ELSE Go(p, "failing") /\ UNCHANGED <<dest, stage>>
  /\ UNCHANGED <<source, packed, old, changes, kills>>

(* The in-place save: the old package is moved aside, the new one renamed    *)
(* to its place, and the old one removed last.                               *)

(* Mutant: the old package is removed before the new one is in place.        *)
RemoveOldFirst(p) ==
  /\ At(p, {"save"}, "aside")
  /\ dest' = Absent
  /\ Go(p, "installing")
  /\ UNCHANGED <<source, packed, stage, old, changes, kills>>

MoveAside(p) ==
  /\ At(p, {"save"}, "aside")
  /\ IF dest.there
     THEN /\ old' = [old EXCEPT ![p] = dest] /\ dest' = Absent
          /\ Go(p, "installing")
     ELSE Go(p, "failing") /\ UNCHANGED <<old, dest>>
  /\ UNCHANGED <<source, packed, stage, changes, kills>>

Install(p) ==
  /\ At(p, {"save"}, "installing")
  /\ Vacant
  /\ dest' = stage[p] /\ stage' = [stage EXCEPT ![p] = Absent]
  /\ Go(p, "forgetting")
  /\ UNCHANGED <<source, packed, old, changes, kills>>

(* The second rename fails, for a reason of the system's or because another  *)
(* command took the place; the old package is renamed back, which fails if   *)
(* the place is taken and may fail if it is not.                             *)
RollBack(p) ==
  /\ At(p, {"save"}, "installing")
  /\ \/ /\ Vacant
        /\ dest' = old[p] /\ old' = [old EXCEPT ![p] = Absent]
        /\ Go(p, "failing")
     \/ /\ IF Vacant THEN Leave(p, "failing") ELSE Go(p, "failing")
        /\ UNCHANGED <<dest, old>>
  /\ UNCHANGED <<source, packed, stage, changes, kills>>

(* rm_rf of the old package tells nobody how far it came: all of it, some of *)
(* its files (what is left is no package) or none may be gone.  A kill       *)
(* inside it counts as its end.                                              *)
ForgetOld(p) ==
  /\ At(p, {"save"}, "forgetting")
  /\ \/ old' = [old EXCEPT ![p] = Absent] /\ Go(p, "ok")
     \/ old' \in {old, [old EXCEPT ![p] = Absent]} /\ Leave(p, "ok")
  /\ UNCHANGED <<source, dest, packed, stage, changes, kills>>

(* A failed command removes its staging directory and exits.                 *)

(* Mutant: a failed command leaves its staging directory.                    *)
CleanUpNothing(p) ==
  /\ proc[p].pc = "failing"
  /\ Go(p, "failed")
  /\ UNCHANGED <<source, files, changes, kills>>

CleanUp(p) ==
  /\ proc[p].pc = "failing"
  /\ \/ stage' = [stage EXCEPT ![p] = Absent] /\ Go(p, "failed")
     \/ UNCHANGED stage /\ Leave(p, "failed")
  /\ UNCHANGED <<source, dest, packed, old, changes, kills>>

(* ---- update-metadata: an edit of the package itself --------------------- *)
(* Each audio file is tagged in place and its checksum kept in memory.       *)
Retag(p) ==
  LET content == dest.files.audio IN
  /\ At(p, {"update"}, "retag")
  /\ \/ /\ content # Missing
        /\ dest' = [dest EXCEPT !.files.audio = Tagged(@)]
        /\ proc' = [proc EXCEPT ![p].sums.audio = Tagged(content), ![p].pc = "saving"]
     \/ /\ Go(p, "ok")  \* nothing could be tagged or reconciled
        /\ UNCHANGED dest
  /\ UNCHANGED <<source, packed, stage, old, changes, kills>>

(* save_manifest: the manifest file is truncated, then written.              *)
Truncate(p) ==
  /\ At(p, {"update"}, "saving")
  /\ IF dest.there
     THEN /\ dest' = [dest EXCEPT !.manifest = NoManifest] /\ Go(p, "writing")
     ELSE Go(p, "failed") /\ UNCHANGED dest
  /\ UNCHANGED <<source, packed, stage, old, changes, kills>>
SaveManifest(p) ==
  /\ At(p, {"update"}, "writing")
  /\ IF dest.there
     THEN dest' = [dest EXCEPT !.manifest = proc[p].sums]
     ELSE UNCHANGED dest
  /\ Go(p, "ok")
  /\ UNCHANGED <<source, packed, stage, old, changes, kills>>
SaveFails(p) ==
  /\ proc[p].cmd = "update" /\ proc[p].pc \in {"saving", "writing"}
  /\ Go(p, "failed")
  /\ UNCHANGED <<source, files, changes, kills>>

(* ---- pack and unpack --------------------------------------------------- *)
(* A member that no longer has the checksum of the manifest aborts the pack. *)
PackMember(p, k) ==
  LET content == Origin(p)[k] IN
  /\ At(p, {"pack"}, "copying") /\ k \in proc[p].todo
  /\ IF content = proc[p].sums[k]
     THEN /\ stage' = [stage EXCEPT ![p].files[k] = content]
          /\ proc' = [proc EXCEPT ![p].todo = @ \ {k}]
     ELSE Go(p, "failing") /\ UNCHANGED stage
  /\ UNCHANGED <<source, dest, packed, old, changes, kills>>

ListMembers(p) ==
  /\ At(p, {"pack"}, "copying") /\ proc[p].todo = {}
  /\ stage' = [stage EXCEPT ![p].manifest = proc[p].sums]
  /\ Go(p, "verifying")
  /\ UNCHANGED <<source, dest, packed, old, changes, kills>>

(* rename does replace a file.                                               *)
PublishFile(p) ==
  /\ At(p, {"pack"}, "publishing")
  /\ packed' = stage[p] /\ stage' = [stage EXCEPT ![p] = Absent]
  /\ Go(p, "ok")
  /\ UNCHANGED <<source, dest, old, changes, kills>>

(* unpack writes the manifest first; if that fails it extracts nothing.      *)
UnpackManifest(p) ==
  /\ At(p, {"unpack"}, "listing")
  /\ \/ stage' = [stage EXCEPT ![p].manifest = proc[p].sums] /\ Go(p, "copying")
     \/ UNCHANGED stage /\ proc' = [proc EXCEPT ![p].todo = {}, ![p].pc = "salvaging"]
  /\ UNCHANGED <<source, dest, packed, old, changes, kills>>

(* It goes on to the next member when one cannot be written ("salvaging");   *)
(* that the last bytes of one did not reach the disk it may not even notice, *)
(* for the result of fclose is dropped.                                      *)
Extracting(p) == proc[p].cmd = "unpack" /\ proc[p].pc \in {"copying", "salvaging"}
Extract(p, k, content, pc) ==
  /\ stage' = [stage EXCEPT ![p].files[k] = content]
  /\ proc' = [proc EXCEPT ![p].todo = @ \ {k}, ![p].pc = pc]

UnpackMember(p, k) ==
  /\ Extracting(p) /\ k \in proc[p].todo
  /\ \/ \E content \in {Origin(p)[k], CutShort} : Extract(p, k, content, proc[p].pc)
     \/ \E content \in {CutShort, Missing} : Extract(p, k, content, "salvaging")
  /\ UNCHANGED <<source, dest, packed, old, changes, kills>>

(* A member whose directory cannot be made ends the extraction.              *)
UnpackBreaksOff(p) ==
  /\ Extracting(p) /\ proc[p].todo # {}
  /\ proc' = [proc EXCEPT ![p].todo = {}, ![p].pc = "salvaging"]
  /\ UNCHANGED <<source, files, changes, kills>>

(* What was extracted is published, complete or not ("recovery is the        *)
(* point"); the verification afterwards decides only the exit status, which  *)
(* is a failure already when the extraction has noticed one.                 *)
PublishExtracted(p) ==
  /\ Extracting(p) /\ proc[p].todo = {}
  /\ IF Vacant
     THEN /\ dest' = stage[p] /\ stage' = [stage EXCEPT ![p] = Absent]
          /\ Go(p, IF proc[p].pc = "copying" THEN "checking" ELSE "failed")
     ELSE Go(p, "failing") /\ UNCHANGED <<dest, stage>>
  /\ UNCHANGED <<source, packed, old, changes, kills>>
CheckExtracted(p) ==
  /\ At(p, {"unpack"}, "checking")
  /\ (Whole(dest) /\ Go(p, "ok")) \/ Go(p, "failed")
  /\ UNCHANGED <<source, files, changes, kills>>

(* ---- failures and the environment -------------------------------------- *)
(* A read, a write or a rename fails.  To unpack that is the end only before *)
(* the manifest and at the last rename.                                      *)
Fallible == {"copying", "salvaging", "tagging", "listing", "verifying", "publishing", "aside"}
IOFails(p) ==
  /\ Stages(proc[p].cmd) /\ proc[p].pc \in Fallible
  /\ proc[p].cmd = "unpack" => proc[p].pc = "listing" \/ proc[p].todo = {}
  /\ Go(p, "failing")
  /\ UNCHANGED <<source, files, changes, kills>>

Kill(p) ==
  /\ Running(p) /\ kills < MaxKills
  /\ kills' = kills + 1
  /\ Go(p, "killed")
  /\ UNCHANGED <<source, files, changes>>

(* The user changes or removes a source file.                                *)
ChangeSource(k) ==
  /\ changes < MaxChanges
  /\ changes' = changes + 1
  /\ \/ source' = [source EXCEPT ![k].version = changes + 2]
     \/ source' = [source EXCEPT ![k] = Missing]
  /\ UNCHANGED <<files, proc, kills>>

(* ---- the specification ------------------------------------------------- *)
(* The user starts with sources only, with a package at the destination, or  *)
(* with a packed one.                                                        *)
FromSources == [k \in Kinds |-> IF k \in Sources THEN [Missing EXCEPT !.version = 1] ELSE Missing]
Published == [there |-> TRUE, files |-> FromSources, manifest |-> FromSources, by |-> 0]

Init ==
  /\ source = FromSources
  /\ dest \in {Absent, Published}
  /\ packed \in IF dest.there THEN {Absent} ELSE {Absent, Published}
  /\ stage = [p \in Procs |-> Absent]
  /\ old = [p \in Procs |-> Absent]
  /\ proc = [p \in Procs |-> Idle]
  /\ changes = 0 /\ kills = 0

Assemble(p) == (\E k \in Kinds : CopyObject(p, k)) \/ WriteManifest(p) \/ SyncTags(p) \/ Relist(p) \/ VerifyStage(p)
Swap(p) == MoveAside(p) \/ Install(p) \/ RollBack(p) \/ ForgetOld(p)
Edit(p) == Retag(p) \/ Truncate(p) \/ SaveManifest(p) \/ SaveFails(p)
Pack(p) == (\E k \in Kinds : PackMember(p, k)) \/ ListMembers(p) \/ PublishFile(p)
Unpack(p) == UnpackManifest(p) \/ (\E k \in Kinds : UnpackMember(p, k)) \/ UnpackBreaksOff(p)
             \/ PublishExtracted(p) \/ CheckExtracted(p)
Progress(p) == Assemble(p) \/ Publish(p) \/ Swap(p) \/ CleanUp(p) \/ Edit(p) \/ Pack(p) \/ Unpack(p)

Next ==
  \/ \E p \in Procs : (\E c \in Commands : Start(p, c)) \/ Progress(p) \/ IOFails(p) \/ Kill(p)
  \/ \E k \in Sources : ChangeSource(k)

Spec == Init /\ [][Next]_vars

(* ---- properties -------------------------------------------------------- *)
Manifests == [Kinds -> Content] \cup {NoManifest}
Directories == [there : BOOLEAN, files : [Kinds -> Content],
                manifest : Manifests, by : {0} \cup Procs]
Steps == Ended \cup {"idle", "copying", "tagging", "listing", "verifying", "publishing",
                     "aside", "installing", "forgetting", "failing", "retag", "saving",
                     "writing", "salvaging", "checking"}
Process == [cmd : AllCommands, pc : Steps, todo : SUBSET Kinds,
            sums : [Kinds -> Content], from : [Kinds -> Content], left : BOOLEAN]
(* Every variable stays in its type: contents, directories and processes.   *)
TypeOK ==
  /\ source \in [Kinds -> Content]
  /\ dest \in Directories /\ packed \in Directories
  /\ stage \in [Procs -> Directories] /\ old \in [Procs -> Directories]
  /\ proc \in [Procs -> Process]
  /\ changes \in 0 .. MaxChanges /\ kills \in 0 .. MaxKills

(* The packages a user could find: at the destination or moved aside.       *)
Held == {d \in {dest} \cup {old[p] : p \in Procs} : d.there}

(* Only update-metadata writes into a package.  Alone and undisturbed it     *)
(* leaves the package whole.                                                *)
Editing == \E p \in Procs :
  /\ proc[p].cmd = "update" /\ proc[p].pc \notin {"idle", "refused"}
  /\ ~(proc[p].pc = "ok" /\ \A q \in Procs \ {p} : proc[q].pc \in {"idle", "refused"})

(* What an unpack has put in place may be incomplete, but then the unpack    *)
(* has not called it a success; a save that replaces it meanwhile is what it *)
(* would check instead.                                                      *)
Saving == \E p \in Procs : proc[p].cmd = "save" /\ proc[p].pc \notin {"idle", "refused"}
Extraction(d) == \E p \in Procs :
  d.by = p /\ proc[p].cmd = "unpack" /\ (proc[p].pc = "ok" => Saving)

(* A package is never seen half built: what the destination, a backup or the *)
(* single file holds is complete and carries the checksums of its own files, *)
(* although sources and the directory being packed change while they are     *)
(* read, anything may fail and any process may be killed (main.c:199,        *)
(* main.c:6281, mpak.c:1798).  Only unpack publishes what it could save of a *)
(* package, and then reports that it failed (main.c:6322).                   *)
PackagesAreWhole ==
  /\ packed.there => Whole(packed)
  /\ Editing \/ \A d \in Held : Whole(d) \/ Extraction(d)

(* A package, once published, is never lost: at every step of an in-place    *)
(* save, also of two at once, killed or failing, it is at the destination or *)
(* aside (main.c:4457, the old package is removed only after the swap).      *)
PackageSurvives == [][Held # {} => Held' # {}]_vars

(* What a command reports is true of the destination: the package that is    *)
(* there was put there by a command that reported success, or was killed or  *)
(* is still ending, or by an unpack, which reports what it found.            *)
ReportsAreTrue ==
  \A p \in Procs :
    dest.there /\ dest.by = p =>
      proc[p].pc \in {"ok", "forgetting", "checking", "killed"} \/ proc[p].cmd = "unpack"

(* A command that ends by itself, and whose removals and renaming back did   *)
(* not fail, leaves no staging behind, and leaves a backup only when its     *)
(* place was taken while it saved (main.c:4470, main.c:4485).                *)
LeavesNothing ==
  \A p \in Procs :
    proc[p].pc \in {"ok", "failed", "refused"} /\ ~proc[p].left =>
      ~stage[p].there /\ (old[p].there => Cardinality(Held) > 1)

(* "The CLI refuses to overwrite an existing output, so no silent clobbering *)
(* occurs" (author_service.rs:612).                                          *)
PackRefusesToOverwrite == [][packed.there => packed' = packed]_vars
=============================================================================
