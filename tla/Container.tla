------------------------------ MODULE Container ------------------------------
(* The single-file package (core/libmusicpack/src/mpak.c): how a directory   *)
(* is packed into it while others write to the directory, what damage does   *)
(* to it afterwards, and what the reader, the verifier and the recovering    *)
(* unpacker make of a damaged file.                                          *)
(*                                                                           *)
(* A file is a sequence of cells, the pieces the format gives a meaning to:  *)
(* the file header, block headers, path preambles, pieces of member bytes,   *)
(* index entries, the manifest, the fixity record.  A block header carries a *)
(* CRC, so a damaged one is no header (a CRC that fits by accident is left   *)
(* out); every other cell can also be changed into another well-formed one.  *)
(* A checksum is the sequence it is taken over.                              *)
EXTENDS Naturals, Sequences, FiniteSets, SequencesExt

CONSTANTS
  Packages,   \* the packages to pack: sequences of assets, each with its path
              \* and content, in the order the manifest is traversed
  Rewrites,   \* the contents writers put into the files of the directory
  Reverts,    \* whether a writer may put back what a file held before
  MaxEdits,   \* bound: changes of the directory
  MaxDamage,  \* bound: pieces of damage to the packed file
  Moves       \* whether damage cuts out and repeats stretches as well

ASSUME DamageAssumption == MaxEdits \in Nat /\ MaxDamage \in Nat
ASSUME SwitchesAssumption == Reverts \in BOOLEAN /\ Moves \in BOOLEAN

VARIABLES
  dir,      \* the directory: its manifest's edition, its files, and what each
            \* of them held before
  pack,     \* the pack command
  file,     \* the packed file
  original, \* the file as packing left it
  spoilt,   \* the cells of the file damaged where they are
  moved,    \* whether damage has moved cells
  edits, damage
vars == <<dir, pack, file, original, spoilt, moved, edits, damage>>

(* ---- cells -------------------------------------------------------------- *)
Magic == [cell |-> "magic", major |-> 1, minor |-> 0]
Header(type, length) == [cell |-> "head", type |-> type, length |-> length]
PathCell(path) == [cell |-> "path", path |-> path]
CountCell(n) == [cell |-> "count", n |-> n]
ManifestCell(edition, assets) ==
  [cell |-> "manifest", edition |-> edition, assets |-> assets]
Noise == [cell |-> "noise"]
Tells(f, i, c) == i \in DOMAIN f /\ f[i].cell = c

(* ---- reading a file ----------------------------------------------------- *)
(* A header counts when its block lies inside the file.                      *)
IsBlock(f, i) == Tells(f, i, "head") /\ i + f[i].length <= Len(f)

(* The scan: where there is no header it tries again one byte further on, so *)
(* it finds the headers inside the bytes of a member whose own is damaged.   *)
RECURSIVE BlocksGivingUp(_, _)
BlocksGivingUp(f, i) ==
  IF i > Len(f) \/ ~IsBlock(f, i) THEN <<>>
  ELSE <<i>> \o BlocksGivingUp(f, i + f[i].length + 1)
RECURSIVE Blocks(_, _)
Blocks(f, i) ==
  IF i > Len(f) THEN <<>>
  ELSE IF IsBlock(f, i) THEN <<i>> \o Blocks(f, i + f[i].length + 1)
  ELSE Blocks(f, i + 1)

(* What the scan has gathered.  "resynced" leaves the last cell out: less    *)
(* than a header at the end of a file goes unremarked.                       *)
Member(f, i) == [path |-> f[i + 1].path, offset |-> i + 2, length |-> f[i].length - 1]
HasPreamble(f, i) == f[i].length >= 1 /\ Tells(f, i + 1, "path")
Scan(f) ==
  LET at == Blocks(f, 2)
      of(type) == SelectSeq(at, LAMBDA i : f[i].type = type)
      data == of("DATA")
      good == SelectSeq(data, LAMBDA i : HasPreamble(f, i))
      all == [k \in DOMAIN good |-> Member(f, good[k])]
      first(k) == \A j \in 1 .. k - 1 : all[j].path # all[k].path
      covered == UNION {i .. i + f[i].length : i \in ToSet(at)}
  IN [members |-> {all[k] : k \in {j \in DOMAIN all : first(j)}},
      repeated |-> \E k \in DOMAIN all : ~first(k),
      skipped |-> Len(good) < Len(data),
      manifests |-> of("MANF"), indexes |-> of("INDX"), tails |-> of("TAIL"),
      resynced |-> ~((2 .. Len(f) - 1) \subseteq covered)]

Bytes(f, m) == SubSeq(f, m.offset, m.offset + m.length - 1)

(* The index is used when it parses and says of the members exactly what the *)
(* scan has found.                                                           *)
EntryAt(f, at, k) == f[at + 1 + k]
ReadsEntry(f, at, k) ==
  Tells(f, at + 1 + k, "entry")
    /\ EntryAt(f, at, k).offset + EntryAt(f, at, k).length <= Len(f) + 1
InOrder(f, at, k) == k = 1 \/ EntryAt(f, at, k - 1).path < EntryAt(f, at, k).path
EntryCount(f, at) == IF Tells(f, at + 1, "count") THEN f[at + 1].n ELSE 0
Parses(f, at) ==
  /\ f[at].length >= 1 /\ Tells(f, at + 1, "count")
  /\ f[at].length = 1 + EntryCount(f, at)
  /\ \A k \in 1 .. EntryCount(f, at) : ReadsEntry(f, at, k) /\ InOrder(f, at, k)
OutOfOrder(f, at) ==
  \E k \in 2 .. EntryCount(f, at) :
    (\A j \in 1 .. k : ReadsEntry(f, at, j)) /\ ~InOrder(f, at, k)
Entries(f, at) == {EntryAt(f, at, k) : k \in 1 .. EntryCount(f, at)}
Agrees(entries, members) ==
  {[path |-> e.path, offset |-> e.offset, length |-> e.length] : e \in entries} = members
Indexed(f, scan) ==
  /\ scan.indexes # <<>>
  /\ Parses(f, scan.indexes[1])
  /\ Agrees(Entries(f, scan.indexes[1]), scan.members)
Index(f, scan) == IF Indexed(f, scan) THEN Entries(f, scan.indexes[1]) ELSE {}

Find(f, scan, path) ==
  {m \in (IF Indexed(f, scan) THEN Index(f, scan) ELSE scan.members) : m.path = path}

(* A reader refuses a member it cannot name and wants one manifest that      *)
(* parses; the unpacker takes what there is.                                 *)
Starts(f) == Tells(f, 1, "magic") /\ f[1].major = 1
Manifest(f, scan) == f[scan.manifests[1] + 1]
Opens(f, scan) ==
  /\ Starts(f) /\ ~scan.skipped
  /\ Len(scan.manifests) = 1
  /\ f[scan.manifests[1]].length = 1 /\ Manifest(f, scan).cell = "manifest"

(* ---- verifying ---------------------------------------------------------- *)
(* Every asset the manifest lists is there with its checksum.                *)
AssetErrorsBySight(f, scan, assets) ==
  {<<"missing", a.path>> : a \in {b \in assets : Find(f, scan, b.path) = {}}}
AssetErrors(f, scan, assets) ==
  {<<"missing", a.path>> : a \in {b \in assets : Find(f, scan, b.path) = {}}}
  \cup {<<"checksum", a.path>> :
          a \in {b \in assets : \E m \in Find(f, scan, b.path) : Bytes(f, m) # b.content}}

IndexErrors(f, scan, assets) ==
  IF scan.indexes = <<>> THEN {}
  ELSE IF ~Indexed(f, scan)
  THEN IF OutOfOrder(f, scan.indexes[1]) THEN {<<"index order", 0>>} ELSE {}
  ELSE {<<"index", a.path>> :
          a \in {b \in assets : \A e \in Find(f, scan, b.path) : e.sha # b.content}}

(* Only the first fixity record counts, and one of a wrong length is put    *)
(* aside with a warning.  The digest covers what comes before it.            *)
Fixity(f, scan) == f[scan.tails[1] + 1]
Malformed(f, scan) == scan.tails # <<>> /\ f[scan.tails[1]].length # 1
TailErrorsBefore(f, scan) ==
  LET tail == Fixity(f, scan)
  IN IF scan.tails = <<>> \/ Malformed(f, scan) THEN {}
     ELSE IF tail.cell # "fixity" \/ tail.digest # SubSeq(f, 1, scan.tails[1] - 1)
     THEN {<<"tail", "digest">>} ELSE {}
TailErrors(f, scan) ==
  LET tail == Fixity(f, scan)
      wrong == [total |-> tail.total # Len(f),
                objects |-> tail.objects # Cardinality(scan.members),
                index |-> tail.index # (IF scan.indexes = <<>> THEN 0 ELSE scan.indexes[1]),
                digest |-> tail.digest # SubSeq(f, 1, scan.tails[1] - 1)]
  IN IF scan.tails = <<>> \/ Malformed(f, scan) THEN {}
     ELSE IF tail.cell # "fixity" THEN {<<"tail", "digest">>}
     ELSE {<<"tail", w>> : w \in {v \in DOMAIN wrong : wrong[v]}}

Errors(f, scan) ==
  LET assets == ToSet(Manifest(f, scan).assets)
  IN AssetErrors(f, scan, assets) \cup IndexErrors(f, scan, assets) \cup TailErrors(f, scan)
       \cup (IF scan.repeated THEN {<<"members", "repeated">>} ELSE {})

Warnings(f, scan) ==
  LET listed == {a.path : a \in ToSet(Manifest(f, scan).assets)}
      says == [minor |-> f[1].minor > 0,
               resynced |-> scan.resynced,
               unreferenced |-> \E m \in scan.members : m.path \notin listed,
               index |-> ~Indexed(f, scan) \/ Len(scan.indexes) > 1,
               tail |-> Len(scan.tails) # 1 \/ Malformed(f, scan)]
  IN {w \in DOMAIN says : says[w]}

(* ---- unpacking ---------------------------------------------------------- *)
(* The unpacker writes every member it finds, sound or not; it compares them *)
(* with the index, if that is to be trusted, and never reads the fixity      *)
(* record.                                                                   *)
Unpacked(f, scan) ==
  [p \in {m.path : m \in scan.members} |->
     Bytes(f, CHOOSE m \in scan.members : m.path = p)]
UnpackErrors(f, scan) ==
  {<<"checksum", e.path>> : e \in {d \in Index(f, scan) : Bytes(f, d) # d.sha}}
  \cup (IF scan.skipped THEN {<<"members", "skipped">>} ELSE {})
UnpackWarningsOfFraming(f, scan) ==
  (IF scan.resynced THEN {"resynced"} ELSE {}) \cup (IF scan.repeated THEN {"repeated"} ELSE {})
UnpackWarnings(f, scan) ==
  LET says == [manifest |-> Len(scan.manifests) # 1,
               repeated |-> scan.repeated,
               resynced |-> scan.resynced,
               index |-> scan.indexes # <<>> /\ ~Indexed(f, scan),
               tail |-> scan.tails = <<>>]
  IN {w \in DOMAIN says : says[w]}

(* ---- packing ------------------------------------------------------------ *)
NoPack == [pc |-> "open", package |-> <<>>, k |-> 0, bytes |-> Noise, sizes |-> <<>>]
NoFile == <<Noise>>  \* the content of a file that is not there
NoDir == [edition |-> 0, files |-> <<>>, held |-> <<>>]
Paths(package) == {package[i].path : i \in DOMAIN package}
ContentIn(package, path) ==
  package[CHOOSE i \in DOMAIN package : package[i].path = path].content

Init ==
  /\ \E p \in Packages :
       /\ pack = [NoPack EXCEPT !.package = p]
       /\ dir = [edition |-> 1, files |-> [a \in Paths(p) |-> ContentIn(p, a)],
                 held |-> [a \in Paths(p) |-> {ContentIn(p, a)}]]
  /\ file = <<>> /\ original = <<>>
  /\ spoilt = {} /\ moved = FALSE
  /\ edits = 0 /\ damage = 0

(* Another program writes to the directory.                                  *)
Edit ==
  /\ pack.pc \notin {"done", "failed"} /\ edits < MaxEdits
  /\ edits' = edits + 1
  /\ \/ dir' = [dir EXCEPT !.edition = 2]
     \/ \E a \in DOMAIN dir.files : \E c \in Rewrites \cup {NoFile} \cup dir.held[a] :
          /\ c # dir.files[a] /\ (Reverts \/ c \notin dir.held[a])
          /\ dir' = [dir EXCEPT !.files[a] = c, !.held[a] = @ \cup {c}]
  /\ UNCHANGED <<pack, file, original, spoilt, moved, damage>>

Holds(k) == dir.files[pack.package[k].path]
Rest == <<dir, original, spoilt, moved, edits, damage>>

(* A pack that fails removes the file it was writing.                        *)
Fail ==
  /\ pack' = [NoPack EXCEPT !.pc = "failed"] /\ file' = <<>> /\ dir' = NoDir
  /\ UNCHANGED <<original, spoilt, moved, edits, damage>>
Goto(pc) == pack' = [pack EXCEPT !.pc = pc, !.k = 1] /\ UNCHANGED <<file, Rest>>

(* The package is opened: its manifest is read.  The two editions list the   *)
(* same assets.                                                              *)
OpenPackage ==
  /\ pack.pc = "open"
  /\ pack' = [pack EXCEPT !.pc = "verify", !.k = 1,
                          !.bytes = ManifestCell(dir.edition, pack.package)]
  /\ UNCHANGED <<file, Rest>>

(* Each asset is hashed and compared with the manifest.                      *)
VerifyAsset ==
  /\ pack.pc = "verify"
  /\ IF pack.k > Len(pack.package) THEN Goto("manifest")
     ELSE IF Holds(pack.k) # pack.package[pack.k].content THEN Fail
     ELSE pack' = [pack EXCEPT !.k = @ + 1] /\ UNCHANGED <<file, Rest>>

(* The manifest is read again, as bytes to store; it must be the one whose   *)
(* assets were verified.                                                     *)
ReadManifest ==
  /\ pack.pc = "manifest"
  /\ IF ManifestCell(dir.edition, pack.package) = pack.bytes THEN Goto("measure") ELSE Fail

(* Sizes fix every offset before the first byte is written.                  *)
Sized == [k \in DOMAIN pack.package |->
            [path |-> pack.package[k].path, content |-> pack.package[k].content,
             size |-> pack.sizes[k]]]
Measure ==
  /\ pack.pc = "measure"
  /\ IF \E k \in DOMAIN pack.package : Holds(k) = NoFile THEN Fail
     ELSE /\ pack' = [pack EXCEPT !.pc = "front",
                                  !.sizes = [k \in DOMAIN pack.package |-> Len(Holds(k))]]
          /\ UNCHANGED <<file, Rest>>

OffsetOf(k) ==
  6 + Len(Sized) + 2 * k + FoldLeft(LAMBDA sum, m : sum + m.size, 0, SubSeq(Sized, 1, k - 1))
Entry(k) == [cell |-> "entry", path |-> Sized[k].path, offset |-> OffsetOf(k),
             length |-> Sized[k].size, sha |-> Sized[k].content]
IndexBlock ==
  <<Header("INDX", 1 + Len(Sized)), CountCell(Len(Sized))>>
    \o SortSeq([k \in DOMAIN Sized |-> Entry(k)], LAMBDA a, b : a.path < b.path)
WriteFront ==
  /\ pack.pc = "front"
  /\ file' = <<Magic>> \o IndexBlock \o <<Header("MANF", 1), pack.bytes>>
  /\ pack' = [pack EXCEPT !.pc = "copy", !.k = 1]
  /\ UNCHANGED Rest

(* A member's header goes by the size measured; its bytes are copied, then   *)
(* the file is hashed once more where it lies.                               *)
CopyMember ==
  /\ pack.pc = "copy" /\ pack.k <= Len(Sized)
  /\ LET m == Sized[pack.k]
     IN IF Holds(pack.k) = NoFile \/ Len(Holds(pack.k)) # m.size THEN Fail
        ELSE /\ file' = file \o <<Header("DATA", 1 + m.size), PathCell(m.path)>> \o Holds(pack.k)
             /\ pack' = [pack EXCEPT !.pc = "rehash"]
             /\ UNCHANGED Rest
CheckMemberSize ==
  /\ pack.pc = "rehash"
  /\ pack' = [pack EXCEPT !.pc = "copy", !.k = @ + 1] /\ UNCHANGED <<file, Rest>>
CheckMember ==
  /\ pack.pc = "rehash"
  /\ IF Holds(pack.k) # Sized[pack.k].content THEN Fail
     ELSE pack' = [pack EXCEPT !.pc = "copy", !.k = @ + 1] /\ UNCHANGED <<file, Rest>>

(* The fixity record closes the file; the directory is not read again.       *)
TailBlock ==
  <<Header("TAIL", 1),
    [cell |-> "fixity", total |-> Len(file) + 2, objects |-> Len(Sized), index |-> 2,
     digest |-> file]>>
WriteTail ==
  /\ pack.pc = "copy" /\ pack.k > Len(Sized)
  /\ file' = file \o TailBlock /\ original' = file'
  /\ pack' = [NoPack EXCEPT !.pc = "done", !.package = pack.package]
  /\ dir' = NoDir /\ edits' = 0
  /\ UNCHANGED <<spoilt, moved, damage>>

(* ---- damage ------------------------------------------------------------- *)
(* What a cell can turn into: noise, or another well-formed cell.            *)
NoSum == <<[cell |-> "none"]>>  \* a checksum of nothing in the file
Altered(c) ==
  CASE c.cell = "magic" -> {[c EXCEPT !.major = 2], [c EXCEPT !.minor = 1]}
    [] c.cell = "path" -> {PathCell(p) : p \in Paths(pack.package) \ {c.path}}
    [] c.cell = "entry" -> {[c EXCEPT !.offset = @ + 1], [c EXCEPT !.sha = NoSum]}
    [] c.cell = "manifest" -> {[c EXCEPT !.edition = 3 - @], [c EXCEPT !.assets[1].content = NoSum]}
    [] c.cell = "fixity" -> {[c EXCEPT !.objects = @ + 1]}
    [] OTHER -> {}
Spoil(i) ==
  \E c \in {Noise} \cup Altered(file[i]) :
    /\ c # file[i]
    /\ file' = [file EXCEPT ![i] = c]
    /\ spoilt' = spoilt \cup {i} /\ UNCHANGED moved
(* Truncation, a lost stretch, a stretch written twice.                      *)
Truncate(n) ==
  file' = SubSeq(file, 1, n) /\ moved' = TRUE /\ UNCHANGED spoilt
CutOut(i, j) ==
  file' = SubSeq(file, 1, i - 1) \o SubSeq(file, j + 1, Len(file))
    /\ moved' = TRUE /\ UNCHANGED spoilt
Repeat(i, j) ==
  file' = SubSeq(file, 1, j) \o SubSeq(file, i, Len(file))
    /\ moved' = TRUE /\ UNCHANGED spoilt
Damage ==
  /\ pack.pc = "done" /\ damage < MaxDamage
  /\ damage' = damage + 1
  /\ \/ \E i \in DOMAIN file : Spoil(i)
     \/ Moves /\ \E n \in 1 .. Len(file) - 1 : Truncate(n)
     \/ Moves /\ \E i \in DOMAIN file : \E j \in i .. Len(file) : CutOut(i, j) \/ Repeat(i, j)
  /\ UNCHANGED <<dir, pack, original, edits>>

Next ==
  \/ Edit \/ OpenPackage \/ VerifyAsset \/ ReadManifest \/ Measure \/ WriteFront
  \/ CopyMember \/ CheckMember \/ WriteTail \/ Damage
Spec == Init /\ [][Next]_vars

(* ---- properties --------------------------------------------------------- *)
(* A pack that succeeds has stored what it verified: whatever others wrote   *)
(* to the directory meanwhile, the new file opens and verifies with nothing  *)
(* to report.                                                                *)
PackedAsVerified ==
  pack.pc = "done" /\ damage = 0 =>
    LET scan == Scan(file)
    IN Opens(file, scan) /\ Errors(file, scan) = {} /\ Warnings(file, scan) = {}

(* A file with a fixity record that verifies without an error is the file    *)
(* that was packed, to the last byte: no damage, in place or by moving       *)
(* stretches, passes for the original.                                       *)
HasFixity(f, scan) == scan.tails # <<>> /\ ~Malformed(f, scan)
DamageIsNoticed ==
  pack.pc = "done" =>
    LET scan == Scan(file)
    IN Opens(file, scan) /\ HasFixity(file, scan) /\ Errors(file, scan) = {} => file = original

(* Verifying and unpacking agree: what verifies without an error unpacks     *)
(* without one, and the unpacked directory holds every asset the manifest    *)
(* lists, with the bytes the manifest vouches for.                           *)
VerifiedUnpacks ==
  pack.pc = "done" =>
    LET scan == Scan(file)
        assets == Manifest(file, scan).assets
    IN Opens(file, scan) /\ Errors(file, scan) = {} =>
         /\ UnpackErrors(file, scan) = {}
         /\ \A k \in DOMAIN assets :
              /\ assets[k].path \in DOMAIN Unpacked(file, scan)
              /\ Unpacked(file, scan)[assets[k].path] = assets[k].content

(* However the rest of a file was damaged in place, the unpacker brings back *)
(* every member whose own block is untouched.  The search for the next       *)
(* header is best-effort only (mpak.c:47-51), and there are two ways to lose *)
(* such a member: a header found inside the bytes of another one claims a    *)
(* stretch that reaches into it, or an earlier block goes by its path.  The  *)
(* unpacker then has something to report.                                    *)
BlockOf(m) == m.offset - 2 .. m.offset + m.length - 1
Untouched(m) == BlockOf(m) \cap spoilt = {}
Before(m) == {i \in 1 .. m.offset - 3 : IsBlock(file, i)}
Swallowed(m) == \E i \in Before(m) : i + file[i].length >= m.offset - 2
Shadowed(m) == \E i \in Before(m) : file[i].type = "DATA" /\ file[i + 1] = PathCell(m.path)
Recovered(m, scan) ==
  m.path \in DOMAIN Unpacked(file, scan) /\ Unpacked(file, scan)[m.path] = Bytes(original, m)
RecoveryKeepsTheWhole ==
  pack.pc = "done" /\ ~moved /\ Starts(file) =>
    LET scan == Scan(file)
    IN \A m \in Scan(original).members :
         Untouched(m) =>
           \/ Recovered(m, scan)
           \/ (Swallowed(m) \/ Shadowed(m)) /\ UnpackWarnings(file, scan) # {}

(* An unpack of a file damaged in place that has nothing to report has       *)
(* written the members that were packed.                                     *)
SilentUnpackIsTrue ==
  pack.pc = "done" /\ ~moved /\ Starts(file) =>
    LET scan == Scan(file)
    IN UnpackErrors(file, scan) = {} /\ UnpackWarnings(file, scan) = {} =>
         Unpacked(file, scan) = Unpacked(original, Scan(original))
==============================================================================
