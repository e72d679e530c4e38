-------------------------- MODULE RangeReaderProofs --------------------------
(* Proof that a reader over HTTP never returns a byte of another offset or   *)
(* of another version, and that the server answers a range with the bytes it *)
(* names: for any sizes, blocks, caches and readers, whatever is replaced,   *)
(* rescanned, lost or answered wrongly in between.                           *)
EXTENDS RangeReader, Integers, TLAPS

(* A server that leaves the total out is asked for the first bytes twice,    *)
(* and the second answer is not checked for where it begins.                 *)
Careful == \A s \in Servers : s.totals \/ ~s.strays

(* ---- the invariant ------------------------------------------------------ *)
FileBytes == [version : Nat, at : Nat]
States == {"none", "probe", "refetch", "open", "failed", "refused"}
Begun == session.state \in {"open", "failed"}
Blocks == [base : Nat \cup {NoBlock}, data : [1 .. Block -> FileBytes]]
Types ==
  /\ server \in Servers
  /\ disk \in 0 .. Len(Sizes) /\ row \in [version : Versions, served : BOOLEAN]
  /\ session \in [state : States, size : Nat, etag : Nat, prefix : Seq(FileBytes)]
  /\ slots \in [1 .. Slots -> Blocks] /\ victim \in 1 .. Slots
  /\ readers \in [Readers -> Nat]
  /\ read \in [by : Readers \cup {0}, offset : Nat, left : Nat, got : Seq(FileBytes)]
  /\ last \in [offset : Nat, bytes : Seq(FileBytes), sound : BOOLEAN]
  /\ honest \in BOOLEAN

(* Until the session is open nothing has been read.                          *)
NothingYet == ~Begun =>
  /\ ~Reading /\ last.bytes = <<>>
  /\ \A s \in 1 .. Slots : slots[s].base = NoBlock
AskedTwice == session.state \in {"probe", "refetch"} => ~server.totals

(* A read stays inside the file and knows where it began.                    *)
ReadInside == Reading =>
  /\ read.by \in Readers /\ read.left > 0
  /\ read.offset + read.left <= session.size
  /\ read.offset = MemberAt + readers[read.by] + Len(read.got)

(* While the session has not failed, every byte it holds is the one of the   *)
(* offset it is held for, and, while the validators are honest, of the       *)
(* version the session began with.                                           *)
Is(b, o, V) == b.at = o /\ b.version \in V
AllAre(bytes, offset, V) == \A k \in DOMAIN bytes : Is(bytes[k], offset + k - 1, V)
BlockIs(data, base, n, V) == \A k \in 1 .. n : Is(data[k], base + k - 1, V)
TheVersion == session.prefix[1].version
Trusted == IF honest THEN {TheVersion} ELSE Nat
PrefixHeld == Begun =>
  /\ session.prefix # <<>> /\ AllAre(session.prefix, 0, Trusted)
  /\ honest => session.etag = TheVersion /\ TheVersion # 0
SlotsHeld == session.state = "open" =>
  \A s \in 1 .. Slots : slots[s].base # NoBlock =>
    BlockIs(slots[s].data, slots[s].base, BlockLength(slots[s].base), Trusted)
GotHeld == session.state = "open" /\ Reading =>
  AllAre(read.got, MemberAt + readers[read.by], Trusted)
Returned == Begun /\ last.sound => AllAre(last.bytes, last.offset, Trusted)

Inv == /\ Types /\ NothingYet /\ AskedTwice /\ ReadInside
       /\ PrefixHeld /\ SlotsHeld /\ GotHeld /\ Returned

(* ---- arithmetic and sequences ------------------------------------------- *)
(* An offset lies in the block it belongs to.                                *)
LEMMA BaseOfOffset ==
  ASSUME NEW o \in Nat
  PROVE  BaseOf(o) \in Nat /\ BaseOf(o) <= o /\ o < BaseOf(o) + Block
<1>1. Block \in Nat /\ Block > 0  BY BoundsAssumption
<1>2. /\ o \div Block \in Nat
      /\ o = Block * (o \div Block) + (o % Block) /\ o % Block \in 0 .. Block - 1
  BY <1>1
<1>3. Block * (o \div Block) = (o \div Block) * Block
  BY <1>1, <1>2
<1> DEFINE base == (o \div Block) * Block
<1>4. base \in Nat  BY <1>1, <1>2
<1>5. o = base + (o % Block)  BY <1>2, <1>3
<1> HIDE DEF base
<1>6. base <= o /\ o < base + Block  BY <1>1, <1>2, <1>4, <1>5
<1> QED  BY <1>4, <1>6 DEF base, BaseOf

LEMMA LeastIs ==
  ASSUME NEW a \in Int, NEW b \in Int
  PROVE  /\ Least(a, b) \in Int /\ Least(a, b) <= a /\ Least(a, b) <= b
         /\ Least(a, b) \in {a, b}
BY DEF Least

(* How much of a block a read takes: something, no more than is left of the  *)
(* read, of the block and of the file.                                       *)
LEMMA TakeIs ==
  ASSUME NEW left \in Nat \ {0}, NEW inBlock \in Nat \ {0}, NEW inFile \in Nat \ {0}
  PROVE  LET take == Least(left, Least(inBlock, inFile)) IN
         take \in Nat \ {0} /\ take <= left /\ take <= inBlock /\ take <= inFile
BY DEF Least

(* The length of a block, for a base inside the file.                        *)
LEMMA BlockLengthIs ==
  ASSUME Types, NEW b \in Nat, b < session.size
  PROVE  /\ BlockLength(b) \in 1 .. Block /\ b + BlockLength(b) <= session.size
         /\ BlockLength(b) = Block \/ b + BlockLength(b) = session.size
<1>1. session.size \in Nat  BY DEF Types
<1> QED  BY <1>1, BoundsAssumption DEF BlockLength, Least

(* Bytes of a file, from an offset on.                                       *)
LEMMA BytesAre ==
  ASSUME NEW v \in Nat, NEW first \in Nat, NEW n \in Nat
  PROVE  /\ Bytes(v, first, n) \in Seq(FileBytes) /\ Len(Bytes(v, first, n)) = n
         /\ DOMAIN Bytes(v, first, n) = 1 .. n
         /\ \A k \in 1 .. n : Bytes(v, first, n)[k] = [version |-> v, at |-> first + k - 1]
<1>1. \A k \in 1 .. n : Byte(v, first + k - 1) \in FileBytes
  BY DEF Byte, FileBytes
<1>2. Bytes(v, first, n) \in [1 .. n -> FileBytes]
  BY <1>1 DEF Bytes
<1>3. Bytes(v, first, n) \in Seq(FileBytes) /\ Len(Bytes(v, first, n)) = n
  BY <1>2
<1> QED  BY <1>2, <1>3 DEF Bytes, Byte

(* What is copied out of a block follows what was copied before.             *)
Extended(got, data, from, take) == got \o SubSeq(data, from + 1, from + take)
Extends(all, got, data, from, take) ==
  /\ all \in Seq(FileBytes) /\ Len(all) = Len(got) + take
  /\ \A k \in 1 .. Len(got) : all[k] = got[k]
  /\ \A k \in 1 .. take : all[Len(got) + k] = data[from + k]
LEMMA ExtendedBy ==
  ASSUME NEW got \in Seq(FileBytes), NEW data \in [1 .. Block -> FileBytes],
         NEW from \in Nat, NEW take \in Nat, from + take <= Block
  PROVE  Extends(Extended(got, data, from, take), got, data, from, take)
<1>1. data \in Seq(FileBytes) /\ Len(data) = Block  BY BoundsAssumption
<1> DEFINE part == SubSeq(data, from + 1, from + take)
<1>2. part \in Seq(FileBytes) /\ Len(part) = take /\ \A k \in 1 .. take : part[k] = data[from + k]
  BY <1>1, BoundsAssumption
<1> HIDE DEF part
<1>3. got \o part \in Seq(FileBytes) /\ Len(got \o part) = Len(got) + take
  BY <1>2
<1>4. \A k \in 1 .. Len(got) : (got \o part)[k] = got[k]  BY <1>2
<1>5. \A k \in 1 .. take : (got \o part)[Len(got) + k] = part[k]  BY <1>2
<1> QED  BY <1>2, <1>3, <1>4, <1>5 DEF part, Extended, Extends

LEMMA Follows ==
  ASSUME NEW got \in Seq(FileBytes), NEW data \in [1 .. Block -> FileBytes],
         NEW from \in Nat, NEW take \in Nat, NEW n \in Nat, from + take <= n, n <= Block,
         NEW start \in Nat, NEW base \in Nat, start + Len(got) = base + from,
         NEW V, AllAre(got, start, V), BlockIs(data, base, n, V)
  PROVE  AllAre(Extended(got, data, from, take), start, V)
<1> DEFINE all == Extended(got, data, from, take)
<1>0. from + take <= Block  BY BoundsAssumption
<1>1. /\ all \in Seq(FileBytes) /\ Len(all) = Len(got) + take
      /\ \A k \in 1 .. Len(got) : all[k] = got[k]
      /\ \A k \in 1 .. take : all[Len(got) + k] = data[from + k]
  <2>1. Extends(all, got, data, from, take)  BY <1>0, ExtendedBy
  <2> QED  BY <2>1 DEF Extends
<1> HIDE DEF all
<1>2. Len(got) \in Nat /\ DOMAIN got = 1 .. Len(got) /\ DOMAIN all = 1 .. Len(all)  BY <1>1
<1>3. ASSUME NEW k \in 1 .. Len(all)  PROVE Is(all[k], start + k - 1, V)
  <2>1. CASE k <= Len(got)
    <3>1. k \in 1 .. Len(got)  BY <1>1, <1>2, <2>1
    <3> QED  BY <1>1, <1>2, <3>1 DEF AllAre
  <2>2. CASE ~(k <= Len(got))
    <3> DEFINE i == k - Len(got)
               o == from + i
    <3>1. i \in 1 .. take /\ k = Len(got) + i  BY <1>1, <1>2, <2>2
    <3>2. o \in 1 .. n  BY <3>1
    <3>3. all[k] = data[o]  BY <1>1, <3>1
    <3>4. start + k - 1 = base + o - 1  BY <1>2, <3>1
    <3> HIDE DEF o, i
    <3>5. Is(data[o], base + o - 1, V)  BY <3>2 DEF BlockIs
    <3> QED  BY <3>3, <3>4, <3>5
  <2> QED  BY <2>1, <2>2
<1> QED  BY <1>2, <1>3 DEF AllAre, all

(* Bytes stay what they are when more versions are trusted.                  *)
LEMMA MoreTrusted ==
  ASSUME NEW V, NEW W, V \subseteq W
  PROVE  /\ \A bytes, offset : AllAre(bytes, offset, V) => AllAre(bytes, offset, W)
         /\ \A data, base, n : BlockIs(data, base, n, V) => BlockIs(data, base, n, W)
BY DEF AllAre, BlockIs, Is

(* ---- the server --------------------------------------------------------- *)
(* What a range header selects lies in the file, and is what it names.       *)
LEMMA SpanSelects ==
  ASSUME NEW size \in Nat \ {0}, NEW first \in Nat, NEW final \in Nat
  PROVE  LET part == Parse(Span(first, final), size) IN
         \/ part = Refused /\ (first >= size \/ final < first)
         \/ /\ part.first = first /\ part.n \in Nat \ {0} /\ first + part.n <= size
            /\ part # Refused /\ first <= final /\ part.n <= final - first + 1
            /\ first + part.n = size \/ part.n = final - first + 1
<1> DEFINE h == Span(first, final)
           n == Least(final, size - 1) - first + 1
<1>1. h.kind = "span" /\ h.first = first /\ h.final = final  BY DEF Span
<1>2. Parse(h, size) = IF first >= size \/ final < first THEN Refused ELSE Selected(first, n)
  <2> HIDE DEF h
  <2> QED  BY <1>1 DEF Parse
<1>3. CASE first >= size \/ final < first
  BY <1>2, <1>3
<1>4. CASE ~(first >= size \/ final < first)
  <2>1. n \in Nat \ {0} /\ first + n <= size /\ n <= final - first + 1
        /\ (first + n = size \/ n = final - first + 1)
    BY <1>4 DEF Least
  <2> HIDE DEF n
  <2>2. Parse(h, size) = [first |-> first, n |-> n]  BY <1>2, <1>4 DEF Selected
  <2>3. [first |-> first, n |-> n] # Refused  BY <2>1 DEF Refused
  <2> HIDE DEF h
  <2> QED  BY <1>4, <2>1, <2>2, <2>3 DEF h
<1> QED  BY <1>3, <1>4

(* An answer is the part asked for, the whole file, or no bytes at all.      *)
ReplyType == [status : Nat, first : Nat, body : Seq(FileBytes), total : Nat, etag : Nat]
GoodAnswer(good, first, ifRange) ==
  /\ good \in ReplyType
  /\ good.etag = IF server.etags THEN row.version ELSE 0
  /\ good.status = 206 =>
       /\ disk # 0 /\ good.first = first /\ good.total # 0
       /\ \E m \in Nat \ {0} : good.body = Bytes(disk, first, m)
       /\ server.etags => ifRange \in {0, row.version}
  /\ good.status = 200 => disk # 0 /\ \E m \in Nat \ {0} : good.body = Bytes(disk, 0, m)
  /\ good.status \notin {200, 206} => good.body = <<>>

LEMMA Answered ==
  ASSUME Types, NEW first \in Nat, NEW final \in Nat, NEW ifRange \in Nat
  PROVE  GoodAnswer(Answer(Span(first, final), ifRange, 0), first, ifRange)
<1> USE DEF GoodAnswer, ReplyType
<1> DEFINE h == Span(first, final)
           size == Sizes[disk]
           part == Parse(h, size)
           good == Answer(h, ifRange, 0)
           tag == IF server.etags THEN row.version ELSE 0
<1>1. /\ row.version \in Nat \ {0} /\ disk \in Nat /\ <<>> \in Seq(FileBytes) /\ tag \in Nat
  BY SizesAssumption DEF Types, Versions
<1>2. h.kind = "span"  BY DEF Span
<1>r. ASSUME NEW status \in {503, 416}, good = Reply(status, 0, <<>>, 0)
      PROVE  /\ good \in ReplyType
             /\ good.etag = tag /\ good.status \notin {200, 206} /\ good.body = <<>>
  <2> HIDE DEF good, h
  <2>1. good = [status |-> status, first |-> 0, body |-> <<>>, total |-> 0, etag |-> tag]
    BY <1>r DEF Reply
  <2> HIDE DEF tag
  <2> QED  BY <1>1, <2>1
<1>3. CASE ~row.served \/ disk = 0
  <2>1. good = Reply(503, 0, <<>>, 0)  BY <1>3 DEF Answer
  <2> HIDE DEF good
  <2> QED  BY <1>r, <2>1 DEF good
<1>4. CASE row.served /\ disk # 0
  <2>1. size \in Nat \ {0}  BY <1>4, SizesAssumption DEF Types
  <2>2. CASE server.etags /\ ifRange \notin {0, row.version}
    <3>1. good = Reply(200, 0, Bytes(disk, 0, size), 0)
      BY <1>1, <1>4, <2>2 DEF Answer
    <3>2. Bytes(disk, 0, size) \in Seq(FileBytes)  BY <1>1, <2>1, BytesAre
    <3> HIDE DEF size, h
    <3>3. good = [status |-> 200, first |-> 0, body |-> Bytes(disk, 0, size), total |-> 0, etag |-> tag]
      BY <3>1 DEF Reply
    <3> HIDE DEF good, tag
    <3> QED  BY <1>1, <1>4, <2>1, <3>2, <3>3 DEF good, h, tag
  <2>3. CASE ~(server.etags /\ ifRange \notin {0, row.version})
    <3>1. good = IF part = Refused THEN Reply(416, 0, <<>>, 0)
                 ELSE Reply(206, part.first, Bytes(disk, part.first, part.n), size)
      <4> HIDE DEF part, h
      <4> QED  BY <1>1, <1>2, <1>4, <2>3 DEF Answer, part
    <3>2. CASE part = Refused
      <4>1. good = Reply(416, 0, <<>>, 0)  BY <3>1, <3>2
      <4> HIDE DEF good
      <4> QED  BY <1>r, <4>1 DEF good
    <3>3. CASE part # Refused
      <4>2. part.first = first /\ part.n \in Nat \ {0}
        BY <2>1, <3>3, SpanSelects
      <4> HIDE DEF part
      <4>3. Bytes(disk, first, part.n) \in Seq(FileBytes)  BY <1>1, <4>2, BytesAre
      <4> HIDE DEF size, h
      <4>4. good = [status |-> 206, first |-> first, body |-> Bytes(disk, first, part.n),
                    total |-> size, etag |-> tag]
        BY <3>1, <3>3, <4>2 DEF Reply
      <4> HIDE DEF good, tag
      <4> QED  BY <1>1, <1>4, <2>1, <2>3, <4>2, <4>3, <4>4 DEF good, h, tag
    <3> QED  BY <3>2, <3>3
  <2> QED  BY <2>2, <2>3
<1> QED  BY <1>3, <1>4

(* What may come back for n bytes from an offset on.                         *)
LEMMA Replied ==
  ASSUME Types, NEW first \in Nat, NEW n \in Nat \ {0}, NEW ifRange \in Nat,
         NEW reply \in Replies(first, n, ifRange)
  PROVE  /\ reply \in ReplyType
         /\ reply.body # <<>> =>
              disk # 0 /\ \A k \in DOMAIN reply.body : reply.body[k].version = disk
         /\ reply.status = 206 =>
              /\ reply.body # <<>> /\ AreTheBytesAt(reply.first, reply.body)
              /\ reply.first = first \/ (reply.first = first + 1 /\ server.strays)
              /\ reply.etag # 0 => reply.etag = row.version /\ ifRange \in {0, row.version}
              /\ server.totals => reply.total # 0
         /\ reply.status = 200 => reply.body # <<>> /\ AreTheBytesAt(0, reply.body)
         /\ reply.status \notin {200, 206} => reply.body = <<>>
<1> DEFINE final == first + n - 1
           good == Answer(Span(first, final), ifRange, 0)
           Whole(f, b) == /\ b # <<>> /\ AreTheBytesAt(f, b)
                          /\ \A k \in DOMAIN b : b[k].version = disk
<1>0. final \in Nat  OBVIOUS
<1>1. GoodAnswer(good, first, ifRange)
  <2> HIDE DEF final
  <2> QED  BY <1>0, Answered
<1>2. \/ reply = good
      \/ ~server.totals /\ reply = [good EXCEPT !.total = 0]
      \/ reply = Failure
      \/ server.strays /\ good.status = 206
         /\ reply = [good EXCEPT !.first = @ + 1, !.body = Bytes(disk, first + 1, n)]
  BY DEF Replies
<1>3. disk \in Nat  BY DEF Types
<1>4. ASSUME NEW f \in Nat, NEW m \in Nat \ {0}  PROVE Whole(f, Bytes(disk, f, m))
  <2>1. /\ Len(Bytes(disk, f, m)) = m /\ DOMAIN Bytes(disk, f, m) = 1 .. m
        /\ \A k \in 1 .. m : Bytes(disk, f, m)[k] = [version |-> disk, at |-> f + k - 1]
    BY <1>3, BytesAre
  <2>2. Len(<<>>) = 0  OBVIOUS
  <2> QED  BY <2>1, <2>2 DEF AreTheBytesAt
<1> HIDE DEF good
<1>g. /\ good.status = 206 => disk # 0 /\ Whole(first, good.body)
      /\ good.status = 200 => disk # 0 /\ Whole(0, good.body)
  <2> HIDE DEF Whole
  <2> QED  BY <1>1, <1>4 DEF GoodAnswer
<1>c. /\ reply \in ReplyType
      /\ reply.body # <<>> => disk # 0 /\ \E f \in Nat : Whole(f, reply.body)
      /\ reply.status = 206 =>
              /\ Whole(reply.first, reply.body)
              /\ reply.first = first \/ (reply.first = first + 1 /\ server.strays)
              /\ reply.etag # 0 => reply.etag = row.version /\ ifRange \in {0, row.version}
              /\ server.totals => reply.total # 0
      /\ reply.status = 200 => Whole(0, reply.body)
      /\ reply.status \notin {200, 206} => reply.body = <<>>
  <2> HIDE DEF Whole
  <2>5. CASE reply = good
    BY <1>1, <1>g, <2>5 DEF GoodAnswer
  <2>6. CASE ~server.totals /\ reply = [good EXCEPT !.total = 0]
    <3>1. /\ reply \in ReplyType /\ reply.status = good.status /\ reply.first = good.first
          /\ reply.body = good.body /\ reply.etag = good.etag /\ ~server.totals
      BY <1>1, <2>6 DEF GoodAnswer, ReplyType
    <3> QED  BY <1>1, <1>g, <3>1 DEF GoodAnswer
  <2>7. CASE reply = Failure
    BY <2>7 DEF Failure, ReplyType
  <2>8. CASE server.strays /\ good.status = 206
             /\ reply = [good EXCEPT !.first = @ + 1, !.body = Bytes(disk, first + 1, n)]
    <3> DEFINE body == Bytes(disk, first + 1, n)
    <3> DEFINE next == first + 1
    <3>0. next \in Nat  OBVIOUS
    <3>1. first + 1 \in Nat /\ body \in Seq(FileBytes) /\ Whole(first + 1, body)
      <4> HIDE DEF next
      <4>1. Bytes(disk, next, n) \in Seq(FileBytes) /\ Whole(next, Bytes(disk, next, n))
        BY <1>3, <1>4, <3>0, BytesAre
      <4> QED  BY <3>0, <4>1 DEF next
    <3> HIDE DEF body
    <3>2. /\ reply \in ReplyType /\ reply.status = 206 /\ reply.first = first + 1
          /\ reply.body = body /\ reply.etag = good.etag /\ reply.total = good.total
      BY <1>1, <2>8, <3>1 DEF body, GoodAnswer, ReplyType
    <3> QED  BY <1>1, <2>8, <3>1, <3>2 DEF GoodAnswer
  <2> QED  BY <1>2, <2>5, <2>6, <2>7, <2>8
<1> QED  BY <1>c

(* ---- what the steps of a read do ---------------------------------------- *)
(* Trust never narrows while the session keeps what it began with.           *)
LEMMA TrustStays ==
  ASSUME Types, PrefixHeld, Begun, honest' \in BOOLEAN, honest' => honest,
         session'.prefix = session.prefix
  PROVE  TheVersion' = TheVersion /\ TheVersion \in Nat /\ Trusted \subseteq Trusted'
<1>1. session.prefix[1] \in FileBytes  BY DEF Types, PrefixHeld
<1>2. TheVersion' = TheVersion /\ TheVersion \in Nat  BY <1>1 DEF TheVersion, FileBytes
<1> QED  BY <1>2 DEF Trusted

(* Where a read stands in its block.                                         *)
Base == BaseOf(read.offset)
LEMMA ReadIsIn ==
  ASSUME Types, ReadInside, Reading
  PROVE  /\ Base \in Nat /\ Base <= read.offset /\ read.offset < Base + Block
         /\ read.offset \in Nat /\ read.left \in Nat \ {0} /\ read.offset + read.left <= session.size
         /\ Base < session.size /\ session.size \in Nat /\ Block \in Nat \ {0}
<1>1. /\ read.offset \in Nat /\ read.left \in Nat \ {0} /\ read.offset + read.left <= session.size
      /\ session.size \in Nat
  BY DEF Types, ReadInside
<1> QED  BY <1>1, BaseOfOffset, BoundsAssumption DEF Base

LEMMA Split ==
  ASSUME NEW offset \in Nat, NEW base \in Nat, base <= offset, offset < base + Block,
         NEW left \in Nat \ {0}, NEW size \in Nat, offset + left <= size, Block \in Nat \ {0}
  PROVE  LET from == offset - base
             take == Least(left, Least(Block - from, size - base - from)) IN
         /\ from \in Nat /\ offset = base + from
         /\ take \in Nat \ {0} /\ take <= left
         /\ from + take <= Block /\ from + take <= Least(Block, size - base)
BY DEF Least

(* Copying out of a block of right bytes leaves right bytes behind.          *)
LEMMA CopiedIsRight ==
  ASSUME Types, ReadInside, GotHeld, Returned, PrefixHeld, Reading, Begun,
         UNCHANGED session, honest' \in BOOLEAN, honest' => honest,
         NEW data \in [1 .. Block -> FileBytes], Copied(data),
         session.state = "open" => BlockIs(data, Base, BlockLength(Base), Trusted')
  PROVE  /\ readers' \in [Readers -> Nat]
         /\ read' \in [by : Readers \cup {0}, offset : Nat, left : Nat, got : Seq(FileBytes)]
         /\ last' \in [offset : Nat, bytes : Seq(FileBytes), sound : BOOLEAN]
         /\ ReadInside' /\ GotHeld' /\ Returned'
<1> DEFINE from == read.offset - Base
           take == Least(read.left, Least(Block - from, session.size - Base - from))
           all == Extended(read.got, data, from, take)
           start == MemberAt + readers[read.by]
<1>1. /\ Base \in Nat /\ Base <= read.offset /\ read.offset < Base + Block
      /\ read.offset \in Nat /\ read.left \in Nat \ {0} /\ read.offset + read.left <= session.size
      /\ Base < session.size /\ session.size \in Nat /\ Block \in Nat \ {0}
  BY ReadIsIn
<1>2. /\ from \in Nat /\ read.offset = Base + from /\ take \in Nat \ {0} /\ take <= read.left
      /\ from + take <= Block /\ from + take <= BlockLength(Base)
  <2> HIDE DEF Base
  <2> QED  BY <1>1, Split DEF BlockLength
<1>3. /\ read.by \in Readers /\ readers[read.by] \in Nat /\ MemberAt \in Nat
      /\ read.got \in Seq(FileBytes) /\ start \in Nat /\ read.offset = start + Len(read.got)
  BY BoundsAssumption DEF Types, ReadInside
<1>4. BlockLength(Base) \in Nat /\ BlockLength(Base) <= Block
  BY <1>1, BlockLengthIs
<1>t. Trusted \subseteq Trusted' /\ TheVersion' = TheVersion
  BY TrustStays
<1>c. IF take < read.left
      THEN /\ read' = [read EXCEPT !.offset = @ + take, !.left = @ - take, !.got = all]
           /\ UNCHANGED <<readers, last>>
      ELSE /\ read' = NoRead
           /\ readers' = [readers EXCEPT ![read.by] = @ + Len(all)]
           /\ last' = [offset |-> start, bytes |-> all, sound |-> ~Failed]
  BY DEF Copied, Base, Extended
<1> HIDE DEF from, take
<1>6. /\ all \in Seq(FileBytes) /\ Len(all) = Len(read.got) + take /\ Len(read.got) \in Nat
  <2> HIDE DEF start
  <2>1. Extends(all, read.got, data, from, take)  BY <1>2, <1>3, ExtendedBy
  <2> QED  BY <1>3, <2>1 DEF Extends
<1>s. start = MemberAt + readers[read.by]  OBVIOUS
<1>7. session.state = "open" => AllAre(all, start, Trusted')
  <2> SUFFICES ASSUME session.state = "open"  PROVE AllAre(all, start, Trusted')
    OBVIOUS
  <2>1. AllAre(read.got, start, Trusted')
    BY <1>t, MoreTrusted DEF GotHeld
  <2>2. start + Len(read.got) = Base + from  BY <1>2, <1>3
  <2> HIDE DEF start
  <2> QED  BY <1>1, <1>2, <1>3, <1>4, <2>1, <2>2, Follows
<1> HIDE DEF all, start
<1>l. session' = session /\ session \in [state : States, size : Nat, etag : Nat, prefix : Seq(FileBytes)]
  BY DEF Types
<1>8. CASE take < read.left
  <2>1. /\ read' = [read EXCEPT !.offset = @ + take, !.left = @ - take, !.got = all]
        /\ UNCHANGED <<readers, last>>
    BY <1>8, <1>c
  <2>2. read \in [by : Readers \cup {0}, offset : Nat, left : Nat, got : Seq(FileBytes)]
    BY DEF Types
  <2>3. /\ read'.by = read.by /\ read'.offset = read.offset + take
        /\ read'.left = read.left - take /\ read'.got = all
        /\ read.left - take \in Nat \ {0} /\ read.offset + take \in Nat
    BY <1>1, <1>2, <1>8, <2>1, <2>2
  <2>4. read' \in [by : Readers \cup {0}, offset : Nat, left : Nat, got : Seq(FileBytes)]
    BY <1>6, <2>1, <2>2, <2>3
  <2>5. ReadInside'
    <3>1. read'.by \in Readers /\ read'.left > 0  BY <1>3, <2>3
    <3>2. read'.offset + read'.left <= session'.size  BY <1>1, <1>2, <1>l, <2>3
    <3>3. read'.offset = MemberAt + readers'[read'.by] + Len(read'.got)
      BY <1>2, <1>3, <1>6, <1>s, <2>1, <2>3
    <3> QED  BY <3>1, <3>2, <3>3 DEF ReadInside
  <2>6. GotHeld'
    BY <1>7, <1>l, <1>s, <2>1, <2>3 DEF GotHeld
  <2>7. Returned'
    BY <1>l, <1>t, <2>1, MoreTrusted DEF Returned, Begun
  <2> QED  BY <2>1, <2>4, <2>5, <2>6, <2>7 DEF Types
<1>9. CASE ~(take < read.left)
  <2>1. /\ read' = NoRead
        /\ readers' = [readers EXCEPT ![read.by] = @ + Len(all)]
        /\ last' = [offset |-> start, bytes |-> all, sound |-> ~Failed]
    BY <1>9, <1>c
  <2>2. read' \in [by : Readers \cup {0}, offset : Nat, left : Nat, got : Seq(FileBytes)]
    BY <2>1 DEF NoRead
  <2>3. readers' \in [Readers -> Nat]
    <3>1. readers \in [Readers -> Nat]  BY DEF Types
    <3> QED  BY <1>2, <1>3, <1>6, <2>1, <3>1
  <2>4. ~Reading'  BY <2>1 DEF Reading
  <2>5. last' \in [offset : Nat, bytes : Seq(FileBytes), sound : BOOLEAN]
    BY <1>3, <1>6, <2>1 DEF Failed
  <2>6. Returned'
    <3>1. last'.sound => session.state = "open"
      BY <2>1 DEF Failed, Begun
    <3> QED  BY <1>7, <2>1, <3>1 DEF Returned
  <2> QED  BY <2>2, <2>3, <2>4, <2>5, <2>6 DEF ReadInside, GotHeld
<1> QED  BY <1>8, <1>9

(* A read that fails leaves nothing behind but a label.                      *)
LEMMA FailsClean ==
  ASSUME Types, Returned, PrefixHeld, Begun, ReadFails(Base), Base \in Nat,
         session' = [session EXCEPT !.state = "failed"],
         honest' \in BOOLEAN, honest' => honest
  PROVE  /\ slots' \in [1 .. Slots -> Blocks]
         /\ readers' \in [Readers -> Nat]
         /\ read' \in [by : Readers \cup {0}, offset : Nat, left : Nat, got : Seq(FileBytes)]
         /\ last' \in [offset : Nat, bytes : Seq(FileBytes), sound : BOOLEAN]
         /\ session' \in [state : States, size : Nat, etag : Nat, prefix : Seq(FileBytes)]
         /\ NothingYet' /\ AskedTwice' /\ ReadInside' /\ PrefixHeld' /\ SlotsHeld' /\ GotHeld' /\ Returned'
<1>1. read' = NoRead /\ readers' = readers /\ last' = last /\ slots' = Labelled(Base)
  BY DEF ReadFails
<1>2. /\ session'.state = "failed" /\ session'.prefix = session.prefix /\ session'.etag = session.etag
      /\ session' \in [state : States, size : Nat, etag : Nat, prefix : Seq(FileBytes)]
  BY DEF Types, States
<1>3. TheVersion' = TheVersion /\ Trusted \subseteq Trusted'
  BY <1>2, TrustStays
<1>4. slots' \in [1 .. Slots -> Blocks]
  BY <1>1 DEF Types, Labelled, Blocks
<1>5. read' \in [by : Readers \cup {0}, offset : Nat, left : Nat, got : Seq(FileBytes)]
  BY <1>1 DEF NoRead
<1>6. ~Reading'  BY <1>1 DEF Reading
<1>7. NothingYet' /\ AskedTwice' /\ ReadInside' /\ SlotsHeld' /\ GotHeld'
  BY <1>2, <1>6 DEF NothingYet, AskedTwice, ReadInside, SlotsHeld, GotHeld, Begun
<1>8. PrefixHeld'
  BY <1>2, <1>3, MoreTrusted DEF PrefixHeld
<1>9. Returned'
  BY <1>1, <1>3, MoreTrusted DEF Returned
<1> QED  BY <1>1, <1>2, <1>4, <1>5, <1>7, <1>8, <1>9 DEF Types

(* A block put into a slot: the bytes that came, over what was there.        *)
LEMMA FilledIs ==
  ASSUME Types, NEW data \in Seq(FileBytes), Len(data) <= Block
  PROVE  /\ Filled(data) \in [1 .. Block -> FileBytes]
         /\ \A base, V : BlockIs(data, base, Len(data), V) => BlockIs(Filled(data), base, Len(data), V)
<1>1. slots[victim].data \in [1 .. Block -> FileBytes]  BY DEF Types, Blocks
<1>2. Len(data) \in Nat /\ \A k \in 1 .. Len(data) : k \in 1 .. Block /\ k <= Len(data) /\ data[k] \in FileBytes
  BY BoundsAssumption
<1>3. \A k \in 1 .. Block : k <= Len(data) => k \in 1 .. Len(data)  BY BoundsAssumption
<1>4. Filled(data) \in [1 .. Block -> FileBytes]  BY <1>1, <1>2, <1>3 DEF Filled
<1>5. \A k \in 1 .. Len(data) : Filled(data)[k] = data[k]  BY <1>2 DEF Filled
<1> QED  BY <1>4, <1>5 DEF BlockIs

LEMMA StoredIsRight ==
  ASSUME Types, SlotsHeld, PrefixHeld, Begun, UNCHANGED session,
         honest' \in BOOLEAN, honest' => honest,
         NEW base \in Nat, NEW data \in Seq(FileBytes), Len(data) = BlockLength(base),
         BlockLength(base) \in 1 .. Block,
         session.state = "open" => BlockIs(data, base, BlockLength(base), Trusted'),
         slots' = Stored(base, data)
  PROVE  /\ slots' \in [1 .. Slots -> Blocks] /\ SlotsHeld'
         /\ Filled(data) \in [1 .. Block -> FileBytes]
         /\ session.state = "open" => BlockIs(Filled(data), base, BlockLength(base), Trusted')
<1>1. /\ Filled(data) \in [1 .. Block -> FileBytes]
      /\ session.state = "open" => BlockIs(Filled(data), base, BlockLength(base), Trusted')
  <2>1. Len(data) <= Block  BY BoundsAssumption
  <2> QED  BY <2>1, FilledIs
<1> DEFINE fresh == Filled(data)
<1>2. slots' = [slots EXCEPT ![victim] = [base |-> base, data |-> fresh]]  BY DEF Stored
<1> HIDE DEF fresh
<1>3. slots \in [1 .. Slots -> Blocks] /\ victim \in 1 .. Slots  BY DEF Types
<1>4. slots' \in [1 .. Slots -> Blocks]
  BY <1>1, <1>2, <1>3 DEF Blocks, fresh
<1>5. Trusted \subseteq Trusted'  BY TrustStays
<1>6. \A b : BlockLength(b)' = BlockLength(b)  BY DEF BlockLength
<1>7. SlotsHeld'
  <2> SUFFICES ASSUME session.state = "open", NEW s \in 1 .. Slots, slots'[s].base # NoBlock
               PROVE BlockIs(slots'[s].data, slots'[s].base, BlockLength(slots'[s].base), Trusted')
    BY <1>6 DEF SlotsHeld
  <2>1. CASE s = victim
    <3>1. slots'[s].base = base /\ slots'[s].data = fresh  BY <1>2, <1>3, <2>1
    <3> QED  BY <1>1, <3>1 DEF fresh
  <2>2. CASE s # victim
    <3>1. slots'[s] = slots[s]  BY <1>2, <1>3, <2>2
    <3>2. BlockIs(slots[s].data, slots[s].base, BlockLength(slots[s].base), Trusted)
      BY <3>1 DEF SlotsHeld
    <3> QED  BY <1>5, <3>1, <3>2, MoreTrusted
  <2> QED  BY <2>1, <2>2
<1> QED  BY <1>1, <1>4, <1>7

(* ---- the steps ---------------------------------------------------------- *)
LEMMA Initially == ASSUME Init  PROVE Inv
<1>1. Types
  <2>1. disk \in 0 .. Len(Sizes) /\ row \in [version : Versions, served : BOOLEAN]
    BY SizesAssumption DEF Init, Versions
  <2>2. session \in [state : States, size : Nat, etag : Nat, prefix : Seq(FileBytes)]
    BY DEF Init, NoSession, States
  <2>3. slots \in [1 .. Slots -> Blocks] /\ victim \in 1 .. Slots
    BY BoundsAssumption DEF Init, Blocks, Garbage, Byte, FileBytes
  <2>4. read \in [by : Readers \cup {0}, offset : Nat, left : Nat, got : Seq(FileBytes)]
    BY DEF Init, NoRead
  <2>5. last \in [offset : Nat, bytes : Seq(FileBytes), sound : BOOLEAN]
    BY DEF Init
  <2> QED  BY <2>1, <2>2, <2>3, <2>4, <2>5 DEF Init, Types
<1>2. NothingYet
  BY DEF Init, NothingYet, Reading
<1>3. session.state = "none" /\ ~Begun /\ ~Reading  BY DEF Init, NoSession, Begun, Reading
<1> QED  BY <1>1, <1>2, <1>3 DEF Inv, AskedTwice, ReadInside, PrefixHeld, SlotsHeld, GotHeld, Returned

(* What the invariant says depends on none of the counters, and on the file  *)
(* and its row only by their types.                                          *)
LEMMA WorldMoves ==
  ASSUME Inv, UNCHANGED <<server, session, slots, victim, readers, read, last, honest>>,
         disk' \in 0 .. Len(Sizes), row' \in [version : Versions, served : BOOLEAN]
  PROVE  Inv'
<1>1. Trusted' = Trusted /\ TheVersion' = TheVersion  BY DEF Trusted, TheVersion
<1>2. \A b : BlockLength(b)' = BlockLength(b)  BY DEF BlockLength
<1>3. Types'  BY DEF Inv, Types
<1>4. NothingYet' /\ AskedTwice' /\ ReadInside'
  BY DEF Inv, NothingYet, AskedTwice, ReadInside, Begun, Reading
<1>5. PrefixHeld' /\ GotHeld' /\ Returned'
  BY <1>1 DEF Inv, PrefixHeld, GotHeld, Returned, Begun, Reading
<1>6. SlotsHeld'
  BY <1>1, <1>2 DEF Inv, SlotsHeld
<1> QED  BY <1>3, <1>4, <1>5, <1>6 DEF Inv

LEMMA ReplaceKeeps == ASSUME Inv, Replace  PROVE Inv'
BY WorldMoves DEF Replace, Inv, Types
LEMMA RescanKeeps == ASSUME Inv, Rescan  PROVE Inv'
<1>1. row' \in [version : Versions, served : BOOLEAN]
  BY SizesAssumption DEF Rescan, Inv, Types, Versions
<1> QED  BY <1>1, WorldMoves DEF Rescan, Inv, Types

LEMMA StartReadKeeps ==
  ASSUME Inv, NEW r \in Readers, NEW n \in 1 .. 2 * Block, StartRead(r, n)
  PROVE  Inv'
<1> USE DEF Inv
<1>1. UNCHANGED <<server, disk, row, session, slots, victim, readers, last, honest>>
  BY DEF StartRead
<1> DEFINE position == readers[r]
           left == Least(n, MemberSize - position)
           offset == MemberAt + position
<1>2. position \in Nat /\ MemberAt \in Nat /\ session.size \in Nat /\ Begun
      /\ session.size > MemberAt /\ position < session.size - MemberAt /\ n \in Nat \ {0}
  BY BoundsAssumption DEF Types, StartRead, MemberSize, Begun
<1>3. left \in Nat \ {0} /\ offset \in Nat /\ offset + left <= session.size
  BY <1>2 DEF Least, MemberSize
<1>4. read' = [by |-> r, offset |-> offset, left |-> left, got |-> <<>>]
  BY DEF StartRead
<1>o. offset = MemberAt + readers[r]  OBVIOUS
<1> HIDE DEF left, offset, position
<1>5. read' \in [by : Readers \cup {0}, offset : Nat, left : Nat, got : Seq(FileBytes)]
  BY <1>3, <1>4
<1>6. read'.by = r /\ read'.offset = offset /\ read'.left = left /\ read'.got = <<>>
  BY <1>4
<1>7. Trusted' = Trusted /\ TheVersion' = TheVersion  BY <1>1 DEF Trusted, TheVersion
<1>8. Types'  BY <1>1, <1>5 DEF Types
<1>9. ReadInside'
  <2>1. Len(<<>>) = 0  OBVIOUS
  <2> QED  BY <1>1, <1>2, <1>3, <1>6, <1>o, <2>1 DEF ReadInside
<1>10. GotHeld'  BY <1>6 DEF GotHeld, AllAre
<1>11. NothingYet' /\ AskedTwice' /\ PrefixHeld' /\ Returned'
  BY <1>1, <1>2, <1>7 DEF NothingYet, AskedTwice, PrefixHeld, Returned, Begun
<1>12. SlotsHeld'
  <2>1. \A b : BlockLength(b)' = BlockLength(b)  BY <1>1 DEF BlockLength
  <2> QED  BY <1>1, <1>7, <2>1 DEF SlotsHeld
<1> QED  BY <1>8, <1>9, <1>10, <1>11, <1>12

LEMMA SeekKeeps ==
  ASSUME Inv, NEW r \in Readers, NEW position \in Nat, Seek(r, position)
  PROVE  Inv'
<1> USE DEF Inv
<1>1. /\ UNCHANGED <<server, disk, row, session, slots, victim, read, last, honest>>
      /\ ~Reading /\ readers' = [readers EXCEPT ![r] = position] /\ Begun
  BY DEF Seek, World, Begun
<1>2. Trusted' = Trusted /\ TheVersion' = TheVersion  BY <1>1 DEF Trusted, TheVersion
<1>3. Types'  BY <1>1 DEF Types
<1>4. ~Reading'  BY <1>1 DEF Reading
<1>5. NothingYet' /\ AskedTwice' /\ PrefixHeld' /\ Returned' /\ ReadInside' /\ GotHeld'
  BY <1>1, <1>2, <1>4
  DEF NothingYet, AskedTwice, PrefixHeld, Returned, Begun, ReadInside, GotHeld
<1>6. SlotsHeld'
  <2>1. \A b : BlockLength(b)' = BlockLength(b)  BY <1>1 DEF BlockLength
  <2> QED  BY <1>1, <1>2, <2>1 DEF SlotsHeld
<1> QED  BY <1>3, <1>5, <1>6

(* What discovery may leave: nothing read yet and, once open, first bytes    *)
(* that are right.                                                           *)
LEMMA Discovered ==
  ASSUME Inv, ~Begun, UNCHANGED <<World, Client>>,
         honest' \in BOOLEAN,
         session' \in [state : States, size : Nat, etag : Nat, prefix : Seq(FileBytes)],
         session'.state # "failed",
         session'.state \in {"probe", "refetch"} => ~server.totals,
         session'.state = "open" => PrefixHeld'
  PROVE  Inv'
<1> USE DEF Inv
<1>1. UNCHANGED <<server, disk, row, slots, victim, readers, read, last>>
  BY DEF World, Client
<1>2. ~Reading /\ ~Reading' /\ last.bytes = <<>> /\ \A s \in 1 .. Slots : slots[s].base = NoBlock
  BY <1>1 DEF NothingYet, Reading
<1>3. Types'  BY <1>1 DEF Types
<1>4. NothingYet' /\ AskedTwice' /\ ReadInside' /\ SlotsHeld' /\ GotHeld'
  BY <1>1, <1>2 DEF NothingYet, AskedTwice, ReadInside, SlotsHeld, GotHeld
<1>5. PrefixHeld'  BY DEF Begun, PrefixHeld
<1>6. Returned'  BY <1>1, <1>2 DEF Returned, AllAre
<1> QED  BY <1>3, <1>4, <1>5, <1>6

LEMMA Opening ==
  ASSUME Inv, NEW size \in Nat, NEW reply \in ReplyType, Opened(size, reply),
         honest' = (honest /\ (reply.body = <<>> \/ (reply.etag # 0 /\ reply.etag = disk))),
         reply.body # <<>>, AreTheBytesAt(0, reply.body),
         \A k \in DOMAIN reply.body : reply.body[k].version = disk
  PROVE  /\ session' \in [state : States, size : Nat, etag : Nat, prefix : Seq(FileBytes)]
         /\ session'.state = "open" /\ PrefixHeld'
<1>1. session' = [state |-> "open", size |-> size, etag |-> reply.etag, prefix |-> reply.body]
  BY DEF Opened
<1> DEFINE body == reply.body
<1>2. body \in Seq(FileBytes) /\ reply.etag \in Nat  BY DEF ReplyType
<1>3. 1 \in DOMAIN body /\ DOMAIN body = 1 .. Len(body)  BY <1>2
<1>4. TheVersion' = disk  BY <1>1, <1>3 DEF TheVersion
<1>5. \A k \in DOMAIN body : body[k].version \in Nat
  <2>1. \A k \in DOMAIN body : body[k] \in FileBytes  BY <1>2
  <2> QED  BY <2>1 DEF FileBytes
<1>6. AllAre(body, 0, Trusted')
  BY <1>4, <1>5 DEF AllAre, Is, Trusted, AreTheBytesAt
<1>7. honest' => reply.etag = disk /\ disk # 0  BY <1>2
<1> QED  BY <1>1, <1>2, <1>4, <1>6, <1>7 DEF PrefixHeld, States

LEMMA SessionRecord ==
  ASSUME NEW state \in States, NEW size \in Nat, NEW prefix \in Seq(FileBytes)
  PROVE  [state |-> state, size |-> size, etag |-> 0, prefix |-> prefix]
           \in [state : States, size : Nat, etag : Nat, prefix : Seq(FileBytes)]
OBVIOUS

(* A session that asks no more, or asks once more.                           *)
LEMMA AsksOn ==
  ASSUME NEW size \in Nat, NEW state \in States,
         session' = [NoSession EXCEPT !.state = state, !.size = size]
  PROVE  /\ session' \in [state : States, size : Nat, etag : Nat, prefix : Seq(FileBytes)]
         /\ session'.state = state
<1>1. session' = [state |-> state, size |-> size, etag |-> 0, prefix |-> <<>>]  BY DEF NoSession
<1>2. <<>> \in Seq(FileBytes)  OBVIOUS
<1>3. session' \in [state : States, size : Nat, etag : Nat, prefix : Seq(FileBytes)]
  BY <1>1, <1>2, SessionRecord
<1> QED  BY <1>1, <1>3

LEMMA RefusesIt ==
  ASSUME NEW state \in States, session' = [NoSession EXCEPT !.state = state]
  PROVE  /\ session' \in [state : States, size : Nat, etag : Nat, prefix : Seq(FileBytes)]
         /\ session'.state = state
<1>1. session' = [state |-> state, size |-> 0, etag |-> 0, prefix |-> <<>>]  BY DEF NoSession
<1>2. <<>> \in Seq(FileBytes)  OBVIOUS
<1>3. session' \in [state : States, size : Nat, etag : Nat, prefix : Seq(FileBytes)]
  BY <1>1, <1>2, SessionRecord
<1> QED  BY <1>1, <1>3

LEMMA DiscoverKeeps == ASSUME Inv, Discover  PROVE Inv'
<1> USE DEF Inv
<1>1. PICK reply \in Replies(0, Prefix, 0) :
       /\ Request(0, Prefix, reply)
       /\ IF reply.status # 206 \/ reply.first # 0 THEN Refuse
          ELSE IF reply.total # 0
          THEN IF Len(reply.body) = Least(Prefix, reply.total) THEN Opened(reply.total, reply) ELSE Refuse
          ELSE IF Len(reply.body) < Prefix THEN Opened(Len(reply.body), reply)
          ELSE session' = [NoSession EXCEPT !.state = "probe"]
  BY DEF Discover
<1>2. ~Begun /\ UNCHANGED <<World, Client>>  BY DEF Discover, Begun
<1>3. /\ reply \in ReplyType
      /\ reply.body # <<>> =>
           disk # 0 /\ \A k \in DOMAIN reply.body : reply.body[k].version = disk
      /\ reply.status = 206 =>
           /\ reply.body # <<>> /\ AreTheBytesAt(reply.first, reply.body)
           /\ server.totals => reply.total # 0
  BY BoundsAssumption, Replied
<1>4. honest' = (honest /\ (reply.body = <<>> \/ (reply.etag # 0 /\ reply.etag = disk)))
  BY <1>1 DEF Request
<1>5. honest' \in BOOLEAN  BY <1>4 DEF Types
<1>6. reply.total \in Nat /\ Len(reply.body) \in Nat  BY <1>3 DEF ReplyType
<1>7. CASE Refuse
  <2>1. session' = [NoSession EXCEPT !.state = "refused"]  BY <1>7 DEF Refuse
  <2>2. "refused" \in States  BY DEF States
  <2>3. /\ session' \in [state : States, size : Nat, etag : Nat, prefix : Seq(FileBytes)]
        /\ session'.state = "refused"
    BY <2>1, <2>2, RefusesIt
  <2> QED  BY <1>2, <1>5, <2>3, Discovered
<1>8. CASE reply.status = 206 /\ reply.first = 0 /\ \E size \in Nat : Opened(size, reply)
  <2>1. PICK size \in Nat : Opened(size, reply)  BY <1>8
  <2>2. /\ session' \in [state : States, size : Nat, etag : Nat, prefix : Seq(FileBytes)]
        /\ session'.state = "open" /\ PrefixHeld'
    BY <1>3, <1>4, <1>8, <2>1, Opening
  <2> QED  BY <1>2, <1>5, <2>2, Discovered
<1>9. CASE reply.status = 206 /\ reply.total = 0 /\ session' = [NoSession EXCEPT !.state = "probe"]
  <2>1. ~server.totals  BY <1>3, <1>9
  <2>2. "probe" \in States  BY DEF States
  <2>3. /\ session' \in [state : States, size : Nat, etag : Nat, prefix : Seq(FileBytes)]
        /\ session'.state = "probe"
    BY <1>9, <2>2, RefusesIt
  <2> QED  BY <1>2, <1>5, <2>1, <2>3, Discovered
<1> QED  BY <1>1, <1>6, <1>7, <1>8, <1>9

LEMMA ProbeKeeps == ASSUME Inv, Probe  PROVE Inv'
<1> USE DEF Inv
<1>1. PICK reply \in Replies(0, 1, 0) :
       /\ Request(0, 1, reply)
       /\ IF reply.status # 206 \/ reply.first # 0 \/ Len(reply.body) # 1 \/ reply.total = 0 THEN Refuse
          ELSE session' = [NoSession EXCEPT !.state = "refetch", !.size = reply.total]
  BY DEF Probe
<1>2. ~Begun /\ UNCHANGED <<World, Client>> /\ ~server.totals
  BY DEF Probe, Begun, AskedTwice
<1>3. reply \in ReplyType  BY Replied
<1>4. honest' \in BOOLEAN
  <2>1. honest' = (honest /\ (reply.body = <<>> \/ (reply.etag # 0 /\ reply.etag = disk)))
    BY <1>1 DEF Request
  <2> QED  BY <2>1 DEF Types
<1>5. reply.total \in Nat  BY <1>3 DEF ReplyType
<1>6. /\ session' \in [state : States, size : Nat, etag : Nat, prefix : Seq(FileBytes)]
      /\ session'.state \in {"refused", "refetch"}
  <2>1. "refused" \in States /\ "refetch" \in States  BY DEF States
  <2>2. CASE Refuse
    BY <2>1, <2>2, RefusesIt DEF Refuse
  <2>3. CASE session' = [NoSession EXCEPT !.state = "refetch", !.size = reply.total]
    BY <1>5, <2>1, <2>3, AsksOn
  <2> QED  BY <1>1, <2>2, <2>3
<1> QED  BY <1>2, <1>4, <1>6, Discovered

(* The second answer begins at the first byte too, for a careful server.     *)
LEMMA RefetchKeeps == ASSUME Inv, Careful, Refetch  PROVE Inv'
<1> USE DEF Inv
<1>1. PICK reply \in Replies(0, Prefix, 0) :
       /\ Request(0, Prefix, reply)
       /\ IF Len(reply.body) = Prefix /\ Prefix <= session.size THEN Opened(session.size, reply) ELSE Refuse
  BY DEF Refetch
<1>2. ~Begun /\ UNCHANGED <<World, Client>> /\ ~server.totals /\ session.size \in Nat
  BY DEF Refetch, Begun, AskedTwice, Types
<1>3. ~server.strays  BY <1>2 DEF Careful, Types
<1>4. /\ reply \in ReplyType
      /\ reply.body # <<>> =>
           disk # 0 /\ \A k \in DOMAIN reply.body : reply.body[k].version = disk
      /\ reply.status = 206 => AreTheBytesAt(reply.first, reply.body) /\ reply.first = 0
      /\ reply.status = 200 => AreTheBytesAt(0, reply.body)
      /\ reply.status \notin {200, 206} => reply.body = <<>>
  BY <1>3, BoundsAssumption, Replied
<1>5. honest' = (honest /\ (reply.body = <<>> \/ (reply.etag # 0 /\ reply.etag = disk)))
  BY <1>1 DEF Request
<1>6. honest' \in BOOLEAN  BY <1>5 DEF Types
<1>7. CASE Refuse
  <2>1. "refused" \in States  BY DEF States
  <2>2. /\ session' \in [state : States, size : Nat, etag : Nat, prefix : Seq(FileBytes)]
        /\ session'.state = "refused"
    BY <1>7, <2>1, RefusesIt DEF Refuse
  <2> QED  BY <1>2, <1>6, <2>2, Discovered
<1>8. CASE Len(reply.body) = Prefix /\ Opened(session.size, reply)
  <2>1. reply.body # <<>>
    <3>1. Len(<<>>) = 0 /\ Prefix # 0  BY BoundsAssumption
    <3> QED  BY <1>8, <3>1
  <2>2. AreTheBytesAt(0, reply.body)  BY <1>4, <2>1
  <2>3. /\ session' \in [state : States, size : Nat, etag : Nat, prefix : Seq(FileBytes)]
        /\ session'.state = "open" /\ PrefixHeld'
    BY <1>2, <1>4, <1>5, <1>8, <2>1, <2>2, Opening
  <2> QED  BY <1>2, <1>6, <2>3, Discovered
<1> QED  BY <1>1, <1>7, <1>8

(* ---- a read ------------------------------------------------------------- *)
LEMMA VictimIs ==
  ASSUME victim \in 1 .. Slots, NextVictim  PROVE victim' \in 1 .. Slots
BY BoundsAssumption DEF NextVictim

LEMMA CopyBlockKeeps == ASSUME Inv, CopyBlock  PROVE Inv'
<1> USE DEF Inv
<1> DEFINE block == CHOOSE b \in {slots[s] : s \in DOMAIN slots} : b.base = Base
<1>1. Reading /\ Cached(Base) /\ Copied(block.data)
      /\ UNCHANGED <<server, disk, row, session, slots, victim, honest>>
  BY DEF CopyBlock, World, Base
<1>2. slots \in [1 .. Slots -> Blocks]  BY DEF Types
<1>3. block \in {slots[s] : s \in DOMAIN slots} /\ block.base = Base
  <2>1. \E b \in {slots[s] : s \in DOMAIN slots} : b.base = Base
    BY <1>1 DEF Cached
  <2> HIDE DEF Base
  <2> QED  BY <2>1
<1>4. PICK s \in 1 .. Slots : block = slots[s]  BY <1>2, <1>3
<1> HIDE DEF block
<1>5. Begun  BY <1>1 DEF NothingYet
<1>6. Trusted' = Trusted /\ TheVersion' = TheVersion  BY <1>1 DEF Trusted, TheVersion
<1>7. Base \in Nat  BY <1>1, ReadIsIn
<1>8. slots[s].base = Base /\ slots[s].base # NoBlock /\ slots[s].data \in [1 .. Block -> FileBytes]
  BY <1>2, <1>3, <1>4, <1>7, BoundsAssumption DEF Blocks
<1>9. session.state = "open" => BlockIs(slots[s].data, Base, BlockLength(Base), Trusted')
  BY <1>6, <1>8 DEF SlotsHeld
<1>10. Copied(slots[s].data)  BY <1>1, <1>4
<1>11. honest' \in BOOLEAN /\ (honest' => honest)  BY <1>1 DEF Types
<1>12. /\ readers' \in [Readers -> Nat]
       /\ read' \in [by : Readers \cup {0}, offset : Nat, left : Nat, got : Seq(FileBytes)]
       /\ last' \in [offset : Nat, bytes : Seq(FileBytes), sound : BOOLEAN]
       /\ ReadInside' /\ GotHeld' /\ Returned'
  BY <1>1, <1>5, <1>8, <1>9, <1>10, <1>11, CopiedIsRight
<1>13. Types'  BY <1>1, <1>12 DEF Types
<1>14. NothingYet' /\ AskedTwice' /\ PrefixHeld'
  BY <1>1, <1>5, <1>6 DEF NothingYet, AskedTwice, PrefixHeld, Begun
<1>15. SlotsHeld'
  <2>1. \A b : BlockLength(b)' = BlockLength(b)  BY <1>1 DEF BlockLength
  <2> QED  BY <1>1, <1>6, <2>1 DEF SlotsHeld
<1> QED  BY <1>12, <1>13, <1>14, <1>15

(* A block that has come, from the first bytes or from the server.           *)
LEMMA BlockCame ==
  ASSUME Inv, Reading, Begun, UNCHANGED <<World, session>>, NextVictim,
         honest' \in BOOLEAN, honest' => honest,
         NEW data \in Seq(FileBytes), Len(data) = BlockLength(Base),
         session.state = "open" => BlockIs(data, Base, BlockLength(Base), Trusted'),
         slots' = Stored(Base, data), Copied(Filled(data))
  PROVE  Inv'
<1> USE DEF Inv
<1>1. Base \in Nat /\ Base < session.size  BY ReadIsIn
<1>2. BlockLength(Base) \in 1 .. Block  BY <1>1, BlockLengthIs
<1>3. /\ slots' \in [1 .. Slots -> Blocks] /\ SlotsHeld'
      /\ Filled(data) \in [1 .. Block -> FileBytes]
      /\ session.state = "open" => BlockIs(Filled(data), Base, BlockLength(Base), Trusted')
  BY <1>1, <1>2, StoredIsRight
<1>4. /\ readers' \in [Readers -> Nat]
      /\ read' \in [by : Readers \cup {0}, offset : Nat, left : Nat, got : Seq(FileBytes)]
      /\ last' \in [offset : Nat, bytes : Seq(FileBytes), sound : BOOLEAN]
      /\ ReadInside' /\ GotHeld' /\ Returned'
  BY <1>3, CopiedIsRight
<1>5. victim' \in 1 .. Slots
  BY VictimIs DEF Types
<1>6. Types'  BY <1>3, <1>4, <1>5 DEF Types, World
<1>7. Trusted \subseteq Trusted' /\ TheVersion' = TheVersion  BY TrustStays
<1>8. NothingYet' /\ AskedTwice'
  BY DEF NothingYet, AskedTwice, Begun, World
<1>9. PrefixHeld'
  BY <1>7, MoreTrusted DEF PrefixHeld, Begun
<1> QED  BY <1>3, <1>4, <1>6, <1>8, <1>9

LEMMA FromPrefixKeeps == ASSUME Inv, FromPrefix  PROVE Inv'
<1> USE DEF Inv
<1> DEFINE n == BlockLength(Base)
           final == Base + n
           data == SubSeq(session.prefix, Base + 1, final)
<1>1. /\ Reading /\ NextVictim /\ final <= Len(session.prefix)
      /\ slots' = Stored(Base, data) /\ Copied(Filled(data))
      /\ UNCHANGED <<World, session, honest>>
  BY DEF FromPrefix, Wanted, InPrefix, Base
<1>2. Begun  BY <1>1 DEF NothingYet
<1>3. Base \in Nat /\ Base < session.size  BY <1>1, ReadIsIn
<1>4. n \in 1 .. Block /\ n \in Nat  BY <1>3, BlockLengthIs, BoundsAssumption
<1>5. session.prefix \in Seq(FileBytes) /\ AllAre(session.prefix, 0, Trusted)
  BY <1>2 DEF Types, PrefixHeld
<1> HIDE DEF n, Base
<1>6. /\ data \in Seq(FileBytes) /\ Len(data) = n
      /\ \A k \in 1 .. n : data[k] = session.prefix[Base + k] /\ Base + k \in 1 .. Len(session.prefix)
  BY <1>1, <1>3, <1>4, <1>5
<1> HIDE DEF data
<1>7. honest' \in BOOLEAN /\ honest' = honest /\ Trusted' = Trusted
  BY <1>1 DEF Types, Trusted, TheVersion
<1>8. BlockIs(data, Base, n, Trusted')
  <2>1. ASSUME NEW k \in 1 .. n  PROVE Is(data[k], Base + k - 1, Trusted)
    <3> DEFINE i == Base + k
    <3>1. i \in DOMAIN session.prefix /\ 0 + i - 1 = Base + k - 1 /\ data[k] = session.prefix[i]
      BY <1>3, <1>4, <1>5, <1>6
    <3> HIDE DEF i
    <3>2. Is(session.prefix[i], 0 + i - 1, Trusted)  BY <1>5, <3>1 DEF AllAre
    <3> QED  BY <3>1, <3>2
  <2> QED  BY <1>7, <2>1 DEF BlockIs
<1> QED  BY <1>1, <1>2, <1>6, <1>7, <1>8, BlockCame DEF n

LEMMA FetchKeeps == ASSUME Inv, Fetch  PROVE Inv'
<1> USE DEF Inv
<1> DEFINE n == BlockLength(Base)
<1>1. /\ Reading /\ ~Failed /\ NextVictim /\ UNCHANGED World
      /\ \E reply \in Replies(Base, n, session.etag) :
          /\ Request(Base, n, reply)
          /\ IF Exact(reply, Base, n)
             THEN slots' = Stored(Base, reply.body) /\ Copied(Filled(reply.body)) /\ UNCHANGED session
             ELSE ReadFails(Base) /\ session' = [session EXCEPT !.state = "failed"]
  BY DEF Fetch, Wanted, Base
<1>2. PICK reply \in Replies(Base, n, session.etag) :
          /\ Request(Base, n, reply)
          /\ IF Exact(reply, Base, n)
             THEN slots' = Stored(Base, reply.body) /\ Copied(Filled(reply.body)) /\ UNCHANGED session
             ELSE ReadFails(Base) /\ session' = [session EXCEPT !.state = "failed"]
  BY <1>1
<1>3. Begun /\ session.state = "open"  BY <1>1 DEF NothingYet, Failed, Begun
<1>4. Base \in Nat /\ Base < session.size  BY <1>1, ReadIsIn
<1>5. n \in 1 .. Block /\ n \in Nat \ {0}  BY <1>4, BlockLengthIs, BoundsAssumption
<1>6. honest' = (honest /\ (reply.body = <<>> \/ (reply.etag # 0 /\ reply.etag = disk)))
  BY <1>2 DEF Request
<1>7. honest' \in BOOLEAN /\ (honest' => honest)  BY <1>6 DEF Types
<1>8. CASE Exact(reply, Base, n)
  <2>0. session.etag \in Nat  BY DEF Types
  <2>1. /\ reply \in ReplyType
        /\ reply.body # <<>> => disk # 0 /\ \A k \in DOMAIN reply.body : reply.body[k].version = disk
        /\ reply.status = 206 =>
             /\ reply.body # <<>> /\ AreTheBytesAt(reply.first, reply.body)
             /\ reply.etag # 0 => reply.etag = row.version /\ session.etag \in {0, row.version}
    <3> HIDE DEF n, Base
    <3> QED  BY <1>4, <1>5, <2>0, Replied
  <2>2. reply.status = 206 /\ reply.first = Base /\ Len(reply.body) = n
    BY <1>8 DEF Exact
  <2>3. reply.body \in Seq(FileBytes)  BY <2>1 DEF ReplyType
  <2>4. /\ AreTheBytesAt(Base, reply.body)
        /\ \A k \in DOMAIN reply.body : reply.body[k].version = disk
    BY <2>1, <2>2
  <2>5. session' = session /\ Trusted \subseteq Trusted' /\ TheVersion' = TheVersion
    BY <1>2, <1>3, <1>7, <1>8, TrustStays
  <2>6. honest' => disk = TheVersion
    BY <1>3, <1>6, <2>1, <2>2 DEF PrefixHeld
  <2>7. disk \in Trusted'
    BY <2>5, <2>6 DEF Trusted, Types
  <2>8. BlockIs(reply.body, Base, n, Trusted')
    <3> HIDE DEF n, Base
    <3>1. DOMAIN reply.body = 1 .. n  BY <2>2, <2>3
    <3> QED  BY <2>4, <2>7, <3>1 DEF BlockIs, Is, AreTheBytesAt
  <2>9. slots' = Stored(Base, reply.body) /\ Copied(Filled(reply.body)) /\ UNCHANGED session
    BY <1>2, <1>8
  <2> QED  BY <1>1, <1>3, <1>7, <2>2, <2>3, <2>8, <2>9, BlockCame
<1>9. CASE ~Exact(reply, Base, n)
  <2>1. ReadFails(Base) /\ session' = [session EXCEPT !.state = "failed"]  BY <1>2, <1>9
  <2>2. /\ slots' \in [1 .. Slots -> Blocks]
        /\ readers' \in [Readers -> Nat]
        /\ read' \in [by : Readers \cup {0}, offset : Nat, left : Nat, got : Seq(FileBytes)]
        /\ last' \in [offset : Nat, bytes : Seq(FileBytes), sound : BOOLEAN]
        /\ session' \in [state : States, size : Nat, etag : Nat, prefix : Seq(FileBytes)]
        /\ NothingYet' /\ AskedTwice' /\ ReadInside' /\ PrefixHeld' /\ SlotsHeld' /\ GotHeld' /\ Returned'
    BY <1>3, <1>4, <1>7, <2>1, FailsClean
  <2>3. victim' \in 1 .. Slots  BY <1>1, VictimIs DEF Types
  <2> QED  BY <1>1, <1>7, <2>2, <2>3 DEF Types, World
<1> QED  BY <1>8, <1>9

LEMMA FetchRefusedKeeps == ASSUME Inv, FetchRefused  PROVE Inv'
<1> USE DEF Inv
<1>1. /\ Reading /\ Failed /\ NextVictim /\ ReadFails(Base) /\ UNCHANGED <<World, session, honest>>
  BY DEF FetchRefused, Wanted, Base
<1>2. Begun  BY <1>1 DEF Failed, Begun
<1>3. Base \in Nat  BY <1>1, ReadIsIn
<1>4. session' = [session EXCEPT !.state = "failed"]
  BY <1>1 DEF Types, Failed
<1>5. honest' \in BOOLEAN /\ (honest' => honest)  BY <1>1 DEF Types
<1>6. /\ slots' \in [1 .. Slots -> Blocks]
      /\ readers' \in [Readers -> Nat]
      /\ read' \in [by : Readers \cup {0}, offset : Nat, left : Nat, got : Seq(FileBytes)]
      /\ last' \in [offset : Nat, bytes : Seq(FileBytes), sound : BOOLEAN]
      /\ session' \in [state : States, size : Nat, etag : Nat, prefix : Seq(FileBytes)]
      /\ NothingYet' /\ AskedTwice' /\ ReadInside' /\ PrefixHeld' /\ SlotsHeld' /\ GotHeld' /\ Returned'
  BY <1>1, <1>2, <1>3, <1>4, <1>5, FailsClean
<1>7. victim' \in 1 .. Slots  BY <1>1, VictimIs DEF Types
<1> QED  BY <1>1, <1>5, <1>6, <1>7 DEF Types, World

(* ---- the theorems ------------------------------------------------------- *)
LEMMA StepKeeps == ASSUME Careful, Inv, [Next]_vars  PROVE Inv'
<1>1. ASSUME NEW r \in Readers, NEW n \in 1 .. 2 * Block, StartRead(r, n)  PROVE Inv'
  BY <1>1, StartReadKeeps
<1>2. ASSUME NEW r \in Readers, NEW position \in 0 .. Sizes[1], Seek(r, position)  PROVE Inv'
  <2>1. position \in Nat  BY SizesAssumption
  <2> QED  BY <1>2, <2>1, SeekKeeps
<1>3. CASE UNCHANGED vars
  BY <1>3, WorldMoves DEF vars, Inv, Types
<1> QED
  BY <1>1, <1>2, <1>3, ReplaceKeeps, RescanKeeps, DiscoverKeeps, ProbeKeeps, RefetchKeeps,
     CopyBlockKeeps, FromPrefixKeeps, FetchKeeps, FetchRefusedKeeps DEF Next

LEMMA Invariantly == ASSUME Careful  PROVE Spec => []Inv
<1>1. Init => Inv  BY Initially
<1>2. Inv /\ [Next]_vars => Inv'  BY StepKeeps
<1> QED  BY <1>1, <1>2, PTL DEF Spec

(* While the session lasts a read returns the bytes of the very offsets it   *)
(* asked for (http_source.c, the block cache of mpak.c), whatever the cache  *)
(* has thrown out, the server sent and the requests lost.                    *)
THEOREM ReadsReturnTheRightBytes ==
  ASSUME Careful
  PROVE  Spec => []SoundReadsAreTrue
<1>1. Inv => SoundReadsAreTrue
  <2> SUFFICES ASSUME Inv, last.sound  PROVE AreTheBytesAt(last.offset, last.bytes)
    BY DEF SoundReadsAreTrue
  <2> QED  BY DEF Inv, NothingYet, Returned, AllAre, Is, AreTheBytesAt
<1> QED  BY <1>1, Invariantly, PTL

(* And all of them are of the version of the file the session began with, as *)
(* long as validators name the bytes they come with.                         *)
THEOREM ReadsAreOfOneVersion ==
  ASSUME Careful
  PROVE  Spec => []NothingIsMixed
<1>1. Inv => NothingIsMixed
  BY DEF Inv, NothingYet, Returned, AllAre, Is, Begun, Trusted, TheVersion, NothingIsMixed
<1> QED  BY <1>1, Invariantly, PTL

(* ---- what the server answers -------------------------------------------- *)
(* A header selects exactly the offsets it names, or is refused when it      *)
(* names none.                                                               *)
Selects(part, named) ==
  IF part = Refused THEN named = {}
  ELSE part.first \in Nat /\ part.n \in Nat \ {0} /\ named = part.first .. part.first + part.n - 1

LEMMA SuffixSelects ==
  ASSUME NEW size \in Nat \ {0}, NEW m \in Nat
  PROVE  Selects(Parse([kind |-> "suffix", n |-> m], size), Named([kind |-> "suffix", n |-> m], size))
<1> DEFINE h == [kind |-> "suffix", n |-> m]
           l == Least(m, size)
<1>1. h.kind = "suffix" /\ h.n = m  OBVIOUS
<1> SUFFICES Selects(Parse(h, size), Named(h, size))  OBVIOUS
<1> HIDE DEF h
<1>2. Named(h, size) = {i \in 0 .. size - 1 : i + m >= size}  BY <1>1 DEF Named
<1>3. Parse(h, size) = IF m = 0 THEN Refused ELSE Selected(size - l, l)
  BY <1>1 DEF Parse
<1>4. CASE m = 0
  BY <1>2, <1>3, <1>4 DEF Selects
<1>5. CASE m # 0
  <2>1. l \in Nat \ {0} /\ l <= size /\ l \in {m, size} /\ l <= m  BY <1>5 DEF Least
  <2> HIDE DEF l
  <2>2. Parse(h, size) = [first |-> size - l, n |-> l]  BY <1>3, <1>5 DEF Selected
  <2>3. Parse(h, size) # Refused  BY <2>1, <2>2 DEF Refused
  <2>4. Named(h, size) = (size - l) .. (size - l + l - 1)
    <3>1. \A i \in 0 .. size - 1 : i + m >= size <=> size - l <= i  BY <2>1
    <3> QED  BY <1>2, <2>1, <3>1
  <2> QED  BY <2>1, <2>2, <2>3, <2>4 DEF Selects
<1> QED  BY <1>4, <1>5

LEMMA FromSelects ==
  ASSUME NEW size \in Nat \ {0}, NEW f \in Nat
  PROVE  Selects(Parse([kind |-> "from", first |-> f], size), Named([kind |-> "from", first |-> f], size))
<1> DEFINE h == [kind |-> "from", first |-> f]
<1>1. h.kind = "from" /\ h.first = f  OBVIOUS
<1> SUFFICES Selects(Parse(h, size), Named(h, size))  OBVIOUS
<1> HIDE DEF h
<1>2. Named(h, size) = {i \in 0 .. size - 1 : i >= f}  BY <1>1 DEF Named
<1>3. Parse(h, size) = IF f >= size THEN Refused ELSE [first |-> f, n |-> size - f]
  BY <1>1 DEF Parse, Selected
<1>4. CASE f >= size
  BY <1>2, <1>3, <1>4 DEF Selects
<1>5. CASE ~(f >= size)
  <2>1. size - f \in Nat \ {0}  BY <1>5
  <2>2. Parse(h, size) = [first |-> f, n |-> size - f]  BY <1>3, <1>5
  <2>3. Parse(h, size) # Refused  BY <2>1, <2>2 DEF Refused
  <2>4. Named(h, size) = f .. (f + (size - f) - 1)  BY <1>2
  <2> QED  BY <2>1, <2>2, <2>3, <2>4 DEF Selects
<1> QED  BY <1>4, <1>5

LEMMA SpanNames ==
  ASSUME NEW size \in Nat \ {0}, NEW f \in Nat, NEW l \in Nat
  PROVE  Selects(Parse(Span(f, l), size), Named(Span(f, l), size))
<1> DEFINE h == Span(f, l)
           part == Parse(h, size)
<1>1. h.kind = "span" /\ h.first = f /\ h.final = l  BY DEF Span
<1>2. \/ part = Refused /\ (f >= size \/ l < f)
      \/ /\ part.first = f /\ part.n \in Nat \ {0} /\ f + part.n <= size
         /\ part # Refused /\ f <= l /\ part.n <= l - f + 1
         /\ f + part.n = size \/ part.n = l - f + 1
  BY SpanSelects
<1> SUFFICES Selects(part, Named(h, size))  OBVIOUS
<1> HIDE DEF h, part
<1>3. Named(h, size) = {i \in 0 .. size - 1 : f <= i /\ i <= l}  BY <1>1 DEF Named
<1>4. CASE part = Refused /\ (f >= size \/ l < f)
  BY <1>3, <1>4 DEF Selects
<1>5. CASE /\ part.first = f /\ part.n \in Nat \ {0} /\ f + part.n <= size
           /\ part # Refused /\ f <= l /\ part.n <= l - f + 1
           /\ f + part.n = size \/ part.n = l - f + 1
  <2> DEFINE n == part.n
  <2>1. n \in Nat \ {0} /\ f + n <= size /\ n <= l - f + 1 /\ (f + n = size \/ n = l - f + 1)
    BY <1>5
  <2> HIDE DEF n
  <2>2. \A i \in 0 .. size - 1 : (f <= i /\ i <= l) <=> (f <= i /\ i <= f + n - 1)  BY <2>1
  <2>3. Named(h, size) = f .. (f + n - 1)  BY <1>3, <2>1, <2>2
  <2> QED  BY <1>5, <2>3 DEF Selects, n
<1> QED  BY <1>2, <1>4, <1>5

LEMMA HeaderSelects ==
  ASSUME NEW size \in Nat \ {0}, NEW h \in Headers, h # NoRange
  PROVE  Selects(Parse(h, size), Named(h, size))
<1>0. Largest \in Nat  BY SizesAssumption DEF Largest
<1>1. CASE \E n \in 0 .. Largest : h = [kind |-> "suffix", n |-> n]
  BY <1>0, <1>1, SuffixSelects
<1>2. CASE \E f \in 0 .. Largest : h = [kind |-> "from", first |-> f]
  BY <1>0, <1>2, FromSelects
<1>3. CASE \E f \in 0 .. Largest, l \in 0 .. Largest : h = Span(f, l)
  BY <1>0, <1>3, SpanNames
<1>4. CASE h = [kind |-> "bad"]
  <2>1. h.kind = "bad"  BY <1>4
  <2> QED  BY <2>1 DEF Parse, Named, Selects
<1> QED  BY <1>1, <1>2, <1>3, <1>4 DEF Headers

(* The file and its row are what they may be, and the server stays itself.   *)
WorldTypes ==
  /\ server \in Servers
  /\ disk \in 0 .. Len(Sizes) /\ row \in [version : Versions, served : BOOLEAN]
LEMMA WorldTyped == Spec => []WorldTypes
<1>1. Init => WorldTypes
  BY SizesAssumption DEF Init, WorldTypes, Versions
<1>2. ASSUME WorldTypes, [Next]_vars  PROVE WorldTypes'
  <2> USE DEF WorldTypes
  <2>1. CASE Replace  BY <1>2, <2>1 DEF Replace
  <2>2. CASE Rescan
    BY <1>2, <2>2, SizesAssumption DEF Rescan, Versions
  <2>3. CASE UNCHANGED <<server, disk, row>>  BY <1>2, <2>3
  <2> QED
    BY <1>2, <2>1, <2>2, <2>3 DEF Next, vars, World, Discover, Probe, Refetch, StartRead, Seek,
       CopyBlock, FromPrefix, Fetch, FetchRefused
<1> QED  BY <1>1, <1>2, PTL DEF Spec

(* The server answers a range with the bytes of the file it names            *)
(* (api.c:serve_file, range.c), refuses one that names none, and sends the   *)
(* whole file to a client whose validator is out of date.                    *)
THEOREM RangesAreAnsweredExactly == Spec => []AnswersWhatWasAsked
<1>1. ASSUME WorldTypes  PROVE AnswersWhatWasAsked
  <2> SUFFICES ASSUME NEW h \in Headers, NEW held \in {0} \cup Versions
      PROVE LET reply == Answer(h, held, 0)
            IN reply.status \in {200, 206, 416} =>
               LET sent == {reply.body[k].at : k \in DOMAIN reply.body}
               IN /\ reply.status = 206 => sent = Named(h, Sizes[disk]) /\ AreTheBytesAt(reply.first, reply.body)
                  /\ reply.status = 416 => Named(h, Sizes[disk]) = {} /\ h # NoRange
                  /\ reply.status = 200 => sent = 0 .. Sizes[disk] - 1
                  /\ server.etags /\ held \notin {0, row.version} => reply.status = 200
    BY DEF AnswersWhatWasAsked
  <2> DEFINE size == Sizes[disk]
             part == Parse(h, size)
             reply == Answer(h, held, 0)
             sent == {reply.body[k].at : k \in DOMAIN reply.body}
  <2>1. row.version # 0 /\ disk \in Nat  BY SizesAssumption, <1>1 DEF WorldTypes, Versions
  <2>2. ASSUME NEW f \in Nat, NEW n \in Nat \ {0}
        PROVE  LET body == Bytes(disk, f, n)
               IN /\ {body[k].at : k \in DOMAIN body} = f .. f + n - 1
                  /\ AreTheBytesAt(f, body)
    <3> DEFINE body == Bytes(disk, f, n)
    <3>1. DOMAIN body = 1 .. n /\ \A k \in 1 .. n : body[k] = [version |-> disk, at |-> f + k - 1]
      BY <2>1, BytesAre
    <3> HIDE DEF body
    <3>2. \A k \in 1 .. n : body[k].at = f + k - 1  BY <3>1
    <3>3. \A i \in f .. f + n - 1 : i - f + 1 \in 1 .. n /\ i = f + (i - f + 1) - 1  OBVIOUS
    <3>4. {body[k].at : k \in 1 .. n} = f .. f + n - 1
      <4>1. ASSUME NEW k \in 1 .. n  PROVE body[k].at \in f .. f + n - 1  BY <3>2
      <4>2. ASSUME NEW i \in f .. f + n - 1  PROVE \E k \in 1 .. n : i = body[k].at
        <5> DEFINE k == i - f + 1
        <5>1. k \in 1 .. n /\ i = f + k - 1  OBVIOUS
        <5> HIDE DEF k
        <5> QED  BY <3>2, <5>1
      <4> QED  BY <4>1, <4>2
    <3> QED  BY <3>1, <3>2, <3>4 DEF body, AreTheBytesAt
  <2>3. CASE ~row.served \/ disk = 0
    <3>1. reply = Reply(503, 0, <<>>, 0)  BY <2>3 DEF Answer
    <3>2. reply.status = 503  BY <3>1 DEF Reply
    <3> QED  BY <3>2
  <2>4. CASE row.served /\ disk # 0
    <3>1. size \in Nat \ {0}  BY <1>1, <2>4, SizesAssumption DEF WorldTypes
    <3>2. CASE h = NoRange \/ (server.etags /\ held \notin {0, row.version})
      <4>1. reply = Reply(200, 0, Bytes(disk, 0, size), 0)
        BY <2>1, <2>4, <3>2 DEF Answer, NoRange
      <4>2. reply.status = 200 /\ reply.body = Bytes(disk, 0, size)  BY <4>1 DEF Reply
      <4>3. {Bytes(disk, 0, size)[k].at : k \in DOMAIN Bytes(disk, 0, size)} = 0 .. 0 + size - 1
        BY <2>2, <3>1
      <4> HIDE DEF size, reply
      <4>4. sent = 0 .. size - 1  BY <3>1, <4>2, <4>3
      <4> QED  BY <4>2, <4>4 DEF size, reply
    <3>3. CASE h # NoRange /\ ~(server.etags /\ held \notin {0, row.version})
      <4>1. h.kind # "none"
        BY <3>3 DEF Headers, NoRange, Span
      <4>2. reply = IF part = Refused THEN Reply(416, 0, <<>>, 0)
                    ELSE Reply(206, part.first, Bytes(disk, part.first, part.n), size)
        <5> HIDE DEF part
        <5> QED  BY <2>1, <2>4, <3>3, <4>1 DEF Answer, part
      <4>3. Selects(part, Named(h, size))  BY <3>1, <3>3, HeaderSelects
      <4>4. CASE part = Refused
        <5>1. reply = Reply(416, 0, <<>>, 0)  BY <4>2, <4>4
        <5>2. reply.status = 416  BY <5>1 DEF Reply
        <5>3. Named(h, size) = {}  BY <4>3, <4>4 DEF Selects
        <5> HIDE DEF reply, part
        <5> QED  BY <3>3, <5>2, <5>3 DEF reply
      <4>5. CASE part # Refused
        <5> DEFINE f == part.first
                   n == part.n
        <5>1. f \in Nat /\ n \in Nat \ {0} /\ Named(h, size) = f .. f + n - 1
          BY <4>3, <4>5 DEF Selects
        <5>2. reply = Reply(206, f, Bytes(disk, f, n), size)  BY <4>2, <4>5
        <5>3. reply.status = 206 /\ reply.first = f /\ reply.body = Bytes(disk, f, n)
          BY <5>2 DEF Reply
        <5> HIDE DEF f, n, part
        <5>4. /\ {Bytes(disk, f, n)[k].at : k \in DOMAIN Bytes(disk, f, n)} = f .. f + n - 1
              /\ AreTheBytesAt(f, Bytes(disk, f, n))
          BY <2>2, <5>1
        <5> HIDE DEF reply, size
        <5>5. sent = Named(h, size) /\ AreTheBytesAt(reply.first, reply.body)
          BY <5>1, <5>3, <5>4
        <5> QED  BY <3>3, <5>3, <5>5 DEF reply, size
      <4> QED  BY <4>4, <4>5
    <3> QED  BY <3>2, <3>3
  <2> QED  BY <2>3, <2>4
<1> QED  BY <1>1, WorldTyped, PTL
==============================================================================
