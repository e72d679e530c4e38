----------------------------- MODULE RangeReader -----------------------------
(* Reading a file over HTTP: the server that answers byte ranges             *)
(* (server/src/api.c, range.c), the session that asks for them               *)
(* (mpakhttp/src/http_source.c), the block cache of the container and the    *)
(* readers on top of it (core/libmusicpack/src/mpak.c).  The file may be     *)
(* replaced, removed and rescanned while it is read, and requests may fail.  *)
(*                                                                           *)
(* A byte is the version of the file it belongs to and its offset.           *)
EXTENDS Naturals, Sequences, FiniteSets

CONSTANTS
  Sizes,       \* the sizes of the versions the file goes through
  Block,       \* bytes in a block of the cache
  Prefix,      \* bytes asked for when the session starts
  Slots,       \* blocks in the cache
  NoBlock,     \* the base of a slot that has held nothing
  MemberAt,    \* the offset of the member the readers read
  Readers,     \* the readers
  Servers,     \* what servers do: "etags" name the bytes, "totals" come with
               \* every part, it "strays" when it sends a part not asked for
  MaxChanges,  \* bound: changes of the file and of its database row
  MaxFaults,   \* bound: requests that fail or are answered wrongly
  MaxReads     \* bound: reads started

Versions == DOMAIN Sizes
ASSUME BoundsAssumption ==
  /\ Block \in Nat \ {0} /\ Prefix \in Nat \ {0} /\ Slots \in Nat \ {0} /\ MemberAt \in Nat
  /\ NoBlock \notin Nat
  /\ MaxChanges \in Nat /\ MaxFaults \in Nat /\ MaxReads \in Nat
ASSUME SizesAssumption == Sizes \in Seq(Nat \ {0}) /\ Sizes # <<>>
ASSUME ServersAssumption ==
  Servers \subseteq [etags : BOOLEAN, totals : BOOLEAN, strays : BOOLEAN]

VARIABLES
  server,   \* what the server does
  disk,     \* the version in the file, 0 when there is none
  row,      \* the version the server's database knows
  session,  \* the HTTP session
  slots, victim,  \* the cache
  readers,  \* per reader: its position in the member
  read,     \* the read in progress
  last,     \* the last read that succeeded
  honest,   \* whether every validator so far has named the bytes it came with
  requests, changes, faults, reads
vars == <<server, disk, row, session, slots, victim, readers, read, last, honest,
          requests, changes, faults, reads>>

Byte(v, i) == [version |-> v, at |-> i]
Bytes(v, first, n) == [k \in 1 .. n |-> Byte(v, first + k - 1)]
Least(a, b) == IF a < b THEN a ELSE b

(* ---- the server --------------------------------------------------------- *)
(* A Range header: none, from an offset on, a span, the last bytes, or one   *)
(* that does not parse (several ranges, another unit, a number too large).   *)
NoRange == [kind |-> "none"]
Span(first, final) == [kind |-> "span", first |-> first, final |-> final]

(* What the header selects of a file, or the refusal.                        *)
Selected(first, n) == [first |-> first, n |-> n]
Refused == [first |-> 0, n |-> 0]
ParseOneBeyond(h, size) ==
  CASE h.kind = "suffix" -> IF h.n = 0 THEN Refused ELSE Selected(size - Least(h.n, size), Least(h.n, size))
    [] h.kind = "from" -> IF h.first >= size THEN Refused ELSE Selected(h.first, size - h.first)
    [] h.kind = "span" ->
         IF h.first >= size \/ h.final < h.first THEN Refused
         ELSE Selected(h.first, Least(h.final, size) - h.first + 1)
    [] OTHER -> Refused
Parse(h, size) ==
  CASE h.kind = "suffix" ->
         IF h.n = 0 \/ size = 0 THEN Refused
         ELSE LET n == Least(h.n, size) IN Selected(size - n, n)
    [] h.kind = "from" ->
         IF h.first >= size THEN Refused ELSE Selected(h.first, size - h.first)
    [] h.kind = "span" ->
         IF h.first >= size \/ h.final < h.first THEN Refused
         ELSE Selected(h.first, Least(h.final, size - 1) - h.first + 1)
    [] OTHER -> Refused

(* A reply: status, offset and body, the total size when the server gives    *)
(* it, the validator (0 for none).                                           *)
Reply(status, first, body, total) ==
  [status |-> status, first |-> first, body |-> body, total |-> total,
   etag |-> IF server.etags THEN row.version ELSE 0]
Failure == [status |-> 0, first |-> 0, body |-> <<>>, total |-> 0, etag |-> 0]

(* The whole handler.  The validator comes from the database, the bytes and  *)
(* the total from the file; a range is honoured only under the validator the *)
(* client holds.                                                             *)
AnswerUnderAnyValidator(h, ifRange, ifNoneMatch) ==
  LET part == Parse(h, Sizes[disk])
  IN IF ~row.served \/ disk = 0 THEN Reply(503, 0, <<>>, 0)
     ELSE IF h.kind = "none" THEN Reply(200, 0, Bytes(disk, 0, Sizes[disk]), 0)
     ELSE IF part = Refused THEN Reply(416, 0, <<>>, 0)
     ELSE Reply(206, part.first, Bytes(disk, part.first, part.n), Sizes[disk])
Answer(h, ifRange, ifNoneMatch) ==
  LET size == Sizes[disk]
      part == Parse(h, size)
  IN IF ~row.served \/ disk = 0 THEN Reply(503, 0, <<>>, 0)
     ELSE IF server.etags /\ ifNoneMatch = row.version THEN Reply(304, 0, <<>>, 0)
     ELSE IF h.kind = "none" \/ (server.etags /\ ifRange \notin {0, row.version})
     THEN Reply(200, 0, Bytes(disk, 0, size), 0)
     ELSE IF part = Refused THEN Reply(416, 0, <<>>, 0)
     ELSE Reply(206, part.first, Bytes(disk, part.first, part.n), size)

(* The file is replaced or removed; a scan brings the database up to it.     *)
Replace ==
  /\ changes < MaxChanges /\ changes' = changes + 1
  /\ disk' \in (0 .. Len(Sizes)) \ {disk}
  /\ UNCHANGED <<server, row, session, slots, victim, readers, read, last, honest,
                 requests, faults, reads>>
Rescan ==
  /\ row # [version |-> IF disk = 0 THEN row.version ELSE disk, served |-> disk # 0]
  /\ row' = [version |-> IF disk = 0 THEN row.version ELSE disk, served |-> disk # 0]
  /\ UNCHANGED <<server, disk, session, slots, victim, readers, read, last, honest,
                 requests, changes, faults, reads>>

(* ---- one request -------------------------------------------------------- *)
(* What may come back: the answer, with its total left out where the server  *)
(* does not always give it; no answer at all; a part that was not asked for. *)
Replies(first, n, ifRange) ==
  LET good == Answer(Span(first, first + n - 1), ifRange, 0)
  IN {good} \cup (IF server.totals THEN {} ELSE {[good EXCEPT !.total = 0]})
       \cup (IF faults = MaxFaults THEN {}
             ELSE {Failure})
       \cup (IF faults = MaxFaults \/ ~server.strays \/ good.status # 206 THEN {}
             ELSE {[good EXCEPT !.first = @ + 1, !.body = Bytes(disk, first + 1, n)]})

Request(first, n, reply) ==
  LET good == Answer(Span(first, first + n - 1), session.etag, 0)
  IN /\ reply \in Replies(first, n, session.etag)
     /\ requests' = requests + 1
     /\ faults' = IF reply \in {good, [good EXCEPT !.total = 0]} THEN faults ELSE faults + 1
     /\ honest' = (honest /\ (reply.body = <<>> \/ (reply.etag # 0 /\ reply.etag = disk)))

(* ---- the session -------------------------------------------------------- *)
NoSession == [state |-> "none", size |-> 0, etag |-> 0, prefix |-> <<>>]
Refuse == session' = [NoSession EXCEPT !.state = "refused"]
Opened(size, reply) ==
  session' = [state |-> "open", size |-> size, etag |-> reply.etag, prefix |-> reply.body]
Client == <<slots, victim, readers, read, last>>
World == <<server, disk, row, changes, reads>>

(* Discovery asks for the first bytes.  A total left open is settled by a    *)
(* short body; otherwise one byte is asked for, and then the first bytes     *)
(* again.                                                                    *)
Discover ==
  /\ session.state = "none"
  /\ \E reply \in Replies(0, Prefix, 0) :
       /\ Request(0, Prefix, reply)
       /\ IF reply.status # 206 \/ reply.first # 0 THEN Refuse
          ELSE IF reply.total # 0
          THEN IF Len(reply.body) = Least(Prefix, reply.total) THEN Opened(reply.total, reply) ELSE Refuse
          ELSE IF Len(reply.body) < Prefix THEN Opened(Len(reply.body), reply)
          ELSE session' = [NoSession EXCEPT !.state = "probe"]
  /\ UNCHANGED <<World, Client>>
Probe ==
  /\ session.state = "probe"
  /\ \E reply \in Replies(0, 1, 0) :
       /\ Request(0, 1, reply)
       /\ IF reply.status # 206 \/ reply.first # 0 \/ Len(reply.body) # 1 \/ reply.total = 0 THEN Refuse
          ELSE session' = [NoSession EXCEPT !.state = "refetch", !.size = reply.total]
  /\ UNCHANGED <<World, Client>>
Refetch ==
  /\ session.state = "refetch"
  /\ \E reply \in Replies(0, Prefix, 0) :
       /\ Request(0, Prefix, reply)
       /\ IF Len(reply.body) = Prefix /\ Prefix <= session.size THEN Opened(session.size, reply) ELSE Refuse
  /\ UNCHANGED <<World, Client>>

(* A later reply is taken only when it is the very part asked for, of an     *)
(* object of the size discovered.                                            *)
ExactlyAsLong(reply, first, n) ==
  reply.status = 206 /\ Len(reply.body) = n /\ reply.total \in {0, session.size}
Exact(reply, first, n) ==
  /\ reply.status = 206
  /\ reply.first = first /\ Len(reply.body) = n
  /\ reply.total \in {0, session.size}
Failed == session.state = "failed"

(* ---- the cache and the readers ------------------------------------------ *)
Garbage == [k \in 1 .. Block |-> Byte(0, 0)]
NoRead == [by |-> 0, offset |-> 0, left |-> 0, got |-> <<>>]
Reading == read # NoRead
MemberSize == session.size - MemberAt
BaseOf(offset) == (offset \div Block) * Block
BlockLength(base) == Least(Block, session.size - base)

(* A reader asks for n bytes at its position; at the end of the member it    *)
(* gets none.                                                                *)
StartRead(r, n) ==
  /\ session.state \in {"open", "failed"} /\ ~Reading /\ reads < MaxReads
  /\ session.size > MemberAt /\ readers[r] < MemberSize
  /\ read' = [by |-> r, offset |-> MemberAt + readers[r],
              left |-> Least(n, MemberSize - readers[r]), got |-> <<>>]
  /\ reads' = reads + 1
  /\ UNCHANGED <<server, disk, row, changes, session, slots, victim, readers, last, honest,
                 requests, faults>>
Seek(r, position) ==
  /\ session.state \in {"open", "failed"} /\ ~Reading
  /\ position # readers[r] /\ position <= MemberSize /\ session.size > MemberAt
  /\ readers' = [readers EXCEPT ![r] = position]
  /\ UNCHANGED <<World, session, slots, victim, read, last, honest, requests, faults>>

(* A block in the cache is copied from; the read ends when nothing is left,  *)
(* and only then does its reader move.                                       *)
Copied(data) ==
  LET base == BaseOf(read.offset)
      from == read.offset - base
      take == Least(read.left, Least(Block - from, session.size - base - from))
      got == read.got \o SubSeq(data, from + 1, from + take)
  IN IF take < read.left
     THEN /\ read' = [read EXCEPT !.offset = @ + take, !.left = @ - take, !.got = got]
          /\ UNCHANGED <<readers, last>>
     ELSE /\ read' = NoRead
          /\ readers' = [readers EXCEPT ![read.by] = @ + Len(got)]
          /\ last' = [offset |-> MemberAt + readers[read.by], bytes |-> got, sound |-> ~Failed]
Cached(base) == \E s \in DOMAIN slots : slots[s].base = base
CopyBlock ==
  /\ Reading /\ Cached(BaseOf(read.offset))
  /\ Copied((CHOOSE b \in {slots[s] : s \in DOMAIN slots} : b.base = BaseOf(read.offset)).data)
  /\ UNCHANGED <<World, session, slots, victim, honest, requests, faults>>

(* A block that is not cached takes the place of the oldest.  The slot has   *)
(* its new label before the bytes have come, and keeps it when they do not.  *)
Labelled(base) == [slots EXCEPT ![victim].base = base]
Filled(data) ==  \* a short last block leaves the rest of the buffer alone
  [k \in 1 .. Block |-> IF k <= Len(data) THEN data[k] ELSE slots[victim].data[k]]
Stored(base, data) == [slots EXCEPT ![victim] = [base |-> base, data |-> Filled(data)]]
Wanted == Reading /\ ~Cached(BaseOf(read.offset))
NextVictim == victim' = (victim % Slots) + 1
ReadFails(base) ==
  /\ slots' = Labelled(base) /\ read' = NoRead
  /\ UNCHANGED <<readers, last>>
InPrefix(base) == base + BlockLength(base) <= Len(session.prefix)

FromPrefix ==
  /\ Wanted /\ ~Failed /\ InPrefix(BaseOf(read.offset)) /\ NextVictim
  /\ LET base == BaseOf(read.offset)
         data == SubSeq(session.prefix, base + 1, base + BlockLength(base))
     IN slots' = Stored(base, data) /\ Copied(Filled(data))
  /\ UNCHANGED <<World, session, honest, requests, faults>>
FetchAnyway ==
  /\ Wanted /\ ~InPrefix(BaseOf(read.offset)) /\ NextVictim
  /\ LET base == BaseOf(read.offset)
         n == BlockLength(base)
     IN \E reply \in Replies(base, n, session.etag) :
          /\ Request(base, n, reply)
          /\ IF Exact(reply, base, n)
             THEN slots' = Stored(base, reply.body) /\ Copied(Filled(reply.body)) /\ UNCHANGED session
             ELSE ReadFails(base) /\ session' = [session EXCEPT !.state = "failed"]
  /\ UNCHANGED World
Fetch ==
  /\ Wanted /\ ~Failed /\ ~InPrefix(BaseOf(read.offset)) /\ NextVictim
  /\ LET base == BaseOf(read.offset)
         n == BlockLength(base)
     IN \E reply \in Replies(base, n, session.etag) :
          /\ Request(base, n, reply)
          /\ IF Exact(reply, base, n)
             THEN slots' = Stored(base, reply.body) /\ Copied(Filled(reply.body)) /\ UNCHANGED session
             ELSE ReadFails(base) /\ session' = [session EXCEPT !.state = "failed"]
  /\ UNCHANGED World
FetchRefused ==
  /\ Wanted /\ Failed /\ NextVictim
  /\ ReadFails(BaseOf(read.offset))
  /\ UNCHANGED <<World, session, honest, requests, faults>>

Init ==
  /\ server \in Servers
  /\ disk = 1 /\ row = [version |-> 1, served |-> TRUE]
  /\ session = NoSession
  /\ slots = [s \in 1 .. Slots |-> [base |-> NoBlock, data |-> Garbage]] /\ victim = 1
  /\ readers = [r \in Readers |-> 0]
  /\ read = NoRead /\ last = [offset |-> 0, bytes |-> <<>>, sound |-> TRUE]
  /\ honest = TRUE
  /\ requests = 0 /\ changes = 0 /\ faults = 0 /\ reads = 0
Next ==
  \/ Replace \/ Rescan
  \/ Discover \/ Probe \/ Refetch
  \/ \E r \in Readers : \/ \E n \in 1 .. 2 * Block : StartRead(r, n)
                        \/ \E position \in 0 .. Sizes[1] : Seek(r, position)
  \/ CopyBlock \/ FromPrefix \/ Fetch \/ FetchRefused
Spec == Init /\ [][Next]_vars

(* ---- properties --------------------------------------------------------- *)
(* While the session has not failed, a read returns the bytes of the very    *)
(* offsets it asked for, whatever the cache has thrown out and whatever the  *)
(* server has sent in between.                                               *)
AreTheBytesAt(offset, bytes) == \A k \in DOMAIN bytes : bytes[k].at = offset + k - 1
SoundReadsAreTrue == last.sound => AreTheBytesAt(last.offset, last.bytes)

(* And they are all of one version, the one the session started with, as     *)
(* long as the server's validators name the bytes they come with.            *)
NothingIsMixed ==
  last.sound /\ honest /\ session.state \in {"open", "failed"} =>
    \A k \in DOMAIN last.bytes : last.bytes[k].version = session.prefix[1].version

(* A session that has failed sends nothing any more.                         *)
FailedSessionIsSilent == [][Failed => Failed' /\ requests' = requests]_vars

(* The server answers a range with the bytes of the file it names, no more   *)
(* and no fewer, whatever offsets a client writes down, and with the whole   *)
(* file when the client's validator is out of date.  (Whether a session runs *)
(* makes no difference to it.)                                               *)
Largest == 1 + Sizes[1] + Sizes[Len(Sizes)]
Headers ==
  {[kind |-> "suffix", n |-> n] : n \in 0 .. Largest}
  \cup {[kind |-> "from", first |-> f] : f \in 0 .. Largest}
  \cup {Span(f, l) : f \in 0 .. Largest, l \in 0 .. Largest}
  \cup {[kind |-> "bad"], NoRange}
Named(h, size) ==
  {i \in 0 .. size - 1 :
     CASE h.kind = "suffix" -> i + h.n >= size
       [] h.kind = "from" -> i >= h.first
       [] h.kind = "span" -> h.first <= i /\ i <= h.final
       [] OTHER -> FALSE}
AnswersWhatWasAsked ==
  session.state = "none" => \A h \in Headers, held \in {0} \cup Versions :
    LET reply == Answer(h, held, 0)
    IN reply.status \in {200, 206, 416} =>
         LET sent == {reply.body[k].at : k \in DOMAIN reply.body}
         IN /\ reply.status = 206 => sent = Named(h, Sizes[disk]) /\ AreTheBytesAt(reply.first, reply.body)
            /\ reply.status = 416 => Named(h, Sizes[disk]) = {} /\ h # NoRange
            /\ reply.status = 200 => sent = 0 .. Sizes[disk] - 1
            /\ server.etags /\ held \notin {0, row.version} => reply.status = 200

(* range.h: reads are exact.  mpak-http-range-design: once a transport error *)
(* occurs mid-read, the reader fails all subsequent reads.                   *)
ReadsAreTrue == AreTheBytesAt(last.offset, last.bytes)
==============================================================================
