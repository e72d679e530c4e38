----------------------------- MODULE Crossfade -----------------------------
(***************************************************************************)
(* A queue played in the browser with crossfades: the part of the player   *)
(* core that owns a track boundary (player.ts), the Musepack engine on the *)
(* main thread (musepack-engine.ts), one decoder worker per open track     *)
(* (decoder.worker.js) and the audio worklet (audio-worklet.ts).           *)
(*                                                                         *)
(* A unit of audio is one decoder chunk; the worklet renders one per step. *)
(* The main thread and the worklet talk over two queues.  A worker is      *)
(* deterministic and only answers, so its answer is computed when the main *)
(* thread takes it.  Continuations run to their next await in one step.    *)
(* "pause" to a worker has no effect (a "play" decodes at once) and rates, *)
(* channels and the resampler's fractions are left out.                    *)
(***************************************************************************)
EXTENDS Integers, Sequences, FiniteSets, Functions

CONSTANTS
  Lengths,       \* the queue: the length of each track, in units
  RingUnits,     \* RING_SECONDS
  Cap,           \* the listener's crossfade, in units; 0 is off
  Plans,         \* what the planner may choose: an overlap for each boundary,
                 \* of which 0 is gapless
  Lead,          \* PRIME_LEAD_SECONDS
  MaxReports,    \* how far the main thread may fall behind the worklet
  Incidents,     \* how many times the listener pauses or seeks, or a standby
                 \* fails to open
  Places,        \* where in a track the listener seeks to
  Disturbances   \* what else happens: see below

Tracks == DOMAIN Lengths
Last == Len(Lengths)

(* "seek": a seek while a fade or a handoff is in progress.  "pause": a    *)
(* pause while the decoder reaches the end of a track.  "long pause": a    *)
(* pause in a fade outlasts the engine's timers.  "slow open": the decoder *)
(* reaches an end while the next standby is being opened.  "slow decode":  *)
(* the worklet does not wait for anyone.                                   *)
AllDisturbances == {"seek", "pause", "long pause", "slow open", "slow decode"}

ASSUME CrossfadeAssumption ==
  /\ Lengths \in Seq(Nat \ {0}) /\ Len(Lengths) > 0
  /\ RingUnits \in Nat \ {0} /\ Cap \in Nat /\ Plans \subseteq [1..(Last - 1) -> 0..Cap]
  /\ Lead \in Nat /\ MaxReports \in Nat \ {0} /\ Incidents \in Nat /\ Places \subseteq Nat
  /\ Disturbances \subseteq AllDisturbances

VARIABLES
  main,      \* the player core and the engine: one thread
  worklet,   \* the audio thread
  heard,     \* the last unit of each track that sounded
  left       \* what is left of Incidents

vars == <<main, worklet, heard, left>>

None == [none |-> TRUE]
Least(a, b) == IF a < b THEN a ELSE b
Most(a, b) == IF a > b THEN a ELSE b

-----------------------------------------------------------------------------
(* The engine: handles, credits and the crossfade lane.                    *)

(* What each track's decoder has been asked and how far it has come.       *)
Handle(item) == [item |-> item, at |-> 0, spent |-> FALSE, eos |-> FALSE,
                 owes |-> FALSE, owedAt |-> 0, asked |-> <<>>]

Post(m, msg) == [m EXCEPT !.wire = Append(@, msg)]
Play(m, slot) == [m EXCEPT ![slot].asked = Append(@, [ask |-> "play", gen |-> m.gen])]

(* resumePumpingIfRequested: one credit at a time, none above high water.  *)
Pump(m) ==
  IF m.pumping /\ ~m.full /\ ~m.pull /\ ~m.moving /\ m.cur # None
  THEN Play([m EXCEPT !.pull = TRUE], "cur") ELSE m

(* One queued chunk goes to the lane when the last one was accepted.       *)
PumpLane(m) ==
  IF m.attempt = None \/ m.attempt.awaiting \/ m.attempt.q = <<>> THEN m
  ELSE Post([m EXCEPT !.attempt.q = Tail(@), !.attempt.awaiting = TRUE],
            [type |-> "xsamples", gen |-> m.gen, unit |-> Head(m.attempt.q),
             token |-> m.attempt.token])

(* xend: the lane's decode is complete and every chunk was credited.       *)
EndLane(m) ==
  LET a == m.attempt
  IN IF a = None \/ ~a.done \/ a.awaiting \/ a.q # <<>> \/ a.endSent THEN m
     ELSE Post([m EXCEPT !.attempt.endSent = TRUE],
               [type |-> "xend", gen |-> m.gen, token |-> a.token])

(* The lane is primed: the mix may start.                                  *)
Go(m) == Post([m EXCEPT !.attempt.ready = FALSE, !.attempt.phase = "mixing"],
              [type |-> "xfade-go", gen |-> m.gen, token |-> m.attempt.token])
Settle(m) ==
  LET a == m.attempt
  IN IF /\ a # None /\ a.ready
        /\ a.filled >= a.needed \/ (a.done /\ ~a.awaiting /\ a.q = <<>>)
     THEN Go(m) ELSE m

LaneAccepted(m, available) ==
  IF m.attempt = None THEN m
  ELSE LET a == PumpLane(EndLane([m EXCEPT !.attempt.awaiting = FALSE,
                                           !.attempt.filled = available]))
           b == IF ~a.attempt.done /\ ~a.attempt.awaiting /\ a.attempt.q = <<>>
                THEN Play(a, "stb") ELSE a
       IN Settle(b)

(* seek and open drop the attempt; who waited for it learns it failed.     *)
CancelAttempt(m) ==
  IF m.attempt = None THEN m
  ELSE Post([m EXCEPT !.attempt = None],
            [type |-> "xfade-cancel", gen |-> m.gen])

(* engine.seek on the current track; a promotion in flight is let go.      *)
EngineSeek(m, to) ==
  IF m.cur = None THEN m
  ELSE LET a == CancelAttempt(m)
           g == m.gen + 1
           b == [a EXCEPT !.gen = g, !.moving = TRUE, !.full = FALSE, !.pull = FALSE,
                          !.cur.owes = FALSE, !.cur.eos = FALSE, !.base = to,
                          !.stream = to, !.drained = FALSE,
                          !.cur.asked = Append(@, [ask |-> "seek", gen |-> g, to |-> to])]
       IN Post(b, [type |-> "reset", gen |-> g, track |-> m.cur.item, to |-> to])

(* engine.open up to its first await: both workers are being closed.       *)
EngineOpen(m) ==
  LET g == m.gen + 1
      a == CancelAttempt([m EXCEPT !.gen = g])
  IN Post([a EXCEPT !.pumping = FALSE, !.moving = TRUE, !.pull = FALSE,
                    !.cur = None, !.stb = None, !.opening = 0],
          [type |-> "reset", gen |-> g, track |-> m.cursor, to |-> 0])

(* prepareNext: the old standby goes at once, the new one opens later.     *)
Prepare(m, item) == [m EXCEPT !.stb = None, !.opening = item]

(* beginCrossfade up to its first await; refused without a fitting standby.*)
CanFade(m, item) == m.attempt = None /\ m.cur # None /\ m.stb # None /\ m.stb.item = item
EngineFade(m, units) ==
  LET token == m.tokens + 1
      a == [m EXCEPT !.tokens = token, !.stb.eos = FALSE,
              !.attempt = [token |-> token, phase |-> "priming", filled |-> 0,
                           needed |-> Least(Lengths[m.stb.item], units + 1),
                           q |-> <<>>, awaiting |-> FALSE, done |-> FALSE,
                           endSent |-> FALSE, ready |-> TRUE]]
  IN Play(Post(a, [type |-> "xfade", gen |-> m.gen, fade |-> units, token |-> token]),
          "stb")

\* A plausible slip: an end the lane has swallowed is not told again.
PromoteForgetsEnd(m, facts) ==
  [m EXCEPT !.attempt = None, !.stb = None, !.pull = FALSE,
            !.cur = [m.stb EXCEPT !.eos = FALSE, !.owes = FALSE],
            !.wire = @ \o [i \in DOMAIN m.attempt.q |->
              [type |-> "samples", gen |-> m.gen, unit |-> m.attempt.q[i]]]]

(* The swap is reported: the standby is promoted, with what it still owes. *)
Promote(m, facts) ==
  LET a == m.attempt
      h == m.stb
      owes == h.eos
      b == [m EXCEPT !.attempt = None, !.stb = None, !.pull = FALSE,
              !.cur = [h EXCEPT !.eos = FALSE, !.owes = owes,
                         !.owedAt = m.base + facts.boundary
                                    + Most(0, Lengths[h.item] - facts.incoming)]]
  IN [b EXCEPT !.wire = @ \o [i \in DOMAIN a.q |->
        [type |-> "samples", gen |-> m.gen, unit |-> a.q[i]]]]

-----------------------------------------------------------------------------
(* The player core at a boundary.                                          *)

OffsetOf(m, i) == FoldFunctionOnSet(+, 0, m.len, 1..(i - 1))
Position(m) == m.reset + (m.stream - m.base)
Total(m) == OffsetOf(m, Last) + m.len[Last]
IndexAt(m, pos) ==
  LET past == {i \in Tracks : pos >= OffsetOf(m, i)}
  IN IF past = {} THEN 1 ELSE CHOOSE i \in past : \A j \in past : j <= i
Remaining(m, i) == Most(0, OffsetOf(m, i) + m.len[i] - Position(m))
Fading(m) == m.fade # None
InEngine(m) == IF Fading(m) THEN m.fade.at = "engine" ELSE TRUE

GateStart(m) == Pump([m EXCEPT !.pumping = TRUE])
GateStop(m) == [m EXCEPT !.pumping = FALSE]

(* load(): a recovery opens the cursor's item afresh.                      *)
Load(m) ==
  EngineOpen([m EXCEPT !.seq = @ + 1, !.pendingEnded = FALSE, !.armed = FALSE,
                       !.mode = "loading", !.load = "opening"])

BeginFade(m, units, why) ==
  EngineFade([m EXCEPT !.fade =
                [why |-> why, from |-> m.cursor, at |-> "engine", seq |-> m.seq,
                 rest |-> Remaining(m, m.cursor), raw |-> m.len[m.cursor],
                 overlap |-> 0]],
             units)

(* The rendered clock: at most one step of catch-up, the trigger, the end. *)
CaughtUp(m) ==
  IF /\ m.mode = "playing" /\ IndexAt(m, Position(m)) > m.cursor /\ ~m.pendingEnded
     /\ ~Fading(m) /\ m.handoff = "none"
  THEN [m EXCEPT !.cursor = @ + 1] ELSE m
Triggered(m, idx, qi) ==
  LET rest == Remaining(m, idx)
      due == /\ ~m.armed /\ ~Fading(m) /\ ~m.pendingEnded /\ m.mode = "playing"
             /\ rest <= Cap /\ rest > 0 /\ qi # Last
             /\ m.plans[qi] > 0 /\ rest <= m.plans[qi] + Lead
      a == [m EXCEPT !.armed = TRUE]
  IN CASE ~due -> m
       [] due /\ ~CanFade(m, m.cursor + 1) -> a
       [] OTHER -> BeginFade(a, m.plans[qi], "position")
Finished(m) ==
  IF m.pendingEnded /\ (Position(m) >= Total(m) \/ m.drained)
  THEN [m EXCEPT !.mode = "ended", !.pendingEnded = FALSE, !.running = FALSE,
                 !.pumping = FALSE] ELSE m
Tick(m) ==
  LET idx == IndexAt(m, Position(m))
      checked == [m EXCEPT !.check = 0,
                    !.drift = @ \/ (m.check # 0 /\ m.check # idx)]
  IN Finished(Triggered(CaughtUp(checked), idx, m.cursor))

(* The rest of runEosBoundary once advance() has answered.                 *)
AfterAdvance(m, promoted) ==
  LET done == [m EXCEPT !.handoff = "none"]
      next == [m EXCEPT !.cursor = @ + 1]
  IN CASE m.handoffSeq # m.seq \/ m.paused -> done
       [] m.handoffSeq = m.seq /\ ~m.paused /\ m.cursor = Last ->
            Tick([done EXCEPT !.pendingEnded = TRUE, !.pumping = FALSE])
       [] m.handoffSeq = m.seq /\ ~m.paused /\ m.cursor # Last /\ ~promoted ->
            Load([next EXCEPT !.handoff = "loading"])
       [] OTHER ->
            IF next.cursor = Last
            THEN GateStart([next EXCEPT !.handoff = "none", !.mode = "playing"])
            ELSE Prepare([next EXCEPT !.handoff = "preparing"], next.cursor + 1)

(* The handoff itself: advance() refuses a standby that is not the next.   *)
Advance(m) ==
  IF m.cursor = Last \/ m.stb = None \/ m.stb.item # m.cursor + 1
  THEN AfterAdvance(m, FALSE)
  ELSE Post([m EXCEPT !.handoff = "ending", !.advanceGen = m.gen],
            [type |-> "end", gen |-> m.gen])

\* A plausible slip: the end of a fading track hands off as well.
EosInAFade(m) ==
  LET rest == Remaining(m, m.cursor)
      plan == IF m.cursor = Last THEN 0 ELSE Least(m.plans[m.cursor], rest)
      fades == /\ Cap > 0 /\ ~m.paused /\ ~m.pendingEnded /\ ~Fading(m)
               /\ plan > 0 /\ CanFade(m, m.cursor + 1)
  IN CASE fades -> BeginFade([m EXCEPT !.handoff = "fading", !.handoffSeq = m.seq],
                             plan, "eos")
       [] ~fades /\ m.paused -> m
       [] OTHER -> Advance([m EXCEPT !.handoffSeq = m.seq])

(* onEos: a last fade over what is buffered, or the gapless handoff.       *)
Eos(m) ==
  LET rest == Remaining(m, m.cursor)
      plan == IF m.cursor = Last THEN 0 ELSE Least(m.plans[m.cursor], rest)
      fades == /\ Cap > 0 /\ ~m.paused /\ ~m.pendingEnded /\ ~Fading(m)
               /\ plan > 0 /\ CanFade(m, m.cursor + 1)
  IN CASE fades -> BeginFade([m EXCEPT !.handoff = "fading", !.handoffSeq = m.seq],
                             plan, "eos")
       [] ~fades /\ (Fading(m) \/ m.paused) -> m
       [] OTHER -> Advance([m EXCEPT !.handoffSeq = m.seq])

(* beginCrossfade answered nothing: an end of stream hands off instead.    *)
FadeFailed(m) ==
  LET a == [m EXCEPT !.fade = None]
  IN CASE m.fade.why # "eos" -> a
       [] m.fade.why = "eos" /\ m.paused -> [a EXCEPT !.handoff = "none"]
       [] OTHER -> Advance(a)

(* The fade is over; an end-of-stream fade declares what it discarded.     *)
FadeEnded(m) ==
  LET f == m.fade
      a == [m EXCEPT !.fade = None]
  IN IF f.why # "eos" THEN a
     ELSE [a EXCEPT !.handoff = "none", !.len[f.from] = Most(0, f.raw - f.rest)]

(* The engine answered with the overlap: cursor, lengths, next standby.    *)
FadeTaken(m) ==
  LET f == m.fade
      next == f.from + 1
      a == [m EXCEPT !.cursor = next, !.armed = FALSE, !.check = next,
              !.len[f.from] = Most(0, f.raw - f.overlap), !.fade.at = "preparing"]
  IN CASE f.seq # m.seq -> FadeFailed(m)
       [] f.seq = m.seq /\ next = Last -> FadeEnded(a)
       [] OTHER -> Prepare(a, next + 1)


-----------------------------------------------------------------------------
(* The main thread: what the workers answer.                               *)

Decoded(m, slot, gen, unit) ==
  CASE gen # m.gen -> m
    [] gen = m.gen /\ slot = "cur" ->
         Post(m, [type |-> "samples", gen |-> m.gen, unit |-> unit])
    [] OTHER -> IF m.attempt = None THEN m
                ELSE PumpLane([m EXCEPT !.attempt.q = Append(@, unit)])

(* The decoder's one-shot end: of the lane, of a fading track, or a real   *)
(* boundary.                                                               *)
DecoderEnded(m, slot, gen) ==
  LET a == [m EXCEPT !.pull = FALSE]
      b == [a EXCEPT ![slot].eos = TRUE]
  IN CASE gen # m.gen -> m
       [] gen = m.gen /\ m[slot].eos -> a
       [] gen = m.gen /\ ~m[slot].eos /\ slot = "stb" ->
            IF m.attempt = None THEN b ELSE EndLane([b EXCEPT !.attempt.done = TRUE])
       [] OTHER ->
            CASE m.cur.owes -> Eos([b EXCEPT !.cur.owes = FALSE])
              [] ~m.cur.owes /\ m.attempt # None /\ m.attempt.phase = "mixing" -> b
              [] OTHER -> Eos(b)

(* The seek is done: the flow starts again, a load is over.                *)
Seeked(m, gen) ==
  IF gen # m.gen THEN m
  ELSE LET a == [m EXCEPT !.moving = FALSE,
                   !.handoff = IF m.load = "seeking" THEN "none" ELSE @, !.load = "none"]
       IN IF a.paused THEN a ELSE GateStart(a)

Answers(m, slot) ==
  LET h == m[slot]
      ask == Head(h.asked)
      a == [m EXCEPT ![slot].asked = Tail(@)]
  IN CASE ask.ask = "seek" ->
            Seeked([a EXCEPT ![slot].at = ask.to, ![slot].spent = FALSE], ask.gen)
       [] ask.ask = "play" /\ h.spent -> a
       [] ask.ask = "play" /\ ~h.spent /\ h.at = Lengths[h.item] ->
            DecoderEnded([a EXCEPT ![slot].spent = TRUE], slot, ask.gen)
       [] OTHER -> Decoded([a EXCEPT ![slot].at = @ + 1], slot, ask.gen,
                           [track |-> h.item, unit |-> h.at + 1])

(* A play that arrives while the decoder still reads has no effect.        *)
Missing(slot) ==
  LET asked == main[slot].asked
  IN IF Len(asked) < 2 \/ asked[1].ask # "play" \/ asked[2].ask # "play" THEN {}
     ELSE {[main EXCEPT ![slot].asked = <<Head(@)>> \o Tail(Tail(@))]}

(* A decoder's end is not taken while the next standby is being opened.    *)
WorkerAnswers(slot) ==
  /\ main[slot] # None /\ main[slot].asked # <<>>
  /\ \/ "slow open" \in Disturbances
     \/ main.opening = 0 /\ InEngine(main)
     \/ main[slot].at < Lengths[main[slot].item]
  /\ \E m \in {main} \cup Missing(slot) : main' = Answers(m, slot)
  /\ UNCHANGED <<worklet, heard, left>>

-----------------------------------------------------------------------------
(* The main thread: what the worklet reports.                              *)

Rendered(m, frames) ==
  LET a == [m EXCEPT !.stream = m.base + frames]
      owed == a.cur # None /\ a.cur.owes /\ a.stream >= a.cur.owedAt
  IN Tick(IF owed THEN Eos([a EXCEPT !.cur.owes = FALSE]) ELSE a)
Primed(m) ==
  LET a == [m EXCEPT !.drained = FALSE]
  IN IF m.mode \in {"loading", "buffering"}
     THEN [a EXCEPT !.running = TRUE, !.mode = IF m.paused THEN @ ELSE "playing"] ELSE a
Underrun(m) ==
  Pump([m EXCEPT !.drained = @ \/ (m.cur # None /\ m.cur.eos),
                 !.mode = IF @ \in {"loading", "buffering", "playing"} THEN "buffering"
                          ELSE @,
                 !.full = FALSE, !.pull = FALSE])
(* finishTrack is over: the standby is taken, the old worker is closed.    *)
TrackEnded(m) ==
  IF m.handoff # "ending" THEN m
  ELSE IF m.stb = None THEN AfterAdvance(m, FALSE)
  ELSE [m EXCEPT !.handoff = "closing", !.promoted = m.stb, !.stb = None, !.cur = None]
Swapped(m, r) ==
  IF m.attempt = None \/ m.attempt.token # r.token \/ m.attempt.phase # "mixing" THEN m
  ELSE [Promote(m, r) EXCEPT !.fade.at = "closing", !.fade.overlap = r.overlap]

Reported(m, r) ==
  CASE r.gen # m.gen -> m
    [] r.gen = m.gen /\ r.type = "rendered" -> Rendered(m, r.frames)
    [] r.gen = m.gen /\ r.type = "primed" -> Primed(m)
    [] r.gen = m.gen /\ r.type = "need" -> Pump([m EXCEPT !.drained = FALSE, !.full = FALSE])
    [] r.gen = m.gen /\ r.type = "full" -> [m EXCEPT !.full = TRUE]
    [] r.gen = m.gen /\ r.type = "underrun" -> Underrun(m)
    [] r.gen = m.gen /\ r.type = "accepted" -> Pump([m EXCEPT !.pull = FALSE])
    [] r.gen = m.gen /\ r.type = "lane accepted" -> LaneAccepted(m, r.available)
    [] r.gen = m.gen /\ r.type = "trackEnded" -> TrackEnded(m)
    [] r.gen = m.gen /\ r.type = "xfadeReady" ->
         IF m.attempt # None /\ m.attempt.token = r.token /\ m.attempt.ready
         THEN Go(m) ELSE m
    [] r.gen = m.gen /\ r.type = "xfaded" -> Swapped(m, r)
    [] OTHER -> [m EXCEPT !.pull = FALSE, !.mode = "error"]

MainTakes ==
  /\ worklet.wire # <<>>
  /\ main' = Reported(main, Head(worklet.wire))
  /\ worklet' = [worklet EXCEPT !.wire = Tail(@)]
  /\ UNCHANGED <<heard, left>>

-----------------------------------------------------------------------------
(* The main thread: workers that close and open, timers, the listener.     *)

(* The outgoing worker acknowledged its close: advance() promotes.         *)
AdvanceCloses ==
  /\ main.handoff = "closing"
  /\ main' = LET m == [main EXCEPT !.promoted = None]
             IN IF m.gen # m.advanceGen \/ m.cur # None THEN AfterAdvance(m, FALSE)
                ELSE AfterAdvance(Post([m EXCEPT !.cur = main.promoted, !.pull = FALSE],
                                       [type |-> "track", gen |-> m.gen]), TRUE)
  /\ UNCHANGED <<worklet, heard, left>>

FadeCloses ==
  /\ Fading(main) /\ main.fade.at = "closing"
  /\ main' = FadeTaken(main)
  /\ UNCHANGED <<worklet, heard, left>>

(* load() seeks to the start of what it opened.                            *)
LoadSeeks(m) ==
  EngineSeek([m EXCEPT !.load = "seeking", !.reset = OffsetOf(m, m.cursor),
                       !.mode = IF m.paused THEN "paused" ELSE "buffering"], 0)
LoadOpens ==
  /\ main.load = "opening"
  /\ main' = LET m == Post([main EXCEPT !.cur = Handle(main.cursor), !.full = FALSE,
                                       !.base = 0, !.stream = 0, !.drained = FALSE,
                                       !.moving = FALSE, !.load = "preparing"],
                            [type |-> "config", gen |-> main.gen])
             IN IF m.cursor = Last THEN LoadSeeks(m) ELSE Prepare(m, m.cursor + 1)
  /\ UNCHANGED <<worklet, heard, left>>

(* The standby is open, or could not be opened.                            *)
Prepared(m) ==
  CASE m.load = "preparing" -> LoadSeeks(m)
    [] m.load # "preparing" /\ m.handoff = "preparing" ->
         LET a == [m EXCEPT !.handoff = "none"]
         IN CASE m.handoffSeq # m.seq -> a
              [] m.handoffSeq = m.seq /\ m.paused -> [a EXCEPT !.mode = "paused"]
              [] OTHER -> GateStart([a EXCEPT !.mode = "playing", !.running = TRUE])
    [] OTHER -> IF Fading(m) /\ m.fade.at = "preparing" THEN FadeEnded(m) ELSE m
StandbyOpens ==
  /\ main.opening # 0
  /\ \/ /\ main' = Prepared([main EXCEPT !.opening = 0, !.stb = Handle(main.opening)])
        /\ UNCHANGED left
     \/ /\ left > 0
        /\ main' = Prepared([main EXCEPT !.opening = 0])
        /\ left' = left - 1
  /\ UNCHANGED <<worklet, heard>>

(* The main thread waits for a worker to open or to close; and everyone    *)
(* else waits for the audio clock.                                         *)
Waiting == main.opening # 0 \/ main.handoff = "closing" \/ ~InEngine(main)
Quiet ==
  /\ ~Waiting /\ main.load = "none" /\ main.wire = <<>> /\ worklet.wire = <<>>
  /\ \A slot \in {s \in {"cur", "stb"} : main[s] # None} : main[slot].asked = <<>>

AtItsEnd(h) == h # None /\ h.at = Lengths[h.item] /\ h.asked # <<>>
Pause ==
  /\ left > 0 /\ Fading(main) /\ main.mode \in {"playing", "buffering"}
  /\ "pause" \in Disturbances \/ ~(AtItsEnd(main.cur) \/ AtItsEnd(main.stb))
  /\ main' = [main EXCEPT !.paused = TRUE, !.mode = "paused", !.pumping = FALSE,
                          !.running = FALSE]
  /\ left' = left - 1
  /\ UNCHANGED <<worklet, heard>>

(* The 60 s of waitForSwap run on while the context is suspended: then the *)
(* fade is given up.                                                       *)
TimedOut(m) == IF m.attempt = None THEN m ELSE FadeFailed(CancelAttempt(m))
Resume ==
  /\ main.mode = "paused"
  /\ \E m \in IF Quiet /\ "long pause" \in Disturbances
              THEN {main, TimedOut(main)} ELSE {main} :
       main' = GateStart([m EXCEPT !.paused = FALSE, !.mode = "playing",
                                   !.running = TRUE])
  /\ UNCHANGED <<worklet, heard, left>>

(* seek() inside the current track.  A promotion waiting for the end of    *)
(* its track is let go, a fade that waits in the engine fails.  While the  *)
(* old worker is being closed the engine has no track and drops the seek.  *)
Seek(to) ==
  /\ left > 0 /\ main.load = "none"
  /\ main.mode \notin {"ended", "error"} /\ to < main.len[main.cursor]
  /\ "seek" \in Disturbances \/ (~Fading(main) /\ main.handoff = "none")
  /\ main' = LET m == [main EXCEPT !.seq = @ + 1, !.reset = OffsetOf(main, main.cursor) + to,
                         !.mode = IF main.paused THEN "paused" ELSE "buffering",
                         !.handoff = IF @ = "ending" THEN "none" ELSE @]
                 sought == EngineSeek(m, to)
             IN CASE main.cur = None -> IF m.paused THEN m ELSE GateStart(m)
                  [] main.cur # None /\ main.attempt = None -> sought
                  [] OTHER -> FadeFailed(sought)
  /\ left' = left - 1
  /\ UNCHANGED <<worklet, heard>>

-----------------------------------------------------------------------------
(* The worklet: rings, credits, water marks.                               *)

Shown(w) == w.read + w.shift
Say(w, r) == [w EXCEPT !.wire = Append(@, r)]
Simply(w, type) == Say(w, [type |-> type, gen |-> w.gen])
LaneUnits(fade) == Most(RingUnits, ((5 * fade + 3) \div 4) + 1)

NoFlow(w) == [w EXCEPT !.primed = FALSE, !.lastFull = FALSE, !.lastLow = TRUE,
                       !.under = FALSE, !.pending = None, !.ending = FALSE]
NoFade(w) == [w EXCEPT !.lane = None, !.mixing = FALSE, !.mixed = 0]

(* reportLevel: PRIME, HIGH and LOW at 20, 80 and 20 percent of the ring.  *)
Level(w) ==
  LET fill == Len(w.ring)
      high == 5 * fill >= 4 * w.cap
      low == 5 * fill < w.cap
      a == IF ~low /\ ~w.primed THEN Simply([w EXCEPT !.primed = TRUE], "primed") ELSE w
      b == IF high /\ ~w.lastFull THEN Simply([a EXCEPT !.lastFull = TRUE], "full")
           ELSE [a EXCEPT !.lastFull = @ /\ high]
  IN IF low /\ ~w.lastLow THEN Simply([b EXCEPT !.lastLow = TRUE], "need")
     ELSE [b EXCEPT !.lastLow = @ /\ low]

Room(w) == Len(w.ring) < w.cap
Flush(w) == IF w.pending # None /\ Room(w)
            THEN [w EXCEPT !.ring = Append(@, w.pending), !.pending = None] ELSE w

(* The lane's chunk, the credit it owes and, before the mix, its end.      *)
FlushLane(w) ==
  LET l == w.lane
      a == IF l.pending # None /\ Len(l.ring) < l.cap
           THEN [w EXCEPT !.lane.ring = Append(@, l.pending), !.lane.pending = None] ELSE w
      b == IF a.lane.owed /\ a.lane.pending = None
           THEN Say([a EXCEPT !.lane.owed = FALSE],
                    [type |-> "lane accepted", gen |-> w.gen, available |-> Len(a.lane.ring)])
           ELSE a
  IN IF b.lane.ending /\ b.lane.pending = None /\ ~w.mixing
     THEN Say([b EXCEPT !.lane.ending = FALSE],
              [type |-> "xfadeReady", gen |-> w.gen, token |-> l.token])
     ELSE b

FlushEnd(w) ==
  IF ~w.ending THEN w
  ELSE LET a == [w EXCEPT !.ending = FALSE, !.primed = @ \/ w.ring # <<>>]
       IN Simply(IF a.primed # w.primed THEN Simply(a, "primed") ELSE a, "trackEnded")

Samples(w, unit) ==
  IF w.pending # None THEN Simply(w, "error")
  ELSE LET a == Level(Flush([w EXCEPT !.pending = unit]))
       IN IF a.pending = None THEN Simply(a, "accepted") ELSE a
LaneSamples(w, unit) ==
  IF w.lane.pending # None \/ w.lane.owed THEN Simply(w, "error")
  ELSE LET a == Level(FlushLane([w EXCEPT !.lane.pending = unit]))
       IN IF a.lane.pending # None THEN [a EXCEPT !.lane.owed = TRUE]
          ELSE Say(a, [type |-> "lane accepted", gen |-> w.gen,
                       available |-> Len(a.lane.ring)])
End(w) == IF w.pending # None THEN Simply(w, "error")
          ELSE Level(FlushEnd([w EXCEPT !.ending = TRUE]))
LaneEnd(w) == IF w.lane.pending # None THEN Simply(w, "error")
              ELSE Level(FlushLane([w EXCEPT !.lane.ending = TRUE]))

(* The messages of the main thread; those of another generation, and those *)
(* of a lane that was cancelled, are ignored.                              *)
Told(w, msg) ==
  CASE msg.type \in {"config", "reset"} /\ msg.gen >= w.gen ->
         [NoFlow(NoFade(w)) EXCEPT !.gen = msg.gen, !.ring = <<>>, !.read = 0, !.shift = 0,
            !.cap = IF msg.type = "config" THEN RingUnits ELSE @]
    [] msg.gen # w.gen -> w
    [] msg.gen = w.gen /\ msg.type = "track" ->
         IF w.pending # None \/ w.ending THEN Simply(w, "error") ELSE w
    [] msg.gen = w.gen /\ msg.type = "samples" -> Samples(w, msg.unit)
    [] msg.gen = w.gen /\ msg.type = "xsamples" ->
         IF w.lane # None THEN LaneSamples(w, msg.unit)
         ELSE IF msg.token = w.swapped THEN Samples(w, msg.unit) ELSE w
    [] msg.gen = w.gen /\ msg.type = "end" -> End(w)
    [] msg.gen = w.gen /\ msg.type = "xend" ->
         IF w.lane # None THEN LaneEnd(w)
         ELSE IF msg.token = w.swapped THEN End(w) ELSE w
    [] msg.gen = w.gen /\ msg.type = "xfade" ->
         IF w.lane # None THEN w
         ELSE [w EXCEPT !.fade = msg.fade,
                 !.lane = [ring |-> <<>>, read |-> 0, cap |-> LaneUnits(msg.fade),
                           pending |-> None, ending |-> FALSE, owed |-> FALSE,
                           token |-> msg.token]]
    [] msg.gen = w.gen /\ msg.type = "xfade-go" ->
         IF w.lane = None \/ w.lane.token # msg.token THEN w
         ELSE [w EXCEPT !.mixing = TRUE, !.boundary = Shown(w)]
    [] msg.gen = w.gen /\ msg.type = "xfade-cancel" -> NoFade(w)
    [] OTHER -> w

WorkletTakes ==
  /\ main.wire # <<>>
  /\ worklet' = Told(worklet, Head(main.wire))
  /\ main' = [main EXCEPT !.wire = Tail(@)]
  /\ heard' = LET msg == Head(main.wire)
              IN IF msg.type # "reset" THEN heard ELSE [heard EXCEPT ![msg.track] = msg.to]
  /\ UNCHANGED left

-----------------------------------------------------------------------------
(* The worklet: the render callback.                                       *)

\* A plausible slip: the chunk that waits for room stays behind.
SwapLeavesPending(w) ==
  LET l == w.lane
      a == [w EXCEPT !.ring = l.ring, !.read = l.read, !.cap = l.cap,
              !.shift = Most(0, w.boundary - l.read), !.pending = None,
              !.ending = l.ending, !.swapped = l.token, !.primed = TRUE]
      b == Say(a, [type |-> "xfaded", gen |-> w.gen, token |-> l.token,
                   boundary |-> w.boundary, incoming |-> l.read,
                   overlap |-> Most(0, Shown(w) - w.boundary)])
  IN Level(NoFade(b))

(* The lane's ring becomes the ring, counted from where the mix began.     *)
Swap(w) ==
  LET l == w.lane
      a == [w EXCEPT !.ring = l.ring, !.read = l.read, !.cap = l.cap,
              !.shift = Most(0, w.boundary - l.read), !.pending = l.pending,
              !.ending = l.ending, !.swapped = l.token, !.primed = TRUE]
      b == Say(Flush(a),
               [type |-> "xfaded", gen |-> w.gen, token |-> l.token,
                boundary |-> w.boundary, incoming |-> l.read,
                overlap |-> Most(0, Shown(w) - w.boundary)])
  IN Level(NoFade(b))

Mix(w) ==
  [w EXCEPT !.mixed = @ + 1,
     !.read = IF w.ring = <<>> THEN @ ELSE @ + 1,
     !.ring = IF @ = <<>> THEN @ ELSE Tail(@),
     !.lane.read = IF w.lane.ring = <<>> THEN @ ELSE @ + 1,
     !.lane.ring = IF @ = <<>> THEN @ ELSE Tail(@)]

Plain(w) ==
  LET a == IF w.ring # <<>>
           THEN [w EXCEPT !.ring = Tail(@), !.read = @ + 1, !.under = FALSE]
           ELSE IF w.under THEN w
           ELSE Simply([w EXCEPT !.under = TRUE, !.primed = FALSE], "underrun")
      b == Flush(a)
      c == IF b.lane = None THEN b ELSE FlushLane(b)
      d == Level(FlushEnd(c))
  IN IF a.pending # None /\ b.pending = None THEN Simply(d, "accepted") ELSE d

Mixing(w) == w.mixing /\ w.lane # None
Sounds(w) ==
  IF Mixing(w) /\ w.mixed >= w.fade THEN {}
  ELSE {Head(r) : r \in ({w.ring} \cup IF Mixing(w) THEN {w.lane.ring} ELSE {}) \ {<<>>}}

Low ==
  \/ Len(worklet.ring) <= (IF Waiting THEN RingUnits \div 2 ELSE 1)
  \/ Mixing(worklet) /\ Len(worklet.lane.ring) <= 1
Priming == main.attempt # None /\ main.attempt.phase = "priming"

(* The buffers cover what the others take, unless the decode is slow.      *)
Render ==
  /\ main.running /\ Len(worklet.wire) < MaxReports
  /\ Quiet \/ "slow decode" \in Disturbances \/ ~(Low \/ Priming \/ main.wire # <<>>)
  /\ worklet' = LET w == CASE ~Mixing(worklet) -> Plain(worklet)
                          [] Mixing(worklet) /\ worklet.mixed >= worklet.fade -> Swap(worklet)
                          [] OTHER -> Mix(worklet)
                IN Say(w, [type |-> "rendered", gen |-> w.gen, frames |-> Shown(w)])
  /\ heard' = [t \in Tracks |->
                 IF \E s \in Sounds(worklet) : s.track = t
                 THEN (CHOOSE s \in Sounds(worklet) : s.track = t).unit ELSE heard[t]]
  /\ UNCHANGED <<main, left>>

-----------------------------------------------------------------------------
(* The first track has been loaded and its decoder asked for a first chunk.*)
Init ==
  /\ \E plans \in Plans :
       main = [cursor |-> 1, len |-> Lengths, reset |-> 0, mode |-> "buffering",
               paused |-> FALSE, pendingEnded |-> FALSE, armed |-> FALSE, fade |-> None,
               handoff |-> "none", handoffSeq |-> 0, advanceGen |-> 0, promoted |-> None,
               load |-> "none", opening |-> 0, seq |-> 0, check |-> 0, drift |-> FALSE,
               plans |-> plans, gen |-> 1, base |-> 0, stream |-> 0, pumping |-> TRUE,
               full |-> FALSE, pull |-> TRUE, moving |-> FALSE, drained |-> FALSE,
               running |-> FALSE, attempt |-> None, tokens |-> 0, wire |-> <<>>,
               cur |-> [Handle(1) EXCEPT !.asked = <<[ask |-> "play", gen |-> 1]>>],
               stb |-> IF Last = 1 THEN None ELSE Handle(2)]
  /\ worklet = [gen |-> 1, ring |-> <<>>, read |-> 0, shift |-> 0, cap |-> RingUnits,
                pending |-> None, ending |-> FALSE, primed |-> FALSE, lastFull |-> FALSE,
                lastLow |-> TRUE, under |-> FALSE, lane |-> None, mixing |-> FALSE,
                mixed |-> 0, fade |-> 0, boundary |-> 0, swapped |-> -1, wire |-> <<>>]
  /\ heard = [t \in Tracks |-> 0]
  /\ left = Incidents

Works ==
  \/ \E slot \in {"cur", "stb"} : WorkerAnswers(slot)
  \/ MainTakes \/ AdvanceCloses \/ FadeCloses \/ LoadOpens \/ StandbyOpens \/ WorkletTakes
Over == main.mode \in {"ended", "error"} /\ UNCHANGED vars

Next ==
  \/ Works \/ Render \/ Pause \/ Resume \/ Over
  \/ \E to \in Places : Seek(to)

Spec == Init /\ [][Next]_vars

-----------------------------------------------------------------------------
(* Properties.                                                             *)

(* Every track sounds from its first unit, in order, none twice and none   *)
(* left out, also across the swap of the rings and a gapless handoff; only *)
(* a seek moves within it (audio-worklet.ts, completeXfadeSwap).           *)
HeardInOrder ==
  [][\A t \in Tracks :
       heard'[t] # heard[t] => heard'[t] = heard[t] + 1 \/ WorkletTakes]_vars

(* When no boundary is in progress the cursor is on the track whose decoder*)
(* feeds the ring (player.ts, beginCrossfadeTransition and runEosBoundary).*)
CursorFollowsSound ==
  main.handoff = "none" /\ ~Fading(main) /\ main.load = "none" /\ main.cur # None
    => main.cur.item = main.cursor

(* The session is over when the last unit of the last track has sounded:   *)
(* not before, by the clock, by a drained output or by a chunk without a   *)
(* credit, and not never, by a credit, an end of stream or a swap that was *)
(* lost, after which everyone would wait in silence for everyone           *)
(* (player.ts, tick; musepack-engine.ts, resumePumpingIfRequested).        *)
Silent == Quiet /\ worklet.under /\ worklet.ring = <<>> /\ ~Mixing(worklet)
EndsWithTheLast ==
  /\ main.mode \in {"ended", "error"} => heard[Last] = Lengths[Last]
  /\ Silent => main.mode \in {"ended", "paused"}

(* After a fade the clock stands in the track the cursor is on             *)
(* (player.ts, pendingBoundaryCheck).                                      *)
NeverDrifts == ~main.drift
=============================================================================
