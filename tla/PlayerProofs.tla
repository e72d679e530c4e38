----------------------------- MODULE PlayerProofs -----------------------------
(***************************************************************************)
(* Proofs about Player.  A pause is silent, whoever uses the player and    *)
(* whatever fails (PausesAreSilent).  For a listener who waits for every   *)
(* command, meets no failure and goes through the queue in its order, the  *)
(* track that plays is the one shown (TheTrackPlayedIsShown) and no end    *)
(* the decoder announces is lost (EndsAreHandled).  The last two rest on   *)
(* one inductive invariant, Fit: the player is always in one of five       *)
(* phases (Idles, Loads, Seeks, Sounds, Over), and each phase says which   *)
(* tasks may be pending, what the engine may be doing, and how the clock   *)
(* of the album, the ring and what is left of the track add up.            *)
(***************************************************************************)
EXTENDS Player, FiniteSetTheorems, TLAPS

(* The fields of the player, its engine and its tasks: all that is asked   *)
(* of their form.                                                          *)
PlayerFields == {"queue", "state", "current", "within", "pauseIntent", "pendingEnded",
                 "eosInFlight", "resetOffset", "engine", "tasks"}
TaskFields == {"at", "item", "caller", "fresh", "here"}
Formed(p) ==
  /\ DOMAIN p = PlayerFields /\ DOMAIN p.engine = DOMAIN NoEngine
  /\ \A t \in p.tasks : DOMAIN t = TaskFields

(* Nothing is in the ring, and nothing is on its way there.                *)
RingEmpty(e) == e.buffered = 0 /\ ~e.asked

(* What a pause must leave behind to stay silent: no decoder that pumps,   *)
(* no start of the output that is still to be answered, and, where the     *)
(* output runs on or a load may yet be primed, an empty ring.              *)
Quiet(p) ==
  p.pauseIntent =>
    /\ ~p.engine.pumping /\ ~p.engine.starting
    /\ \A t \in p.tasks : t.at \notin TransportBound
    /\ (p.engine.running /\ ~p.engine.suspending) \/ p.state \in {"loading", "buffering"}
         => RingEmpty(p.engine)
Sound(p) == Formed(p) /\ Quiet(p)

(* The operators of the model, one by one.                                 *)
LEMMA TaskIsFormed ==
  ASSUME NEW at, NEW item, NEW caller
  PROVE  LET t == Task(at, item, caller)
         IN  DOMAIN t = TaskFields /\ t.at = at
  BY DEF Task, TaskFields

LEMMA NoEngineIsFormed ==
  DOMAIN NoEngine = {"kind", "live", "closing", "ready", "configured", "current",
    "opening", "standby", "wanted", "seeking", "promoting", "promoted", "left", "eos",
    "asked", "buffered", "rendered", "primed", "dry", "drained", "pumping", "starting",
    "suspending", "running"}
  BY DEF NoEngine

LEMMA ResetIsEmpty ==
  ASSUME NEW e, DOMAIN e = DOMAIN NoEngine
  PROVE  LET r == Reset(e) IN
         /\ DOMAIN r = DOMAIN NoEngine /\ RingEmpty(r)
         /\ r.pumping = e.pumping /\ r.starting = e.starting /\ r.running = e.running
         /\ r.suspending = e.suspending
  BY NoEngineIsFormed DEF Reset, RingEmpty

LEMMA DroppedSound ==
  ASSUME NEW tasks, \A t \in tasks : DOMAIN t = TaskFields, NEW gone
  PROVE  \A t \in Dropped(tasks, gone) : DOMAIN t = TaskFields /\ (t \in tasks \ gone \/ t.at = "leaving")
  BY TaskIsFormed DEF Dropped, Leaving

LEMMA SupersededSound ==
  ASSUME NEW p, Sound(p)
  PROVE  /\ Sound(Superseded(p)) /\ Superseded(p).pauseIntent = p.pauseIntent
         /\ Superseded(p).engine = p.engine /\ Superseded(p).state = p.state
         /\ Superseded(p).queue = p.queue
<1> DEFINE Aged(t) == [t EXCEPT !.fresh = (@ /\ t.at # "closing")]
<1>1. PICK gone : gone = {t \in p.tasks : t.at \in LoadBound}
  OBVIOUS
<1>2. PICK kept : kept = Dropped(p.tasks, gone)
  OBVIOUS
<1>3. Superseded(p) = [p EXCEPT !.tasks = {Aged(t) : t \in kept}]
  BY <1>1, <1>2 DEF Superseded
<1>4. \A t \in kept : DOMAIN t = TaskFields /\ (t \in p.tasks \/ t.at = "leaving")
  <2>1. \A t \in p.tasks : DOMAIN t = TaskFields
    BY DEF Sound, Formed
  <2> QED
    BY <1>2, <2>1, DroppedSound
<1>5. \A t \in kept : DOMAIN Aged(t) = TaskFields /\ Aged(t).at = t.at
  BY <1>4 DEF TaskFields
<1>6. p.pauseIntent => \A t \in kept : t.at \notin TransportBound
  BY <1>4 DEF Sound, Quiet, TransportBound
<1> HIDE DEF Aged
<1> QED
  BY <1>3, <1>5, <1>6 DEF Sound, Formed, Quiet, PlayerFields

(* Superseding forgets tasks and makes none that a transport waits for.    *)
LEMMA SupersededTasks ==
  ASSUME NEW p, Sound(p), \A t \in p.tasks : t.at \notin TransportBound
  PROVE  \A t \in Superseded(p).tasks : t.at \notin TransportBound
<1> DEFINE q == [p EXCEPT !.pauseIntent = TRUE, !.state = "idle", !.engine = NoEngine]
<1>1. Sound(q)
  BY NoEngineIsFormed DEF NoEngine, RingEmpty, Sound, Formed, Quiet, PlayerFields
<1>2. Superseded(q).tasks = Superseded(p).tasks
  BY DEF Superseded, Sound, Formed, PlayerFields
<1>3. Sound(Superseded(q)) /\ Superseded(q).pauseIntent
  <2> HIDE DEF q
  <2>1. q.pauseIntent
    BY DEF q, Sound, Formed, PlayerFields
  <2> QED
    BY <1>1, <2>1, SupersededSound
<1> QED
  BY <1>2, <1>3 DEF Sound, Quiet

LEMMA TransportedSound ==
  ASSUME NEW p, Sound(p)
  PROVE  LET r == Transported(p) IN
         /\ Sound(r) /\ r.pauseIntent = p.pauseIntent /\ r.engine = p.engine
         /\ r.state = p.state /\ r.queue = p.queue
         /\ \A t \in r.tasks : t.at \notin TransportBound
<1> DEFINE gone == {t \in p.tasks : t.at \in TransportBound}
           T == Dropped(p.tasks, gone)
<1>1. Transported(p) = [p EXCEPT !.tasks = T]
  BY DEF Transported
<1>2. \A t \in T : DOMAIN t = TaskFields /\ t.at \notin TransportBound
  BY DroppedSound DEF Sound, Formed, TransportBound
<1> QED
  BY <1>1, <1>2 DEF Sound, Formed, Quiet, PlayerFields

LEMMA PendingSound ==
  ASSUME NEW p, Sound(p), NEW at, NEW item, NEW caller, p.pauseIntent => at \notin TransportBound
  PROVE  Sound(Pending(p, at, item, caller))
  BY TaskIsFormed DEF Pending, Sound, Formed, Quiet, PlayerFields, RingEmpty

LEMMA ResolvedSound ==
  ASSUME NEW p, Sound(p), NEW t
  PROVE  /\ Sound(Resolved(p, t)) /\ Resolved(p, t).engine = p.engine
         /\ Resolved(p, t).state = p.state /\ Resolved(p, t).pauseIntent = p.pauseIntent
  BY DEF Resolved, Sound, Formed, Quiet, PlayerFields

LEMMA ReturnedSound ==
  ASSUME NEW p, Sound(p), NEW caller
  PROVE  Sound(Returned(p, caller))
  BY DEF Returned, Sound, Formed, Quiet, PlayerFields

LEMMA ShownSound ==
  ASSUME NEW p, Sound(p), NEW t
  PROVE  Sound(Shown(p, t))
<1> DEFINE q == [p EXCEPT !.state = "playing"]
<1>1. Sound(q)
  BY DEF Sound, Formed, Quiet, PlayerFields
<1> QED
  BY <1>1, ReturnedSound DEF Shown

LEMMA StartedSound ==
  ASSUME NEW p, Sound(p), ~p.pauseIntent, NEW at, NEW item, NEW caller
  PROVE  Sound(Started(p, at, item, caller))
<1>1. Sound(EnginePlay(p)) /\ ~EnginePlay(p).pauseIntent
  BY NoEngineIsFormed DEF EnginePlay, Sound, Formed, Quiet, PlayerFields
<1>2. Sound(Pending(EnginePlay(p), at, item, caller))
  BY <1>1, TaskIsFormed DEF Pending, Sound, Formed, Quiet, PlayerFields, RingEmpty
<1>3. Sound(Shown(p, Task(at, item, caller)))
  BY ShownSound
<1> QED
  BY <1>2, <1>3 DEF Started

(* A field of the player that a pause does not depend on.                  *)
LEMMA OpenSound ==
  ASSUME NEW p, Sound(p), NEW item, NEW caller
  PROVE  Sound(Open(p, item, caller))
<1> DEFINE e == EngineOpen(p.engine, item)
           q == [p EXCEPT !.engine = e]
<1>1. /\ DOMAIN e = DOMAIN NoEngine /\ RingEmpty(e) /\ ~e.pumping
      /\ e.starting = p.engine.starting /\ e.running = p.engine.running
      /\ e.suspending = p.engine.suspending
  BY ResetIsEmpty, NoEngineIsFormed DEF EngineOpen, Sound, Formed, RingEmpty
<1>2. Sound(q)
  <2> HIDE DEF e
  <2> QED
    BY <1>1 DEF Sound, Formed, Quiet, PlayerFields
<1>3. "opening" \notin TransportBound
  BY DEF TransportBound
<1>4. Open(p, item, caller) = Pending(q, "opening", item, caller)
  BY DEF Open
<1> QED
  BY <1>2, <1>3, <1>4, PendingSound

LEMMA CreateSound ==
  ASSUME NEW p, Sound(p), NEW item
  PROVE  Sound(Create(p, item)) /\ Create(p, item).pauseIntent = p.pauseIntent
<1> DEFINE e == [NoEngine EXCEPT !.kind = Kind[item], !.live = TRUE, !.running = TRUE]
           Left(t) == [t EXCEPT !.here = FALSE]
<1>1. DOMAIN e = DOMAIN NoEngine /\ RingEmpty(e) /\ ~e.pumping /\ ~e.starting
  BY NoEngineIsFormed DEF NoEngine, RingEmpty
<1>2. \A t \in p.tasks : DOMAIN Left(t) = TaskFields /\ Left(t).at = t.at
  BY DEF Sound, Formed, TaskFields
<1>3. Create(p, item) = [p EXCEPT !.engine = e, !.tasks = {Left(t) : t \in @}]
  BY DEF Create
<1> HIDE DEF e, Left
<1> QED
  BY <1>1, <1>2, <1>3 DEF Sound, Formed, Quiet, PlayerFields

LEMMA EngineCloseSound ==
  ASSUME NEW p, Sound(p)
  PROVE  Sound([p EXCEPT !.engine = EngineClose(@)])
<1> DEFINE e == EngineClose(p.engine)
<1>1. DOMAIN e = DOMAIN NoEngine /\ RingEmpty(e) /\ ~e.pumping /\ ~e.starting /\ ~e.running
  BY ResetIsEmpty, NoEngineIsFormed DEF EngineClose, Sound, Formed, RingEmpty
<1>2. [p EXCEPT !.engine = EngineClose(@)] = [p EXCEPT !.engine = e]
  OBVIOUS
<1> HIDE DEF e
<1> QED
  BY <1>1, <1>2 DEF Sound, Formed, Quiet, PlayerFields

(* A load may start in a paused session: it empties the ring it shows      *)
(* "loading" over.                                                         *)
LEMMA LoadSound ==
  ASSUME NEW p, Sound(p), NEW caller
  PROVE  Sound(Load(p, caller))
<1> DEFINE s == Transported(Superseded(p))
           q == [s EXCEPT !.pendingEnded = FALSE, !.state = "loading"]
           item == Current(p.queue)
<1>1. Sound(s) /\ s.engine = p.engine
  BY SupersededSound, TransportedSound
<1>2. /\ Formed(q) /\ q.engine = p.engine
      /\ q.pauseIntent => ~q.engine.pumping /\ ~q.engine.starting
      /\ q.pauseIntent => \A t \in q.tasks : t.at \notin TransportBound
  <2> HIDE DEF s
  <2> QED
    BY <1>1 DEF Sound, Formed, Quiet, PlayerFields
<1> HIDE DEF q
<1>3. ASSUME NEW e, DOMAIN e = DOMAIN NoEngine, RingEmpty(e),
             q.pauseIntent => ~e.pumping /\ ~e.starting
      PROVE  Sound([q EXCEPT !.engine = e])
  BY <1>2, <1>3 DEF Sound, Formed, Quiet, PlayerFields
<1>4. CASE item = "none"
  BY <1>4, ReturnedSound DEF Load
<1>5. CASE item # "none" /\ p.engine.kind \in {Kind[item]} \ {"none"}
  <2>1. Load(p, caller) = Open(q, item, caller)
    BY <1>5 DEF Load, q, s
  <2> DEFINE e == EngineOpen(q.engine, item)
  <2>2. DOMAIN e = DOMAIN NoEngine /\ RingEmpty(e) /\ ~e.pumping /\ e.starting = q.engine.starting
    BY <1>2, ResetIsEmpty, NoEngineIsFormed DEF EngineOpen, Formed, RingEmpty
  <2>3. Sound([q EXCEPT !.engine = e])
    <3> HIDE DEF e
    <3> QED
      BY <1>2, <1>3, <2>2
  <2>4. Open(q, item, caller) = Pending([q EXCEPT !.engine = e], "opening", item, caller)
    BY DEF Open
  <2>5. "opening" \notin TransportBound
    BY DEF TransportBound
  <2> QED
    BY <2>1, <2>3, <2>4, <2>5, PendingSound
<1>6. CASE item # "none" /\ p.engine.kind = "none"
  <2>1. Load(p, caller) = Pending(Create(q, item), "initing", item, caller)
    BY <1>6 DEF Load, q, s
  <2> DEFINE e == [NoEngine EXCEPT !.kind = Kind[item], !.live = TRUE, !.running = TRUE]
             Left(t) == [t EXCEPT !.here = FALSE]
  <2>2. DOMAIN e = DOMAIN NoEngine /\ RingEmpty(e) /\ ~e.pumping /\ ~e.starting
    BY NoEngineIsFormed DEF NoEngine, RingEmpty
  <2>3. \A t \in q.tasks : DOMAIN Left(t) = TaskFields /\ Left(t).at = t.at
    BY <1>2 DEF Formed, TaskFields
  <2>4. Create(q, item) = [q EXCEPT !.engine = e, !.tasks = {Left(t) : t \in @}]
    BY DEF Create
  <2>5. Sound(Create(q, item))
    <3> HIDE DEF e, Left
    <3> QED
      BY <1>2, <2>2, <2>3, <2>4 DEF Sound, Formed, Quiet, PlayerFields
  <2>6. "initing" \notin TransportBound
    BY DEF TransportBound
  <2> QED
    BY <2>1, <2>5, <2>6, PendingSound
<1>7. CASE item # "none" /\ p.engine.kind # "none" /\ p.engine.kind # Kind[item]
  <2> DEFINE e == EngineClose(q.engine)
  <2>1. Load(p, caller) = Pending([q EXCEPT !.engine = e], "closing", item, caller)
    BY <1>7 DEF Load, q, s
  <2>2. DOMAIN e = DOMAIN NoEngine /\ RingEmpty(e) /\ ~e.pumping /\ ~e.starting
    BY <1>2, ResetIsEmpty, NoEngineIsFormed DEF EngineClose, Formed, RingEmpty
  <2>3. Sound([q EXCEPT !.engine = e])
    <3> HIDE DEF e
    <3> QED
      BY <1>2, <1>3, <2>2
  <2>4. "closing" \notin TransportBound
    BY DEF TransportBound
  <2> QED
    BY <2>1, <2>3, <2>4, PendingSound
<1> QED
  BY <1>4, <1>5, <1>6, <1>7

LEMMA GateStopSound ==
  ASSUME NEW p, Sound(p)
  PROVE  Sound(GateStop(p)) /\ GateStop(p).pauseIntent = p.pauseIntent
  BY NoEngineIsFormed DEF GateStop, Sound, Formed, Quiet, PlayerFields, RingEmpty

LEMMA EnginePauseSound ==
  ASSUME NEW p, Sound(p)
  PROVE  Sound(EnginePause(p)) /\ EnginePause(p).pauseIntent = p.pauseIntent
  BY NoEngineIsFormed DEF EnginePause, Sound, Formed, Quiet, PlayerFields, RingEmpty

LEMMA FailedSound ==
  ASSUME NEW p, Sound(p)
  PROVE  Sound(Failed(p))
<1> DEFINE q == GateStop(p)
<1>1. Sound(q)
  BY GateStopSound
<1>2. Failed(p) = [q EXCEPT !.state = "error"]
  BY DEF Failed
<1> HIDE DEF q
<1> QED
  BY <1>1, <1>2 DEF Sound, Formed, Quiet, PlayerFields

LEMMA GateStartSound ==
  ASSUME NEW p, Sound(p), ~p.pauseIntent
  PROVE  Sound(GateStart(p)) /\ ~GateStart(p).pauseIntent
  BY NoEngineIsFormed DEF GateStart, Pump, Sound, Formed, Quiet, PlayerFields

LEMMA StartUnlessPausedSound ==
  ASSUME NEW p, Sound(p)
  PROVE  Sound(StartUnlessPaused(p))
  BY GateStartSound DEF StartUnlessPaused

(* A seek empties the ring, and where it does not, nothing was open.       *)
LEMMA SeekEmpties ==
  ASSUME NEW e, DOMAIN e = DOMAIN NoEngine
  PROVE  LET r == EngineSeek(e) IN
         /\ DOMAIN r = DOMAIN NoEngine
         /\ r.pumping = e.pumping /\ r.starting = e.starting /\ r.running = e.running
         /\ r.suspending = e.suspending
         /\ RingEmpty(e) => RingEmpty(r)
<1> DEFINE z == Reset(e)
<1>1. /\ DOMAIN z = DOMAIN NoEngine /\ RingEmpty(z)
      /\ z.pumping = e.pumping /\ z.starting = e.starting /\ z.running = e.running
      /\ z.suspending = e.suspending
  BY ResetIsEmpty
<1>2. \/ EngineSeek(e) = [z EXCEPT !.opening = "none"]
      \/ EngineSeek(e) = e
      \/ EngineSeek(e) = [z EXCEPT !.left = 1, !.seeking = TRUE]
  BY DEF EngineSeek
<1> HIDE DEF z
<1> QED
  BY <1>1, <1>2, NoEngineIsFormed DEF RingEmpty

(* What a restart and the end of a load do to the player: the display      *)
(* turns to "paused" in a paused session.                                  *)
LEMMA SoughtSound ==
  ASSUME NEW p, Sound(p), NEW q, Formed(q), q.tasks = p.tasks,
         q.pauseIntent = p.pauseIntent, q.engine = EngineSeek(p.engine),
         q.state = IF p.pauseIntent THEN "paused" ELSE "buffering"
  PROVE  Sound(q)
  BY SeekEmpties DEF Sound, Formed, Quiet

LEMMA RestartSound ==
  ASSUME NEW p, Sound(p)
  PROVE  Sound(Restart(p))
<1> DEFINE q == [p EXCEPT !.resetOffset = Offset(p.queue.index), !.within = FALSE,
                     !.state = IF p.pauseIntent THEN "paused" ELSE "buffering",
                     !.engine = EngineSeek(@)]
<1>1. /\ Formed(q) /\ q.tasks = p.tasks /\ q.pauseIntent = p.pauseIntent
      /\ q.engine = EngineSeek(p.engine)
      /\ q.state = IF p.pauseIntent THEN "paused" ELSE "buffering"
  BY SeekEmpties DEF Sound, Formed, PlayerFields
<1>2. Restart(p) = IF q.engine.seeking THEN Pending(q, "restarting", "none", "user")
                   ELSE StartUnlessPaused(q)
  BY DEF Restart
<1> HIDE DEF q
<1>3. Sound(q)
  BY <1>1, SoughtSound
<1>4. "restarting" \notin TransportBound
  BY DEF TransportBound
<1> QED
  BY <1>2, <1>3, <1>4, PendingSound, StartUnlessPausedSound

LEMMA LoadedSound ==
  ASSUME NEW p, Sound(p), NEW item, NEW caller
  PROVE  Sound(Loaded(p, item, caller))
  BY StartUnlessPausedSound, RestartSound, ReturnedSound DEF Loaded

LEMMA PublishSound ==
  ASSUME NEW p, Sound(p), NEW item, NEW caller
  PROVE  Sound(Publish(p, item, caller))
<1> DEFINE q == [p EXCEPT !.resetOffset = Offset(p.queue.index), !.current = item,
                     !.within = FALSE,
                     !.state = IF p.pauseIntent THEN "paused" ELSE "buffering",
                     !.engine = EngineSeek(@)]
<1>1. /\ Formed(q) /\ q.tasks = p.tasks /\ q.pauseIntent = p.pauseIntent
      /\ q.engine = EngineSeek(p.engine)
      /\ q.state = IF p.pauseIntent THEN "paused" ELSE "buffering"
  BY SeekEmpties DEF Sound, Formed, PlayerFields
<1>2. Publish(p, item, caller) = IF q.engine.seeking THEN Pending(q, "seeking", item, caller)
                   ELSE Loaded(q, item, caller)
  BY DEF Publish
<1> HIDE DEF q
<1>3. Sound(q)
  BY <1>1, SoughtSound
<1>4. "seeking" \notin TransportBound
  BY DEF TransportBound
<1> QED
  BY <1>2, <1>3, <1>4, PendingSound, LoadedSound

LEMMA PrepareSound ==
  ASSUME NEW p, Sound(p), NEW item
  PROVE  Sound([p EXCEPT !.engine = EnginePrepare(@, item)])
  BY NoEngineIsFormed DEF EnginePrepare, Sound, Formed, Quiet, PlayerFields, RingEmpty

LEMMA AfterOpenSound ==
  ASSUME NEW p, Sound(p), NEW item, NEW caller
  PROVE  Sound(AfterOpen(p, item, caller))
<1>1. Sound([p EXCEPT !.engine = EnginePrepare(@, PreloadTarget(p.queue))])
  BY PrepareSound
<1>2. "preparing" \notin TransportBound
  BY DEF TransportBound
<1> QED
  BY <1>1, <1>2, PublishSound, PendingSound DEF AfterOpen

LEMMA TickedSound ==
  ASSUME NEW p, Sound(p)
  PROVE  Sound(Ticked(p))
<1> DEFINE q == IF Adopts(p) THEN [p EXCEPT !.queue = MoveToQueue(@, p.queue.index + 1)] ELSE p
           r == GateStop(EnginePause(q))
<1>1. Sound(q)
  BY DEF Sound, Formed, Quiet, PlayerFields
<1>2. Ticked(p) = IF Ends(p) THEN [r EXCEPT !.state = "ended", !.pendingEnded = FALSE] ELSE q
  BY DEF Ticked
<1>3. Sound(r)
  <2> HIDE DEF q
  <2> QED
    BY <1>1, EnginePauseSound, GateStopSound
<1> HIDE DEF q, r
<1>4. Sound([r EXCEPT !.state = "ended", !.pendingEnded = FALSE])
  BY <1>3 DEF Sound, Formed, Quiet, PlayerFields
<1> QED
  BY <1>1, <1>2, <1>4

(* A handoff that comes back into a paused session leaves it paused.       *)
LEMMA HandedSound ==
  ASSUME NEW p, Sound(p), NEW item
  PROVE  Sound(Handed(p, item))
<1> DEFINE q == [p EXCEPT !.current = item,
                     !.state = IF p.pauseIntent \/ @ = "paused" THEN "paused" ELSE "buffering"]
<1>1. Sound(q) /\ q.pauseIntent = p.pauseIntent
  BY DEF Sound, Formed, Quiet, PlayerFields
<1>2. Handed(p, item) = IF p.pauseIntent THEN Returned(q, "eos")
                        ELSE Started(GateStart(q), "starting", item, "eos")
  BY DEF Handed
<1> HIDE DEF q
<1> QED
  BY <1>1, <1>2, ReturnedSound, GateStartSound, StartedSound

LEMMA BoundarySound ==
  ASSUME NEW p, Sound(p), NEW expected, NEW promoted, NEW r \in Boundary(p, expected, promoted)
  PROVE  Sound(r)
<1> DEFINE q(l) == [p EXCEPT !.queue = l.queue]
           over(l) == [q(l) EXCEPT !.pendingEnded = TRUE]
           ahead(l) == [q(l) EXCEPT !.engine = EnginePrepare(@, PreloadTarget(l.queue))]
           land(l) == CASE l.item = "none" -> Returned(Ticked(GateStop(over(l))), "eos")
                        [] l.item # "none" /\ ~(promoted /\ l.item = expected) -> Load(q(l), "eos")
                        [] l.item # "none" /\ promoted /\ l.item = expected ->
                             IF PreloadTarget(l.queue) = "none" THEN Handed(q(l), l.item)
                             ELSE Pending(ahead(l), "readying", l.item, "eos")
<1>1. ASSUME NEW l PROVE Sound(land(l))
  <2>1. Sound(q(l)) /\ Sound(over(l))
    BY DEF Sound, Formed, Quiet, PlayerFields
  <2>2. Sound(ahead(l))
    <3> HIDE DEF q
    <3> QED
      BY <2>1, PrepareSound
  <2>3. "readying" \notin TransportBound
    BY DEF TransportBound
  <2> HIDE DEF q, over, ahead
  <2>4. Sound(Returned(Ticked(GateStop(over(l))), "eos"))
    BY <2>1, GateStopSound, TickedSound, ReturnedSound
  <2>5. Sound(Load(q(l), "eos")) /\ Sound(Handed(q(l), l.item))
    BY <2>1, LoadSound, HandedSound
  <2>6. Sound(Pending(ahead(l), "readying", l.item, "eos"))
    BY <2>2, <2>3, PendingSound
  <2> QED
    BY <2>4, <2>5, <2>6
<1>2. Boundary(p, expected, promoted) =
        IF p.pauseIntent THEN {Returned(p, "eos")}
        ELSE IF p.queue.repeat = "one" THEN {Load(p, "eos")}
        ELSE {land(l) : l \in NextLandings(p.queue)}
  BY DEF Boundary
<1> HIDE DEF land
<1> QED
  BY <1>1, <1>2, ReturnedSound, LoadSound

LEMMA EosSound ==
  ASSUME NEW p, Sound(p), NEW r \in Eos(p)
  PROVE  Sound(r)
<1> DEFINE q == [p EXCEPT !.eosInFlight = TRUE]
           expected == PreloadTarget(p.queue)
           way == [q EXCEPT !.engine.promoting = TRUE]
<1>1. Sound(q)
  BY DEF Sound, Formed, Quiet, PlayerFields
<1>2. Sound(way)
  <2> HIDE DEF q
  <2> QED
    BY <1>1, NoEngineIsFormed DEF Sound, Formed, Quiet, PlayerFields, RingEmpty
<1>3. "advancing" \notin TransportBound
  BY DEF TransportBound
<1>4. \/ r = Returned(q, "eos")
      \/ r = Pending(way, "advancing", expected, "eos")
      \/ r \in Boundary(q, expected, FALSE)
  BY DEF Eos
<1> HIDE DEF q, way, expected
<1> QED
  BY <1>1, <1>2, <1>3, <1>4, ReturnedSound, PendingSound, BoundarySound

LEMMA PausedSound ==
  ASSUME NEW p, Sound(p)
  PROVE  Sound(Paused(p))
<1> DEFINE s == Transported(p)
           q == [s EXCEPT !.pauseIntent = TRUE, !.state = "paused"]
<1>1. /\ Formed(s) /\ \A t \in s.tasks : t.at \notin TransportBound
  BY TransportedSound DEF Sound
<1>2. Paused(p) = EnginePause(GateStop(q))
  BY DEF Paused
<1> HIDE DEF s
<1>3. /\ Formed(EnginePause(GateStop(q))) /\ EnginePause(GateStop(q)).tasks = s.tasks
      /\ EnginePause(GateStop(q)).state = "paused"
      /\ ~EnginePause(GateStop(q)).engine.pumping /\ ~EnginePause(GateStop(q)).engine.starting
      /\ EnginePause(GateStop(q)).engine.running =>
           EnginePause(GateStop(q)).engine.suspending
  BY <1>1, NoEngineIsFormed DEF EnginePause, GateStop, Formed, PlayerFields
<1> QED
  BY <1>1, <1>2, <1>3 DEF Sound, Quiet

LEMMA StoppedSound ==
  ASSUME NEW p, Sound(p)
  PROVE  Sound(Stopped(p))
<1> DEFINE s == Superseded(Transported(p))
           q == [s EXCEPT !.pauseIntent = TRUE, !.pendingEnded = FALSE, !.state = "idle",
                          !.within = FALSE]
<1>1. /\ Formed(s) /\ \A t \in s.tasks : t.at \notin TransportBound
  <2>1. Sound(Transported(p)) /\ \A t \in Transported(p).tasks : t.at \notin TransportBound
    BY TransportedSound
  <2> QED
    BY <2>1, SupersededTasks, SupersededSound DEF Sound
<1>2. Stopped(p) = Pending(EnginePause(GateStop(q)), "stopping", "none", "user")
  BY DEF Stopped
<1> HIDE DEF s
<1>3. /\ Formed(EnginePause(GateStop(q))) /\ EnginePause(GateStop(q)).tasks = s.tasks
      /\ EnginePause(GateStop(q)).state = "idle"
      /\ ~EnginePause(GateStop(q)).engine.pumping /\ ~EnginePause(GateStop(q)).engine.starting
      /\ EnginePause(GateStop(q)).engine.running =>
           EnginePause(GateStop(q)).engine.suspending
  BY <1>1, NoEngineIsFormed DEF EnginePause, GateStop, Formed, PlayerFields
<1>4. Sound(EnginePause(GateStop(q)))
  BY <1>1, <1>3 DEF Sound, Quiet
<1>5. "stopping" \notin TransportBound
  BY DEF TransportBound
<1> QED
  BY <1>2, <1>4, <1>5, PendingSound

(* Resuming ends the pause before anything is started.                     *)
LEMMA ResumedSound ==
  ASSUME NEW p, Sound(p)
  PROVE  Sound(Resumed(p))
<1> DEFINE s == Transported(p)
           q == [s EXCEPT !.pauseIntent = FALSE]
<1>1. Sound(s)
  BY TransportedSound
<1>2. Sound(q) /\ ~q.pauseIntent
  <2> HIDE DEF s
  <2> QED
    BY <1>1 DEF Sound, Formed, Quiet, PlayerFields
<1>3. Resumed(p) = Started(GateStart(q), "resuming", "none", "user")
  BY DEF Resumed
<1> HIDE DEF q
<1> QED
  BY <1>2, <1>3, GateStartSound, StartedSound

LEMMA NoticedSound ==
  ASSUME NEW p, Sound(p)
  PROVE  Sound(Noticed(p))
  BY StoppedSound, LoadSound DEF Noticed

LEMMA QueueSound ==
  ASSUME NEW p, Sound(p), NEW q
  PROVE  Sound([p EXCEPT !.queue = q])
  BY DEF Sound, Formed, Quiet, PlayerFields

LEMMA AskedSound ==
  ASSUME NEW p, Sound(p), NEW q
  PROVE  /\ Sound([Asked(p) EXCEPT !.queue = q])
         /\ Sound([p EXCEPT !.pauseIntent = FALSE])
  BY DEF Asked, Sound, Formed, Quiet, PlayerFields

LEMMA LandedSound ==
  ASSUME NEW p, Sound(p), NEW l
  PROVE  Sound(Landed(p, l))
<1> DEFINE q == [Superseded(p) EXCEPT !.queue = l.queue]
<1>1. Sound(q)
  BY SupersededSound, QueueSound
<1> HIDE DEF q
<1>2. Landed(p, l) = IF l.item = "none" THEN q ELSE Load(q, "user")
  BY DEF Landed, q
<1> QED
  BY <1>1, <1>2, LoadSound

-----------------------------------------------------------------------------
(* The steps.                                                              *)

LEMMA CommandsSound ==
  ASSUME Sound(player), UserAction
  PROVE  Sound(player')
<1>1. CASE PlaySequence
  <2>1. PICK q : player' = Load([Asked(player) EXCEPT !.queue = q], "user")
    BY <1>1 DEF PlaySequence
  <2>2. Sound([Asked(player) EXCEPT !.queue = q])
    BY AskedSound
  <2> QED
    BY <2>1, <2>2, LoadSound
<1>2. CASE PlayQueueIndex
  <2>1. PICK i : player' = Load([Asked(player) EXCEPT !.queue = MoveToQueue(@, i)], "user")
    BY <1>2 DEF PlayQueueIndex
  <2>2. PICK q : q = MoveToQueue(Asked(player).queue, i)
    OBVIOUS
  <2>3. Sound([Asked(player) EXCEPT !.queue = q])
    BY AskedSound
  <2> QED
    BY <2>1, <2>2, <2>3, LoadSound
<1>3. CASE NextTrack \/ PreviousTrack
  BY <1>3, LandedSound DEF NextTrack, PreviousTrack
<1>4. CASE RestartTrack
  BY <1>4, SupersededSound, TransportedSound, RestartSound DEF RestartTrack
<1>5. CASE Pause
  BY <1>5, PausedSound DEF Pause
<1>6. CASE TogglePlay
  BY <1>6, PausedSound, ResumedSound, AskedSound, LoadSound DEF TogglePlay
<1>7. CASE Seek
  <2>1. PICK p : p = Superseded(Transported(player))
    OBVIOUS
  <2>2. Sound(p)
    BY <2>1, SupersededSound, TransportedSound
  <2>3. PICK i : player' = IF i = player.queue.index THEN Restart(p)
                    ELSE Load([p EXCEPT !.queue = MoveToQueue(@, i)], "seek")
    BY <1>7, <2>1 DEF Seek
  <2>4. PICK q : q = MoveToQueue(p.queue, i)
    OBVIOUS
  <2>5. Sound([p EXCEPT !.queue = q])
    BY <2>2, QueueSound
  <2> QED
    BY <2>2, <2>3, <2>4, <2>5, RestartSound, LoadSound
<1>8. CASE Teardown
  <2>1. PICK s : s = Superseded(Transported(player))
    OBVIOUS
  <2>2. Sound(s)
    BY <2>1, SupersededSound, TransportedSound
  <2>3. PICK q : q = [s EXCEPT !.pauseIntent = FALSE, !.pendingEnded = FALSE, !.resetOffset = 0]
    OBVIOUS
  <2>4. Sound(q)
    BY <2>2, <2>3 DEF Sound, Formed, Quiet, PlayerFields
  <2>5. PICK c : c = [q EXCEPT !.engine = EngineClose(@)]
    OBVIOUS
  <2>6. Sound(GateStop(c))
    BY <2>4, <2>5, EngineCloseSound, GateStopSound
  <2>7. player' = Pending(GateStop(c), "tearing", "none", "user")
    BY <1>8, <2>1, <2>3, <2>5 DEF Teardown
  <2>8. "tearing" \notin TransportBound
    BY DEF TransportBound
  <2> QED
    BY <2>6, <2>7, <2>8, PendingSound
<1>9. CASE SetRepeat \/ SetShuffle
  <2>1. PICK q, o : player' = [player EXCEPT !.queue = q, !.resetOffset = o]
    <3>1. CASE SetRepeat
      <4>1. PICK mode : player' = [player EXCEPT !.queue = SetRepeatQueue(@, mode)]
        BY <3>1 DEF SetRepeat
      <4>2. PICK q : q = SetRepeatQueue(player.queue, mode)
        OBVIOUS
      <4>3. [player EXCEPT !.queue = q] = [player EXCEPT !.queue = q, !.resetOffset = player.resetOffset]
        BY DEF Sound, Formed, PlayerFields
      <4> QED
        BY <4>1, <4>2, <4>3
    <3>2. CASE SetShuffle
      BY <3>2 DEF SetShuffle
    <3> QED
      BY <1>9, <3>1, <3>2
  <2> QED
    BY <2>1 DEF Sound, Formed, Quiet, PlayerFields
<1>10. CASE RemoveItem \/ ClearAll \/ Enqueue
  <2>1. PICK q : player' = Noticed([player EXCEPT !.queue = q])
    BY <1>10 DEF RemoveItem, ClearAll, Enqueue, Edit
  <2> QED
    BY <2>1, QueueSound, NoticedSound
<1> QED
  BY <1>1, <1>2, <1>3, <1>4, <1>5, <1>6, <1>7, <1>8, <1>9, <1>10 DEF UserAction

LEMMA RingSound ==
  ASSUME Sound(player), NEW e, DOMAIN e = DOMAIN NoEngine,
         e.pumping = player.engine.pumping, e.starting = player.engine.starting,
         e.running = player.engine.running, e.suspending = player.engine.suspending,
         player.pauseIntent /\ RingEmpty(player.engine) => RingEmpty(e)
  PROVE  Sound(Ring(e))
<1>1. PICK f : f = Pump(e)
  OBVIOUS
<1>2. /\ DOMAIN f = DOMAIN NoEngine
      /\ player.pauseIntent => f = e
  BY <1>1, NoEngineIsFormed DEF Pump, Sound, Quiet
<1>3. Sound([player EXCEPT !.engine = f])
  BY <1>2 DEF Sound, Formed, Quiet, PlayerFields
<1> QED
  BY <1>1, <1>3 DEF Ring

LEMMA AnswersSound ==
  ASSUME Sound(player), Continue \/ OpenFails \/ PlayRefused
  PROVE  Sound(player')
<1>1. CASE Closed
  <2>1. PICK t \in player.tasks :
          LET p == Create(Resolved(player, t), t.item)
          IN  player' = IF t.fresh THEN Pending(p, "initing", t.item, t.caller)
                        ELSE Returned(p, t.caller)
    BY <1>1 DEF Closed
  <2>2. PICK p : p = Create(Resolved(player, t), t.item)
    OBVIOUS
  <2>3. Sound(p)
    BY <2>2, ResolvedSound, CreateSound
  <2>4. "initing" \notin TransportBound
    BY DEF TransportBound
  <2> QED
    BY <2>1, <2>2, <2>3, <2>4, PendingSound, ReturnedSound
<1>2. CASE Initialised
  <2>1. PICK p : p = [player EXCEPT !.engine.ready = TRUE]
    OBVIOUS
  <2>2. Sound(p)
    BY <2>1, NoEngineIsFormed DEF Sound, Formed, Quiet, PlayerFields, RingEmpty
  <2>3. player' = p \/ \E t : player' = Open(Resolved(p, t), t.item, t.caller)
    BY <1>2, <2>1 DEF Initialised
  <2> QED
    BY <2>2, <2>3, ResolvedSound, OpenSound
<1>3. CASE Opened
  <2>1. PICK p : p = [player EXCEPT !.engine = [@ EXCEPT
                !.current = player.engine.opening, !.opening = "none", !.left = 1,
                !.configured = (@ \/ player.engine.ready)]]
    OBVIOUS
  <2>2. Sound(p)
    BY <2>1, NoEngineIsFormed DEF Sound, Formed, Quiet, PlayerFields, RingEmpty
  <2>3. player' = p \/ \E t : player' = AfterOpen(Resolved(p, t), t.item, t.caller)
    BY <1>3, <2>1 DEF Opened
  <2> QED
    BY <2>2, <2>3, ResolvedSound, AfterOpenSound
<1>4. CASE OpenFails
  <2>1. PICK p : p = [player EXCEPT !.engine.opening = "none"]
    OBVIOUS
  <2>2. Sound(p)
    BY <2>1, NoEngineIsFormed DEF Sound, Formed, Quiet, PlayerFields, RingEmpty
  <2>3. player' = p \/ \E t : player' = Returned(Failed(Resolved(p, t)), t.caller)
    BY <1>4, <2>1 DEF OpenFails
  <2> QED
    BY <2>2, <2>3, ResolvedSound, FailedSound, ReturnedSound
<1>5. CASE Elsewhere
  <2>1. PICK t, p : /\ p = Resolved(player, t)
                    /\ \/ player' = AfterOpen(p, t.item, t.caller)
                       \/ player' = Publish(p, t.item, t.caller)
                       \/ player' = Loaded(p, t.item, t.caller)
                       \/ player' = StartUnlessPaused(p)
                       \/ player' = Returned(Failed(p), t.caller)
    BY <1>5 DEF Elsewhere
  <2>2. Sound(p)
    BY <2>1, ResolvedSound
  <2> QED
    BY <2>1, <2>2, AfterOpenSound, PublishSound, LoadedSound, StartUnlessPausedSound,
       FailedSound, ReturnedSound
<1>6. CASE Prepared
  <2>1. PICK ok, p :
          /\ p = [player EXCEPT !.engine = [@ EXCEPT
                   !.standby = IF ok THEN player.engine.wanted ELSE "none", !.wanted = "none"]]
          /\ \/ player' = p
             \/ \E t : player' = Publish(Resolved(p, t), t.item, t.caller)
             \/ \E t : player' = Handed(Resolved(p, t), t.item)
    BY <1>6 DEF Prepared
  <2>2. Sound(p)
    BY <2>1, NoEngineIsFormed DEF Sound, Formed, Quiet, PlayerFields, RingEmpty
  <2> QED
    BY <2>1, <2>2, ResolvedSound, PublishSound, HandedSound
<1>7. CASE Sought
  <2>1. PICK e : e = Pump([player.engine EXCEPT !.seeking = FALSE])
    OBVIOUS
  <2>2. PICK p : p = [player EXCEPT !.engine = e]
    OBVIOUS
  <2>3. /\ DOMAIN e = DOMAIN NoEngine
        /\ player.pauseIntent => /\ ~e.pumping /\ ~e.starting
                                 /\ e.running = player.engine.running
                                 /\ e.suspending = player.engine.suspending
                                 /\ RingEmpty(player.engine) => RingEmpty(e)
    BY <2>1, NoEngineIsFormed DEF Pump, Sound, Formed, Quiet, RingEmpty
  <2>4. Sound(p)
    BY <2>2, <2>3 DEF Sound, Formed, Quiet, PlayerFields
  <2>5. \/ player' = p
        \/ \E t : player' = Loaded(Resolved(p, t), t.item, t.caller)
        \/ \E t : player' = StartUnlessPaused(Resolved(p, t))
    BY <1>7, <2>1, <2>2 DEF Sought
  <2> QED
    BY <2>4, <2>5, ResolvedSound, LoadedSound, StartUnlessPausedSound
<1>8. CASE Promoted
  <2>1. PICK p : p = [player EXCEPT !.engine = [@ EXCEPT
                !.promoted = "none", !.current = player.engine.promoted,
                !.left = 1, !.eos = FALSE, !.asked = FALSE]]
    OBVIOUS
  <2>2. Sound(p)
    BY <2>1, NoEngineIsFormed DEF Sound, Formed, Quiet, PlayerFields, RingEmpty
  <2>3. player' = p \/ \E t : player' \in Boundary(Resolved(p, t), t.item, TRUE)
    BY <1>8, <2>1 DEF Promoted
  <2>4. CASE player' = p
    BY <2>2, <2>4
  <2>5. ASSUME NEW t, player' \in Boundary(Resolved(p, t), t.item, TRUE)
        PROVE  Sound(player')
    <3>1. PICK r : r = Resolved(p, t)
      OBVIOUS
    <3>2. Sound(r)
      BY <2>2, <3>1, ResolvedSound
    <3>3. PICK item : item = t.item
      OBVIOUS
    <3>4. \A s \in Boundary(r, item, TRUE) : Sound(s)
      BY <3>2, BoundarySound
    <3> QED
      BY <2>5, <3>1, <3>3, <3>4
  <2> QED
    BY <2>3, <2>4, <2>5
<1>9. CASE Played
  <2>1. PICK t \in player.tasks :
          /\ t.at \in TransportBound
          /\ LET starts == t.here /\ player.engine.starting
             IN  player' = Shown([Resolved(player, t) EXCEPT
                   !.engine.running = @ \/ starts, !.engine.starting = @ /\ ~starts], t)
    BY <1>9 DEF Played, TransportBound
  <2>2. PICK r : r = Resolved(player, t)
    OBVIOUS
  <2>3. Sound(r) /\ ~r.pauseIntent
    BY <2>1, <2>2, ResolvedSound DEF Sound, Quiet
  <2>4. PICK q : q = [r EXCEPT
                   !.engine.running = @ \/ (t.here /\ player.engine.starting),
                   !.engine.starting = @ /\ ~(t.here /\ player.engine.starting)]
    OBVIOUS
  <2>5. Sound(q)
    BY <2>3, <2>4, NoEngineIsFormed DEF Sound, Formed, Quiet, PlayerFields
  <2> QED
    BY <2>1, <2>2, <2>4, <2>5, ShownSound
<1>10. CASE PlayRefused
  <2>1. PICK t, q, p :
          /\ q = Returned(Resolved(player, t), t.caller)
          /\ p = [q EXCEPT !.engine.starting = @ /\ ~t.here]
          /\ \/ player' = p
             \/ player' = [p EXCEPT !.state = "paused"]
    BY <1>10 DEF PlayRefused
  <2>2. Sound(q)
    BY <2>1, ResolvedSound, ReturnedSound
  <2>3. Sound(p)
    BY <2>1, <2>2, NoEngineIsFormed DEF Sound, Formed, Quiet, PlayerFields, RingEmpty
  <2> QED
    BY <2>1, <2>3 DEF Sound, Formed, Quiet, PlayerFields
<1>11. CASE Halted
  <2>1. PICK t, p : /\ p = Resolved(player, t)
                    /\ player' = p \/ player' = [p EXCEPT !.engine = EngineSeek(@)]
    BY <1>11 DEF Halted
  <2>2. Sound(p)
    BY <2>1, ResolvedSound
  <2>3. PICK e : e = EngineSeek(p.engine)
    OBVIOUS
  <2>4. Sound([p EXCEPT !.engine = e])
    <3>1. /\ DOMAIN e = DOMAIN NoEngine
          /\ e.pumping = p.engine.pumping /\ e.starting = p.engine.starting
          /\ e.running = p.engine.running /\ e.suspending = p.engine.suspending
          /\ RingEmpty(p.engine) => RingEmpty(e)
      BY <2>2, <2>3, SeekEmpties DEF Sound, Formed
    <3> QED
      BY <2>2, <3>1 DEF Sound, Formed, Quiet, PlayerFields
  <2> QED
    BY <2>1, <2>2, <2>3, <2>4
<1>12. CASE TornDown
  <2> DEFINE Left(t) == [t EXCEPT !.here = FALSE]
  <2>1. PICK t, p : /\ p = Resolved(player, t)
                    /\ player' = [p EXCEPT !.engine = NoEngine, !.state = "idle",
                         !.current = "none", !.within = FALSE, !.tasks = {Left(o) : o \in @}]
    BY <1>12 DEF TornDown
  <2>2. Sound(p)
    BY <2>1, ResolvedSound
  <2>3. \A o \in p.tasks : DOMAIN Left(o) = TaskFields /\ Left(o).at = o.at
    BY <2>2 DEF Sound, Formed, TaskFields
  <2>4. ~NoEngine.pumping /\ ~NoEngine.starting /\ RingEmpty(NoEngine)
    BY DEF NoEngine, RingEmpty
  <2> HIDE DEF Left
  <2> QED
    BY <2>1, <2>2, <2>3, <2>4 DEF Sound, Formed, Quiet, PlayerFields
<1>13. CASE Leave
  <2>1. PICK t, p : p = Resolved(player, t) /\ player' = [p EXCEPT !.eosInFlight = FALSE]
    BY <1>13 DEF Leave
  <2>2. Sound(p)
    BY <2>1, ResolvedSound
  <2> QED
    BY <2>1, <2>2 DEF Sound, Formed, Quiet, PlayerFields
<1>14. CASE Finished
  BY <1>14, NoEngineIsFormed DEF Finished, Sound, Formed, Quiet, PlayerFields, RingEmpty
<1>15. CASE Suspended
  BY <1>15, NoEngineIsFormed DEF Suspended, Sound, Formed, Quiet, PlayerFields, RingEmpty
<1> QED
  BY <1>1, <1>2, <1>3, <1>4, <1>5, <1>6, <1>7, <1>8, <1>9, <1>10, <1>11, <1>12, <1>13,
     <1>14, <1>15 DEF Continue

LEMMA EventsSound ==
  ASSUME Sound(player), EngineEvent
  PROVE  Sound(player')
<1>1. CASE Decode
  <2>1. PICK e : e = [player.engine EXCEPT !.left = @ - 1, !.buffered = @ + 1, !.asked = FALSE]
    OBVIOUS
  <2>2. /\ DOMAIN e = DOMAIN NoEngine
        /\ e.pumping = player.engine.pumping /\ e.starting = player.engine.starting
        /\ e.running = player.engine.running /\ e.suspending = player.engine.suspending
    BY <2>1, NoEngineIsFormed DEF Sound, Formed
  <2>3. ~RingEmpty(player.engine) /\ player' = Ring(e)
    BY <1>1, <2>1 DEF Decode, RingEmpty
  <2> QED
    BY <2>2, <2>3, RingSound
<1>2. CASE DecodeEos
  <2>1. PICK p : p = [player EXCEPT !.engine.eos = TRUE, !.engine.asked = FALSE]
    OBVIOUS
  <2>2. Sound(p)
    BY <2>1, NoEngineIsFormed DEF Sound, Formed, Quiet, PlayerFields, RingEmpty
  <2>3. player' = p \/ player' \in Eos(p)
    BY <1>2, <2>1 DEF DecodeEos
  <2>4. \A r \in Eos(p) : Sound(r)
    BY <2>2, EosSound
  <2> QED
    BY <2>2, <2>3, <2>4
<1>3. CASE Render
  <2>1. PICK e : e = [player.engine EXCEPT !.buffered = @ - 1, !.rendered = @ + 1, !.dry = FALSE]
    OBVIOUS
  <2>2. /\ DOMAIN e = DOMAIN NoEngine
        /\ e.pumping = player.engine.pumping /\ e.starting = player.engine.starting
        /\ e.running = player.engine.running /\ e.suspending = player.engine.suspending
    BY <2>1, NoEngineIsFormed DEF Sound, Formed
  <2>3. ~RingEmpty(player.engine) /\ player' = Ring(e)
    BY <1>3, <2>1 DEF Render, RingEmpty
  <2> QED
    BY <2>2, <2>3, RingSound
<1>4. CASE Underrun
  <2>1. PICK d, e : /\ e = [player.engine EXCEPT !.dry = TRUE, !.primed = FALSE, !.asked = FALSE,
                              !.drained = d]
                    /\ \/ player' = Ring(e)
                       \/ player' = [Ring(e) EXCEPT !.state = "buffering"]
    BY <1>4 DEF Underrun
  <2>2. /\ DOMAIN e = DOMAIN NoEngine
        /\ e.pumping = player.engine.pumping /\ e.starting = player.engine.starting
        /\ e.running = player.engine.running /\ e.suspending = player.engine.suspending
        /\ RingEmpty(e)
    BY <1>4, <2>1, NoEngineIsFormed DEF Underrun, RingEmpty, Sound, Formed
  <2>3. Sound(Ring(e))
    BY <2>2, RingSound
  <2>4. player.pauseIntent => Pump(e) = e
    BY <2>2 DEF Pump, Sound, Quiet
  <2>5. Sound([Ring(e) EXCEPT !.state = "buffering"])
    BY <2>2, <2>3, <2>4 DEF Ring, Sound, Formed, Quiet, PlayerFields
  <2> QED
    BY <2>1, <2>3, <2>5
<1>5. CASE Primed
  <2>1. PICK p : p = [player EXCEPT !.engine.primed = TRUE, !.engine.drained = FALSE]
    OBVIOUS
  <2>2. Sound(p) /\ p.engine.buffered = player.engine.buffered
    BY <2>1, NoEngineIsFormed DEF Sound, Formed, Quiet, PlayerFields, RingEmpty
  <2>3. \/ player' = p
        \/ /\ p.state \in {"loading", "buffering"}
           /\ player' = Started(p, "primed", "none", "user")
    BY <1>5, <2>1 DEF Primed
  <2>4. p.state \in {"loading", "buffering"} => ~p.pauseIntent
    BY <1>5, <2>2 DEF Primed, Sound, Quiet, RingEmpty
  <2> QED
    BY <2>2, <2>3, <2>4, StartedSound
<1>6. CASE Tick
  <2>1. PICK far : player' = [Ticked(player) EXCEPT !.within = far]
    BY <1>6 DEF Tick
  <2>2. PICK p : p = Ticked(player)
    OBVIOUS
  <2>3. Sound(p)
    BY <2>2, TickedSound
  <2> QED
    BY <2>1, <2>2, <2>3 DEF Sound, Formed, Quiet, PlayerFields
<1> QED
  BY <1>1, <1>2, <1>3, <1>4, <1>5, <1>6 DEF EngineEvent

(* While the session is paused the decoder is not pumped, and an output    *)
(* that runs on and is not being suspended has an empty ring with nothing  *)
(* on its way there: whatever load, handoff, seek or start the pause       *)
(* overtook, and whenever each of them answers, none of them makes a       *)
(* paused session sound.  For every user, patient or not, and every set of *)
(* commands.                                                               *)
THEOREM PausesAreSilent == Spec => []PauseIsSilent
<1>1. Init => Sound(player)
  BY NoEngineIsFormed DEF Init, Sound, Formed, Quiet, PlayerFields
<1>2. Sound(player) /\ [Next]_vars => Sound(player)'
  <2> SUFFICES ASSUME Sound(player), [Next]_vars PROVE Sound(player')
    OBVIOUS
  <2>1. CASE UNCHANGED vars
    BY <2>1 DEF vars
  <2> QED
    BY <2>1, CommandsSound, AnswersSound, EventsSound DEF Next
<1>3. Sound(player) => PauseIsSilent
  BY DEF Sound, Quiet, RingEmpty, PauseIsSilent
<1> QED
  BY <1>1, <1>2, <1>3, PTL DEF Spec

-----------------------------------------------------------------------------
(* A listener who waits for every command and goes through the queue in    *)
(* its order.  The queue as such a listener leaves it, and what its        *)
(* operations do to it.                                                    *)

QueueOK(q) ==
  /\ DOMAIN q = DOMAIN EmptyQueue
  /\ q.items \in Seq(Items) /\ q.index \in 0..Len(q.items)
  /\ q.repeat = "off" /\ ~q.shuffling

LEMMA EmptyQueueIsFormed ==
  DOMAIN EmptyQueue = {"items", "index", "order", "history", "repeat", "shuffling"}
  BY DEF EmptyQueue

LEMMA CurrentIs ==
  ASSUME NEW q, QueueOK(q)
  PROVE  /\ q.index \in Nat /\ Len(q.items) \in Nat /\ q.index <= Len(q.items)
         /\ q.index = 0 => Current(q) = "none"
         /\ q.index # 0 => /\ Current(q) = q.items[q.index]
                           /\ Current(q) \in Items /\ Current(q) # "none"
  BY PlayerAssumption DEF QueueOK, Current, Positions

LEMMA PreloadIs ==
  ASSUME NEW q, QueueOK(q)
  PROVE  /\ q.index < Len(q.items) => /\ PreloadTarget(q) = q.items[q.index + 1]
                                      /\ PreloadTarget(q) \in Items /\ PreloadTarget(q) # "none"
         /\ q.index = Len(q.items) => PreloadTarget(q) = "none"
  BY PlayerAssumption DEF QueueOK, PreloadTarget, PreloadPosition, NextUnderRepeat

(* Advancing goes to the track that was preloaded, and nowhere when there  *)
(* was none.                                                               *)
LEMMA NextIs ==
  ASSUME NEW q, QueueOK(q), NEW l \in NextLandings(q)
  PROVE  /\ QueueOK(l.queue) /\ l.queue.items = q.items
         /\ PreloadTarget(q) = "none" => l.item = "none" /\ l.queue.index = q.index
         /\ PreloadTarget(q) # "none" => /\ l.queue.index = q.index + 1
                                         /\ l.item = PreloadTarget(q) /\ l.item = Current(l.queue)
<1>1. CASE q.items = <<>>
  <2>1. l.queue = q /\ l.item = "none"
    BY <1>1 DEF NextLandings, Landing
  <2>2. Len(q.items) = 0 /\ q.index = 0
    BY <1>1 DEF QueueOK
  <2> QED
    BY <2>1, <2>2, PreloadIs
<1>2. CASE q.items # <<>>
  <2>1. PICK h : l = Landing([q EXCEPT !.history = h], NextUnderRepeat(q))
    BY <1>2 DEF NextLandings, QueueOK
  <2>2. PICK p : p = [q EXCEPT !.history = h]
    OBVIOUS
  <2>3. QueueOK(p) /\ p.items = q.items /\ p.index = q.index
    BY <2>2, EmptyQueueIsFormed DEF QueueOK
  <2>4. NextUnderRepeat(q) = IF q.index < Len(q.items) THEN q.index + 1 ELSE 0
    BY CurrentIs DEF QueueOK, NextUnderRepeat
  <2>5. CASE q.index < Len(q.items)
    <3>1. l.queue = [p EXCEPT !.index = q.index + 1] /\ l.item = q.items[q.index + 1]
      BY <2>1, <2>2, <2>3, <2>4, <2>5, CurrentIs DEF Landing
    <3>2. QueueOK(l.queue) /\ l.queue.items = q.items /\ l.queue.index = q.index + 1
      BY <2>3, <2>5, <3>1, EmptyQueueIsFormed DEF QueueOK
    <3>3. PICK r : r = l.queue
      OBVIOUS
    <3>4. q.index + 1 # 0
      BY CurrentIs
    <3>5. Current(r) = r.items[q.index + 1]
      BY <3>2, <3>3, <3>4, CurrentIs
    <3> QED
      BY <2>5, <3>1, <3>2, <3>3, <3>5, PreloadIs
  <2>6. CASE q.index = Len(q.items)
    <3>1. l.queue = p /\ l.item = "none"
      BY <2>1, <2>2, <2>4, <2>6, CurrentIs DEF Landing
    <3> QED
      BY <2>3, <2>6, <3>1, PreloadIs
  <2> QED
    BY <2>5, <2>6, CurrentIs
<1> QED
  BY <1>1, <1>2

LEMMA PreviousIs ==
  ASSUME NEW q, QueueOK(q), NEW l, l = PreviousLanding(q)
  PROVE  /\ QueueOK(l.queue) /\ l.queue.items = q.items
         /\ l.item = "none" => l.queue.index = q.index
         /\ l.item # "none" => l.item = Current(l.queue)
<1>1. PICK p, i : /\ l = Landing(p, i) /\ i \in 0..Len(q.items)
                  /\ QueueOK(p) /\ p.items = q.items /\ p.index = q.index
  <2>1. CASE q.items = <<>>
    <3>1. l = Landing(q, 0)
      BY <2>1 DEF PreviousLanding
    <3>2. 0 \in 0..Len(q.items)
      BY CurrentIs
    <3> QED
      BY <3>1, <3>2
  <2>2. CASE q.items # <<>> /\ Latest(q) = {}
    <3>1. Before(q) \in 0..Len(q.items)
      BY CurrentIs DEF Before, QueueOK
    <3>2. PICK p : p = [q EXCEPT !.history = <<>>]
      OBVIOUS
    <3>3. l = Landing(p, Before(q))
      BY <2>2, <3>2 DEF PreviousLanding
    <3>4. QueueOK(p) /\ p.items = q.items /\ p.index = q.index
      BY <3>2, EmptyQueueIsFormed DEF QueueOK
    <3> QED
      BY <3>1, <3>3, <3>4
  <2>3. CASE q.items # <<>> /\ Latest(q) # {}
    <3>1. PICK k : k = CHOOSE x \in Latest(q) : TRUE
      OBVIOUS
    <3>2. k \in Latest(q)
      BY <2>3, <3>1
    <3>3. q.history[k] \in 0..Len(q.items)
      BY <3>2, CurrentIs DEF Latest, Retraceable, Positions, QueueOK
    <3>4. PICK p : p = [q EXCEPT !.history = SubSeq(@, 1, k - 1)]
      OBVIOUS
    <3>5. l = Landing(p, q.history[k])
      BY <2>3, <3>1, <3>4 DEF PreviousLanding
    <3>6. QueueOK(p) /\ p.items = q.items /\ p.index = q.index
      BY <3>4, EmptyQueueIsFormed DEF QueueOK
    <3> QED
      BY <3>3, <3>5, <3>6
  <2> QED
    BY <2>1, <2>2, <2>3
<1>2. l.queue = (IF i = 0 THEN p ELSE [p EXCEPT !.index = i])
  BY <1>1 DEF Landing
<1>3. l.item = (IF i = 0 THEN "none" ELSE q.items[i])
  BY <1>1 DEF Landing
<1>4. CASE i = 0
  BY <1>1, <1>2, <1>3, <1>4
<1>5. CASE i # 0
  <2>1. QueueOK(l.queue) /\ l.queue.items = q.items /\ l.queue.index = i
    BY <1>1, <1>2, <1>5, EmptyQueueIsFormed DEF QueueOK
  <2>2. PICK r : r = l.queue
    OBVIOUS
  <2> QED
    BY <1>1, <1>3, <1>5, <2>1, <2>2, CurrentIs
<1> QED
  BY <1>4, <1>5

LEMMA MovedIs ==
  ASSUME NEW q, QueueOK(q), NEW i \in Positions(q)
  PROVE  QueueOK(MoveToQueue(q, i)) /\ MoveToQueue(q, i).index = i /\ i # 0
  BY EmptyQueueIsFormed, CurrentIs DEF QueueOK, MoveToQueue, Positions

LEMMA PlayedIs ==
  ASSUME NEW q, QueueOK(q), NEW S \in SUBSET Items, NEW s \in SetToSeqs(S),
         NEW i \in 1..Cardinality(S), NEW r \in PlaySequenceQueues(q, s, i)
  PROVE  QueueOK(r) /\ r.index = i
<1>1. PICK o : r = [q EXCEPT !.items = s, !.index = i, !.history = <<>>, !.order = o]
  BY DEF PlaySequenceQueues, Rebuilt
<1>2. IsFiniteSet(S)
  BY ItemsAssumption, FS_Subset
<1>3. Cardinality(S) \in Nat
  BY <1>2, FS_CardinalityType
<1>4. s \in [1..Cardinality(S) -> S]
  BY DEF SetToSeqs
<1>5. s \in Seq(Items) /\ Len(s) = Cardinality(S)
  BY <1>3, <1>4
<1> QED
  BY <1>1, <1>3, <1>5, EmptyQueueIsFormed DEF QueueOK

(* An entry at the end leaves the cursor and gives it something to follow. *)
LEMMA EnqueuedIs ==
  ASSUME NEW q, QueueOK(q), NEW item \in Items, NEW r \in EnqueueQueues(q, <<item>>)
  PROVE  /\ QueueOK(r) /\ r.index = q.index /\ Current(r) = Current(q)
         /\ PreloadTarget(q) # "none" => PreloadTarget(r) # "none"
<1>1. PICK o : r = [q EXCEPT !.items = @ \o <<item>>, !.order = o]
  BY DEF EnqueueQueues, Rebuilt
<1>2. /\ q.items \o <<item>> \in Seq(Items) /\ Len(q.items \o <<item>>) = Len(q.items) + 1
      /\ \A k \in 1..Len(q.items) : (q.items \o <<item>>)[k] = q.items[k]
  BY DEF QueueOK
<1>3. QueueOK(r) /\ r.index = q.index /\ r.items = q.items \o <<item>>
  BY <1>1, <1>2, EmptyQueueIsFormed DEF QueueOK
<1>4. Current(r) = Current(q)
  BY <1>2, <1>3, CurrentIs
<1>5. r.index < Len(r.items)
  BY <1>2, <1>3, CurrentIs
<1> QED
  BY <1>3, <1>4, <1>5, PreloadIs

-----------------------------------------------------------------------------
(* The states of such a listener's player: idle, loading, seeking,         *)
(* sounding or over.                                                       *)

Here(p) == Current(p.queue)

(* Nothing has been decoded, heard or announced yet.                       *)
Still(e) == /\ ~e.asked /\ ~e.eos /\ ~e.drained /\ ~e.promoting /\ e.promoted = "none"
            /\ e.buffered = 0 /\ e.rendered = 0

(* What holds in every state.  No task is stale: only a superseded         *)
(* boundary, which returns, may have lost its engine.  The output is       *)
(* suspended only when the queue has ended.                                *)
Orderly(p) ==
  /\ Formed(p) /\ QueueOK(p.queue) /\ ~p.pauseIntent
  /\ p.engine.suspending => p.state = "ended"
  /\ \A t \in p.tasks : t.fresh /\ (t.at # "leaving" => t.here)

(* Once the queue's end is pending nothing is on standby.                  *)
Ahead(p) ==
  p.engine.standby # "none" => ~p.pendingEnded /\ PreloadTarget(p.queue) # "none"

Idles(p) ==
  LET e == p.engine IN
  /\ p.tasks = {} /\ p.state = "idle" /\ p.current = "none" /\ p.queue.index = 0
  /\ Still(e) /\ e.kind = "none" /\ ~e.running /\ ~e.seeking
  /\ e.current = "none" /\ e.opening = "none" /\ e.wanted = "none"

(* A load, at the await its task stands at.                                *)
Loads(p, t) ==
  LET e == p.engine IN
  /\ \A s \in p.tasks : s = t \/ s.at = "leaving"
  /\ t \in p.tasks /\ t.item = Here(p) /\ Here(p) # "none"
  /\ p.state \in {"loading", "buffering"} /\ ~p.pendingEnded
  /\ Still(e) /\ ~e.pumping /\ ~e.seeking /\ e.kind # "none"
  /\ t.at \in {"closing", "initing", "opening", "preparing"}
  /\ t.at = "closing" => e.current = "none" /\ e.opening = "none" /\ e.wanted = "none"
  /\ t.at = "initing" => /\ e.current = "none" /\ e.opening = "none" /\ e.wanted = "none"
                         /\ e.live
  /\ t.at = "opening" => /\ e.current = "none" /\ e.opening = t.item /\ e.wanted = "none"
                         /\ e.standby = "none" /\ e.live
  /\ t.at = "preparing" => /\ e.current = t.item /\ e.opening = "none" /\ e.wanted # "none"
                           /\ e.left = 1 /\ e.live /\ p.tasks = {t}
                           /\ PreloadTarget(p.queue) # "none"

(* The cursor, the display and the decoder on one open track.              *)
Opens(p) ==
  LET e == p.engine IN
  /\ e.current = Here(p) /\ p.current = Here(p) /\ Here(p) # "none"
  /\ e.opening = "none" /\ e.wanted = "none" /\ e.kind # "none" /\ e.live

(* The decoder is sent to the start of the open track.                     *)
Seeks(p, t) ==
  /\ p.tasks = {t} /\ t.at \in {"seeking", "restarting"} /\ p.state = "buffering"
  /\ t.at = "seeking" => t.item = Here(p)
  /\ Opens(p) /\ Ahead(p) /\ Still(p.engine)
  /\ p.engine.seeking /\ p.engine.left = 1 /\ p.resetOffset = p.queue.index - 1

(* A promotion is on its way: for the end of the old track to reach the    *)
(* ring, or for its decoder to close.                                      *)
Handing(e) == e.promoting \/ e.promoted # "none"

(* The decoder is at work.  The album clock, the ring and what is left of  *)
(* the track add up to the cursor; a track is not heard to its end before  *)
(* the decoder has announced that end; an announced end has promoted the   *)
(* next track or left the queue's end pending.                             *)
Plays(p) ==
  LET e == p.engine IN
  /\ p.state \in {"buffering", "playing"}
  /\ e.current = (IF e.promoted = "none" THEN Here(p) ELSE "none")
  /\ e.opening = "none" /\ ~e.seeking /\ e.kind # "none" /\ e.live
  /\ e.promoted # "none" => ~e.promoting /\ e.standby = "none"
  /\ p.resetOffset \in Nat /\ e.rendered \in Nat /\ e.buffered \in Nat /\ e.left \in {0, 1}
  /\ p.resetOffset + e.rendered + e.buffered + e.left = p.queue.index
  /\ p.resetOffset + 1 <= p.queue.index
  /\ e.asked => e.buffered < 2
  /\ ~e.eos => e.pumping /\ ~Handing(e)
  /\ Handing(e) => e.pumping
  /\ ~e.eos /\ e.left = 0 => e.buffered # 0 /\ (e.buffered = 1 => e.asked)
  /\ e.eos => e.left = 0 /\ (Handing(e) <=> ~p.pendingEnded)
  /\ ~e.running => e.rendered = 0 /\ ~e.drained
  /\ p.pendingEnded /\ e.drained => e.eos
  /\ Ahead(p)

(* Its boundary: one at a time, under eosInFlight.  While the output is    *)
(* waited for nothing has been heard, so the ring is full before a second  *)
(* track can end.                                                          *)
BoundaryPoints == {"advancing", "readying", "starting"}
Awaits(p) ==
  LET e == p.engine IN
  /\ \A t \in p.tasks : t.at \in BoundaryPoints \cup {"primed"}
  /\ \A s, t \in p.tasks : s.at \in BoundaryPoints /\ t.at \in BoundaryPoints => s = t
  /\ \A t \in p.tasks : t.at \in BoundaryPoints =>
       t.caller = "eos" /\ p.eosInFlight /\ ~p.pendingEnded
  /\ \A t \in p.tasks : t.at \in {"primed", "starting"} => e.rendered = 0 /\ ~e.drained
  /\ \A t \in p.tasks : t.at = "primed" => t.caller = "user"
  /\ \A t \in p.tasks : t.at \in {"readying", "starting"} =>
       p.resetOffset + 2 <= p.queue.index /\ ~e.eos
  /\ Handing(e) => \E t \in p.tasks : t.at = "advancing"
  /\ \A t \in p.tasks : t.at = "advancing" =>
       /\ Handing(e) /\ e.eos /\ t.item # "none" /\ t.item = PreloadTarget(p.queue)
       /\ t.item = (IF e.promoting THEN e.standby ELSE e.promoted)
  /\ \A t \in p.tasks : t.at = "readying" =>
       /\ e.wanted # "none" /\ e.standby = "none" /\ t.item = Here(p)
       /\ PreloadTarget(p.queue) # "none"
  /\ \/ e.wanted = "none" /\ p.current = Here(p)
     \/ \E t \in p.tasks : t.at = "readying"
Sounds(p) == Plays(p) /\ Awaits(p)

(* The queue has been heard to its end.                                    *)
Over(p) ==
  LET e == p.engine IN
  /\ p.tasks = {} /\ p.state = "ended" /\ ~p.pendingEnded /\ Opens(p)
  /\ ~e.seeking /\ ~Handing(e) /\ (e.running => e.suspending) /\ e.eos /\ e.left = 0
  /\ e.standby = "none"

Fit(p) ==
  /\ Orderly(p)
  /\ \/ Idles(p) \/ (\E t \in p.tasks : Loads(p, t) \/ Seeks(p, t))
     \/ Sounds(p) \/ Over(p)

-----------------------------------------------------------------------------
(* The load of a track.                                                    *)

LEMMA ResetIs ==
  ASSUME NEW e, DOMAIN e = DOMAIN NoEngine
  PROVE  LET r == Reset(e) IN
         /\ DOMAIN r = DOMAIN NoEngine /\ Still(r)
         /\ r.kind = e.kind /\ r.suspending = e.suspending /\ r.live = e.live
         /\ r.current = e.current
         /\ r.opening = e.opening /\ r.standby = e.standby /\ r.wanted = e.wanted
         /\ r.seeking = e.seeking /\ r.left = e.left /\ r.pumping = e.pumping
         /\ r.running = e.running
  BY NoEngineIsFormed DEF Reset, Still

LEMMA EngineOpenIs ==
  ASSUME NEW e, DOMAIN e = DOMAIN NoEngine, NEW item
  PROVE  LET r == EngineOpen(e, item) IN
         /\ DOMAIN r = DOMAIN NoEngine /\ Still(r)
         /\ r.kind = e.kind /\ r.suspending = e.suspending /\ r.live = e.live
         /\ r.current = "none"
         /\ r.opening = item /\ r.standby = "none" /\ r.wanted = "none"
         /\ ~r.seeking /\ ~r.pumping
<1> DEFINE z == Reset(e)
<1>1. DOMAIN z = DOMAIN NoEngine /\ Still(z) /\ z.kind = e.kind /\ z.suspending = e.suspending /\ z.live = e.live
  BY ResetIs
<1>2. EngineOpen(e, item) =
        [z EXCEPT !.opening = item, !.current = "none", !.standby = "none",
                  !.wanted = "none", !.pumping = FALSE, !.left = 0, !.seeking = FALSE]
  BY DEF EngineOpen
<1> HIDE DEF z
<1> QED
  BY <1>1, <1>2, NoEngineIsFormed DEF Still

LEMMA EngineCloseIs ==
  ASSUME NEW e, DOMAIN e = DOMAIN NoEngine
  PROVE  LET r == EngineClose(e) IN
         /\ DOMAIN r = DOMAIN NoEngine /\ Still(r) /\ r.kind = e.kind /\ ~r.suspending
         /\ r.current = "none" /\ r.opening = "none" /\ r.standby = "none"
         /\ r.wanted = "none" /\ ~r.seeking /\ ~r.pumping
<1> DEFINE z == Reset(e)
<1>1. DOMAIN z = DOMAIN NoEngine /\ Still(z) /\ z.kind = e.kind
  BY ResetIs
<1>2. EngineClose(e) =
        [z EXCEPT !.live = FALSE, !.closing = TRUE, !.current = "none",
                  !.opening = "none", !.standby = "none", !.wanted = "none",
                  !.seeking = FALSE, !.pumping = FALSE, !.running = FALSE,
                  !.starting = FALSE, !.suspending = FALSE]
  BY DEF EngineClose
<1> HIDE DEF z
<1> QED
  BY <1>1, <1>2, NoEngineIsFormed DEF Still

LEMMA NewEngineIs ==
  ASSUME NEW item \in Items
  PROVE  LET e == [NoEngine EXCEPT !.kind = Kind[item], !.live = TRUE, !.running = TRUE] IN
         /\ DOMAIN e = DOMAIN NoEngine /\ Still(e) /\ e.kind # "none" /\ e.live
         /\ e.current = "none" /\ e.opening = "none" /\ e.wanted = "none"
         /\ ~e.seeking /\ ~e.pumping /\ ~e.suspending
  BY NoEngineIsFormed, PlayerAssumption DEF NoEngine, Still

(* A task that was just added.                                             *)
LEMMA TaskIs ==
  ASSUME NEW at, NEW item, NEW caller
  PROVE  LET t == Task(at, item, caller)
         IN  /\ DOMAIN t = TaskFields /\ t.at = at /\ t.item = item /\ t.caller = caller
             /\ t.fresh /\ t.here
  BY DEF Task, TaskFields

(* A player that has dropped what went on and goes to the cursor's track;  *)
(* only boundaries that were superseded are left.                          *)
Clear(p) ==
  /\ Orderly(p) /\ Here(p) # "none"
  /\ p.state \in {"loading", "buffering"} /\ ~p.pendingEnded
  /\ \A t \in p.tasks : t.at = "leaving"

LEMMA OpenLoads ==
  ASSUME NEW p, Clear(p), p.engine.kind # "none", p.engine.live, NEW caller
  PROVE  LET r == Open(p, Here(p), caller)
         IN  Orderly(r) /\ \E t \in r.tasks : Loads(r, t)
<1> DEFINE e == EngineOpen(p.engine, Here(p))
           t == Task("opening", Here(p), caller)
           r == [p EXCEPT !.engine = e, !.tasks = @ \cup {t}]
<1>1. /\ DOMAIN e = DOMAIN NoEngine /\ Still(e)
      /\ e.kind = p.engine.kind /\ e.suspending = p.engine.suspending /\ e.live
      /\ e.current = "none"
      /\ e.opening = Here(p) /\ e.standby = "none" /\ e.wanted = "none"
      /\ ~e.seeking /\ ~e.pumping
  BY EngineOpenIs DEF Clear, Orderly, Formed
<1>2. /\ DOMAIN t = TaskFields /\ t.at = "opening" /\ t.item = Here(p)
      /\ t.fresh /\ t.here
  BY TaskIs
<1>3. Open(p, Here(p), caller) = r
  BY DEF Open, Pending, Clear, Orderly, Formed, PlayerFields
<1> HIDE DEF e, t
<1>4. /\ r.engine = e /\ r.tasks = p.tasks \cup {t} /\ r.queue = p.queue
      /\ r.state = p.state /\ r.pendingEnded = p.pendingEnded
      /\ r.pauseIntent = p.pauseIntent /\ DOMAIN r = PlayerFields
  BY DEF Clear, Orderly, Formed, PlayerFields
<1> HIDE DEF r
<1>5. Orderly(r)
  BY <1>1, <1>2, <1>4 DEF Clear, Orderly, Formed
<1>6. Loads(r, t)
  BY <1>1, <1>2, <1>4 DEF Clear, Loads, Here
<1> QED
  BY <1>3, <1>4, <1>5, <1>6

LEMMA CreateLoads ==
  ASSUME NEW p, Clear(p), NEW caller
  PROVE  LET r == Pending(Create(p, Here(p)), "initing", Here(p), caller)
         IN  Orderly(r) /\ \E t \in r.tasks : Loads(r, t)
<1> DEFINE e == [NoEngine EXCEPT !.kind = Kind[Here(p)], !.live = TRUE, !.running = TRUE]
           t == Task("initing", Here(p), caller)
           Left(s) == [s EXCEPT !.here = FALSE]
           T == {Left(s) : s \in p.tasks} \cup {t}
           r == [p EXCEPT !.engine = e, !.tasks = T]
<1>1. /\ DOMAIN e = DOMAIN NoEngine /\ Still(e) /\ e.kind # "none" /\ e.live
      /\ e.current = "none" /\ e.opening = "none" /\ e.wanted = "none"
      /\ ~e.seeking /\ ~e.pumping /\ ~e.suspending
  BY NewEngineIs, CurrentIs DEF Clear, Orderly, Here
<1>2. /\ DOMAIN t = TaskFields /\ t.at = "initing" /\ t.item = Here(p)
      /\ t.fresh /\ t.here
  BY TaskIs
<1>3. \A s \in p.tasks : DOMAIN Left(s) = TaskFields /\ Left(s).at = "leaving" /\ Left(s).fresh
  BY DEF Clear, Orderly, Formed, TaskFields
<1>4. Pending(Create(p, Here(p)), "initing", Here(p), caller) = r
  BY DEF Pending, Create, Clear, Orderly, Formed, PlayerFields
<1> HIDE DEF e, t, Left
<1>5. \A s \in T : DOMAIN s = TaskFields /\ s.fresh /\ (s = t \/ s.at = "leaving")
  BY <1>2, <1>3
<1>6. t \in T
  OBVIOUS
<1> HIDE DEF T
<1>7. /\ r.engine = e /\ r.tasks = T /\ r.queue = p.queue
      /\ r.state = p.state /\ r.pendingEnded = p.pendingEnded
      /\ r.pauseIntent = p.pauseIntent /\ DOMAIN r = PlayerFields
  BY DEF Clear, Orderly, Formed, PlayerFields
<1> HIDE DEF r
<1>8. Orderly(r)
  BY <1>1, <1>2, <1>5, <1>7 DEF Clear, Orderly, Formed
<1>9. Loads(r, t)
  BY <1>1, <1>2, <1>5, <1>6, <1>7 DEF Clear, Loads, Here
<1> QED
  BY <1>4, <1>6, <1>7, <1>8, <1>9

LEMMA CloseLoads ==
  ASSUME NEW p, Clear(p), p.engine.kind # "none", NEW caller
  PROVE  LET r == Pending([p EXCEPT !.engine = EngineClose(@)], "closing", Here(p), caller)
         IN  Orderly(r) /\ \E t \in r.tasks : Loads(r, t)
<1> DEFINE e == EngineClose(p.engine)
           t == Task("closing", Here(p), caller)
           r == [p EXCEPT !.engine = e, !.tasks = @ \cup {t}]
<1>1. /\ DOMAIN e = DOMAIN NoEngine /\ Still(e) /\ e.kind = p.engine.kind /\ ~e.suspending
      /\ e.current = "none" /\ e.opening = "none" /\ e.wanted = "none"
      /\ ~e.seeking /\ ~e.pumping
  BY EngineCloseIs DEF Clear, Orderly, Formed
<1>2. /\ DOMAIN t = TaskFields /\ t.at = "closing" /\ t.item = Here(p)
      /\ t.fresh /\ t.here
  BY TaskIs
<1>3. Pending([p EXCEPT !.engine = EngineClose(@)], "closing", Here(p), caller) = r
  BY DEF Pending, Clear, Orderly, Formed, PlayerFields
<1> HIDE DEF e, t
<1>4. /\ r.engine = e /\ r.tasks = p.tasks \cup {t} /\ r.queue = p.queue
      /\ r.state = p.state /\ r.pendingEnded = p.pendingEnded
      /\ r.pauseIntent = p.pauseIntent /\ DOMAIN r = PlayerFields
  BY DEF Clear, Orderly, Formed, PlayerFields
<1> HIDE DEF r
<1>5. Orderly(r)
  BY <1>1, <1>2, <1>4 DEF Clear, Orderly, Formed
<1>6. Loads(r, t)
  BY <1>1, <1>2, <1>4 DEF Clear, Loads, Here
<1> QED
  BY <1>3, <1>4, <1>5, <1>6

(* Without tasks there is nothing to supersede.                            *)
LEMMA AloneIs ==
  ASSUME NEW p, Formed(p), p.tasks = {}
  PROVE  /\ Superseded(p) = [p EXCEPT !.tasks = {}]
         /\ Transported(p) = [p EXCEPT !.tasks = {}]
<1>1. Dropped({}, {}) = {}
  BY DEF Dropped
<1>2. {t \in p.tasks : t.at \in LoadBound} = {} /\ {t \in p.tasks : t.at \in TransportBound} = {}
  OBVIOUS
<1> QED
  BY <1>1, <1>2 DEF Superseded, Transported, Formed, PlayerFields

(* A load supersedes whatever a boundary, or a start, was waiting for.     *)
LEMMA SupersededIs ==
  ASSUME NEW p, Orderly(p), \A t \in p.tasks : t.at \in LoadBound
  PROVE  LET r == Superseded(p) IN
         /\ DOMAIN r = PlayerFields /\ r.engine = p.engine /\ r.queue = p.queue
         /\ r.pauseIntent = p.pauseIntent
         /\ \A t \in r.tasks : DOMAIN t = TaskFields /\ t.at = "leaving" /\ t.fresh
<1> DEFINE Aged(t) == [t EXCEPT !.fresh = (@ /\ t.at # "closing")]
<1>1. PICK gone : gone = {t \in p.tasks : t.at \in LoadBound}
  OBVIOUS
<1>2. PICK kept : kept = Dropped(p.tasks, gone)
  OBVIOUS
<1>3. Superseded(p) = [p EXCEPT !.tasks = {Aged(t) : t \in kept}]
  BY <1>1, <1>2 DEF Superseded
<1>4. \A t \in kept : t = Leaving
  BY <1>1, <1>2 DEF Dropped
<1>5. \A t \in kept : DOMAIN t = TaskFields /\ t.at = "leaving" /\ t.fresh
  BY <1>4, TaskIs DEF Leaving
<1>6. \A t \in kept : DOMAIN Aged(t) = TaskFields /\ Aged(t).at = "leaving" /\ Aged(t).fresh
  BY <1>5 DEF TaskFields
<1> HIDE DEF Aged
<1> QED
  BY <1>3, <1>6 DEF Orderly, Formed, PlayerFields

LEMMA TransportedIs ==
  ASSUME NEW p, DOMAIN p = PlayerFields, \A t \in p.tasks : t.at = "leaving"
  PROVE  Transported(p) = [p EXCEPT !.tasks = p.tasks]
<1>1. {t \in p.tasks : t.at \in TransportBound} = {}
  BY DEF TransportBound
<1>2. Dropped(p.tasks, {}) = p.tasks
  BY DEF Dropped
<1> QED
  BY <1>1, <1>2 DEF Transported, PlayerFields

LEMMA LoadLoads ==
  ASSUME NEW p, Orderly(p), Here(p) # "none", \A t \in p.tasks : t.at \in LoadBound,
         p.engine.kind # "none" => p.engine.live, ~p.engine.suspending, NEW caller
  PROVE  Orderly(Load(p, caller)) /\ \E t \in Load(p, caller).tasks : Loads(Load(p, caller), t)
<1>1. PICK s : s = Superseded(p)
  OBVIOUS
<1>2. /\ DOMAIN s = PlayerFields /\ s.engine = p.engine /\ s.queue = p.queue
      /\ s.pauseIntent = p.pauseIntent
      /\ \A t \in s.tasks : DOMAIN t = TaskFields /\ t.at = "leaving" /\ t.fresh
  BY <1>1, SupersededIs
<1>3. Transported(s) = [s EXCEPT !.tasks = s.tasks]
  BY <1>2, TransportedIs
<1>4. PICK q : q = [Transported(s) EXCEPT !.pendingEnded = FALSE, !.state = "loading"]
  OBVIOUS
<1>5. /\ DOMAIN q = PlayerFields /\ q.engine = p.engine /\ q.queue = p.queue
      /\ q.pauseIntent = p.pauseIntent /\ q.tasks = s.tasks
      /\ q.state = "loading" /\ ~q.pendingEnded
  BY <1>2, <1>3, <1>4 DEF PlayerFields
<1>6. Clear(q) /\ Here(q) = Here(p)
  BY <1>2, <1>5 DEF Clear, Orderly, Formed, Here
<1>7. CASE p.engine.kind = "none"
  <2>1. Load(p, caller) = Pending(Create(q, Here(q)), "initing", Here(q), caller)
    BY <1>1, <1>4, <1>6, <1>7 DEF Load, Here
  <2> QED
    BY <1>6, <2>1, CreateLoads
<1>8. CASE p.engine.kind # "none" /\ p.engine.kind = Kind[Here(p)]
  <2>1. Load(p, caller) = Open(q, Here(q), caller)
    BY <1>1, <1>4, <1>6, <1>8 DEF Load, Here
  <2> QED
    BY <1>5, <1>6, <1>8, <2>1, OpenLoads
<1>9. CASE p.engine.kind # "none" /\ p.engine.kind # Kind[Here(p)]
  <2>1. Load(p, caller) = Pending([q EXCEPT !.engine = EngineClose(@)], "closing", Here(q), caller)
    BY <1>1, <1>4, <1>6, <1>9 DEF Load, Here
  <2> QED
    BY <1>5, <1>6, <1>9, <2>1, CloseLoads
<1> QED
  BY <1>7, <1>8, <1>9

-----------------------------------------------------------------------------
(* The seek that ends a load, and a seek inside the track.                 *)

LEMMA EngineSeekIs ==
  ASSUME NEW e, DOMAIN e = DOMAIN NoEngine, e.opening = "none", e.current # "none"
  PROVE  LET r == EngineSeek(e) IN
         /\ DOMAIN r = DOMAIN NoEngine /\ Still(r) /\ r.seeking /\ r.left = 1
         /\ r.kind = e.kind /\ r.suspending = e.suspending /\ r.live = e.live
         /\ r.current = e.current
         /\ r.opening = e.opening /\ r.standby = e.standby /\ r.wanted = e.wanted
<1> DEFINE z == Reset(e)
<1>1. /\ DOMAIN z = DOMAIN NoEngine /\ Still(z) /\ z.kind = e.kind
      /\ z.suspending = e.suspending /\ z.live = e.live
      /\ z.current = e.current /\ z.opening = e.opening
      /\ z.standby = e.standby /\ z.wanted = e.wanted
  BY ResetIs
<1>2. EngineSeek(e) = [z EXCEPT !.left = 1, !.seeking = TRUE]
  BY DEF EngineSeek
<1> HIDE DEF z
<1> QED
  BY <1>1, <1>2, NoEngineIsFormed DEF Still

(* An open track whose load, or seek, is about to be answered.             *)
AtTrack(p) ==
  /\ Orderly(p) /\ p.tasks = {} /\ Ahead(p) /\ Here(p) # "none"
  /\ ~p.engine.suspending
  /\ p.engine.current = Here(p) /\ p.engine.opening = "none"
  /\ p.engine.wanted = "none" /\ p.engine.kind # "none" /\ p.engine.live

LEMMA SeekSeeks ==
  ASSUME NEW p, AtTrack(p), NEW at \in {"seeking", "restarting"}, NEW item, NEW caller,
         at = "seeking" => item = Here(p),
         NEW q, DOMAIN q = PlayerFields, q.queue = p.queue, q.current = Here(p),
         q.tasks = {}, q.pauseIntent = p.pauseIntent, q.pendingEnded = p.pendingEnded,
         q.state = "buffering", q.resetOffset = Offset(p.queue.index),
         q.engine = EngineSeek(p.engine)
  PROVE  /\ q.engine.seeking
         /\ LET r == Pending(q, at, item, caller)
            IN  Orderly(r) /\ \E t \in r.tasks : Seeks(r, t)
<1>1. PICK e : e = EngineSeek(p.engine)
  OBVIOUS
<1>2. /\ DOMAIN e = DOMAIN NoEngine /\ Still(e) /\ e.seeking /\ e.left = 1
      /\ e.kind # "none" /\ e.live /\ e.current = Here(p) /\ e.opening = "none"
      /\ e.standby = p.engine.standby /\ e.wanted = "none" /\ ~e.suspending
  BY <1>1, EngineSeekIs DEF AtTrack, Orderly, Formed
<1>3. PICK t : t = Task(at, item, caller)
  OBVIOUS
<1>4. DOMAIN t = TaskFields /\ t.at = at /\ t.item = item /\ t.fresh /\ t.here
  BY <1>3, TaskIs
<1>5. PICK r : r = Pending(q, at, item, caller)
  OBVIOUS
<1>6. /\ DOMAIN r = PlayerFields /\ r.queue = p.queue /\ r.current = Here(p)
      /\ r.tasks = {t} /\ ~r.pauseIntent /\ r.pendingEnded = p.pendingEnded
      /\ r.state = "buffering" /\ r.resetOffset = Offset(p.queue.index) /\ r.engine = e
  BY <1>1, <1>3, <1>5 DEF Pending, PlayerFields, AtTrack, Orderly
<1>7. Offset(p.queue.index) = p.queue.index - 1
  BY CurrentIs DEF Offset, AtTrack, Orderly, Here
<1>8. Orderly(r)
  BY <1>2, <1>4, <1>6 DEF Orderly, Formed, AtTrack
<1>9. Seeks(r, t)
  BY <1>2, <1>4, <1>6, <1>7 DEF Seeks, Opens, Ahead, AtTrack, Here
<1> QED
  BY <1>1, <1>2, <1>5, <1>6, <1>8, <1>9

LEMMA RestartSeeks ==
  ASSUME NEW p, AtTrack(p), p.current = Here(p)
  PROVE  Orderly(Restart(p)) /\ \E t \in Restart(p).tasks : Seeks(Restart(p), t)
<1>1. PICK q : q = [p EXCEPT !.resetOffset = Offset(p.queue.index), !.within = FALSE,
                     !.state = IF p.pauseIntent THEN "paused" ELSE "buffering",
                     !.engine = EngineSeek(@)]
  OBVIOUS
<1>2. /\ DOMAIN q = PlayerFields /\ q.queue = p.queue /\ q.current = Here(p)
      /\ q.tasks = {} /\ q.pauseIntent = p.pauseIntent /\ q.pendingEnded = p.pendingEnded
      /\ q.state = "buffering" /\ q.resetOffset = Offset(p.queue.index)
      /\ q.engine = EngineSeek(p.engine)
  BY <1>1 DEF AtTrack, Orderly, Formed, PlayerFields
<1>3. PICK r : r = Pending(q, "restarting", "none", "user")
  OBVIOUS
<1>4. q.engine.seeking /\ Orderly(r) /\ \E t \in r.tasks : Seeks(r, t)
  BY <1>2, <1>3, SeekSeeks
<1>5. Restart(p) = r
  BY <1>1, <1>3, <1>4 DEF Restart
<1> QED
  BY <1>4, <1>5

LEMMA PublishSeeks ==
  ASSUME NEW p, AtTrack(p), NEW caller
  PROVE  LET r == Publish(p, Here(p), caller)
         IN  Orderly(r) /\ \E t \in r.tasks : Seeks(r, t)
<1>1. PICK q : q = [p EXCEPT !.resetOffset = Offset(p.queue.index), !.current = Here(p),
                     !.within = FALSE,
                     !.state = IF p.pauseIntent THEN "paused" ELSE "buffering",
                     !.engine = EngineSeek(@)]
  OBVIOUS
<1>2. /\ DOMAIN q = PlayerFields /\ q.queue = p.queue /\ q.current = Here(p)
      /\ q.tasks = {} /\ q.pauseIntent = p.pauseIntent /\ q.pendingEnded = p.pendingEnded
      /\ q.state = "buffering" /\ q.resetOffset = Offset(p.queue.index)
      /\ q.engine = EngineSeek(p.engine)
  BY <1>1 DEF AtTrack, Orderly, Formed, PlayerFields
<1>3. PICK item : item = Here(p)
  OBVIOUS
<1>4. PICK r : r = Pending(q, "seeking", item, caller)
  OBVIOUS
<1>5. q.engine.seeking /\ Orderly(r) /\ \E t \in r.tasks : Seeks(r, t)
  BY <1>2, <1>3, <1>4, SeekSeeks
<1>6. Publish(p, Here(p), caller) = r
  BY <1>1, <1>3, <1>4, <1>5 DEF Publish
<1> QED
  BY <1>5, <1>6

(* The track is open: the next one is prepared, or its start is sought.    *)
LEMMA AfterOpenGoesOn ==
  ASSUME NEW p, AtTrack(p), p.engine.left = 1, Still(p.engine), ~p.engine.pumping,
         ~p.engine.seeking, ~p.pendingEnded, p.state \in {"loading", "buffering"}, NEW caller
  PROVE  LET r == AfterOpen(p, Here(p), caller)
         IN  Orderly(r) /\ \E t \in r.tasks : Loads(r, t) \/ Seeks(r, t)
<1>1. CASE PreloadTarget(p.queue) = "none"
  BY <1>1, PublishSeeks DEF AfterOpen
<1>2. CASE PreloadTarget(p.queue) # "none"
  <2>1. PICK e : e = EnginePrepare(p.engine, PreloadTarget(p.queue))
    OBVIOUS
  <2>2. /\ DOMAIN e = DOMAIN NoEngine /\ Still(e) /\ ~e.pumping /\ ~e.seeking
        /\ e.kind # "none" /\ e.live /\ e.current = Here(p) /\ e.opening = "none"
        /\ e.wanted # "none" /\ e.left = 1 /\ e.suspending = p.engine.suspending
    BY <1>2, <2>1, NoEngineIsFormed DEF EnginePrepare, AtTrack, Orderly, Formed, Still
  <2>3. PICK t : t = Task("preparing", Here(p), caller)
    OBVIOUS
  <2>4. DOMAIN t = TaskFields /\ t.at = "preparing" /\ t.item = Here(p) /\ t.fresh /\ t.here
    BY <2>3, TaskIs
  <2>5. PICK r : r = AfterOpen(p, Here(p), caller)
    OBVIOUS
  <2>6. /\ DOMAIN r = PlayerFields /\ r.queue = p.queue /\ r.tasks = {t} /\ ~r.pauseIntent
        /\ ~r.pendingEnded /\ r.state = p.state /\ r.engine = e
    BY <1>2, <2>1, <2>3, <2>5 DEF AfterOpen, Pending, AtTrack, Orderly, Formed, PlayerFields
  <2>7. Orderly(r)
    BY <2>2, <2>4, <2>6 DEF Orderly, Formed, AtTrack
  <2>8. Loads(r, t)
    BY <1>2, <2>2, <2>4, <2>6 DEF Loads, Here, AtTrack
  <2> QED
    BY <2>5, <2>6, <2>7, <2>8
<1> QED
  BY <1>1, <1>2

(* The decoder stands at the start of the open track.                      *)
AtStart(p) ==
  /\ AtTrack(p) /\ p.current = Here(p) /\ p.state = "buffering"
  /\ p.resetOffset = p.queue.index - 1 /\ p.engine.left = 1 /\ p.engine.buffered = 0
  /\ p.engine.rendered = 0 /\ ~p.engine.eos /\ ~p.engine.drained
  /\ ~Handing(p.engine) /\ ~p.engine.seeking

LEMMA PumpIs ==
  ASSUME NEW e, DOMAIN e = DOMAIN NoEngine
  PROVE  LET r == Pump(e) IN
         /\ DOMAIN r = DOMAIN NoEngine
         /\ e.asked => r.asked
         /\ r.asked /\ ~e.asked => e.pumping /\ ~e.seeking /\ e.buffered < RingUnits
         /\ e.pumping /\ ~e.seeking /\ e.opening = "none" /\ e.current # "none"
              /\ e.buffered < RingUnits => r.asked
         /\ r.current = e.current /\ r.opening = e.opening /\ r.standby = e.standby
         /\ r.wanted = e.wanted /\ r.kind = e.kind /\ r.suspending = e.suspending
         /\ r.live = e.live
         /\ r.left = e.left /\ r.buffered = e.buffered /\ r.rendered = e.rendered
         /\ r.eos = e.eos /\ r.drained = e.drained /\ r.promoting = e.promoting
         /\ r.promoted = e.promoted
         /\ r.seeking = e.seeking /\ r.running = e.running /\ r.pumping = e.pumping
  BY NoEngineIsFormed DEF Pump

LEMMA GateStartIs ==
  ASSUME NEW p, Formed(p), p.engine.kind # "none"
  PROVE  LET r == GateStart(p)  e == p.engine IN
         /\ DOMAIN r = PlayerFields /\ DOMAIN r.engine = DOMAIN NoEngine
         /\ r.queue = p.queue /\ r.tasks = p.tasks /\ r.current = p.current
         /\ r.state = p.state /\ r.resetOffset = p.resetOffset
         /\ r.pauseIntent = p.pauseIntent /\ r.pendingEnded = p.pendingEnded
         /\ r.eosInFlight = p.eosInFlight
         /\ r.engine.pumping /\ (e.asked => r.engine.asked)
         /\ r.engine.asked => e.asked \/ e.buffered < RingUnits
         /\ e.opening = "none" /\ e.current # "none" /\ ~e.seeking
              /\ e.buffered < RingUnits => r.engine.asked
         /\ r.engine.current = e.current /\ r.engine.opening = e.opening
         /\ r.engine.standby = e.standby /\ r.engine.wanted = e.wanted
         /\ r.engine.kind = e.kind /\ r.engine.suspending = e.suspending /\ r.engine.live = e.live
         /\ r.engine.left = e.left /\ r.engine.buffered = e.buffered
         /\ r.engine.rendered = e.rendered /\ r.engine.eos = e.eos
         /\ r.engine.drained = e.drained /\ r.engine.promoting = e.promoting
         /\ r.engine.promoted = e.promoted
         /\ r.engine.seeking = e.seeking /\ r.engine.running = e.running
<1>1. PICK d : d = [p.engine EXCEPT !.pumping = TRUE]
  OBVIOUS
<1>2. PICK c : c = Pump(d)
  OBVIOUS
<1>3. /\ DOMAIN d = DOMAIN NoEngine /\ d.pumping /\ d.asked = p.engine.asked
      /\ d.current = p.engine.current /\ d.opening = p.engine.opening
      /\ d.standby = p.engine.standby /\ d.wanted = p.engine.wanted
      /\ d.kind = p.engine.kind /\ d.suspending = p.engine.suspending
      /\ d.live = p.engine.live /\ d.left = p.engine.left
      /\ d.buffered = p.engine.buffered /\ d.rendered = p.engine.rendered
      /\ d.eos = p.engine.eos /\ d.drained = p.engine.drained
      /\ d.promoting = p.engine.promoting /\ d.promoted = p.engine.promoted
      /\ d.seeking = p.engine.seeking
      /\ d.running = p.engine.running
  BY <1>1, NoEngineIsFormed DEF Formed
<1>4. PICK r : r = GateStart(p)
  OBVIOUS
<1>5. r = [p EXCEPT !.engine = c]
  BY <1>1, <1>2, <1>4 DEF GateStart
<1>6. /\ DOMAIN r = PlayerFields /\ r.engine = c
      /\ r.queue = p.queue /\ r.tasks = p.tasks /\ r.current = p.current
      /\ r.state = p.state /\ r.resetOffset = p.resetOffset
      /\ r.pauseIntent = p.pauseIntent /\ r.pendingEnded = p.pendingEnded
      /\ r.eosInFlight = p.eosInFlight
  BY <1>5 DEF Formed, PlayerFields
<1> QED
  BY <1>2, <1>3, <1>4, <1>6, PumpIs

LEMMA StartSounds ==
  ASSUME NEW p, AtStart(p), RingUnits = 2
  PROVE  LET r == StartUnlessPaused(p) IN AtStart(r) /\ Here(r) = Here(p) /\ Fit(r)
<1>1. PICK r : r = StartUnlessPaused(p)
  OBVIOUS
<1>2. r = GateStart(p)
  BY <1>1 DEF StartUnlessPaused, AtStart, AtTrack, Orderly
<1>3. AtStart(r) /\ Here(r) = Here(p) /\ Orderly(r) /\ r.engine.pumping
  BY <1>2, GateStartIs DEF AtStart, AtTrack, Ahead, Orderly, Formed, Here, Handing
<1>4. Plays(r)
  BY <1>3, CurrentIs DEF Plays, AtStart, AtTrack, Orderly, Here, Handing
<1>5. Awaits(r)
  BY <1>3 DEF Awaits, AtStart, AtTrack
<1> QED
  BY <1>1, <1>3, <1>4, <1>5 DEF Fit, Sounds

LEMMA LoadedGoesOn ==
  ASSUME NEW p, AtStart(p), RingUnits = 2, NEW caller
  PROVE  Fit(Loaded(p, Here(p), caller))
<1>1. PICK q : q = StartUnlessPaused(p)
  OBVIOUS
<1>2. AtStart(q) /\ Fit(q)
  BY <1>1, StartSounds
<1>3. Current(p.queue) = Here(p)
  BY DEF Here
<1>4. CASE caller = "seek"
  <2>1. Loaded(p, Here(p), caller) = Restart(q)
    BY <1>1, <1>3, <1>4 DEF Loaded
  <2>2. AtTrack(q) /\ q.current = Here(q)
    BY <1>2 DEF AtStart
  <2> QED
    BY <2>1, <2>2, RestartSeeks DEF Fit
<1>5. CASE caller # "seek"
  <2>1. PICK r : r = Returned(q, caller)
    OBVIOUS
  <2>2. Loaded(p, Here(p), caller) = r
    BY <1>1, <1>5, <2>1 DEF Loaded
  <2>3. /\ DOMAIN r = PlayerFields /\ r.engine = q.engine /\ r.tasks = {} /\ r.queue = q.queue
        /\ r.current = q.current /\ r.state = q.state /\ r.resetOffset = q.resetOffset
        /\ r.pauseIntent = q.pauseIntent /\ r.pendingEnded = q.pendingEnded
    BY <1>2, <2>1 DEF Returned, AtStart, AtTrack, Orderly, Formed, PlayerFields
  <2>4. Orderly(r) /\ (Sounds(q) => Sounds(r))
    BY <1>2, <2>3 DEF AtStart, AtTrack, Orderly, Formed, Sounds, Plays, Awaits, Ahead, Here
  <2>5. Sounds(q)
    BY <1>2 DEF Fit, AtStart, AtTrack, Idles, Over
  <2> QED
    BY <2>2, <2>4, <2>5 DEF Fit
<1> QED
  BY <1>4, <1>5

-----------------------------------------------------------------------------
(* The steps of a load.                                                    *)

LEMMA ResolvedIs ==
  ASSUME NEW p, DOMAIN p = PlayerFields, NEW t
  PROVE  LET r == Resolved(p, t) IN
         /\ DOMAIN r = PlayerFields /\ r.engine = p.engine /\ r.queue = p.queue
         /\ r.state = p.state /\ r.current = p.current /\ r.resetOffset = p.resetOffset
         /\ r.pauseIntent = p.pauseIntent /\ r.pendingEnded = p.pendingEnded
         /\ r.eosInFlight = p.eosInFlight
         /\ r.tasks = p.tasks \ {t}
  BY DEF Resolved, PlayerFields

(* The listener this is about.                                             *)
Patient == user.patient /\ ~user.failures

LEMMA ClosedGoesOn ==
  ASSUME Orderly(player), NEW l \in player.tasks, Loads(player, l), Closed
  PROVE  Fit(player')
<1>1. PICK t \in player.tasks :
        /\ t.at = "closing"
        /\ LET p == Create(Resolved(player, t), t.item)
           IN  player' = IF t.fresh THEN Pending(p, "initing", t.item, t.caller)
                         ELSE Returned(p, t.caller)
  BY DEF Closed
<1>2. t = l /\ t.fresh /\ t.item = Here(player)
  BY <1>1 DEF Loads, Orderly
<1>3. PICK p : p = Resolved(player, t)
  OBVIOUS
<1>4. Clear(p) /\ Here(p) = t.item
  BY <1>1, <1>2, <1>3, ResolvedIs DEF Clear, Loads, Orderly, Formed, Here
<1>5. player' = Pending(Create(p, Here(p)), "initing", Here(p), t.caller)
  BY <1>1, <1>2, <1>3, <1>4
<1>6. PICK c : c = t.caller
  OBVIOUS
<1> QED
  BY <1>4, <1>5, <1>6, CreateLoads DEF Fit

LEMMA InitialisedLoads ==
  ASSUME Orderly(player), NEW l \in player.tasks, Loads(player, l), Initialised
  PROVE  Fit(player')
<1>1. PICK p : p = [player EXCEPT !.engine.ready = TRUE]
  OBVIOUS
<1>2. PICK mine : mine = {t \in Fresh("initing") : t.here}
  OBVIOUS
<1>3. IF mine = {} THEN player' = p
      ELSE \E t \in mine : player' = Open(Resolved(p, t), t.item, t.caller)
  BY <1>1, <1>2 DEF Initialised
<1>4. /\ Orderly(p) /\ Loads(p, l) /\ l \in p.tasks /\ p.tasks = player.tasks
  BY <1>1, NoEngineIsFormed DEF Orderly, Formed, PlayerFields, Loads, Still, Here
<1>5. CASE mine = {}
  BY <1>3, <1>4, <1>5 DEF Fit
<1>6. CASE mine # {}
  <2>1. PICK t \in mine : player' = Open(Resolved(p, t), t.item, t.caller)
    BY <1>3, <1>6
  <2>2. t \in p.tasks /\ t.at = "initing"
    BY <1>2, <1>4 DEF Fresh
  <2>3. t = l
    BY <1>4, <2>2 DEF Loads
  <2>4. PICK q, c : q = Resolved(p, t) /\ c = t.caller
    OBVIOUS
  <2>5. /\ Clear(q) /\ Here(q) = t.item
        /\ q.engine.kind # "none" /\ q.engine.live
    BY <1>4, <2>2, <2>3, <2>4, ResolvedIs DEF Clear, Loads, Orderly, Formed, Here
  <2>6. player' = Open(q, Here(q), c)
    BY <2>1, <2>4, <2>5
  <2> QED
    BY <2>5, <2>6, OpenLoads DEF Fit
<1> QED
  BY <1>5, <1>6

LEMMA OpenedGoesOn ==
  ASSUME Orderly(player), NEW l \in player.tasks, Loads(player, l), Opened
  PROVE  Fit(player')
<1>1. PICK p : p = [player EXCEPT !.engine = [@ EXCEPT
                !.current = player.engine.opening, !.opening = "none", !.left = 1,
                !.configured = (@ \/ player.engine.ready)]]
  OBVIOUS
<1>2. PICK mine : mine = {t \in Fresh("opening") : t.here}
  OBVIOUS
<1>3. /\ player.engine.opening # "none" /\ Leavers = {}
      /\ IF mine = {} THEN player' = p
         ELSE \E t \in mine : player' = AfterOpen(Resolved(p, t), t.item, t.caller)
  BY <1>1, <1>2 DEF Opened
<1>4. l.at = "opening" /\ player.tasks = {l}
  BY <1>3 DEF Loads, Leavers
<1>5. mine = {l}
  BY <1>2, <1>4 DEF Orderly, Fresh
<1>6. player' = AfterOpen(Resolved(p, l), l.item, l.caller)
  BY <1>3, <1>5
<1>7. PICK q, c : q = Resolved(p, l) /\ c = l.caller
  OBVIOUS
<1>8. /\ DOMAIN p = PlayerFields /\ DOMAIN p.engine = DOMAIN NoEngine
      /\ p.engine.current = l.item /\ p.engine.opening = "none" /\ p.engine.left = 1
      /\ p.engine.kind # "none" /\ p.engine.live /\ Still(p.engine) /\ ~p.engine.pumping
      /\ ~p.engine.seeking /\ p.engine.wanted = "none" /\ p.engine.standby = "none"
      /\ ~p.engine.suspending
      /\ p.queue = player.queue /\ p.tasks = {l} /\ ~p.pendingEnded
      /\ ~p.pauseIntent /\ p.state \in {"loading", "buffering"}
  BY <1>1, <1>4, NoEngineIsFormed DEF Orderly, Formed, PlayerFields, Loads, Still
<1>9. /\ AtTrack(q) /\ Here(q) = l.item /\ q.engine = p.engine
      /\ q.state = p.state /\ q.pendingEnded = p.pendingEnded
  BY <1>7, <1>8, ResolvedIs DEF AtTrack, Orderly, Formed, Loads, Ahead, Here
<1>10. player' = AfterOpen(q, Here(q), c)
  BY <1>6, <1>7, <1>9
<1> QED
  BY <1>8, <1>9, <1>10, AfterOpenGoesOn DEF Fit

LEMMA PreparedSeeks ==
  ASSUME Orderly(player), NEW l \in player.tasks, Loads(player, l), Prepared, Patient
  PROVE  Fit(player')
<1>1. PICK p : p = [player EXCEPT !.engine = [@ EXCEPT
                 !.standby = player.engine.wanted, !.wanted = "none"]]
  OBVIOUS
<1>2. PICK mine : mine = Fresh("preparing") \cup Fresh("readying")
  OBVIOUS
<1>3. /\ player.engine.wanted # "none"
      /\ IF mine = {} THEN player' = p
         ELSE \E t \in mine :
                player' = IF t.at = "preparing"
                            THEN Publish(Resolved(p, t), t.item, t.caller)
                            ELSE Handed(Resolved(p, t), t.item)
  BY <1>1, <1>2 DEF Prepared, Patient
<1>4. l.at = "preparing" /\ player.tasks = {l}
  BY <1>3 DEF Loads
<1>5. mine = {l}
  BY <1>2, <1>4 DEF Orderly, Fresh
<1>6. player' = Publish(Resolved(p, l), l.item, l.caller)
  BY <1>3, <1>4, <1>5
<1>7. PICK q, c : q = Resolved(p, l) /\ c = l.caller
  OBVIOUS
<1>8. /\ DOMAIN p = PlayerFields /\ DOMAIN p.engine = DOMAIN NoEngine
      /\ p.engine.current = l.item /\ p.engine.opening = "none"
      /\ p.engine.kind # "none" /\ p.engine.live /\ p.engine.wanted = "none"
      /\ p.queue = player.queue /\ p.tasks = {l} /\ ~p.pendingEnded /\ ~p.pauseIntent
      /\ ~p.engine.suspending
  BY <1>1, <1>4, NoEngineIsFormed DEF Orderly, Formed, PlayerFields, Loads
<1>9. AtTrack(q) /\ Here(q) = l.item
  BY <1>4, <1>7, <1>8, ResolvedIs DEF AtTrack, Orderly, Formed, Loads, Ahead, Here
<1>10. player' = Publish(q, Here(q), c)
  BY <1>6, <1>7, <1>9
<1> QED
  BY <1>9, <1>10, PublishSeeks DEF Fit

LEMMA LoadingLeaves ==
  ASSUME Orderly(player), NEW l \in player.tasks, Loads(player, l), Leave
  PROVE  Fit(player')
<1>1. PICK t \in player.tasks : /\ t.at = "leaving"
                                /\ player' = [Resolved(player, t) EXCEPT !.eosInFlight = FALSE]
  BY DEF Leave, Leavers
<1>2. PICK p : p = Resolved(player, t)
  OBVIOUS
<1>3. /\ DOMAIN p = PlayerFields /\ p.engine = player.engine /\ p.queue = player.queue
      /\ p.state = player.state /\ ~p.pendingEnded /\ ~p.pauseIntent
      /\ p.tasks = player.tasks \ {t}
  BY <1>2, ResolvedIs DEF Orderly, Formed, Loads
<1>4. PICK r : r = player'
  OBVIOUS
<1>5. /\ DOMAIN r = PlayerFields /\ r.engine = player.engine /\ r.queue = player.queue
      /\ r.state = player.state /\ ~r.pendingEnded /\ ~r.pauseIntent
      /\ r.tasks = player.tasks \ {t}
  BY <1>1, <1>2, <1>3, <1>4 DEF PlayerFields
<1>6. t # l
  BY <1>1 DEF Loads
<1>7. Orderly(r) /\ Loads(r, l)
  BY <1>5, <1>6 DEF Orderly, Formed, Loads, Here
<1> QED
  BY <1>4, <1>5, <1>6, <1>7 DEF Fit

(* An output that runs dry during a load.                                  *)
LEMMA LoadingUnderruns ==
  ASSUME Orderly(player), NEW l \in player.tasks, Loads(player, l), Underrun
  PROVE  Fit(player')
<1>1. PICK d : d = [player.engine EXCEPT !.dry = TRUE, !.primed = FALSE, !.asked = FALSE,
                     !.drained = @ \/ (player.engine.eos /\ player.engine.current # "none")]
  OBVIOUS
<1>2. PICK e : e = Pump(d)
  OBVIOUS
<1>3. PICK p : p = [player EXCEPT !.engine = e]
  OBVIOUS
<1>4. player' = IF Live /\ p.state \in {"loading", "buffering", "playing"}
                     THEN [p EXCEPT !.state = "buffering"] ELSE p
  BY <1>1, <1>2, <1>3 DEF Underrun, Ring
<1>5. /\ DOMAIN d = DOMAIN NoEngine /\ Still(d) /\ ~d.pumping /\ ~d.seeking
      /\ d.kind = player.engine.kind /\ d.suspending = player.engine.suspending
      /\ d.live = player.engine.live
      /\ d.current = player.engine.current /\ d.opening = player.engine.opening
      /\ d.standby = player.engine.standby /\ d.wanted = player.engine.wanted
      /\ d.left = player.engine.left
  BY <1>1, NoEngineIsFormed DEF Orderly, Formed, Loads, Still
<1>6. /\ DOMAIN e = DOMAIN NoEngine /\ Still(e) /\ ~e.pumping /\ ~e.seeking
      /\ e.kind = player.engine.kind /\ e.suspending = player.engine.suspending
      /\ e.live = player.engine.live
      /\ e.current = player.engine.current /\ e.opening = player.engine.opening
      /\ e.standby = player.engine.standby /\ e.wanted = player.engine.wanted
      /\ e.left = player.engine.left
  BY <1>2, <1>5, PumpIs DEF Still
<1>7. PICK r : r = player'
  OBVIOUS
<1>8. /\ DOMAIN r = PlayerFields /\ r.engine = e /\ r.queue = player.queue
      /\ r.state \in {"loading", "buffering"} /\ ~r.pendingEnded /\ ~r.pauseIntent
      /\ r.tasks = player.tasks
  BY <1>3, <1>4, <1>7 DEF Orderly, Formed, Loads, PlayerFields
<1>9. Orderly(r) /\ Loads(r, l)
  BY <1>6, <1>8 DEF Orderly, Formed, Loads, Here
<1> QED
  BY <1>7, <1>8, <1>9 DEF Fit

(* The position report, where it adopts nothing and ends nothing.          *)
LEMMA TickIs ==
  ASSUME Formed(player), ~Adopts(player), ~Ends(player), Tick
  PROVE  /\ DOMAIN player' = PlayerFields /\ player'.engine = player.engine
         /\ player'.queue = player.queue /\ player'.tasks = player.tasks
         /\ player'.state = player.state /\ player'.current = player.current
         /\ player'.resetOffset = player.resetOffset
         /\ player'.pauseIntent = player.pauseIntent
         /\ player'.pendingEnded = player.pendingEnded
         /\ player'.eosInFlight = player.eosInFlight
<1>1. Ticked(player) = player
  BY DEF Ticked
<1> QED
  BY <1>1 DEF Tick, Formed, PlayerFields

LEMMA LoadingTicks ==
  ASSUME Orderly(player), NEW l \in player.tasks, Loads(player, l), Tick
  PROVE  Fit(player')
<1>1. ~Adopts(player) /\ ~Ends(player)
  BY DEF Adopts, Ends, Loads
<1>2. Orderly(player') /\ Loads(player', l) /\ player'.tasks = player.tasks
  BY <1>1, TickIs DEF Orderly, Formed, Loads, Here
<1> QED
  BY <1>2 DEF Fit

(* No call answers on an engine that was given up, and none fails.         *)
LEMMA NoneElsewhere ==
  ASSUME Orderly(player), Patient
  PROVE  ~Elsewhere /\ ~OpenFails /\ ~PlayRefused
  BY DEF Orderly, Elsewhere, OpenFails, PlayRefused, Patient

LEMMA LoadingGoesOn ==
  ASSUME Orderly(player), Patient, NEW l \in player.tasks, Loads(player, l),
         Continue \/ OpenFails \/ PlayRefused \/ EngineEvent
  PROVE  Fit(player')
<1>1. /\ ~Sought /\ ~Finished /\ ~Promoted /\ ~Suspended
      /\ ~Decode /\ ~DecodeEos /\ ~Render /\ ~Primed
  <2>1. /\ ~player.engine.seeking /\ ~player.engine.promoting /\ ~player.engine.asked
        /\ player.engine.promoted = "none" /\ ~player.engine.suspending
        /\ ~(player.engine.buffered > 0)
    BY DEF Loads, Still, Orderly
  <2>2. ~Sought
    BY <2>1 DEF Sought
  <2>3. ~Finished /\ ~Promoted
    BY <2>1 DEF Finished, Promoted
  <2>4. ~Decode /\ ~DecodeEos
    BY <2>1 DEF Decode, DecodeEos
  <2>5. ~Render /\ ~Primed
    BY <2>1 DEF Render, Primed
  <2>6. ~Suspended
    BY <2>1 DEF Suspended
  <2> QED
    BY <2>2, <2>3, <2>4, <2>5, <2>6
<1>2. ~Played /\ ~Halted /\ ~TornDown
  BY DEF Loads, Played, Halted, TornDown, Fresh
<1> QED
  BY <1>1, <1>2, NoneElsewhere, ClosedGoesOn, InitialisedLoads, OpenedGoesOn,
     PreparedSeeks, LoadingLeaves, LoadingUnderruns, LoadingTicks
     DEF Continue, EngineEvent

-----------------------------------------------------------------------------
(* The steps of a seek.                                                    *)

LEMMA SoughtGoesOn ==
  ASSUME Orderly(player), NEW s \in player.tasks, Seeks(player, s), Sought, RingUnits = 2
  PROVE  Fit(player')
<1>1. PICK d : d = [player.engine EXCEPT !.seeking = FALSE]
  OBVIOUS
<1>2. PICK e : e = Pump(d)
  OBVIOUS
<1>3. PICK p : p = [player EXCEPT !.engine = e]
  OBVIOUS
<1>4. PICK mine : mine = Fresh("seeking") \cup Fresh("restarting")
  OBVIOUS
<1>5. IF mine = {} THEN player' = p
      ELSE \E t \in mine :
             player' = IF t.at = "seeking" THEN Loaded(Resolved(p, t), t.item, t.caller)
                       ELSE StartUnlessPaused(Resolved(p, t))
  BY <1>1, <1>2, <1>3, <1>4 DEF Sought
<1>6. mine = {s} /\ player.tasks = {s}
  BY <1>4 DEF Orderly, Seeks, Fresh
<1>7. player' = IF s.at = "seeking" THEN Loaded(Resolved(p, s), s.item, s.caller)
                ELSE StartUnlessPaused(Resolved(p, s))
  BY <1>5, <1>6
<1>8. /\ DOMAIN d = DOMAIN NoEngine /\ ~d.seeking
      /\ d.kind = player.engine.kind /\ d.suspending = player.engine.suspending
      /\ d.live = player.engine.live
      /\ d.current = player.engine.current /\ d.opening = player.engine.opening
      /\ d.standby = player.engine.standby /\ d.wanted = player.engine.wanted
      /\ d.left = player.engine.left /\ d.buffered = player.engine.buffered
      /\ d.rendered = player.engine.rendered /\ d.eos = player.engine.eos
      /\ d.drained = player.engine.drained /\ d.promoting = player.engine.promoting
      /\ d.promoted = player.engine.promoted
  BY <1>1, NoEngineIsFormed DEF Orderly, Formed
<1>9. /\ DOMAIN p = PlayerFields /\ p.engine = e /\ p.queue = player.queue
      /\ p.state = player.state /\ p.current = player.current
      /\ p.resetOffset = player.resetOffset /\ p.pauseIntent = player.pauseIntent
      /\ p.pendingEnded = player.pendingEnded /\ p.tasks = {s}
  BY <1>3, <1>6 DEF Orderly, Formed, PlayerFields
<1>10. PICK q, c : q = Resolved(p, s) /\ c = s.caller
  OBVIOUS
<1>11. /\ DOMAIN q = PlayerFields /\ q.engine = e /\ q.queue = player.queue
       /\ q.state = player.state /\ q.current = player.current
       /\ q.resetOffset = player.resetOffset /\ q.pauseIntent = player.pauseIntent
       /\ q.pendingEnded = player.pendingEnded /\ q.tasks = {}
  BY <1>9, <1>10, ResolvedIs
<1>12. AtStart(q) /\ Here(q) = Here(player)
  <2>1. /\ DOMAIN e = DOMAIN NoEngine /\ ~e.seeking /\ e.current = Here(player)
        /\ e.opening = "none" /\ e.wanted = "none" /\ e.kind # "none" /\ e.live
        /\ e.standby = player.engine.standby /\ e.left = 1 /\ e.buffered = 0
        /\ e.rendered = 0 /\ ~e.eos /\ ~e.drained /\ ~Handing(e) /\ ~e.suspending
    <3>1. /\ DOMAIN e = DOMAIN NoEngine /\ e.seeking = d.seeking /\ e.current = d.current
          /\ e.opening = d.opening /\ e.wanted = d.wanted /\ e.kind = d.kind
          /\ e.suspending = d.suspending /\ e.live = d.live
          /\ e.standby = d.standby /\ e.left = d.left /\ e.buffered = d.buffered
          /\ e.rendered = d.rendered /\ e.eos = d.eos /\ e.drained = d.drained
          /\ e.promoting = d.promoting /\ e.promoted = d.promoted
      BY <1>2, <1>8, PumpIs
    <3> QED
      BY <1>8, <3>1 DEF Seeks, Opens, Still, Handing, Orderly
  <2> QED
    BY <1>11, <2>1 DEF AtStart, AtTrack, Orderly, Formed, Seeks, Opens, Ahead, Here
<1>13. CASE s.at = "seeking"
  <2>1. player' = Loaded(q, Here(q), c)
    BY <1>7, <1>10, <1>12, <1>13 DEF Seeks
  <2> QED
    BY <1>12, <2>1, LoadedGoesOn
<1>14. CASE s.at # "seeking"
  <2>1. player' = StartUnlessPaused(q)
    BY <1>7, <1>10, <1>14
  <2> QED
    BY <1>12, <2>1, StartSounds
<1> QED
  BY <1>13, <1>14

LEMMA SeekingGoesOn ==
  ASSUME Orderly(player), Patient, NEW s \in player.tasks, Seeks(player, s), RingUnits = 2,
         Continue \/ OpenFails \/ PlayRefused \/ EngineEvent
  PROVE  Fit(player')
<1>1. /\ ~Closed /\ ~Opened /\ ~Prepared /\ ~Finished /\ ~Promoted /\ ~Played
      /\ ~Suspended /\ ~Halted /\ ~TornDown /\ ~Leave
  BY DEF Orderly, Seeks, Opens, Still, Closed, Opened, Prepared, Finished, Promoted, Played,
     Suspended, Halted, TornDown, Leave, Leavers, Fresh
<1>2. ~Decode /\ ~DecodeEos /\ ~Render /\ ~Primed
  BY DEF Seeks, Still, Decode, DecodeEos, Render, Primed
<1>3. CASE Initialised
  <2>1. {t \in Fresh("initing") : t.here} = {}
    BY DEF Seeks, Fresh
  <2>2. player' = [player EXCEPT !.engine.ready = TRUE]
    BY <1>3, <2>1 DEF Initialised
  <2>3. Orderly(player') /\ Seeks(player', s) /\ player'.tasks = player.tasks
    BY <2>2, NoEngineIsFormed DEF Orderly, Formed, PlayerFields, Seeks, Opens, Ahead, Still, Here
  <2> QED
    BY <2>3 DEF Fit
<1>4. CASE Tick
  <2>1. Clock(player) = player.queue.index - 1 /\ player.queue.index - 1 < Len(player.queue.items)
    BY CurrentIs DEF Clock, Seeks, Still, Orderly, Opens, Here
  <2>2. ~Adopts(player) /\ ~Ends(player)
    BY <2>1, CurrentIs DEF Adopts, Ends, Seeks, Still, Orderly
  <2>3. Orderly(player') /\ Seeks(player', s) /\ player'.tasks = player.tasks
    BY <1>4, <2>2, TickIs DEF Orderly, Formed, Seeks, Opens, Ahead, Here
  <2> QED
    BY <2>3 DEF Fit
<1>5. CASE Underrun
  <2>1. PICK d : d = [player.engine EXCEPT !.dry = TRUE, !.primed = FALSE, !.asked = FALSE,
                     !.drained = @ \/ (player.engine.eos /\ player.engine.current # "none")]
    OBVIOUS
  <2>2. PICK e : e = Pump(d)
    OBVIOUS
  <2>3. PICK p : p = [player EXCEPT !.engine = e]
    OBVIOUS
  <2>4. player' = IF Live /\ p.state \in {"loading", "buffering", "playing"}
                     THEN [p EXCEPT !.state = "buffering"] ELSE p
    BY <1>5, <2>1, <2>2, <2>3 DEF Underrun, Ring
  <2>5. /\ DOMAIN d = DOMAIN NoEngine /\ Still(d) /\ d.seeking
        /\ d.kind = player.engine.kind /\ d.suspending = player.engine.suspending
        /\ d.live = player.engine.live
        /\ d.current = player.engine.current /\ d.opening = player.engine.opening
        /\ d.standby = player.engine.standby /\ d.wanted = player.engine.wanted
        /\ d.left = player.engine.left
    BY <2>1, NoEngineIsFormed DEF Orderly, Formed, Seeks, Still
  <2>6. /\ DOMAIN e = DOMAIN NoEngine /\ Still(e) /\ e.seeking
        /\ e.kind = player.engine.kind /\ e.suspending = player.engine.suspending
        /\ e.live = player.engine.live
        /\ e.current = player.engine.current /\ e.opening = player.engine.opening
        /\ e.standby = player.engine.standby /\ e.wanted = player.engine.wanted
        /\ e.left = player.engine.left
    BY <2>2, <2>5, PumpIs DEF Still
  <2>7. PICK r : r = player'
    OBVIOUS
  <2>8. /\ DOMAIN r = PlayerFields /\ r.engine = e /\ r.queue = player.queue
        /\ r.state = "buffering" /\ r.pendingEnded = player.pendingEnded /\ ~r.pauseIntent
        /\ r.tasks = player.tasks /\ r.current = player.current
        /\ r.resetOffset = player.resetOffset
    BY <2>3, <2>4, <2>7 DEF Orderly, Formed, Seeks, PlayerFields
  <2>9. Orderly(r) /\ Seeks(r, s)
    BY <2>6, <2>8 DEF Orderly, Formed, Seeks, Opens, Ahead, Here
  <2> QED
    BY <2>7, <2>8, <2>9 DEF Fit
<1> QED
  BY <1>1, <1>2, <1>3, <1>4, <1>5, NoneElsewhere, SoughtGoesOn DEF Continue, EngineEvent

-----------------------------------------------------------------------------
(* The steps of a player that sounds.                                      *)

(* A step of the ring, the decoder or the output.                          *)
LEMMA SoundsOn ==
  ASSUME NEW p, Orderly(p), Sounds(p), NEW f, DOMAIN f = DOMAIN NoEngine,
         f.current = p.engine.current, f.opening = p.engine.opening,
         f.standby = p.engine.standby, f.wanted = p.engine.wanted,
         f.kind = p.engine.kind, f.suspending = p.engine.suspending, f.live = p.engine.live, ~f.seeking,
         f.eos = p.engine.eos, f.promoting = p.engine.promoting, f.promoted = p.engine.promoted,
         f.pumping = p.engine.pumping,
         f.rendered \in Nat, f.buffered \in Nat, f.left \in {0, 1},
         f.rendered + f.buffered + f.left
           = p.engine.rendered + p.engine.buffered + p.engine.left,
         f.asked => f.buffered < 2,
         ~f.eos /\ f.left = 0 => f.buffered # 0 /\ (f.buffered = 1 => f.asked),
         f.eos => f.left = 0,
         ~f.running => f.rendered = 0 /\ ~f.drained,
         p.pendingEnded /\ f.drained => f.eos,
         \A t \in p.tasks : t.at \in {"primed", "starting"} => f.rendered = 0 /\ ~f.drained,
         NEW r, DOMAIN r = PlayerFields, r.engine = f, r.queue = p.queue,
         r.tasks = p.tasks, r.current = p.current, r.resetOffset = p.resetOffset,
         r.pauseIntent = p.pauseIntent, r.pendingEnded = p.pendingEnded,
         r.eosInFlight = p.eosInFlight, r.state \in {"buffering", "playing"}
  PROVE  Orderly(r) /\ Sounds(r)
<1>1. Orderly(r)
  BY DEF Orderly, Formed, Sounds, Plays
<1>2. Plays(r)
  <2>1. /\ f.current = (IF f.promoted = "none" THEN Here(r) ELSE "none")
        /\ f.opening = "none" /\ f.kind # "none" /\ f.live
        /\ f.promoted # "none" => ~f.promoting /\ f.standby = "none"
        /\ ~f.eos => f.pumping /\ ~Handing(f)
        /\ Handing(f) => f.pumping
        /\ f.eos => (Handing(f) <=> ~r.pendingEnded)
        /\ Ahead(r)
    BY DEF Sounds, Plays, Here, Ahead, Handing
  <2>2. /\ r.resetOffset \in Nat
        /\ r.resetOffset + f.rendered + f.buffered + f.left = r.queue.index
        /\ r.resetOffset + 1 <= r.queue.index
    <3>1. /\ p.engine.rendered \in Nat /\ p.engine.buffered \in Nat /\ p.engine.left \in Nat
          /\ p.resetOffset \in Nat /\ p.resetOffset + 1 <= p.queue.index
          /\ p.resetOffset + p.engine.rendered + p.engine.buffered + p.engine.left = p.queue.index
      BY DEF Sounds, Plays
    <3>2. p.queue.index \in Nat
      BY CurrentIs DEF Orderly
    <3> QED
      BY <3>1, <3>2
  <2> QED
    BY <2>1, <2>2 DEF Plays
<1>3. Awaits(r)
  BY DEF Sounds, Awaits, Here, Handing
<1> QED
  BY <1>1, <1>2, <1>3 DEF Sounds

(* What Sounds says of the engine's numbers.                               *)
LEMMA PlaysIs ==
  ASSUME NEW p, Orderly(p), Sounds(p)
  PROVE  LET e == p.engine IN
         /\ DOMAIN p = PlayerFields /\ DOMAIN e = DOMAIN NoEngine
         /\ e.rendered \in Nat /\ e.buffered \in Nat /\ e.left \in {0, 1}
         /\ p.resetOffset \in Nat /\ p.queue.index \in Nat
         /\ Here(p) # "none" /\ (e.promoted = "none" => e.current # "none")
         /\ e.opening = "none" /\ ~e.seeking /\ e.live /\ ~e.suspending
         /\ ~e.eos => e.pumping /\ ~e.promoting /\ e.promoted = "none"
         /\ ~e.eos /\ e.left = 0 => e.buffered # 0 /\ (e.buffered = 1 => e.asked)
         /\ e.eos => e.left = 0
         /\ e.asked => e.buffered < 2
         /\ ~e.running => e.rendered = 0 /\ ~e.drained
         /\ p.pendingEnded /\ e.drained => e.eos
<1>1. p.resetOffset + 1 <= p.queue.index /\ p.resetOffset \in Nat
  BY DEF Sounds, Plays
<1>2. p.queue.index # 0 /\ p.queue.index \in Nat
  BY <1>1, CurrentIs DEF Orderly
<1>3. Here(p) # "none"
  BY <1>2, CurrentIs DEF Orderly, Here
<1> QED
  BY <1>2, <1>3 DEF Sounds, Plays, Orderly, Formed, Handing

LEMMA SoundingDecodes ==
  ASSUME Orderly(player), Sounds(player), Decode, RingUnits = 2
  PROVE  Fit(player')
<1>1. PICK d : d = [player.engine EXCEPT !.left = @ - 1, !.buffered = @ + 1, !.asked = FALSE]
  OBVIOUS
<1>2. PICK e : e = Pump(d)
  OBVIOUS
<1>3. /\ player.engine.asked /\ player.engine.left > 0
      /\ player' = [player EXCEPT !.engine = e]
  BY <1>1, <1>2 DEF Decode, Ring
<1>4. /\ DOMAIN d = DOMAIN NoEngine /\ ~d.asked /\ ~d.seeking
      /\ d.left = player.engine.left - 1 /\ d.buffered = player.engine.buffered + 1
      /\ d.current = player.engine.current /\ d.opening = player.engine.opening
      /\ d.standby = player.engine.standby /\ d.wanted = player.engine.wanted
      /\ d.kind = player.engine.kind /\ d.suspending = player.engine.suspending
      /\ d.live = player.engine.live
      /\ d.eos = player.engine.eos /\ d.promoting = player.engine.promoting
      /\ d.promoted = player.engine.promoted
      /\ d.pumping = player.engine.pumping /\ d.rendered = player.engine.rendered
      /\ d.drained = player.engine.drained /\ d.running = player.engine.running
  BY <1>1, PlaysIs, NoEngineIsFormed
<1>5. /\ DOMAIN e = DOMAIN NoEngine /\ ~e.seeking
      /\ e.left = d.left /\ e.buffered = d.buffered
      /\ e.current = d.current /\ e.opening = d.opening
      /\ e.standby = d.standby /\ e.wanted = d.wanted
      /\ e.kind = d.kind /\ e.suspending = d.suspending /\ e.live = d.live /\ e.eos = d.eos
      /\ e.promoting = d.promoting /\ e.promoted = d.promoted /\ e.pumping = d.pumping
      /\ e.rendered = d.rendered /\ e.drained = d.drained /\ e.running = d.running
      /\ e.asked => d.buffered < 2
      /\ d.pumping /\ d.opening = "none" /\ d.current # "none" /\ d.buffered < 2 => e.asked
  BY <1>2, <1>4, PumpIs
<1>6. /\ player.engine.left = 1 /\ ~player.engine.eos /\ player.engine.pumping
      /\ player.engine.current # "none"
  BY <1>3, PlaysIs
<1>7. /\ e.rendered \in Nat /\ e.buffered \in Nat /\ e.left \in {0, 1}
      /\ e.rendered + e.buffered + e.left
           = player.engine.rendered + player.engine.buffered + player.engine.left
      /\ e.asked => e.buffered < 2
      /\ ~e.eos /\ e.left = 0 => e.buffered # 0 /\ (e.buffered = 1 => e.asked)
      /\ e.eos => e.left = 0
      /\ ~e.running => e.rendered = 0 /\ ~e.drained
      /\ player.pendingEnded /\ e.drained => e.eos
  BY <1>4, <1>5, <1>6, PlaysIs
<1>8. \A t \in player.tasks : t.at \in {"primed", "starting"} => e.rendered = 0 /\ ~e.drained
  BY <1>4, <1>5 DEF Sounds, Awaits
<1>9. PICK r : r = player'
  OBVIOUS
<1>10. /\ DOMAIN r = PlayerFields /\ r.engine = e /\ r.queue = player.queue
       /\ r.tasks = player.tasks /\ r.current = player.current
       /\ r.resetOffset = player.resetOffset /\ r.pauseIntent = player.pauseIntent
       /\ r.pendingEnded = player.pendingEnded /\ r.eosInFlight = player.eosInFlight
       /\ r.state \in {"buffering", "playing"}
  BY <1>3, <1>9, PlaysIs DEF PlayerFields, Sounds, Plays
<1>11. Orderly(r) /\ Sounds(r)
  BY <1>4, <1>5, <1>7, <1>8, <1>10, SoundsOn
<1> QED
  BY <1>9, <1>11 DEF Fit

LEMMA SoundingRenders ==
  ASSUME Orderly(player), Sounds(player), Render, RingUnits = 2
  PROVE  Fit(player')
<1>1. PICK d : d = [player.engine EXCEPT !.buffered = @ - 1, !.rendered = @ + 1, !.dry = FALSE]
  OBVIOUS
<1>2. PICK e : e = Pump(d)
  OBVIOUS
<1>3. /\ Running /\ player.engine.buffered > 0
      /\ ~(player.engine.buffered = 1 /\ player.engine.asked
           /\ player.engine.left = 0 /\ ~player.engine.eos)
      /\ player' = [player EXCEPT !.engine = e]
  BY <1>1, <1>2 DEF Render, Ring
<1>4. /\ DOMAIN d = DOMAIN NoEngine /\ ~d.seeking
      /\ d.left = player.engine.left /\ d.buffered = player.engine.buffered - 1
      /\ d.current = player.engine.current /\ d.opening = player.engine.opening
      /\ d.standby = player.engine.standby /\ d.wanted = player.engine.wanted
      /\ d.kind = player.engine.kind /\ d.suspending = player.engine.suspending
      /\ d.live = player.engine.live
      /\ d.eos = player.engine.eos /\ d.promoting = player.engine.promoting
      /\ d.promoted = player.engine.promoted
      /\ d.pumping = player.engine.pumping /\ d.rendered = player.engine.rendered + 1
      /\ d.drained = player.engine.drained /\ d.running = player.engine.running
      /\ d.asked = player.engine.asked
  BY <1>1, PlaysIs, NoEngineIsFormed
<1>5. /\ DOMAIN e = DOMAIN NoEngine /\ ~e.seeking
      /\ e.left = d.left /\ e.buffered = d.buffered
      /\ e.current = d.current /\ e.opening = d.opening
      /\ e.standby = d.standby /\ e.wanted = d.wanted
      /\ e.kind = d.kind /\ e.suspending = d.suspending /\ e.live = d.live /\ e.eos = d.eos
      /\ e.promoting = d.promoting /\ e.promoted = d.promoted /\ e.pumping = d.pumping
      /\ e.rendered = d.rendered /\ e.drained = d.drained /\ e.running = d.running
      /\ e.asked /\ ~d.asked => d.buffered < 2
      /\ d.asked => e.asked
      /\ d.pumping /\ d.opening = "none" /\ d.current # "none" /\ d.buffered < 2 => e.asked
  BY <1>2, <1>4, PumpIs
<1>6. /\ e.rendered \in Nat /\ e.buffered \in Nat /\ e.left \in {0, 1}
      /\ e.rendered + e.buffered + e.left
           = player.engine.rendered + player.engine.buffered + player.engine.left
      /\ e.asked => e.buffered < 2
      /\ ~e.eos /\ e.left = 0 => e.buffered # 0 /\ (e.buffered = 1 => e.asked)
      /\ e.eos => e.left = 0
      /\ player.pendingEnded /\ e.drained => e.eos
  BY <1>3, <1>4, <1>5, PlaysIs
<1>7. e.running
  BY <1>3, <1>4, <1>5 DEF Running
<1>8. \A t \in player.tasks : t.at \notin {"primed", "starting"}
  BY <1>3 DEF Running, Orderly, TransportBound
<1>9. PICK r : r = player'
  OBVIOUS
<1>10. /\ DOMAIN r = PlayerFields /\ r.engine = e /\ r.queue = player.queue
       /\ r.tasks = player.tasks /\ r.current = player.current
       /\ r.resetOffset = player.resetOffset /\ r.pauseIntent = player.pauseIntent
       /\ r.pendingEnded = player.pendingEnded /\ r.eosInFlight = player.eosInFlight
       /\ r.state \in {"buffering", "playing"}
  BY <1>3, <1>9, PlaysIs DEF PlayerFields, Sounds, Plays
<1>11. Orderly(r) /\ Sounds(r)
  <2>1. /\ DOMAIN e = DOMAIN NoEngine /\ ~e.seeking
        /\ e.current = player.engine.current /\ e.opening = player.engine.opening
        /\ e.standby = player.engine.standby /\ e.wanted = player.engine.wanted
        /\ e.kind = player.engine.kind /\ e.suspending = player.engine.suspending
        /\ e.live = player.engine.live
        /\ e.eos = player.engine.eos /\ e.promoting = player.engine.promoting
        /\ e.promoted = player.engine.promoted
        /\ e.pumping = player.engine.pumping
    BY <1>4, <1>5
  <2>2. \A t \in player.tasks : t.at \in {"primed", "starting"} => e.rendered = 0 /\ ~e.drained
    BY <1>8
  <2> QED
    BY <1>6, <1>7, <1>10, <2>1, <2>2, SoundsOn
<1> QED
  BY <1>9, <1>11 DEF Fit

LEMMA SoundingUnderruns ==
  ASSUME Orderly(player), Sounds(player), Underrun, RingUnits = 2
  PROVE  Fit(player')
<1>1. PICK d : d = [player.engine EXCEPT !.dry = TRUE, !.primed = FALSE, !.asked = FALSE,
                     !.drained = @ \/ (player.engine.eos /\ player.engine.current # "none")]
  OBVIOUS
<1>2. PICK e : e = Pump(d)
  OBVIOUS
<1>3. PICK p : p = [player EXCEPT !.engine = e]
  OBVIOUS
<1>4. /\ Running /\ player.engine.buffered = 0
      /\ player' = IF Live /\ p.state \in {"loading", "buffering", "playing"}
                     THEN [p EXCEPT !.state = "buffering"] ELSE p
  BY <1>1, <1>2, <1>3 DEF Underrun, Ring
<1>5. /\ DOMAIN d = DOMAIN NoEngine /\ ~d.seeking /\ ~d.asked
      /\ d.left = player.engine.left /\ d.buffered = player.engine.buffered
      /\ d.current = player.engine.current /\ d.opening = player.engine.opening
      /\ d.standby = player.engine.standby /\ d.wanted = player.engine.wanted
      /\ d.kind = player.engine.kind /\ d.suspending = player.engine.suspending
      /\ d.live = player.engine.live
      /\ d.eos = player.engine.eos /\ d.promoting = player.engine.promoting
      /\ d.promoted = player.engine.promoted
      /\ d.pumping = player.engine.pumping /\ d.rendered = player.engine.rendered
      /\ d.running = player.engine.running
      /\ d.drained => player.engine.drained \/ player.engine.eos
  BY <1>1, PlaysIs, NoEngineIsFormed
<1>6. /\ DOMAIN e = DOMAIN NoEngine /\ ~e.seeking
      /\ e.left = d.left /\ e.buffered = d.buffered
      /\ e.current = d.current /\ e.opening = d.opening
      /\ e.standby = d.standby /\ e.wanted = d.wanted
      /\ e.kind = d.kind /\ e.suspending = d.suspending /\ e.live = d.live /\ e.eos = d.eos
      /\ e.promoting = d.promoting /\ e.promoted = d.promoted /\ e.pumping = d.pumping
      /\ e.rendered = d.rendered /\ e.drained = d.drained /\ e.running = d.running
      /\ e.asked => d.buffered < 2
  BY <1>2, <1>5, PumpIs
<1>7. /\ e.rendered \in Nat /\ e.buffered \in Nat /\ e.left \in {0, 1}
      /\ e.rendered + e.buffered + e.left
           = player.engine.rendered + player.engine.buffered + player.engine.left
      /\ e.asked => e.buffered < 2
      /\ ~e.eos /\ e.left = 0 => e.buffered # 0 /\ (e.buffered = 1 => e.asked)
      /\ e.eos => e.left = 0
      /\ player.pendingEnded /\ e.drained => e.eos
  BY <1>4, <1>5, <1>6, PlaysIs
<1>8. e.running
  BY <1>4, <1>5, <1>6 DEF Running
<1>9. \A t \in player.tasks : t.at \notin {"primed", "starting"}
  BY <1>4 DEF Running, Orderly, TransportBound
<1>10. PICK r : r = player'
  OBVIOUS
<1>11. /\ DOMAIN r = PlayerFields /\ r.engine = e /\ r.queue = player.queue
       /\ r.tasks = player.tasks /\ r.current = player.current
       /\ r.resetOffset = player.resetOffset /\ r.pauseIntent = player.pauseIntent
       /\ r.pendingEnded = player.pendingEnded /\ r.eosInFlight = player.eosInFlight
       /\ r.state \in {"buffering", "playing"}
  BY <1>3, <1>4, <1>10, PlaysIs DEF PlayerFields, Sounds, Plays
<1>12. Orderly(r) /\ Sounds(r)
  BY <1>5, <1>6, <1>7, <1>8, <1>9, <1>11, SoundsOn
<1> QED
  BY <1>10, <1>12 DEF Fit

LEMMA ShownIs ==
  ASSUME NEW p, DOMAIN p = PlayerFields, NEW t
  PROVE  LET r == Shown(p, t) IN
         /\ DOMAIN r = PlayerFields /\ r.engine = p.engine /\ r.queue = p.queue
         /\ r.tasks = p.tasks /\ r.current = p.current /\ r.resetOffset = p.resetOffset
         /\ r.pauseIntent = p.pauseIntent /\ r.pendingEnded = p.pendingEnded
         /\ r.state \in {p.state, "playing"}
         /\ t.caller # "eos" => r.eosInFlight = p.eosInFlight
<1>1. PICK q : q = IF /\ t.here /\ ~p.pauseIntent
                      /\ t.at = "primed" => p.state \in {"loading", "buffering"}
                     THEN [p EXCEPT !.state = "playing"] ELSE p
  OBVIOUS
<1>2. Shown(p, t) = Returned(q, t.caller)
  BY <1>1 DEF Shown
<1>3. /\ DOMAIN q = PlayerFields /\ q.engine = p.engine /\ q.queue = p.queue
      /\ q.tasks = p.tasks /\ q.current = p.current /\ q.resetOffset = p.resetOffset
      /\ q.pauseIntent = p.pauseIntent /\ q.pendingEnded = p.pendingEnded
      /\ q.state \in {p.state, "playing"} /\ q.eosInFlight = p.eosInFlight
  BY <1>1 DEF PlayerFields
<1> QED
  BY <1>2, <1>3 DEF Returned, PlayerFields

(* Plays looks at these fields only.                                       *)
LEMMA SamePlays ==
  ASSUME NEW p, Plays(p), NEW r, r.state = p.state, r.queue = p.queue,
         r.resetOffset = p.resetOffset, r.pendingEnded = p.pendingEnded,
         NEW f, r.engine = f, f.current = p.engine.current, f.opening = p.engine.opening,
         f.seeking = p.engine.seeking, f.kind = p.engine.kind, f.suspending = p.engine.suspending, f.live = p.engine.live,
         f.standby = p.engine.standby, f.rendered = p.engine.rendered,
         f.buffered = p.engine.buffered, f.left = p.engine.left,
         f.asked = p.engine.asked, f.eos = p.engine.eos, f.pumping = p.engine.pumping,
         f.promoting = p.engine.promoting, f.promoted = p.engine.promoted, f.drained = p.engine.drained,
         p.engine.running => f.running
  PROVE  Plays(r)
<1>1. /\ r.state \in {"buffering", "playing"}
      /\ f.current = (IF f.promoted = "none" THEN Here(r) ELSE "none")
      /\ f.opening = "none" /\ ~f.seeking /\ f.kind # "none" /\ f.live
      /\ f.promoted # "none" => ~f.promoting /\ f.standby = "none"
  BY DEF Plays, Here
<1>2. /\ r.resetOffset \in Nat /\ f.rendered \in Nat /\ f.buffered \in Nat /\ f.left \in {0, 1}
      /\ r.resetOffset + f.rendered + f.buffered + f.left = r.queue.index
      /\ r.resetOffset + 1 <= r.queue.index
      /\ f.asked => f.buffered < 2
  BY DEF Plays
<1>3. /\ ~f.eos => f.pumping /\ ~Handing(f)
      /\ Handing(f) => f.pumping
      /\ ~f.eos /\ f.left = 0 => f.buffered # 0 /\ (f.buffered = 1 => f.asked)
      /\ f.eos => f.left = 0 /\ (Handing(f) <=> ~r.pendingEnded)
      /\ ~f.running => f.rendered = 0 /\ ~f.drained
      /\ r.pendingEnded /\ f.drained => f.eos
  BY DEF Plays, Handing
<1>4. Ahead(r)
  BY DEF Plays, Ahead
<1> QED
  BY <1>1, <1>2, <1>3, <1>4 DEF Plays

(* Who has no boundary of its own under way does not need eosInFlight.     *)
LEMMA StillSounds ==
  ASSUME NEW p, Orderly(p), Plays(p), Awaits(p),
         NEW r, DOMAIN r = PlayerFields, r.engine = p.engine, r.queue = p.queue,
         r.tasks = p.tasks, r.current = p.current, r.resetOffset = p.resetOffset,
         r.pauseIntent = p.pauseIntent, r.pendingEnded = p.pendingEnded,
         r.state \in {p.state, "playing"},
         r.eosInFlight = p.eosInFlight \/ \A t \in p.tasks : t.at \notin BoundaryPoints
  PROVE  Fit(r)
<1>1. Orderly(r)
  BY DEF Orderly, Formed, Plays
<1>2. Plays(r)
  BY DEF Plays, Ahead, Here
<1>3. Awaits(r)
  BY DEF Awaits, Here
<1> QED
  BY <1>1, <1>2, <1>3 DEF Fit, Sounds

(* play, called by the first sound of a track or by the handoff to the     *)
(* next one.                                                               *)
LEMMA StartedFits ==
  ASSUME NEW p, Orderly(p), Plays(p), Awaits(p), NEW at \in {"primed", "starting"},
         NEW item, NEW caller,
         at = "primed" => caller = "user",
         at = "starting" => /\ caller = "eos" /\ p.eosInFlight /\ ~p.pendingEnded
                            /\ p.resetOffset + 2 <= p.queue.index /\ ~p.engine.eos
                            /\ \A t \in p.tasks : t.at = "primed"
  PROVE  Fit(Started(p, at, item, caller))
<1>1. PICK t : t = Task(at, item, caller)
  OBVIOUS
<1>2. /\ DOMAIN t = TaskFields /\ t.at = at /\ t.item = item /\ t.caller = caller
      /\ t.fresh /\ t.here
  BY <1>1, TaskIs
<1>3. PICK r : r = Started(p, at, item, caller)
  OBVIOUS
<1>4. CASE p.engine.running
  <2>1. r = Shown(p, t)
    BY <1>1, <1>3, <1>4 DEF Started
  <2>2. DOMAIN p = PlayerFields
    BY DEF Orderly, Formed
  <2>3. /\ DOMAIN r = PlayerFields /\ r.engine = p.engine /\ r.queue = p.queue
        /\ r.tasks = p.tasks /\ r.current = p.current /\ r.resetOffset = p.resetOffset
        /\ r.pauseIntent = p.pauseIntent /\ r.pendingEnded = p.pendingEnded
        /\ r.state \in {p.state, "playing"}
        /\ t.caller # "eos" => r.eosInFlight = p.eosInFlight
    BY <2>1, <2>2, ShownIs
  <2>4. r.eosInFlight = p.eosInFlight \/ \A s \in p.tasks : s.at \notin BoundaryPoints
    BY <1>2, <2>3 DEF BoundaryPoints
  <2> QED
    BY <1>3, <2>3, <2>4, StillSounds
<1>5. CASE ~p.engine.running
  <2>1. PICK e : e = [p.engine EXCEPT !.starting = TRUE]
    OBVIOUS
  <2>2. r = [p EXCEPT !.engine = e, !.tasks = @ \cup {t}]
    BY <1>1, <1>3, <1>5, <2>1 DEF Started, Pending, EnginePlay, Orderly, Formed, PlayerFields, Plays
  <2>3. /\ DOMAIN e = DOMAIN NoEngine /\ e.current = p.engine.current
        /\ e.opening = p.engine.opening /\ e.standby = p.engine.standby
        /\ e.wanted = p.engine.wanted /\ e.kind = p.engine.kind
        /\ e.suspending = p.engine.suspending /\ e.live = p.engine.live
        /\ e.seeking = p.engine.seeking /\ e.eos = p.engine.eos
        /\ e.promoting = p.engine.promoting /\ e.promoted = p.engine.promoted
        /\ e.pumping = p.engine.pumping
        /\ e.rendered = p.engine.rendered /\ e.buffered = p.engine.buffered
        /\ e.left = p.engine.left /\ e.asked = p.engine.asked
        /\ e.running = p.engine.running /\ e.drained = p.engine.drained
    BY <2>1, NoEngineIsFormed DEF Orderly, Formed
  <2>4. /\ DOMAIN r = PlayerFields /\ r.engine = e /\ r.queue = p.queue
        /\ r.tasks = p.tasks \cup {t} /\ r.current = p.current /\ r.resetOffset = p.resetOffset
        /\ r.pauseIntent = p.pauseIntent /\ r.pendingEnded = p.pendingEnded
        /\ r.state = p.state /\ r.eosInFlight = p.eosInFlight
    BY <2>2 DEF Orderly, Formed, PlayerFields
  <2>5. Orderly(r)
    BY <1>2, <2>3, <2>4 DEF Orderly, Formed
  <2>6. Plays(r)
    <3>1. p.engine.running => e.running
      BY <2>3
    <3> QED
      BY <2>3, <2>4, <3>1, SamePlays
  <2>7. e.rendered = 0 /\ ~e.drained
    BY <1>5, <2>3 DEF Plays
  <2>8. Awaits(r)
    BY <1>2, <2>3, <2>4, <2>7 DEF Awaits, Here, Handing, BoundaryPoints
  <2> QED
    BY <1>3, <2>5, <2>6, <2>8 DEF Fit, Sounds
<1> QED
  BY <1>4, <1>5

LEMMA SoundingPrimes ==
  ASSUME Orderly(player), Sounds(player), Primed
  PROVE  Fit(player')
<1>1. PICK e : e = [player.engine EXCEPT !.primed = TRUE, !.drained = FALSE]
  OBVIOUS
<1>2. PICK p : p = [player EXCEPT !.engine = e]
  OBVIOUS
<1>3. player' = IF Live /\ p.state \in {"loading", "buffering"}
                  THEN Started(p, "primed", "none", "user") ELSE p
  <2>1. p = [player EXCEPT !.engine.primed = TRUE, !.engine.drained = FALSE]
    BY <1>1, <1>2, PlaysIs, NoEngineIsFormed DEF PlayerFields
  <2> QED
    BY <2>1 DEF Primed
<1>4. /\ DOMAIN e = DOMAIN NoEngine /\ e.current = player.engine.current
      /\ e.opening = player.engine.opening /\ e.standby = player.engine.standby
      /\ e.wanted = player.engine.wanted /\ e.kind = player.engine.kind
      /\ e.suspending = player.engine.suspending
      /\ e.live = player.engine.live /\ e.seeking = player.engine.seeking
      /\ e.eos = player.engine.eos /\ e.promoting = player.engine.promoting
      /\ e.promoted = player.engine.promoted
      /\ e.pumping = player.engine.pumping /\ e.rendered = player.engine.rendered
      /\ e.buffered = player.engine.buffered /\ e.left = player.engine.left
      /\ e.asked = player.engine.asked /\ e.running = player.engine.running
      /\ ~e.drained
  BY <1>1, PlaysIs, NoEngineIsFormed
<1>5. /\ DOMAIN p = PlayerFields /\ p.engine = e /\ p.queue = player.queue
      /\ p.tasks = player.tasks /\ p.current = player.current
      /\ p.resetOffset = player.resetOffset /\ p.pauseIntent = player.pauseIntent
      /\ p.pendingEnded = player.pendingEnded /\ p.eosInFlight = player.eosInFlight
      /\ p.state = player.state
  BY <1>2, PlaysIs DEF PlayerFields
<1>6. Orderly(p)
  BY <1>4, <1>5 DEF Orderly, Formed
<1>7. Plays(p)
  BY <1>4, <1>5 DEF Sounds, Plays, Ahead, Here, Handing
<1>8. Awaits(p)
  BY <1>4, <1>5 DEF Sounds, Awaits, Here, Handing
<1>9. Fit(Started(p, "primed", "none", "user"))
  BY <1>6, <1>7, <1>8, StartedFits
<1> QED
  BY <1>3, <1>6, <1>7, <1>8, <1>9 DEF Fit, Sounds

LEMMA SoundingStarts ==
  ASSUME Orderly(player), Sounds(player), Played
  PROVE  Fit(player')
<1>1. PICK t \in player.tasks :
        /\ t.at \in {"resuming", "primed", "starting"}
        /\ LET starts == t.here /\ player.engine.starting
           IN  player' = Shown([Resolved(player, t) EXCEPT
                !.engine.running = @ \/ starts, !.engine.starting = @ /\ ~starts], t)
  BY DEF Played
<1>2. t.at \in {"primed", "starting"}
  BY <1>1 DEF Sounds, Awaits, BoundaryPoints
<1>3. PICK starts : starts = (t.here /\ player.engine.starting)
  OBVIOUS
<1>4. PICK q : q = Resolved(player, t)
  OBVIOUS
<1>5. /\ DOMAIN q = PlayerFields /\ q.engine = player.engine /\ q.queue = player.queue
      /\ q.state = player.state /\ q.current = player.current
      /\ q.resetOffset = player.resetOffset /\ q.pauseIntent = player.pauseIntent
      /\ q.pendingEnded = player.pendingEnded /\ q.eosInFlight = player.eosInFlight
      /\ q.tasks = player.tasks \ {t}
  BY <1>4, PlaysIs, ResolvedIs
<1>6. PICK e : e = [player.engine EXCEPT !.running = @ \/ starts, !.starting = @ /\ ~starts]
  OBVIOUS
<1>7. PICK p : p = [q EXCEPT !.engine = e]
  OBVIOUS
<1>8. player' = Shown(p, t)
  <2>1. p = [q EXCEPT !.engine.running = @ \/ starts, !.engine.starting = @ /\ ~starts]
    BY <1>5, <1>6, <1>7, PlaysIs, NoEngineIsFormed DEF PlayerFields
  <2> QED
    BY <1>1, <1>3, <1>4, <2>1
<1>9. /\ DOMAIN e = DOMAIN NoEngine /\ e.current = player.engine.current
      /\ e.opening = player.engine.opening /\ e.standby = player.engine.standby
      /\ e.wanted = player.engine.wanted /\ e.kind = player.engine.kind
      /\ e.suspending = player.engine.suspending
      /\ e.live = player.engine.live /\ e.seeking = player.engine.seeking
      /\ e.eos = player.engine.eos /\ e.promoting = player.engine.promoting
      /\ e.promoted = player.engine.promoted
      /\ e.pumping = player.engine.pumping /\ e.rendered = player.engine.rendered
      /\ e.buffered = player.engine.buffered /\ e.left = player.engine.left
      /\ e.asked = player.engine.asked /\ (player.engine.running => e.running)
      /\ e.drained = player.engine.drained
  BY <1>6, PlaysIs, NoEngineIsFormed
<1>10. /\ DOMAIN p = PlayerFields /\ p.engine = e /\ p.queue = player.queue
       /\ p.tasks = player.tasks \ {t} /\ p.current = player.current
       /\ p.resetOffset = player.resetOffset /\ p.pauseIntent = player.pauseIntent
       /\ p.pendingEnded = player.pendingEnded /\ p.eosInFlight = player.eosInFlight
       /\ p.state = player.state
  BY <1>5, <1>7 DEF PlayerFields
<1>11. Orderly(p)
  BY <1>9, <1>10 DEF Orderly, Formed
<1>12. Plays(p)
  BY <1>9, <1>10, SamePlays DEF Sounds
<1>13. Awaits(p)
  BY <1>2, <1>9, <1>10 DEF Sounds, Awaits, Here, Handing, BoundaryPoints
<1>14. PICK r : r = player'
  OBVIOUS
<1>15. /\ DOMAIN r = PlayerFields /\ r.engine = p.engine /\ r.queue = p.queue
       /\ r.tasks = p.tasks /\ r.current = p.current /\ r.resetOffset = p.resetOffset
       /\ r.pauseIntent = p.pauseIntent /\ r.pendingEnded = p.pendingEnded
       /\ r.state \in {p.state, "playing"}
       /\ t.caller # "eos" => r.eosInFlight = p.eosInFlight
  BY <1>8, <1>10, <1>14, ShownIs
<1>16. r.eosInFlight = p.eosInFlight \/ \A s \in p.tasks : s.at \notin BoundaryPoints
  BY <1>2, <1>10, <1>15 DEF Sounds, Awaits, BoundaryPoints
<1> QED
  BY <1>11, <1>12, <1>13, <1>14, <1>15, <1>16, StillSounds

(* The clock adopts nothing: it reaches the end of the cursor's track only *)
(* when the decoder has announced that end, and then either the boundary   *)
(* or the end of the queue is under way.                                   *)
LEMMA NothingIsAdopted ==
  ASSUME NEW p, Orderly(p), Sounds(p)
  PROVE  ~Adopts(p)
<1> SUFFICES ASSUME Adopts(p) PROVE FALSE
  OBVIOUS
<1>1. /\ ~p.pendingEnded /\ ~p.eosInFlight /\ IndexAt(p, Clock(p)) > p.queue.index
  BY DEF Adopts
<1>2. /\ p.engine.rendered \in Nat /\ p.engine.buffered \in Nat /\ p.engine.left \in {0, 1}
      /\ p.resetOffset \in Nat
      /\ p.resetOffset + p.engine.rendered + p.engine.buffered + p.engine.left = p.queue.index
      /\ ~p.engine.eos /\ p.engine.left = 0 => p.engine.buffered # 0
      /\ p.engine.eos => (Handing(p.engine) <=> ~p.pendingEnded)
  BY DEF Sounds, Plays
<1>3. p.queue.index \in Nat /\ Len(p.queue.items) \in Nat /\ p.queue.index <= Len(p.queue.items)
  BY CurrentIs DEF Orderly
<1>4. Clock(p) >= p.queue.index
  BY <1>1, <1>2, <1>3 DEF IndexAt, Clock
<1>5. p.engine.buffered = 0 /\ p.engine.left = 0
  BY <1>2, <1>3, <1>4 DEF Clock
<1>6. Handing(p.engine)
  BY <1>1, <1>2, <1>5
<1> QED
  BY <1>1, <1>6 DEF Sounds, Awaits, BoundaryPoints

(* The end of the queue: all of it was decoded, and nobody waits.          *)
LEMMA EndedIsOver ==
  ASSUME NEW p, Orderly(p), Sounds(p), Ends(p), p.tasks = {},
         NEW r, DOMAIN r = PlayerFields, DOMAIN r.engine = DOMAIN NoEngine,
         r.queue = p.queue, r.tasks = {}, r.state = "ended", r.current = p.current,
         r.pauseIntent = p.pauseIntent, ~r.pendingEnded,
         r.engine.current = p.engine.current, r.engine.opening = p.engine.opening,
         r.engine.wanted = p.engine.wanted, r.engine.kind = p.engine.kind,
         r.engine.live = p.engine.live, r.engine.seeking = p.engine.seeking,
         r.engine.promoting = p.engine.promoting, r.engine.promoted = p.engine.promoted,
         r.engine.running => r.engine.suspending,
         r.engine.eos = p.engine.eos, r.engine.left = p.engine.left,
         r.engine.standby = p.engine.standby
  PROVE  Fit(r)
<1>1. /\ p.engine.rendered \in Nat /\ p.engine.buffered \in Nat /\ p.engine.left \in {0, 1}
      /\ p.resetOffset \in Nat
      /\ p.resetOffset + p.engine.rendered + p.engine.buffered + p.engine.left = p.queue.index
      /\ ~p.engine.eos /\ p.engine.left = 0 => p.engine.buffered # 0
      /\ p.engine.eos => p.engine.left = 0 /\ (Handing(p.engine) <=> ~p.pendingEnded)
      /\ p.pendingEnded /\ p.engine.drained => p.engine.eos
  BY DEF Sounds, Plays
<1>2. p.queue.index \in Nat /\ Len(p.queue.items) \in Nat /\ p.queue.index <= Len(p.queue.items)
  BY CurrentIs DEF Orderly
<1>3. p.pendingEnded /\ (Clock(p) >= Len(p.queue.items) \/ p.engine.drained)
  BY DEF Ends
<1>4. p.engine.eos /\ p.engine.left = 0 /\ ~Handing(p.engine)
  <2>1. CASE p.engine.drained
    BY <1>1, <1>3, <2>1
  <2>2. CASE Clock(p) >= Len(p.queue.items)
    <3>1. p.resetOffset + p.engine.rendered >= p.queue.index
      <4>1. PICK n \in Nat : n = p.resetOffset + p.engine.rendered
        BY <1>1
      <4>2. n >= Len(p.queue.items)
        BY <2>2, <4>1 DEF Clock
      <4> QED
        BY <1>2, <4>1, <4>2
    <3>2. p.engine.left = 0 /\ p.engine.buffered = 0
      BY <1>1, <1>2, <3>1
    <3>3. p.engine.eos
      BY <1>1, <3>2
    <3> QED
      BY <1>1, <1>3, <3>2, <3>3
  <2> QED
    BY <1>3, <2>1, <2>2
<1>5. p.engine.standby = "none"
  BY <1>3 DEF Sounds, Plays, Ahead
<1>6. p.engine.wanted = "none" /\ p.current = Here(p) /\ Here(p) # "none"
  BY PlaysIs DEF Sounds, Awaits, Plays
<1>7. Over(r)
  BY <1>4, <1>5, <1>6 DEF Over, Opens, Sounds, Plays, Here, Handing
<1>8. Orderly(r)
  BY DEF Orderly, Formed
<1> QED
  BY <1>7, <1>8 DEF Fit

LEMMA SoundingTicks ==
  ASSUME Orderly(player), Sounds(player), Tick
  PROVE  Fit(player')
<1>1. ~Adopts(player)
  BY NothingIsAdopted
<1>2. CASE ~Ends(player)
  <2>1. PICK r : r = player'
    OBVIOUS
  <2>2. /\ DOMAIN r = PlayerFields /\ r.engine = player.engine
        /\ r.queue = player.queue /\ r.tasks = player.tasks /\ r.state = player.state
        /\ r.current = player.current /\ r.resetOffset = player.resetOffset
        /\ r.pauseIntent = player.pauseIntent /\ r.pendingEnded = player.pendingEnded
        /\ r.eosInFlight = player.eosInFlight
    BY <1>1, <1>2, <2>1, TickIs DEF Orderly
  <2> QED
    BY <2>1, <2>2, StillSounds DEF Sounds
<1>3. CASE Ends(player)
  <2>1. PICK far : player' = [Ticked(player) EXCEPT !.within = far]
    BY DEF Tick
  <2>2. PICK e : e = [player.engine EXCEPT !.suspending = player.engine.running,
                                           !.starting = FALSE, !.pumping = FALSE]
    OBVIOUS
  <2>3. PICK p : p = GateStop(EnginePause(player))
    OBVIOUS
  <2>4. /\ DOMAIN p = PlayerFields /\ p.engine = e
        /\ p.queue = player.queue /\ p.tasks = player.tasks
        /\ p.current = player.current /\ p.pauseIntent = player.pauseIntent
    BY <2>2, <2>3, PlaysIs, NoEngineIsFormed DEF GateStop, EnginePause, PlayerFields
  <2>5. Ticked(player) = [p EXCEPT !.state = "ended", !.pendingEnded = FALSE]
    BY <1>1, <1>3, <2>3 DEF Ticked
  <2>6. player.tasks = {}
    BY <1>3 DEF Tick, Ends, Running, TransportBound, Sounds, Awaits, Orderly, BoundaryPoints
  <2>7. PICK r : r = player'
    OBVIOUS
  <2>8. /\ DOMAIN r = PlayerFields /\ r.engine = e
        /\ r.queue = player.queue /\ r.tasks = {} /\ r.state = "ended" /\ ~r.pendingEnded
        /\ r.current = player.current /\ r.pauseIntent = player.pauseIntent
    BY <2>1, <2>4, <2>5, <2>6, <2>7 DEF PlayerFields
  <2>9. /\ DOMAIN e = DOMAIN NoEngine /\ (e.running => e.suspending)
        /\ e.current = player.engine.current /\ e.opening = player.engine.opening
        /\ e.wanted = player.engine.wanted /\ e.kind = player.engine.kind
        /\ e.live = player.engine.live /\ e.seeking = player.engine.seeking
        /\ e.promoting = player.engine.promoting /\ e.promoted = player.engine.promoted
        /\ e.eos = player.engine.eos
        /\ e.left = player.engine.left /\ e.standby = player.engine.standby
    BY <2>2, PlaysIs, NoEngineIsFormed
  <2> QED
    BY <1>3, <2>6, <2>7, <2>8, <2>9, EndedIsOver
<1> QED
  BY <1>2, <1>3

LEMMA SoundingInitialised ==
  ASSUME Orderly(player), Sounds(player), Initialised
  PROVE  Fit(player')
<1>1. {t \in Fresh("initing") : t.here} = {}
  BY DEF Fresh, Sounds, Awaits, BoundaryPoints
<1>2. PICK e : e = [player.engine EXCEPT !.ready = TRUE]
  OBVIOUS
<1>3. player' = [player EXCEPT !.engine = e]
  BY <1>1, <1>2, PlaysIs, NoEngineIsFormed DEF Initialised, PlayerFields
<1>4. /\ DOMAIN e = DOMAIN NoEngine /\ e.current = player.engine.current
      /\ e.opening = player.engine.opening /\ e.standby = player.engine.standby
      /\ e.wanted = player.engine.wanted /\ e.kind = player.engine.kind
      /\ e.suspending = player.engine.suspending
      /\ e.live = player.engine.live /\ e.seeking = player.engine.seeking
      /\ e.eos = player.engine.eos /\ e.promoting = player.engine.promoting
      /\ e.promoted = player.engine.promoted
      /\ e.pumping = player.engine.pumping /\ e.rendered = player.engine.rendered
      /\ e.buffered = player.engine.buffered /\ e.left = player.engine.left
      /\ e.asked = player.engine.asked /\ (player.engine.running => e.running)
      /\ e.drained = player.engine.drained
  BY <1>2, PlaysIs, NoEngineIsFormed
<1>5. PICK p : p = player'
  OBVIOUS
<1>6. /\ DOMAIN p = PlayerFields /\ p.engine = e /\ p.queue = player.queue
      /\ p.tasks = player.tasks /\ p.current = player.current
      /\ p.resetOffset = player.resetOffset /\ p.pauseIntent = player.pauseIntent
      /\ p.pendingEnded = player.pendingEnded /\ p.eosInFlight = player.eosInFlight
      /\ p.state = player.state
  BY <1>3, <1>5, PlaysIs DEF PlayerFields
<1>7. Orderly(p)
  BY <1>4, <1>6 DEF Orderly, Formed
<1>8. Plays(p)
  BY <1>4, <1>6, SamePlays DEF Sounds
<1>9. Awaits(p)
  BY <1>4, <1>6, PlaysIs DEF Sounds, Awaits, Here, Handing
<1> QED
  BY <1>5, <1>7, <1>8, <1>9 DEF Fit, Sounds

(* The handoff to the promoted track.                                      *)
LEMMA HandedFits ==
  ASSUME NEW p, Orderly(p), Plays(p), p.eosInFlight, ~p.pendingEnded,
         p.resetOffset + 2 <= p.queue.index, ~p.engine.eos, p.engine.wanted = "none",
         \A t \in p.tasks : t.at = "primed" /\ t.caller = "user",
         p.tasks # {} => p.engine.rendered = 0 /\ ~p.engine.drained,
         RingUnits = 2
  PROVE  Fit(Handed(p, Here(p)))
<1>1. PICK q : q = [p EXCEPT !.current = Here(p),
                       !.state = IF p.pauseIntent \/ @ = "paused" THEN "paused" ELSE "buffering"]
  OBVIOUS
<1>2. /\ DOMAIN q = PlayerFields /\ q.engine = p.engine /\ q.queue = p.queue
      /\ q.tasks = p.tasks /\ q.current = Here(p) /\ q.resetOffset = p.resetOffset
      /\ ~q.pauseIntent /\ q.pendingEnded = p.pendingEnded
      /\ q.eosInFlight = p.eosInFlight /\ q.state = "buffering"
  BY <1>1 DEF Orderly, Formed, PlayerFields, Plays
<1>3. PICK r : r = GateStart(q)
  OBVIOUS
<1>4. Handed(p, Here(p)) = Started(r, "starting", Here(p), "eos")
  BY <1>1, <1>3 DEF Handed, Orderly
<1>5. Formed(q) /\ q.engine.kind # "none"
  BY <1>2 DEF Orderly, Formed, Plays
<1>6. PICK e : e = r.engine
  OBVIOUS
<1>7. /\ DOMAIN r = PlayerFields /\ DOMAIN e = DOMAIN NoEngine
      /\ r.queue = p.queue /\ r.tasks = p.tasks /\ r.current = Here(p)
      /\ r.state = "buffering" /\ r.resetOffset = p.resetOffset
      /\ ~r.pauseIntent /\ r.pendingEnded = p.pendingEnded
      /\ r.eosInFlight = p.eosInFlight
      /\ e.pumping /\ (p.engine.asked => e.asked)
      /\ e.asked => p.engine.asked \/ p.engine.buffered < 2
      /\ e.current = p.engine.current /\ e.opening = p.engine.opening
      /\ e.standby = p.engine.standby /\ e.wanted = p.engine.wanted
      /\ e.kind = p.engine.kind /\ e.suspending = p.engine.suspending /\ e.live = p.engine.live
      /\ e.left = p.engine.left /\ e.buffered = p.engine.buffered
      /\ e.rendered = p.engine.rendered /\ e.eos = p.engine.eos
      /\ e.drained = p.engine.drained /\ e.promoting = p.engine.promoting
      /\ e.promoted = p.engine.promoted
      /\ e.seeking = p.engine.seeking /\ e.running = p.engine.running
  <2>1. /\ DOMAIN r = PlayerFields /\ DOMAIN e = DOMAIN NoEngine
        /\ r.queue = q.queue /\ r.tasks = q.tasks /\ r.current = q.current
        /\ r.state = q.state /\ r.resetOffset = q.resetOffset
        /\ r.pauseIntent = q.pauseIntent /\ r.pendingEnded = q.pendingEnded
        /\ r.eosInFlight = q.eosInFlight
    BY <1>3, <1>5, <1>6, GateStartIs
  <2>2. /\ e.pumping /\ (q.engine.asked => e.asked)
        /\ e.asked => q.engine.asked \/ q.engine.buffered < 2
        /\ e.current = q.engine.current /\ e.opening = q.engine.opening
        /\ e.standby = q.engine.standby /\ e.wanted = q.engine.wanted
        /\ e.kind = q.engine.kind /\ e.suspending = q.engine.suspending /\ e.live = q.engine.live
        /\ e.left = q.engine.left /\ e.buffered = q.engine.buffered
        /\ e.rendered = q.engine.rendered /\ e.eos = q.engine.eos
        /\ e.drained = q.engine.drained /\ e.promoting = q.engine.promoting
        /\ e.promoted = q.engine.promoted
        /\ e.seeking = q.engine.seeking /\ e.running = q.engine.running
    BY <1>3, <1>5, <1>6, GateStartIs
  <2> QED
    BY <1>2, <2>1, <2>2
<1>8. Orderly(r)
  BY <1>6, <1>7 DEF Orderly, Formed, Plays
<1>9. Plays(r)
  <2>1. /\ e.current = Here(r) /\ e.opening = "none" /\ ~e.seeking /\ e.kind # "none" /\ e.live
        /\ e.promoted = "none" /\ Ahead(r)
    BY <1>6, <1>7 DEF Plays, Here, Ahead, Handing
  <2>2. /\ r.resetOffset \in Nat /\ e.rendered \in Nat /\ e.buffered \in Nat /\ e.left \in {0, 1}
        /\ r.resetOffset + e.rendered + e.buffered + e.left = r.queue.index
        /\ r.resetOffset + 1 <= r.queue.index
        /\ e.asked => e.buffered < 2
    BY <1>7 DEF Plays
  <2>3. /\ ~e.eos /\ e.pumping /\ ~Handing(e)
        /\ ~e.eos /\ e.left = 0 => e.buffered # 0 /\ (e.buffered = 1 => e.asked)
        /\ ~e.running => e.rendered = 0 /\ ~e.drained
        /\ r.pendingEnded /\ e.drained => e.eos
    BY <1>7 DEF Plays, Handing
  <2> QED
    BY <1>6, <1>7, <2>1, <2>2, <2>3 DEF Plays
<1>10. Awaits(r)
  BY <1>6, <1>7 DEF Awaits, Here, Handing, BoundaryPoints, Plays
<1>11. /\ r.eosInFlight /\ ~r.pendingEnded /\ r.resetOffset + 2 <= r.queue.index
       /\ ~r.engine.eos /\ \A t \in r.tasks : t.at = "primed"
  BY <1>6, <1>7
<1>12. PICK item : item = Here(p)
  OBVIOUS
<1>13. Fit(Started(r, "starting", item, "eos"))
  BY <1>8, <1>9, <1>10, <1>11, StartedFits
<1> QED
  BY <1>4, <1>12, <1>13

LEMMA SoundingPrepares ==
  ASSUME Orderly(player), Sounds(player), Prepared, Patient, RingUnits = 2
  PROVE  Fit(player')
<1>1. PICK e : e = [player.engine EXCEPT !.standby = player.engine.wanted, !.wanted = "none"]
  OBVIOUS
<1>2. PICK p : p = [player EXCEPT !.engine = e]
  OBVIOUS
<1>3. PICK mine : mine = Fresh("preparing") \cup Fresh("readying")
  OBVIOUS
<1>4. /\ player.engine.wanted # "none"
      /\ IF mine = {} THEN player' = p
         ELSE \E t \in mine :
                player' = IF t.at = "preparing"
                            THEN Publish(Resolved(p, t), t.item, t.caller)
                            ELSE Handed(Resolved(p, t), t.item)
  BY <1>1, <1>2, <1>3 DEF Prepared, Patient
<1>5. \A t \in player.tasks : t.at # "preparing"
  BY DEF Sounds, Awaits, BoundaryPoints
<1>6. mine # {}
  BY <1>3, <1>4 DEF Sounds, Awaits, Fresh, Orderly
<1>7. PICK t \in mine : player' = Handed(Resolved(p, t), t.item)
  BY <1>3, <1>4, <1>5, <1>6 DEF Fresh
<1>8. t \in player.tasks /\ t.at = "readying"
  BY <1>3, <1>5, <1>7 DEF Fresh
<1>9. /\ DOMAIN e = DOMAIN NoEngine /\ e.current = player.engine.current
      /\ e.opening = player.engine.opening /\ e.standby = player.engine.wanted
      /\ e.wanted = "none" /\ e.kind = player.engine.kind
      /\ e.suspending = player.engine.suspending
      /\ e.live = player.engine.live /\ e.seeking = player.engine.seeking
      /\ e.eos = player.engine.eos /\ e.promoting = player.engine.promoting
      /\ e.promoted = player.engine.promoted
      /\ e.pumping = player.engine.pumping /\ e.rendered = player.engine.rendered
      /\ e.buffered = player.engine.buffered /\ e.left = player.engine.left
      /\ e.asked = player.engine.asked /\ e.running = player.engine.running
      /\ e.drained = player.engine.drained
  BY <1>1, PlaysIs, NoEngineIsFormed
<1>10. PICK q : q = Resolved(p, t)
  OBVIOUS
<1>11. /\ DOMAIN q = PlayerFields /\ q.engine = e /\ q.queue = player.queue
       /\ q.tasks = player.tasks \ {t} /\ q.resetOffset = player.resetOffset
       /\ q.pauseIntent = player.pauseIntent /\ q.pendingEnded = player.pendingEnded
       /\ q.eosInFlight = player.eosInFlight /\ q.state = player.state
  <2>1. /\ DOMAIN p = PlayerFields /\ p.engine = e /\ p.queue = player.queue
        /\ p.tasks = player.tasks /\ p.resetOffset = player.resetOffset
        /\ p.pauseIntent = player.pauseIntent /\ p.pendingEnded = player.pendingEnded
        /\ p.eosInFlight = player.eosInFlight /\ p.state = player.state
    BY <1>2, PlaysIs DEF PlayerFields
  <2> QED
    BY <1>10, <2>1, ResolvedIs
<1>12. /\ t.item = Here(player) /\ PreloadTarget(player.queue) # "none"
       /\ player.eosInFlight /\ ~player.pendingEnded
       /\ player.resetOffset + 2 <= player.queue.index /\ ~player.engine.eos
       /\ \A s \in player.tasks \ {t} :
            /\ s.at = "primed" /\ s.caller = "user"
            /\ player.engine.rendered = 0 /\ ~player.engine.drained
  BY <1>8 DEF Sounds, Awaits, BoundaryPoints
<1>13. Orderly(q)
  BY <1>9, <1>11 DEF Orderly, Formed
<1>14. Plays(q)
  <2>1. /\ e.current = Here(q) /\ e.opening = "none" /\ ~e.seeking /\ e.kind # "none" /\ e.live
        /\ e.promoted = "none" /\ q.state \in {"buffering", "playing"} /\ Ahead(q)
    BY <1>9, <1>11, <1>12 DEF Sounds, Plays, Here, Ahead, Handing
  <2>2. /\ q.resetOffset \in Nat /\ e.rendered \in Nat /\ e.buffered \in Nat /\ e.left \in {0, 1}
        /\ q.resetOffset + e.rendered + e.buffered + e.left = q.queue.index
        /\ q.resetOffset + 1 <= q.queue.index
        /\ e.asked => e.buffered < 2
    BY <1>9, <1>11 DEF Sounds, Plays
  <2>3. /\ ~e.eos => e.pumping /\ ~Handing(e)
        /\ Handing(e) => e.pumping
        /\ ~e.eos /\ e.left = 0 => e.buffered # 0 /\ (e.buffered = 1 => e.asked)
        /\ e.eos => e.left = 0 /\ (Handing(e) <=> ~q.pendingEnded)
        /\ ~e.running => e.rendered = 0 /\ ~e.drained
        /\ q.pendingEnded /\ e.drained => e.eos
    BY <1>9, <1>11 DEF Sounds, Plays, Handing
  <2> QED
    BY <1>11, <2>1, <2>2, <2>3 DEF Plays
<1>15. Here(q) = t.item
  BY <1>11, <1>12 DEF Here
<1>16. /\ q.eosInFlight /\ ~q.pendingEnded /\ q.resetOffset + 2 <= q.queue.index
       /\ ~q.engine.eos /\ q.engine.wanted = "none"
       /\ \A s \in q.tasks : s.at = "primed" /\ s.caller = "user"
       /\ q.tasks # {} => q.engine.rendered = 0 /\ ~q.engine.drained
  BY <1>9, <1>11, <1>12
<1>17. player' = Handed(q, Here(q))
  BY <1>7, <1>10, <1>15
<1> QED
  BY <1>13, <1>14, <1>16, <1>17, HandedFits

-----------------------------------------------------------------------------
(* The boundary.                                                           *)

(* How a boundary ends, for a landing of the queue.                        *)
Outcome(p, l, expected, promoted, r) ==
  LET q == [p EXCEPT !.queue = l.queue] IN
  \/ /\ l.item = "none"
     /\ r = Returned(Ticked(GateStop([q EXCEPT !.pendingEnded = TRUE])), "eos")
  \/ /\ l.item # "none" /\ ~(promoted /\ l.item = expected)
     /\ r = Load(q, "eos")
  \/ /\ l.item # "none" /\ promoted /\ l.item = expected
     /\ r = IF PreloadTarget(l.queue) = "none" THEN Handed(q, l.item)
            ELSE Pending([q EXCEPT !.engine = EnginePrepare(@, PreloadTarget(l.queue))],
                         "readying", l.item, "eos")

LEMMA BoundaryIs ==
  ASSUME NEW p, ~p.pauseIntent, p.queue.repeat = "off", NEW expected,
         NEW promoted \in BOOLEAN, NEW r \in Boundary(p, expected, promoted)
  PROVE  \E l \in NextLandings(p.queue) : Outcome(p, l, expected, promoted, r)
<1>1. PICK l \in NextLandings(p.queue) :
        r = LET q == [p EXCEPT !.queue = l.queue] IN
            CASE l.item = "none" ->
                   Returned(Ticked(GateStop([q EXCEPT !.pendingEnded = TRUE])), "eos")
              [] l.item # "none" /\ ~(promoted /\ l.item = expected) -> Load(q, "eos")
              [] l.item # "none" /\ promoted /\ l.item = expected ->
                   IF PreloadTarget(l.queue) = "none" THEN Handed(q, l.item)
                   ELSE Pending([q EXCEPT !.engine = EnginePrepare(@, PreloadTarget(l.queue))],
                                "readying", l.item, "eos")
  BY DEF Boundary
<1>2. PICK q : q = [p EXCEPT !.queue = l.queue]
  OBVIOUS
<1>3. PICK a, b, c :
        /\ a = Returned(Ticked(GateStop([q EXCEPT !.pendingEnded = TRUE])), "eos")
        /\ b = Load(q, "eos")
        /\ c = IF PreloadTarget(l.queue) = "none" THEN Handed(q, l.item)
               ELSE Pending([q EXCEPT !.engine = EnginePrepare(@, PreloadTarget(l.queue))],
                            "readying", l.item, "eos")
  OBVIOUS
<1>4. r = CASE l.item = "none" -> a
            [] l.item # "none" /\ ~(promoted /\ l.item = expected) -> b
            [] l.item # "none" /\ promoted /\ l.item = expected -> c
  BY <1>1, <1>2, <1>3
<1>5. \/ l.item = "none" /\ r = a
      \/ l.item # "none" /\ ~(promoted /\ l.item = expected) /\ r = b
      \/ l.item # "none" /\ promoted /\ l.item = expected /\ r = c
  BY <1>4
<1> QED
  BY <1>2, <1>3, <1>5 DEF Outcome

(* What holds when a boundary task, or none, has been resolved: only first *)
(* sounds of a track are waited for.                                       *)
LEMMA BoundaryTasks ==
  ASSUME NEW p, Sounds(p), NEW t \in p.tasks, t.at \in BoundaryPoints
  PROVE  \A s \in p.tasks \ {t} : /\ s.at = "primed" /\ s.caller = "user"
                                  /\ p.engine.rendered = 0 /\ ~p.engine.drained
  BY DEF Sounds, Awaits, BoundaryPoints

(* The end of the old track is in the ring: its decoder closes.            *)
LEMMA SoundingFinishes ==
  ASSUME Orderly(player), Sounds(player), Finished
  PROVE  Fit(player')
<1>1. PICK e : e = [player.engine EXCEPT
                !.promoting = FALSE, !.promoted = player.engine.standby,
                !.standby = "none", !.current = "none"]
  OBVIOUS
<1>2. player.engine.promoting /\ player' = [player EXCEPT !.engine = e]
  BY <1>1 DEF Finished
<1>3. PICK t \in player.tasks : t.at = "advancing"
  BY <1>2 DEF Sounds, Awaits, Handing
<1>4. player.engine.standby # "none" /\ player.engine.promoted = "none"
  BY <1>2, <1>3 DEF Sounds, Plays, Awaits
<1>5. /\ DOMAIN e = DOMAIN NoEngine /\ ~e.promoting /\ e.promoted = player.engine.standby
      /\ e.standby = "none" /\ e.current = "none" /\ Handing(e)
      /\ e.opening = player.engine.opening /\ e.wanted = player.engine.wanted
      /\ e.kind = player.engine.kind /\ e.suspending = player.engine.suspending
      /\ e.live = player.engine.live /\ e.seeking = player.engine.seeking
      /\ e.eos = player.engine.eos /\ e.pumping = player.engine.pumping
      /\ e.rendered = player.engine.rendered /\ e.buffered = player.engine.buffered
      /\ e.left = player.engine.left /\ e.asked = player.engine.asked
      /\ e.running = player.engine.running /\ e.drained = player.engine.drained
  BY <1>1, <1>4, PlaysIs, NoEngineIsFormed DEF Handing
<1>6. PICK r : r = player'
  OBVIOUS
<1>7. /\ DOMAIN r = PlayerFields /\ r.engine = e /\ r.queue = player.queue
      /\ r.tasks = player.tasks /\ r.current = player.current
      /\ r.resetOffset = player.resetOffset /\ r.pauseIntent = player.pauseIntent
      /\ r.pendingEnded = player.pendingEnded /\ r.eosInFlight = player.eosInFlight
      /\ r.state = player.state
  BY <1>2, <1>6, PlaysIs DEF PlayerFields
<1>8. Orderly(r)
  BY <1>5, <1>7 DEF Orderly, Formed
<1>9. Plays(r)
  <2>1. player.engine.eos /\ ~player.pendingEnded /\ player.engine.pumping
    BY <1>2 DEF Sounds, Plays, Handing
  <2>2. /\ r.state \in {"buffering", "playing"}
        /\ e.current = (IF e.promoted = "none" THEN Here(r) ELSE "none")
        /\ e.opening = "none" /\ ~e.seeking /\ e.kind # "none" /\ e.live
        /\ ~e.promoting /\ e.standby = "none" /\ Ahead(r)
    BY <1>4, <1>5, <1>7 DEF Sounds, Plays, Ahead
  <2>3. /\ r.resetOffset \in Nat /\ e.rendered \in Nat /\ e.buffered \in Nat /\ e.left \in {0, 1}
        /\ r.resetOffset + e.rendered + e.buffered + e.left = r.queue.index
        /\ r.resetOffset + 1 <= r.queue.index
        /\ e.asked => e.buffered < 2
        /\ e.eos /\ e.left = 0 /\ ~r.pendingEnded /\ e.pumping
        /\ ~e.running => e.rendered = 0 /\ ~e.drained
    BY <1>5, <1>7, <2>1 DEF Sounds, Plays
  <2> QED
    BY <1>5, <1>7, <2>2, <2>3 DEF Plays
<1>10. Awaits(r)
  BY <1>2, <1>3, <1>4, <1>5, <1>7 DEF Sounds, Awaits, Here
<1> QED
  BY <1>6, <1>8, <1>9, <1>10 DEF Fit, Sounds

LEMMA PromotedGoesOn ==
  ASSUME Orderly(player), Sounds(player), Promoted, RingUnits = 2
  PROVE  Fit(player')
<1>1. PICK e : e = [player.engine EXCEPT
                !.promoted = "none", !.current = player.engine.promoted,
                !.left = 1, !.eos = FALSE, !.asked = FALSE]
  OBVIOUS
<1>2. PICK p : p = [player EXCEPT !.engine = e]
  OBVIOUS
<1>3. /\ player.engine.promoted # "none"
      /\ IF Fresh("advancing") = {} THEN player' = p
         ELSE \E t \in Fresh("advancing") : player' \in Boundary(Resolved(p, t), t.item, TRUE)
  BY <1>1, <1>2 DEF Promoted
<1>4. Fresh("advancing") # {}
  BY <1>3 DEF Sounds, Awaits, Handing, Fresh, Orderly
<1>5. PICK t \in player.tasks :
        t.at = "advancing" /\ player' \in Boundary(Resolved(p, t), t.item, TRUE)
  BY <1>3, <1>4 DEF Fresh
<1>6. PICK q : q = Resolved(p, t)
  OBVIOUS
<1>7. /\ DOMAIN e = DOMAIN NoEngine /\ ~Handing(e) /\ e.current = player.engine.promoted
      /\ e.standby = "none" /\ e.left = 1 /\ ~e.eos /\ ~e.asked
      /\ e.opening = player.engine.opening /\ e.wanted = player.engine.wanted
      /\ e.kind = player.engine.kind /\ e.suspending = player.engine.suspending
      /\ e.live = player.engine.live
      /\ e.seeking = player.engine.seeking /\ e.pumping = player.engine.pumping
      /\ e.rendered = player.engine.rendered /\ e.buffered = player.engine.buffered
      /\ e.running = player.engine.running /\ e.drained = player.engine.drained
  BY <1>1, <1>3, PlaysIs, NoEngineIsFormed DEF Handing, Sounds, Plays
<1>8. /\ DOMAIN q = PlayerFields /\ q.engine = e /\ q.queue = player.queue
      /\ q.tasks = player.tasks \ {t} /\ q.resetOffset = player.resetOffset
      /\ ~q.pauseIntent /\ q.pendingEnded = player.pendingEnded
      /\ q.eosInFlight = player.eosInFlight /\ q.state = player.state
      /\ q.current = player.current
  <2>1. /\ DOMAIN p = PlayerFields /\ p.engine = e /\ p.queue = player.queue
        /\ p.tasks = player.tasks /\ p.resetOffset = player.resetOffset
        /\ ~p.pauseIntent /\ p.pendingEnded = player.pendingEnded
        /\ p.eosInFlight = player.eosInFlight /\ p.state = player.state
        /\ p.current = player.current
    BY <1>2, PlaysIs DEF PlayerFields, Orderly
  <2> QED
    BY <1>6, <2>1, ResolvedIs
<1>9. /\ t.item # "none" /\ t.item = player.engine.promoted
      /\ t.item = PreloadTarget(player.queue) /\ player.engine.eos
      /\ player.eosInFlight /\ ~player.pendingEnded
  BY <1>3, <1>5 DEF Sounds, Awaits, Plays, BoundaryPoints
<1>10. player.engine.wanted = "none"
  BY <1>5 DEF Sounds, Awaits, BoundaryPoints
<1>11. \A s \in player.tasks \ {t} : /\ s.at = "primed" /\ s.caller = "user"
                                     /\ player.engine.rendered = 0 /\ ~player.engine.drained
  BY <1>5, BoundaryTasks DEF BoundaryPoints
<1>12. QueueOK(q.queue) /\ q.queue.repeat = "off"
  BY <1>8 DEF Orderly, QueueOK
<1>13. PICK expected : expected = t.item
  OBVIOUS
<1>14. PICK l \in NextLandings(q.queue) : Outcome(q, l, expected, TRUE, player')
  <2>1. player' \in Boundary(q, expected, TRUE)
    BY <1>5, <1>6, <1>13
  <2>2. PICK r, promoted : r = player' /\ promoted = TRUE
    OBVIOUS
  <2>3. r \in Boundary(q, expected, promoted) /\ promoted \in BOOLEAN
    BY <2>1, <2>2
  <2>4. \E l \in NextLandings(q.queue) : Outcome(q, l, expected, promoted, r)
    BY <1>8, <1>12, <2>3, BoundaryIs
  <2> QED
    BY <2>2, <2>4
<1>15. /\ QueueOK(l.queue) /\ l.queue.index = player.queue.index + 1
       /\ l.item = expected /\ l.item = Current(l.queue) /\ l.item # "none"
  BY <1>8, <1>9, <1>12, <1>13, NextIs
<1>16. PICK z : z = [q EXCEPT !.queue = l.queue]
  OBVIOUS
<1>17. player' = IF PreloadTarget(z.queue) = "none" THEN Handed(z, Here(z))
                 ELSE Pending([z EXCEPT !.engine = EnginePrepare(@, PreloadTarget(z.queue))],
                              "readying", Here(z), "eos")
  <2>1. z.queue = l.queue /\ Here(z) = l.item
    BY <1>8, <1>15, <1>16 DEF PlayerFields, Here
  <2> QED
    BY <1>14, <1>15, <1>16, <2>1 DEF Outcome
<1>18. /\ DOMAIN z = PlayerFields /\ z.engine = e /\ z.queue = l.queue /\ Here(z) = l.item
       /\ z.tasks = player.tasks \ {t} /\ z.resetOffset = player.resetOffset
       /\ ~z.pauseIntent /\ ~z.pendingEnded /\ z.eosInFlight /\ z.state = player.state
       /\ z.current = player.current
  BY <1>8, <1>9, <1>15, <1>16 DEF PlayerFields, Here
<1>19. Orderly(z)
  BY <1>7, <1>15, <1>18 DEF Orderly, Formed
<1>20. /\ z.resetOffset \in Nat /\ e.rendered \in Nat /\ e.buffered \in Nat
       /\ z.resetOffset + e.rendered + e.buffered + 1 = z.queue.index
       /\ z.resetOffset + 2 <= z.queue.index
  <2>1. /\ player.resetOffset \in Nat /\ player.engine.rendered \in Nat
        /\ player.engine.buffered \in Nat /\ player.engine.left = 0
        /\ player.resetOffset + player.engine.rendered + player.engine.buffered
             + player.engine.left = player.queue.index
        /\ player.resetOffset + 1 <= player.queue.index /\ player.queue.index \in Nat
    BY <1>9, PlaysIs DEF Sounds, Plays
  <2> QED
    BY <1>7, <1>15, <1>18, <2>1
<1>21. /\ ~e.seeking /\ e.opening = "none" /\ e.kind # "none" /\ e.live /\ e.pumping
       /\ z.state \in {"buffering", "playing"} /\ e.current = Here(z)
       /\ ~e.running => e.rendered = 0 /\ ~e.drained
  BY <1>3, <1>7, <1>9, <1>13, <1>15, <1>18 DEF Sounds, Plays, Handing
<1>22. CASE PreloadTarget(z.queue) = "none"
  <2>1. Plays(z)
    BY <1>7, <1>18, <1>20, <1>21 DEF Plays, Ahead, Handing
  <2>2. /\ ~z.engine.eos /\ z.engine.wanted = "none"
        /\ \A s \in z.tasks : s.at = "primed" /\ s.caller = "user"
        /\ z.tasks # {} => z.engine.rendered = 0 /\ ~z.engine.drained
    BY <1>7, <1>10, <1>11, <1>18
  <2>3. player' = Handed(z, Here(z))
    BY <1>17, <1>22
  <2> QED
    BY <1>18, <1>19, <1>20, <2>1, <2>2, <2>3, HandedFits
<1>23. CASE PreloadTarget(z.queue) # "none"
  <2>1. PICK f : f = EnginePrepare(e, PreloadTarget(z.queue))
    OBVIOUS
  <2>2. PICK s : s = Task("readying", Here(z), "eos")
    OBVIOUS
  <2>3. /\ DOMAIN s = TaskFields /\ s.at = "readying" /\ s.item = Here(z) /\ s.caller = "eos"
        /\ s.fresh /\ s.here
    BY <2>2, TaskIs
  <2>4. /\ DOMAIN f = DOMAIN NoEngine /\ ~Handing(f) /\ f.current = e.current
        /\ f.standby = "none" /\ f.left = 1 /\ ~f.eos /\ ~f.asked
        /\ f.opening = e.opening /\ f.wanted # "none" /\ f.kind = e.kind
        /\ f.suspending = e.suspending /\ f.live = e.live
        /\ f.seeking = e.seeking /\ f.pumping = e.pumping
        /\ f.rendered = e.rendered /\ f.buffered = e.buffered
        /\ f.running = e.running /\ f.drained = e.drained
    BY <1>7, <1>23, <2>1, NoEngineIsFormed DEF EnginePrepare, Handing
  <2>5. PICK r : r = player'
    OBVIOUS
  <2>6. /\ DOMAIN r = PlayerFields /\ r.engine = f /\ r.queue = z.queue
        /\ r.tasks = z.tasks \cup {s} /\ r.resetOffset = z.resetOffset
        /\ ~r.pauseIntent /\ ~r.pendingEnded /\ r.eosInFlight /\ r.state = z.state
    BY <1>17, <1>18, <1>23, <2>1, <2>2, <2>5 DEF Pending, PlayerFields
  <2>7. Here(r) = Here(z)
    BY <2>6 DEF Here
  <2>8. Orderly(r)
    BY <1>18, <1>19, <2>3, <2>4, <2>6 DEF Orderly, Formed
  <2>9. /\ r.resetOffset \in Nat /\ f.rendered \in Nat /\ f.buffered \in Nat /\ f.left = 1
        /\ r.resetOffset + f.rendered + f.buffered + f.left = r.queue.index
        /\ r.resetOffset + 2 <= r.queue.index
    BY <1>20, <2>4, <2>6
  <2>10. r.resetOffset + 1 <= r.queue.index
    BY <1>15, <1>18, <2>6, <2>9, PlaysIs
  <2>11. Plays(r)
    <3>1. /\ ~f.seeking /\ f.opening = "none" /\ f.kind # "none" /\ f.live /\ f.pumping
          /\ r.state \in {"buffering", "playing"} /\ f.current = Here(r)
          /\ ~f.running => f.rendered = 0 /\ ~f.drained
          /\ Ahead(r)
      BY <1>21, <2>4, <2>6, <2>7 DEF Ahead
    <3> QED
      BY <2>4, <2>6, <2>9, <2>10, <3>1 DEF Plays, Handing
  <2>12. Awaits(r)
    <3>1. \A x \in r.tasks : x = s \/ (/\ x.at = "primed" /\ x.caller = "user"
                                       /\ f.rendered = 0 /\ ~f.drained)
      BY <1>7, <1>11, <1>18, <2>4, <2>6
    <3> QED
      BY <1>23, <2>3, <2>4, <2>6, <2>7, <2>9, <3>1 DEF Awaits, Handing, BoundaryPoints
  <2> QED
    BY <2>5, <2>8, <2>11, <2>12 DEF Fit, Sounds
<1> QED
  BY <1>22, <1>23

(* The decoder announces its end: it has given everything it had, and the  *)
(* last unit is still in the ring.                                         *)
LEMMA EosIs ==
  ASSUME Orderly(player), Sounds(player), DecodeEos
  PROVE  /\ player.engine.left = 0 /\ player.engine.buffered = 1 /\ ~player.engine.eos
         /\ player.engine.pumping /\ ~Handing(player.engine)
         /\ \A t \in player.tasks : t.at \in {"primed", "readying"}
<1>1. player.engine.asked /\ player.engine.left = 0 /\ ~player.engine.eos
  BY DEF DecodeEos
<1>2. /\ player.engine.buffered = 1 /\ player.engine.pumping /\ ~Handing(player.engine)
      /\ player.queue.index \in Nat
  BY <1>1, PlaysIs DEF Handing
<1>3. ~(player.engine.rendered = 0 /\ player.resetOffset + 2 <= player.queue.index)
  <2>1. /\ player.resetOffset \in Nat /\ player.engine.rendered \in Nat
        /\ player.resetOffset + player.engine.rendered + player.engine.buffered
             + player.engine.left = player.queue.index
    BY DEF Sounds, Plays
  <2> QED
    BY <1>1, <1>2, <2>1
<1>4. \A t \in player.tasks : t.at # "starting" /\ t.at # "advancing"
  BY <1>1, <1>3 DEF Sounds, Awaits
<1> QED
  BY <1>1, <1>2, <1>4 DEF Sounds, Awaits, BoundaryPoints

LEMMA AnnouncedGoesOn ==
  ASSUME Orderly(player), Sounds(player), DecodeEos
  PROVE  Fit(player')
<1>1. PICK e : e = [player.engine EXCEPT !.eos = TRUE, !.asked = FALSE]
  OBVIOUS
<1>2. PICK p : p = [player EXCEPT !.engine = e]
  OBVIOUS
<1>3. player' \in Eos(p)
  <2>1. p = [player EXCEPT !.engine.eos = TRUE, !.engine.asked = FALSE]
    BY <1>1, <1>2, PlaysIs, NoEngineIsFormed DEF PlayerFields
  <2>2. Live
    BY PlaysIs DEF Live
  <2> QED
    BY <2>1, <2>2 DEF DecodeEos
<1>4. PICK q : q = [p EXCEPT !.eosInFlight = TRUE]
  OBVIOUS
<1>5. /\ DOMAIN e = DOMAIN NoEngine /\ e.eos /\ ~e.asked
      /\ e.current = player.engine.current /\ e.opening = player.engine.opening
      /\ e.standby = player.engine.standby /\ e.wanted = player.engine.wanted
      /\ e.kind = player.engine.kind /\ e.suspending = player.engine.suspending
      /\ e.live = player.engine.live
      /\ e.seeking = player.engine.seeking /\ e.promoting = player.engine.promoting
      /\ e.promoted = player.engine.promoted
      /\ e.pumping = player.engine.pumping /\ e.rendered = player.engine.rendered
      /\ e.buffered = player.engine.buffered /\ e.left = player.engine.left
      /\ e.running = player.engine.running /\ e.drained = player.engine.drained
  BY <1>1, PlaysIs, NoEngineIsFormed
<1>6. /\ DOMAIN q = PlayerFields /\ q.engine = e /\ q.queue = player.queue
      /\ q.tasks = player.tasks /\ q.resetOffset = player.resetOffset
      /\ ~q.pauseIntent /\ q.pendingEnded = player.pendingEnded
      /\ q.eosInFlight /\ q.state = player.state /\ q.current = player.current
  BY <1>2, <1>4, PlaysIs DEF PlayerFields, Orderly
<1>7. ~p.pauseIntent /\ p.queue = player.queue /\ p.engine = e
  BY <1>2, PlaysIs DEF PlayerFields, Orderly
<1>8. PICK expected : expected = PreloadTarget(player.queue)
  OBVIOUS
<1>9. Orderly(q)
  BY <1>5, <1>6 DEF Orderly, Formed
<1>10. /\ player.engine.left = 0 /\ player.engine.buffered = 1 /\ ~player.engine.eos
       /\ player.engine.pumping /\ ~Handing(player.engine)
       /\ \A t \in player.tasks : t.at \in {"primed", "readying"}
  BY EosIs
<1>11. CASE expected # "none" /\ e.standby = expected
  <2>1. PICK f : f = [e EXCEPT !.promoting = TRUE]
    OBVIOUS
  <2>2. PICK t : t = Task("advancing", expected, "eos")
    OBVIOUS
  <2>3. /\ DOMAIN t = TaskFields /\ t.at = "advancing" /\ t.item = expected
        /\ t.caller = "eos" /\ t.fresh /\ t.here
    BY <2>2, TaskIs
  <2>4. PICK r : r = player'
    OBVIOUS
  <2>5. r = Pending([q EXCEPT !.engine.promoting = TRUE], "advancing", expected, "eos")
    BY <1>3, <1>4, <1>7, <1>8, <1>11, <2>4 DEF Eos
  <2>6. /\ DOMAIN r = PlayerFields /\ r.engine = f /\ r.queue = player.queue
        /\ r.tasks = player.tasks \cup {t} /\ r.resetOffset = player.resetOffset
        /\ ~r.pauseIntent /\ r.pendingEnded = player.pendingEnded
        /\ r.eosInFlight /\ r.state = player.state /\ r.current = player.current
    BY <1>6, <2>1, <2>2, <2>5 DEF Pending, PlayerFields
  <2>7. /\ DOMAIN f = DOMAIN NoEngine /\ f.eos /\ ~f.asked /\ f.promoting /\ Handing(f)
        /\ f.promoted = "none" /\ f.current = e.current /\ f.opening = e.opening
        /\ f.standby = e.standby /\ f.wanted = e.wanted /\ f.kind = e.kind
        /\ f.suspending = e.suspending
        /\ f.live = e.live /\ f.seeking = e.seeking
        /\ f.pumping = e.pumping /\ f.rendered = e.rendered
        /\ f.buffered = e.buffered /\ f.left = e.left
        /\ f.running = e.running /\ f.drained = e.drained
    BY <1>5, <1>10, <2>1, NoEngineIsFormed DEF Handing
  <2>8. Here(r) = Here(player)
    BY <2>6 DEF Here
  <2>9. ~player.pendingEnded
    BY <1>5, <1>11 DEF Sounds, Plays, Ahead
  <2>10. \A s \in player.tasks : s.at = "primed"
    BY <1>5, <1>10, <1>11 DEF Sounds, Awaits
  <2>11. Orderly(r)
    BY <1>5, <1>6, <1>9, <2>3, <2>6, <2>7 DEF Orderly, Formed
  <2>12. Plays(r)
    <3>1. /\ r.resetOffset \in Nat /\ f.rendered \in Nat /\ f.buffered \in Nat /\ f.left = 0
          /\ r.resetOffset + f.rendered + f.buffered + f.left = r.queue.index
          /\ r.resetOffset + 1 <= r.queue.index
      BY <1>5, <1>10, <2>6, <2>7 DEF Sounds, Plays
    <3>2. /\ ~f.seeking /\ f.opening = "none" /\ f.kind # "none" /\ f.live /\ f.pumping
          /\ r.state \in {"buffering", "playing"} /\ f.current = Here(r)
          /\ ~f.running => f.rendered = 0 /\ ~f.drained
          /\ Ahead(r)
      BY <1>5, <1>8, <1>10, <1>11, <2>6, <2>7, <2>8, <2>9 DEF Sounds, Plays, Ahead, Handing
    <3> QED
      BY <2>6, <2>7, <2>9, <3>1, <3>2 DEF Plays
  <2>13. Awaits(r)
    <3>1. f.wanted = "none" /\ r.current = Here(r)
      BY <1>5, <2>6, <2>7, <2>8, <2>10 DEF Sounds, Awaits
    <3>2. \A s \in r.tasks : s = t \/ (/\ s.at = "primed" /\ s.caller = "user"
                                       /\ f.rendered = 0 /\ ~f.drained)
      BY <1>5, <2>6, <2>7, <2>10 DEF Sounds, Awaits
    <3> QED
      BY <1>5, <1>8, <1>11, <2>3, <2>6, <2>7, <2>9, <3>1, <3>2 DEF Awaits, BoundaryPoints
  <2> QED
    BY <2>4, <2>11, <2>12, <2>13 DEF Fit, Sounds
<1>12. CASE ~(expected # "none" /\ e.standby = expected)
  <2>1. player' \in Boundary(q, expected, FALSE)
    BY <1>3, <1>4, <1>7, <1>8, <1>12 DEF Eos
  <2>2. QueueOK(q.queue) /\ q.queue.repeat = "off"
    BY <1>9 DEF Orderly, QueueOK
  <2>3. PICK l \in NextLandings(q.queue) : Outcome(q, l, expected, FALSE, player')
    <3>1. PICK r, promoted : r = player' /\ promoted = FALSE
      OBVIOUS
    <3>2. r \in Boundary(q, expected, promoted) /\ promoted \in BOOLEAN
      BY <2>1, <3>1
    <3>3. \E l \in NextLandings(q.queue) : Outcome(q, l, expected, promoted, r)
      BY <1>6, <2>2, <3>2, BoundaryIs
    <3> QED
      BY <3>1, <3>3
  <2>4. PICK z : z = [q EXCEPT !.queue = l.queue]
    OBVIOUS
  <2>5. /\ QueueOK(l.queue) /\ l.queue.items = player.queue.items
        /\ PreloadTarget(player.queue) = "none" =>
             l.item = "none" /\ l.queue.index = player.queue.index
        /\ PreloadTarget(player.queue) # "none" =>
             l.item # "none" /\ l.item = Current(l.queue)
    BY <1>6, <2>2, NextIs
  <2>6. /\ DOMAIN z = PlayerFields /\ z.engine = e /\ z.queue = l.queue
        /\ z.tasks = player.tasks /\ z.resetOffset = player.resetOffset
        /\ ~z.pauseIntent /\ z.pendingEnded = player.pendingEnded
        /\ z.eosInFlight /\ z.state = player.state /\ z.current = player.current
    BY <1>6, <2>4 DEF PlayerFields
  <2>7. Orderly(z)
    BY <1>9, <1>6, <2>5, <2>6 DEF Orderly, Formed
  <2>8. CASE l.item # "none"
    <3>1. player' = Load(z, "eos") /\ Here(z) # "none"
      BY <2>3, <2>4, <2>5, <2>6, <2>8 DEF Here, Outcome
    <3>2. /\ \A t \in z.tasks : t.at \in LoadBound
          /\ z.engine.live /\ ~z.engine.suspending
      BY <1>5, <1>10, <2>6, PlaysIs DEF LoadBound
    <3> QED
      BY <2>7, <3>1, <3>2, LoadLoads DEF Fit
  <2>9. CASE l.item = "none"
    <3>1. PreloadTarget(player.queue) = "none" /\ l.queue.index = player.queue.index
      BY <2>5, <2>9
    <3>2. \A t \in player.tasks : /\ t.at = "primed" /\ t.caller = "user"
                                  /\ player.engine.rendered = 0 /\ ~player.engine.drained
      BY <1>10, <3>1 DEF Sounds, Awaits
    <3>3. player.engine.standby = "none" /\ player.engine.wanted = "none" /\ player.current = Here(player)
      BY <3>1, <3>2 DEF Sounds, Plays, Ahead, Awaits
    <3>4. PICK f : f = [e EXCEPT !.pumping = FALSE]
      OBVIOUS
    <3>5. PICK r : r = GateStop([z EXCEPT !.pendingEnded = TRUE])
      OBVIOUS
    <3>6. /\ DOMAIN f = DOMAIN NoEngine /\ f.eos /\ ~f.asked
          /\ f.current = e.current /\ f.opening = e.opening
          /\ f.standby = e.standby /\ f.wanted = e.wanted /\ f.kind = e.kind
          /\ f.suspending = e.suspending
          /\ f.live = e.live /\ f.seeking = e.seeking /\ f.promoting = e.promoting
          /\ f.promoted = e.promoted
          /\ f.rendered = e.rendered /\ f.buffered = e.buffered /\ f.left = e.left
          /\ f.running = e.running /\ f.drained = e.drained
      BY <1>5, <3>4, NoEngineIsFormed
    <3>7. /\ DOMAIN r = PlayerFields /\ r.engine = f /\ r.queue = l.queue
          /\ r.tasks = player.tasks /\ r.resetOffset = player.resetOffset
          /\ ~r.pauseIntent /\ r.pendingEnded /\ r.eosInFlight
          /\ r.state = player.state /\ r.current = player.current
      BY <2>6, <3>4, <3>5 DEF GateStop, PlayerFields
    <3>8. Here(r) = Here(player)
      BY <2>5, <3>1, <3>7, CurrentIs DEF Orderly, Here
    <3>9. Orderly(r)
      BY <2>5, <2>6, <2>7, <3>6, <3>7 DEF Orderly, Formed
    <3>10. Plays(r)
      <4>1. /\ r.resetOffset \in Nat /\ f.rendered \in Nat /\ f.buffered \in Nat /\ f.left = 0
            /\ r.resetOffset + f.rendered + f.buffered + f.left = r.queue.index
            /\ r.resetOffset + 1 <= r.queue.index
        BY <1>5, <1>10, <3>1, <3>6, <3>7 DEF Sounds, Plays
      <4>2. /\ ~f.seeking /\ f.opening = "none" /\ f.kind # "none" /\ f.live
            /\ r.state \in {"buffering", "playing"} /\ f.current = Here(r)
            /\ ~f.running => f.rendered = 0 /\ ~f.drained
            /\ ~Handing(f) /\ Ahead(r)
        BY <1>5, <1>10, <3>3, <3>6, <3>7, <3>8 DEF Sounds, Plays, Ahead, Handing
      <4> QED
        BY <3>6, <3>7, <4>1, <4>2 DEF Plays, Handing
    <3>11. Awaits(r)
      <4>1. f.wanted = "none" /\ r.current = Here(r) /\ ~Handing(f)
        BY <1>5, <1>10, <3>3, <3>6, <3>7, <3>8 DEF Handing
      <4>2. \A s \in r.tasks : /\ s.at = "primed" /\ s.caller = "user"
                               /\ f.rendered = 0 /\ ~f.drained
        BY <1>5, <3>2, <3>6, <3>7
      <4> QED
        BY <3>7, <4>1, <4>2 DEF Awaits, BoundaryPoints
    <3>12. player' = Returned(Ticked(r), "eos")
      BY <2>3, <2>4, <2>9, <3>5 DEF Outcome
    <3>13. ~Adopts(r)
      BY <3>9, <3>10, <3>11, NothingIsAdopted DEF Sounds
    <3>14. PICK w : w = player'
      OBVIOUS
    <3>15. CASE ~Ends(r)
      <4>1. w = [r EXCEPT !.eosInFlight = FALSE]
        BY <3>12, <3>13, <3>14, <3>15 DEF Ticked, Returned
      <4>2. /\ DOMAIN w = PlayerFields /\ w.engine = r.engine /\ w.queue = r.queue
            /\ w.tasks = r.tasks /\ w.resetOffset = r.resetOffset
            /\ w.pauseIntent = r.pauseIntent /\ w.pendingEnded = r.pendingEnded
            /\ w.state = r.state /\ w.current = r.current
        BY <3>7, <4>1 DEF PlayerFields
      <4>3. \A t \in r.tasks : t.at \notin BoundaryPoints
        BY <3>2, <3>7 DEF BoundaryPoints
      <4> QED
        BY <3>9, <3>10, <3>11, <3>14, <4>2, <4>3, StillSounds
    <3>16. CASE Ends(r)
      <4>1. r.tasks = {}
        <5> SUFFICES ASSUME r.tasks # {} PROVE FALSE
          OBVIOUS
        <5>1. f.rendered = 0 /\ ~f.drained
          BY <1>5, <3>2, <3>6, <3>7
        <5>2. Clock(r) >= Len(r.queue.items)
          BY <3>7, <3>16, <5>1 DEF Ends
        <5>3. r.resetOffset \in Nat /\ r.resetOffset + 1 <= r.queue.index
          BY <3>10 DEF Plays
        <5>4. r.resetOffset >= Len(r.queue.items)
          BY <3>7, <5>1, <5>2, <5>3 DEF Clock
        <5> QED
          BY <3>9, <5>3, <5>4, CurrentIs DEF Orderly
      <4>2. PICK g : g = [f EXCEPT !.suspending = f.running, !.starting = FALSE, !.pumping = FALSE]
        OBVIOUS
      <4>3. PICK y : y = GateStop(EnginePause(r))
        OBVIOUS
      <4>4. /\ DOMAIN y = PlayerFields /\ y.engine = g
            /\ y.queue = r.queue /\ y.tasks = r.tasks
            /\ y.current = r.current /\ y.pauseIntent = r.pauseIntent
        BY <3>6, <3>7, <4>2, <4>3, NoEngineIsFormed DEF GateStop, EnginePause, PlayerFields
      <4>5. w = [[y EXCEPT !.state = "ended", !.pendingEnded = FALSE] EXCEPT !.eosInFlight = FALSE]
        BY <3>12, <3>13, <3>14, <3>16, <4>3 DEF Ticked, Returned
      <4>6. /\ DOMAIN w = PlayerFields /\ w.engine = g
            /\ w.queue = r.queue /\ w.tasks = {} /\ w.state = "ended" /\ ~w.pendingEnded
            /\ w.current = r.current /\ w.pauseIntent = r.pauseIntent
        BY <4>1, <4>4, <4>5 DEF PlayerFields
      <4>7. /\ DOMAIN g = DOMAIN NoEngine /\ (g.running => g.suspending)
            /\ g.current = f.current /\ g.opening = f.opening
            /\ g.wanted = f.wanted /\ g.kind = f.kind
            /\ g.live = f.live /\ g.seeking = f.seeking
            /\ g.promoting = f.promoting /\ g.promoted = f.promoted /\ g.eos = f.eos
            /\ g.left = f.left /\ g.standby = f.standby
        BY <3>6, <4>2, NoEngineIsFormed
      <4>8. Sounds(r) /\ r.engine = f
        BY <3>7, <3>10, <3>11 DEF Sounds
      <4> QED
        BY <3>9, <3>14, <3>16, <4>1, <4>6, <4>7, <4>8, EndedIsOver
    <3> QED
      BY <3>15, <3>16
  <2> QED
    BY <2>8, <2>9
<1> QED
  BY <1>11, <1>12

LEMMA SoundingGoesOn ==
  ASSUME Orderly(player), Patient, Sounds(player), RingUnits = 2,
         Continue \/ OpenFails \/ PlayRefused \/ EngineEvent
  PROVE  Fit(player')
<1>1. \A t \in player.tasks : t.at \in {"advancing", "readying", "starting", "primed"}
  BY DEF Sounds, Awaits, BoundaryPoints
<1>2. ~Closed
  BY <1>1 DEF Closed
<1>3. ~Halted /\ ~TornDown /\ ~Leave
  BY <1>1 DEF Halted, TornDown, Leave, Leavers, Fresh
<1>4. ~Opened
  BY PlaysIs DEF Opened
<1>5. ~Sought /\ ~Suspended
  BY PlaysIs DEF Sought, Suspended
<1> QED
  BY <1>2, <1>3, <1>4, <1>5, NoneElsewhere, SoundingInitialised, SoundingPrepares,
     SoundingFinishes, PromotedGoesOn, SoundingStarts, SoundingDecodes, AnnouncedGoesOn, SoundingRenders,
     SoundingUnderruns, SoundingPrimes, SoundingTicks
     DEF Continue, EngineEvent

(* After the end, and before the first command, nothing moves but what the *)
(* phase does not look at.                                                 *)
LEMMA OverStays ==
  ASSUME Orderly(player), Over(player), Patient,
         Continue \/ OpenFails \/ PlayRefused \/ EngineEvent
  PROVE  Fit(player')
<1>1. player.tasks = {}
  BY DEF Over
<1>2. ~Closed /\ ~Played /\ ~Halted /\ ~TornDown /\ ~Leave
  BY <1>1 DEF Closed, Played, Halted, TornDown, Leave, Leavers, Fresh
<1>3. /\ player.engine.opening = "none" /\ player.engine.wanted = "none"
      /\ ~player.engine.seeking /\ ~player.engine.promoting
      /\ player.engine.promoted = "none"
      /\ player.engine.eos /\ player.engine.left = 0
      /\ player.state = "ended" /\ ~player.pendingEnded
  BY DEF Over, Opens, Handing
<1>4. ~Opened /\ ~Prepared
  BY <1>3 DEF Opened, Prepared
<1>5. ~Sought /\ ~Finished /\ ~Promoted
  BY <1>3 DEF Sought, Finished, Promoted
<1>6. ~Decode /\ ~DecodeEos
  BY <1>3 DEF Decode, DecodeEos
<1>7. CASE Tick
  <2>1. ~Adopts(player) /\ ~Ends(player)
    BY <1>3 DEF Adopts, Ends
  <2>2. PICK r : r = player'
    OBVIOUS
  <2>3. /\ DOMAIN r = PlayerFields /\ r.engine = player.engine /\ r.queue = player.queue
        /\ r.tasks = player.tasks /\ r.state = player.state /\ r.current = player.current
        /\ r.pauseIntent = player.pauseIntent /\ r.pendingEnded = player.pendingEnded
    BY <1>7, <2>1, <2>2, TickIs DEF Orderly
  <2>4. Orderly(r) /\ Over(r)
    BY <2>3 DEF Orderly, Formed, Over, Opens, Here
  <2> QED
    BY <2>2, <2>4 DEF Fit
<1>8. ASSUME NEW e, DOMAIN e = DOMAIN NoEngine, e.current = player.engine.current,
             e.opening = player.engine.opening, e.standby = player.engine.standby,
             e.wanted = player.engine.wanted, e.kind = player.engine.kind,
             e.live = player.engine.live, e.seeking = player.engine.seeking,
             e.promoting = player.engine.promoting, e.promoted = player.engine.promoted,
             e.running => e.suspending,
             e.eos = player.engine.eos, e.left = player.engine.left,
             player' = [player EXCEPT !.engine = e]
      PROVE  Fit(player')
  <2>1. PICK r : r = player'
    OBVIOUS
  <2>2. /\ DOMAIN r = PlayerFields /\ r.engine = e /\ r.queue = player.queue
        /\ r.tasks = player.tasks /\ r.current = player.current
        /\ r.pauseIntent = player.pauseIntent /\ r.pendingEnded = player.pendingEnded
        /\ r.state = player.state
    BY <1>8, <2>1 DEF Orderly, Formed, PlayerFields
  <2>3. Orderly(r)
    BY <1>3, <1>8, <2>2 DEF Orderly, Formed
  <2>4. Over(r)
    BY <1>8, <2>2 DEF Over, Opens, Here, Handing
  <2> QED
    BY <2>1, <2>3, <2>4 DEF Fit
<1>9. CASE Initialised
  <2>1. {t \in Fresh("initing") : t.here} = {}
    BY <1>1 DEF Fresh
  <2>2. PICK e : e = [player.engine EXCEPT !.ready = TRUE]
    OBVIOUS
  <2>3. player' = [player EXCEPT !.engine = e]
    BY <1>9, <2>1, <2>2 DEF Initialised, Orderly, Formed, PlayerFields
  <2>4. /\ DOMAIN e = DOMAIN NoEngine /\ e.current = player.engine.current
        /\ e.opening = player.engine.opening /\ e.standby = player.engine.standby
        /\ e.wanted = player.engine.wanted /\ e.kind = player.engine.kind
        /\ e.live = player.engine.live /\ e.seeking = player.engine.seeking
        /\ e.promoting = player.engine.promoting /\ e.promoted = player.engine.promoted
        /\ e.running => e.suspending
        /\ e.eos = player.engine.eos /\ e.left = player.engine.left
    BY <2>2, NoEngineIsFormed DEF Orderly, Formed, Over
  <2> QED
    BY <1>8, <2>3, <2>4
<1>10. CASE Primed
  <2>1. PICK e : e = [player.engine EXCEPT !.primed = TRUE, !.drained = FALSE]
    OBVIOUS
  <2>2. [player EXCEPT !.engine.primed = TRUE, !.engine.drained = FALSE]
          = [player EXCEPT !.engine = e]
    BY <2>1, NoEngineIsFormed DEF Orderly, Formed, PlayerFields
  <2>3. PICK p : p = [player EXCEPT !.engine = e]
    OBVIOUS
  <2>4. p.state = "ended"
    BY <2>3 DEF Over, Orderly, Formed, PlayerFields
  <2>5. player' = IF Live /\ p.state \in {"loading", "buffering"}
                     THEN Started(p, "primed", "none", "user") ELSE p
    BY <1>10, <2>2, <2>3 DEF Primed
  <2>6. player' = [player EXCEPT !.engine = e]
    BY <2>3, <2>4, <2>5
  <2>7. /\ DOMAIN e = DOMAIN NoEngine /\ e.current = player.engine.current
        /\ e.opening = player.engine.opening /\ e.standby = player.engine.standby
        /\ e.wanted = player.engine.wanted /\ e.kind = player.engine.kind
        /\ e.live = player.engine.live /\ e.seeking = player.engine.seeking
        /\ e.promoting = player.engine.promoting /\ e.promoted = player.engine.promoted
        /\ e.running => e.suspending
        /\ e.eos = player.engine.eos /\ e.left = player.engine.left
    BY <2>1, NoEngineIsFormed DEF Orderly, Formed, Over
  <2> QED
    BY <1>8, <2>6, <2>7
<1>11. CASE Suspended
  <2>1. PICK e : e = [player.engine EXCEPT !.suspending = FALSE, !.running = FALSE]
    OBVIOUS
  <2>2. player' = [player EXCEPT !.engine = e]
    BY <1>11, <2>1, NoEngineIsFormed DEF Suspended, Orderly, Formed, PlayerFields
  <2>3. /\ DOMAIN e = DOMAIN NoEngine /\ e.current = player.engine.current
        /\ e.opening = player.engine.opening /\ e.standby = player.engine.standby
        /\ e.wanted = player.engine.wanted /\ e.kind = player.engine.kind
        /\ e.live = player.engine.live /\ e.seeking = player.engine.seeking
        /\ e.promoting = player.engine.promoting /\ e.promoted = player.engine.promoted
        /\ e.running => e.suspending
        /\ e.eos = player.engine.eos /\ e.left = player.engine.left
    BY <2>1, NoEngineIsFormed DEF Orderly, Formed
  <2> QED
    BY <1>8, <2>2, <2>3
<1>12. ASSUME NEW d, DOMAIN d = DOMAIN NoEngine, d.current = player.engine.current,
              d.opening = player.engine.opening, d.standby = player.engine.standby,
              d.wanted = player.engine.wanted, d.kind = player.engine.kind,
              d.live = player.engine.live, d.seeking = player.engine.seeking,
              d.promoting = player.engine.promoting, d.promoted = player.engine.promoted,
              d.running = player.engine.running, d.suspending = player.engine.suspending,
              d.eos = player.engine.eos, d.left = player.engine.left,
              player' = Ring(d)
       PROVE  Fit(player')
  <2>1. PICK e : e = Pump(d)
    OBVIOUS
  <2>2. player' = [player EXCEPT !.engine = e]
    BY <1>12, <2>1 DEF Ring
  <2>3. /\ DOMAIN e = DOMAIN NoEngine /\ e.current = d.current
        /\ e.opening = d.opening /\ e.standby = d.standby
        /\ e.wanted = d.wanted /\ e.kind = d.kind /\ e.live = d.live
        /\ e.seeking = d.seeking /\ e.promoting = d.promoting /\ e.promoted = d.promoted
        /\ e.running = d.running /\ e.suspending = d.suspending
        /\ e.eos = d.eos /\ e.left = d.left
    BY <1>12, <2>1, PumpIs
  <2>4. e.running => e.suspending
    BY <1>12, <2>3 DEF Over
  <2> QED
    BY <1>8, <1>12, <2>2, <2>3, <2>4
<1>13. CASE Render
  <2>1. PICK d : d = [player.engine EXCEPT !.buffered = @ - 1, !.rendered = @ + 1, !.dry = FALSE]
    OBVIOUS
  <2>2. player' = Ring(d)
    BY <1>13, <2>1 DEF Render
  <2>3. /\ DOMAIN d = DOMAIN NoEngine /\ d.current = player.engine.current
        /\ d.opening = player.engine.opening /\ d.standby = player.engine.standby
        /\ d.wanted = player.engine.wanted /\ d.kind = player.engine.kind
        /\ d.live = player.engine.live /\ d.seeking = player.engine.seeking
        /\ d.promoting = player.engine.promoting /\ d.promoted = player.engine.promoted
        /\ d.running = player.engine.running /\ d.suspending = player.engine.suspending
        /\ d.eos = player.engine.eos /\ d.left = player.engine.left
    BY <2>1, NoEngineIsFormed DEF Orderly, Formed
  <2> QED
    BY <1>12, <2>2, <2>3
<1>14. CASE Underrun
  <2>1. PICK d : d = [player.engine EXCEPT !.dry = TRUE, !.primed = FALSE, !.asked = FALSE,
                     !.drained = @ \/ (player.engine.eos /\ player.engine.current # "none")]
    OBVIOUS
  <2>2. PICK p : p = Ring(d)
    OBVIOUS
  <2>3. p.state = "ended"
    BY <1>3, <2>2 DEF Ring, Orderly, Formed, PlayerFields
  <2>4. player' = Ring(d)
    BY <1>14, <2>1, <2>2, <2>3 DEF Underrun
  <2>5. /\ DOMAIN d = DOMAIN NoEngine /\ d.current = player.engine.current
        /\ d.opening = player.engine.opening /\ d.standby = player.engine.standby
        /\ d.wanted = player.engine.wanted /\ d.kind = player.engine.kind
        /\ d.live = player.engine.live /\ d.seeking = player.engine.seeking
        /\ d.promoting = player.engine.promoting /\ d.promoted = player.engine.promoted
        /\ d.running = player.engine.running /\ d.suspending = player.engine.suspending
        /\ d.eos = player.engine.eos /\ d.left = player.engine.left
    BY <2>1, NoEngineIsFormed DEF Orderly, Formed
  <2> QED
    BY <1>12, <2>4, <2>5
<1> QED
  BY <1>2, <1>4, <1>5, <1>6, <1>7, <1>9, <1>10, <1>11, <1>13, <1>14, NoneElsewhere DEF Continue, EngineEvent

LEMMA IdleStays ==
  ASSUME Orderly(player), Idles(player), Patient,
         Continue \/ OpenFails \/ PlayRefused \/ EngineEvent
  PROVE  FALSE
<1>1. player.tasks = {}
  BY DEF Idles
<1>2. ~Closed /\ ~Played /\ ~Halted /\ ~TornDown /\ ~Leave
  BY <1>1 DEF Closed, Played, Halted, TornDown, Leave, Leavers, Fresh
<1>3. /\ player.engine.opening = "none" /\ player.engine.wanted = "none"
      /\ ~player.engine.seeking /\ ~player.engine.promoting /\ ~player.engine.running
      /\ ~player.engine.asked /\ ~(player.engine.buffered > 0) /\ player.engine.kind = "none"
      /\ player.engine.promoted = "none" /\ ~player.engine.suspending
  BY DEF Idles, Still, Orderly
<1>4. ~Opened /\ ~Prepared /\ ~Initialised
  BY <1>3 DEF Opened, Prepared, Initialised
<1>5. ~Sought /\ ~Finished /\ ~Promoted /\ ~Suspended
  BY <1>3 DEF Sought, Finished, Promoted, Suspended
<1>6. ~Decode /\ ~DecodeEos
  BY <1>3 DEF Decode, DecodeEos
<1>7. ~Render /\ ~Underrun /\ ~Tick /\ ~Primed
  BY <1>3 DEF Render, Underrun, Tick, Running, Primed
<1> QED
  BY <1>2, <1>4, <1>5, <1>6, <1>7, NoneElsewhere DEF Continue, EngineEvent

-----------------------------------------------------------------------------
(* The commands of such a listener.  One waits until nothing is pending.   *)

LEMMA ReadyIs ==
  ASSUME NEW p, Fit(p), p.tasks = {}, ~p.engine.suspending
  PROVE  /\ Orderly(p) /\ (Idles(p) \/ Sounds(p) \/ Over(p))
         /\ p.engine.kind # "none" => p.engine.live
         /\ p.engine.kind # "none" \/ p.current # "none" =>
              AtTrack(p) /\ p.current = Here(p)
<1>1. Orderly(p) /\ (Idles(p) \/ Sounds(p) \/ Over(p))
  BY DEF Fit
<1>2. CASE Idles(p)
  BY <1>1, <1>2 DEF Idles
<1>3. CASE Sounds(p)
  <2>1. Ahead(p) /\ p.engine.current = Here(p) /\ p.engine.opening = "none"
        /\ p.engine.kind # "none" /\ p.engine.live
    BY <1>3 DEF Sounds, Plays, Awaits, Handing
  <2>2. p.engine.wanted = "none" /\ p.current = Here(p)
    BY <1>3 DEF Sounds, Awaits
  <2>3. Here(p) # "none"
    BY <1>1, <1>3, <2>1, PlaysIs
  <2> QED
    BY <1>1, <1>3, <2>1, <2>2, <2>3 DEF AtTrack
<1>4. CASE Over(p)
  BY <1>1, <1>4 DEF Over, Opens, AtTrack, Ahead
<1> QED
  BY <1>1, <1>2, <1>3, <1>4

LEMMA LoadFits ==
  ASSUME NEW p, Orderly(p), p.tasks = {}, ~p.engine.suspending, Here(p) # "none",
         p.engine.kind # "none" => p.engine.live, NEW caller
  PROVE  Fit(Load(p, caller))
<1>1. \A t \in p.tasks : t.at \in LoadBound
  OBVIOUS
<1> QED
  BY <1>1, LoadLoads DEF Fit

(* The queue grows, or its history changes.                                *)
LEMMA QueueFits ==
  ASSUME NEW p, Fit(p), p.tasks = {}, ~p.engine.suspending,
         NEW r, DOMAIN r = PlayerFields, r.tasks = {}, r.engine = p.engine,
         r.state = p.state, r.current = p.current, r.resetOffset = p.resetOffset,
         r.pauseIntent = p.pauseIntent, r.pendingEnded = p.pendingEnded,
         QueueOK(r.queue), r.queue.index = p.queue.index, Here(r) = Here(p),
         PreloadTarget(p.queue) # "none" => PreloadTarget(r.queue) # "none"
  PROVE  Fit(r)
<1>1. Orderly(p) /\ (Idles(p) \/ Sounds(p) \/ Over(p))
  BY ReadyIs
<1>2. Orderly(r)
  BY <1>1 DEF Orderly, Formed
<1>3. CASE Idles(p)
  BY <1>2, <1>3 DEF Idles, Fit
<1>4. CASE Over(p)
  BY <1>2, <1>4 DEF Over, Opens, Fit
<1>5. CASE Sounds(p)
  <2>1. Plays(r)
    <3>1. Ahead(r)
      BY <1>5 DEF Sounds, Plays, Ahead
    <3> QED
      BY <1>5, <3>1 DEF Sounds, Plays
  <2>2. Awaits(r)
    <3>1. ~Handing(p.engine)
      BY <1>5 DEF Sounds, Awaits
    <3> QED
      BY <1>5, <3>1 DEF Sounds, Awaits
  <2> QED
    BY <1>2, <2>1, <2>2 DEF Fit, Sounds
<1> QED
  BY <1>1, <1>3, <1>4, <1>5

(* A player that was asked for another track of its queue.                 *)
LEMMA MovesFit ==
  ASSUME NEW p, Fit(p), p.tasks = {}, ~p.engine.suspending, NEW i \in Positions(p.queue), NEW caller,
         NEW r, DOMAIN r = PlayerFields, r.tasks = {}, r.engine = p.engine,
         ~r.pauseIntent, r.queue = MoveToQueue(p.queue, i)
  PROVE  Fit(Load(r, caller))
<1>1. Orderly(p) /\ (p.engine.kind # "none" => p.engine.live)
  BY ReadyIs
<1>2. QueueOK(r.queue) /\ r.queue.index # 0
  BY <1>1, MovedIs DEF Orderly
<1>3. Orderly(r)
  BY <1>1, <1>2 DEF Orderly, Formed
<1>4. Here(r) # "none"
  BY <1>2, CurrentIs DEF Here
<1> QED
  BY <1>1, <1>3, <1>4, LoadFits

LEMMA SupersededAlone ==
  ASSUME NEW p, Orderly(p), p.tasks = {}
  PROVE  /\ LET r == Superseded(p) IN
            /\ DOMAIN r = PlayerFields /\ r.tasks = {} /\ r.engine = p.engine
            /\ r.queue = p.queue /\ r.state = p.state /\ r.current = p.current
            /\ r.resetOffset = p.resetOffset /\ ~r.pauseIntent
            /\ r.pauseIntent = p.pauseIntent /\ r.pendingEnded = p.pendingEnded
         /\ LET r == Superseded(Transported(p)) IN
            /\ DOMAIN r = PlayerFields /\ r.tasks = {} /\ r.engine = p.engine
            /\ r.queue = p.queue /\ r.state = p.state /\ r.current = p.current
            /\ r.resetOffset = p.resetOffset /\ ~r.pauseIntent
            /\ r.pauseIntent = p.pauseIntent /\ r.pendingEnded = p.pendingEnded
<1>1. PICK a, t : a = Superseded(p) /\ t = Transported(p)
  OBVIOUS
<1>2. PICK b : b = Superseded(t)
  OBVIOUS
<1>3. a = [p EXCEPT !.tasks = {}] /\ t = [p EXCEPT !.tasks = {}]
  BY <1>1, AloneIs DEF Orderly
<1>4. Formed(t) /\ t.tasks = {}
  BY <1>3 DEF Orderly, Formed, PlayerFields
<1>5. b = [t EXCEPT !.tasks = {}]
  BY <1>2, <1>4, AloneIs
<1>6. /\ DOMAIN a = PlayerFields /\ a.tasks = {} /\ a.engine = p.engine
      /\ a.queue = p.queue /\ a.state = p.state /\ a.current = p.current
      /\ a.resetOffset = p.resetOffset /\ ~a.pauseIntent
      /\ a.pauseIntent = p.pauseIntent /\ a.pendingEnded = p.pendingEnded
  BY <1>3 DEF Orderly, Formed, PlayerFields
<1>7. /\ DOMAIN b = PlayerFields /\ b.tasks = {} /\ b.engine = p.engine
      /\ b.queue = p.queue /\ b.state = p.state /\ b.current = p.current
      /\ b.resetOffset = p.resetOffset /\ ~b.pauseIntent
      /\ b.pauseIntent = p.pauseIntent /\ b.pendingEnded = p.pendingEnded
  BY <1>3, <1>5 DEF Orderly, Formed, PlayerFields
<1> QED
  BY <1>1, <1>2, <1>6, <1>7

LEMMA PlayFits ==
  ASSUME Fit(player), player.tasks = {}, ~player.engine.suspending, user \in Users, PlaySequence
  PROVE  Fit(player')
<1>1. Orderly(player) /\ (player.engine.kind # "none" => player.engine.live)
  BY ReadyIs
<1>2. PICK S \in SUBSET user.items :
        \E s \in SetToSeqs(S), i \in 1..Cardinality(S) :
          \E q \in PlaySequenceQueues(player.queue, s, i) :
            player' = Load([Asked(player) EXCEPT !.queue = q], "user")
  BY DEF PlaySequence
<1>3. PICK s \in SetToSeqs(S), i \in 1..Cardinality(S) :
        \E q \in PlaySequenceQueues(player.queue, s, i) :
          player' = Load([Asked(player) EXCEPT !.queue = q], "user")
  BY <1>2
<1>4. PICK q \in PlaySequenceQueues(player.queue, s, i) :
        player' = Load([Asked(player) EXCEPT !.queue = q], "user")
  BY <1>3
<1>5. S \in SUBSET Items
  BY PlayerAssumption DEF UserTypes
<1>6. QueueOK(q) /\ q.index = i
  BY <1>1, <1>5, PlayedIs DEF Orderly
<1>7. PICK r : r = [Asked(player) EXCEPT !.queue = q]
  OBVIOUS
<1>8. /\ DOMAIN r = PlayerFields /\ r.tasks = {} /\ r.engine = player.engine
      /\ ~r.pauseIntent /\ r.queue = q
  BY <1>1, <1>7 DEF Asked, Orderly, Formed, PlayerFields
<1>9. Orderly(r)
  BY <1>1, <1>6, <1>8 DEF Orderly, Formed
<1>10. Here(r) # "none"
  BY <1>6, <1>8, CurrentIs DEF Here
<1>11. player' = Load(r, "user")
  BY <1>4, <1>7
<1> QED
  BY <1>1, <1>8, <1>9, <1>10, <1>11, LoadFits

LEMMA IndexFits ==
  ASSUME Fit(player), player.tasks = {}, ~player.engine.suspending, PlayQueueIndex
  PROVE  Fit(player')
<1>1. Orderly(player)
  BY ReadyIs
<1>2. PICK i \in Positions(player.queue) :
        player' = Load([Asked(player) EXCEPT !.queue = MoveToQueue(@, i)], "user")
  BY DEF PlayQueueIndex
<1>3. PICK r : r = [Asked(player) EXCEPT !.queue = MoveToQueue(@, i)]
  OBVIOUS
<1>4. /\ DOMAIN r = PlayerFields /\ r.tasks = {} /\ r.engine = player.engine
      /\ ~r.pauseIntent /\ r.queue = MoveToQueue(player.queue, i)
  BY <1>1, <1>3 DEF Asked, Orderly, Formed, PlayerFields
<1> QED
  BY <1>2, <1>3, <1>4, MovesFit

LEMMA LandedFits ==
  ASSUME Fit(player), player.tasks = {}, ~player.engine.suspending, NEW l, QueueOK(l.queue),
         l.queue.items = player.queue.items,
         l.item = "none" => l.queue.index = player.queue.index,
         l.item # "none" => l.item = Current(l.queue)
  PROVE  Fit(Landed(player, l))
<1>1. Orderly(player) /\ (player.engine.kind # "none" => player.engine.live)
  BY ReadyIs
<1>2. PICK q : q = [Superseded(player) EXCEPT !.queue = l.queue]
  OBVIOUS
<1>3. /\ DOMAIN q = PlayerFields /\ q.tasks = {} /\ q.engine = player.engine
      /\ q.queue = l.queue /\ q.state = player.state /\ q.current = player.current
      /\ q.resetOffset = player.resetOffset /\ ~q.pauseIntent
      /\ q.pauseIntent = player.pauseIntent /\ q.pendingEnded = player.pendingEnded
  BY <1>1, <1>2, SupersededAlone DEF PlayerFields
<1>4. Landed(player, l) = IF l.item = "none" THEN q ELSE Load(q, "user")
  BY <1>2 DEF Landed
<1>5. CASE l.item = "none"
  <2>1. Here(q) = Here(player) /\ PreloadTarget(q.queue) = PreloadTarget(player.queue)
    <3>1. PICK a, b : a = player.queue /\ b = q.queue
      OBVIOUS
    <3>2. QueueOK(a) /\ QueueOK(b) /\ b.items = a.items /\ b.index = a.index
      BY <1>1, <1>3, <1>5, <3>1 DEF Orderly
    <3>3. Current(b) = Current(a)
      BY <3>2, CurrentIs
    <3>4. PreloadTarget(b) = PreloadTarget(a)
      BY <3>2, CurrentIs, PreloadIs
    <3> QED
      BY <3>1, <3>3, <3>4 DEF Here
  <2> QED
    BY <1>3, <1>4, <1>5, <2>1, QueueFits
<1>6. CASE l.item # "none"
  <2>1. Orderly(q) /\ Here(q) # "none"
    BY <1>1, <1>3, <1>6 DEF Orderly, Formed, Here
  <2> QED
    BY <1>1, <1>3, <1>4, <1>6, <2>1, LoadFits
<1> QED
  BY <1>5, <1>6

LEMMA NextFits ==
  ASSUME Fit(player), player.tasks = {}, ~player.engine.suspending, NextTrack
  PROVE  Fit(player')
<1>1. PICK l \in NextLandings(player.queue) : player' = Landed(player, l)
  BY DEF NextTrack
<1>2. QueueOK(player.queue)
  BY ReadyIs DEF Orderly
<1>3. /\ QueueOK(l.queue) /\ l.queue.items = player.queue.items
      /\ l.item = "none" => l.queue.index = player.queue.index
      /\ l.item # "none" => l.item = Current(l.queue)
  BY <1>2, NextIs
<1> QED
  BY <1>1, <1>3, LandedFits

LEMMA PreviousFits ==
  ASSUME Fit(player), player.tasks = {}, ~player.engine.suspending, PreviousTrack
  PROVE  Fit(player')
<1>1. PICK l : l = PreviousLanding(player.queue)
  OBVIOUS
<1>2. player' = Landed(player, l)
  BY <1>1 DEF PreviousTrack
<1>3. QueueOK(player.queue)
  BY ReadyIs DEF Orderly
<1>4. /\ QueueOK(l.queue) /\ l.queue.items = player.queue.items
      /\ l.item = "none" => l.queue.index = player.queue.index
      /\ l.item # "none" => l.item = Current(l.queue)
  BY <1>1, <1>3, PreviousIs
<1> QED
  BY <1>2, <1>4, LandedFits

(* A seek inside the track, or back to its start.                          *)
LEMMA RestartFits ==
  ASSUME Fit(player), player.tasks = {}, ~player.engine.suspending, player.engine.kind # "none"
  PROVE  Fit(Restart(Superseded(Transported(player))))
<1>1. Orderly(player) /\ AtTrack(player) /\ player.current = Here(player)
  BY ReadyIs
<1>2. PICK p : p = Superseded(Transported(player))
  OBVIOUS
<1>3. /\ DOMAIN p = PlayerFields /\ p.tasks = {} /\ p.engine = player.engine
      /\ p.queue = player.queue /\ p.current = player.current /\ ~p.pauseIntent
      /\ p.pendingEnded = player.pendingEnded
  BY <1>1, <1>2, SupersededAlone
<1>4. AtTrack(p) /\ p.current = Here(p)
  BY <1>1, <1>3 DEF AtTrack, Orderly, Formed, Ahead, Here
<1> QED
  BY <1>2, <1>4, RestartSeeks DEF Fit

LEMMA SeekFits ==
  ASSUME Fit(player), player.tasks = {}, ~player.engine.suspending, Seek
  PROVE  Fit(player')
<1>1. Orderly(player) /\ player.engine.kind # "none"
  BY ReadyIs DEF Seek
<1>2. PICK p : p = Superseded(Transported(player))
  OBVIOUS
<1>3. PICK i \in Positions(player.queue) :
        player' = IF i = player.queue.index THEN Restart(p)
                  ELSE Load([p EXCEPT !.queue = MoveToQueue(@, i)], "seek")
  BY <1>2 DEF Seek
<1>4. /\ DOMAIN p = PlayerFields /\ p.tasks = {} /\ p.engine = player.engine
      /\ p.queue = player.queue /\ ~p.pauseIntent
  BY <1>1, <1>2, SupersededAlone
<1>5. CASE i = player.queue.index
  BY <1>1, <1>2, <1>3, <1>5, RestartFits
<1>6. CASE i # player.queue.index
  <2>1. PICK r : r = [p EXCEPT !.queue = MoveToQueue(@, i)]
    OBVIOUS
  <2>2. /\ DOMAIN r = PlayerFields /\ r.tasks = {} /\ r.engine = player.engine
        /\ ~r.pauseIntent /\ r.queue = MoveToQueue(player.queue, i)
    BY <1>4, <2>1 DEF PlayerFields
  <2>3. player' = Load(r, "seek")
    BY <1>3, <1>6, <2>1
  <2> QED
    BY <2>2, <2>3, MovesFit
<1> QED
  BY <1>5, <1>6

LEMMA EnqueueFits ==
  ASSUME Fit(player), player.tasks = {}, ~player.engine.suspending, user \in Users, Enqueue
  PROVE  Fit(player')
<1>1. Orderly(player)
  BY ReadyIs
<1>2. PICK item \in user.items :
        \E q \in EnqueueQueues(player.queue, <<item>>) :
          player' = Noticed([player EXCEPT !.queue = q])
  BY DEF Enqueue, Edit
<1>3. PICK q \in EnqueueQueues(player.queue, <<item>>) :
        player' = Noticed([player EXCEPT !.queue = q])
  BY <1>2
<1>4. item \in Items
  BY PlayerAssumption DEF UserTypes
<1>5. /\ QueueOK(q) /\ q.index = player.queue.index /\ Current(q) = Current(player.queue)
      /\ PreloadTarget(player.queue) # "none" => PreloadTarget(q) # "none"
  BY <1>1, <1>4, EnqueuedIs DEF Orderly
<1>6. PICK r : r = [player EXCEPT !.queue = q]
  OBVIOUS
<1>7. /\ DOMAIN r = PlayerFields /\ r.tasks = {} /\ r.engine = player.engine
      /\ r.queue = q /\ r.state = player.state /\ r.current = player.current
      /\ r.resetOffset = player.resetOffset /\ r.pauseIntent = player.pauseIntent
      /\ r.pendingEnded = player.pendingEnded
  BY <1>1, <1>6 DEF Orderly, Formed, PlayerFields
<1>8. Fit(r)
  BY <1>5, <1>7, QueueFits DEF Here
<1>9. Noticed(r) = r
  <2>1. Current(r.queue) = "none" => r.state = "idle"
    <3>1. CASE player.engine.kind # "none"
      BY <1>5, <1>7, <3>1, ReadyIs DEF AtTrack, Here
    <3>2. CASE player.engine.kind = "none"
      <4>1. Idles(player)
        BY <3>2, ReadyIs DEF Sounds, Plays, Over, Opens
      <4> QED
        BY <1>7, <4>1 DEF Idles
    <3> QED
      BY <3>1, <3>2
  <2>2. r.current # "none" => Current(r.queue) = r.current
    BY <1>5, <1>7, ReadyIs DEF Here
  <2> QED
    BY <2>1, <2>2 DEF Noticed
<1> QED
  BY <1>3, <1>6, <1>8, <1>9

(* The commands of a listener who goes through the queue in its order.     *)
Sequential == {"play", "index", "next", "previous", "seek", "enqueue"}

LEMMA CommandsFit ==
  ASSUME Fit(player), user \in Users, user.patient, user.commands \subseteq Sequential,
         UserAction
  PROVE  Fit(player')
<1>1. \E c \in Sequential : Command(c)
  BY DEF UserAction, PlaySequence, PlayQueueIndex, NextTrack, PreviousTrack, RestartTrack,
     Pause, TogglePlay, Seek, Teardown, SetRepeat, SetShuffle, RemoveItem, ClearAll, Enqueue,
     Command
<1>2. player.tasks = {} /\ ~player.engine.suspending
  BY <1>1 DEF Command, Idle
<1>3. /\ ~Pause /\ ~TogglePlay /\ ~Teardown /\ ~SetRepeat /\ ~SetShuffle
      /\ ~RemoveItem /\ ~ClearAll
  BY DEF Pause, TogglePlay, Teardown, SetRepeat, SetShuffle, RemoveItem, ClearAll,
     Command, Sequential
<1>4. CASE RestartTrack
  <2>1. player' = Restart(Superseded(Transported(player))) /\ player.engine.kind # "none"
    BY <1>4 DEF RestartTrack
  <2> QED
    BY <1>2, <2>1, RestartFits
<1> QED
  BY <1>2, <1>3, <1>4, PlayFits, IndexFits, NextFits, PreviousFits, SeekFits, EnqueueFits
     DEF UserAction

-----------------------------------------------------------------------------
(* The theorems.                                                           *)

(* The ring holds no more than two tracks, and who waits for every command *)
(* and meets no failure goes through the queue in its order.               *)
InSequence ==
  /\ RingUnits = 2
  /\ \A u \in Users : u.patient /\ ~u.failures => u.commands \subseteq Sequential

FitInv == user \in Users /\ (Careful => Fit(player))

LEMMA InitFits == Init => FitInv
<1> SUFFICES ASSUME Init PROVE FitInv
  OBVIOUS
<1>1. QueueOK(player.queue) /\ player.queue.index = 0
  <2>1. player.queue = EmptyQueue
    BY DEF Init
  <2>2. /\ EmptyQueue.items = <<>> /\ EmptyQueue.index = 0
        /\ EmptyQueue.repeat = "off" /\ ~EmptyQueue.shuffling
    BY DEF EmptyQueue
  <2>3. <<>> \in Seq(Items) /\ Len(<<>>) = 0
    OBVIOUS
  <2> QED
    BY <2>1, <2>2, <2>3 DEF QueueOK
<1>2. Orderly(player)
  <2>1. ~NoEngine.suspending
    BY DEF NoEngine
  <2> QED
    BY <1>1, <2>1, NoEngineIsFormed DEF Init, Orderly, Formed, PlayerFields
<1>3. Idles(player)
  BY <1>1 DEF Init, Idles, NoEngine, Still
<1> QED
  BY <1>2, <1>3 DEF Init, FitInv, Fit

LEMMA NextFit ==
  ASSUME InSequence, FitInv, [Next]_vars
  PROVE  FitInv'
<1>1. CASE UNCHANGED vars
  <2>1. user' = user /\ player' = player
    BY <1>1 DEF vars
  <2>2. Fit(player)' <=> Fit(player')
    OBVIOUS
  <2> QED
    BY <2>1, <2>2 DEF FitInv, Careful
<1>2. CASE Next
  <2>1. user' = user
    BY <1>2 DEF Next, UserAction, PlaySequence, PlayQueueIndex, NextTrack, PreviousTrack,
       RestartTrack, Pause, TogglePlay, Seek, Teardown, SetRepeat, SetShuffle, RemoveItem,
       ClearAll, Enqueue, Command, Continue, EngineEvent, Closed, Initialised, Opened,
       Elsewhere, Prepared, Sought, Finished, Promoted, Played, Suspended, Halted, TornDown,
       Leave, OpenFails, PlayRefused, Decode, DecodeEos, Render, Underrun, Primed, Tick, Step
  <2>2. ASSUME Careful PROVE Fit(player')
    <3>1. /\ Fit(player) /\ Orderly(player) /\ Patient /\ RingUnits = 2
          /\ user.commands \subseteq Sequential
      BY <2>2 DEF FitInv, Careful, Patient, InSequence, Fit
    <3>2. CASE UserAction
      BY <2>2, <3>1, <3>2, CommandsFit DEF FitInv, Careful
    <3>3. CASE Continue \/ OpenFails \/ PlayRefused \/ EngineEvent
      <4>1. CASE Idles(player)
        BY <3>1, <3>3, <4>1, IdleStays
      <4>2. ASSUME NEW t \in player.tasks, Loads(player, t) PROVE Fit(player')
        BY <3>1, <3>3, <4>2, LoadingGoesOn
      <4>3. ASSUME NEW t \in player.tasks, Seeks(player, t) PROVE Fit(player')
        BY <3>1, <3>3, <4>3, SeekingGoesOn
      <4>4. CASE Sounds(player)
        BY <3>1, <3>3, <4>4, SoundingGoesOn
      <4>5. CASE Over(player)
        BY <3>1, <3>3, <4>5, OverStays
      <4> QED
        BY <3>1, <4>1, <4>2, <4>3, <4>4, <4>5 DEF Fit
    <3> QED
      BY <1>2, <3>2, <3>3 DEF Next
  <2> QED
    BY <2>1, <2>2 DEF FitInv, Careful
<1> QED
  BY <1>1, <1>2

(* When nothing is pending a player that sounds is in its sounding phase.  *)
LEMMA SettledSounds ==
  ASSUME Fit(player), Settled, Sounding
  PROVE  Sounds(player)
  BY DEF Fit, Settled, Sounding, Idles, Over

(* For a listener who waits for every command, meets no failure and goes   *)
(* through the queue in its order, the track under the cursor, the track   *)
(* that is shown and the track the decoder feeds are one whenever nothing  *)
(* is in flight: through every load, handoff, seek and clock report.       *)
THEOREM TheTrackPlayedIsShown ==
  ASSUME InSequence
  PROVE  Spec => []ShowsWhatPlays
<1>1. FitInv => ShowsWhatPlays
  BY SettledSounds DEF FitInv, ShowsWhatPlays, Careful, Sounds, Awaits, Plays, Here, Settled
<1>2. FitInv /\ [Next]_vars => FitInv'
  BY NextFit
<1> QED
  BY InitFits, <1>1, <1>2, PTL DEF Spec

(* And no end the decoder announces is lost: either the next track has     *)
(* been handed over, and the decoder is no longer at an end, or the end of *)
(* the queue is pending until the clock has reached it.                    *)
THEOREM EndsAreHandled ==
  ASSUME InSequence
  PROVE  Spec => []EndIsHandled
<1>1. FitInv => EndIsHandled
  BY SettledSounds DEF FitInv, EndIsHandled, Careful, Sounds, Awaits, Plays, Settled
<1>2. FitInv /\ [Next]_vars => FitInv'
  BY NextFit
<1> QED
  BY InitFits, <1>1, <1>2, PTL DEF Spec
===============================================================================
