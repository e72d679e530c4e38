-------------------------------- MODULE Player --------------------------------
(***************************************************************************)
(* The player: transport commands, queue orchestration and the engine.     *)
(*                                                                         *)
(*   src/web/player-core/src/player.ts                  Player             *)
(*   src/web/player-core/src/engine.ts                  the engine port    *)
(*   src/web/app/src/lib/playback/musepack-engine.ts    the engine         *)
(*   src/web/app/src/lib/playback/audio-worklet.ts      its output ring    *)
(*                                                                         *)
(* One JavaScript thread: a step is a command, an engine event or the      *)
(* resolution of an awaited call, and runs up to the next await that can   *)
(* really wait.  What an async function does after an await is a task.     *)
(* The generation counters are kept as what they decide: ++loadingSeq and  *)
(* ++transportSeq take away the tasks that would find them changed.        *)
(*                                                                         *)
(* Every track is one unit of time long.  Crossfade is off (the default).  *)
(***************************************************************************)
EXTENDS QueueModel

CONSTANTS
  Kind,          \* the engine kind each item needs (resolveKind)
  RingUnits,     \* capacity of the output ring, in units
  Users,         \* the users of this instance, see UserTypes
  MaxRendered    \* bound: units heard without a new load or seek

(* A user knows some of the commands and some of the items, gives a        *)
(* bounded number of commands (the bound of an instance), waits for one to *)
(* settle or not, and may meet opens, preparations and starts that fail.   *)
UserTypes(u) ==
  /\ u.items \subseteq Items /\ u.commands \subseteq STRING /\ u.limit \in Nat
  /\ u.patient \in BOOLEAN /\ u.failures \in BOOLEAN

ASSUME PlayerAssumption ==
  /\ RingUnits \in Nat \ {0} /\ MaxRendered \in Nat
  /\ "none" \notin Items /\ \A i \in Items : Kind[i] # "none"
  /\ \A u \in Users : UserTypes(u)

VARIABLES
  player,        \* the player, its queue, its engine and its pending tasks
  user,          \* who uses it
  commands       \* how many commands the user has given

vars == <<player, user, commands>>

States == {"idle", "loading", "buffering", "playing", "paused", "ended", "error"}

(* The engine the player refers to: what it has open (current), opens      *)
(* (opening), has on standby and prepares for it (wanted); whether a seek  *)
(* or a promotion is in flight, and the standby that is to be promoted     *)
(* when its predecessor has closed (promoted); the decoder (left, eos,     *)
(* asked: a credit is out), the ring (buffered, rendered, primed, dry) and *)
(* the two switches (pumping, running, with the start or the suspension    *)
(* that is awaited).  Engines without a live listener are not heard.       *)
NoEngine ==
  [kind |-> "none", live |-> FALSE, closing |-> FALSE, ready |-> FALSE,
   configured |-> FALSE, current |-> "none", opening |-> "none",
   standby |-> "none", wanted |-> "none", seeking |-> FALSE,
   promoting |-> FALSE, promoted |-> "none", left |-> 0, eos |-> FALSE,
   asked |-> FALSE, buffered |-> 0, rendered |-> 0, primed |-> FALSE,
   dry |-> FALSE, drained |-> FALSE, pumping |-> FALSE, starting |-> FALSE,
   suspending |-> FALSE, running |-> FALSE]

(* state, current and within (more than three seconds into the track) are  *)
(* what the model store shows; the rest are the player's private fields.   *)

(* A pending continuation: the await it stands at, the item it is about,   *)
(* who called it, and whether its load and its engine are still the ones.  *)
Task(at, item, caller) ==
  [at |-> at, item |-> item, caller |-> caller, fresh |-> TRUE, here |-> TRUE]
Leaving == Task("leaving", "none", "eos")

Init ==
  /\ player = [queue |-> EmptyQueue, state |-> "idle", current |-> "none",
               within |-> FALSE, pauseIntent |-> FALSE, pendingEnded |-> FALSE,
               eosInFlight |-> FALSE, resetOffset |-> 0,
               engine |-> NoEngine, tasks |-> {}]
  /\ user \in Users /\ commands = 0

-----------------------------------------------------------------------------
(* The album clock: positions count units from the queue's first track.    *)

Offset(i) == IF i = 0 THEN 0 ELSE i - 1
Clock(p) == p.resetOffset + p.engine.rendered
IndexAt(p, pos) == IF pos < Len(p.queue.items) THEN pos + 1 ELSE Len(p.queue.items)

-----------------------------------------------------------------------------
(* The engine's methods, as far as they act before they wait.              *)

\* Mutant: the decoder is asked again when the ring is full.
PumpUnbounded(e) == IF /\ e.pumping /\ ~e.asked /\ ~e.seeking /\ e.opening = "none"
                       /\ e.current # "none"
                      THEN [e EXCEPT !.asked = TRUE] ELSE e

(* resumePumpingIfRequested: one credit at a time.                         *)
Pump(e) == IF /\ e.pumping /\ ~e.asked /\ ~e.seeking /\ e.opening = "none"
              /\ e.current # "none" /\ e.buffered < RingUnits
             THEN [e EXCEPT !.asked = TRUE] ELSE e
GateStart(p) == [p EXCEPT !.engine = IF @.kind = "none" THEN @
                                     ELSE Pump([@ EXCEPT !.pumping = TRUE])]
GateStop(p) == [p EXCEPT !.engine.pumping = FALSE]
EnginePlay(p) == [p EXCEPT !.engine.starting = (p.engine.kind # "none")]
(* ctx.suspend: the output runs on until it is answered (Suspended).       *)
EnginePause(p) == [p EXCEPT !.engine.suspending = p.engine.running,
                            !.engine.starting = FALSE]

\* Mutant: the decoder's one-shot end is not rearmed.
ResetKeepsEnd(e) == [e EXCEPT !.asked = FALSE, !.buffered = 0, !.rendered = 0,
                              !.primed = FALSE, !.dry = FALSE, !.drained = FALSE,
                              !.promoting = FALSE, !.promoted = "none"]

(* What a new generation drops: the ring, the credit and a promotion.      *)
Reset(e) == [e EXCEPT !.asked = FALSE, !.eos = FALSE, !.buffered = 0,
                      !.rendered = 0, !.primed = FALSE, !.dry = FALSE,
                      !.drained = FALSE, !.promoting = FALSE, !.promoted = "none"]
EngineOpen(e, item) ==
  [Reset(e) EXCEPT !.opening = item, !.current = "none", !.standby = "none",
                   !.wanted = "none", !.pumping = FALSE, !.left = 0, !.seeking = FALSE]
(* A seek supersedes an open in flight; with nothing open it does nothing. *)
EngineSeek(e) ==
  CASE e.opening # "none" -> [Reset(e) EXCEPT !.opening = "none"]
    [] e.opening = "none" /\ e.current = "none" -> e
    [] OTHER -> [Reset(e) EXCEPT !.left = 1, !.seeking = TRUE]
EngineClose(e) ==
  [Reset(e) EXCEPT !.live = FALSE, !.closing = TRUE, !.current = "none",
                   !.opening = "none", !.standby = "none", !.wanted = "none",
                   !.seeking = FALSE, !.pumping = FALSE, !.running = FALSE,
                   !.starting = FALSE, !.suspending = FALSE]
EnginePrepare(e, item) == [e EXCEPT !.wanted = item, !.standby = "none"]

-----------------------------------------------------------------------------
(* Generations.                                                            *)

LoadBound == {"initing", "opening", "preparing", "seeking", "restarting",
              "stopping", "primed", "advancing", "readying", "starting"}
TransportBound == {"resuming", "primed", "starting"}

(* The tasks that find a counter changed return at once; a boundary that   *)
(* returns still has its eosInFlight to clear.                             *)
Dropped(tasks, gone) ==
  (tasks \ gone) \cup {t \in {Leaving} : \E g \in gone : g.caller = "eos"}

\* Mutant: a load that was overtaken goes on.
SupersededLater(p) == p

(* ++loadingSeq                                                            *)
Superseded(p) ==
  [p EXCEPT !.tasks = {[t EXCEPT !.fresh = (@ /\ t.at # "closing")] :
                         t \in Dropped(@, {t \in @ : t.at \in LoadBound})}]
(* ++transportSeq                                                          *)
Transported(p) ==
  [p EXCEPT !.tasks = Dropped(@, {t \in @ : t.at \in TransportBound})]

Pending(p, at, item, caller) == [p EXCEPT !.tasks = @ \cup {Task(at, item, caller)}]
Resolved(p, t) == [p EXCEPT !.tasks = @ \ {t}]

(* A boundary handler that called something returns with it.               *)
Returned(p, caller) == IF caller = "eos" THEN [p EXCEPT !.eosInFlight = FALSE] ELSE p

(* play: it only waits while the output is suspended.  What its three      *)
(* callers (resume, primed, the boundary) do when it answers.              *)
Shown(p, t) ==
  LET shows == /\ t.here /\ ~p.pauseIntent
               /\ t.at = "primed" => p.state \in {"loading", "buffering"}
  IN  Returned(IF shows THEN [p EXCEPT !.state = "playing"] ELSE p, t.caller)
Started(p, at, item, caller) ==
  IF p.engine.running THEN Shown(p, Task(at, item, caller))
  ELSE Pending(EnginePlay(p), at, item, caller)

-----------------------------------------------------------------------------
(* load, from its synchronous start; the awaits that follow are tasks.     *)

Open(p, item, caller) ==
  Pending([p EXCEPT !.engine = EngineOpen(@, item)], "opening", item, caller)

(* The second half of ensureEngine: the new engine, and its init.          *)
Create(p, item) ==
  [p EXCEPT
    !.engine = [NoEngine EXCEPT !.kind = Kind[item], !.live = TRUE, !.running = TRUE],
    !.tasks = {[t EXCEPT !.here = FALSE] : t \in @}]

Load(p, caller) ==
  LET item == Current(p.queue)
      q    == [Transported(Superseded(p)) EXCEPT !.pendingEnded = FALSE, !.state = "loading"]
  IN  CASE item = "none" -> Returned(p, caller)
        [] item # "none" /\ p.engine.kind = "none" ->
             Pending(Create(q, item), "initing", item, caller)
        [] item # "none" /\ p.engine.kind \in {Kind[item]} \ {"none"} -> Open(q, item, caller)
        [] OTHER -> Pending([q EXCEPT !.engine = EngineClose(@)], "closing", item, caller)

\* Mutant: the failure is not shown.
FailedQuietly(p) == GateStop(p)

(* fail                                                                    *)
Failed(p) == [GateStop(p) EXCEPT !.state = "error"]

\* Mutant: a load that returns in a paused session starts the decoder.
StartAlways(p) == GateStart(p)

StartUnlessPaused(p) == IF p.pauseIntent THEN p ELSE GateStart(p)

(* A seek inside the open track: restartCurrentTrack, seek, and the second *)
(* seek of a seek that loaded.  Without an open track it is over at once.  *)
Restart(p) ==
  LET q == [p EXCEPT !.resetOffset = Offset(p.queue.index), !.within = FALSE,
                     !.state = IF p.pauseIntent THEN "paused" ELSE "buffering",
                     !.engine = EngineSeek(@)]
  IN  IF q.engine.seeking THEN Pending(q, "restarting", "none", "user")
      ELSE StartUnlessPaused(q)

(* The end of load, and its caller.                                        *)
Loaded(p, item, caller) ==
  LET q == StartUnlessPaused(p)
  IN  IF caller = "seek" /\ Current(p.queue) = item THEN Restart(q) ELSE Returned(q, caller)

\* Mutant: the album clock is not rebased.
PublishUnbased(p, item, caller) ==
  LET q == [p EXCEPT !.current = item, !.within = FALSE,
                     !.state = IF p.pauseIntent THEN "paused" ELSE "buffering",
                     !.engine = EngineSeek(@)]
  IN  IF q.engine.seeking THEN Pending(q, "seeking", item, caller)
      ELSE Loaded(q, item, caller)

(* The last part of load: the track is published and its start sought.     *)
Publish(p, item, caller) ==
  LET q == [p EXCEPT !.resetOffset = Offset(p.queue.index), !.current = item,
                     !.within = FALSE,
                     !.state = IF p.pauseIntent THEN "paused" ELSE "buffering",
                     !.engine = EngineSeek(@)]
  IN  IF q.engine.seeking THEN Pending(q, "seeking", item, caller)
      ELSE Loaded(q, item, caller)

(* After open: the policy's next track is prepared first, if there is one. *)
AfterOpen(p, item, caller) ==
  IF PreloadTarget(p.queue) = "none" THEN Publish(p, item, caller)
  ELSE Pending([p EXCEPT !.engine = EnginePrepare(@, PreloadTarget(p.queue))],
               "preparing", item, caller)

-----------------------------------------------------------------------------
(* tick: adopt a later track the clock has reached, end when all is heard. *)

\* Mutants: the clock does not stand down for a boundary, or for a load.
AdoptsInBoundary(p) ==
  /\ p.state = "playing" /\ ~p.pendingEnded
  /\ p.queue.items # <<>> /\ IndexAt(p, Clock(p)) > p.queue.index
AdoptsInLoad(p) ==
  /\ ~p.pendingEnded /\ ~p.eosInFlight
  /\ p.queue.items # <<>> /\ IndexAt(p, Clock(p)) > p.queue.index

Adopts(p) ==
  /\ p.state = "playing" /\ ~p.pendingEnded /\ ~p.eosInFlight
  /\ p.queue.items # <<>> /\ IndexAt(p, Clock(p)) > p.queue.index
\* Mutant: the end is off by one.
EndsLate(p) == p.pendingEnded /\ Clock(p) > Len(p.queue.items)
Ends(p) == p.pendingEnded /\ (Clock(p) >= Len(p.queue.items) \/ p.engine.drained)
Ticked(p) ==
  LET q == IF Adopts(p) THEN [p EXCEPT !.queue = MoveToQueue(@, p.queue.index + 1)] ELSE p
  IN  IF Ends(p)
        THEN [GateStop(EnginePause(q)) EXCEPT !.state = "ended", !.pendingEnded = FALSE]
        ELSE q

-----------------------------------------------------------------------------
(* onEos: the boundary between two tracks.                                 *)

(* The promoted track becomes the current one and plays on.                *)
Handed(p, item) ==
  LET q == [p EXCEPT !.current = item,
                     !.state = IF p.pauseIntent \/ @ = "paused" THEN "paused" ELSE "buffering"]
  IN  IF p.pauseIntent THEN Returned(q, "eos")
      ELSE Started(GateStart(q), "starting", item, "eos")

(* The outcomes of the boundary once the engine has answered.              *)
Boundary(p, expected, promoted) ==
  IF p.pauseIntent THEN {Returned(p, "eos")}
  ELSE IF p.queue.repeat = "one" THEN {Load(p, "eos")}
  ELSE {LET q == [p EXCEPT !.queue = l.queue] IN
        CASE l.item = "none" ->
               Returned(Ticked(GateStop([q EXCEPT !.pendingEnded = TRUE])), "eos")
          [] l.item # "none" /\ ~(promoted /\ l.item = expected) -> Load(q, "eos")
          [] l.item # "none" /\ promoted /\ l.item = expected ->
               IF PreloadTarget(l.queue) = "none" THEN Handed(q, l.item)
               ELSE Pending([q EXCEPT !.engine = EnginePrepare(@, PreloadTarget(l.queue))],
                            "readying", l.item, "eos")
        : l \in NextLandings(p.queue)}

(* advance refuses at once unless the standby is the expected item.        *)
Eos(p) ==
  LET q        == [p EXCEPT !.eosInFlight = TRUE]
      expected == PreloadTarget(p.queue)
  IN  IF p.pauseIntent THEN {Returned(q, "eos")}
      ELSE IF expected # "none" /\ p.engine.standby = expected
        THEN {Pending([q EXCEPT !.engine.promoting = TRUE], "advancing", expected, "eos")}
        ELSE Boundary(q, expected, FALSE)

-----------------------------------------------------------------------------
(* The user's commands.                                                    *)

(* What was commanded has been answered, and so has the output (pause).    *)
Idle == player.tasks = {} /\ ~player.engine.suspending
Command(c) ==
  /\ c \in user.commands /\ commands < user.limit /\ (user.patient => Idle)
  /\ commands' = commands + 1 /\ UNCHANGED user

Asked(p) == [p EXCEPT !.pauseIntent = FALSE, !.state = "loading"]

PlaySequence ==
  /\ Command("play")
  /\ \E S \in SUBSET user.items : S # {} /\ \E s \in SetToSeqs(S), i \in 1..Cardinality(S) :
       \E q \in PlaySequenceQueues(player.queue, s, i) :
         player' = Load([Asked(player) EXCEPT !.queue = q], "user")

PlayQueueIndex ==
  /\ Command("index")
  /\ \E i \in Positions(player.queue) \ {player.queue.index} :
       player' = Load([Asked(player) EXCEPT !.queue = MoveToQueue(@, i)], "user")

(* next and previous: the counter moves even when there is nowhere to go.  *)
Landed(p, l) == LET q == [Superseded(p) EXCEPT !.queue = l.queue]
                IN  IF l.item = "none" THEN q ELSE Load(q, "user")
NextTrack ==
  /\ Command("next")
  /\ \E l \in NextLandings(player.queue) : player' = Landed(player, l)
PreviousTrack ==
  /\ Command("previous")
  /\ ~(player.current # "none" /\ player.within)
  /\ player' = Landed(player, PreviousLanding(player.queue))
RestartTrack ==
  /\ Command("previous")
  /\ player.current # "none" /\ player.within /\ player.engine.kind # "none"
  /\ player' = Restart(Superseded(Transported(player)))

Paused(p) == EnginePause(GateStop(
               [Transported(p) EXCEPT !.pauseIntent = TRUE, !.state = "paused"]))
Pause == Command("pause") /\ player.state # "playing" /\ player' = Paused(player)

(* togglePlay: pause, resume, or load again.                               *)
Resumed(p) ==
  Started(GateStart([Transported(p) EXCEPT !.pauseIntent = FALSE]),
          "resuming", "none", "user")
TogglePlay ==
  /\ Command("toggle")
  /\ \/ player.state = "playing" /\ player' = Paused(player)
     \/ /\ player.state \in {"paused", "loading", "buffering"}
        /\ player.engine.kind # "none" /\ player' = Resumed(player)
     \/ /\ player.state \in {"ended", "idle", "error"} /\ player.current # "none"
        /\ player' = Load([player EXCEPT !.pauseIntent = FALSE], "user")

(* seek: inside the track under the cursor, or into another one.           *)
Seek ==
  /\ Command("seek") /\ player.engine.kind # "none" /\ player.current # "none"
  /\ LET p == Superseded(Transported(player)) IN
     \E i \in Positions(player.queue) :
       player' = IF i = player.queue.index THEN Restart(p)
                 ELSE Load([p EXCEPT !.queue = MoveToQueue(@, i)], "seek")

(* teardown: its second half waits for the engine to close.                *)
Teardown ==
  /\ Command("teardown") /\ player.engine.kind # "none"
  /\ player' = Pending(GateStop([Superseded(Transported(player)) EXCEPT
                 !.pauseIntent = FALSE, !.pendingEnded = FALSE, !.resetOffset = 0,
                 !.engine = EngineClose(@)]), "tearing", "none", "user")

(* The queue panel edits the queue itself; the subscription reacts.        *)
Stopped(p) ==
  Pending(EnginePause(GateStop([Superseded(Transported(p)) EXCEPT
    !.pauseIntent = TRUE, !.pendingEnded = FALSE, !.state = "idle", !.within = FALSE])),
    "stopping", "none", "user")
Noticed(p) ==
  CASE Current(p.queue) = "none" /\ p.state \notin {"idle", "error"} -> Stopped(p)
    [] /\ Current(p.queue) # "none" /\ p.current # "none"
       /\ Current(p.queue) # p.current /\ p.state # "loading" -> Load(p, "user")
    [] OTHER -> p
Edit(queues) == \E q \in queues : player' = Noticed([player EXCEPT !.queue = q])

RemoveItem == /\ Command("remove")
              /\ \E i \in Positions(player.queue) : Edit(RemoveAtQueues(player.queue, i))
ClearAll == Command("clear") /\ Edit({ClearQueue(player.queue)})
Enqueue ==
  /\ Command("enqueue")
  /\ \E item \in {i \in user.items : \A k \in Positions(player.queue) : player.queue.items[k] # i} :
       Edit(EnqueueQueues(player.queue, <<item>>))

(* Policy does not touch the list: nobody is notified.                     *)
SetRepeat == /\ Command("repeat")
             /\ \E mode \in RepeatMode \ {player.queue.repeat} :
                  player' = [player EXCEPT !.queue = SetRepeatQueue(@, mode)]
SetShuffle ==
  /\ Command("shuffle")
  /\ \E q \in SetShuffleQueues(player.queue, ~player.queue.shuffling) :
       player' = [player EXCEPT !.queue = q, !.resetOffset = Offset(q.index)]

UserAction ==
  \/ PlaySequence \/ PlayQueueIndex \/ NextTrack \/ PreviousTrack \/ RestartTrack
  \/ Pause \/ TogglePlay \/ Seek \/ Teardown \/ SetRepeat \/ SetShuffle
  \/ RemoveItem \/ ClearAll \/ Enqueue

-----------------------------------------------------------------------------
(* Continuations: an awaited call answers.                                 *)

Step == UNCHANGED <<user, commands>>
Fresh(at) == {t \in player.tasks : t.at = at /\ t.fresh}
Leavers == {t \in player.tasks : t.at = "leaving"}

(* ensureEngine: the old engine has closed; whoever waited makes a new one. *)
Closed ==
  /\ Step
  /\ \E t \in player.tasks :
       /\ t.at = "closing"
       /\ LET p == Create(Resolved(player, t), t.item)
          IN  player' = IF t.fresh THEN Pending(p, "initing", t.item, t.caller)
                        ELSE Returned(p, t.caller)

(* init: the output graph stands; its load goes on to open.                *)
Initialised ==
  /\ Step /\ player.engine.kind # "none" /\ ~player.engine.ready
  /\ ~player.engine.closing
  /\ LET p == [player EXCEPT !.engine.ready = TRUE]
          mine == {t \in Fresh("initing") : t.here}
     IN  IF mine = {} THEN player' = p
         ELSE \E t \in mine : player' = Open(Resolved(p, t), t.item, t.caller)

(* open: the decoder is ready.  The output is configured if its graph      *)
(* stands.  A load that was superseded leaves the track open.  What a      *)
(* reset dropped has returned long before a decoder answers.               *)
Opened ==
  /\ Step /\ player.engine.opening # "none" /\ Leavers = {}
  /\ LET e == player.engine
         p == [player EXCEPT !.engine = [@ EXCEPT
                !.current = e.opening, !.opening = "none", !.left = 1,
                !.configured = (@ \/ e.ready)]]
         mine == {t \in Fresh("opening") : t.here}
     IN  IF mine = {} THEN player' = p
         ELSE \E t \in mine : player' = AfterOpen(Resolved(p, t), t.item, t.caller)

(* open fails: the player shows the error.                                 *)
OpenFails ==
  /\ Step /\ user.failures /\ player.engine.opening # "none"
  /\ LET p == [player EXCEPT !.engine.opening = "none"]
         mine == {t \in Fresh("opening") : t.here}
     IN  IF mine = {} THEN player' = p
         ELSE \E t \in mine : player' = Returned(Failed(Resolved(p, t)), t.caller)

(* A call answers on an engine the player has given up: load goes on with  *)
(* the one there is now, and fails when there is none.                     *)
Elsewhere ==
  /\ Step
  /\ \E t \in player.tasks :
       /\ t.fresh /\ ~t.here
       /\ LET p == Resolved(player, t)
              q == CASE t.at = "opening"    -> AfterOpen(p, t.item, t.caller)
                     [] t.at = "preparing"  -> Publish(p, t.item, t.caller)
                     [] t.at = "seeking"    -> Loaded(p, t.item, t.caller)
                     [] t.at = "restarting" -> StartUnlessPaused(p)
          IN  /\ t.at \in {"opening", "preparing", "seeking", "restarting"}
              /\ player' = IF p.engine.kind = "none" /\ t.at \in {"opening", "preparing"}
                             THEN Returned(Failed(p), t.caller) ELSE q

(* prepareNext: the standby is open, or could not be.                      *)
Prepared ==
  /\ Step /\ player.engine.wanted # "none"
  /\ \E ok \in {TRUE, ~user.failures} :
      LET p == [player EXCEPT !.engine = [@ EXCEPT
                 !.standby = IF ok THEN player.engine.wanted ELSE "none", !.wanted = "none"]]
          mine == Fresh("preparing") \cup Fresh("readying")
      IN  IF mine = {} THEN player' = p
          ELSE \E t \in mine :
                 player' = IF t.at = "preparing"
                             THEN Publish(Resolved(p, t), t.item, t.caller)
                             ELSE Handed(Resolved(p, t), t.item)

(* seekSample: the decoder stands at the sample.                           *)
Sought ==
  /\ Step /\ player.engine.seeking /\ Leavers = {}
  /\ LET p == [player EXCEPT !.engine = Pump([@ EXCEPT !.seeking = FALSE])]
         mine == Fresh("seeking") \cup Fresh("restarting")
     IN  IF mine = {} THEN player' = p
         ELSE \E t \in mine :
                player' = IF t.at = "seeking" THEN Loaded(Resolved(p, t), t.item, t.caller)
                          ELSE StartUnlessPaused(Resolved(p, t))

(* advance: the ring took the end of the old track, whose worker closes.   *)
Finished ==
  /\ Step /\ player.engine.promoting
  /\ player' = [player EXCEPT !.engine = [@ EXCEPT
       !.promoting = FALSE, !.promoted = player.engine.standby, !.standby = "none",
       !.current = "none"]]

(* The old worker has closed; the standby is in.                           *)
Promoted ==
  /\ Step /\ player.engine.promoted # "none"
  /\ LET p == [player EXCEPT !.engine = [@ EXCEPT
                !.promoted = "none", !.current = player.engine.promoted,
                !.left = 1, !.eos = FALSE, !.asked = FALSE]]
     IN  IF Fresh("advancing") = {} THEN player' = p
         ELSE \E t \in Fresh("advancing") :
                player' \in Boundary(Resolved(p, t), t.item, TRUE)

(* play answers: resume, primed and the handoff show "playing".            *)
Played ==
  /\ Step
  /\ \E t \in player.tasks :
       /\ t.at \in {"resuming", "primed", "starting"}
       /\ LET starts == t.here /\ player.engine.starting
          IN  player' = Shown([Resolved(player, t) EXCEPT
                !.engine.running = @ \/ starts, !.engine.starting = @ /\ ~starts], t)

(* play is refused: only the handoff shows it.                             *)
PlayRefused ==
  /\ Step /\ user.failures
  /\ \E t \in player.tasks :
       /\ t.at \in {"resuming", "primed", "starting"}
       /\ LET p == [Returned(Resolved(player, t), t.caller) EXCEPT
                      !.engine.starting = @ /\ ~t.here]
          IN  player' = IF t.at = "starting" /\ t.here THEN [p EXCEPT !.state = "paused"] ELSE p

(* pause: the output has stopped, whatever was asked of it since.          *)
Suspended ==
  /\ Step /\ player.engine.suspending
  /\ player' = [player EXCEPT !.engine.suspending = FALSE, !.engine.running = FALSE]

(* stop: the clock is held; the track goes back to its start.              *)
Halted ==
  /\ Step /\ ~player.engine.suspending
  /\ \E t \in Fresh("stopping") :
       LET p == Resolved(player, t)
       IN  player' = IF t.here /\ p.engine.kind # "none"
                       THEN [p EXCEPT !.engine = EngineSeek(@)] ELSE p

(* teardown: whatever engine there is now is given up.                     *)
TornDown ==
  /\ Step
  /\ \E t \in player.tasks :
       /\ t.at = "tearing"
       /\ player' = [Resolved(player, t) EXCEPT
            !.engine = NoEngine, !.state = "idle", !.current = "none", !.within = FALSE,
            !.tasks = {[other EXCEPT !.here = FALSE] : other \in @}]

(* A superseded boundary returns.                                          *)
Leave ==
  /\ Step
  /\ \E t \in Leavers : player' = [Resolved(player, t) EXCEPT !.eosInFlight = FALSE]

-----------------------------------------------------------------------------
(* Engine events.                                                          *)

Live == player.engine.live
Ring(change) == [player EXCEPT !.engine = Pump(change)]
(* The output runs, and whoever waited for that knows.                     *)
Running == /\ player.engine.running
           /\ \A t \in player.tasks : ~(t.here /\ t.at \in TransportBound)

(* A credited chunk reaches the ring; without an output it is swallowed.   *)
Decode ==
  /\ Step /\ player.engine.asked /\ player.engine.left > 0 /\ player.engine.configured
  /\ player' = Ring([player.engine EXCEPT !.left = @ - 1, !.buffered = @ + 1, !.asked = FALSE])

(* The decoder answers a credit with its one end of stream.                *)
DecodeEos ==
  /\ Step /\ player.engine.asked /\ player.engine.left = 0 /\ ~player.engine.eos
  /\ player.engine.configured
  /\ LET p == [player EXCEPT !.engine.eos = TRUE, !.engine.asked = FALSE]
     IN  IF Live THEN player' \in Eos(p) ELSE player' = p

(* The output clock plays a unit, or runs dry.  A decoder at its end says  *)
(* so before the unit it gave last is heard: the credit is out by then.    *)
Render ==
  /\ Step /\ Running /\ player.engine.buffered > 0
  /\ player.engine.rendered < MaxRendered
  /\ ~(player.engine.buffered = 1 /\ player.engine.asked
       /\ player.engine.left = 0 /\ ~player.engine.eos)
  /\ player' = Ring([player.engine EXCEPT !.buffered = @ - 1, !.rendered = @ + 1, !.dry = FALSE])

Underrun ==
  /\ Step /\ Running /\ player.engine.configured
  /\ player.engine.buffered = 0 /\ ~player.engine.dry
  /\ LET p == Ring([player.engine EXCEPT !.dry = TRUE, !.primed = FALSE, !.asked = FALSE,
                     !.drained = @ \/ (player.engine.eos /\ player.engine.current # "none")])
     IN  player' = IF Live /\ p.state \in {"loading", "buffering", "playing"}
                     THEN [p EXCEPT !.state = "buffering"] ELSE p

(* primed: enough is buffered; onPrimed starts the clock.                  *)
Primed ==
  /\ Step /\ player.engine.buffered > 0 /\ ~player.engine.primed
  /\ LET p == [player EXCEPT !.engine.primed = TRUE, !.engine.drained = FALSE]
     IN  player' = IF Live /\ p.state \in {"loading", "buffering"}
                     THEN Started(p, "primed", "none", "user") ELSE p

(* The worklet reports the position while its clock runs.                  *)
Tick ==
  /\ Step /\ Live /\ Running /\ player.engine.configured
  /\ \E far \in BOOLEAN :
       /\ far => player.engine.buffered > 0
       /\ player' = [Ticked(player) EXCEPT !.within = far]

Continue ==
  \/ Closed \/ Initialised \/ Opened \/ Elsewhere \/ Prepared \/ Sought
  \/ Finished \/ Promoted \/ Played \/ Suspended \/ Halted \/ TornDown \/ Leave
EngineEvent == Decode \/ DecodeEos \/ Render \/ Underrun \/ Primed \/ Tick

Next == UserAction \/ Continue \/ OpenFails \/ PlayRefused \/ EngineEvent

Spec == Init /\ [][Next]_vars

(* Every await is answered and the audio thread goes on; nobody owes us a  *)
(* command or a failure.                                                   *)
Fairness ==
  /\ WF_vars(Closed) /\ WF_vars(Initialised) /\ WF_vars(Opened) /\ WF_vars(Elsewhere)
  /\ WF_vars(Prepared) /\ WF_vars(Sought) /\ WF_vars(Finished) /\ WF_vars(Promoted)
  /\ WF_vars(Played) /\ WF_vars(Suspended) /\ WF_vars(Halted) /\ WF_vars(TornDown) /\ WF_vars(Leave)
  /\ WF_vars(Decode) /\ WF_vars(DecodeEos) /\ WF_vars(Render) /\ WF_vars(Underrun)
  /\ WF_vars(Primed) /\ WF_vars(Tick)
FairSpec == Spec /\ Fairness

-----------------------------------------------------------------------------
(* Properties.                                                             *)

TaskPoints == LoadBound \cup TransportBound \cup {"closing", "tearing", "leaving"}

(* The shapes of the fields; the ring never holds more than its capacity   *)
(* and the cursor is on an item or nowhere.                                *)
TypeOK ==
  /\ player.queue.items \in Seq(Items) /\ player.queue.index \in 0..Len(player.queue.items)
  /\ player.state \in States /\ player.current \in Items \cup {"none"}
  /\ player.resetOffset \in 0..Cardinality(Items)
  /\ \A f \in {"pauseIntent", "pendingEnded", "eosInFlight", "within"} : player[f] \in BOOLEAN
  /\ player.engine.buffered \in 0..RingUnits /\ player.engine.left \in 0..1
  /\ player.engine.rendered \in 0..MaxRendered
  /\ \A f \in {"current", "opening", "standby", "wanted", "promoted"} : player.engine[f] \in Items \cup {"none"}
  /\ \A t \in player.tasks : t.at \in TaskPoints

(* Nothing the player started is still unanswered.                         *)
Settled == /\ player.tasks = {} /\ player.engine.opening = "none"
           /\ player.engine.wanted = "none" /\ ~player.engine.seeking
           /\ ~player.engine.promoting /\ player.engine.promoted = "none"
Sounding == player.state \in {"playing", "buffering"}

(* Whenever nothing is in flight, the track under the queue's cursor, the  *)
(* track that is shown and the track the decoder feeds are one: no order   *)
(* of commands, handoffs, clock reports and decoder events drives them     *)
(* apart (load, runEosBoundary and tick all move one of them).             *)
Careful == user.patient /\ ~user.failures
ShowsWhatPlays ==
  Careful /\ Settled /\ Sounding =>
    player.current = Current(player.queue) /\ player.engine.current = player.current

(* controller.test.ts: "discards a superseded album load when another      *)
(* playAlbum replaces it mid-open": once all is answered, the decoder has  *)
(* open what the last command selected.                                    *)
NewestCommandWins ==
  Settled /\ Sounding => player.engine.current = Current(player.queue)

(* A pause is silent, whatever it overtook: no handoff, load or seek that  *)
(* comes back later starts the decoder, and an output that runs and is not *)
(* being suspended (the one of an engine made during the pause) has        *)
(* nothing to play, nor will have.                                         *)
PauseIsSilent ==
  player.pauseIntent =>
    /\ ~player.engine.pumping
    /\ player.engine.running /\ ~player.engine.suspending =>
         player.engine.buffered = 0 /\ ~player.engine.asked

(* "loading" is never the last word: a load ends in another state.         *)
LoadingSettles == Settled => player.state # "loading"

(* A decoder speaks of its end once.  While the player sounds, an end that *)
(* was announced has had its boundary: the next track or the queue's end.  *)
EndIsHandled ==
  Careful /\ Settled /\ Sounding /\ player.engine.eos => player.pendingEnded

(* The cursor moves without a command only from a track the decoder had    *)
(* and has finished, and to the position the policy names: no boundary is  *)
(* crossed twice, by the handoff and by the clock.                         *)
NaturalAdvance ==
  [][UNCHANGED commands /\ player'.queue.index # player.queue.index =>
       /\ player.engine.current \in {Current(player.queue), "none"} /\ player.engine.left = 0
       /\ player'.queue.index = PreloadPosition(player.queue)]_vars

(* player.ts, tick: while a navigation holds a load open the clock adopts  *)
(* no track ("adopting there bounced backward skips forward").             *)
NoAdoptionDuringLoad ==
  [][UNCHANGED commands /\ Fresh("opening") # {} => player'.queue.index = player.queue.index]_vars

(* When the user leaves it alone, a player without repeat falls silent:    *)
(* every track is opened, heard and followed by the next until the end,    *)
(* also when opening or preparing fails.  An output the browser refuses to *)
(* start waits for the user.                                               *)
Rests == player.state \in {"idle", "paused", "ended", "error"}
Refused == ~player.engine.running /\ ~player.engine.starting
ComesToRest == user.patient /\ "repeat" \notin user.commands => <>[](Rests \/ Refused)

(* web/README.md: repeat "all (wraps to the first track)": after the wrap  *)
(* the cursor, the display and the decoder are on one track.               *)
WrapPlaysTheFirst == player.queue.repeat = "all" => ShowsWhatPlays

(* player.ts, setShuffle: "Timeline rebases on the NEXT load/handoff".     *)
HandoffRebases == player.queue.shuffling => ShowsWhatPlays

(* player.ts: "React to queue changes made OUTSIDE the player (e.g. the    *)
(* queue panel removing the current item, or clearing the queue)".         *)
EditsAreFollowed == Settled /\ Sounding => player.current = Current(player.queue)
=============================================================================
