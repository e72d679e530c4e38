------------------------------ MODULE PlayQueue ------------------------------
(***************************************************************************)
(* The play queue under every sequence of user edits, navigation and       *)
(* policy changes: one action per method of createQueueModel               *)
(* (src/web/player-core/src/queue.ts), each from the user or the player.   *)
(***************************************************************************)
EXTENDS QueueModel

VARIABLE queue   \* the state of the queue model

vars == queue

Init == queue = EmptyQueue

Held == {queue.items[i] : i \in Positions(queue)}
Fresh == Items \ Held

-----------------------------------------------------------------------------
SetRepeat == \E mode \in RepeatMode : queue' = SetRepeatQueue(queue, mode)

SetShuffle == \E on \in BOOLEAN : queue' \in SetShuffleQueues(queue, on)

PlaySequence ==
  \E S \in SUBSET Items : S # {} /\ \E s \in SetToSeqs(S), start \in 1..Cardinality(S) :
    queue' \in PlaySequenceQueues(queue, s, start)

PlayNext == \E item \in Fresh : queue' \in PlayNextQueues(queue, item)

Enqueue ==
  \E S \in SUBSET Fresh : S # {} /\ \E s \in SetToSeqs(S) :
    queue' \in EnqueueQueues(queue, s)

Advance == \E l \in NextLandings(queue) : queue' = l.queue

Back == queue' = PreviousLanding(queue).queue

MoveTo == \E i \in Positions(queue) : queue' = MoveToQueue(queue, i)

Move == \E from, to \in Positions(queue) :
          from # to /\ queue' \in MoveQueues(queue, from, to)

RemoveItem == \E i \in Positions(queue) : queue' \in RemoveAtQueues(queue, i)

Clear == queue' = ClearQueue(queue)

Next == \/ SetRepeat \/ SetShuffle \/ PlaySequence \/ PlayNext \/ Enqueue
        \/ Advance \/ Back \/ MoveTo \/ Move \/ RemoveItem \/ Clear

Spec == Init /\ [][Next]_vars

-----------------------------------------------------------------------------
(* Properties.                                                             *)

(* The cursor is on an item or nowhere, and every history entry is a       *)
(* position, so no edit can make the player address an item that is gone.  *)
TypeOK ==
  /\ queue.items \in Seq(Items)
  /\ queue.index \in 0..Len(queue.items)
  /\ queue.repeat \in RepeatMode /\ queue.shuffling \in BOOLEAN
  /\ queue.history \in Seq(Positions(queue)) /\ Len(queue.history) <= HistoryLimit
  /\ queue.order \in Seq(Positions(queue))

(* While shuffling, the presentation order visits every position exactly   *)
(* once after every edit; otherwise there is none (rebuildOrder).          *)
OrderVisitsAll ==
  IF queue.shuffling
    THEN /\ Len(queue.order) = Len(queue.items)
         /\ \A i, j \in DOMAIN queue.order :
              queue.order[i] = queue.order[j] => i = j
    ELSE queue.order = <<>>

(* An edit of the list leaves the cursor on the item it was on, unless     *)
(* that item goes or a new sequence is installed: no reorder and no        *)
(* insertion changes what is playing.                                      *)
CursorKeepsItem ==
  [][queue'.items # queue.items /\ Current(queue) \in Held' =>
       Current(queue') = Current(queue) \/ PlaySequence]_vars

(* The items the history names, and the history after a reorder or a       *)
(* removal names the same ones, less the removed one.                      *)
ItemAt(q, i) == IF i \in Positions(q) THEN q.items[i] ELSE "none"
Named(q) == [k \in DOMAIN q.history |-> ItemAt(q, q.history[k])]
StillNamed == SelectSeq(Named(queue), LAMBDA item : item \in Held')
HistorySurvivesMoves ==
  [][queue'.items # queue.items /\ Held' \subseteq Held /\ queue'.history # <<>> =>
       Named(queue') = StillNamed]_vars

(* Going back after an advance returns to where it started, in every       *)
(* policy and however full the history is.                                 *)
BackUndoesAdvance ==
  \A l \in NextLandings(queue) :
    queue.index # 0 /\ l.queue.index # queue.index =>
      PreviousLanding(l.queue).queue.index = queue.index

(* The item the player opens ahead of a boundary is the one the queue then *)
(* advances to, whatever the policy; the wrap of a shuffled pass is the    *)
(* exception (ShuffledWrap).                                               *)
ShuffledWrap == queue.shuffling /\ queue.repeat = "all" /\ ShuffledNext(queue) = 0
PreloadAgrees == \A l \in NextLandings(queue) : l.item = PreloadTarget(queue)
PreloadIsWhatFollows == ShuffledWrap \/ PreloadAgrees

(* web/README.md: "the Previous button retraces actual navigation history" *)
(* -- whatever was inserted or appended since.                             *)
HistorySurvivesEdits ==
  [][queue'.items # queue.items /\ queue'.history # <<>> =>
       Named(queue') = StillNamed]_vars

(* web/README.md: "The repeat-all wrap preloads the wrap target into the   *)
(* standby decoder, so the boundary stays gapless".                        *)
WrapIsPreloaded == queue.repeat = "all" /\ queue.index # 0 => PreloadAgrees
=============================================================================
