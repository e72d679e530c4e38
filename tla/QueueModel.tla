------------------------------ MODULE QueueModel ------------------------------
(***************************************************************************)
(* The operations of the player's queue, as operators on its state:        *)
(*                                                                         *)
(*   src/web/player-core/src/queue.ts    createQueueModel                  *)
(*   src/web/player-core/src/order.ts    nextIndexUnderRepeat              *)
(*   src/web/player-core/src/player.ts   peekPreloadTarget                 *)
(*                                                                         *)
(* A queue is a canonical list of items with a cursor; repeat and shuffle  *)
(* are policy over it.  Positions count from 1 here and 0 is the code's    *)
(* index -1 (no current item).  An operation that shuffles is a set of     *)
(* outcomes: any permutation the random source can produce.                *)
(***************************************************************************)
EXTENDS Naturals, Sequences, FiniteSets, SequencesExt

CONSTANTS
  Items,         \* queue entries; two entries of one track are two items
  HistoryLimit   \* the bound on the history stack (500)

ASSUME ItemsAssumption == IsFiniteSet(Items)
ASSUME HistoryAssumption == HistoryLimit \in Nat \ {0}

RepeatMode == {"off", "one", "all"}

EmptyQueue == [items |-> <<>>, index |-> 0, order |-> <<>>, history |-> <<>>,
               repeat |-> "off", shuffling |-> FALSE]

Positions(q) == DOMAIN q.items
Current(q) == IF q.index \in Positions(q) THEN q.items[q.index] ELSE "none"

-----------------------------------------------------------------------------
(* rebuildOrder: the current item stays first, the rest in any order.      *)
IsOrder(q, o) ==
  IF ~q.shuffling THEN o = <<>>
  ELSE /\ o \in [Positions(q) -> Positions(q)]
       /\ \A i, j \in Positions(q) : o[i] = o[j] => i = j
       /\ q.index # 0 /\ q.items # <<>> => o[1] = q.index
Orders(q) == {o \in [Positions(q) -> Positions(q)] \cup {<<>>} : IsOrder(q, o)}
Rebuilt(q) == {[q EXCEPT !.order = o] : o \in Orders(q)}

(* The position of the cursor in the presentation order, 0 when it is not  *)
(* there, and the position that follows it there (0: the pass is over).    *)
InOrder(q) == IF \E k \in DOMAIN q.order : q.order[k] = q.index
                THEN CHOOSE k \in DOMAIN q.order : q.order[k] = q.index
                ELSE 0
ShuffledNext(q) == IF InOrder(q) \in 1..(Len(q.order) - 1)
                     THEN q.order[InOrder(q) + 1] ELSE 0

(* nextIndexUnderRepeat                                                    *)
NextUnderRepeat(q) ==
  CASE q.index < Len(q.items) -> q.index + 1
    [] q.index >= Len(q.items) /\ q.repeat = "all" /\ q.items # <<>> -> 1
    [] OTHER -> 0

-----------------------------------------------------------------------------
(* Navigation.                                                             *)

\* Mutant: the stack is cut at its young end.
PushedOldest(q) ==
  LET h == IF q.index = 0 THEN q.history ELSE Append(q.history, q.index)
  IN  SubSeq(h, 1, IF Len(h) > HistoryLimit THEN HistoryLimit ELSE Len(h))

(* pushHistory; a full stack loses its oldest entry.                       *)
Pushed(q) ==
  LET h == IF q.index = 0 THEN q.history ELSE Append(q.history, q.index)
  IN  SubSeq(h, 1 + (IF Len(h) > HistoryLimit THEN Len(h) - HistoryLimit ELSE 0), Len(h))

(* What a navigation leaves and returns: the cursor moves to position i    *)
(* and its item is returned; 0 is nowhere, and null.                       *)
Landing(q, i) == [queue |-> IF i = 0 THEN q ELSE [q EXCEPT !.index = i],
                  item  |-> IF i = 0 THEN "none" ELSE q.items[i]]

(* next: the outcomes of advancing.  The cursor is pushed on the history   *)
(* even when there is nowhere to go; the end of a shuffled pass reshuffles *)
(* under repeat-all and continues with the head of the new order.          *)
NextLandings(q) ==
  IF q.items = <<>> THEN {Landing(q, 0)}
  ELSE LET p == [q EXCEPT !.history = Pushed(q)] IN
       IF ~q.shuffling THEN {Landing(p, NextUnderRepeat(q))}
       ELSE IF ShuffledNext(q) = 0 /\ q.repeat = "all"
         THEN {Landing(r, r.order[1]) : r \in Rebuilt(p)}
         ELSE {Landing(p, ShuffledNext(q))}

(* previous: the latest history entry that is another position in range;   *)
(* without one, the position before the cursor in the order that is shown. *)
Retraceable(q) == {k \in DOMAIN q.history :
                     q.history[k] \in Positions(q) /\ q.history[k] # q.index}
Before(q) ==
  IF ~q.shuffling THEN (IF q.index > 1 THEN q.index - 1 ELSE 0)
  ELSE IF InOrder(q) > 1 THEN q.order[InOrder(q) - 1] ELSE 0
Latest(q) == {k \in Retraceable(q) : \A j \in Retraceable(q) : j <= k}
PreviousLanding(q) ==
  IF q.items = <<>> THEN Landing(q, 0)
  ELSE IF Latest(q) = {} THEN Landing([q EXCEPT !.history = <<>>], Before(q))
  ELSE LET k == CHOOSE k \in Latest(q) : TRUE
       IN  Landing([q EXCEPT !.history = SubSeq(@, 1, k - 1)], q.history[k])

(* moveTo                                                                  *)
MoveToQueue(q, i) == [q EXCEPT !.index = i]

\* Mutant: the shuffled order is not consulted.
PreloadCanonical(q) == NextUnderRepeat(q)

(* peekPreloadTarget, of player.ts: the position whose item the player     *)
(* opens ahead of the boundary, 0 when nothing follows.                    *)
PreloadPosition(q) ==
  IF ~q.shuffling THEN NextUnderRepeat(q)
  ELSE IF ShuffledNext(q) # 0 THEN ShuffledNext(q)
  ELSE IF q.repeat = "all" /\ q.order # <<>> THEN q.order[1] ELSE 0
PreloadTarget(q) ==
  IF PreloadPosition(q) = 0 THEN "none" ELSE q.items[PreloadPosition(q)]

-----------------------------------------------------------------------------
(* Policy and edits.                                                       *)

SetRepeatQueue(q, mode) == [q EXCEPT !.repeat = mode]

SetShuffleQueues(q, on) ==
  IF q.shuffling = on THEN {q}
  ELSE Rebuilt([q EXCEPT !.shuffling = on, !.history = <<>>])

(* playSequence and playNow                                                *)
PlaySequenceQueues(q, items, start) ==
  Rebuilt([q EXCEPT !.items = items, !.index = start, !.history = <<>>])

(* playNext: the history keeps its positions.                              *)
PlayNextQueues(q, item) ==
  IF q.items = <<>> THEN Rebuilt([q EXCEPT !.items = <<item>>, !.index = 1])
  ELSE Rebuilt([q EXCEPT !.items = InsertAt(@, q.index + 1, item)])

(* enqueue, enqueueMany: an empty queue keeps its cursor before the list.  *)
\* Mutant: the presentation order is not rebuilt.
EnqueueUnordered(q, items) == {[q EXCEPT !.items = @ \o items]}
EnqueueQueues(q, items) == Rebuilt([q EXCEPT !.items = @ \o items])

\* Mutant: an item that moves down drags the wrong neighbours along.
RemapUp(from, to, i) ==
  CASE i = from -> to
    [] from < to /\ i > from /\ i < to -> i - 1
    [] from > to /\ i >= to /\ i < from -> i + 1
    [] OTHER -> i

(* move: the cursor and the history follow their items.                    *)
Remap(from, to, i) ==
  CASE i = from -> to
    [] from < to /\ i > from /\ i <= to -> i - 1
    [] from > to /\ i >= to /\ i < from -> i + 1
    [] OTHER -> i
MoveQueues(q, from, to) ==
  Rebuilt([q EXCEPT
    !.items = InsertAt(RemoveAt(@, from), to, q.items[from]),
    !.index = Remap(from, to, @),
    !.history = [k \in DOMAIN @ |-> Remap(from, to, @[k])]])

\* Mutants: the last item leaves the cursor behind; the history is filtered
\* and not renumbered.
CursorLeftBehind(q, i) == IF i < q.index THEN q.index - 1 ELSE q.index
HistoryNotRenumbered(q, i) == SelectSeq(q.history, LAMBDA h : h # i)

(* removeAt: the cursor stays on its item; when that one goes, it stays on *)
(* the position, or the last one.                                          *)
CursorAfterRemoval(q, i) ==
  CASE i < q.index -> q.index - 1
    [] i = q.index /\ i = Len(q.items) -> i - 1
    [] OTHER -> q.index
HistoryAfterRemoval(q, i) ==
  LET kept == SelectSeq(q.history, LAMBDA h : h # i)
  IN  [k \in DOMAIN kept |-> IF kept[k] > i THEN kept[k] - 1 ELSE kept[k]]
RemoveAtQueues(q, i) ==
  Rebuilt([q EXCEPT !.items = RemoveAt(@, i),
                    !.index = CursorAfterRemoval(q, i),
                    !.history = HistoryAfterRemoval(q, i)])

ClearQueue(q) == [q EXCEPT !.items = <<>>, !.index = 0, !.history = <<>>, !.order = <<>>]
=============================================================================
