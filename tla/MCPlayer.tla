------------------------------- MODULE MCPlayer -------------------------------
(* Small instances of Player for TLC.                                      *)
EXTENDS Player, TLC

CONSTANTS i1, i2, i3, n1

\* The album n1 comes from is played by the native engine.
EngineKind == [i \in Items |-> IF i = n1 THEN "native" ELSE "musepack"]

\* One who waits and navigates; one whose commands overtake each other; one
\* who pauses and lets the queue wrap; and one who waits and meets failures
\* and both engines.
Listener ==
  [items |-> {i1, i2, i3}, limit |-> 4, patient |-> TRUE, failures |-> FALSE,
   commands |-> {"play", "index", "next", "previous", "seek", "enqueue"}]
Hurried ==
  [items |-> {i1, i2}, limit |-> 4, patient |-> FALSE, failures |-> TRUE,
   commands |-> {"play", "index", "enqueue", "pause", "toggle", "seek", "teardown"}]
Looping ==
  [items |-> {i1, i2}, limit |-> 3, patient |-> FALSE, failures |-> FALSE,
   commands |-> {"play", "toggle", "repeat"}]
Unlucky ==
  [items |-> {i1, n1}, limit |-> 4, patient |-> TRUE, failures |-> TRUE,
   commands |-> {"play", "index", "next", "pause", "teardown", "shuffle",
                 "remove", "clear", "enqueue"}]
AllUsers == {Listener, Hurried, Looping, Unlucky}

\* Those whose wishes the player does not follow: see the README.
Pauses  == {[Listener EXCEPT !.items = {i1, i2}, !.limit = 3,
                             !.commands = {"play", "toggle", "pause"}]}
Repeats == {[Listener EXCEPT !.items = {i1, i2}, !.limit = 3,
                             !.commands = {"play", "repeat"}]}
=============================================================================
