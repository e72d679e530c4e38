----------------------------- MODULE MCContainer -----------------------------
(* Small packages for TLC: two members listed against the order of their     *)
(* paths, one of them two pieces long, and packages one of whose members     *)
(* holds a piece of such a file.                                             *)
EXTENDS Container

Unit(v) == [cell |-> "unit", v |-> v]
Plain == <<[path |-> 2, content |-> <<Unit(1)>>],
           [path |-> 1, content |-> <<Unit(2), Unit(3)>>]>>
\* A nested block that fits its member, one that reaches into the next
\* member, one that goes by the other member's path, and a fixity record of
\* a wrong length.
Beside(content) == <<[path |-> 2, content |-> content], [path |-> 1, content |-> <<Unit(2)>>]>>
Nested == Beside(<<Header("DATA", 2), PathCell(3), Unit(4)>>)
Overrunning == Beside(<<Header("DATA", 3), PathCell(3), Unit(4)>>)
Impostor == Beside(<<Header("DATA", 2), PathCell(1), Unit(4)>>)
WrongTail == Beside(<<Header("TAIL", 2), Unit(4), Unit(6)>>)
PlainAndNested == {Plain, Nested, Overrunning, Impostor, WrongTail}
NewBytes == {<<Unit(5)>>, <<Unit(6), Unit(7)>>}
==============================================================================
