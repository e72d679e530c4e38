---------------------------- MODULE OfflineShelf ----------------------------
(* What the offline subsystem promises of one release: the playback path    *)
(* sees nothing, or a package that was published whole, minus the assets    *)
(* that were found damaged since.  A package is put on the shelf in one     *)
(* step and never grows there, and what is published leaves only when the   *)
(* user removes it.  Two breaches of that promise have actions of their     *)
(* own, which a behaviour may take only where Breaches names them.          *)
EXTENDS FiniteSets

CONSTANTS
  Assets,     \* the assets of the release
  Critical,   \* the assets a package must hold to be published
  Editions,   \* the contents the release may have on the server
  Breaches    \* what is not kept: "overwrite", "restore"

VARIABLES
  published,  \* what is published: Nothing, or an edition and its assets
  shelf,      \* what the playback path is offered now
  past        \* every package that has been published so far

Nothing == [edition |-> "none", keys |-> {}]
Packages == {p \in [edition : Editions, keys : SUBSET Assets] : Critical \subseteq p.keys}
Rests(p) == {[p EXCEPT !.keys = K] : K \in SUBSET p.keys}
shelfVars == <<published, shelf, past>>

Init == published = Nothing /\ shelf = Nothing /\ past = {}

(* A whole package replaces whatever was published.                         *)
Publish ==
  /\ published' \in Packages
  /\ past' = past \cup {published'}
  /\ UNCHANGED shelf

(* The playback path is offered what is published.                          *)
Offer == published # Nothing /\ shelf' = published /\ UNCHANGED <<published, past>>

(* Damaged assets leave the published package, and the shelf with them.     *)
Damage ==
  /\ published # Nothing
  /\ published' \in Rests(published) /\ shelf' = published'
  /\ past' = past \cup {published'}

(* The user removes the package.                                            *)
Remove == published' = Nothing /\ shelf' = Nothing /\ UNCHANGED past

(* The playback path forgets: a reload of the page.                         *)
Forget == shelf' = Nothing /\ UNCHANGED <<published, past>>

(* An attempt to replace the package failed, and takes it away.             *)
Overwrite ==
  /\ "overwrite" \in Breaches
  /\ published' = Nothing
  /\ UNCHANGED <<shelf, past>>

(* A package of the past comes back as it was, or without damaged assets.   *)
Restore ==
  /\ "restore" \in Breaches
  /\ \E p \in past :
       \/ published' = p /\ UNCHANGED <<shelf, past>>
       \/ /\ published' \in Rests(p) /\ shelf' = published'
          /\ past' = past \cup {published'}

Next == Publish \/ Offer \/ Damage \/ Remove \/ Forget \/ Overwrite \/ Restore
Spec == Init /\ [][Next]_shelfVars

=============================================================================
