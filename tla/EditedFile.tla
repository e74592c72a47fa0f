----------------------------- MODULE EditedFile ------------------------------
(***************************************************************************)
(* What the editors do to the content of one file: a settings file with    *)
(* its hooks, rules and plugins, an instruction or memory file, the        *)
(* server and project entries of ~/.claude.json, a field of config.toml.   *)
(*                                                                         *)
(* A content is a bag of entries and the number of the last write of the   *)
(* CLI it contains, which stands for everything the editors pass through.  *)
(***************************************************************************)
EXTENDS Naturals

CONSTANTS
  Entries,
  Listed,       \* those update_global_settings sends: env, allow, deny, ask
  Twins         \* those the fingerprint of a hook group does not tell apart

ASSUME EntriesAssumption ==
  /\ Entries # {} /\ Listed \subseteq Entries
  /\ Twins \subseteq Entries

Content == [state : {"missing", "torn", "text"}, base : Nat, bag : [Entries -> Nat]]

NoEntries == [x \in Entries |-> 0]
Missing == [state |-> "missing", base |-> 0, bag |-> NoEntries]
Torn == [state |-> "torn", base |-> 0, bag |-> NoEntries]

\* fingerprint: the matcher and the commands of the group, nothing else of it.
SameFingerprint(x, y) == x = y \/ {x, y} \subseteq Twins

With(c, e, n) == [c EXCEPT !.state = "text", !.bag[e] = n]
Toggled(c, e) == With(c, e, IF c.bag[e] = 0 THEN 1 ELSE 0)

\* Mutants: no behaviour takes these steps.
PoppedAll(c, e) ==
  {[c EXCEPT !.state = "text", !.bag = [x \in Entries |-> IF SameFingerprint(x, e) THEN 0 ELSE @[x]]]}

\* pop_hook_group_by_fingerprint, remove_disabled_group: one group with the
\* fingerprint, the first in the file; none is no error.
Popped(c, e) ==
  LET found == {x \in Entries : SameFingerprint(x, e) /\ c.bag[x] > 0}
  IN {With(c, x, c.bag[x] - 1) : x \in found} \cup {o \in {c} : found = {}}

\* What an edit may make of c; nothing when it is refused.  snap is what the
\* panel had loaded, or the copy to restore.
Edited(c, how, e, snap) ==
  CASE how = "add"     -> {With(c, e, c.bag[e] + 1)}
    [] how = "put"     -> {With(c, e, 1)}
    [] how = "drop"    -> {With(c, e, 0)}
    [] how = "merge"   -> {IF \E x \in Entries : SameFingerprint(x, e) /\ c.bag[x] > 0
                           THEN [c EXCEPT !.state = "text"] ELSE With(c, e, 1)}
    [] how = "take"    -> Popped(c, e)
    [] how = "new"     -> {o \in {With(c, e, 1)} : c.bag[e] = 0}
    [] how = "gone"    -> {o \in {With(c, e, 0)} : c.bag[e] > 0}
    [] how = "change"  -> {o \in {c} : c.bag[e] > 0}
    [] how = "create"  -> {o \in {With(c, e, 1)} : c.state = "missing"}
    [] how = "section" ->
         {[c EXCEPT !.state = "text", !.bag =
            [x \in Entries |-> IF x \in Listed THEN Toggled(snap, e).bag[x] ELSE @[x]]]}
    [] how = "whole"   -> {Toggled(snap, e)}
    [] how = "restore" -> {snap}
=============================================================================
