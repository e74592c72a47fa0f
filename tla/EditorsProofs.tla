---------------------------- MODULE EditorsProofs ----------------------------
(***************************************************************************)
(* Proofs about Editors: types; the last write of the CLI stands or was    *)
(* made where no command looked; what is replaced can be had back; the     *)
(* last of an entry goes only when that was asked for; a hook that was     *)
(* toggled has moved.                                                      *)
(*                                                                         *)
(* The inductive invariant says, at each step of a command, what is still  *)
(* known of the file it is about to replace.  Two more follow it: Copied,  *)
(* where that file can be had back from, and Tracked, which edits the kind *)
(* of the command makes and what the first of two has left behind.         *)
(***************************************************************************)
EXTENDS Editors, SequenceTheorems, TLAPS

Hows == {"add", "put", "drop", "merge", "take", "new", "gone", "change", "create",
         "section", "whole", "restore"}
Edits == [doc : Docs, how : Hows, entry : Entries]
Steps == {"read", "backup", "recheck", "replace", "inspect", "rollback"}
Kinds == {"save", "put", "remove", "stay", "move", "toggle"}
Ops == [step : Steps, kind : Kinds, snap : Content, plan : Seq(Edits),
        before : [Docs -> Content], seen : Content, put : Content, aside : Content,
        retried : BOOLEAN, touched : BOOLEAN]

OpType ==
  op # NoOp => /\ op \in Ops /\ Len(op.plan) \in 1..2
               /\ Torn \notin {op.snap, op.put, op.aside}

\* Which edits are made to which file, and at which steps.
Fits(edit) ==
  /\ edit.how = "restore" => way \in {"hooks", "claudejson"} /\ edit.doc = Main
  /\ edit.how = "whole" => way \in {"text", "codextext"}
  /\ way \notin {"hooks", "rules"} => edit.doc = Main
GivesUp(edit) == edit.how = "restore" \/ (way = "text" /\ edit.how = "whole")
Planned ==
  op # NoOp =>
    /\ Fits(Now)
    /\ Len(op.plan) = 2 => LET then == Head(Tail(op.plan)) IN
         /\ way \in {"hooks", "rules"}
         /\ Fits(then) /\ then.how \notin {"restore", "whole"}
         /\ Now.how \notin {"restore", "whole"}
    /\ op.step = "recheck" => way \in {"claudejson", "codexconfig"} /\ ~Restoring
    /\ op.step \in {"inspect", "rollback"} => way = "codexconfig"

\* Only ~/.claude.json is ever torn, while the CLI rewrites it.
Rewriting ==
  /\ rewriting # Missing => way = "claudejson" /\ rewriting.base \in 1..writes
  /\ rewriting # Torn
  /\ file[Main] = Torn => rewriting # Missing
  /\ file[Other] # Torn /\ view[Main] # Torn
  /\ rewriting # Missing /\ file[Main] # Torn => rewriting.base \in exposed

\* Before its first write by the CLI no content of a file has one.
Bases ==
  /\ 0 \notin exposed
  /\ \A d \in Docs : last[d] = 0 =>
       /\ file[d].base = 0 /\ view[d].base = 0
       /\ \A c \in copies[d] : c.base = 0
OpBases ==
  op # NoOp => /\ last[Main] = 0 => op.snap.base = 0
               /\ op.step # "read" /\ last[Now.doc] = 0 => op.seen.base = 0 /\ op.put.base = 0
               /\ op.step \in {"inspect", "rollback"} /\ last[Main] = 0 => op.aside.base = 0

\* What a command is to put in place has the last write, or that one is exposed.
PutFits ==
  /\ last[Now.doc] \in exposed \/ op.put.base = last[Now.doc]
  /\ rewriting # Missing => rewriting.base \in exposed

Reading ==
  GivesUp(Now) =>
    /\ last[Main] \in exposed \/ (last[Main] = 0 /\ op.snap.base = 0)
    /\ rewriting # Missing => rewriting.base \in exposed

Prepared ==
  IF Restoring THEN PutFits
  ELSE CASE way = "claudejson"  -> IF op.step = "replace" THEN PutFits
                                   ELSE op.seen # Torn /\ op.put.base = op.seen.base
         [] way = "codexconfig" -> op.seen = op.snap /\ op.put.base = op.snap.base
         [] OTHER               -> PutFits

Inspecting ==
  IF op.aside = op.snap
  THEN /\ last[Main] \in exposed \/ file[Main].base = last[Main]
       /\ op.put.base = op.snap.base
  ELSE last[Main] \in exposed \/ op.aside.base = last[Main]

RollingBack ==
  /\ last[Main] \in exposed \/ op.aside.base = last[Main]
  /\ op.aside = op.snap => last[Main] \in exposed \/ file[Main].base = last[Main]

Sees ==
  op # NoOp =>
    /\ op.step = "read" => Reading
    /\ op.step \in {"backup", "recheck", "replace"} => Prepared
    /\ op.step = "inspect" => Inspecting
    /\ op.step = "rollback" => RollingBack

OpGood == OpType /\ Planned /\ OpBases /\ Sees
IInv == TypeOK /\ OpGood /\ Rewriting /\ Bases /\ LastWriteStands

\* What the command is about to replace is there to be had back.
Excused(d) == file[d].base \in exposed \/ (file[d] = Torn /\ rewriting.base \in exposed)
Copied ==
  op # NoOp => LET d == Now.doc IN
    /\ op.step = "backup" /\ way \notin {"claudejson", "codextext", "codexconfig"} => file[d] = op.seen \/ Excused(d)
    /\ op.step = "backup" /\ Restoring => file[d] = op.seen \/ Excused(d) \/ Unread
    /\ op.step = "recheck" /\ way = "claudejson" => op.seen = Missing \/ op.seen \in copies[d]
    /\ op.step = "replace" /\ way # "codexconfig" => file[d] = Missing \/ file[d] \in copies[d] \/ Excused(d) \/ Unread
    /\ op.step \in {"inspect", "rollback"} => file[d] = op.put \/ Excused(d) \/
         (op.step = "inspect" /\ op.aside = op.snap /\ file[d].base = last[d] /\ last[d] # 0)
-----------------------------------------------------------------------------
USE EntriesAssumption, EditorsAssumption

LEMMA Bounds == MaxTurns \in Nat /\ MaxFaults \in Nat
  OBVIOUS

\* The plan of a command.
LEMMA PlanHead ==
  ASSUME NEW plan \in Seq(Edits), Len(plan) \in 1..2
  PROVE  /\ Head(plan) \in Edits
         /\ Len(plan) = 2 => /\ Tail(plan) \in Seq(Edits) /\ Len(Tail(plan)) = 1
                             /\ Head(Tail(plan)) \in Edits
<1>1. plan # << >> /\ plan[1] \in Edits
  BY EmptySeq
<1>2. Head(plan) \in Edits /\ Tail(plan) \in Seq(Edits) /\ Len(Tail(plan)) = Len(plan) - 1
  BY <1>1, HeadTailProperties
<1>3. ASSUME Len(plan) = 2 PROVE Head(Tail(plan)) \in Edits
  <2> DEFINE rest == Tail(plan)
  <2>1. rest \in Seq(Edits) /\ Len(rest) = 1
    BY <1>2, <1>3
  <2> HIDE DEF rest
  <2>2. rest # << >>
    <3>1. Len(<< >>) # 1
      OBVIOUS
    <3> QED
      BY <2>1, <3>1, Zenon
  <2>3. Head(rest) \in Edits
    BY <2>1, <2>2, HeadTailProperties
  <2> QED
    BY <2>3 DEF rest
<1> QED
  BY <1>2, <1>3

\* Editing keeps the writes of the CLI in a content, or in the one restored.
LEMMA ContentIs ==
  /\ Missing \in Content /\ Missing.base = 0 /\ Missing.state = "missing"
  /\ Torn \in Content /\ Torn.base = 0 /\ Torn.state = "torn"
  BY DEF Missing, Torn, Content, NoEntries

LEMMA WithType ==
  ASSUME NEW c \in Content, NEW e \in Entries, NEW n \in Nat
  PROVE  With(c, e, n) \in Content /\ With(c, e, n).base = c.base /\ With(c, e, n).state = "text"
  BY DEF With, Content

LEMMA ToggledType ==
  ASSUME NEW c \in Content, NEW e \in Entries
  PROVE  Toggled(c, e) \in Content /\ Toggled(c, e).base = c.base /\ Toggled(c, e).state = "text"
<1>1. (IF c.bag[e] = 0 THEN 1 ELSE 0) \in Nat
  OBVIOUS
<1>2. \A n \in Nat : With(c, e, n) \in Content /\ With(c, e, n).base = c.base /\ With(c, e, n).state = "text"
  BY WithType
<1> QED
  BY <1>1, <1>2 DEF Toggled

LEMMA PoppedType ==
  ASSUME NEW c \in Content, NEW e \in Entries, NEW o \in Popped(c, e)
  PROVE  o \in Content /\ o.base = c.base /\ (o = c \/ o.state = "text")
<1> DEFINE found == {x \in Entries : SameFingerprint(x, e) /\ c.bag[x] > 0}
<1>1. CASE o = c
  BY <1>1
<1>2. CASE \E x \in found : o = With(c, x, c.bag[x] - 1)
  <2> PICK x \in found : o = With(c, x, c.bag[x] - 1)
    BY <1>2
  <2>1. c.bag[x] - 1 \in Nat
    BY DEF Content
  <2> QED
    BY <2>1, WithType
<1> QED
  BY <1>1, <1>2 DEF Popped

LEMMA EditedType ==
  ASSUME NEW c \in Content, NEW how \in Hows, NEW e \in Entries, NEW snap \in Content,
         NEW o \in Edited(c, how, e, snap)
  PROVE  /\ o \in Content
         /\ o.base = IF how \in {"whole", "restore"} THEN snap.base ELSE c.base
         /\ (c # Torn \/ how = "restore") /\ snap # Torn => o # Torn
<1>1. c.bag[e] \in Nat /\ c.bag[e] + 1 \in Nat
  BY DEF Content
<1>7. \A n \in Nat : With(c, e, n) \in Content /\ With(c, e, n).base = c.base /\ With(c, e, n).state = "text"
  BY WithType
<1>8. \A x : x.state = "text" => x # Torn
  BY ContentIs
<1>2. CASE how \in {"add", "put", "drop", "new", "gone", "change", "create"}
  <2>1. o = c \/ \E n \in {0, 1, c.bag[e] + 1} : o = With(c, e, n)
    <3>1. CASE how = "add"
      BY <3>1 DEF Edited
    <3>2. CASE how = "put"
      BY <3>2 DEF Edited
    <3>3. CASE how = "drop"
      BY <3>3 DEF Edited
    <3>4. CASE how = "new"
      BY <3>4 DEF Edited
    <3>5. CASE how = "gone"
      BY <3>5 DEF Edited
    <3>6. CASE how = "change"
      BY <3>6 DEF Edited
    <3>7. CASE how = "create"
      BY <3>7 DEF Edited
    <3> QED
      BY <1>2, <3>1, <3>2, <3>3, <3>4, <3>5, <3>6, <3>7
  <2>2. o \in Content /\ o.base = c.base /\ (o = c \/ o.state = "text")
    BY <1>1, <1>7, <2>1
  <2> QED
    BY <1>2, <1>8, <2>2
<1>3. CASE how = "merge"
  <2>1. /\ [c EXCEPT !.state = "text"] \in Content
        /\ [c EXCEPT !.state = "text"].base = c.base /\ [c EXCEPT !.state = "text"].state = "text"
    BY DEF Content
  <2>2. o = [c EXCEPT !.state = "text"] \/ o = With(c, e, 1)
    BY <1>3 DEF Edited
  <2>3. 1 \in Nat
    OBVIOUS
  <2>4. o \in Content /\ o.base = c.base /\ o.state = "text"
    BY <1>7, <2>1, <2>2, <2>3, Zenon
  <2> QED
    BY <1>3, <1>8, <2>4
<1>4. CASE how = "take"
  BY <1>4, <1>8, PoppedType DEF Edited
<1>5. CASE how = "section"
  <2> DEFINE bag == [x \in Entries |-> IF x \in Listed THEN Toggled(snap, e).bag[x] ELSE c.bag[x]]
  <2>1. bag \in [Entries -> Nat]
    BY ToggledType DEF Content
  <2>2. o = [c EXCEPT !.state = "text", !.bag = bag]
    BY <1>5 DEF Edited
  <2> QED
    BY <1>5, <1>8, <2>1, <2>2 DEF Content
<1>6. CASE how \in {"whole", "restore"}
  BY <1>6, <1>8, ToggledType DEF Edited
<1> QED
  BY <1>2, <1>3, <1>4, <1>5, <1>6 DEF Hows

LEMMA InitInv == Init => IInv
<1> SUFFICES ASSUME Init PROVE IInv
  OBVIOUS
<1>1. file \in [Docs -> Content] /\ \A d \in Docs : file[d].base = 0 /\ file[d].state # "torn"
  <2> DEFINE First(in) == [Missing EXCEPT !.state = "text", !.bag = [x \in Entries |-> IF x \in in THEN 1 ELSE 0]]
  <2>1. \A in \in SUBSET Entries : First(in) \in Content /\ First(in).base = 0 /\ First(in).state = "text"
    BY DEF Missing, Content
  <2>2. \A c \in {Missing} \cup {First(in) : in \in SUBSET Entries} : c \in Content /\ c.base = 0 /\ c.state # "torn"
    BY <2>1, ContentIs
  <2>3. file \in [Docs -> {Missing} \cup {First(in) : in \in SUBSET Entries}]
    BY DEF Init
  <2> HIDE DEF First
  <2>4. \A d \in Docs : file[d] \in Content /\ file[d].base = 0 /\ file[d].state # "torn"
    BY <2>2, <2>3
  <2> QED
    BY <2>3, <2>4
<1>2. TypeOK
  <2>2. 0 \in 0..MaxTurns /\ 0 \in 0..MaxFaults
    BY Bounds
  <2>1. copies \in [Docs -> SUBSET Content] /\ last \in [Docs -> 0..MaxTurns]
    <3>1. [d \in Docs |-> 0] \in [Docs -> 0..MaxTurns] /\ [d \in Docs |-> {}] \in [Docs -> SUBSET Content]
      BY <2>2, Zenon
    <3> QED
      BY <3>1 DEF Init
  <2>3. view \in [Docs -> Content] /\ rewriting \in Content /\ op = NoOp
    BY <1>1, ContentIs DEF Init
  <2>4. way \in Ways /\ writes = 0 /\ ops = 0 /\ faults = 0 /\ exposed = {}
    BY DEF Init
  <2> QED
    BY <1>1, <2>1, <2>2, <2>3, <2>4 DEF TypeOK
<1>3. OpGood
  BY DEF Init, OpGood, OpType, Planned, OpBases, Sees
<1>4. Rewriting /\ Bases
  BY <1>1, ContentIs DEF Init, Rewriting, Bases, Docs, Main, Other
<1>5. LastWriteStands
  BY <1>1 DEF Init, LastWriteStands, Held
<1> QED
  BY <1>2, <1>3, <1>4, <1>5 DEF IInv
-----------------------------------------------------------------------------
\* A step that leaves the files, and what the CLI wrote, as they are.
LEMMA FilesKept ==
  ASSUME IInv, UNCHANGED <<way, file, view, rewriting, last, writes>>, OpGood',
         ops' \in 0..MaxTurns, faults' \in 0..MaxFaults,
         exposed \subseteq exposed', exposed' \subseteq 0..MaxTurns, 0 \notin exposed',
         copies' \in [Docs -> SUBSET Content],
         \A d \in Docs : last[d] = 0 => \A c \in copies'[d] : c.base = 0,
         Exchanged => \/ Exchanged' /\ op'.aside = op.aside
                      \/ last[Main] \in exposed'
                      \/ file[Main].base = last[Main]
  PROVE  IInv'
<1>1. TypeOK'
  <2>1. op' # NoOp => /\ op'.step \in Steps /\ Len(op'.plan) \in 1..2
                      /\ {op'.snap, op'.seen, op'.put, op'.aside} \subseteq Content
    BY DEF OpGood, OpType, Ops
  <2> QED
    BY <2>1 DEF IInv, TypeOK, Steps
<1>2. Rewriting'
  BY DEF IInv, Rewriting
<1>3. Bases'
  BY DEF IInv, Bases
<1>4. LastWriteStands'
  BY DEF IInv, LastWriteStands, Held, Exchanged
<1> QED
  BY <1>1, <1>2, <1>3, <1>4 DEF IInv

\* A command that ends without having put anything in place.
LEMMA Ends ==
  ASSUME IInv, op' = NoOp, UNCHANGED <<way, file, view, rewriting, last, writes, ops>>,
         faults' \in 0..MaxFaults,
         exposed \subseteq exposed', exposed' \subseteq 0..MaxTurns, 0 \notin exposed',
         copies' \in [Docs -> SUBSET Content], \A d \in Docs : copies'[d] \subseteq copies[d],
         Exchanged => last[Main] \in exposed' \/ file[Main].base = last[Main]
  PROVE  IInv'
<1>1. OpGood'
  BY DEF OpGood, OpType, Planned, OpBases, Sees
<1>2. ops' \in 0..MaxTurns
  BY DEF IInv, TypeOK
<1>3. \A d \in Docs : last[d] = 0 => \A c \in copies'[d] : c.base = 0
  BY DEF IInv, Bases
<1> QED
  BY <1>1, <1>2, <1>3, FilesKept

\* What is exposed never becomes seen again.
LEMMA Exposes ==
  ASSUME IInv, NEW ns \in SUBSET (0..MaxTurns), Expose(ns)
  PROVE  /\ exposed \subseteq exposed' /\ exposed' \subseteq 0..MaxTurns /\ 0 \notin exposed'
         /\ \A n \in ns : n # 0 => n \in exposed'
  BY DEF IInv, TypeOK, Bases, Expose

\* A step of a command moves within the plan it has.
LEMMA Underway ==
  ASSUME IInv, op # NoOp
  PROVE  /\ op \in Ops /\ Now \in Edits /\ Now.doc \in Docs /\ Now.how \in Hows /\ Now.entry \in Entries
         /\ op.step \in Steps /\ Len(op.plan) \in 1..2 /\ op.plan \in Seq(Edits)
         /\ op.snap \in Content /\ op.seen \in Content /\ op.put \in Content /\ op.aside \in Content
<1>1. op \in Ops /\ Len(op.plan) \in 1..2
  BY DEF IInv, OpGood, OpType
<1>2. op.plan \in Seq(Edits)
  BY <1>1 DEF Ops
<1>3. Now \in Edits
  BY <1>1, <1>2, PlanHead DEF Now
<1> QED
  BY <1>1, <1>2, <1>3 DEF Ops, Edits

\* Without a torn file or an exchange the file has the last write.
LEMMA FileHasLast ==
  ASSUME IInv, NEW d \in Docs, ~Exchanged, file[d] # Torn
  PROVE  last[d] \in exposed \/ file[d].base = last[d]
  BY DEF IInv, LastWriteStands, Held

LEMMA NotTorn ==
  ASSUME IInv, NEW d \in Docs, way # "claudejson"
  PROVE  file[d] # Torn /\ rewriting = Missing
  BY DEF IInv, Rewriting, Docs
-----------------------------------------------------------------------------
\* The steps of a command, each from what the step before it had seen.
LEMMA ReadInv == IInv /\ Read => IInv'
<1> SUFFICES ASSUME IInv, Read PROVE IInv'
  OBVIOUS
<1> DEFINE d == Now.doc
           c == file[d]
<1>0. op # NoOp /\ op.step = "read" /\ ~Exchanged
  BY DEF Read, At, Exchanged
<1>1. /\ UNCHANGED <<way, file, view, rewriting, last, writes, ops, faults, exposed, copies>>
      /\ exposed \subseteq 0..MaxTurns /\ 0 \notin exposed /\ faults \in 0..MaxFaults /\ ops \in 0..MaxTurns
      /\ copies \in [Docs -> SUBSET Content] /\ c \in Content
  BY <1>0, Underway DEF Read, CliKeeps, Idle, IInv, TypeOK, Bases
<1>2. CASE op' = NoOp
  BY <1>0, <1>1, <1>2, Ends
<1>3. CASE \E put \in Edited(c, Now.how, Now.entry, op.snap) :
             /\ op' = [op EXCEPT !.step = Following("read"), !.seen = c, !.put = put]
             /\ ~Unreadable(c)
             /\ Codex => c = op.snap
  <2> PICK put \in Edited(c, Now.how, Now.entry, op.snap) :
             /\ op' = [op EXCEPT !.step = Following("read"), !.seen = c, !.put = put]
             /\ ~Unreadable(c)
             /\ Codex => c = op.snap
    BY <1>3
  <2>1. /\ put \in Content
        /\ put.base = IF Now.how \in {"whole", "restore"} THEN op.snap.base ELSE c.base
    BY <1>0, <1>1, Underway, EditedType
  <2>2. Following("read") \in {"backup", "recheck"} /\ (Following("read") = "recheck" <=> way = "codexconfig")
    BY DEF Following
  <2>3. /\ op' \in Ops /\ op'.plan = op.plan /\ Now' = Now /\ op'.snap = op.snap /\ op'.aside = op.aside
        /\ op'.step = Following("read") /\ op'.seen = c /\ op'.put = put
    BY <1>0, <1>1, <2>1, <2>2, Underway DEF Ops, Steps, Now
  <2>4. Planned' /\ OpType'
    <3>1. way # "codexconfig" \/ ~Restoring
      BY <1>0, Underway DEF IInv, OpGood, Planned, Fits, Restoring
    <3>2. (c # Torn \/ Restoring) /\ op.snap # Torn /\ op.aside # Torn
      BY <1>0, NotTorn, Underway DEF IInv, OpGood, OpType, Unreadable
    <3>4. put # Torn
      BY <1>0, <1>1, <3>2, Underway, EditedType DEF Restoring
    <3>3. Planned'
      BY <1>0, <1>1, <2>2, <2>3, <3>1 DEF IInv, OpGood, Planned, Fits, Restoring
    <3> QED
      BY <1>0, <2>3, <3>2, <3>3, <3>4, Underway DEF OpType
  <2>8. Now.how \in {"whole", "restore"} => d = Main
    BY <1>0, Underway DEF IInv, OpGood, Planned, Fits
  <2>5. OpBases'
    BY <1>0, <1>1, <2>1, <2>2, <2>3, <2>8, Underway DEF IInv, OpGood, OpBases, Bases
  <2>7. Sees'
    <3>1. Prepared'
      <4>1. CASE Restoring
        BY <1>0, <1>1, <2>1, <2>3, <2>8, <4>1 DEF IInv, OpGood, Sees, Reading, GivesUp, Prepared, PutFits, Restoring
      <4>2. CASE ~Restoring /\ way = "claudejson"
        <5>1. Now.how # "whole" /\ c # Torn
          BY <1>0, <4>2 DEF IInv, OpGood, Planned, Fits, Unreadable
        <5> QED
          BY <1>1, <2>1, <2>2, <2>3, <4>2, <5>1 DEF Prepared, Restoring
      <4>3. CASE ~Restoring /\ way = "codexconfig"
        BY <1>1, <2>1, <2>2, <2>3, <4>3 DEF Prepared, Restoring, Codex
      <4>4. CASE ~Restoring /\ way \notin {"claudejson", "codexconfig"}
        <5>1. last[d] \in exposed \/ c.base = last[d]
          BY <1>0, <4>4, Underway, NotTorn, FileHasLast
        <5>2. rewriting = Missing
          BY <1>0, <4>4, Underway, NotTorn
        <5>3. CASE Now.how # "whole"
          BY <1>1, <2>1, <2>3, <4>4, <5>1, <5>2, <5>3 DEF Prepared, PutFits, Restoring
        <5>4. CASE Now.how = "whole" /\ way = "text"
          BY <1>0, <1>1, <2>1, <2>3, <2>8, <4>4, <5>2, <5>4 DEF IInv, OpGood, Sees, Reading, GivesUp, Prepared, PutFits, Restoring
        <5>5. CASE Now.how = "whole" /\ way = "codextext"
          BY <1>1, <2>1, <2>3, <4>4, <5>1, <5>2, <5>5 DEF Prepared, PutFits, Restoring, Codex
        <5> QED
          BY <1>0, <5>3, <5>4, <5>5 DEF IInv, OpGood, Planned, Fits
      <4> QED
        BY <4>1, <4>2, <4>3, <4>4
    <3> QED
      BY <2>2, <2>3, <3>1 DEF Sees
  <2>6. OpGood'
    BY <2>4, <2>5, <2>7 DEF OpGood
  <2>9. \A x \in Docs : last[x] = 0 => \A k \in copies'[x] : k.base = 0
    BY <1>1 DEF IInv, Bases
  <2> QED
    BY <1>0, <1>1, <2>6, <2>9, FilesKept
<1> QED
  BY <1>2, <1>3 DEF Read, End

LEMMA RestoreUnreadInv == IInv /\ RestoreUnread => IInv'
<1> SUFFICES ASSUME IInv, RestoreUnread PROVE IInv'
  OBVIOUS
<1>0. op # NoOp /\ op.step = "read" /\ ~Exchanged /\ Restoring /\ way = "claudejson"
  BY DEF RestoreUnread, At, Exchanged
<1>1. /\ UNCHANGED <<way, file, view, rewriting, last, writes, ops, exposed, copies>>
      /\ exposed \subseteq 0..MaxTurns /\ 0 \notin exposed /\ faults \in 0..MaxFaults /\ ops \in 0..MaxTurns
      /\ copies \in [Docs -> SUBSET Content]
  BY <1>0, Underway DEF RestoreUnread, CliKeeps, Idle, IInv, TypeOK, Bases
<1>2. faults' \in 0..MaxFaults
  BY <1>1, Bounds DEF RestoreUnread
<1>3. Following("read") = "backup"
  BY <1>0 DEF Following
<1>4. /\ op' \in Ops /\ op'.plan = op.plan /\ Now' = Now /\ op'.snap = op.snap /\ op'.aside = op.aside
      /\ op'.step = "backup" /\ op'.seen = Missing /\ op'.put = op.snap
  <2>1. Missing \in Content
    BY DEF Missing, Content, NoEntries
  <2>2. op' = [op EXCEPT !.step = "backup", !.seen = Missing, !.put = op.snap]
    BY <1>3 DEF RestoreUnread
  <2> QED
    BY <1>0, <2>1, <2>2, Underway DEF Ops, Steps, Now
<1>5. Planned' /\ OpType'
  <2>1. Planned'
    BY <1>0, <1>1, <1>4, Underway DEF IInv, OpGood, Planned, Fits, Restoring
  <2> QED
    BY <1>0, <1>4, <2>1, Underway DEF IInv, OpGood, OpType
<1>6. OpBases'
  BY <1>0, <1>1, <1>4, Underway DEF IInv, OpGood, OpBases, Planned, Fits, Restoring, Missing
<1>7. Sees'
  BY <1>0, <1>1, <1>4, Underway DEF IInv, OpGood, Sees, Reading, GivesUp, Prepared, PutFits, Planned, Fits, Restoring
<1>8. OpGood'
  BY <1>5, <1>6, <1>7 DEF OpGood
<1>9. \A x \in Docs : last[x] = 0 => \A k \in copies'[x] : k.base = 0
  BY <1>1 DEF IInv, Bases
<1> QED
  BY <1>0, <1>1, <1>2, <1>8, <1>9, FilesKept

LEMMA BackupInv == IInv /\ (Backup \/ BackupTorn) => IInv'
<1> SUFFICES ASSUME IInv, Backup \/ BackupTorn PROVE IInv'
  OBVIOUS
<1> DEFINE d == Now.doc
<1>0. op # NoOp /\ op.step = "backup" /\ ~Exchanged
  BY DEF Backup, BackupTorn, At, Exchanged
<1>1. /\ UNCHANGED <<way, file, view, rewriting, last, writes, ops, exposed>>
      /\ exposed \subseteq 0..MaxTurns /\ 0 \notin exposed /\ faults \in 0..MaxFaults /\ ops \in 0..MaxTurns
      /\ copies \in [Docs -> SUBSET Content] /\ file \in [Docs -> Content]
  BY DEF Backup, BackupTorn, CliKeeps, Idle, IInv, TypeOK, Bases
<1>2. CASE BackupTorn
  <2>1. faults' \in 0..MaxFaults
    BY <1>1, <1>2, Bounds DEF BackupTorn
  <2>2. copies' \in [Docs -> SUBSET Content] /\ \A x \in Docs : copies'[x] \subseteq copies[x]
    BY <1>0, <1>1, <1>2, Underway DEF BackupTorn
  <2> QED
    BY <1>0, <1>1, <1>2, <2>1, <2>2, Ends DEF BackupTorn, End
<1>3. CASE Backup
  <2> DEFINE kept == IF way = "codextext" THEN file[d] ELSE op.seen
  <2>1. kept \in Content /\ (last[d] = 0 => kept.base = 0)
    BY <1>0, <1>1, Underway DEF IInv, OpGood, OpBases, Bases
  <2>2. /\ copies' \in [Docs -> SUBSET Content]
        /\ \A x \in Docs : last[x] = 0 => \A k \in copies'[x] : k.base = 0
    <3>1. \E set \in SUBSET (copies[d] \cup {kept}) : copies' = [copies EXCEPT ![d] = set]
      <4>1. PICK set : set \subseteq copies[d] \cup {kept} /\ copies' = [copies EXCEPT ![d] = set]
        <5>1. CASE kept = Missing
          BY <1>3, <5>1 DEF Backup
        <5>2. CASE kept # Missing /\ Accumulates
          BY <1>3, <5>2 DEF Backup
        <5>3. CASE kept # Missing /\ ~Accumulates
          BY <1>3, <5>3 DEF Backup
        <5> QED
          BY <5>1, <5>2, <5>3
      <4> QED
        BY <4>1
    <3> QED
      BY <1>0, <1>1, <2>1, <3>1, Underway DEF IInv, Bases
  <2>3. Following("backup") = IF way = "claudejson" /\ ~Restoring THEN "recheck" ELSE "replace"
    BY DEF Following
  <2>4. /\ op' \in Ops /\ op'.plan = op.plan /\ Now' = Now /\ op'.snap = op.snap /\ op'.aside = op.aside
        /\ op'.step = Following("backup") /\ op'.seen = op.seen /\ op'.put = op.put
    BY <1>0, <1>3, <2>3, Underway DEF Backup, GoOn, Ops, Steps, Now
  <2>5. OpType' /\ Planned'
    BY <1>0, <1>1, <2>3, <2>4 DEF IInv, OpGood, OpType, Planned, Fits, Restoring
  <2>6. OpBases'
    BY <1>0, <1>1, <2>3, <2>4 DEF IInv, OpGood, OpBases
  <2>7. Sees'
    <3>1. Prepared /\ (way = "codexconfig" => ~Restoring)
      BY <1>0 DEF IInv, OpGood, Sees, Planned, Fits, Restoring
    <3>2. Prepared'
      BY <1>0, <1>1, <2>3, <2>4, <3>1 DEF Prepared, PutFits, Restoring
    <3> QED
      BY <2>3, <2>4, <3>2 DEF Sees
  <2>8. OpGood' /\ faults' \in 0..MaxFaults
    BY <1>1, <1>3, <2>5, <2>6, <2>7 DEF OpGood, Backup
  <2> QED
    BY <1>0, <1>1, <2>2, <2>8, FilesKept
<1> QED
  BY <1>2, <1>3

LEMMA RecheckInv == IInv /\ Recheck => IInv'
<1> SUFFICES ASSUME IInv, Recheck PROVE IInv'
  OBVIOUS
<1> DEFINE d == Now.doc
<1>0. op # NoOp /\ op.step = "recheck" /\ ~Exchanged /\ d = Main /\ ~Restoring /\ way \in {"claudejson", "codexconfig"}
  BY DEF Recheck, At, Exchanged, IInv, OpGood, Planned, Fits
<1>1. /\ UNCHANGED <<way, file, view, rewriting, last, writes, ops, exposed, copies, faults>>
      /\ exposed \subseteq 0..MaxTurns /\ 0 \notin exposed /\ faults \in 0..MaxFaults /\ ops \in 0..MaxTurns
      /\ copies \in [Docs -> SUBSET Content] /\ file \in [Docs -> Content]
      /\ \A x \in Docs : last[x] = 0 => \A k \in copies'[x] : k.base = 0
  BY DEF Recheck, CliKeeps, Idle, IInv, TypeOK, Bases
<1>2. CASE op' = NoOp
  BY <1>0, <1>1, <1>2, Ends
<1>3. ASSUME NEW step \in {"read", "backup", "replace"},
             step = "read" => way = "claudejson",
             step = "backup" => way = "codexconfig",
             step = "replace" => file[Main] = op.seen /\ way = "claudejson",
             op'.step = step, op' \in Ops, op'.plan = op.plan, op'.snap = op.snap, op'.aside = op.aside,
             op'.seen = op.seen, op'.put = op.put
      PROVE  IInv'
  <2>1. Now' = Now
    BY <1>3 DEF Now
  <2>2. OpType' /\ Planned' /\ OpBases'
    BY <1>0, <1>1, <1>3, <2>1 DEF IInv, OpGood, OpType, Planned, OpBases, Fits, Restoring
  <2>3. step = "read" => Reading'
    BY <1>0, <1>1, <1>3, <2>1 DEF Reading, GivesUp, Restoring
  <2>4. step = "backup" => Prepared'
    BY <1>0, <1>1, <1>3, <2>1 DEF IInv, OpGood, Sees, Prepared, Restoring
  <2>5. step = "replace" => Prepared'
    <3> SUFFICES ASSUME step = "replace" PROVE Prepared'
      OBVIOUS
    <3>1. op.seen # Torn /\ op.put.base = op.seen.base /\ file[Main] = op.seen
      BY <1>0, <1>3 DEF IInv, OpGood, Sees, Prepared
    <3>2. last[Main] \in exposed \/ op.put.base = last[Main]
      BY <1>0, <3>1, FileHasLast DEF Docs
    <3>3. rewriting # Missing => rewriting.base \in exposed
      BY <3>1 DEF IInv, Rewriting
    <3> QED
      BY <1>0, <1>1, <1>3, <2>1, <3>2, <3>3 DEF Prepared, PutFits, Restoring
  <2>6. OpGood'
    BY <1>3, <2>2, <2>3, <2>4, <2>5 DEF OpGood, Sees
  <2> QED
    BY <1>0, <1>1, <2>6, FilesKept
<1>4. CASE GoOn /\ file[d] = op.seen
  <2>1. Following("recheck") = IF way = "codexconfig" THEN "backup" ELSE "replace"
    BY DEF Following
  <2>2. op' = [op EXCEPT !.step = Following("recheck")]
    BY <1>0, <1>4 DEF GoOn
  <2> QED
    BY <1>0, <1>3, <1>4, <2>1, <2>2, Underway DEF Ops, Steps
<1>5. CASE op' = [op EXCEPT !.step = "read", !.retried = TRUE] /\ way = "claudejson"
  BY <1>0, <1>3, <1>5, Underway DEF Ops, Steps
<1> QED
  BY <1>2, <1>4, <1>5 DEF Recheck, End
\* The next edit of a plan, or its end.
LEMMA NextEdit ==
  ASSUME IInv, op # NoOp, EditDone, UNCHANGED <<way, last>>
  PROVE  /\ OpGood'
         /\ op' # NoOp => way \in {"hooks", "rules"} /\ op'.step = "read"
<1>1. CASE op' = NoOp
  BY <1>1 DEF OpGood, OpType, Planned, OpBases, Sees
<1>2. CASE Len(op.plan) # 1 /\ op' = [op EXCEPT !.step = "read", !.plan = Tail(op.plan)]
  <2>1. /\ Len(op.plan) = 2 /\ Tail(op.plan) \in Seq(Edits) /\ Len(Tail(op.plan)) = 1 /\ Head(Tail(op.plan)) \in Edits
    <3>1. op.plan \in Seq(Edits) /\ Len(op.plan) = 2
      BY <1>2, Underway
    <3> DEFINE plan == op.plan
    <3> HIDE DEF plan
    <3>2. plan \in Seq(Edits) /\ Len(plan) = 2
      BY <3>1 DEF plan
    <3>3. Tail(plan) \in Seq(Edits) /\ Len(Tail(plan)) = 1 /\ Head(Tail(plan)) \in Edits
      <4>1. Len(plan) \in 1..2
        BY <3>2
      <4>2. Len(plan) = 2 => Tail(plan) \in Seq(Edits) /\ Len(Tail(plan)) = 1 /\ Head(Tail(plan)) \in Edits
        BY <3>2, <4>1, PlanHead, Zenon
      <4> QED
        BY <3>2, <4>2
    <3> QED
      BY <3>1, <3>3 DEF plan
  <2>2. /\ op' \in Ops /\ op'.plan = Tail(op.plan) /\ op'.step = "read" /\ op'.snap = op.snap
        /\ op'.put = op.put /\ op'.aside = op.aside /\ Now' = Head(Tail(op.plan))
    BY <1>2, <2>1, Underway DEF Ops, Steps, Now
  <2>3. /\ way \in {"hooks", "rules"} /\ Fits(Head(Tail(op.plan)))
        /\ Head(Tail(op.plan)).how \notin {"restore", "whole"}
    BY <2>1 DEF IInv, OpGood, Planned
  <2>4. OpType' /\ Planned'
    <3>1. Len(op'.plan) = 1 /\ Torn \notin {op'.snap, op'.put, op'.aside}
      BY <2>1, <2>2 DEF IInv, OpGood, OpType
    <3>2. Fits(Now)'
      BY <2>2, <2>3 DEF Fits
    <3>3. OpType'
      BY <2>2, <3>1 DEF OpType
    <3>4. Planned'
      <4>1. Len(op'.plan) # 2
        BY <3>1
      <4>2. op'.step \notin {"recheck", "inspect", "rollback"}
        BY <2>2
      <4> QED
        BY <3>2, <4>1, <4>2 DEF Planned
    <3> QED
      BY <3>3, <3>4
  <2>5. OpBases'
    BY <2>2 DEF IInv, OpGood, OpBases
  <2> QED
    BY <2>2, <2>3, <2>4, <2>5 DEF OpGood, Sees, Reading, GivesUp
<1> QED
  BY <1>1, <1>2 DEF EditDone, End

LEMMA ReplaceInv == IInv /\ Replace => IInv'
<1> SUFFICES ASSUME IInv, Replace PROVE IInv'
  OBVIOUS
<1> DEFINE d == Now.doc
<1>0. op # NoOp /\ op.step = "replace" /\ ~Exchanged /\ Prepared
  BY DEF Replace, At, Exchanged, IInv, OpGood, Sees
<1>1. UNCHANGED <<way, view, rewriting, last, writes, ops, exposed, copies, faults>>
  BY DEF Replace, CliKeeps, Idle
<1>2. ASSUME NEW x \in Docs, NEW put \in Content, file' = [file EXCEPT ![x] = put], put # Torn,
             \/ Exchanged' /\ x = Main /\ op'.aside = file[Main] /\ file[Main] # Torn
             \/ last[x] \in exposed \/ put.base = last[x],
             rewriting # Missing /\ x = Main => rewriting.base \in exposed,
             last[x] = 0 => put.base = 0, OpGood'
      PROVE  IInv'
  <2>1. TypeOK'
    <3>1. op' # NoOp => /\ op'.step \in Steps /\ Len(op'.plan) \in 1..2
                        /\ {op'.snap, op'.seen, op'.put, op'.aside} \subseteq Content
      BY <1>2 DEF OpGood, OpType, Ops
    <3> QED
      BY <1>1, <1>2, <3>1 DEF IInv, TypeOK, Steps
  <2>2. file' \in [Docs -> Content] /\ file'[x] = put /\ \A y \in Docs \ {x} : file'[y] = file[y]
    BY <1>2 DEF IInv, TypeOK
  <2>3. Rewriting'
    BY <1>1, <1>2, <2>2 DEF IInv, Rewriting, Docs, Main, Other
  <2>4. Bases'
    BY <1>1, <1>2, <2>2 DEF IInv, Bases
  <2>5. LastWriteStands'
    <3>1. ASSUME NEW y \in Docs, y # x
          PROVE  (file[y] = Torn \/ last[y] \in exposed \/ \E c \in Held(y) : c.base = last[y])'
      BY <1>0, <1>1, <2>2, <3>1 DEF IInv, LastWriteStands, Held
    <3>2. (file[x] = Torn \/ last[x] \in exposed \/ \E c \in Held(x) : c.base = last[x])'
      <4>1. CASE last[x] \in exposed \/ put.base = last[x]
        BY <1>1, <2>2, <4>1 DEF Held
      <4>2. CASE Exchanged' /\ x = Main /\ op'.aside = file[Main] /\ file[Main] # Torn
        BY <1>0, <1>1, <2>2, <4>2, FileHasLast DEF Held
      <4> QED
        BY <1>2, <4>1, <4>2
    <3> QED
      BY <3>1, <3>2 DEF LastWriteStands
  <2> QED
    BY <1>2, <2>1, <2>3, <2>4, <2>5 DEF IInv
<1>3. op.put \in Content /\ op.put # Torn /\ d \in Docs /\ (last[d] = 0 => op.put.base = 0)
  BY <1>0, Underway DEF IInv, OpGood, OpType, OpBases
<1>4. CASE way # "codexconfig" /\ file' = [file EXCEPT ![d] = op.put] /\ EditDone
  <2>1. PutFits
    BY <1>0, <1>4 DEF Prepared
  <2>2. rewriting # Missing /\ d = Main => rewriting.base \in exposed
    BY <2>1 DEF PutFits
  <2>3. OpGood'
    BY <1>0, <1>1, <1>4, NextEdit
  <2> QED
    BY <1>2, <1>3, <1>4, <2>1, <2>2, <2>3 DEF PutFits
<1>5. CASE /\ way = "codexconfig" /\ op.seen = Missing
           /\ file' = IF file[Main] = Missing THEN [file EXCEPT ![Main] = op.put] ELSE file
           /\ op' = NoOp
  <2>1. op.put.base = 0 /\ d = Main
    BY <1>0, <1>5, ContentIs DEF Prepared, IInv, OpGood, Planned, Fits, Restoring
  <2>2. OpGood'
    BY <1>5 DEF OpGood, OpType, Planned, OpBases, Sees
  <2>3. file[Main] # Torn /\ rewriting = Missing
    BY <1>5, NotTorn DEF Docs
  <2>4. CASE file[Main] = Missing
    BY <1>0, <1>2, <1>3, <1>5, <2>1, <2>2, <2>3, <2>4, FileHasLast, ContentIs DEF Docs
  <2>5. CASE file[Main] # Missing
    <3>1. /\ faults' \in 0..MaxFaults /\ exposed' \subseteq 0..MaxTurns /\ 0 \notin exposed' /\ file' = file
          /\ copies' \in [Docs -> SUBSET Content]
      BY <1>1, <1>5, <2>5 DEF IInv, TypeOK, Bases
    <3> QED
      BY <1>0, <1>1, <1>5, <3>1, Ends
  <2> QED
    BY <2>4, <2>5
<1>6. CASE /\ way = "codexconfig" /\ op.seen # Missing
           /\ file' = [file EXCEPT ![Main] = op.put]
           /\ op' = [op EXCEPT !.step = "inspect", !.aside = file[Main]]
  <2>1. d = Main /\ op.put.base = op.snap.base
    BY <1>0, <1>6 DEF Prepared, IInv, OpGood, Planned, Fits, Restoring
  <2>2. file[Main] # Torn /\ rewriting = Missing /\ file[Main] \in Content
    BY <1>6, NotTorn DEF Docs, IInv, TypeOK
  <2>3. /\ op' \in Ops /\ op'.plan = op.plan /\ op'.step = "inspect" /\ op'.snap = op.snap /\ op'.seen = op.seen
        /\ op'.put = op.put /\ op'.aside = file[Main] /\ Now' = Now /\ op' # NoOp
    BY <1>0, <1>6, <2>2, Underway DEF Ops, Steps, Now, NoOp
  <2>4. OpType' /\ Planned'
    BY <1>0, <1>1, <1>6, <2>2, <2>3 DEF IInv, OpGood, OpType, Planned, Fits, Restoring
  <2>5. OpBases'
    BY <1>0, <1>1, <2>1, <2>3 DEF IInv, OpGood, OpBases, Bases, Docs
  <2>6. last[Main] \in exposed \/ file[Main].base = last[Main]
    BY <1>0, <2>2, FileHasLast DEF Docs
  <2>7. file'[Main] = op.put
    BY <1>6 DEF IInv, TypeOK, Docs
  <2>8. Inspecting'
    BY <1>1, <2>1, <2>3, <2>6, <2>7 DEF Inspecting
  <2>9. OpGood' /\ Exchanged'
    BY <2>3, <2>4, <2>5, <2>8 DEF OpGood, Sees, Exchanged
  <2> QED
    BY <1>2, <1>3, <1>6, <2>1, <2>2, <2>3, <2>9
<1> QED
  BY <1>4, <1>5, <1>6 DEF Replace, End
LEMMA InspectInv == IInv /\ (Inspect \/ InspectFails) => IInv'
<1> SUFFICES ASSUME IInv, Inspect \/ InspectFails PROVE IInv'
  OBVIOUS
<1>0. /\ op # NoOp /\ op.step = "inspect" /\ Exchanged /\ way = "codexconfig" /\ Inspecting
      /\ Now.doc = Main /\ Len(op.plan) = 1
  <2>1. op # NoOp /\ op.step = "inspect" /\ Exchanged
    BY DEF Inspect, InspectFails, At, Exchanged
  <2>2. way = "codexconfig" /\ Inspecting /\ Now.doc = Main
    BY <2>1 DEF IInv, OpGood, Planned, Fits, Sees
  <2>3. Len(op.plan) # 2
    BY <2>1, <2>2 DEF IInv, OpGood, Planned
  <2> QED
    BY <2>1, <2>2, <2>3, Underway
<1>1. /\ UNCHANGED <<way, file, view, rewriting, last, writes, ops, copies>>
      /\ exposed \subseteq 0..MaxTurns /\ 0 \notin exposed /\ faults \in 0..MaxFaults /\ ops \in 0..MaxTurns
      /\ copies \in [Docs -> SUBSET Content]
      /\ \A x \in Docs : last[x] = 0 => \A k \in copies'[x] : k.base = 0
  BY DEF Inspect, InspectFails, CliKeeps, Idle, IInv, TypeOK, Bases
<1>2. CASE op' = NoOp /\ op.aside = op.snap /\ UNCHANGED <<exposed, faults>>
  BY <1>0, <1>1, <1>2, Ends DEF Inspecting
<1>3. ASSUME op' = [op EXCEPT !.step = "rollback"], faults' \in 0..MaxFaults,
             exposed \subseteq exposed', exposed' \subseteq 0..MaxTurns, 0 \notin exposed',
             last[Main] \in exposed' \/ op.aside.base = last[Main]
      PROVE  IInv'
  <2>1. /\ op' \in Ops /\ op'.plan = op.plan /\ Now' = Now /\ op'.snap = op.snap /\ op'.aside = op.aside
        /\ op'.step = "rollback" /\ op'.seen = op.seen /\ op'.put = op.put /\ op' # NoOp
    BY <1>0, <1>3, Underway DEF Ops, Steps, Now, NoOp
  <2>2. OpType' /\ Planned' /\ OpBases'
    BY <1>0, <1>1, <2>1 DEF IInv, OpGood, OpType, Planned, OpBases, Fits, Restoring
  <2>3. RollingBack'
    BY <1>0, <1>1, <1>3, <2>1 DEF RollingBack, Inspecting
  <2>4. OpGood' /\ Exchanged'
    BY <2>1, <2>2, <2>3 DEF OpGood, Sees, Exchanged
  <2> QED
    BY <1>1, <1>3, <2>1, <2>4, FilesKept
<1>4. CASE Inspect
  <2>1. CASE op.aside = op.snap
    BY <1>0, <1>2, <1>4, <2>1 DEF Inspect, EditDone, End
  <2>2. CASE op.aside # op.snap
    BY <1>0, <1>1, <1>3, <1>4, <2>2 DEF Inspect, Inspecting
  <2> QED
    BY <2>1, <2>2
<1>5. CASE InspectFails
  <2>1. last[Main] \in 0..MaxTurns
    BY DEF IInv, TypeOK, Docs
  <2>2. {n \in {last[Main]} : file[Main] # op.put} \in SUBSET (0..MaxTurns)
    BY <2>1
  <2>3. /\ exposed \subseteq exposed' /\ exposed' \subseteq 0..MaxTurns /\ 0 \notin exposed'
        /\ file[Main] # op.put /\ last[Main] # 0 => last[Main] \in exposed'
    BY <1>5, <2>2, Exposes DEF InspectFails
  <2>4. last[Main] = 0 => op.aside.base = 0
    BY <1>0 DEF IInv, OpGood, OpBases
  <2>5. last[Main] \in exposed' \/ op.aside.base = last[Main]
    BY <1>0, <2>3, <2>4 DEF Inspecting
  <2>6. faults' \in 0..MaxFaults
    BY <1>1, <1>5, Bounds DEF InspectFails
  <2> QED
    BY <1>3, <1>5, <2>3, <2>5, <2>6 DEF InspectFails
<1> QED
  BY <1>4, <1>5

LEMMA RollbackInv == IInv /\ Rollback => IInv'
<1> SUFFICES ASSUME IInv, Rollback PROVE IInv'
  OBVIOUS
<1>0. /\ op # NoOp /\ op.step = "rollback" /\ way = "codexconfig" /\ RollingBack
      /\ op.aside \in Content /\ op.aside # Torn /\ (last[Main] = 0 => op.aside.base = 0)
  <2>1. op # NoOp /\ op.step = "rollback"
    BY DEF Rollback, At
  <2> QED
    BY <2>1, Underway DEF IInv, OpGood, OpType, OpBases, Planned, Sees
<1>1. /\ UNCHANGED <<way, view, rewriting, last, writes, ops, exposed, copies, faults>>
      /\ op' = NoOp /\ file' = [file EXCEPT ![Main] = op.aside]
  BY DEF Rollback, CliKeeps, Idle, End
<1>2. file' \in [Docs -> Content] /\ file'[Main] = op.aside /\ file'[Other] = file[Other]
  BY <1>0, <1>1 DEF IInv, TypeOK, Docs, Main, Other
<1>3. TypeOK'
  BY <1>1, <1>2 DEF IInv, TypeOK
<1>4. rewriting = Missing
  BY <1>0, NotTorn DEF Docs
<1>5. Rewriting' /\ Bases'
  BY <1>0, <1>1, <1>2, <1>4 DEF IInv, Rewriting, Bases, Docs
<1>6. OpGood'
  BY <1>1 DEF OpGood, OpType, Planned, OpBases, Sees
<1>7. LastWriteStands'
  BY <1>0, <1>1, <1>2 DEF IInv, LastWriteStands, Held, RollingBack, Docs, Main, Other
<1> QED
  BY <1>3, <1>5, <1>6, <1>7 DEF IInv

LEMMA StopInv == IInv /\ Stop => IInv'
<1> SUFFICES ASSUME IInv, Stop PROVE IInv'
  OBVIOUS
<1>1. /\ UNCHANGED <<way, file, view, rewriting, last, writes, ops, copies>> /\ op # NoOp /\ op' = NoOp
      /\ copies \in [Docs -> SUBSET Content] /\ faults' \in 0..MaxFaults
  BY Bounds DEF Stop, CliKeeps, Idle, End, IInv, TypeOK
<1>2. {last[Main]} \in SUBSET (0..MaxTurns) /\ {} \in SUBSET (0..MaxTurns)
  BY DEF IInv, TypeOK, Docs
<1>3. /\ exposed \subseteq exposed' /\ exposed' \subseteq 0..MaxTurns /\ 0 \notin exposed'
      /\ Exchanged /\ op.aside # op.snap /\ last[Main] # 0 => last[Main] \in exposed'
  <2>1. CASE op.step \in {"inspect", "rollback"} /\ op.aside # op.snap
    BY <1>2, <2>1, Exposes DEF Stop
  <2>2. CASE ~(op.step \in {"inspect", "rollback"} /\ op.aside # op.snap)
    BY <1>2, <2>2, Exposes DEF Stop, Exchanged
  <2> QED
    BY <2>1, <2>2
<1>4. Exchanged => last[Main] \in exposed' \/ file[Main].base = last[Main]
  BY <1>1, <1>3 DEF IInv, OpGood, Sees, Inspecting, RollingBack, Bases, Docs, Exchanged
<1> QED
  BY <1>1, <1>3, <1>4, Ends

LEMMA LoadInv == IInv /\ Load => IInv'
<1> SUFFICES ASSUME IInv, Load PROVE IInv'
  OBVIOUS
<1>1. TypeOK' /\ Rewriting' /\ Bases' /\ LastWriteStands'
  BY DEF Load, IInv, TypeOK, Rewriting, Bases, LastWriteStands, Held, Exchanged, Docs
<1>2. OpGood'
  BY DEF Load, OpGood, OpType, Planned, OpBases, Sees
<1> QED
  BY <1>1, <1>2 DEF IInv
-----------------------------------------------------------------------------
\* A write of the CLI: the file has it, and a command that no longer looks is
\* excused.
LEMMA CliContentType ==
  ASSUME IInv, NEW d \in Docs, NEW c \in CliContents(file[d]), writes + 1 \in 0..MaxTurns
  PROVE  c \in Content /\ c.base = writes + 1 /\ c # Torn /\ c # Missing
<1>1. file[d] \in Content /\ writes + 1 \in Nat
  BY Bounds DEF IInv, TypeOK
<1>2. ASSUME NEW k \in Content
      PROVE  /\ [k EXCEPT !.state = "text", !.base = writes + 1] \in Content
             /\ [k EXCEPT !.state = "text", !.base = writes + 1].base = writes + 1
             /\ [k EXCEPT !.state = "text", !.base = writes + 1].state = "text"
             /\ [k EXCEPT !.base = writes + 1] \in Content
             /\ [k EXCEPT !.base = writes + 1].base = writes + 1
             /\ [k EXCEPT !.base = writes + 1].state = k.state
  BY <1>1 DEF Content
<1>3. c \in Content /\ c.base = writes + 1 /\ c.state = "text"
  <2>1. CASE c = [file[d] EXCEPT !.state = "text", !.base = writes + 1]
    BY <1>1, <1>2, <2>1
  <2>2. CASE \E e \in Entries : c = [Toggled(file[d], e) EXCEPT !.base = writes + 1]
    <3>1. PICK e \in Entries : c = [Toggled(file[d], e) EXCEPT !.base = writes + 1]
      BY <2>2
    <3> DEFINE k == Toggled(file[d], e)
    <3>2. k \in Content /\ k.state = "text"
      BY <1>1, ToggledType
    <3> HIDE DEF k
    <3>3. /\ [k EXCEPT !.base = writes + 1] \in Content
          /\ [k EXCEPT !.base = writes + 1].base = writes + 1
          /\ [k EXCEPT !.base = writes + 1].state = k.state
      BY <1>2, <3>2
    <3> QED
      BY <3>1, <3>2, <3>3 DEF k
  <2> QED
    BY <2>1, <2>2 DEF CliContents
<1> QED
  BY <1>3, ContentIs

LEMMA CliOp ==
  ASSUME IInv, NEW d \in Docs, CliWrote(d)
  PROVE  /\ UNCHANGED <<way, copies, view, ops, faults>>
         /\ writes' = writes + 1 /\ writes + 1 \in 0..MaxTurns
         /\ exposed \subseteq exposed' /\ exposed' \subseteq 0..MaxTurns /\ 0 \notin exposed'
         /\ Blind(d) => writes + 1 \in exposed'
         /\ op = NoOp => op' = NoOp
         /\ op # NoOp => /\ op' \in Ops /\ op'.plan = op.plan /\ Now' = Now /\ op'.snap = op.snap
                         /\ op'.aside = op.aside /\ op'.step = op.step /\ op'.seen = op.seen /\ op'.put = op.put
                         /\ op' # NoOp
<1>1. writes + 1 \in 0..MaxTurns
  BY Bounds DEF CliWrote, IInv, TypeOK
<1>2. /\ exposed \subseteq exposed' /\ exposed' \subseteq 0..MaxTurns /\ 0 \notin exposed'
      /\ Blind(d) => writes + 1 \in exposed'
  <2>1. {n \in {writes + 1} : Blind(d)} \in SUBSET (0..MaxTurns)
    BY <1>1
  <2>2. writes + 1 # 0
    BY DEF IInv, TypeOK
  <2>3. Expose({n \in {writes + 1} : Blind(d)})
    BY DEF CliWrote
  <2> HIDE DEF Expose
  <2> QED
    BY <2>1, <2>2, <2>3, Exposes
<1>3. op # NoOp => /\ op' \in Ops /\ op'.plan = op.plan /\ Now' = Now /\ op'.snap = op.snap
                   /\ op'.aside = op.aside /\ op'.step = op.step /\ op'.seen = op.seen /\ op'.put = op.put
                   /\ op' # NoOp
  BY Underway DEF CliWrote, Ops, Now, NoOp
<1> QED
  BY <1>1, <1>2, <1>3 DEF CliWrote

\* What the step of the command knows is kept, whatever the CLI does.
LEMMA CliOpGood ==
  ASSUME IInv, NEW d \in Docs, CliWrote(d), way \in Ways,
         \A x \in Docs \ {d} : file'[x] = file[x] /\ last'[x] = last[x],
         d = Other => way = "rules",
         \/ /\ rewriting' = rewriting /\ rewriting = Missing /\ last'[d] = writes + 1 /\ file'[d].base = writes + 1
         \/ /\ way = "claudejson" /\ d = Main /\ last'[d] = last[d]
            /\ rewriting'.base = writes + 1
  PROVE  OpGood'
<1>1. CASE op = NoOp
  BY <1>1, CliOp DEF OpGood, OpType, Planned, OpBases, Sees
<1>2. CASE op # NoOp
  <2>1. writes + 1 # 0 /\ Now.doc \in Docs /\ op.step \in Steps
    BY <1>2, Underway DEF IInv, TypeOK
  <2>2. OpType' /\ Planned'
    BY <1>2, CliOp DEF IInv, OpGood, OpType, Planned, Fits, Restoring
  <2>3. OpBases'
    BY <1>2, <2>1, CliOp DEF IInv, OpGood, OpBases, Docs
  <2> DEFINE wrote == /\ rewriting' = rewriting /\ rewriting = Missing
                      /\ last'[d] = writes + 1 /\ file'[d].base = writes + 1
             begun == /\ way = "claudejson" /\ d = Main /\ last'[d] = last[d] /\ rewriting'.base = writes + 1
  <2>9. wrote \/ begun
    OBVIOUS
  <2> HIDE DEF wrote, begun
  <2>10. GivesUp(Now) /\ d = Now.doc => Blind(d)
    BY <1>2 DEF GivesUp, Blind, Restoring
  <2>11. Fits(Now)
    BY <1>2 DEF IInv, OpGood, Planned
  <2>12. PutFits /\ (d = Now.doc => Blind(d)) => PutFits'
    <3> SUFFICES ASSUME PutFits, d = Now.doc => Blind(d) PROVE PutFits'
      OBVIOUS
    <3>1. CASE wrote /\ d = Now.doc
      BY <1>2, <3>1, CliOp DEF PutFits, wrote
    <3>2. CASE wrote /\ d # Now.doc
      BY <1>2, <2>1, <3>2, CliOp DEF PutFits, wrote
    <3>3. CASE begun
      <4>1. d = Now.doc
        BY <2>11, <3>3 DEF Fits, begun
      <4> QED
        BY <1>2, <3>3, <4>1, CliOp DEF PutFits, begun
    <3> QED
      BY <2>9, <3>1, <3>2, <3>3
  <2>4. op.step = "read" => Reading'
    <3> SUFFICES ASSUME op.step = "read", GivesUp(Now) PROVE Reading'
      BY <1>2, CliOp DEF Reading, GivesUp
    <3>1. Now.doc = Main /\ Reading
      BY <1>2, <2>11 DEF GivesUp, Fits, IInv, OpGood, Sees
    <3>2. d = Main
      BY <2>11 DEF Docs, GivesUp, Fits
    <3>3. Blind(Main)
      BY <2>10, <3>1, <3>2
    <3>4. CASE wrote
      BY <1>2, <3>2, <3>3, <3>4, CliOp DEF Reading, wrote
    <3>5. CASE begun
      BY <1>2, <3>1, <3>2, <3>3, <3>5, CliOp DEF Reading, begun
    <3> QED
      BY <2>9, <3>4, <3>5
  <2>5. op.step \in {"backup", "recheck", "replace"} => Prepared'
    <3> SUFFICES ASSUME op.step \in {"backup", "recheck", "replace"} PROVE Prepared'
      OBVIOUS
    <3>1. Prepared
      BY <1>2 DEF IInv, OpGood, Sees
    <3>2. CASE Restoring
      <4>1. d = Now.doc => Blind(d)
        BY <2>10, <3>2 DEF GivesUp, Restoring
      <4> QED
        BY <1>2, <2>12, <3>1, <3>2, <4>1, CliOp DEF Prepared, Restoring
    <3>3. CASE ~Restoring /\ way = "claudejson"
      <4>1. CASE op.step = "replace"
        <5>1. d = Now.doc => Blind(d)
          BY <1>2, <3>3, <4>1 DEF Blind
        <5> QED
          BY <1>2, <2>12, <3>1, <3>3, <4>1, <5>1, CliOp DEF Prepared, Restoring
      <4>2. CASE op.step # "replace"
        BY <1>2, <3>1, <3>3, <4>2, CliOp DEF Prepared, Restoring
      <4> QED
        BY <4>1, <4>2
    <3>4. CASE ~Restoring /\ way = "codexconfig"
      BY <1>2, <3>1, <3>4, CliOp DEF Prepared, Restoring
    <3>5. CASE ~Restoring /\ way \notin {"claudejson", "codexconfig"}
      <4>1. op.step # "recheck"
        BY <1>2, <3>5 DEF IInv, OpGood, Planned
      <4>2. d = Now.doc => Blind(d)
        BY <1>2, <3>5, <4>1 DEF Blind
      <4> QED
        BY <1>2, <2>12, <3>1, <3>5, <4>2, CliOp DEF Prepared, Restoring
    <3> QED
      BY <3>2, <3>3, <3>4, <3>5
  <2>6. op.step = "inspect" => Inspecting'
    <3> SUFFICES ASSUME op.step = "inspect" PROVE Inspecting'
      OBVIOUS
    <3>1. way = "codexconfig" /\ Inspecting /\ Now.doc = Main /\ ~Restoring
      BY <1>2, <2>11 DEF IInv, OpGood, Planned, Sees, Fits, Restoring
    <3>2. d = Main /\ wrote
      BY <2>9, <3>1 DEF begun, Docs
    <3>3. op.aside # op.snap => Blind(d)
      BY <1>2, <3>1, <3>2 DEF Blind
    <3> QED
      BY <1>2, <3>1, <3>2, <3>3, CliOp DEF Inspecting, wrote
  <2>7. op.step = "rollback" => RollingBack'
    <3> SUFFICES ASSUME op.step = "rollback" PROVE RollingBack'
      OBVIOUS
    <3>1. way = "codexconfig" /\ Now.doc = Main /\ ~Restoring
      BY <1>2, <2>11 DEF IInv, OpGood, Planned, Fits, Restoring
    <3>2. d = Main /\ wrote
      BY <2>9, <3>1 DEF begun, Docs
    <3>3. Blind(d)
      BY <1>2, <3>1, <3>2 DEF Blind
    <3> QED
      BY <1>2, <3>2, <3>3, CliOp DEF RollingBack, wrote
  <2>8. Sees'
    BY <1>2, <2>4, <2>5, <2>6, <2>7, CliOp DEF Sees
  <2> QED
    BY <2>2, <2>3, <2>8 DEF OpGood
<1> QED
  BY <1>1, <1>2
LEMMA CliWriteInv == IInv /\ (\E d \in Docs : CliWrite(d)) => IInv'
<1> SUFFICES ASSUME IInv, NEW d \in Docs, CliWrite(d) PROVE IInv'
  OBVIOUS
<1>1. PICK c \in CliContents(file[d]) : file' = [file EXCEPT ![d] = c]
  BY DEF CliWrite
<1>2. /\ CliWrote(d) /\ rewriting = Missing /\ rewriting' = rewriting
      /\ last' = [last EXCEPT ![d] = writes + 1] /\ (d = Other => way = "rules")
  BY DEF CliWrite
<1>3. c \in Content /\ c.base = writes + 1 /\ c # Torn
  BY <1>1, <1>2, CliOp, CliContentType
<1>4. /\ file' \in [Docs -> Content] /\ last' \in [Docs -> 0..MaxTurns]
      /\ file'[d].base = writes + 1 /\ file'[d] # Torn /\ last'[d] = writes + 1
      /\ \A x \in Docs \ {d} : file'[x] = file[x] /\ last'[x] = last[x]
  BY <1>1, <1>2, <1>3, CliOp DEF IInv, TypeOK
<1>5. OpGood'
  BY <1>2, <1>4, CliOpGood DEF IInv, TypeOK
<1>6. TypeOK'
  <2>1. op' # NoOp => /\ op'.step \in Steps /\ Len(op'.plan) \in 1..2
                      /\ {op'.snap, op'.seen, op'.put, op'.aside} \subseteq Content
    BY <1>5 DEF OpGood, OpType, Ops
  <2> QED
    BY <1>2, <1>4, <2>1, CliOp DEF IInv, TypeOK, Steps
<1>7. Rewriting'
  BY <1>2, <1>4, CliOp DEF IInv, Rewriting, Docs
<1>8. Bases'
  BY <1>2, <1>4, CliOp DEF IInv, Bases, TypeOK
<1>9. LastWriteStands'
  <2>1. ASSUME NEW x \in Docs, x # d
        PROVE  (file[x] = Torn \/ last[x] \in exposed \/ \E k \in Held(x) : k.base = last[x])'
    BY <1>2, <1>4, <2>1, CliOp DEF IInv, LastWriteStands, Held, Exchanged
  <2>2. \E k \in Held(d)' : k.base = last'[d]
    BY <1>4 DEF Held
  <2> QED
    BY <2>1, <2>2 DEF LastWriteStands
<1> QED
  BY <1>5, <1>6, <1>7, <1>8, <1>9 DEF IInv

\* ~/.claude.json is torn from here; its last write is still the one before.
LEMMA CliBeginInv == IInv /\ CliBegin => IInv'
<1> SUFFICES ASSUME IInv, CliBegin PROVE IInv'
  OBVIOUS
<1>1. /\ CliWrote(Main) /\ way = "claudejson" /\ rewriting = Missing /\ last' = last
      /\ file' = [file EXCEPT ![Main] = Torn] /\ rewriting' \in CliContents(file[Main])
  BY DEF CliBegin
<1>2. Main \in Docs /\ Other \in Docs /\ Main # Other
  BY DEF Docs, Main, Other
<1>3. rewriting' \in Content /\ rewriting'.base = writes + 1 /\ rewriting' # Torn
  BY <1>1, <1>2, CliOp, CliContentType
<1>4. file' \in [Docs -> Content] /\ file'[Main] = Torn /\ \A x \in Docs \ {Main} : file'[x] = file[x]
  BY <1>1, <1>2, ContentIs DEF IInv, TypeOK
<1>5. OpGood'
  BY <1>1, <1>2, <1>3, <1>4, CliOpGood DEF IInv, TypeOK
<1>6. TypeOK'
  <2>1. op' # NoOp => /\ op'.step \in Steps /\ Len(op'.plan) \in 1..2
                      /\ {op'.snap, op'.seen, op'.put, op'.aside} \subseteq Content
    BY <1>5 DEF OpGood, OpType, Ops
  <2> QED
    BY <1>1, <1>2, <1>3, <1>4, <2>1, CliOp DEF IInv, TypeOK, Steps
<1>7. Rewriting'
  <2>1. writes + 1 \in 1..(writes + 1) /\ rewriting' # Missing
    BY <1>1, <1>2, CliContentType, CliOp DEF IInv, TypeOK
  <2>2. file'[Other] # Torn /\ view'[Main] # Torn
    BY <1>1, <1>2, <1>4, CliOp DEF IInv, Rewriting
  <2> QED
    BY <1>1, <1>2, <1>3, <1>4, <2>1, <2>2, CliOp DEF Rewriting
<1>8. Bases'
  BY <1>1, <1>2, <1>4, CliOp, ContentIs DEF IInv, Bases
<1>9. LastWriteStands'
  BY <1>1, <1>2, <1>4, CliOp DEF IInv, LastWriteStands, Held, Docs
<1> QED
  BY <1>5, <1>6, <1>7, <1>8, <1>9 DEF IInv

\* The rewrite is in the file, or it went on in a file replaced meanwhile,
\* which the command that replaced it did not see.
LEMMA CliEndInv == IInv /\ CliEnd => IInv'
<1> SUFFICES ASSUME IInv, CliEnd PROVE IInv'
  OBVIOUS
<1>1. /\ UNCHANGED <<way, copies, view, op, writes, exposed, ops, faults>> /\ rewriting # Missing /\ rewriting' = Missing
      /\ last' = [last EXCEPT ![Main] = rewriting.base]
      /\ file' = IF file[Main] = Torn THEN [file EXCEPT ![Main] = rewriting] ELSE file
  BY DEF CliEnd
<1>2. Main \in Docs /\ Other \in Docs /\ Main # Other
  BY DEF Docs, Main, Other
<1>3. /\ way = "claudejson" /\ rewriting.base \in 1..writes /\ rewriting.base # 0 /\ rewriting # Torn
      /\ rewriting \in Content /\ rewriting.base \in 0..MaxTurns
  BY <1>1, Bounds DEF IInv, Rewriting, TypeOK
<1>4. /\ file' \in [Docs -> Content] /\ last' \in [Docs -> 0..MaxTurns] /\ last'[Main] = rewriting.base
      /\ \A x \in Docs \ {Main} : file'[x] = file[x] /\ last'[x] = last[x]
      /\ file'[Main] # Torn
      /\ rewriting.base \in exposed \/ file'[Main].base = rewriting.base
  BY <1>1, <1>2, <1>3 DEF IInv, TypeOK, Rewriting
<1>5. OpGood'
  <2>1. CASE op = NoOp
    BY <1>1, <2>1 DEF OpGood, OpType, Planned, OpBases, Sees
  <2>2. CASE op # NoOp
    <3>1. Now' = Now /\ op' = op /\ op.step \in Steps /\ Fits(Now) /\ Now.doc = Main
      BY <1>1, <1>3, <2>2, Underway DEF IInv, OpGood, Planned, Fits, Now
    <3>2. OpType' /\ Planned' /\ OpBases'
      BY <1>1, <1>3, <1>4, <3>1 DEF IInv, OpGood, OpType, Planned, OpBases, Fits, Restoring
    <3>3. op.step = "read" => Reading'
      BY <1>1, <1>3, <1>4, <2>2, <3>1 DEF IInv, OpGood, Sees, Reading, GivesUp
    <3>4. PutFits => PutFits'
      BY <1>1, <1>3, <1>4, <3>1 DEF PutFits
    <3>5. op.step \in {"backup", "recheck", "replace"} => Prepared'
      BY <1>1, <1>3, <2>2, <3>1, <3>4 DEF IInv, OpGood, Sees, Prepared, Restoring
    <3>6. op.step \notin {"inspect", "rollback"}
      BY <1>3, <2>2 DEF IInv, OpGood, Planned
    <3> QED
      BY <3>1, <3>2, <3>3, <3>5, <3>6 DEF OpGood, Sees
  <2> QED
    BY <2>1, <2>2
<1>6. TypeOK'
  BY <1>1, <1>4, ContentIs DEF IInv, TypeOK
<1>7. Rewriting'
  BY <1>1, <1>2, <1>4, ContentIs DEF IInv, Rewriting
<1>8. Bases'
  BY <1>1, <1>2, <1>3, <1>4 DEF IInv, Bases
<1>9. LastWriteStands'
  BY <1>1, <1>2, <1>4 DEF IInv, LastWriteStands, Held, Docs
<1> QED
  BY <1>5, <1>6, <1>7, <1>8, <1>9 DEF IInv
-----------------------------------------------------------------------------
\* The start of a command: what it is about to put back in place is given up.
LEMMA StartInv ==
  ASSUME IInv, NEW kind \in Kinds, NEW snap \in Content, NEW plan \in Seq(Edits), Len(plan) \in 1..2,
         Start(kind, snap, plan), snap # Torn, last[Main] = 0 => snap.base = 0, Fits(Head(plan)),
         Len(plan) = 2 => /\ way \in {"hooks", "rules"} /\ Fits(Head(Tail(plan)))
                          /\ Head(Tail(plan)).how \notin {"restore", "whole"}
                          /\ Head(plan).how \notin {"restore", "whole"}
  PROVE  IInv'
<1> DEFINE before == IF Len(plan) = 2 THEN file ELSE [d \in Docs |-> Missing]
           gives == IF Head(plan).how = "restore" \/ (way = "text" /\ Head(plan).how = "whole")
                    THEN {last[Main]} \cup {rewriting.base} ELSE {}
<1>1. /\ op = NoOp /\ UNCHANGED <<way, file, copies, view, rewriting, faults, last, writes>>
      /\ ops' = ops + 1 /\ ops + writes < MaxTurns /\ Expose(gives)
      /\ op' = [step |-> "read", kind |-> kind, snap |-> snap, plan |-> plan, before |-> before,
                seen |-> Missing, put |-> Missing, aside |-> Missing, retried |-> FALSE, touched |-> FALSE]
  BY DEF Start, CliKeeps
<1>2. before \in [Docs -> Content]
  BY ContentIs DEF IInv, TypeOK
<1> HIDE DEF before
<1>3. /\ op' \in Ops /\ op'.plan = plan /\ op'.step = "read" /\ op'.snap = snap /\ op'.put = Missing
      /\ op'.aside = Missing /\ Now' = Head(plan)
  BY <1>1, <1>2, ContentIs DEF Ops, Steps, Now
<1>4. gives \in SUBSET (0..MaxTurns)
  <2>1. last[Main] \in 0..MaxTurns
    BY DEF IInv, TypeOK, Docs
  <2>2. rewriting.base \in 0..MaxTurns
    BY Bounds, ContentIs DEF IInv, TypeOK, Rewriting
  <2> QED
    BY <2>1, <2>2
<1>5. /\ exposed \subseteq exposed' /\ exposed' \subseteq 0..MaxTurns /\ 0 \notin exposed'
      /\ \A n \in gives : n # 0 => n \in exposed'
  BY <1>1, <1>4, Exposes
<1>6. OpType'
  BY <1>1, <1>3, ContentIs DEF OpType
<1>7. Planned'
  BY <1>1, <1>3 DEF Planned, Fits
<1>8. OpBases'
  BY <1>1, <1>3 DEF OpBases
<1>9. Reading'
  <2>1. CASE GivesUp(Head(plan))
    <3>1. gives = {last[Main]} \cup {rewriting.base}
      BY <2>1 DEF GivesUp
    <3>2. rewriting # Missing => rewriting.base # 0
      BY DEF IInv, Rewriting
    <3> HIDE DEF gives
    <3> QED
      BY <1>1, <1>3, <1>5, <3>1, <3>2 DEF Reading
  <2>2. CASE ~GivesUp(Head(plan))
    BY <1>1, <1>3, <2>2 DEF Reading, GivesUp
  <2> QED
    BY <2>1, <2>2
<1>10. OpGood'
  BY <1>3, <1>6, <1>7, <1>8, <1>9 DEF OpGood, Sees
<1>11. /\ ops' \in 0..MaxTurns /\ faults' \in 0..MaxFaults /\ copies' \in [Docs -> SUBSET Content]
       /\ \A x \in Docs : last[x] = 0 => \A k \in copies'[x] : k.base = 0
       /\ ~Exchanged
  BY <1>1, Bounds DEF IInv, TypeOK, Bases, Exchanged
<1> HIDE DEF gives
<1> QED
  BY <1>1, <1>5, <1>10, <1>11, FilesKept

\* What a command starts from: nothing, or what the panel loaded.
LEMMA Snaps ==
  ASSUME IInv
  PROVE  \A snap \in {Missing, view[Main]} :
           snap \in Content /\ snap # Torn /\ (last[Main] = 0 => snap.base = 0)
  BY ContentIs DEF IInv, TypeOK, Rewriting, Bases, Docs

LEMMA OnePlan ==
  ASSUME NEW d \in Docs, NEW how \in Hows, NEW e \in Entries
  PROVE  LET plan == <<Edit(d, how, e)>> IN
         /\ plan \in Seq(Edits) /\ Len(plan) = 1
         /\ Head(plan).doc = d /\ Head(plan).how = how
  BY DEF Edit, Edits

LEMMA TwoPlan ==
  ASSUME NEW d \in Docs, NEW how \in Hows, NEW d2 \in Docs, NEW how2 \in Hows, NEW e \in Entries
  PROVE  LET plan == <<Edit(d, how, e), Edit(d2, how2, e)>> IN
         /\ plan \in Seq(Edits) /\ Len(plan) = 2
         /\ Head(plan).doc = d /\ Head(plan).how = how
         /\ Head(Tail(plan)).doc = d2 /\ Head(Tail(plan)).how = how2
  BY DEF Edit, Edits

LEMMA StartOne ==
  ASSUME IInv, NEW kind \in Kinds, NEW snap \in Content, snap # Torn, last[Main] = 0 => snap.base = 0,
         NEW d \in Docs, NEW how \in Hows, NEW e \in Entries, Start(kind, snap, <<Edit(d, how, e)>>),
         how = "restore" => way \in {"hooks", "claudejson"} /\ d = Main,
         how = "whole" => way \in {"text", "codextext"},
         way \notin {"hooks", "rules"} => d = Main
  PROVE  IInv'
<1> DEFINE plan == <<Edit(d, how, e)>>
<1>1. plan \in Seq(Edits) /\ Len(plan) = 1 /\ Head(plan).doc = d /\ Head(plan).how = how
  BY OnePlan
<1>2. Start(kind, snap, plan)
  OBVIOUS
<1> HIDE DEF plan
<1>3. Fits(Head(plan)) /\ Len(plan) \in 1..2 /\ Len(plan) # 2
  BY <1>1 DEF Fits
<1> QED
  BY <1>1, <1>2, <1>3, StartInv

LEMMA StartTwo ==
  ASSUME IInv, NEW kind \in Kinds, way \in {"hooks", "rules"},
         NEW d \in Docs, NEW how \in {"add", "drop", "take"}, NEW d2 \in Docs, NEW how2 \in {"add", "drop", "take"},
         NEW e \in Entries, Start(kind, Missing, <<Edit(d, how, e), Edit(d2, how2, e)>>)
  PROVE  IInv'
<1> DEFINE plan == <<Edit(d, how, e), Edit(d2, how2, e)>>
<1>1. /\ plan \in Seq(Edits) /\ Len(plan) = 2
      /\ Head(plan).doc = d /\ Head(plan).how = how /\ Head(Tail(plan)).doc = d2 /\ Head(Tail(plan)).how = how2
  BY TwoPlan DEF Hows
<1>2. Start(kind, Missing, plan)
  OBVIOUS
<1> HIDE DEF plan
<1>3. Len(plan) \in 1..2
  BY <1>1
<1>4. Fits(Head(plan)) /\ Fits(Head(Tail(plan)))
  BY <1>1 DEF Fits
<1>5. Head(plan).how \notin {"restore", "whole"} /\ Head(Tail(plan)).how \notin {"restore", "whole"}
  BY <1>1
<1> QED
  BY <1>1, <1>2, <1>3, <1>4, <1>5, Snaps, StartInv
LEMMA StartOnInv ==
  ASSUME IInv, NEW kind \in Kinds, NEW how \in Hows \ {"restore", "whole"}, StartOn(kind, how)
  PROVE  IInv'
<1> PICK e \in Entries : Start(kind, Missing, <<Edit(Main, how, e)>>)
  BY DEF StartOn
<1> QED
  BY Snaps, StartOne DEF Docs

LEMMA StartFromViewInv ==
  ASSUME IInv, NEW kind \in Kinds, NEW how \in Hows \ {"restore"}, StartFromView(kind, how),
         how = "whole" => way \in {"text", "codextext"}
  PROVE  IInv'
<1> PICK e \in Entries : Start(kind, view[Main], <<Edit(Main, how, e)>>)
  BY DEF StartFromView
<1> QED
  BY Snaps, StartOne DEF Docs

LEMMA CommandInv == IInv /\ Command => IInv'
<1> SUFFICES ASSUME IInv, Command PROVE IInv'
  OBVIOUS
<1> USE DEF Kinds, Hows
<1>1. CASE UpdateGlobalSettings
  <2>1. PICK e \in Listed : way = "hooks" /\ Start("save", view[Main], <<Edit(Main, "section", e)>>)
    BY <1>1 DEF UpdateGlobalSettings
  <2> QED
    BY <2>1, Snaps, StartOne DEF Docs
<1>2. CASE WriteStatusLine \/ PatchText \/ ApplyMemoryIndexFix \/ CreateAgent
           \/ PurgeClaudeJsonProjects \/ AddGlobalMcpServer \/ UpdateGlobalMcpServer
  <2>1. \E kind \in {"put", "remove"}, how \in {"put", "drop", "new", "gone", "create", "change"} : StartOn(kind, how)
    BY <1>2 DEF WriteStatusLine, PatchText, ApplyMemoryIndexFix, CreateAgent,
                PurgeClaudeJsonProjects, AddGlobalMcpServer, UpdateGlobalMcpServer
  <2> QED
    BY <2>1, StartOnInv
<1>3. CASE AddPermissionRule \/ RemovePermissionRule
  <2>1. PICK kind \in {"put", "remove"}, how \in {"add", "drop"}, d \in Docs, e \in Listed :
          way = "rules" /\ Start(kind, Missing, <<Edit(d, how, e)>>)
    BY <1>3 DEF AddPermissionRule, RemovePermissionRule
  <2> QED
    BY <2>1, Snaps, StartOne
<1>4. CASE MovePermissionRule
  <2>1. PICK from \in Docs, to \in Docs, e \in Listed :
          /\ way = "rules"
          /\ Start(IF from = to THEN "stay" ELSE "move", Missing, <<Edit(to, "add", e), Edit(from, "drop", e)>>)
    BY <1>4 DEF MovePermissionRule
  <2> QED
    BY <2>1, StartTwo
<1>5. CASE DisableHook \/ EnableHook
  <2>1. PICK e \in Entries, from \in Docs, to \in Docs :
          way = "hooks" /\ Start("toggle", Missing, <<Edit(to, "add", e), Edit(from, "take", e)>>)
    BY <1>5 DEF DisableHook, EnableHook, Docs
  <2> QED
    BY <2>1, StartTwo
<1>6. CASE AddDisabledHookGroups
  <2>1. PICK e \in Entries : way = "hooks" /\ Start("put", Missing, <<Edit(Other, "merge", e)>>)
    BY <1>6 DEF AddDisabledHookGroups
  <2> QED
    BY <2>1, Snaps, StartOne DEF Docs
<1>7. CASE WriteTextFile \/ CodexTextApply \/ CodexTransform \/ CodexSettingsApply
  <2>1. \E kind \in {"save", "put"}, how \in {"whole", "put"} :
          StartFromView(kind, how) /\ (how = "whole" => way \in {"text", "codextext"})
    BY <1>7 DEF WriteTextFile, CodexTextApply, CodexTransform, CodexSettingsApply
  <2> QED
    BY <2>1, StartFromViewInv
<1>8. CASE RestoreCopy
  <2>1. PICK c \in copies[Main] :
          /\ way \in {"hooks", "claudejson"} /\ c # Torn
          /\ Start("save", c, <<Edit(Main, "restore", CHOOSE e \in Entries : TRUE)>>)
    BY <1>8 DEF RestoreCopy
  <2>2. (CHOOSE e \in Entries : TRUE) \in Entries
    OBVIOUS
  <2>3. c \in Content /\ (last[Main] = 0 => c.base = 0)
    BY <2>1 DEF IInv, TypeOK, Bases, Docs
  <2> QED
    BY <2>1, <2>2, <2>3, StartOne DEF Docs
<1> QED
  BY <1>1, <1>2, <1>3, <1>4, <1>5, <1>6, <1>7, <1>8 DEF Command

LEMMA NextInv == IInv /\ [Next]_vars => IInv'
<1> SUFFICES ASSUME IInv, [Next]_vars PROVE IInv'
  OBVIOUS
<1>1. CASE UNCHANGED vars
  <2>1. TypeOK' /\ OpType'
    BY <1>1 DEF vars, IInv, OpGood, OpType, TypeOK
  <2>2. Planned' /\ OpBases'
    BY <1>1 DEF vars, IInv, OpGood, Planned, OpBases, Now, Restoring, Fits
  <2>3. Sees'
    BY <1>1 DEF vars, IInv, OpGood, Sees, Reading, GivesUp, Prepared, PutFits,
       Inspecting, RollingBack, Now, Restoring
  <2>4. Rewriting' /\ Bases' /\ LastWriteStands'
    BY <1>1 DEF vars, IInv, Rewriting, Bases, LastWriteStands, Held, Exchanged
  <2> QED
    BY <2>1, <2>2, <2>3, <2>4 DEF IInv, OpGood
<1>2. CASE Step
  BY <1>2, ReadInv, RestoreUnreadInv, BackupInv, RecheckInv, ReplaceInv, InspectInv, RollbackInv, StopInv DEF Step
<1>3. CASE Command \/ Load \/ (\E d \in Docs : CliWrite(d)) \/ CliBegin \/ CliEnd
  BY <1>3, CommandInv, LoadInv, CliWriteInv, CliBeginInv, CliEndInv
<1> QED
  BY <1>1, <1>2, <1>3 DEF Next

LEMMA SpecInv == Spec => []IInv
  BY InitInv, NextInv, PTL DEF Spec

\* Types hold in every behaviour.
THEOREM EditorsTypeCorrect == Spec => []TypeOK
<1>1. IInv => TypeOK
  BY DEF IInv
<1> QED
  BY SpecInv, <1>1, PTL

\* The last write of the CLI to a file stands after any number of commands of
\* the app, on any of the files, for any bounds, unless it was made where the
\* command no longer looked (the renames over settings.json and its like, the
\* last compare of ~/.claude.json, an exchange of config.toml being undone).
THEOREM EditorsKeepLastWrite == Spec => []LastWriteStands
<1>1. IInv => LastWriteStands
  BY DEF IInv
<1> QED
  BY SpecInv, <1>1, PTL
-----------------------------------------------------------------------------
\* What is about to be replaced stays there to be had back.
LEMMA CopiedStep == IInv /\ Copied /\ Step => Copied'
<1> SUFFICES ASSUME IInv, Copied, Step PROVE Copied'
  OBVIOUS
<1>1. UNCHANGED <<way, rewriting, last>> /\ exposed \subseteq exposed' /\ op # NoOp
  BY DEF Step, Read, RestoreUnread, Backup, BackupTorn, Recheck, Replace, Inspect, InspectFails, Rollback, Stop, At,
         CliKeeps, Idle, Expose
<1>2. CASE op' = NoOp
  BY <1>2 DEF Copied
<1>3. CASE Read /\ op' # NoOp
  <2>1. /\ file' = file /\ op'.step = Following("read") /\ op'.seen = file[Now.doc] /\ Now' = Now
    BY <1>1, <1>3, Underway DEF Read, End, Ops, Now
  <2>2. Following("read") \in {"backup", "recheck"} /\ (Following("read") = "recheck" <=> way = "codexconfig")
    BY DEF Following
  <2> QED
    BY <1>1, <2>1, <2>2 DEF Copied
<1>4. CASE Backup
  <2>1. /\ file' = file /\ op'.step = Following("backup") /\ op'.seen = op.seen /\ Now' = Now /\ op.step = "backup"
    BY <1>1, <1>4, Underway DEF Backup, At, GoOn, Ops, Now
  <2>2. Following("backup") = IF way = "claudejson" /\ ~Restoring THEN "recheck" ELSE "replace"
    BY DEF Following
  <2> DEFINE d == Now.doc
             kept == IF way = "codextext" THEN file[d] ELSE op.seen
  <2>3. kept = Missing \/ kept \in copies'[d]
    <3>1. d \in Docs /\ copies \in [Docs -> SUBSET Content]
      BY <1>1, Underway DEF IInv, TypeOK
    <3>2. CASE kept # Missing /\ Accumulates
      BY <1>4, <3>1, <3>2 DEF Backup
    <3>3. CASE kept # Missing /\ ~Accumulates
      BY <1>4, <3>1, <3>3 DEF Backup
    <3> QED
      BY <3>2, <3>3
  <2>4. CASE way = "claudejson" /\ ~Restoring
    BY <1>1, <2>1, <2>2, <2>3, <2>4 DEF Copied
  <2>5. CASE ~(way = "claudejson" /\ ~Restoring)
    <3>1. way = "codexconfig" \/ kept = file[d] \/ Excused(d) \/ Unread
      BY <1>1, <2>1, <2>5 DEF Copied, Restoring
    <3>2. (Excused(d) => Excused(d)') /\ (Unread /\ op' # NoOp => Unread')
      BY <1>1, <2>1 DEF Excused, Unread, Restoring
    <3> QED
      BY <1>1, <2>1, <2>2, <2>3, <2>5, <3>1, <3>2 DEF Copied
  <2> QED
    BY <2>4, <2>5
<1>5. CASE Recheck /\ op' # NoOp
  <2>1. /\ file' = file /\ copies' = copies /\ op.step = "recheck" /\ Now' = Now /\ op'.seen = op.seen
        /\ ~Restoring /\ way \in {"claudejson", "codexconfig"}
        /\ \/ op'.step = "read"
           \/ op'.step = Following("recheck") /\ file[Now.doc] = op.seen
    BY <1>1, <1>5, Underway DEF Recheck, At, GoOn, End, Ops, Now, IInv, OpGood, Planned
  <2>2. Following("recheck") = IF way = "codexconfig" THEN "backup" ELSE "replace"
    BY DEF Following
  <2> QED
    BY <1>1, <2>1, <2>2 DEF Copied, Restoring
<1>6. CASE Replace /\ op' # NoOp
  <2>1. CASE EditDone
    BY <1>1, <1>6, <2>1, NextEdit DEF Copied
  <2>2. CASE ~EditDone
    <3>1. way = "codexconfig" /\ Now.doc = Main
      BY <1>1, <1>6, <2>2 DEF Replace, End, IInv, OpGood, Planned, Fits
    <3>2. file' = [file EXCEPT ![Main] = op.put] /\ op'.put = op.put /\ Now' = Now /\ op'.step = "inspect"
      BY <1>1, <1>6, <3>1, Underway DEF Replace, End, Ops, Now
    <3>3. file'[Main] = op.put
      BY <3>2 DEF IInv, TypeOK, Docs
    <3> QED
      BY <1>1, <3>1, <3>2, <3>3 DEF Copied
  <2> QED
    BY <2>1, <2>2
<1>7. CASE (Inspect \/ InspectFails) /\ op' # NoOp
  <2>1. way = "codexconfig" /\ Now.doc = Main /\ op.step = "inspect" /\ file' = file /\ Len(op.plan) = 1
    <3>1. op.step = "inspect" /\ file' = file
      BY <1>7 DEF Inspect, InspectFails, At
    <3>2. way = "codexconfig" /\ Now.doc = Main /\ Len(op.plan) # 2
      BY <1>1, <3>1 DEF IInv, OpGood, Planned, Fits
    <3> QED
      BY <1>1, <3>1, <3>2, Underway
  <2>2. op'.step = "rollback" /\ op'.put = op.put /\ Now' = Now
    BY <1>1, <1>7, <2>1, Underway DEF Inspect, InspectFails, EditDone, End, Ops, Now
  <2>3. Excused(Main) => Excused(Main)'
    BY <1>1, <2>1 DEF Excused
  <2>4. file[Main] = op.put \/ Excused(Main)'
    <3>1. CASE Inspect
      <4>1. op.aside # op.snap
        BY <1>7, <2>1, <3>1 DEF Inspect, EditDone, End
      <4> QED
        BY <1>1, <2>1, <2>3, <4>1 DEF Copied
    <3>2. CASE InspectFails
      <4>1. file[Main] # op.put /\ last[Main] # 0 => last[Main] \in exposed'
        BY <3>2 DEF InspectFails, Expose
      <4> QED
        BY <1>1, <2>1, <2>3, <4>1 DEF Copied, Excused
    <3> QED
      BY <1>7, <3>1, <3>2
  <2> QED
    BY <1>1, <2>1, <2>2, <2>4 DEF Copied, Restoring
<1>8. CASE RestoreUnread
  <2>1. /\ op'.step = Following("read") /\ op'.seen = Missing /\ Now' = Now /\ Restoring /\ way = "claudejson"
    BY <1>1, <1>8, Underway DEF RestoreUnread, Ops, Now
  <2>2. Following("read") = "backup"
    BY <2>1 DEF Following
  <2> QED
    BY <1>1, <2>1, <2>2 DEF Copied, Unread, Restoring
<1> QED
  BY <1>2, <1>3, <1>4, <1>5, <1>6, <1>7, <1>8 DEF Step, BackupTorn, Rollback, Stop, End

LEMMA CopiedCli == IInv /\ Copied /\ ((\E d \in Docs : CliWrite(d)) \/ CliBegin \/ CliEnd) => Copied'
<1> SUFFICES ASSUME IInv, Copied, (\E d \in Docs : CliWrite(d)) \/ CliBegin \/ CliEnd, op # NoOp, op' # NoOp
             PROVE  Copied'
  BY CliOp DEF Copied, CliEnd, CliBegin, CliWrite, Docs
<1>1. /\ Now.doc \in Docs /\ op.step \in Steps /\ Fits(Now) /\ file \in [Docs -> Content] /\ writes \in Nat
      /\ Missing.base = 0 /\ (op.step \in {"inspect", "rollback"} => way = "codexconfig" /\ ~Restoring)
  <2>1. Fits(Now) /\ (op.step \in {"inspect", "rollback"} => way = "codexconfig" /\ ~Restoring)
    BY DEF IInv, OpGood, Planned, Fits, Restoring
  <2>2. file \in [Docs -> Content] /\ writes \in Nat
    BY Bounds DEF IInv, TypeOK
  <2> QED
    BY <2>1, <2>2, Underway, ContentIs
<1>2. ASSUME NEW d \in Docs, CliWrite(d) PROVE Copied'
  <2>1. /\ CliWrote(d) /\ last' = [last EXCEPT ![d] = writes + 1] /\ rewriting' = rewriting
        /\ \E c \in CliContents(file[d]) : file' = [file EXCEPT ![d] = c]
    BY <1>2 DEF CliWrite
  <2>2. /\ UNCHANGED <<way, copies>> /\ Now' = Now /\ op'.step = op.step /\ op'.seen = op.seen /\ op'.put = op.put
        /\ op'.aside = op.aside /\ op'.snap = op.snap
        /\ exposed \subseteq exposed' /\ (Blind(d) => writes + 1 \in exposed') /\ writes + 1 \in 0..MaxTurns
    BY <2>1, CliOp
  <2>3. file'[d].base = writes + 1 /\ last'[d] = writes + 1 /\ writes + 1 # 0 /\ \A x \in Docs \ {d} : file'[x] = file[x]
    BY <1>1, <2>1, <2>2, CliContentType DEF IInv, TypeOK
  <2>4. CASE d = Now.doc
    <3>1. Blind(d) => Excused(Now.doc)'
      BY <2>2, <2>3, <2>4 DEF Excused
    <3>2. op.step \in {"backup", "replace"} /\ way \notin {"claudejson", "codexconfig"} => Blind(d)
      BY <2>4 DEF Blind, Restoring
    <3>3. Restoring \/ (op.step = "replace" /\ way = "claudejson") => Blind(d)
      BY <2>4 DEF Blind, Restoring
    <3>4. op.step = "rollback" \/ (op.step = "inspect" /\ op.aside # op.snap) => Blind(d)
      BY <1>1, <2>4 DEF Blind
    <3> QED
      BY <2>2, <2>3, <2>4, <3>1, <3>2, <3>3, <3>4 DEF Copied, Restoring
  <2>5. CASE d # Now.doc
    <3>1. file'[Now.doc] = file[Now.doc] /\ last'[Now.doc] = last[Now.doc]
      BY <1>1, <2>1, <2>3, <2>5 DEF IInv, TypeOK
    <3>2. Excused(Now.doc) => Excused(Now.doc)'
      BY <2>1, <2>2, <3>1 DEF Excused
    <3> QED
      BY <2>2, <3>1, <3>2 DEF Copied, Restoring, Unread
  <2> QED
    BY <2>4, <2>5
<1>3. CASE CliBegin
  <2>1. CliWrote(Main) /\ way = "claudejson" /\ file' = [file EXCEPT ![Main] = Torn] /\ rewriting' \in CliContents(file[Main])
    BY <1>3 DEF CliBegin
  <2>2. /\ UNCHANGED <<way, copies>> /\ Now' = Now /\ op'.step = op.step /\ op'.seen = op.seen
        /\ (Blind(Main) => writes + 1 \in exposed') /\ writes + 1 \in 0..MaxTurns
    BY <2>1, CliOp DEF Docs
  <2>3. Now.doc = Main /\ file'[Main] = Torn /\ rewriting'.base = writes + 1
    BY <1>1, <2>1, <2>2, CliContentType DEF Fits, Docs
  <2>4. Blind(Main) => Excused(Main)'
    BY <2>2, <2>3 DEF Excused
  <2>5. Restoring \/ op.step = "replace" => Blind(Main)
    BY <2>1, <2>3 DEF Blind
  <2> QED
    BY <1>1, <2>1, <2>2, <2>3, <2>4, <2>5 DEF Copied, Restoring
<1>4. CASE CliEnd
  <2>1. /\ UNCHANGED <<way, copies, op, exposed>> /\ rewriting # Missing
        /\ file' = IF file[Main] = Torn THEN [file EXCEPT ![Main] = rewriting] ELSE file
        /\ Now' = Now
    BY <1>4 DEF CliEnd, Now
  <2>2. way = "claudejson" /\ Now.doc = Main
    BY <1>1, <2>1 DEF IInv, Rewriting, Fits
  <2>3. op.step \in {"backup", "replace"} /\ (Restoring \/ op.step = "replace") => rewriting.base \in exposed
    BY <2>1, <2>2 DEF IInv, OpGood, Sees, Prepared, PutFits
  <2>4. CASE file[Main] = Torn
    <3>1. file'[Main] = rewriting
      BY <1>1, <2>1, <2>4 DEF Docs
    <3>2. op.step \in {"backup", "replace"} /\ (Restoring \/ op.step = "replace") => Excused(Main)'
      BY <2>1, <2>3, <3>1 DEF Excused
    <3> QED
      BY <1>1, <2>1, <2>2, <3>2 DEF Copied, Restoring
  <2>5. CASE file[Main] # Torn
    BY <1>1, <2>1, <2>2, <2>5 DEF Copied, Restoring, Excused, Unread
  <2> QED
    BY <2>4, <2>5
<1> QED
  BY <1>2, <1>3, <1>4

LEMMA CopiedInv == IInv /\ Copied /\ [Next]_vars => Copied'
<1> SUFFICES ASSUME IInv, Copied, [Next]_vars PROVE Copied'
  OBVIOUS
<1>1. CASE UNCHANGED vars
  BY <1>1 DEF vars, Copied, Excused, Now, Restoring, Unread
<1>2. CASE Command
  <2>1. op' = NoOp \/ op'.step = "read"
    BY <1>2 DEF Command, UpdateGlobalSettings, WriteStatusLine, AddPermissionRule, RemovePermissionRule,
       MovePermissionRule, DisableHook, EnableHook, AddDisabledHookGroups, WriteTextFile, PatchText,
       ApplyMemoryIndexFix, CreateAgent, PurgeClaudeJsonProjects, AddGlobalMcpServer, UpdateGlobalMcpServer,
       RestoreCopy, CodexTextApply, CodexTransform, CodexSettingsApply, StartOn, StartFromView, Start
  <2> QED
    BY <2>1 DEF Copied
<1>3. CASE Load
  BY <1>3 DEF Load, Copied
<1> QED
  BY <1>1, <1>2, <1>3, CopiedStep, CopiedCli DEF Next

LEMMA SpecCopied == Spec => []Copied
<1>1. Init => Copied
  BY DEF Init, Copied
<1> QED
  BY <1>1, SpecInv, CopiedInv, PTL DEF Spec

\* Of the app's steps, only the rename and its undoing write a file.
LEMMA OnlyReplaces ==
  ASSUME IInv, Next, AppStep, file' # file
  PROVE  Replace \/ Rollback
<1>1. ~Command /\ ~Load
  BY DEF Load, Command, UpdateGlobalSettings, WriteStatusLine, AddPermissionRule, RemovePermissionRule,
     MovePermissionRule, DisableHook, EnableHook, AddDisabledHookGroups, WriteTextFile, PatchText,
     ApplyMemoryIndexFix, CreateAgent, PurgeClaudeJsonProjects, AddGlobalMcpServer, UpdateGlobalMcpServer,
     RestoreCopy, CodexTextApply, CodexTransform, CodexSettingsApply, StartOn, StartFromView, Start
<1>2. ~CliBegin /\ ~CliEnd /\ ~(\E d \in Docs : CliWrite(d))
  BY CliOp DEF AppStep, CliBegin, CliEnd, CliWrite, IInv, TypeOK, Docs
<1> QED
  BY <1>1, <1>2 DEF Next, Step, Read, RestoreUnread, Backup, BackupTorn, Recheck, Inspect, InspectFails, Stop

\* What any command of the app replaces can be had back, from its copy or from
\* the file the exchange put aside, whatever the CLI writes meanwhile, unless
\* it is the command's own write undone, one made where it no longer looked, or
\* a ~/.claude.json that a restore could not read.
THEOREM EditorsReplacedCanBeHadBack == Spec => ReplacedCanBeHadBack
<1> DEFINE Back(d) == \/ file'[d] = file[d] \/ file[d] = Missing
                      \/ file[d] \in copies'[d] \/ file[d] = op.put
                      \/ {file[d].base, rewriting.base} \cap exposed # {}
                      \/ (op' # NoOp /\ op'.aside = file[d]) \/ Unread
<1>1. IInv /\ Copied /\ [Next]_vars => [AppStep => \A d \in Docs : Back(d)]_vars
  <2> SUFFICES ASSUME IInv, Copied, Next, AppStep PROVE \A d \in Docs : Back(d)
    OBVIOUS
  <2>1. CASE file' = file
    BY <2>1
  <2>2. CASE Replace
    <3>1. op # NoOp /\ op.step = "replace" /\ copies' = copies
      BY <2>2 DEF Replace, At
    <3>2. CASE way # "codexconfig"
      <4>1. file' = [file EXCEPT ![Now.doc] = op.put]
        BY <2>2, <3>2 DEF Replace
      <4>2. Back(Now.doc)
        BY <3>1, <3>2 DEF Copied, Excused
      <4> QED
        BY <4>1, <4>2 DEF IInv, TypeOK
    <3>3. CASE way = "codexconfig" /\ op.seen = Missing
      BY <2>2, <3>3 DEF Replace, IInv, TypeOK
    <3>4. CASE way = "codexconfig" /\ op.seen # Missing
      <4>1. file' = [file EXCEPT ![Main] = op.put] /\ op'.aside = file[Main] /\ op'.step = "inspect"
        BY <2>2, <3>1, <3>4, Underway DEF Replace, Ops
      <4>2. op' # NoOp
        BY <2>2, <3>1, <3>4, Underway DEF Replace, Ops, NoOp
      <4> QED
        BY <4>1, <4>2 DEF IInv, TypeOK
    <3> QED
      BY <3>2, <3>3, <3>4
  <2>3. CASE Rollback
    <3>1. op # NoOp /\ op.step = "rollback" /\ file' = [file EXCEPT ![Main] = op.aside]
      BY <2>3 DEF Rollback, At
    <3>2. Now.doc = Main
      BY <3>1 DEF IInv, OpGood, Planned, Fits
    <3>3. Back(Main)
      BY <3>1, <3>2 DEF Copied, Excused
    <3> QED
      BY <3>1, <3>3 DEF IInv, TypeOK
  <2>4. file' # file => Replace \/ Rollback
    BY OnlyReplaces
  <2> QED
    BY <2>1, <2>2, <2>3, <2>4
<1>2. [AppStep => \A d \in Docs : Back(d)]_vars => [AppStep => \A d \in Docs : file'[d] = file[d] \/ file[d] = Missing
       \/ file[d] \in copies'[d] \/ file[d] = op.put \/ {file[d].base, rewriting.base} \cap exposed # {}
       \/ (op' # NoOp /\ op'.aside = file[d]) \/ Unread]_vars
  OBVIOUS
<1> HIDE DEF Back
<1> QED
  BY <1>1, <1>2, SpecInv, SpecCopied, PTL DEF Spec, ReplacedCanBeHadBack
-----------------------------------------------------------------------------
(***************************************************************************)
(* What an entry is lost or moved by.  For the commands no write of the    *)
(* CLI fell into, the invariant follows the plan: what kind of command     *)
(* makes which edits, that what is put in place was made of what is there, *)
(* and what the first edit of two has left behind.                         *)
(***************************************************************************)
KindFits ==
  op # NoOp =>
    /\ Now.how \in {"drop", "gone"} => op.kind \in {"remove", "move", "stay"}
    /\ Now.how = "take" <=> op.kind = "toggle" /\ Len(op.plan) = 1
    /\ op.kind \in {"move", "toggle"} => way \in {"hooks", "rules"}
    /\ Len(op.plan) = 2 => LET then == Head(Tail(op.plan)) IN
         /\ Now.how = "add" /\ then.entry = Now.entry
         /\ then.how = IF op.kind = "toggle" THEN "take" ELSE "drop"
         /\ \/ op.kind \in {"move", "toggle"} /\ then.doc # Now.doc
            \/ op.kind = "stay"

\* What is to be put in place was made of what was read.
PutIs ==
  op # NoOp /\ op.step # "read" => /\ op.put \in Edited(op.seen, Now.how, Now.entry, op.snap)
                                   /\ ~Restoring => op.seen # Torn

HasMoved ==
  IF Len(op.plan) = 2 THEN file = op.before
  ELSE /\ file[Now.doc] = op.before[Now.doc]
       /\ \A d \in Docs \ {Now.doc} : file[d].bag = [op.before[d].bag EXCEPT ![Now.entry] = @ + 1]

Untouched ==
  op # NoOp /\ ~op.touched =>
    /\ op.step \in {"backup", "recheck", "replace"} /\ ~Restoring => file[Now.doc] = op.seen
    /\ op.step \in {"inspect", "rollback"} => op.aside = op.seen
    /\ op.kind = "move" /\ Len(op.plan) = 1 => \A d \in Docs \ {Now.doc} : file[d].bag[Now.entry] > 0
    /\ op.kind = "toggle" => HasMoved

Tracked == KindFits /\ PutIs /\ Untouched

\* A command starts with one edit, or with an addition and a removal.
OneEdit(kind, plan) ==
  \E d \in Docs, how \in Hows, e \in Entries :
    /\ plan = <<Edit(d, how, e)>>
    /\ kind \in {"save", "put", "remove"} /\ how # "take"
    /\ how \in {"drop", "gone"} => kind = "remove"

TwoEdits(kind, plan) ==
  \E from \in Docs, to \in Docs, e \in Entries :
    /\ plan = <<Edit(to, "add", e), Edit(from, IF kind = "toggle" THEN "take" ELSE "drop", e)>>
    /\ way \in {"hooks", "rules"}
    /\ (kind \in {"move", "toggle"} /\ from # to) \/ kind = "stay"

Starts == \E kind, snap, plan : Start(kind, snap, plan) /\ (OneEdit(kind, plan) \/ TwoEdits(kind, plan))

LEMMA OneStarts ==
  ASSUME NEW kind \in {"save", "put", "remove"}, NEW how \in Hows, how # "take",
         how \in {"drop", "gone"} => kind = "remove",
         NEW snap, NEW d \in Docs, NEW e \in Entries, Start(kind, snap, <<Edit(d, how, e)>>)
  PROVE  Starts
<1>1. PICK plan : plan = <<Edit(d, how, e)>>
  OBVIOUS
<1>2. Start(kind, snap, plan)
  BY <1>1
<1>3. OneEdit(kind, plan)
  BY <1>1 DEF OneEdit
<1> QED
  BY <1>2, <1>3 DEF Starts

LEMMA OneStartsOn ==
  ASSUME NEW kind \in {"save", "put", "remove"}, NEW how \in Hows, how # "take",
         how \in {"drop", "gone"} => kind = "remove",
         StartOn(kind, how) \/ StartFromView(kind, how)
  PROVE  Starts
<1>1. PICK e \in Entries : \E snap : Start(kind, snap, <<Edit(Main, how, e)>>)
  BY DEF StartOn, StartFromView
<1>2. PICK snap : Start(kind, snap, <<Edit(Main, how, e)>>)
  BY <1>1
<1>3. Main \in Docs
  BY DEF Docs
<1> QED
  BY <1>2, <1>3, OneStarts

LEMMA TwoStart ==
  ASSUME NEW kind, NEW from \in Docs, NEW to \in Docs, NEW e \in Entries, way \in {"hooks", "rules"},
         (kind \in {"move", "toggle"} /\ from # to) \/ kind = "stay",
         Start(kind, Missing, <<Edit(to, "add", e), Edit(from, IF kind = "toggle" THEN "take" ELSE "drop", e)>>)
  PROVE  Starts
<1>1. PICK plan : plan = <<Edit(to, "add", e), Edit(from, IF kind = "toggle" THEN "take" ELSE "drop", e)>>
  OBVIOUS
<1>2. Start(kind, Missing, plan)
  BY <1>1
<1>3. TwoEdits(kind, plan)
  BY <1>1 DEF TwoEdits
<1> QED
  BY <1>2, <1>3 DEF Starts

LEMMA CommandStarts == Command => Starts
<1> SUFFICES ASSUME Command PROVE Starts
  OBVIOUS
<1>0. {"add", "put", "drop", "merge", "new", "gone", "change", "create", "section", "whole", "restore"} \subseteq Hows
      /\ Listed \subseteq Entries /\ Main \in Docs /\ Other \in Docs
  BY DEF Hows, Docs
<1>1. CASE UpdateGlobalSettings
  <2>1. PICK e \in Listed : Start("save", view[Main], <<Edit(Main, "section", e)>>)
    BY <1>1 DEF UpdateGlobalSettings
  <2> QED
    BY <1>0, <2>1, OneStarts
<1>2. CASE AddPermissionRule
  <2>1. PICK d \in Docs, e \in Listed : Start("put", Missing, <<Edit(d, "add", e)>>)
    BY <1>2 DEF AddPermissionRule
  <2> QED
    BY <1>0, <2>1, OneStarts
<1>3. CASE RemovePermissionRule
  <2>1. PICK d \in Docs, e \in Listed : Start("remove", Missing, <<Edit(d, "drop", e)>>)
    BY <1>3 DEF RemovePermissionRule
  <2> QED
    BY <1>0, <2>1, OneStarts
<1>4. CASE MovePermissionRule
  <2>1. PICK from \in Docs, to \in Docs, e \in Listed :
          /\ way = "rules"
          /\ Start(IF from = to THEN "stay" ELSE "move", Missing, <<Edit(to, "add", e), Edit(from, "drop", e)>>)
    BY <1>4 DEF MovePermissionRule
  <2>2. CASE from = to
    <3>1. Start("stay", Missing, <<Edit(to, "add", e), Edit(from, IF "stay" = "toggle" THEN "take" ELSE "drop", e)>>)
      BY <2>1, <2>2
    <3> QED
      BY <1>0, <2>1, <3>1, TwoStart
  <2>3. CASE from # to
    <3>1. Start("move", Missing, <<Edit(to, "add", e), Edit(from, IF "move" = "toggle" THEN "take" ELSE "drop", e)>>)
      BY <2>1, <2>3
    <3> QED
      BY <1>0, <2>1, <2>3, <3>1, TwoStart
  <2> QED
    BY <2>2, <2>3
<1>5. CASE DisableHook \/ EnableHook
  <2>1. PICK from \in Docs, to \in Docs, e \in Entries :
          /\ way = "hooks" /\ from # to
          /\ Start("toggle", Missing, <<Edit(to, "add", e), Edit(from, "take", e)>>)
    BY <1>0, <1>5 DEF DisableHook, EnableHook, Main, Other
  <2>2. Start("toggle", Missing, <<Edit(to, "add", e), Edit(from, IF "toggle" = "toggle" THEN "take" ELSE "drop", e)>>)
    BY <2>1
  <2> QED
    BY <2>1, <2>2, TwoStart
<1>6. CASE AddDisabledHookGroups
  <2>1. PICK e \in Entries : Start("put", Missing, <<Edit(Other, "merge", e)>>)
    BY <1>6 DEF AddDisabledHookGroups
  <2> QED
    BY <1>0, <2>1, OneStarts
<1>7. CASE RestoreCopy
  <2>1. PICK c \in copies[Main] : Start("save", c, <<Edit(Main, "restore", CHOOSE e \in Entries : TRUE)>>)
    BY <1>7 DEF RestoreCopy
  <2>2. (CHOOSE e \in Entries : TRUE) \in Entries
    OBVIOUS
  <2> QED
    BY <1>0, <2>1, <2>2, OneStarts
<1>8. CASE \/ StartOn("put", "put") \/ StartOn("remove", "drop") \/ StartOn("put", "new") \/ StartOn("remove", "gone")
           \/ StartOn("put", "create") \/ StartOn("put", "change")
           \/ StartFromView("save", "whole") \/ StartFromView("put", "put")
  <2>1. \A k \in {"save", "put", "remove"} :
          \A how \in {"put", "drop", "new", "gone", "create", "change", "whole"} :
            (how \in {"drop", "gone"} => k = "remove") /\ (StartOn(k, how) \/ StartFromView(k, how)) => Starts
    BY <1>0, OneStartsOn
  <2> QED
    BY <1>8, <2>1
<1> QED
  BY <1>1, <1>2, <1>3, <1>4, <1>5, <1>6, <1>7, <1>8
  DEF Command, WriteStatusLine, WriteTextFile, PatchText, ApplyMemoryIndexFix, CreateAgent,
      PurgeClaudeJsonProjects, AddGlobalMcpServer, UpdateGlobalMcpServer,
      CodexTextApply, CodexTransform, CodexSettingsApply

LEMMA TrackedCommand == IInv /\ Command => Tracked'
<1> SUFFICES ASSUME IInv, Command PROVE Tracked'
  OBVIOUS
<1>1. PICK kind, snap, plan : Start(kind, snap, plan) /\ (OneEdit(kind, plan) \/ TwoEdits(kind, plan))
  BY CommandStarts DEF Starts
<1>2. /\ op'.step = "read" /\ op'.kind = kind /\ op'.plan = plan
      /\ op'.before = IF Len(plan) = 2 THEN file ELSE [d \in Docs |-> Missing]
      /\ file' = file /\ way' = way
  BY <1>1 DEF Start
<1>3. CASE OneEdit(kind, plan)
  <2>1. PICK d \in Docs, how \in Hows, e \in Entries :
          /\ plan = <<Edit(d, how, e)>>
          /\ kind \in {"save", "put", "remove"} /\ how # "take"
          /\ how \in {"drop", "gone"} => kind = "remove"
    BY <1>3 DEF OneEdit
  <2>2. Len(plan) = 1 /\ Head(plan) = Edit(d, how, e)
    BY <2>1
  <2>3. Len(op'.plan) = 1 /\ Now'.how = how
    BY <1>2, <2>2 DEF Now, Edit
  <2> QED
    BY <1>2, <2>1, <2>3 DEF Tracked, KindFits, PutIs, Untouched
<1>4. CASE TwoEdits(kind, plan)
  <2>1. PICK from \in Docs, to \in Docs, e \in Entries :
          /\ plan = <<Edit(to, "add", e), Edit(from, IF kind = "toggle" THEN "take" ELSE "drop", e)>>
          /\ way \in {"hooks", "rules"}
          /\ (kind \in {"move", "toggle"} /\ from # to) \/ kind = "stay"
    BY <1>4 DEF TwoEdits
  <2>2. PICK how : how = IF kind = "toggle" THEN "take" ELSE "drop"
    OBVIOUS
  <2>3. Len(plan) = 2 /\ Head(plan) = Edit(to, "add", e) /\ Head(Tail(plan)) = Edit(from, how, e)
    BY <2>1, <2>2
  <2>4. /\ Len(op'.plan) = 2 /\ Now'.how = "add" /\ Now'.entry = e /\ Now'.doc = to
        /\ Head(Tail(op'.plan)).how = how /\ Head(Tail(op'.plan)).entry = e /\ Head(Tail(op'.plan)).doc = from
    <3>1. Len(op'.plan) = 2 /\ Now' = Edit(to, "add", e) /\ Head(Tail(op'.plan)) = Edit(from, how, e)
      BY <1>2, <2>3 DEF Now
    <3>2. /\ Edit(to, "add", e).doc = to /\ Edit(to, "add", e).how = "add" /\ Edit(to, "add", e).entry = e
          /\ Edit(from, how, e).doc = from /\ Edit(from, how, e).how = how /\ Edit(from, how, e).entry = e
      BY DEF Edit
    <3>3. Now'.how = "add" /\ Now'.entry = e /\ Now'.doc = to
      BY ONLY <3>1, <3>2
    <3>4. Head(Tail(op'.plan)).how = how /\ Head(Tail(op'.plan)).entry = e /\ Head(Tail(op'.plan)).doc = from
      BY ONLY <3>1, <3>2
    <3> QED
      BY <3>1, <3>3, <3>4
  <2>5. KindFits'
    BY <1>2, <2>1, <2>2, <2>4 DEF KindFits
  <2>6. Untouched'
    BY <1>2, <2>3, <2>4 DEF Untouched, HasMoved
  <2> QED
    BY <1>2, <2>5, <2>6 DEF Tracked, PutIs
<1> QED
  BY <1>1, <1>3, <1>4
LEMMA WithBag ==
  ASSUME NEW c \in Content, NEW e \in Entries, NEW n \in Nat
  PROVE  /\ With(c, e, n).bag = [c.bag EXCEPT ![e] = n] /\ With(c, e, n).bag[e] = n
         /\ \A x \in Entries \ {e} : With(c, e, n).bag[x] = c.bag[x]
  BY DEF With, Content

\* The next edit of a plan of two: the first has left its entry behind.
LEMMA TrackedNext ==
  ASSUME IInv, Tracked, op # NoOp, op.step = "replace", way' = way,
         file' = [file EXCEPT ![Now.doc] = op.put], EditDone
  PROVE  Tracked'
<1>1. CASE op' = NoOp
  BY <1>1 DEF Tracked, KindFits, PutIs, Untouched
<1>2. CASE op' # NoOp
  <2>1. op' = [op EXCEPT !.step = "read", !.plan = Tail(op.plan)] /\ Len(op.plan) # 1
    BY <1>2 DEF EditDone, End
  <2>2. PICK plan \in Seq(Edits) : plan = op.plan /\ Len(plan) \in 1..2
    BY Underway
  <2>3. Len(plan) = 2
    BY <2>1, <2>2
  <2>4. Tail(plan) \in Seq(Edits) /\ Len(Tail(plan)) = 1 /\ Head(Tail(plan)) \in Edits
    BY <2>2, <2>3, PlanHead
  <2>5. /\ op'.step = "read" /\ op'.plan = Tail(plan) /\ op'.kind = op.kind /\ op'.before = op.before
        /\ op'.touched = op.touched /\ Now' = Head(Tail(plan))
    BY <2>1, <2>2, Underway DEF Ops, Now
  <2>6. PICK then \in Edits : then = Head(Tail(plan))
    BY <2>4
  <2>7. /\ Now.how = "add" /\ then.entry = Now.entry
        /\ then.how = IF op.kind = "toggle" THEN "take" ELSE "drop"
        /\ (op.kind \in {"move", "toggle"} /\ then.doc # Now.doc) \/ op.kind = "stay"
        /\ op.kind \in {"move", "toggle"} => way \in {"hooks", "rules"}
    BY <2>2, <2>3, <2>6 DEF Tracked, KindFits
  <2>8. KindFits'
    <3>1. Len(op'.plan) = 1 /\ op'.kind = op.kind /\ Now' = then /\ way' = way
      BY <2>4, <2>5, <2>6
    <3>2. then.how = IF op.kind = "toggle" THEN "take" ELSE "drop"
      BY <2>7
    <3>3. op.kind \in {"move", "toggle", "stay"} /\ (op.kind \in {"move", "toggle"} => way \in {"hooks", "rules"})
      BY <2>7
    <3> QED
      BY <3>1, <3>2, <3>3 DEF KindFits
  <2>9. Untouched'
    <3> SUFFICES ASSUME ~op.touched, op.kind \in {"move", "toggle"} PROVE Untouched'
      BY <2>5, <2>7 DEF Untouched
    <3>1. file[Now.doc] = op.seen /\ (op.kind = "toggle" => file = op.before)
      BY <2>2, <2>3, <2>7 DEF Tracked, Untouched, HasMoved, Restoring
    <3>2. op.put = With(op.seen, Now.entry, op.seen.bag[Now.entry] + 1)
      BY <2>7 DEF Tracked, PutIs, Edited
    <3>3. op.seen \in Content /\ Now.entry \in Entries /\ Now.doc \in Docs
      BY Underway
    <3>4. op.seen.bag[Now.entry] \in Nat
      BY <3>3 DEF Content
    <3>5. op.put.bag = [op.seen.bag EXCEPT ![Now.entry] = op.seen.bag[Now.entry] + 1] /\ op.put.bag[Now.entry] > 0
      <4>1. PICK n \in Nat : n = op.seen.bag[Now.entry] + 1 /\ n > 0
        BY <3>4
      <4>2. op.put = With(op.seen, Now.entry, n)
        BY <3>2, <4>1
      <4>3. op.put.bag = [op.seen.bag EXCEPT ![Now.entry] = n] /\ op.put.bag[Now.entry] = n
        BY <3>3, <4>1, <4>2, WithBag
      <4> QED
        BY <4>1, <4>3
    <3>6. /\ file'[Now.doc] = op.put /\ file'[then.doc] = file[then.doc] /\ then.doc # Now.doc
          /\ Docs \ {then.doc} = {Now.doc}
      BY <2>7, <3>3 DEF IInv, TypeOK, Edits, Docs
    <3>7. op.kind = "toggle" => HasMoved'
      <4>1. Len(op'.plan) = 1 /\ Now' = then /\ op'.before = op.before
        BY <2>4, <2>5, <2>6
      <4>2. ASSUME op.kind = "toggle"
            PROVE  /\ file'[then.doc] = op.before[then.doc]
                   /\ file'[Now.doc].bag = [op.before[Now.doc].bag EXCEPT ![then.entry] = @ + 1]
        BY <2>7, <3>1, <3>5, <3>6, <4>2
      <4>3. ASSUME op.kind = "toggle"
            PROVE  \A d \in Docs \ {then.doc} : file'[d].bag = [op.before[d].bag EXCEPT ![then.entry] = @ + 1]
        BY <3>6, <4>2, <4>3
      <4> QED
        BY <4>1, <4>2, <4>3 DEF HasMoved
    <3> QED
      BY <2>5, <2>6, <2>7, <3>5, <3>6, <3>7 DEF Untouched
  <2> QED
    BY <2>5, <2>8, <2>9 DEF Tracked, PutIs
<1> QED
  BY <1>1, <1>2

LEMMA TrackedStep == IInv /\ Tracked /\ Step => Tracked'
<1> SUFFICES ASSUME IInv, Tracked, Step, op' # NoOp PROVE Tracked'
  BY DEF Tracked, KindFits, PutIs, Untouched
<1> USE DEF Tracked
<1>0. op # NoOp /\ way' = way
  BY DEF Step, Read, RestoreUnread, Backup, BackupTorn, Recheck, Replace, Inspect, InspectFails, Rollback, Stop, At, Idle
<1>1. CASE Read
  <2>1. PICK put \in Edited(file[Now.doc], Now.how, Now.entry, op.snap) :
          /\ op' = [op EXCEPT !.step = Following("read"), !.seen = file[Now.doc], !.put = put]
          /\ ~Unreadable(file[Now.doc])
    BY <1>1 DEF Read, End
  <2>2. /\ op'.step = Following("read") /\ op'.seen = file[Now.doc] /\ op'.put = put /\ op'.plan = op.plan
        /\ op'.kind = op.kind /\ op'.before = op.before /\ op'.touched = op.touched /\ op'.snap = op.snap
        /\ Now' = Now /\ file' = file
    BY <1>0, <1>1, <2>1, Underway DEF Read, Ops, Now
  <2>3. Following("read") \in {"backup", "recheck"}
    BY DEF Following
  <2>4. KindFits'
    BY <1>0, <2>2 DEF KindFits
  <2>5. PutIs'
    BY <2>1, <2>2 DEF PutIs, Unreadable, Restoring
  <2>6. Untouched'
    BY <1>0, <2>2, <2>3 DEF Untouched, HasMoved
  <2> QED
    BY <2>4, <2>5, <2>6
<1>2. CASE Backup \/ (Recheck /\ op'.step # "read")
  <2>1. op' = [op EXCEPT !.step = Following(op.step)] /\ file' = file /\ op.step \in {"backup", "recheck"}
    <3>1. CASE Backup
      BY <3>1 DEF Backup, At, GoOn
    <3>2. CASE Recheck /\ op'.step # "read"
      BY <1>0, <3>2, Underway DEF Recheck, At, GoOn, End, Ops
    <3> QED
      BY <1>2, <3>1, <3>2
  <2>2. Following(op.step) \in {"backup", "recheck", "replace"}
    BY <2>1 DEF Following
  <2>3. /\ op'.step = Following(op.step) /\ op'.seen = op.seen /\ op'.put = op.put /\ op'.plan = op.plan
        /\ op'.kind = op.kind /\ op'.before = op.before /\ op'.touched = op.touched /\ op'.snap = op.snap
        /\ Now' = Now
    BY <1>0, <2>1, Underway DEF Ops, Now
  <2>4. KindFits'
    BY <1>0, <2>3 DEF KindFits
  <2>5. PutIs'
    BY <1>0, <2>1, <2>3 DEF PutIs, Restoring
  <2>6. Untouched'
    BY <1>0, <2>1, <2>2, <2>3 DEF Untouched, HasMoved, Restoring
  <2> QED
    BY <2>4, <2>5, <2>6
<1>3. CASE Recheck /\ op'.step = "read"
  <2>1. op' = [op EXCEPT !.step = "read", !.retried = TRUE] /\ file' = file
    <3>1. Following("recheck") # "read"
      BY DEF Following
    <3> QED
      BY <1>0, <1>3, <3>1, Underway DEF Recheck, At, GoOn, End, Ops
  <2>2. /\ op'.plan = op.plan /\ op'.kind = op.kind /\ op'.before = op.before /\ op'.touched = op.touched
        /\ Now' = Now
    BY <1>0, <2>1, Underway DEF Ops, Now
  <2>3. KindFits'
    BY <1>0, <2>2 DEF KindFits
  <2>4. Untouched'
    BY <1>0, <1>3, <2>1, <2>2 DEF Untouched, HasMoved
  <2> QED
    BY <1>3, <2>3, <2>4 DEF PutIs
<1>4. CASE Replace /\ way # "codexconfig"
  BY <1>0, <1>4, TrackedNext DEF Replace, At
<1>5. CASE Replace /\ way = "codexconfig"
  <2>1. /\ op' = [op EXCEPT !.step = "inspect", !.aside = file[Main]] /\ op.step = "replace"
    BY <1>5 DEF Replace, End, At
  <2>2. /\ op'.step = "inspect" /\ op'.aside = file[Main] /\ op'.seen = op.seen /\ op'.put = op.put
        /\ op'.plan = op.plan /\ op'.kind = op.kind /\ op'.touched = op.touched /\ op'.snap = op.snap
        /\ Now' = Now
    BY <1>0, <2>1, Underway DEF Ops, Now
  <2>3. Now.doc = Main /\ ~Restoring /\ op.kind \notin {"move", "toggle"}
    BY <1>0, <1>5 DEF IInv, OpGood, Planned, Fits, Restoring, KindFits
  <2> QED
    BY <1>0, <2>1, <2>2, <2>3 DEF KindFits, PutIs, Untouched, Restoring
<1>6. CASE Inspect \/ InspectFails
  <2>1. op.step = "inspect" /\ file' = file /\ way = "codexconfig"
    BY <1>0, <1>6 DEF Inspect, InspectFails, At, IInv, OpGood, Planned
  <2>2. op' = [op EXCEPT !.step = "rollback"]
    <3>1. Len(op.plan) # 2
      BY <1>0, <2>1 DEF IInv, OpGood, Planned
    <3>2. Len(op.plan) = 1
      BY <1>0, <3>1, Underway
    <3> QED
      BY <1>6, <3>2 DEF Inspect, InspectFails, EditDone, End
  <2>3. /\ op'.step = "rollback" /\ op'.aside = op.aside /\ op'.seen = op.seen /\ op'.put = op.put
        /\ op'.plan = op.plan /\ op'.kind = op.kind /\ op'.touched = op.touched /\ op'.snap = op.snap
        /\ op'.before = op.before /\ Now' = Now
    BY <1>0, <2>2, Underway DEF Ops, Now
  <2> QED
    BY <1>0, <2>1, <2>3 DEF KindFits, PutIs, Untouched, HasMoved, Restoring
<1>7. CASE RestoreUnread
  <2>1. Following("read") = "backup"
    BY <1>7 DEF RestoreUnread, Following
  <2>2. /\ op'.step = "backup" /\ op'.seen = Missing /\ op'.put = op.snap /\ op'.plan = op.plan
        /\ op'.kind = op.kind /\ op'.before = op.before /\ op'.touched = op.touched /\ op'.snap = op.snap
        /\ Now' = Now /\ file' = file /\ Now.how = "restore"
    BY <1>0, <1>7, <2>1, Underway DEF RestoreUnread, Ops, Now, Restoring
  <2>3. KindFits'
    BY <1>0, <2>2 DEF KindFits
  <2>4. PutIs'
    BY <2>2 DEF PutIs, Restoring, Edited
  <2>5. Untouched'
    BY <1>0, <2>2 DEF Untouched, HasMoved, Restoring
  <2> QED
    BY <2>3, <2>4, <2>5
<1> QED
  BY <1>1, <1>2, <1>3, <1>4, <1>5, <1>6, <1>7 DEF Step, BackupTorn, Rollback, Stop, End

LEMMA TrackedCli == IInv /\ Tracked /\ ((\E d \in Docs : CliWrite(d)) \/ CliBegin \/ CliEnd) => Tracked'
<1> SUFFICES ASSUME IInv, Tracked, op' # NoOp, (\E d \in Docs : CliWrite(d)) \/ CliBegin \/ CliEnd PROVE Tracked'
  BY DEF Tracked, KindFits, PutIs, Untouched
<1> USE DEF Tracked
<1>1. ASSUME NEW d \in Docs, CliWrote(d) PROVE Tracked'
  <2>1. op # NoOp /\ op' = [op EXCEPT !.touched = TRUE] /\ way' = way
    BY <1>1 DEF CliWrote
  <2>2. /\ op'.step = op.step /\ op'.seen = op.seen /\ op'.put = op.put /\ op'.plan = op.plan
        /\ op'.kind = op.kind /\ op'.touched = TRUE /\ op'.snap = op.snap /\ Now' = Now
    BY <2>1, Underway DEF Ops, Now
  <2> QED
    BY <2>1, <2>2 DEF KindFits, PutIs, Untouched, Restoring
<1>2. CASE CliEnd
  <2>1. /\ UNCHANGED <<way, op>> /\ rewriting # Missing
        /\ file' = IF file[Main] = Torn THEN [file EXCEPT ![Main] = rewriting] ELSE file
    BY <1>2 DEF CliEnd
  <2>2. way = "claudejson" /\ op # NoOp
    BY <2>1 DEF IInv, Rewriting
  <2>3. Now.doc = Main /\ op.step \notin {"inspect", "rollback"} /\ op.kind \notin {"move", "toggle"} /\ Now' = Now
    BY <2>1, <2>2 DEF IInv, OpGood, Planned, Fits, KindFits, Now
  <2>4. KindFits' /\ PutIs'
    BY <2>1, <2>3 DEF KindFits, PutIs, Restoring
  <2>5. Untouched'
    <3>1. ASSUME ~op.touched, op.step \in {"backup", "recheck", "replace"}, ~Restoring
          PROVE  file' = file
      BY <2>1, <2>2, <2>3, <3>1 DEF PutIs, Untouched
    <3> QED
      BY <2>1, <2>2, <2>3, <3>1 DEF Untouched, Restoring
  <2> QED
    BY <2>4, <2>5
<1> QED
  BY <1>1, <1>2 DEF CliWrite, CliBegin, Docs

LEMMA SpecTracked == Spec => []Tracked
<1>1. Init => Tracked
  BY DEF Init, Tracked, KindFits, PutIs, Untouched
<1>2. IInv /\ Tracked /\ [Next]_vars => Tracked'
  <2> SUFFICES ASSUME IInv, Tracked, [Next]_vars PROVE Tracked'
    OBVIOUS
  <2>1. CASE UNCHANGED vars
    BY <2>1 DEF vars, Tracked, KindFits, PutIs, Untouched, HasMoved, Now, Restoring
  <2>2. CASE Load
    BY <2>2 DEF Load, Tracked, KindFits, PutIs, Untouched
  <2> QED
    BY <2>1, <2>2, TrackedCommand, TrackedStep, TrackedCli DEF Next
<1> QED
  BY <1>1, <1>2, SpecInv, PTL DEF Spec
-----------------------------------------------------------------------------
\* What an edit can take the last of: the entry it names, one of its twins, or
\* whatever is not in the content it puts whole.
LEMMA Removes ==
  ASSUME NEW c \in Content, NEW how \in Hows, NEW entry \in Entries, NEW snap \in Content,
         NEW o \in Edited(c, how, entry, snap),
         NEW e \in Entries, c.bag[e] > 0, o.bag[e] = 0
  PROVE  \/ how \in {"section", "whole", "restore"}
         \/ how \in {"drop", "gone"} /\ e = entry
         \/ how = "take" /\ SameFingerprint(e, entry)
<1>1. \A n \in Nat : /\ With(c, entry, n).bag[entry] = n
                     /\ e # entry => With(c, entry, n).bag[e] = c.bag[e]
  BY DEF With, Content
<1>2. c.bag[e] \in Nat /\ c.bag[entry] \in Nat /\ c.bag[entry] + 1 \in Nat /\ c.bag[entry] + 1 # 0
  BY DEF Content
<1>3. \A n \in Nat : n # 0 => o # With(c, entry, n)
  BY <1>1, <1>2
<1>4. o # c /\ o # [c EXCEPT !.state = "text"]
  BY <1>2 DEF Content
<1>5. how \notin {"add", "put", "merge", "new", "change", "create"}
  BY <1>2, <1>3, <1>4 DEF Edited
<1>6. CASE how \in {"drop", "gone"}
  <2>1. o = With(c, entry, 0)
    <3>1. CASE how = "drop"
      BY <3>1 DEF Edited
    <3>2. CASE how = "gone"
      BY <3>2 DEF Edited
    <3> QED
      BY <1>6, <3>1, <3>2
  <2> QED
    BY <1>1, <1>2, <1>6, <2>1
<1>7. CASE how = "take"
  <2>1. o \in Popped(c, entry)
    BY <1>7 DEF Edited
  <2>2. PICK x \in Entries : SameFingerprint(x, entry) /\ c.bag[x] > 0 /\ o = With(c, x, c.bag[x] - 1)
    BY <1>4, <2>1 DEF Popped
  <2>3. c.bag[x] - 1 \in Nat
    BY <2>2 DEF Content
  <2>4. e # x => o.bag[e] = c.bag[e]
    BY <2>2, <2>3 DEF With, Content
  <2> QED
    BY <1>2, <1>7, <2>2, <2>4
<1> QED
  BY <1>5, <1>6, <1>7 DEF Hows

LEMMA ReplacesNow ==
  ASSUME IInv, Replace
  PROVE  file' = file \/ file' = [file EXCEPT ![Now.doc] = op.put]
<1>1. op # NoOp /\ (way = "codexconfig" => Now.doc = Main)
  BY DEF Replace, At, IInv, OpGood, Planned, Fits
<1> QED
  BY <1>1 DEF Replace

\* The last of an entry goes from the files of an editor only by a command that
\* removes it (a removal, a text or a section saved without it, a copy restored
\* that has none, a twin popped for the group that was moved, the command's own
\* write undone), unless the CLI wrote while the command was under way.
THEOREM EditorsKeepEntries == Spec => VanishesOnlyWhenAsked
<1>1. IInv /\ Tracked /\ [Next]_vars
      => [AppStep => \A e \in Entries : Present(e, file) /\ ~Present(e, file') => Asked(e)]_vars
  <2> SUFFICES ASSUME IInv, Tracked, Next, AppStep,
                      NEW e \in Entries, Present(e, file), ~Present(e, file')
               PROVE  Asked(e)
    OBVIOUS
  <2>1. PICK d \in Docs : file[d].bag[e] > 0
    BY DEF Present
  <2>2. \A f \in Docs : ~(file'[f].bag[e] > 0)
    BY DEF Present
  <2>3. file' # file /\ file \in [Docs -> Content]
    BY <2>1, <2>2 DEF IInv, TypeOK
  <2>4. SUFFICES ASSUME ~op.touched PROVE Asked(e)
    BY DEF Asked
  <2>5. CASE Replace
    <3>1. /\ op # NoOp /\ op.step = "replace"
          /\ file' = [file EXCEPT ![Now.doc] = op.put]
      BY <2>3, <2>5, ReplacesNow DEF Replace, At
    <3>2. op.put \in Content /\ op.seen \in Content /\ op.snap \in Content /\ Now \in Edits
      BY <3>1, Underway
    <3>3. d = Now.doc
      BY <2>1, <2>2, <2>3, <3>1
    <3>4. op.put.bag[e] \in Nat /\ ~(op.put.bag[e] > 0)
      BY <2>2, <2>3, <3>1, <3>2, <3>3 DEF Content
    <3>5. op.put.bag[e] = 0
      BY <3>4
    <3>6. CASE Now.how \in {"section", "whole", "restore"}
      BY <3>5, <3>6 DEF Asked
    <3>7. CASE Now.how \notin {"section", "whole", "restore"}
      <4>1. file[Now.doc] = op.seen
        BY <2>4, <3>1, <3>7 DEF Tracked, Untouched, Restoring
      <4>2. op.put \in Edited(op.seen, Now.how, Now.entry, op.snap)
        BY <3>1 DEF Tracked, PutIs
      <4>3. \/ Now.how \in {"drop", "gone"} /\ e = Now.entry
            \/ Now.how = "take" /\ SameFingerprint(e, Now.entry)
        BY <2>1, <3>2, <3>3, <3>5, <3>7, <4>1, <4>2, Removes DEF Edits
      <4>4. \E f \in Docs : f # Now.doc
        BY DEF Docs, Main, Other
      <4>5. \A f \in Docs \ {Now.doc} : ~(file[f].bag[e] > 0)
        BY <2>2, <2>3, <3>1
      <4>6. CASE Now.how \in {"drop", "gone"} /\ e = Now.entry
        <5>1. op.kind \in {"remove", "move", "stay"}
          BY <3>1, <4>6 DEF Tracked, KindFits
        <5>2. op.kind = "move" => Len(op.plan) = 1
          BY <3>1, <4>6, Underway DEF Tracked, KindFits
        <5>3. op.kind # "move"
          BY <2>4, <3>1, <4>4, <4>5, <4>6, <5>2 DEF Tracked, Untouched
        <5> QED
          BY <4>6, <5>1, <5>3 DEF Asked
      <4>7. CASE Now.how = "take" /\ SameFingerprint(e, Now.entry)
        <5>1. op.kind = "toggle" /\ Len(op.plan) = 1
          BY <3>1, <4>7 DEF Tracked, KindFits
        <5>2. \A f \in Docs \ {Now.doc} : file[f].bag = [op.before[f].bag EXCEPT ![Now.entry] = @ + 1]
          BY <2>4, <3>1, <5>1 DEF Tracked, Untouched, HasMoved
        <5>3. \A f \in Docs : op.before[f] \in Content
          BY <3>1, Underway DEF Ops
        <5>4. \A f \in Docs \ {Now.doc} : file[f].bag[Now.entry] > 0
          <6> SUFFICES ASSUME NEW f \in Docs \ {Now.doc} PROVE file[f].bag[Now.entry] > 0
            OBVIOUS
          <6>1. PICK bag \in [Entries -> Nat] : bag = op.before[f].bag
            BY <5>3 DEF Content
          <6>2. file[f].bag = [bag EXCEPT ![Now.entry] = bag[Now.entry] + 1] /\ Now.entry \in Entries
            BY <3>2, <5>2, <6>1 DEF Edits
          <6>3. bag[Now.entry] \in Nat
            BY <6>2
          <6> QED
            BY <6>2, <6>3
        <5>5. e # Now.entry
          BY <4>4, <4>5, <5>4
        <5> QED
          BY <4>7, <5>5 DEF Asked
      <4> QED
        BY <4>3, <4>6, <4>7
    <3> QED
      BY <3>6, <3>7
  <2>6. CASE Rollback
    <3>1. op # NoOp /\ op.step = "rollback" /\ file' = [file EXCEPT ![Main] = op.aside]
      BY <2>6 DEF Rollback, At
    <3>2. op.aside = op.seen /\ op.seen \in Content
      BY <2>4, <3>1, Underway DEF Tracked, Untouched
    <3>3. ~(op.aside.bag[e] > 0)
      BY <2>2, <2>3, <3>1 DEF Docs
    <3>4. op.seen.bag[e] \in Nat
      BY <3>2 DEF Content
    <3>5. op.seen.bag[e] = 0
      BY <3>2, <3>3, <3>4
    <3> QED
      BY <3>1, <3>5 DEF Asked
  <2> QED
    BY <2>3, <2>5, <2>6, OnlyReplaces
<1> QED
  BY <1>1, SpecInv, SpecTracked, PTL DEF Spec, VanishesOnlyWhenAsked
\* A hook group toggled with the CLI writing nothing meanwhile has moved: one
\* more of it in the one file, one with its fingerprint less in the other.
THEOREM EditorsMoveHooks == Spec => ToggleMoves
<1>1. IInv /\ Tracked /\ [Next]_vars
      => [(op # NoOp /\ op' = NoOp /\ file' # file /\ op.kind = "toggle" /\ ~op.touched) =>
           \E x \in Entries : /\ SameFingerprint(x, Now.entry)
                              /\ file'[Now.doc].bag = [op.before[Now.doc].bag EXCEPT ![x] = @ - 1]
                              /\ \A d \in Docs \ {Now.doc} : file'[d].bag = [op.before[d].bag EXCEPT ![Now.entry] = @ + 1]]_vars
  <2> SUFFICES ASSUME IInv, Tracked, Next, op # NoOp, op' = NoOp, file' # file, op.kind = "toggle", ~op.touched
               PROVE  \E x \in Entries :
                        /\ SameFingerprint(x, Now.entry)
                        /\ file'[Now.doc].bag = [op.before[Now.doc].bag EXCEPT ![x] = @ - 1]
                        /\ \A d \in Docs \ {Now.doc} : file'[d].bag = [op.before[d].bag EXCEPT ![Now.entry] = @ + 1]
    OBVIOUS
  <2>1. /\ Now \in Edits /\ op.put \in Content /\ op.seen \in Content /\ op.plan \in Seq(Edits)
        /\ \A d \in Docs : op.before[d] \in Content
        /\ file \in [Docs -> Content]
    BY Underway DEF Ops, IInv, TypeOK
  <2>2. way \in {"hooks", "rules"}
    BY DEF Tracked, KindFits
  <2>3. Replace /\ op.step = "replace" /\ EditDone /\ file' = [file EXCEPT ![Now.doc] = op.put]
    <3>1. ~CliBegin /\ ~CliEnd /\ ~(\E d \in Docs : CliWrite(d))
      <4>1. [op EXCEPT !.touched = TRUE] # NoOp
        BY Underway DEF Ops, NoOp
      <4> QED
        BY <2>2, <4>1 DEF CliBegin, CliEnd, CliWrite, CliWrote
    <3>2. ~Command /\ ~Load
      BY DEF Load, Command, UpdateGlobalSettings, WriteStatusLine, AddPermissionRule, RemovePermissionRule,
         MovePermissionRule, DisableHook, EnableHook, AddDisabledHookGroups, WriteTextFile, PatchText,
         ApplyMemoryIndexFix, CreateAgent, PurgeClaudeJsonProjects, AddGlobalMcpServer, UpdateGlobalMcpServer,
         RestoreCopy, CodexTextApply, CodexTransform, CodexSettingsApply, StartOn, StartFromView, Start
    <3>3. op.step # "rollback"
      BY <2>2 DEF IInv, OpGood, Planned
    <3>4. Replace
      BY <3>1, <3>2, <3>3 DEF Next, Step, Read, RestoreUnread, Backup, BackupTorn, Recheck, Inspect, InspectFails, Stop, Rollback, At
    <3> QED
      BY <2>2, <3>4 DEF Replace, At
  <2>4. Len(op.plan) = 1 /\ Now.how = "take"
    <3>1. Len(op.plan) = 1
      BY <2>1, <2>3, Underway DEF EditDone, NoOp, Ops
    <3> QED
      BY <3>1 DEF Tracked, KindFits
  <2>5. /\ file[Now.doc] = op.before[Now.doc]
        /\ \A d \in Docs \ {Now.doc} : file[d].bag = [op.before[d].bag EXCEPT ![Now.entry] = @ + 1]
    BY <2>4 DEF Tracked, Untouched, HasMoved
  <2>6. file[Now.doc] = op.seen /\ op.put \in Popped(op.seen, Now.entry)
    BY <2>3, <2>4 DEF Tracked, Untouched, PutIs, Restoring, Edited
  <2>7. op.put # op.seen
    BY <2>1, <2>3, <2>6
  <2>8. PICK x \in Entries : /\ SameFingerprint(x, Now.entry) /\ op.seen.bag[x] > 0
                             /\ op.put = With(op.seen, x, op.seen.bag[x] - 1)
    BY <2>6, <2>7 DEF Popped
  <2>9. op.put.bag = [op.seen.bag EXCEPT ![x] = @ - 1]
    <3>1. op.seen.bag[x] - 1 \in Nat
      BY <2>1, <2>8 DEF Content
    <3> QED
      BY <2>1, <2>8, <3>1, WithBag
  <2>10. file'[Now.doc].bag = [op.before[Now.doc].bag EXCEPT ![x] = @ - 1]
    BY <2>1, <2>3, <2>5, <2>6, <2>9 DEF Edits
  <2>11. \A d \in Docs \ {Now.doc} : file'[d].bag = [op.before[d].bag EXCEPT ![Now.entry] = @ + 1]
    BY <2>1, <2>3, <2>5
  <2> QED
    BY <2>8, <2>10, <2>11
<1> QED
  BY <1>1, SpecInv, SpecTracked, PTL DEF Spec, ToggleMoves
=============================================================================
