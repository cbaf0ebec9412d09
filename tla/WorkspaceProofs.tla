-------------------------- MODULE WorkspaceProofs --------------------------
(***************************************************************************)
(* The language server's documents: whatever the number of documents, the  *)
(* texts, the files and the number of notifications, a document whose      *)
(* notifications did not meet is, once they are all answered, the one the  *)
(* editor holds, with its diagnostics.                                     *)
(*                                                                         *)
(* The analysis itself (collect_star_files, reanalyse) is never expanded:  *)
(* the proof is about what the handlers do around it, for any answer.      *)
(***************************************************************************)
EXTENDS Workspace, TLAPS

(* The editor and the server agree about p: QuietIsCurrent's conclusion. *)
AgreeOn(p) ==
  IF buffer[p] = Closed THEN document_map[p] = NoDocument /\ shown[p] = {}
  ELSE /\ document_map[p].text = buffer[p]
       /\ shown[p] = document_map[p].diagnostics

(* The server's side of it, with d still to be published. *)
StoredOn(p, d) ==
  /\ document_map[p].diagnostics = d
  /\ IF buffer[p] = Closed THEN document_map[p] = NoDocument
     ELSE document_map[p].text = buffer[p]

NoTaskOf(p) == \A t \in tasks : t.path # p

(* What is left for a handler to do, when it is the only one of its path. *)
WillAgree(t) ==
  CASE t.stage = "publishing" -> StoredOn(t.path, t.diagnostics)
    [] t.stage # "publishing" /\ t.text # Closed -> t.text = buffer[t.path]
    [] t.stage # "publishing" /\ t.text = Closed /\ t.kind = "close" ->
         buffer[t.path] = Closed /\ document_map[t.path].text # Closed
    [] t.stage # "publishing" /\ t.text = Closed /\ t.kind # "close" ->
         buffer[t.path] # Closed /\ AgreeOn(t.path)

TaskOf(p, kind, text) ==
  [id |-> sent, kind |-> kind, path |-> p, text |-> text, stage |-> "logging", diagnostics |-> {}]

TaskShape(t) ==
  /\ t = [id |-> t.id, kind |-> t.kind, path |-> t.path, text |-> t.text, stage |-> t.stage,
          diagnostics |-> t.diagnostics]
  /\ t.path \in Paths
  /\ t.kind = "close" => t.text = Closed
  /\ t.stage = "logging" => t.diagnostics = {}

Shape ==
  /\ DOMAIN buffer = Paths /\ buffer = [p \in Paths |-> buffer[p]]
  /\ DOMAIN document_map = Paths /\ document_map = [p \in Paths |-> document_map[p]]
  /\ DOMAIN shown = Paths /\ shown = [p \in Paths |-> shown[p]]
  /\ \A p \in DOMAIN disk : disk[p] # Closed
  /\ \A t \in tasks : TaskShape(t)

AloneIsCurrent(p) ==
  /\ NoTaskOf(p) => AgreeOn(p)
  /\ \A t, u \in tasks : t.path = p /\ u.path = p => t = u
  /\ \A t \in tasks : t.path = p => WillAgree(t)

(* The inductive invariant: QuietIsCurrent says nothing of a path with a   *)
(* handler still running, so it has to be told what each stage of the only *)
(* handler of a path leaves to be done.                                    *)
DocumentsInv == Shape /\ (~crashed => \A p \in Paths \ overlapped : AloneIsCurrent(p))

LEMMA DocumentsInit == ASSUME Init PROVE DocumentsInv
BY WorkspaceAssumption DEF Init, DocumentsInv, Shape, AloneIsCurrent, NoTaskOf, AgreeOn

(* A path whose buffer, document and diagnostics stay, and that gains and  *)
(* loses no handler, is where it was.                                      *)
LEMMA OthersStay ==
  ASSUME NEW p \in Paths, AloneIsCurrent(p),
         buffer'[p] = buffer[p], document_map'[p] = document_map[p], shown'[p] = shown[p],
         \A t : t.path = p => (t \in tasks' <=> t \in tasks)
  PROVE  AloneIsCurrent(p)'
<1>1. AgreeOn(p)' <=> AgreeOn(p)
  BY DEF AgreeOn
<1>2. NoTaskOf(p)' <=> NoTaskOf(p)
  BY DEF NoTaskOf
<1>3. (\A t, u \in tasks : t.path = p /\ u.path = p => t = u)'
  BY DEF AloneIsCurrent
<1>4. ASSUME NEW t \in tasks', t.path = p
      PROVE  WillAgree(t)'
  <2>1. WillAgree(t)
    BY <1>4 DEF AloneIsCurrent
  <2>2. AgreeOn(t.path)' <=> AgreeOn(t.path)
    BY <1>4 DEF AgreeOn
  <2>3. StoredOn(t.path, t.diagnostics)' <=> StoredOn(t.path, t.diagnostics)
    BY <1>4 DEF StoredOn
  <2> QED
    BY <1>4, <2>1, <2>2, <2>3 DEF WillAgree
<1> QED
  BY <1>1, <1>2, <1>3, <1>4 DEF AloneIsCurrent

(* `starstream check` and a stuttering step leave the documents alone. *)
LEMMA IdleKeeps ==
  ASSUME DocumentsInv,
         UNCHANGED <<disk, buffer, tasks, document_map, shown, overlapped, crashed>>
  PROVE  DocumentsInv'
<1>1. Shape'  BY DEF DocumentsInv, Shape, TaskShape
<1>2. ASSUME ~crashed', NEW p \in Paths \ overlapped'
      PROVE  AloneIsCurrent(p)'
  BY <1>2, OthersStay DEF DocumentsInv
<1> QED  BY <1>1, <1>2 DEF DocumentsInv

(* The editor's side: a notification that meets no other of its path finds *)
(* the two in agreement, unless it carries a text, which settles the rest. *)
LEMMA NotifyKeeps ==
  ASSUME DocumentsInv, NEW p \in Paths, NEW kind, NEW text, Notify(kind, p, text),
         kind = "close" => text = Closed,
         text # Closed => buffer'[p] = text,
         text = Closed /\ kind = "close" => buffer[p] # Closed /\ buffer'[p] = Closed,
         text = Closed /\ kind # "close" => buffer[p] # Closed /\ buffer'[p] = buffer[p],
         \A q \in Paths \ {p} : buffer'[q] = buffer[q],
         buffer' = [q \in Paths |-> buffer'[q]],
         \A q \in DOMAIN disk' : disk'[q] # Closed
  PROVE  DocumentsInv'
<1>0. PICK new : new = TaskOf(p, kind, text)  OBVIOUS
<1>1. /\ ~crashed /\ ~crashed'
      /\ tasks' = tasks \cup {new}
      /\ UNCHANGED <<document_map, shown>>
  BY <1>0 DEF Notify, TaskOf
<1>2. new.path = p /\ new.kind = kind /\ new.text = text /\ new.stage = "logging"
  BY <1>0 DEF TaskOf
<1>3. TaskShape(new)  BY <1>0 DEF TaskShape, TaskOf
<1>4. Shape'
  <2>1. \A t \in tasks' : TaskShape(t)  BY <1>1, <1>3 DEF DocumentsInv, Shape
  <2> QED  BY <1>1, <2>1 DEF DocumentsInv, Shape
<1>5. ASSUME NEW q \in Paths \ overlapped', q # p
      PROVE  AloneIsCurrent(q)'
  <2>1. q \notin overlapped  BY <1>5 DEF Notify
  <2>2. AloneIsCurrent(q)  BY <1>1, <2>1 DEF DocumentsInv
  <2>3. \A t : t.path = q => (t \in tasks' <=> t \in tasks)  BY <1>1, <1>2, <1>5
  <2> QED  BY <1>1, <1>5, <2>2, <2>3, OthersStay
<1>6. ASSUME p \notin overlapped'
      PROVE  AloneIsCurrent(p)'
  <2>1. NoTaskOf(p)  BY <1>6 DEF Notify, NoTaskOf
  <2>2. text = Closed => p \notin overlapped  BY <1>6, <2>1 DEF Notify, NoTaskOf
  <2>3. text = Closed => AgreeOn(p)  BY <1>1, <2>1, <2>2 DEF DocumentsInv, AloneIsCurrent
  <2>4. \A t \in tasks' : t.path = p => t = new  BY <1>1, <2>1 DEF NoTaskOf
  <2>5. new \in tasks'  BY <1>1
  <2>6. WillAgree(new)'
    <3>1. CASE text # Closed  BY <1>2, <3>1 DEF WillAgree
    <3>2. CASE text = Closed /\ kind = "close"
      BY <1>1, <1>2, <2>3, <3>2 DEF WillAgree, AgreeOn
    <3>3. CASE text = Closed /\ kind # "close"
      BY <1>1, <1>2, <2>3, <3>3 DEF WillAgree, AgreeOn
    <3> QED  BY <3>1, <3>2, <3>3
  <2>7. \A t \in tasks' : t.path = p => WillAgree(t)'  BY <2>4, <2>6
  <2>8. ~NoTaskOf(p)'  BY <1>2, <2>5 DEF NoTaskOf
  <2> QED  BY <2>4, <2>7, <2>8 DEF AloneIsCurrent
<1> QED  BY <1>1, <1>4, <1>5, <1>6 DEF DocumentsInv

LEMMA OpenKeeps == ASSUME DocumentsInv, NEW p \in Paths, Open(p) PROVE DocumentsInv'
<1>1. PICK text \in (IF p \in DOMAIN disk THEN {disk[p]} ELSE Texts) :
        buffer' = [buffer EXCEPT ![p] = text] /\ Notify("open", p, text)
  BY DEF Open
<1>2. text # Closed  BY WorkspaceAssumption DEF DocumentsInv, Shape
<1>3. disk' = disk  BY DEF Open
<1>4. DOMAIN buffer = Paths /\ \A q \in DOMAIN disk : disk[q] # Closed
  BY DEF DocumentsInv, Shape
<1> QED  BY <1>1, <1>2, <1>3, <1>4, NotifyKeeps

LEMMA ChangeKeeps == ASSUME DocumentsInv, NEW p \in Paths, Change(p) PROVE DocumentsInv'
<1>1. PICK text \in Texts : buffer' = [buffer EXCEPT ![p] = text] /\ Notify("change", p, text)
  BY DEF Change
<1>2. text # Closed  BY WorkspaceAssumption
<1>3. disk' = disk  BY DEF Change
<1>4. DOMAIN buffer = Paths /\ \A q \in DOMAIN disk : disk[q] # Closed
  BY DEF DocumentsInv, Shape
<1> QED  BY <1>1, <1>2, <1>3, <1>4, NotifyKeeps

LEMMA SaveKeeps == ASSUME DocumentsInv, NEW p \in Paths, Save(p) PROVE DocumentsInv'
<1>1. PICK text \in {buffer[p], Closed} : Notify("save", p, text)  BY DEF Save
<1>2. buffer' = buffer /\ buffer[p] # Closed  BY DEF Save
<1>3. \A q \in DOMAIN disk' : disk'[q] # Closed  BY DEF Save, DocumentsInv, Shape
<1>4. buffer = [q \in Paths |-> buffer[q]]  BY DEF DocumentsInv, Shape
<1> QED  BY <1>1, <1>2, <1>3, <1>4, NotifyKeeps

LEMMA CloseKeeps == ASSUME DocumentsInv, NEW p \in Paths, Close(p) PROVE DocumentsInv'
<1>1. Notify("close", p, Closed) /\ disk' = disk  BY DEF Close
<1>2. buffer[p] # Closed /\ buffer' = [buffer EXCEPT ![p] = Closed]  BY DEF Close
<1>3. DOMAIN buffer = Paths /\ \A q \in DOMAIN disk : disk[q] # Closed
  BY DEF DocumentsInv, Shape
<1> QED  BY <1>1, <1>2, <1>3, NotifyKeeps

----------------------------------------------------------------------------
(* The server's side.  A handler that moves on, t, is replaced by at most  *)
(* one of the same path, u.                                                *)

LEMMA HandlerKeeps ==
  ASSUME DocumentsInv, NEW t \in tasks, NEW rest, rest \in {TRUE, FALSE}, NEW u,
         TaskShape(u), u.path = t.path,
         tasks' = (tasks \ {t}) \cup (IF rest THEN {u} ELSE {}),
         ~crashed' => ~crashed, UNCHANGED <<disk, buffer, overlapped>>,
         document_map' = [p \in Paths |-> document_map'[p]],
         shown' = [p \in Paths |-> shown'[p]],
         \A p \in Paths \ {t.path} :
           document_map'[p] = document_map[p] /\ shown'[p] = shown[p],
         ~crashed' /\ WillAgree(t) => IF rest THEN WillAgree(u)' ELSE AgreeOn(t.path)'
  PROVE  DocumentsInv'
<1>1. Shape'
  <2>1. \A v \in tasks' : TaskShape(v)  BY DEF DocumentsInv, Shape
  <2> QED  BY <2>1 DEF DocumentsInv, Shape
<1>2. ASSUME ~crashed', NEW p \in Paths \ overlapped', p # t.path
      PROVE  AloneIsCurrent(p)'
  <2>1. AloneIsCurrent(p)  BY <1>2 DEF DocumentsInv
  <2>2. \A v : v.path = p => (v \in tasks' <=> v \in tasks)  BY <1>2
  <2> QED  BY <1>2, <2>1, <2>2, OthersStay
<1>3. ASSUME ~crashed', t.path \in Paths \ overlapped'
      PROVE  AloneIsCurrent(t.path)'
  <2>1. AloneIsCurrent(t.path)  BY <1>3 DEF DocumentsInv
  <2>2. WillAgree(t)  BY <2>1 DEF AloneIsCurrent
  <2>3. \A v \in tasks : v.path = t.path => v = t  BY <2>1 DEF AloneIsCurrent
  <2>4. CASE rest
    <3>1. \A v \in tasks' : v.path = t.path => v = u  BY <2>3, <2>4
    <3>2. WillAgree(u)'  BY <1>3, <2>2, <2>4
    <3>3. ~NoTaskOf(t.path)'  BY <2>4 DEF NoTaskOf
    <3> QED  BY <3>1, <3>2, <3>3 DEF AloneIsCurrent
  <2>5. CASE ~rest
    <3>1. \A v \in tasks' : v.path # t.path  BY <2>3, <2>5
    <3>2. AgreeOn(t.path)'  BY <1>3, <2>2, <2>5
    <3> QED  BY <3>1, <3>2 DEF AloneIsCurrent
  <2> QED  BY <2>4, <2>5
<1> QED  BY <1>1, <1>2, <1>3 DEF DocumentsInv

LEMMA ApplyKeeps == ASSUME DocumentsInv, NEW t \in tasks, Apply(t) PROVE DocumentsInv'
<1>1. PICK files \in collect_star_files(disk) :
        LET analysis == reanalyse(disk, files, t.path, t.text)
        IN  IF analysis.panic THEN crashed' = TRUE /\ tasks' = {} /\ UNCHANGED document_map
            ELSE on_change(t, analysis) /\ UNCHANGED crashed
  BY DEF Apply
<1>2. PICK analysis : analysis = reanalyse(disk, files, t.path, t.text)  OBVIOUS
<1>3. t.stage = "logging" /\ t.text # Closed  BY DEF Apply
<1>4. UNCHANGED <<disk, buffer, shown, overlapped>>  BY DEF Apply
<1>5. TaskShape(t)  BY DEF DocumentsInv, Shape
<1>6. CASE analysis.panic
  <2>1. crashed' /\ tasks' = {} /\ document_map' = document_map  BY <1>1, <1>2, <1>6
  <2> QED  BY <1>4, <2>1 DEF DocumentsInv, Shape
<1>7. CASE ~analysis.panic
  <2>1. on_change(t, analysis) /\ crashed' = crashed  BY <1>1, <1>2, <1>7
  <2>2. PICK u : u = [t EXCEPT !.stage = "publishing", !.diagnostics = analysis.diagnostics]
    OBVIOUS
  <2>3. /\ TaskShape(u)
        /\ u.path = t.path /\ u.stage = "publishing"
        /\ u.diagnostics = analysis.diagnostics
    BY <1>5, <2>2 DEF TaskShape
  <2>4. tasks' = (tasks \ {t}) \cup {u}  BY <2>1, <2>2 DEF on_change
  <2>5. document_map' = [document_map EXCEPT ![t.path] =
                           [text |-> t.text, diagnostics |-> analysis.diagnostics]]
    BY <2>1 DEF on_change
  <2>6. DOMAIN document_map = Paths /\ shown = [p \in Paths |-> shown[p]]
    BY DEF DocumentsInv, Shape
  <2>7. ASSUME WillAgree(t) PROVE WillAgree(u)'
    <3>1. t.text = buffer[t.path]  BY <1>3, <2>7 DEF WillAgree
    <3>2. t.path \in Paths  BY <1>5 DEF TaskShape
    <3>3. StoredOn(t.path, u.diagnostics)'
      BY <1>3, <1>4, <2>3, <2>5, <2>6, <3>1, <3>2 DEF StoredOn
    <3> QED  BY <2>3, <3>3 DEF WillAgree
  <2>8. document_map' = [p \in Paths |-> document_map'[p]]  BY <2>5, <2>6
  <2>9. \A p \in Paths \ {t.path} : document_map'[p] = document_map[p]  BY <2>5, <2>6
  <2> QED  BY <1>4, <2>1, <2>3, <2>4, <2>6, <2>7, <2>8, <2>9, HandlerKeeps
<1> QED  BY <1>6, <1>7

LEMMA SilentSaveKeeps == ASSUME DocumentsInv, NEW t \in tasks, did_save_silent(t) PROVE DocumentsInv'
<1>1. tasks' = (tasks \ {t}) \cup {} /\ t.stage = "logging" /\ t.text = Closed /\ t.kind = "save"
  BY DEF did_save_silent
<1>2. UNCHANGED <<disk, buffer, document_map, shown, overlapped, crashed>>  BY DEF did_save_silent
<1>3. TaskShape(t)  BY DEF DocumentsInv, Shape
<1>4. document_map = [p \in Paths |-> document_map[p]] /\ shown = [p \in Paths |-> shown[p]]
  BY DEF DocumentsInv, Shape
<1>5. WillAgree(t) => AgreeOn(t.path)'  BY <1>1, <1>2 DEF WillAgree, AgreeOn
<1> QED  BY <1>1, <1>2, <1>3, <1>4, <1>5, HandlerKeeps

LEMMA DidCloseKeeps == ASSUME DocumentsInv, NEW t \in tasks, did_close(t) PROVE DocumentsInv'
<1>1. PICK u : u = [t EXCEPT !.stage = "publishing"]  OBVIOUS
<1>2. PICK rest \in {TRUE, FALSE} : rest <=> document_map[t.path] # NoDocument  OBVIOUS
<1>3. tasks' = (tasks \ {t}) \cup (IF rest THEN {u} ELSE {})  BY <1>1, <1>2 DEF did_close
<1>4. UNCHANGED <<disk, buffer, shown, overlapped, crashed>>  BY DEF did_close
<1>5. TaskShape(t)  BY DEF DocumentsInv, Shape
<1>6. TaskShape(u) /\ u.path = t.path /\ u.stage = "publishing" /\ u.diagnostics = {}
  BY <1>1, <1>5 DEF TaskShape, did_close
<1>7. t.path \in Paths /\ t.text = Closed /\ t.kind = "close" /\ t.stage = "logging"
  BY <1>5 DEF TaskShape, did_close
<1>8. DOMAIN document_map = Paths /\ shown = [p \in Paths |-> shown[p]]
  BY DEF DocumentsInv, Shape
<1>9. document_map' = [document_map EXCEPT ![t.path] = NoDocument]  BY DEF did_close
<1>10. /\ document_map' = [p \in Paths |-> document_map'[p]]
       /\ \A p \in Paths \ {t.path} : document_map'[p] = document_map[p]
  BY <1>7, <1>8, <1>9
<1>11. ASSUME WillAgree(t) PROVE rest /\ WillAgree(u)'
  <2>1. buffer[t.path] = Closed /\ document_map[t.path].text # Closed
    BY <1>7, <1>11 DEF WillAgree
  <2>2. rest  BY <1>2, <2>1 DEF NoDocument
  <2>3. StoredOn(t.path, {})'  BY <1>4, <1>7, <1>8, <1>9, <2>1 DEF StoredOn, NoDocument
  <2> QED  BY <1>6, <2>2, <2>3 DEF WillAgree
<1> QED  BY <1>3, <1>4, <1>6, <1>8, <1>10, <1>11, HandlerKeeps

LEMMA PublishKeeps ==
  ASSUME DocumentsInv, NEW t \in tasks, publish_diagnostics(t) PROVE DocumentsInv'
<1>1. tasks' = (tasks \ {t}) \cup {} /\ t.stage = "publishing"  BY DEF publish_diagnostics
<1>2. UNCHANGED <<disk, buffer, document_map, overlapped, crashed>>  BY DEF publish_diagnostics
<1>3. shown' = [shown EXCEPT ![t.path] = t.diagnostics]  BY DEF publish_diagnostics
<1>4. TaskShape(t) /\ t.path \in Paths  BY DEF DocumentsInv, Shape, TaskShape
<1>5. document_map = [p \in Paths |-> document_map[p]] /\ DOMAIN shown = Paths
  BY DEF DocumentsInv, Shape
<1>6. ASSUME WillAgree(t) PROVE AgreeOn(t.path)'
  <2>1. StoredOn(t.path, t.diagnostics)  BY <1>1, <1>6 DEF WillAgree
  <2> QED  BY <1>2, <1>3, <1>4, <1>5, <2>1 DEF StoredOn, AgreeOn, NoDocument
<1>7. /\ shown' = [p \in Paths |-> shown'[p]]
      /\ \A p \in Paths \ {t.path} : shown'[p] = shown[p]
  BY <1>3, <1>5
<1> QED  BY <1>1, <1>2, <1>4, <1>5, <1>6, <1>7, HandlerKeeps

----------------------------------------------------------------------------
LEMMA DocumentsNext == ASSUME DocumentsInv, [Next]_vars PROVE DocumentsInv'
<1>1. CASE Check  BY <1>1, IdleKeeps DEF Check, editor
<1>2. ASSUME NEW p \in Paths, Open(p) \/ Change(p) \/ Save(p) \/ Close(p)
      PROVE  DocumentsInv'
  BY <1>2, OpenKeeps, ChangeKeeps, SaveKeeps, CloseKeeps
<1>3. ASSUME NEW t \in tasks, Apply(t) \/ did_save_silent(t) \/ did_close(t) \/ publish_diagnostics(t)
      PROVE  DocumentsInv'
  BY <1>3, ApplyKeeps, SilentSaveKeeps, DidCloseKeeps, PublishKeeps
<1>4. CASE UNCHANGED vars  BY <1>4, IdleKeeps DEF vars
<1> QED  BY <1>1, <1>2, <1>3, <1>4 DEF Next

LEMMA AgreementFollows == ASSUME DocumentsInv PROVE QuietIsCurrent
BY DEF DocumentsInv, AloneIsCurrent, NoTaskOf, AgreeOn, QuietIsCurrent

(* Once the handlers of a document are all done, and none of them met      *)
(* another of its own (or a text sent alone came since), the language      *)
(* server's document_map holds the editor's text, and the editor shows the *)
(* diagnostics of that text (QuietIsCurrent): for every set of paths,      *)
(* texts and files, any number of notifications of other documents in      *)
(* between, and whatever the analysis answers.                             *)
THEOREM QuietCorrect == Spec => []QuietIsCurrent
<1>1. Init => DocumentsInv  BY DocumentsInit
<1>2. DocumentsInv /\ [Next]_vars => DocumentsInv'  BY DocumentsNext
<1>3. DocumentsInv => QuietIsCurrent  BY AgreementFollows
<1> QED  BY <1>1, <1>2, <1>3, PTL DEF Spec

=============================================================================
