----------------------------- MODULE Workspace -----------------------------
(***************************************************************************)
(* How a directory of .star files is checked: the module graph built from  *)
(* the path imports (starstream-compiler/src/module_graph.rs), the type    *)
(* checker run over it in dependency order (typecheck_modules), and its    *)
(* two callers, `starstream check` and the language server, whose          *)
(* notification handlers interleave at their awaits.                       *)
(*                                                                         *)
(* A file is a record:                                                     *)
(*   parse     "ok", "recovered" (errors and a program), "failed" (none)   *)
(*   contract  it says `contract;`                                         *)
(*   imports   its `import { f } from "..."`, in order: a path, or one of  *)
(*             the sources no file has (Absolute, NotStar)                 *)
(*   defines   it has a function f, whose body is right                    *)
(*   body      of its main function: "ok", "error" (ill-typed by itself),  *)
(*             "calls" (a call of f), "range" (a literal too large, found  *)
(*             only once every integer type is known)                      *)
(*   warns     its main function earns a warning                           *)
(***************************************************************************)
EXTENDS Naturals, FiniteSets, SequencesExt

CONSTANTS
  Paths,            \* canonical paths that a file may have
  Scanned,          \* those the directory walk does not skip
  CheckedDisks,     \* what `starstream check` is run on: [S -> file], S \subseteq Paths
  EditedDisks,      \* what the disk holds when the editor starts
  Texts,            \* what the editor's user types
  MaxNotes          \* bound: notifications the editor sends

Closed == [parse |-> "closed"]     \* no text at all

ASSUME WorkspaceAssumption ==
  /\ Scanned \subseteq Paths
  /\ \A d \in CheckedDisks \cup EditedDisks : DOMAIN d \subseteq Paths
  /\ MaxNotes \in Nat
  /\ Closed \notin Texts
  /\ \A d \in CheckedDisks \cup EditedDisks : \A p \in DOMAIN d : d[p] # Closed

Absolute == "absolute"     \* a source that does not start with ./ or ../
NotStar == "not_star"      \* a relative source that does not end in .star
Ok == "ok"
NoDocument == [text |-> Closed, diagnostics |-> {}]

----------------------------------------------------------------------------
(* The module graph.  A module's id is the place of its path in `modules`. *)

(* Module.program: nothing is left of a file the parser gives up on. *)
Program(file) ==
  IF file.parse = "failed"
  THEN [file EXCEPT !.contract = FALSE, !.imports = <<>>, !.defines = FALSE, !.body = "ok", !.warns = FALSE]
  ELSE file

declares_contract(disk, p) == Program(disk[p]).contract

Builder == [modules |-> <<>>, edges |-> <<>>, parse_failures |-> {}, error |-> Ok]

parse_module(disk, b, p) ==
  CASE b.error # Ok -> b
    [] p \in Range(b.modules) -> b
    [] p \notin DOMAIN disk -> [b EXCEPT !.error = "io"]
    [] OTHER -> [b EXCEPT !.modules = Append(@, p),
                          !.parse_failures = @ \cup (IF disk[p].parse = "ok" THEN {} ELSE {p})]

is_relative_path(source) == source # Absolute

(* The first import that cannot be resolved ends the whole load. *)
resolve_imports(disk, b, p) ==
  LET Import(acc, source) ==
        CASE acc.error # Ok -> acc
          [] ~is_relative_path(source) -> [acc EXCEPT !.error = "non_relative_path"]
          [] source = NotStar -> [acc EXCEPT !.error = "not_star_extension"]
          [] OTHER -> parse_module(disk, acc, source)
      resolved == FoldLeft(Import, b, Program(disk[p]).imports)
  IN  [resolved EXCEPT !.edges = Append(@, Program(disk[p]).imports)]

(* Every module is resolved once, those that imports add included. *)
ResolveAll(disk, b) ==
  LET Step(acc, next) ==
        IF acc.error # Ok \/ next > Len(acc.modules) THEN acc
        ELSE resolve_imports(disk, acc, acc.modules[next])
  IN  FoldLeft(Step, b, [i \in 1..Cardinality(Paths) |-> i])

IndexIn(b, p) == CHOOSE i \in DOMAIN b.modules : b.modules[i] = p
edges_of(b, p) == b.edges[IndexIn(b, p)]

validate_cross_contract(disk, b, allow_target) ==
  \A i \in DOMAIN b.edges : \A target \in Range(b.edges[i]) :
    target \in allow_target \/ ~declares_contract(disk, target)

(* A search: a node is black when it is in the order, grey while its visit *)
(* is open.                                                                *)
Search == [grey : SUBSET Paths, order : Seq(Paths), cycle : BOOLEAN]

(* Mutant: a module goes into the order when its visit begins. *)
dfs_visit_PreOrder(b, start, dfs) ==
  LET visit[p \in Paths, s \in Search] ==
        LET Child(acc, target) ==
              CASE acc.cycle \/ target \in Range(acc.order) -> acc
                [] target \in acc.grey -> [acc EXCEPT !.cycle = TRUE]
                [] OTHER -> visit[target, acc]
        IN  FoldLeft(Child, [s EXCEPT !.order = Append(@, p)], edges_of(b, p))
  IN  visit[start, dfs]

dfs_visit(b, start, dfs) ==
  LET visit[p \in Paths, s \in Search] ==
        LET Child(acc, target) ==
              CASE acc.cycle \/ target \in Range(acc.order) -> acc
                [] target \in acc.grey -> [acc EXCEPT !.cycle = TRUE]
                [] OTHER -> visit[target, acc]
            children == FoldLeft(Child, [s EXCEPT !.grey = @ \cup {p}], edges_of(b, p))
        IN  IF children.cycle THEN children
            ELSE [children EXCEPT !.grey = @ \ {p}, !.order = Append(@, p)]
  IN  visit[start, dfs]

topo_order(b, seeds) ==
  LET Seed(dfs, seed) == IF dfs.cycle \/ seed \in Range(dfs.order) THEN dfs
                         ELSE dfs_visit(b, seed, dfs)
  IN  FoldLeft(Seed, [grey |-> {}, order |-> <<>>, cycle |-> FALSE], seeds \o b.modules)

(* What both loaders do once the imports are resolved. *)
Finish(disk, b, allow_target, entries) ==
  LET dfs == topo_order(b, entries)
      Failed(e) == [b EXCEPT !.error = e] @@ [order |-> <<>>, entries |-> <<>>]
  IN  CASE b.error # Ok -> Failed(b.error)
        [] ~validate_cross_contract(disk, b, allow_target) -> Failed("cross_contract_import")
        [] b.parse_failures # {} -> Failed("parse_failed")
        [] dfs.cycle -> Failed("cycle")
        [] OTHER -> b @@ [order |-> dfs.order, entries |-> entries]

load_from_entry(disk, entry) ==
  LET b == ResolveAll(disk, parse_module(disk, Builder, entry))
  IN  Finish(disk, b, {entry}, <<entry>>)

(* `files` is the order in which the directory walk meets them. *)
load_workspace(disk, files) ==
  LET Seed(acc, p) == parse_module(disk, acc, p)
      b == ResolveAll(disk, FoldLeft(Seed, Builder, files))
      Declares(p) == declares_contract(disk, p)
  IN  Finish(disk, b, {}, IF b.error = Ok THEN SelectSeq(b.modules, Declares) ELSE <<>>)

collect_star_files(disk) == SetToSeqs(Scanned \cap DOMAIN disk)

----------------------------------------------------------------------------
(* The type checker over the graph.  A diagnostic is <<kind, the module it *)
(* is attributed to, the module it comes from>>.                           *)

Inferencer == [exports |-> <<>>, errors |-> {}, warnings |-> {}, pending |-> {},
               stale |-> FALSE, ranges |-> {}, status |-> "running"]

(* Each import brings in f, twice is a collision, and f has to be there. *)
register_imports(module, exports) ==
  /\ Len(module.imports) <= 1
  /\ \A i \in DOMAIN module.imports : exports[module.imports[i]]

(* The definitions that are right stay behind in typed_definitions. *)
DefinitionsAreRight(module, imported) ==
  /\ ~(module.defines /\ imported)
  /\ module.body # "error"
  /\ module.body = "calls" => module.defines \/ imported

CheckModule(disk, b, inf, p) ==
  LET module == disk[p]
      imported == module.imports # <<>>
      emitted == inf.pending \cup (IF module.warns THEN {p} ELSE {})
      literals == inf.ranges \cup (IF module.body = "range" THEN {p} ELSE {})
      failed == [inf EXCEPT !.errors = @ \cup {<<"type", p, p>>}]
  IN  CASE inf.status # "running" -> inf
        [] ~(Range(edges_of(b, p)) \subseteq DOMAIN inf.exports) ->
             [inf EXCEPT !.status = "panic"]
        [] ~register_imports(module, inf.exports) ->
             [failed EXCEPT !.stale = @ \/ inf.exports[module.imports[1]]]
        [] ~DefinitionsAreRight(module, imported) ->
             [failed EXCEPT !.exports = @ @@ (p :> FALSE), !.pending = emitted, !.ranges = literals,
                            !.stale = @ \/ module.contract \/ imported \/ module.defines
                                        \/ module.body \in {"ok", "range"}]
        [] inf.stale -> [inf EXCEPT !.status = "panic"]
        [] OTHER ->
             [inf EXCEPT !.exports = @ @@ (p :> (module.defines \/ imported)),
                         !.warnings = @ \cup {<<"warn", p, q>> : q \in emitted},
                         !.pending = {}, !.ranges = literals,
                         !.status = IF inf.errors = {} THEN @ ELSE "stopped"]

(* Nothing tells which module an oversized literal is in. *)
typecheck_modules(disk, b) ==
  LET Step(inf, p) == CheckModule(disk, b, inf, p)
      inf == FoldLeft(Step, Inferencer, b.order)
      fallback == (b.entries \o b.modules)[1]
      errors == IF inf.errors # {} THEN inf.errors
                ELSE {<<"range", fallback, q>> : q \in inf.ranges}
  IN  [panic |-> inf.status = "panic", errors |-> errors, warnings |-> inf.warnings]

(* One file by itself: its path imports are ignored, with a warning. *)
typecheck_program(module, p) ==
  LET ignored == {<<"ignored", p, p>> : i \in DOMAIN module.imports}
      warned == {<<"warn", p, p>> : w \in {TRUE} \cap {module.warns}}
  IN  ignored \cup warned \cup
      CASE ~DefinitionsAreRight(module, FALSE) -> {<<"type", p, p>>}
        [] module.body = "range" -> {<<"range", p, p>>}
        [] OTHER -> {}

(* Check::exec, up to the exit code. *)
exec(disk, files, deny_warnings) ==
  LET b == load_workspace(disk, files)
      checked == typecheck_modules(disk, b)
  IN  CASE b.error # Ok -> [exit |-> 1, errors |-> {}, graph |-> b.error, order |-> <<>>]
        [] b.modules = <<>> -> [exit |-> 0, errors |-> {}, graph |-> Ok, order |-> <<>>]
        [] checked.panic -> [exit |-> 101, errors |-> {}, graph |-> Ok, order |-> b.order]
        [] OTHER -> [exit |-> IF checked.errors # {} \/ (deny_warnings /\ checked.warnings # {})
                              THEN 1 ELSE 0,
                     errors |-> checked.errors, graph |-> Ok, order |-> b.order]
----------------------------------------------------------------------------
(* The analysis of one open document: its text is the editor's, the graph  *)
(* it is checked in is read from the disk.                                 *)

run_graph_typecheck(disk, b, p) ==
  LET checked == typecheck_modules(disk, b)
  IN  [panic |-> checked.panic,
       diagnostics |-> {d \in checked.errors \cup checked.warnings : d[2] = p}]

try_typecheck_via_workspace(disk, files, p, text) ==
  LET workspace == load_workspace(disk, files)
      graph == IF workspace.error = Ok /\ p \in Range(workspace.modules) THEN workspace
               ELSE load_from_entry(disk, p)
  IN  IF p \in DOMAIN disk /\ graph.error = Ok THEN run_graph_typecheck(disk, graph, p)
      ELSE [panic |-> FALSE, diagnostics |-> typecheck_program(text, p)]

reanalyse(disk, files, p, text) ==
  LET parsing == {<<"parse", p, p>> : e \in {text.parse} \ {"ok"}}
      typing == IF text.parse = "failed" THEN [panic |-> FALSE, diagnostics |-> {}]
                ELSE try_typecheck_via_workspace(disk, files, p, text)
  IN  [typing EXCEPT !.diagnostics = @ \cup parsing]

----------------------------------------------------------------------------
VARIABLES
  disk,        \* the files
  mode,        \* "check" before, "checked" after the command; "edit" with an editor
  result,      \* what the command printed and returned, and the order it went in
  buffer,      \* the text of each document the editor has open
  tasks,       \* notifications whose handlers have not returned
  document_map,\* the server's documents
  shown,       \* the diagnostics the editor last received for each path
  sent,        \* notifications sent so far
  overlapped,  \* paths with notifications that met, and none since with the text alone
  crashed      \* a handler has panicked, which ends the server

vars == <<disk, mode, result, buffer, tasks, document_map, shown, sent, overlapped, crashed>>
editor == <<buffer, tasks, document_map, shown, sent, overlapped, crashed>>

Init ==
  /\ \/ mode = "check" /\ disk \in CheckedDisks
     \/ mode = "edit" /\ disk \in EditedDisks
  /\ result = [exit |-> 0, errors |-> {}, graph |-> Ok, order |-> <<>>]
  /\ buffer = [p \in Paths |-> Closed]
  /\ tasks = {}
  /\ document_map = [p \in Paths |-> NoDocument]
  /\ shown = [p \in Paths |-> {}]
  /\ sent = 0
  /\ overlapped = {}
  /\ crashed = FALSE

Check ==
  /\ mode = "check"
  /\ \E files \in collect_star_files(disk), deny_warnings \in BOOLEAN :
       result' = exec(disk, files, deny_warnings)
  /\ mode' = "checked"
  /\ UNCHANGED <<disk, editor>>

(* A notification goes out; its handler runs up to its first await, the    *)
(* message it logs.  A save may leave out the text, and then says nothing. *)
Notify(kind, p, text) ==
  /\ mode = "edit" /\ ~crashed /\ sent < MaxNotes
  /\ sent' = sent + 1
  /\ tasks' = tasks \cup {[id |-> sent, kind |-> kind, path |-> p, text |-> text,
                           stage |-> "logging", diagnostics |-> {}]}
  /\ LET inFlight == \E t \in tasks : t.path = p
     IN  overlapped' = CASE inFlight -> overlapped \cup {p}
                         [] ~inFlight /\ text = Closed -> overlapped
                         [] ~inFlight /\ text # Closed -> overlapped \ {p}
  /\ UNCHANGED <<mode, result, document_map, shown, crashed>>

Open(p) ==
  /\ buffer[p] = Closed
  /\ \E text \in (IF p \in DOMAIN disk THEN {disk[p]} ELSE Texts) :
       /\ buffer' = [buffer EXCEPT ![p] = text]
       /\ Notify("open", p, text)
  /\ UNCHANGED disk

Change(p) ==
  /\ buffer[p] # Closed
  /\ \E text \in Texts :
       /\ buffer' = [buffer EXCEPT ![p] = text]
       /\ Notify("change", p, text)
  /\ UNCHANGED disk

Save(p) ==
  /\ buffer[p] # Closed
  /\ disk' = [q \in DOMAIN disk \cup {p} |-> IF q = p THEN buffer[p] ELSE disk[q]]
  /\ \E text \in {buffer[p], Closed} : Notify("save", p, text)
  /\ UNCHANGED buffer

Close(p) ==
  /\ buffer[p] # Closed
  /\ buffer' = [buffer EXCEPT ![p] = Closed]
  /\ Notify("close", p, Closed)
  /\ UNCHANGED disk

(* Mutant: only the first text of a document is stored. *)
on_change_Late(t, analysis) ==
  /\ document_map' = [document_map EXCEPT ![t.path] =
        IF @ = NoDocument THEN [text |-> t.text, diagnostics |-> analysis.diagnostics] ELSE @]
  /\ tasks' = (tasks \ {t}) \cup {[t EXCEPT !.stage = "publishing",
                                            !.diagnostics = analysis.diagnostics]}

(* Under the map's entry; then the diagnostics wait to be sent. *)
on_change(t, analysis) ==
  /\ document_map' = [document_map EXCEPT ![t.path] =
                        [text |-> t.text, diagnostics |-> analysis.diagnostics]]
  /\ tasks' = (tasks \ {t}) \cup {[t EXCEPT !.stage = "publishing",
                                            !.diagnostics = analysis.diagnostics]}

Apply(t) ==
  /\ t.stage = "logging" /\ t.text # Closed
  /\ \E files \in collect_star_files(disk) :
       LET analysis == reanalyse(disk, files, t.path, t.text)
       IN  IF analysis.panic THEN /\ crashed' = TRUE /\ tasks' = {}
                                  /\ UNCHANGED document_map
           ELSE on_change(t, analysis) /\ UNCHANGED crashed
  /\ UNCHANGED <<disk, mode, result, buffer, shown, sent, overlapped>>

(* did_save without text: nothing follows the log. *)
did_save_silent(t) ==
  /\ t.stage = "logging" /\ t.kind = "save" /\ t.text = Closed
  /\ tasks' = tasks \ {t}
  /\ UNCHANGED <<disk, mode, result, buffer, document_map, shown, sent, overlapped, crashed>>

(* did_close: an unknown document has nothing to clear. *)
did_close(t) ==
  /\ t.stage = "logging" /\ t.kind = "close"
  /\ document_map' = [document_map EXCEPT ![t.path] = NoDocument]
  /\ tasks' = (tasks \ {t}) \cup
       (IF document_map[t.path] = NoDocument THEN {} ELSE {[t EXCEPT !.stage = "publishing"]})
  /\ UNCHANGED <<disk, mode, result, buffer, shown, sent, overlapped, crashed>>

publish_diagnostics(t) ==
  /\ t.stage = "publishing"
  /\ shown' = [shown EXCEPT ![t.path] = t.diagnostics]
  /\ tasks' = tasks \ {t}
  /\ UNCHANGED <<disk, mode, result, buffer, document_map, sent, overlapped, crashed>>

Next ==
  \/ Check
  \/ \E p \in Paths : Open(p) \/ Change(p) \/ Save(p) \/ Close(p)
  \/ \E t \in tasks : Apply(t) \/ did_save_silent(t) \/ did_close(t) \/ publish_diagnostics(t)

Spec == Init /\ [][Next]_vars

----------------------------------------------------------------------------
(* Properties. *)

(* What the command's user means by a workspace that is right.  The files  *)
(* that count are the ones scanned and, through imports, everything they   *)
(* reach; Follows is one import.                                           *)
Follows(p, q) == q \in Range(Program(disk[p]).imports)

Counted ==
  LET Grow(S, i) == S \cup {q \in DOMAIN disk : \E p \in S : Follows(p, q)}
  IN  FoldSet(LAMBDA i, S : Grow(S, i), Scanned \cap DOMAIN disk, 1..Cardinality(Paths))

Cyclic ==
  \E S \in SUBSET Counted : S # {} /\ \A p \in S : \E q \in S : Follows(p, q)

GraphIsRight ==
  /\ \A p \in Counted : /\ disk[p].parse = "ok"
                        /\ \A source \in Range(disk[p].imports) :
                             source \in DOMAIN disk /\ ~disk[source].contract
  /\ ~Cyclic

(* A module that would be accepted if everything it imports were. *)
RightByItself(p) ==
  LET names == Len(disk[p].imports) + (IF disk[p].defines THEN 1 ELSE 0)
  IN  /\ names <= 1
      /\ disk[p].body # "error"
      /\ disk[p].body = "calls" => names = 1
      /\ \A q \in Range(disk[p].imports) : disk[q].defines \/ disk[q].imports # <<>>

Depends(p, bad) ==
  LET Grow(S) == S \cup {q \in Counted : \E r \in S : Follows(r, q)}
  IN  \E q \in FoldSet(LAMBDA i, S : Grow(S), {p}, 1..Cardinality(Paths)) : q \in bad

(* What the type checker makes of a module, once everything it imports has *)
(* been through it: it is accepted; its imports are refused, so it exports *)
(* nothing at all; or a definition of it is, and it exports an empty table.*)
Accepted(p) == ~Depends(p, {q \in Counted : ~RightByItself(q)})
Unimportable(p) ==
  \/ Len(disk[p].imports) > 1
  \/ \E q \in Range(disk[p].imports) : ~Accepted(q) \/ ~(disk[q].defines \/ disk[q].imports # <<>>)

(* A module that is not accepted and has a definition that is right.       *)
HalfRight(p) ==
  IF Unimportable(p)
  THEN LET first == disk[p].imports[1]
       IN  Accepted(first) /\ (disk[first].defines \/ disk[first].imports # <<>>)
  ELSE ~Accepted(p) /\ (disk[p].contract \/ disk[p].imports # <<>> \/ disk[p].defines \/ disk[p].body \in {"ok", "range"})

(* When the command panics.  It goes on after a module that is wrong, up   *)
(* to the first accepted one.  If that comes, what a half right module has *)
(* left in typed_definitions fails the assertion at infer.rs:608; before   *)
(* it, an import of a module whose own imports were refused meets the      *)
(* unreachable! at infer.rs:322, "Topological order should ensure deps are *)
(* processed first", although it did; so much for the partial export table *)
(* that should let other modules continue (infer.rs:219-221).              *)
PanicsIn(order) ==
  \E first \in DOMAIN order :
    /\ ~Accepted(order[first]) /\ \A i \in 1 .. first - 1 : Accepted(order[i])
    /\ \E next \in first + 1 .. Len(order) :
         /\ \A i \in first .. next - 1 : ~Accepted(order[i])
         /\ IF Accepted(order[next]) THEN \E i \in first .. next - 1 : HalfRight(order[i])
            ELSE \E i \in first .. next - 1 : Unimportable(order[i]) /\ Follows(order[next], order[i])

(* `starstream check`, whatever order the directory is read in: it refuses *)
(* the graph exactly when a file does not parse, an import does not lead   *)
(* to a file that is no contract, or imports go round.  Otherwise it       *)
(* panics exactly as PanicsIn says, for the order it went in, which has    *)
(* every module after its imports; or it exits without an error exactly    *)
(* when every module is right, prints an error of a module that is wrong   *)
(* and blames no module that neither is wrong nor imports from one that is *)
(* (oversized literals apart, which go to the first contract).             *)
CheckIsRight ==
  mode = "checked" =>
    /\ result.graph = Ok <=> GraphIsRight
    /\ GraphIsRight =>
         LET wrong == {p \in Counted : ~RightByItself(p)}
             large == {p \in Counted : disk[p].body = "range"}
             order == result.order
         IN  /\ Range(order) = Counted /\ Len(order) = Cardinality(Counted)
             /\ \A i \in DOMAIN order : \A q \in Range(disk[order[i]].imports) : \E j \in 1 .. i - 1 : order[j] = q
             /\ result.exit = 101 <=> PanicsIn(order)
             /\ wrong # {} /\ result.exit # 101 =>
                  /\ \E d \in result.errors : d[2] \in wrong
                  /\ \A d \in result.errors : d[2] = d[3] /\ ~Accepted(d[2])
             /\ wrong = {} => {d[3] : d \in result.errors} = large
             /\ wrong = {} /\ large = {} =>
                  result.exit = 0 \/ \E p \in Counted : disk[p].warns

(* The language server holds, once it is quiet, what the editor holds: a   *)
(* document whose latest text was sent, and whatever followed it, with no  *)
(* other notification of its own in flight has the editor's text, and the  *)
(* editor shows the diagnostics of that text; a closed one is forgotten    *)
(* and its diagnostics are cleared.  (Notifications of one document that   *)
(* do overlap may be applied, and their diagnostics published, in either   *)
(* order: nothing compares the versions.  The next text alone repairs it;  *)
(* a close does not, it publishes nothing for a document already gone.)    *)
QuietIsCurrent ==
  \A p \in Paths :
    ~crashed /\ p \notin overlapped /\ (\A t \in tasks : t.path # p) =>
      IF buffer[p] = Closed THEN document_map[p] = NoDocument /\ shown[p] = {}
      ELSE /\ document_map[p].text = buffer[p]
           /\ shown[p] = document_map[p].diagnostics
=============================================================================
