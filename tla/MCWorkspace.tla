---------------------------- MODULE MCWorkspace ----------------------------
(* Small workspaces for Workspace: a and b are scanned, c is a file of a   *)
(* directory the walk skips, which imports still reach.                    *)
EXTENDS Workspace

MCPaths == {"a", "b", "c"}
MCScanned == {"a", "b"}

Plain == [parse |-> "ok", contract |-> FALSE, imports |-> <<>>, defines |-> FALSE,
          body |-> "ok", warns |-> FALSE]
Library == [Plain EXCEPT !.defines = TRUE]
Imports(sources) == [Plain EXCEPT !.imports = sources, !.body = "calls"]
Contract(file) == [file EXCEPT !.contract = TRUE]

CheckedFiles ==
  {Plain, Library, Contract(Plain), Contract(Library),
   [Plain EXCEPT !.warns = TRUE], [Library EXCEPT !.warns = TRUE, !.body = "error"],
   [Plain EXCEPT !.body = "error"], [Plain EXCEPT !.body = "calls"],
   [Library EXCEPT !.body = "range"], Contract([Plain EXCEPT !.body = "range"]),
   [Library EXCEPT !.parse = "recovered"], [Library EXCEPT !.parse = "failed"],
   Imports(<<"absolute">>), Imports(<<"not_star">>), Imports(<<"missing">>),
   Imports(<<"a">>), Imports(<<"b">>), Imports(<<"c">>), Imports(<<"b", "c">>),
   Contract(Imports(<<"b">>)), Contract(Imports(<<"c">>)),
   [Imports(<<"c">>) EXCEPT !.body = "error"], [Imports(<<"c">>) EXCEPT !.defines = TRUE]}

MCCheckedDisks == UNION {[S -> CheckedFiles] : S \in {{}, {"c"}, {"a", "b"}, MCPaths}}

Wrong == Contract([Plain EXCEPT !.body = "error"])
MCTexts == {Library, Wrong, [Library EXCEPT !.parse = "failed"]}
MCEditedDisks ==
  {[p \in {"a", "c"} |-> IF p = "a" THEN Imports(<<"c">>) ELSE Library],
   [p \in {"a", "b"} |-> IF p = "a" THEN Contract(Plain) ELSE [Library EXCEPT !.warns = TRUE]]}
============================================================================
