------------------------ MODULE MCStatementExecution ------------------------
EXTENDS StatementExecution

CONSTANTS c1, c2, k1

(* SELECT id, ssn FROM album LIMIT 2 *)
Plain ==
    [head |-> <<"select">>, defects |-> {}, statements |-> 1, kind |-> "SELECT",
     selects |-> TRUE, keywords |-> {"select", "from"}, nodes |-> {"Query", "Table"},
     functions |-> {}, tables |-> {"album"}, ctes |-> {}, columns |-> {<<"*", "id">>},
     fetch |-> -1, limits |-> <<2>>, outer |-> "limit", features |-> {"SELECT"}, scans |-> 1]

MCStatements ==
    {Plain,
     \* one bound, above the maximum, and one within it
     [Plain EXCEPT !.limits = <<9>>, !.features = {"SELECT", "JOIN"}, !.scans = 2],
     [Plain EXCEPT !.limits = <<>>, !.fetch = 1, !.outer = "fetch"],
     \* a subquery with a bound: alone, before one of the whole, above the maximum
     [Plain EXCEPT !.limits = <<1>>, !.outer = "none", !.ctes = {"recent"},
                   !.tables = {"album", "recent"}, !.kind = "UNKNOWN"],
     [Plain EXCEPT !.fetch = 1, !.limits = <<9>>],
     [Plain EXCEPT !.limits = <<9, 1>>],
     \* scores at the threshold: with a LIMIT of its own, and once one is added
     [Plain EXCEPT !.features = {"SELECT", "JOIN", "STAR"}, !.scans = 2],
     [Plain EXCEPT !.limits = <<>>, !.outer = "none", !.features = {"SELECT", "JOIN", "STAR"}, !.scans = 2],
     [Plain EXCEPT !.statements = 2],
     [Plain EXCEPT !.nodes = @ \cup {"Into"}],
     [Plain EXCEPT !.nodes = @ \cup {"Lock"}],
     [Plain EXCEPT !.tables = {"pg_class"}],
     [Plain EXCEPT !.columns = {<<"album", "secret">>}],
     [Plain EXCEPT !.defects = {"long"}]}

MCRows ==
    {[key \in {<<"id">>, <<"a", "team">>} |-> "ours"],
     [key \in {<<"id">>, <<"a", "team">>, <<"note">>} |-> "theirs"]}

MCRowFilter == <<<<"a", "team">>, "ours">>
MCSensitive == {<<"team">>}
MCColumnAllowlist == [t \in {"album"} |-> {"id"}]
=============================================================================
