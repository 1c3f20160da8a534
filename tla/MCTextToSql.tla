---------------------------- MODULE MCTextToSql ----------------------------
EXTENDS TextToSql

(* SELECT a.id FROM album a *)
Plain ==
    [head |-> <<"select">>, defects |-> {}, statements |-> 1, kind |-> "SELECT",
     selects |-> TRUE, keywords |-> {"select", "from"}, nodes |-> {"Query", "Table"},
     functions |-> {}, tables |-> {"album"}, ctes |-> {}, columns |-> {<<"a", "id">>},
     declared |-> {"album", "a"}, referenced |-> {"a"}, shape |-> {}]

MCCandidates ==
    {Plain,
     [Plain EXCEPT !.head = <<"fence", "SQL", "select", "fence">>],
     [Plain EXCEPT !.head = <<"SQL", "fence", "select", "fence">>],
     [Plain EXCEPT !.head = <<"with">>, !.kind = "UNKNOWN"],
     [Plain EXCEPT !.head = <<"elect">>],
     [Plain EXCEPT !.statements = 2],
     [Plain EXCEPT !.referenced = {"b"}],
     [Plain EXCEPT !.shape = {"aggregate", "correlated"}],
     [Plain EXCEPT !.shape = {"aggregate", "correlated", "group"}],
     [Plain EXCEPT !.functions = {"pg_sleep"}]}

NoColumns == <<>>
=============================================================================
