------------------------ MODULE MCResultPresentation ------------------------
(* Results, replies and settings for TLC.                                  *)
EXTENDS ResultPresentation

Num(n) == [kind |-> "int", n |-> n]
Cell(kind) == [kind |-> kind, n |-> 0]
Digits(n) == [kind |-> "digits", n |-> n]

MCResults ==
    {<<>>,
     <<[total |-> Num(7)]>>,
     <<[total |-> Num(-7), name |-> Cell("text")]>>,
     <<[flag |-> Cell("bool")], [flag |-> Cell("null")]>>,
     <<[note |-> Cell("long"), name |-> Cell("text")], [note |-> Cell("long"), name |-> Digits(5)]>>,
     <<[total |-> Num(7)], [total |-> [kind |-> "whole", n |-> 4]], [total |-> Cell("ratio")]>>,
     [i \in 1 .. 4 |-> [total |-> Num(9)]]}

(* Replies with labels have a reason; both mention numbers no result has. *)
Body(shape, format, content, ints, labels) ==
    [shape |-> shape, format |-> format, content |-> content, ints |-> ints, labels |-> labels,
     reason |-> IF labels = {} THEN "none" ELSE "text",
     reasonInts |-> IF labels = {} THEN {} ELSE {8}]
Plain(status) == [status |-> status, body |-> Body("prose", "table", "none", {}, {})]
Text(body) == [status |-> "text", body |-> body]

MCReplies ==
    {Plain("transient"), Plain("failed"), Plain("odd"), Text(Body("prose", "table", "none", {}, {})),
     Text(Body("array", "table", "none", {}, {}))}
    \cup {Text(Body(shape, format, content, ints, labels)) :
             shape \in {"object"},
             format \in {"paragraph", "chart", "table", "pie"},
             content \in {"none", "text"},
             ints \in {{}, {7}, {2}, {3}, {4, 9}, {5}},
             labels \in {{}, {<<"total", "good", {6}>>, <<"note", "blank", {}>>, <<"region", "good", {}>>}}}
    \cup {Text(Body(shape, "list", "text", {}, {<<"name", "good", {}>>})) : shape \in {"fenced", "embedded"}}

Settings(enabled, key, retries, sampleRows, payload) ==
    [enabled |-> enabled, key |-> key, retries |-> retries, sampleRows |-> sampleRows,
     payload |-> payload]
MCConfigs ==
    {Settings(TRUE, TRUE, 3, 2, 9), Settings(TRUE, TRUE, 2, 20, 2), Settings(TRUE, TRUE, 0, 0, 9),
     Settings(FALSE, TRUE, 3, 20, 9), Settings(TRUE, FALSE, 3, 20, 9)}
===============================================================================
