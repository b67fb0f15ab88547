----------------------------- MODULE MCOperators -----------------------------
EXTENDS Operators, TLC

(* Elements 1..n of a channel; a task channel has one or is closed empty. *)
Numbered(c, n) == [i \in 1..n |-> <<c, i>>]

Pipeline(kinds, bad) ==
    [op |-> "pipeline", kind |-> kinds, from |-> <<"s", "mid">>, to |-> <<"mid", "out">>,
     feed |-> "s" :> Numbered("s", 4), bad |-> bad,
     keep |-> {<<"s", 11>>, <<"s", 13>>, <<"s", 14>>}]

Merge ==
    [op |-> "merge", kind |-> <<"pipe", "pipe">>, from |-> <<"s", "t">>,
     to |-> <<"out", "out">>, feed |-> "s" :> Numbered("s", 2) @@ "t" :> Numbered("t", 2),
     bad |-> {}, keep |-> {}]

Await(results, bad) ==
    [op |-> "await", kind |-> <<"await", "await">>, from |-> <<"s", "t">>, to |-> <<>>,
     feed |-> "s" :> Numbered("s", 1) @@ "t" :> Numbered("t", results),
     bad |-> bad, keep |-> {}]

May(group, end, stop) ==
    group @@ [mayEnd |-> end, mayStop |-> stop]

MCSetups ==
    {May(g, TRUE, TRUE) : g \in
        {Pipeline(<<"map", "filter">>, {}), Pipeline(<<"map", "filter">>, {<<"s", 3>>}),
         Pipeline(<<"pipe", "map">>, {}), Merge}}
    \union
    {May(g, TRUE, FALSE) : g \in {Await(0, {}), Await(1, {<<"s", 1>>})}}
=============================================================================
