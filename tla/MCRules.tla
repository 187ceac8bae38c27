------------------------------- MODULE MCRules -------------------------------
(* Values for the constants of Rules. *)
EXTENDS Rules

Order  == <<"lin1", "lin2">>
Names  == ("" :> {"lin1", "lin2"}) @@ ("lin" :> {"lin1", "lin2"}) @@
          ("lin1" :> {"lin1"}) @@ ("lin2" :> {"lin2"})

Cond(type, op, value, need) == [type |-> type, op |-> op, value |-> value, need |-> need]
NoCond == Cond("none", "none", 0, 0)
Plain(start, stop)  == [start |-> start, stop |-> stop, inverted |-> FALSE]
Except(start, stop) == [start |-> start, stop |-> stop, inverted |-> TRUE]
Text(computer, cond, intervals, event, snooze) ==
    [computer |-> computer, project |-> "", cond |-> cond, intervals |-> intervals,
     event |-> event, snooze |-> snooze]

RuleTexts ==
    << Text("", <<Cond("progress", "more", 5, 0), Cond("connection", "no longer", 0, 0)>>,
            {}, "op", 0),
       Text("", <<Cond("wallclock", "none", 0, 0), NoCond,
                  Cond("project left", "less", 4, 0)>>,
            {Plain(7, 3), Plain(5, 6)}, "run", 2),
       Text("lin", <<Cond("wallclock", "none", 0, 0), Cond("connection", "not", 0, 0),
                      Cond("status", "is", 2, 1)>>,
            {Plain(1, 8), Except(4, 5)}, "op", 2),
       Text("lin", <<Cond("delta", "less", 8, 0), Cond("timeLeft", "more", 2, 0)>>,
            {}, "op", 1) >>

Task(name, computer, state, progress, timeLeft) ==
    [name |-> name, computer |-> computer, project |-> "p", state |-> state,
     progress |-> progress, timeLeft |-> timeLeft]
Shown(s1, s2, tasks, polled) ==
    [state |-> ("lin1" :> s1) @@ ("lin2" :> s2), tasks |-> tasks, polled |-> polled]

RuleWorlds ==
    << Shown("up", "up", <<Task("a", "lin1", 1, 2, 6), Task("b", "lin2", 2, 6, 3)>>,
             {"lin1", "lin2"}),
       Shown("down", "up", <<Task("b", "lin2", 2, 7, 3), Task("c", "lin2", 2, 0, 3)>>,
            {"lin1", "lin2"}),
       Shown("none", "down", <<>>, {"lin2"}) >>
=============================================================================
