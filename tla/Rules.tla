--------------------------------- MODULE Rules ---------------------------------
(***************************************************************************)
(* The rules engine (bt_rules.cpp), the timer that feeds it with the       *)
(* snapshots of all computers and the dispatch of what fires (bt_main.cpp),*)
(* and the settings dialog (bt_rulesdlg.cpp), which works on a copy of the *)
(* rules while the timer goes on firing the originals.                     *)
(***************************************************************************)
EXTENDS Integers, Sequences, SequencesExt

CONSTANTS
    HostOrder,   \* the computers' names, in the order of the maps keyed by them
    Within,      \* for each text a rule may give: the names that contain it
    Blank,       \* the text left empty; also the project left empty
    Worlds,      \* what the snapshots may show, numbered
    Texts,       \* what a rule may say, numbered
    Ids,         \* bound: rules ever made; identities the code does not have
    Minute,      \* units of time in a minute
    Week,        \* units of time in the scheduler's week
    Steps,       \* units of time between two ticks: the timer, early or late
    Never,       \* bound: how long a firing is remembered, and more
    Offered,     \* bound: what is entered in the dialog
    MaxDialogs,  \* bound: uses of the settings dialog
    MaxChanges   \* bound: changes made to the rules in one use

Hosts == ToSet(HostOrder)

\* No computer is without a name, and the grid of the week draws no interval
\* beyond it.
ASSUME RulesAssumption ==
    /\ HostOrder \in Seq(Hosts) /\ Blank \notin Hosts
    /\ Within \in [DOMAIN Within -> SUBSET Hosts]
    /\ Blank \in DOMAIN Within /\ Within[Blank] = Hosts
    /\ Hosts \subseteq DOMAIN Within /\ \A h \in Hosts : h \in Within[h]
    /\ \A b \in DOMAIN Texts :
          /\ Texts[b].computer \in DOMAIN Within
          /\ \E n \in 1..3 : DOMAIN Texts[b].cond = 1..n
          /\ \A i \in Texts[b].intervals : i.start \in 0..(Week - 1) /\ i.stop \in 0..Week
          /\ Texts[b].snooze \in Int
    /\ \A n \in DOMAIN Worlds :
          /\ Len(Worlds[n].tasks) \in Nat
          /\ DOMAIN Worlds[n].tasks = 1..Len(Worlds[n].tasks)
          /\ \A i \in DOMAIN Worlds[n].tasks : Worlds[n].tasks[i].computer \in Hosts
          /\ Worlds[n].polled \subseteq Hosts
    /\ Offered \subseteq DOMAIN Texts
    /\ Minute \in Nat \ {0} /\ Week \in Nat \ {0} /\ Steps \subseteq 1..(Week - 1)
    /\ Never \in Nat /\ Never >= Week

VARIABLES
    clock,       \* time of the week
    rules,       \* BtRuleEngine::m_rules; left is what remains of the back-off
    seen,        \* m_everConnected
    last,        \* the world evaluated last, for m_progressHistory; 0 for none
    fired,       \* the rules that fired last
    sent,        \* the operations DispatchRule posted for it
    dialog,      \* the settings dialog is open
    copy,        \* the rules it was given and has changed
    dialogs, changes,
    ago,         \* history: time since each rule fired, Never if that was before
                 \* it was last edited or loaded
    touched,     \* history: rules changed in the dialog, or fired while it is open
    unsettled    \* history: wall-clock rules put in place amid their interval

vars == <<clock, rules, seen, last, fired, sent, dialog, copy, dialogs, changes,
          ago, touched, unsettled>>

Nothing == [state |-> [h \in Hosts |-> "none"], tasks |-> <<>>, polled |-> {}]
World(n) == IF n = 0 THEN Nothing ELSE Worlds[n]

----------------------------------------------------------------------------
(* Evaluate.                                                               *)

Compare(op, lhs, rhs) ==
    CASE op = "is"   -> lhs = rhs
      [] op = "more" -> lhs > rhs
      [] op = "less" -> lhs < rhs
      [] op = "not"  -> lhs # rhs
      [] OTHER       -> FALSE

FirstIn(order, S) == SelectInSeq(order, LAMBDA h : h \in S)

Inside(interval, t) ==
    IF interval.stop > interval.start
    THEN interval.start <= t /\ t < interval.stop
    ELSE interval.start <= t \/ t < interval.stop

\* Inverted intervals veto; without a plain one, outside them is a match.
InAnyInterval(intervals, t) ==
    /\ \A i \in intervals : i.inverted => ~Inside(i, t)
    /\ (\E i \in intervals : ~i.inverted) =>
           \E i \in intervals : ~i.inverted /\ Inside(i, t)

\* The tasks whose computer and project the rule names, or leaves blank.
MatchesFields(r, w) ==
    {i \in DOMAIN w.tasks : /\ w.tasks[i].computer \in Within[r.computer]
                            /\ r.project \in {Blank, w.tasks[i].project}}

OnHost(r, w, h) == {i \in MatchesFields(r, w) : w.tasks[i].computer = h}

TimeLeft(w, S) == FoldLeftDomain(LAMBDA sum, i :
                      IF i \in S THEN sum + w.tasks[i].timeLeft ELSE sum, 0, w.tasks)

\* Where a condition about computers holds: their names, or for a time of the
\* week the text of the rule.  A computer without a task that matches is not
\* looked at.
Where(r, c, w, ever, t) ==
    CASE c.type = "connection" ->
            {h \in Within[r.computer] : /\ w.state[h] = "down"
                                        /\ \/ c.op = "not"
                                           \/ c.op = "no longer" /\ h \in ever}
      [] c.type = "wallclock" ->
            IF r.intervals # {} /\ InAnyInterval(r.intervals, t)
            THEN {r.computer} ELSE {}
      [] c.type = "project left" ->
            {h \in Hosts : /\ OnHost(r, w, h) # {}
                           /\ Compare(c.op, TimeLeft(w, OnHost(r, w, h)), c.value)}
      [] c.type = "status" ->
            {h \in Hosts :
                LET hits == {i \in OnHost(r, w, h) : w.tasks[i].state = c.value}
                IN  /\ hits # {}
                    /\ Compare(IF c.op = "none" THEN "more" ELSE c.op,
                               Cardinality(hits), c.need)}
      [] OTHER -> {}

\* Whether a condition holds of a task.  Conditions about computers never do.
HoldsOf(c, task, before, dt) ==
    CASE c.type \in {"progress", "timeLeft"} -> Compare(c.op, task[c.type], c.value)
      [] c.type = "delta" ->
            /\ 2 * dt >= Minute
            /\ \E i \in DOMAIN before.tasks :
                  LET then == before.tasks[i]
                  IN  /\ then.computer = task.computer /\ then.name = task.name
                      /\ Compare(c.op, (task.progress - then.progress) * Minute,
                                 c.value * dt)
      [] OTHER -> FALSE

Given(r) == {k \in DOMAIN r.cond : r.cond[k].type # "none"}

\* Of tasks, all the conditions must hold, and there must be one.
Matching(r, w, before, dt) ==
    {i \in MatchesFields(r, w) :
        /\ Given(r) # {}
        /\ \A k \in Given(r) : HoldsOf(r.cond[k], w.tasks[i], before, dt)}

\* What a rule does, as {} or {action}: the first condition about
\* computers that holds somewhere is enough; failing that, all must hold of
\* one task.
Action(id, r, w, before, ever, t, dt) ==
    LET hits(k) == Where(r, r.cond[k], w, ever, t)
        some    == {k \in DOMAIN r.cond : hits(k) # {}}
        tasks   == Matching(r, w, before, dt)
    IN  IF some # {}
        THEN LET k == CHOOSE k \in some : \A j \in some : k <= j
             IN  {[id |-> id, event |-> r.event, task |-> 0,
                   computer |-> IF r.cond[k].type = "wallclock" THEN r.computer
                                ELSE HostOrder[FirstIn(HostOrder, hits(k))]]}
        ELSE IF tasks # {}
        THEN LET i == CHOOSE i \in tasks : \A j \in tasks : i <= j
             IN  {[id |-> id, event |-> r.event, task |-> i,
                   computer |-> w.tasks[i].computer]}
        ELSE {}

----------------------------------------------------------------------------
(* RunRules and DispatchRule.                                              *)

\* Mutants: time goes on counting below zero; it does not count.
CountDownPast(n, dt)  == n - dt
CountDownNever(n, dt) == n

CountDown(n, dt) == IF n > dt THEN n - dt ELSE 0

\* Mutants: a rule without a snooze has no back-off either; a time of the
\* week is no exception.
BackoffAsSnoozed(r) ==
    IF r.cond[1].type = "wallclock" THEN Minute ELSE r.snooze * Minute
BackoffAlike(r) == IF r.snooze > 0 THEN r.snooze * Minute ELSE 5 * Minute

\* A minute for a time of the week, the snooze of the others or five minutes.
Backoff(r) ==
    IF r.cond[1].type = "wallclock" THEN Minute
    ELSE IF r.snooze > 0 THEN r.snooze * Minute ELSE 5 * Minute

Armed(r, dt) ==
    r.enabled /\ Texts[r.text].event # "none" /\ CountDown(r.left, dt) = 0

\* Mutant: nobody looks for which computer it is.
AddressedAll(act) == Hosts

\* The computers an action is for, by their whole names.
Addressed(act) == IF act.computer = Blank THEN Hosts ELSE {act.computer} \cap Hosts

\* An operation for each that is polled; a program is run here instead.
Dispatch(act, w) ==
    IF act.event = "run" THEN {}
    ELSE {[id |-> act.id, computer |-> h, task |-> act.task] :
              h \in Addressed(act) \cap w.polled}

Up(w) == {h \in Hosts : w.state[h] = "up"}

Tick(dt) == clock' = (clock + dt) % Week

\* The rule timer.  It also fires while the settings dialog is open.
RunRules(n, dt) ==
    LET w      == World(n)
        t      == (clock + dt) % Week
        ever   == seen \cup Up(w)
        acts   == UNION {Action(q.id, Texts[q.text], w, World(last), ever, t, dt) :
                            q \in {p \in ToSet(rules) : Armed(p, dt)}}
        ids    == {a.id : a \in acts}
    IN  /\ Tick(dt)
        /\ seen' = ever
        /\ last' = n
        /\ fired' = ids
        /\ sent' = UNION {Dispatch(a, w) : a \in acts}
        /\ rules' = [k \in DOMAIN rules |->
              [rules[k] EXCEPT !.left = IF rules[k].id \in ids
                                        THEN Backoff(Texts[rules[k].text])
                                        ELSE CountDown(@, dt)]]
        /\ copy' = [k \in DOMAIN copy |-> [copy[k] EXCEPT !.left = CountDown(@, dt)]]
        /\ ago' = [i \in Ids |-> IF i \in ids THEN 0
                                 ELSE IF ago[i] + dt < Never THEN ago[i] + dt ELSE Never]
        /\ touched' = IF dialog THEN touched \cup ids ELSE touched
        /\ unsettled' = {i \in unsettled : \E k \in DOMAIN rules :
              rules[k].id = i /\ InAnyInterval(Texts[rules[k].text].intervals, t)}
        /\ UNCHANGED <<dialog, dialogs, changes>>

----------------------------------------------------------------------------
(* The settings dialog.                                                    *)

OnSettings ==
    /\ ~dialog
    /\ dialogs < MaxDialogs
    /\ dialog' = TRUE
    /\ dialogs' = dialogs + 1
    /\ copy' = rules
    /\ changes' = 0
    /\ touched' = {}
    /\ UNCHANGED <<clock, rules, seen, last, fired, sent, ago, unsettled>>

Change(newCopy, ids) ==
    /\ dialog
    /\ changes < MaxChanges
    /\ changes' = changes + 1
    /\ copy' = newCopy
    /\ touched' = touched \cup ids
    /\ UNCHANGED <<clock, rules, seen, last, fired, sent, dialog, dialogs,
                   ago, unsettled>>

Unused == Ids \ {r.id : r \in ToSet(rules) \cup ToSet(copy)}

\* The editor's result is armed at once.
Edited(id, text, named, enabled) ==
    [id |-> id, named |-> named, text |-> text, enabled |-> enabled, left |-> 0]

OnToggle(k) == Change([copy EXCEPT ![k].enabled = ~@], {})

\* A new rule needs a name.
OnAdd(text, enabled) ==
    \E id \in Unused : Change(Append(copy, Edited(id, text, TRUE, enabled)), {id})

\* A changed one does not.
OnEdit(k, text, named, enabled) ==
    Change([copy EXCEPT ![k] = Edited(@.id, text, named, enabled)], {copy[k].id})

\* The back-off is copied too.
OnCopy(k) ==
    \E id \in Unused :
        Change(Append(copy, [copy[k] EXCEPT !.id = id, !.named = TRUE,
                                            !.enabled = FALSE]), {id})

OnDelete(k) == Change(RemoveAt(copy, k), {copy[k].id})

\* Rules put in place while their interval lasts.
Amid(rs) == {r.id : r \in {q \in ToSet(rs) : InAnyInterval(Texts[q.text].intervals, clock)}}

\* OK: the copy is saved, and it is what the engine goes on with.
Accept ==
    /\ dialog
    /\ dialog' = FALSE
    /\ rules' = copy
    /\ copy' = <<>>
    /\ ago' = [i \in Ids |-> IF i \in touched THEN Never ELSE ago[i]]
    /\ touched' = {}
    /\ unsettled' = Amid(copy)
    /\ UNCHANGED <<clock, seen, last, fired, sent, dialogs, changes>>

Cancel ==
    /\ dialog
    /\ dialog' = FALSE
    /\ copy' = <<>>
    /\ touched' = {}
    /\ UNCHANGED <<clock, rules, seen, last, fired, sent, dialogs, changes,
                   ago, unsettled>>

\* The program is started again: a rule without a name is not loaded.  (The
\* one sequence of those with a name, in their order.)
Loaded ==
    LET named == {k \in DOMAIN rules : rules[k].named}
    IN  {[k \in DOMAIN at |-> [rules[at[k]] EXCEPT !.left = 0]] :
            at \in {f \in [1..Cardinality(named) -> named] :
                       \A j, k \in DOMAIN f : j < k => f[j] < f[k]}}

Restart ==
    /\ rules' \in Loaded
    /\ seen' = {}
    /\ last' = 0
    /\ fired' = {}
    /\ sent' = {}
    /\ dialog' = FALSE
    /\ copy' = <<>>
    /\ ago' = [i \in Ids |-> Never]
    /\ touched' = {}
    /\ unsettled' = Amid(rules')
    /\ UNCHANGED <<clock, dialogs, changes>>

----------------------------------------------------------------------------

Init ==
    /\ clock = 0
    /\ \E text \in DOMAIN Texts : \E id \in Ids :
          /\ \A i \in Ids : id <= i
          /\ rules = <<Edited(id, text, TRUE, TRUE)>>
    /\ seen = {}
    /\ last = 0
    /\ fired = {}
    /\ sent = {}
    /\ dialog = FALSE
    /\ copy = <<>>
    /\ dialogs = 0 /\ changes = 0
    /\ ago = [i \in Ids |-> Never]
    /\ touched = {}
    /\ unsettled = Amid(rules)

Timer == \E n \in DOMAIN Worlds, dt \in Steps : RunRules(n, dt)

Settings ==
    \/ OnSettings \/ Accept \/ Cancel
    \/ \E k \in DOMAIN copy : OnToggle(k) \/ OnCopy(k) \/ OnDelete(k)
    \/ \E text \in Offered, enabled \in BOOLEAN :
          \/ OnAdd(text, enabled)
          \/ \E k \in DOMAIN copy, named \in BOOLEAN : OnEdit(k, text, named, enabled)

Next == Timer \/ Settings \/ Restart

\* The timer goes on whatever the user does; it is what moves the clock.
Spec == Init /\ [][Next]_vars /\ WF_clock(\E dt \in Steps : Tick(dt))

----------------------------------------------------------------------------
(* Properties.                                                             *)

TypeOK ==
    /\ clock \in 0..(Week - 1)
    /\ rules \in Seq([id : Ids, named : BOOLEAN, text : DOMAIN Texts,
                      enabled : BOOLEAN, left : Nat])
    /\ \A j, k \in DOMAIN rules : rules[j].id = rules[k].id => j = k
    /\ seen \subseteq Hosts
    /\ last \in {0} \cup DOMAIN Worlds
    /\ fired \subseteq Ids
    /\ sent \subseteq [id : Ids, computer : World(last).polled,
                  task : 0..Len(World(last).tasks)]
    /\ dialog \in BOOLEAN /\ (~dialog => copy = <<>>)
    /\ ago \in [Ids -> 0..Never]
    /\ touched \subseteq Ids /\ unsettled \subseteq Ids

Elapsed == (clock' - clock) % Week

TextOf(i) == Texts[(CHOOSE r \in ToSet(rules) : r.id = i).text]

\* An operation goes only where all the conditions of its rule hold, each for
\* that computer, for some task of it or for the time of the week: what the
\* head of bt_rules.h says of a rule.  Evaluate fires on one condition about a
\* computer or the time alone.
AllMustHold ==
    [][\A a \in sent' : Elapsed # 0 =>
          LET r       == TextOf(a.id)
              w       == World(last')
              where(k) == Where(r, r.cond[k], w, seen', clock')
          IN  \A k \in Given(r) :
                 \/ a.computer \in where(k)
                 \/ r.cond[k].type = "wallclock" /\ where(k) # {}
                 \/ \E i \in OnHost(r, w, a.computer) :
                       HoldsOf(r.cond[k], w.tasks[i], World(last), Elapsed)]_vars

\* Less than that is so: an operation goes to no computer where nothing the
\* rule says holds.  For the task it names all the conditions do, but an
\* operation without a task needs one condition only, about that very computer
\* or about the time.
SentWhereItHolds ==
    [][\A a \in sent' : Elapsed # 0 =>
          LET r == TextOf(a.id)
          IN  IF a.task = 0
              THEN \E k \in DOMAIN r.cond :
                      Where(r, r.cond[k], World(last'), seen', clock') \cap
                          {a.computer, Blank} # {}
              ELSE LET task == World(last').tasks[a.task]
                   IN  /\ task.computer = a.computer
                       /\ a.computer \in Within[r.computer]
                       /\ \A k \in Given(r) : HoldsOf(r.cond[k], task, World(last),
                                                   Elapsed)]_vars

\* Between two firings of a rule that was not edited or loaded in between, nor
\* replaced by the copy of a dialog open at the first, lie its snooze or five
\* minutes; a minute if it starts with a time of the week.
SpacedOut ==
    [][\A i \in fired' : Elapsed # 0 /\ ago[i] < Never =>
          /\ ago[i] + Elapsed >= Minute
          /\ TextOf(i).cond[1].type # "wallclock" =>
                /\ ago[i] + Elapsed >= TextOf(i).snooze * Minute
                /\ TextOf(i).snooze = 0 => ago[i] + Elapsed >= 5 * Minute]_vars

\* A rule that starts with a time of the week fires in every interval of it
\* that is long enough for a back-off and a late tick: none ends unnoticed.
Longest == CHOOSE dt \in Steps : \A d \in Steps : d <= dt

NoIntervalMissed ==
    [][\A q \in ToSet(rules) : \A i \in Texts[q.text].intervals :
          (/\ Elapsed # 0
           /\ q.enabled /\ Texts[q.text].event # "none" /\ q.id \notin unsettled
           /\ Texts[q.text].cond[1].type = "wallclock"
           /\ \A j \in Texts[q.text].intervals : ~j.inverted
           /\ (i.stop - i.start) % Week >= Minute + Longest
           /\ Inside(i, clock) /\ ~Inside(i, clock'))
          => ago[q.id] <= (clock - i.start) % Week]_vars

\* A rule whose condition about computers goes on holding somewhere goes on
\* firing, whatever is done in the dialog.
Due(i) ==
    \E q \in ToSet(rules) :
        /\ q.id = i /\ q.enabled /\ Texts[q.text].event # "none"
        /\ \E k \in DOMAIN Texts[q.text].cond :
              LET c == Texts[q.text].cond[k]
              IN  /\ c.type # "wallclock"
                  /\ Where(Texts[q.text], c, World(last), seen, clock) # {}

KeepsFiring == \A i \in Ids : <>[]Due(i) => []<>(i \in fired)
=============================================================================
