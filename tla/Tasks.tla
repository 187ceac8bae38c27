--------------------------------- MODULE Tasks ---------------------------------
(***************************************************************************)
(* The Tasks tab: the model that groups, sorts and flattens the tasks of    *)
(* every poll (bt_taskmodel.cpp), the control's selection and the menu over *)
(* it (TasksView in bt_views.cpp), and the operation sent to the pollers.   *)
(***************************************************************************)
EXTENDS Estimate, SequencesExt

CONSTANTS
    Polls,     \* lists of tasks the snapshots may come to, and the connected
               \* computers among those that have any
    Caps,      \* the capacity of each computer
    Polled     \* computers with a poller

Flags == {"computer", "status"}      \* the project and the application are alike
Mixed == -1                          \* "(mixed)", before every name
Shut  == [open |-> FALSE, tasks |-> {}]

Task == [name : Nat, computer : DOMAIN Caps, status : Nat, timeLeft : Nat,
         running : BOOLEAN, useCpus : Nat, useGpus : Nat]

\* The name of a task is its computer's alone: two may have a task of one name.
ASSUME TasksAssumption ==
    /\ DOMAIN Caps \subseteq Nat /\ Polled \subseteq DOMAIN Caps
    /\ \A c \in DOMAIN Caps :
          Caps[c] \in [ncpus : Nat, maxNcpusPct : Nat, cpuUsageLimit : Nat]
    /\ \A p \in Polls :
          /\ p.tasks \in Seq(Task) /\ p.connected \subseteq DOMAIN Caps
          /\ \A i, j \in DOMAIN p.tasks :
                /\ p.tasks[i].name = p.tasks[j].name
                /\ p.tasks[i].computer = p.tasks[j].computer
                => i = j

VARIABLES
    groups,    \* m_groups, in order; m_flat is Rows
    known,     \* the computers m_caps has the capacity of
    sortCol,   \* m_sortCol: "natural", "computer" or "timeLeft"
    sortAsc,
    combine,   \* the settings: the fields tasks are combined on
    sel,       \* the rows selected in the control
    menu,      \* the context menu, with the tasks it was opened for
    sent,      \* the tasks of the operation posted in the last step, if any
    chosen     \* history: the tasks under the selected rows when the menu opened

vars == <<groups, known, sortCol, sortAsc, combine, sel, menu, sent, chosen>>

----------------------------------------------------------------------------
(* The model.                                                              *)

\* std::sort: a place is the number of those that come before.
ByRank(S, rank) == [n \in 1..Cardinality(S) |-> CHOOSE x \in S : rank[x] = n - 1]

Sorted(S, Before(_, _)) ==
    ByRank(S, [x \in S |-> Cardinality({y \in S : Before(y, x)})])

\* One list per key; without a field to combine on each task has its own.
Key(flags, task, i) ==
    IF flags = {} THEN <<0, i, 0>>
    ELSE <<1, IF "computer" \in flags THEN task.computer ELSE 0,
              IF "status" \in flags THEN task.status ELSE 0>>

KeyLess(k, l) ==
    \/ k[1] < l[1]
    \/ k[1] = l[1] /\ k[2] < l[2]
    \/ k[1] = l[1] /\ k[2] = l[2] /\ k[3] < l[3]

\* The computer a new group is labelled with.
Label(list, first) ==
    IF "computer" \notin combine' /\ \E t \in list : t.computer # first.computer
    THEN Mixed ELSE first.computer

\* By the capacity of the first task's computer, or the longest task.
TimeLeft(list, first) ==
    LET c    == first.computer
        span == IF c \in known' THEN WallClockRemaining(list, Caps[c]) ELSE Unknown
    IN  IF span = Unknown THEN <<Longest(list), 1>> ELSE span

\* Mutant: a poll makes every group anew.
ExpandedAnew(old) == FALSE

Expanded(old) == \E g \in old : g.expanded

\* The tasks of the poll at these places, in no order yet.
Group(poll, at) ==
    LET first == poll.tasks[Min(at)]
        list  == {poll.tasks[i] : i \in at}
        k     == Key(combine', first, Min(at))
        old   == {g \in ToSet(groups) : g.key = k}
    IN  [key |-> k, expanded |-> Expanded(old), tasks |-> list,
         label |-> IF old = {} THEN Label(list, first)
                   ELSE (CHOOSE g \in old : TRUE).label,
         timeLeft |-> TimeLeft(list, first)]

\* Ties are broken by the key and, between tasks, by the name.
GroupBefore(g, h) ==
    LET less(a, b, tie) == IF a = b THEN tie ELSE (a < b) = sortAsc'
        tie == KeyLess(g.key, h.key)
    IN  CASE sortCol' = "natural"  -> tie
          [] sortCol' = "computer" -> less(g.label, h.label, tie)
          [] sortCol' = "timeLeft" ->
                less(g.timeLeft[1] * h.timeLeft[2], h.timeLeft[1] * g.timeLeft[2], tie)

\* std::sort leaves tasks of one name in any order.
Namesakes(S) == {s \in S : \E t \in S : t # s /\ t.name = s.name}
Ties(S)      == Injection(Namesakes(S), 1..Cardinality(Namesakes(S)))

NameBefore(s, t, tie) ==
    \/ s.name < t.name
    \/ s.name = t.name /\ s # t /\ tie[s] < tie[t]

TaskBefore(s, t, tie) ==
    IF sortCol' = "natural" \/ s[sortCol'] = t[sortCol'] THEN NameBefore(s, t, tie)
    ELSE (s[sortCol'] < t[sortCol']) = sortAsc'

InTurn(S, tie) == Sorted(S, LAMBDA s, t : TaskBefore(s, t, tie))

\* Mutant: the groups go by their first tasks.
InOrderOfNames(G) ==
    LET name(g) == g.tasks[1].name
    IN  Sorted(G, LAMBDA g, h : \/ name(g) < name(h)
                                \/ name(g) = name(h) /\ KeyLess(g.key, h.key))

InOrder(G) == Sorted(G, GroupBefore)

ApplySort(G, tie) ==
    InOrder({[g EXCEPT !.tasks = InTurn(@, tie)] : g \in G})

\* The tasks of all groups.
Shown(gs) == UNION {ToSet(gs[i].tasks) : i \in DOMAIN gs}

\* m_flat: a row for each group, and for each task of an expanded one.
Cells(gs) ==
    UNION {{<<i, j>> : j \in 0..(IF gs[i].expanded /\ Len(gs[i].tasks) > 1
                                 THEN Len(gs[i].tasks) ELSE 0)} : i \in DOMAIN gs}

Above(p, q) == p[1] < q[1] \/ (p[1] = q[1] /\ p[2] < q[2])

Flat(gs) == Sorted(Cells(gs), Above)

Rows == Flat(groups)

\* Mutant: the control is told of the rows' values only.
SelectionKept(gs) == sel

\* The control forgets the selection if the number of rows changes; else it
\* goes by the rows' numbers.
SelectionAfter(gs) == IF Len(Flat(gs)) = Len(Rows) THEN sel ELSE {}

Reflatten == sel' = SelectionAfter(groups')

\* Update, on the poll's list and with the settings as they are by then.
Update(poll) ==
    LET key(i)   == Key(combine', poll.tasks[i], i)
        incoming == {{i \in DOMAIN poll.tasks : key(i) = key(j)} :
                       j \in DOMAIN poll.tasks}
    IN  /\ known' = poll.connected
        /\ \E tie \in Ties(ToSet(poll.tasks)) :
              groups' = ApplySort({Group(poll, at) : at \in incoming}, tie)
        /\ Reflatten

\* The tasks of these rows: all those of a group, once each.
TasksForRows(rows) ==
    UNION {LET g == groups[Rows[r][1]]
           IN  IF Rows[r][2] > 0 THEN {g.tasks[Rows[r][2]]} ELSE ToSet(g.tasks) :
           r \in rows}

----------------------------------------------------------------------------
(* Rebuild, and what the user does at the Tasks tab.                       *)

\* A snapshot has come, or the tab is shown again.
Rebuild(poll) ==
    /\ combine' = combine
    /\ sent' = {} /\ UNCHANGED <<sortCol, sortAsc, menu, chosen>>
    /\ Update(poll)

\* Extra > "Filter (combine) tasks on", perhaps on another tab.
Filter(flags, poll) ==
    /\ ~menu.open
    /\ flags # combine
    /\ combine' = flags
    /\ sent' = {} /\ UNCHANGED <<sortCol, sortAsc, menu, chosen>>
    /\ Update(poll)

\* A click on a column; on the same column, the other direction.
SortBy(col) ==
    /\ ~menu.open
    /\ sortCol' = col
    /\ sortAsc' = IF col = sortCol THEN ~sortAsc ELSE TRUE
    /\ sent' = {} /\ UNCHANGED <<known, combine, menu, chosen>>
    /\ \E tie \in Ties(Shown(groups)) :
          groups' = ApplySort({[g EXCEPT !.tasks = ToSet(@)] : g \in ToSet(groups)}, tie)
    /\ Reflatten

\* A double click on the row of a group of several tasks.
ToggleRow(r) ==
    /\ ~menu.open
    /\ Rows[r][2] = 0 /\ Len(groups[Rows[r][1]].tasks) > 1
    /\ groups' = [groups EXCEPT ![Rows[r][1]].expanded = ~@]
    /\ Reflatten
    /\ sent' = {} /\ UNCHANGED <<known, sortCol, sortAsc, combine, menu, chosen>>

Select(rows) ==
    /\ ~menu.open
    /\ sel' = rows
    /\ sent' = {} /\ UNCHANGED <<groups, known, sortCol, sortAsc, combine, menu, chosen>>

\* The menu keeps the tasks; polls go on under it.
OnContextMenu ==
    /\ ~menu.open
    /\ TasksForRows(sel) # {}
    /\ menu' = [open |-> TRUE, tasks |-> TasksForRows(sel)]
    /\ chosen' = {t \in Shown(groups) :
                    \E r \in sel : LET g == groups[Rows[r][1]]
                                   IN  t \in {g.tasks[j] : j \in
                                        IF Rows[r][2] = 0 THEN DOMAIN g.tasks
                                        ELSE {Rows[r][2]}}}
    /\ sent' = {} /\ UNCHANGED <<groups, known, sortCol, sortAsc, combine, sel>>

\* Mutant: the rows are read when the entry is chosen.
OperandsAfresh == TasksForRows(sel)

Operands == menu.tasks

\* An entry of the menu, confirmed if it is Abort; OnTaskOp posts an operation
\* for each task whose computer has a poller.
MenuOp ==
    /\ menu.open
    /\ menu' = Shut
    /\ sent' = {t \in Operands : t.computer \in Polled}
    /\ chosen' = {}
    /\ UNCHANGED <<groups, known, sortCol, sortAsc, combine, sel>>

Dismiss ==
    /\ menu.open
    /\ menu' = Shut
    /\ sent' = {} /\ chosen' = {}
    /\ UNCHANGED <<groups, known, sortCol, sortAsc, combine, sel>>

----------------------------------------------------------------------------

Init ==
    /\ groups = <<>>
    /\ known = {}
    /\ sortCol = "natural"
    /\ sortAsc = TRUE
    /\ combine = Flags
    /\ sel = {}
    /\ menu = Shut
    /\ sent = {}
    /\ chosen = {}

Next ==
    \/ \E poll \in Polls : Rebuild(poll) \/ \E flags \in SUBSET Flags : Filter(flags, poll)
    \/ \E col \in {"computer", "timeLeft"} : SortBy(col)
    \/ \E r \in DOMAIN Rows : ToggleRow(r)
    \/ \E r, q \in DOMAIN Rows : Select({r, q})
    \/ OnContextMenu \/ MenuOp \/ Dismiss

Spec == Init /\ [][Next]_vars

----------------------------------------------------------------------------
(* Properties.                                                             *)

TypeOK ==
    /\ groups \in Seq([key : Nat \X Nat \X Nat, expanded : BOOLEAN,
                       tasks : Seq(Task), label : {Mixed} \cup DOMAIN Caps,
                       timeLeft : Nat \X Nat])
    /\ \A i \in DOMAIN groups : groups[i].tasks # <<>>
    /\ known \subseteq DOMAIN Caps
    /\ sortCol \in {"natural", "computer", "timeLeft"} /\ sortAsc \in BOOLEAN
    /\ combine \subseteq Flags
    /\ sel \subseteq DOMAIN Rows
    /\ menu.open \in BOOLEAN /\ menu.tasks \subseteq Task /\ sent \subseteq Task

SameTask(s, t) == s.name = t.name /\ s.computer = t.computer

\* Where a task is shown: its group and its place there.
Place(gs, t) ==
    LET i == CHOOSE i \in DOMAIN gs : \E u \in ToSet(gs[i].tasks) : SameTask(u, t)
    IN  <<i, CHOOSE j \in DOMAIN gs[i].tasks : SameTask(gs[i].tasks[j], t)>>

Stayed == {t \in Shown(groups) : \E u \in Shown(groups') :
              SameTask(u, t) /\ u.status = t.status}

\* In the natural order, whatever comes, goes or changes its status: tasks that
\* do not stay in the same order from poll to poll.  Two of one name in one group
\* may change places, the names being all they are sorted by.
RowsDoNotDance ==
    [][(sortCol = "natural" /\ sortCol' = "natural" /\ combine' = combine
        /\ combine # {}) =>
          \A s, t \in Stayed :
              /\ Above(Place(groups, s), Place(groups, t))
              /\ s.name # t.name \/ Place(groups, s)[1] # Place(groups, t)[1]
              => Above(Place(groups', s), Place(groups', t))]_vars

\* No poll and no sorting closes a group while a task of it is there: where an
\* expanded group is not any more, its own row was clicked.
ExpansionSurvives ==
    [][(combine' = combine /\ combine # {}) =>
          \A t \in Stayed :
              /\ groups[Place(groups, t)[1]].expanded
              /\ ~groups'[Place(groups', t)[1]].expanded
              => \E r \in DOMAIN Rows :
                    Rows[r][1] = Place(groups, t)[1] /\ ToggleRow(r)]_vars

\* An operation is done to the tasks that were under the selected rows when
\* the menu opened, whatever the polls put there meanwhile.
ActsOnWhatWasChosen ==
    [][sent' # {} => sent' = {t \in chosen : t.computer \in Polled}]_vars

\* The percentage of the time a computer works.
Limit(cap) == IF cap.cpuUsageLimit \in 1..99 THEN cap.cpuUsageLimit ELSE 100

\* What it has besides the GPU tasks that run there, in hundredths of a processor;
\* one is never taken away.
LeftOver(T, cap) == AtLeast(100, cap.ncpus * cap.maxNcpusPct - Used(GpuRunning(T), 0))

\* No more than all tasks take one after another; no less than the longest, nor than
\* the CPU tasks on what is left over, if each needs a processor of its own.
Fits(T, cap, span) ==
    /\ Leq(span, <<100 * Work(T), Limit(cap)>>)
    /\ Leq(<<100 * Longest(T), Limit(cap)>>, span)
    /\ (\A t \in CpuTasks(T) : t.useCpus = 0 \/ t.useCpus >= 100) =>
         Leq(<<10000 * Work(CpuTasks(T)), Limit(cap) * LeftOver(T, cap)>>, span)

\* A group's time left is its longest task's at least; and a group on one computer,
\* whose processors are known, keeps within what that computer can do.
TimeLeftInBounds ==
    \A i \in DOMAIN groups :
        LET T == ToSet(groups[i].tasks)
        IN  /\ Leq(<<Longest(T), 1>>, groups[i].timeLeft)
            /\ \A c \in known :
                  Caps[c].ncpus > 0 /\ (\A t \in T : t.computer = c)
                    => Fits(T, Caps[c], groups[i].timeLeft)
=============================================================================
