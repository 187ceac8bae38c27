------------------------------ MODULE History ------------------------------
(***************************************************************************)
(* How a completed task reaches the history database and how it leaves it. *)
(* A poller emits what is new in its client's short list of old results    *)
(* (bt_poller.cpp); the frame keeps the rows in the stored snapshot until  *)
(* Rebuild inserts them (bt_main.cpp); BtHistory holds a live table and a  *)
(* long-term table (bt_history.cpp).  A handler runs its SQL statements    *)
(* one by one, each its own transaction; any of them may fail, the clock   *)
(* goes on and the program may be killed between two of them.              *)
(*                                                                         *)
(* Time is counted in days.                                                *)
(***************************************************************************)
EXTENDS Integers, Sequences, FiniteSets

CONSTANTS
    Clients,          \* BOINC clients, each polled under its current name
    Names,            \* the names they may be given
    Tasks,            \* tasks that complete
    RunsOn,           \* the client each task runs on
    LocalClients,     \* clients whose entry in the list is on this machine
    Logged,           \* the client whose job logs this machine has
    Window,           \* old results a client keeps
    SeenMax,          \* completed tasks a poller remembers
    LongTermDays,     \* longTermAfterDays, 0 for never
    Retentions,       \* values of historyDays, 0 for everything
    MaxDay,           \* bound: days
    MaxPosted,        \* bound: callbacks waiting in the event queue
    MaxStarts,        \* bound: starts of the program
    MaxRestarts       \* bound: restarts of the pollers

ASSUME HistoryAssumption ==
    /\ RunsOn \in [Tasks -> Clients]
    /\ LocalClients \subseteq Clients
    /\ Window \in Nat \ {0} /\ SeenMax \in Nat \ {0}
    /\ LongTermDays \in Nat /\ Retentions \subseteq Nat
    /\ MaxDay \in Nat /\ MaxPosted \in Nat /\ MaxStarts \in Nat \ {0}
    /\ MaxRestarts \in Nat

\* The key of both tables; the rest of a row is a function of the task.
Row == [computer : Names, task : Tasks]

Never == MaxDay + 1
Unset == MaxDay + 1

VARIABLES
    today,
    completedAt,   \* the day each task completed, or Never
    window,        \* each client's old results, oldest first
    name,          \* each client's name in m_computers
    seen,          \* seenCompleted of each client's poller
    posted,        \* callbacks not yet run: a name and its completed rows
    snapshots,     \* completed rows of the snapshot stored under each name
    opened,        \* whether the database could be opened at this start
    history, longterm,
    job,           \* statements the running handler has yet to execute
    cutoff,        \* of the handler's last MoveToLongTerm, Unset before it
    ok,            \* whether that move's copy succeeded
    retention,     \* historyDays, in the settings, on disk and in the frame
    starts, restarts

clientVars == <<today, completedAt, window>>
dbVars     == <<history, longterm>>
jobVars    == <<job, cutoff, ok>>
countVars  == <<starts, restarts>>
vars == <<today, completedAt, window, name, seen, posted, snapshots, opened,
          history, longterm, job, cutoff, ok, retention, starts, restarts>>

Idle == job = <<>>
Store == history \cup longterm

----------------------------------------------------------------------------
(* The clients: not part of the program.                                   *)

\* A task completes.  The client drops its oldest result beyond Window.
Complete(t) ==
    /\ completedAt[t] = Never
    /\ completedAt' = [completedAt EXCEPT ![t] = today]
    /\ LET all == Append(window[RunsOn[t]], t)
       IN  window' = [window EXCEPT ![RunsOn[t]] =
                        IF Len(all) > Window THEN Tail(all) ELSE all]
    /\ UNCHANGED <<today, name, seen, posted, snapshots, opened, dbVars, jobVars,
                   retention, countVars>>

\* The clock, also while a handler is at work.
NewDay ==
    /\ today < MaxDay
    /\ today' = today + 1
    /\ UNCHANGED <<completedAt, window, name, seen, posted, snapshots, opened,
                   dbVars, jobVars, retention, countVars>>

----------------------------------------------------------------------------
(* The pollers and the frame.                                              *)

\* Mutant: the guard set is never cleared.
RememberedAll(tasks) == tasks

\* seenCompleted is cleared when it has grown too large.
Remembered(tasks) == IF Cardinality(tasks) > SeenMax THEN {} ELSE tasks

NewResults(c) == {window[c][i] : i \in 1..Len(window[c])} \ seen[c]

\* A poll posts a snapshot with the results not emitted before; with none, and
\* none of them remembered, when the client is away or does not tell.
Poll(c) ==
    /\ Len(posted) < MaxPosted
    /\ \/ /\ posted' = Append(posted,
              [name |-> name[c],
               completed |-> {[computer |-> name[c], task |-> t] : t \in NewResults(c)}])
          /\ seen' = [seen EXCEPT
               ![c] = Remembered(@ \cup {window[c][i] : i \in 1..Len(window[c])})]
       \/ /\ posted' = Append(posted, [name |-> name[c], completed |-> {}])
          /\ UNCHANGED seen
    /\ UNCHANGED <<clientVars, name, snapshots, opened, dbVars, jobVars,
                   retention, countVars>>

\* The callback replaces the snapshot stored under its name, whatever rows
\* that one still holds.
HandleSnapshot ==
    /\ Idle
    /\ posted # <<>>
    /\ snapshots' = [snapshots EXCEPT ![Head(posted).name] = Head(posted).completed]
    /\ posted' = Tail(posted)
    /\ UNCHANGED <<clientVars, name, seen, opened, dbVars, jobVars, retention,
                   countVars>>

\* Rebuild, when the window shows: rows of the computers the selection covers
\* are inserted and dropped from their snapshots, those whose insertion fails
\* too.  While it is iconised Rebuild returns early and nothing happens.
Rebuild(selected) ==
    /\ Idle
    /\ \E landed \in SUBSET UNION {snapshots[n] : n \in selected} :
         /\ opened \/ landed = {}
         /\ history' = history \cup landed
    /\ snapshots' = [n \in Names |-> IF n \in selected THEN {} ELSE snapshots[n]]
    /\ UNCHANGED <<clientVars, name, seen, posted, opened, longterm, jobVars,
                   retention, countVars>>

\* A computer is renamed: its snapshot moves, every poller restarts with an
\* empty guard set.  Rows in the database keep the name they have.
RenameComputer(c, n) ==
    /\ Idle
    /\ \A d \in Clients : name[d] # n
    /\ restarts < MaxRestarts
    /\ restarts' = restarts + 1
    /\ name' = [name EXCEPT ![c] = n]
    /\ snapshots' = [snapshots EXCEPT ![n] = snapshots[name[c]], ![name[c]] = {}]
    /\ seen' = [d \in Clients |-> {}]
    /\ UNCHANGED <<clientVars, posted, opened, dbVars, jobVars, retention, starts>>

\* Any other handler that restarts the pollers.
RestartPollers ==
    /\ Idle
    /\ restarts < MaxRestarts
    /\ restarts' = restarts + 1
    /\ seen' = [d \in Clients |-> {}]
    /\ UNCHANGED <<clientVars, name, posted, snapshots, opened, dbVars, jobVars,
                   retention, starts>>

----------------------------------------------------------------------------
(* BtHistory's statements.                                                 *)

\* WHERE completed_at < ?.
Before(rows, day) == {r \in rows : completedAt[r.task] < day}

Move == IF LongTermDays > 0 THEN <<"copy", "delete">> ELSE <<>>

\* Mutant: the failed copy is not noticed.
AfterFailedCopyGoesOn == Tail(job)

\* A copy that fails ends the move; what follows the move still runs.
AfterFailedCopy == Tail(Tail(job))

\* INSERT OR IGNORE INTO longterm SELECT ... FROM history, one statement.
Copy ==
    /\ job # <<>> /\ Head(job) = "copy"
    /\ cutoff' = today - LongTermDays
    /\ \/ /\ longterm' = longterm \cup Before(history, cutoff')
          /\ ok' = TRUE
          /\ job' = Tail(job)
       \/ /\ ok' = FALSE
          /\ job' = AfterFailedCopy
          /\ UNCHANGED longterm
    /\ UNCHANGED <<clientVars, name, seen, posted, snapshots, opened, history,
                   retention, countVars>>

\* DELETE FROM history, with the cutoff of the copy.  Nobody looks whether it
\* succeeds.
Delete ==
    /\ job # <<>> /\ Head(job) = "delete"
    /\ history' \in {history, history \ Before(history, cutoff)}
    /\ job' = Tail(job)
    /\ UNCHANGED <<clientVars, name, seen, posted, snapshots, opened, longterm,
                   cutoff, ok, retention, countVars>>

\* DELETE FROM history, with a cutoff of its own; 0 keeps everything.
Prune ==
    /\ job # <<>> /\ Head(job) = "prune"
    /\ \/ UNCHANGED history
       \/ retention > 0 /\ history' = history \ Before(history, today - retention)
    /\ job' = Tail(job)
    /\ UNCHANGED <<clientVars, name, seen, posted, snapshots, opened, longterm,
                   cutoff, ok, retention, countVars>>

\* The job logs, read once for each entry on this machine and under its name.
JobLogRows ==
    {[computer |-> name[c], task |-> t] : c \in LocalClients,
        t \in {u \in Tasks : completedAt[u] # Never /\ RunsOn[u] = Logged}}

\* A database with no row, or whose rows cannot be counted, is seeded, then
\* archived and pruned again.  The inserts, one per entry, run back to back:
\* those that land are any of their rows.
Seed ==
    /\ job # <<>> /\ Head(job) = "seed"
    /\ \/ /\ \E landed \in SUBSET JobLogRows : history' = history \cup landed
          /\ job' = Move \o <<"prune">>
          /\ cutoff' = Unset /\ ok' = FALSE
       \/ /\ Store # {}
          /\ job' = Tail(job)
          /\ UNCHANGED <<history, cutoff, ok>>
    /\ UNCHANGED <<clientVars, name, seen, posted, snapshots, opened, longterm,
                   retention, countVars>>

----------------------------------------------------------------------------
(* The handlers that run them.                                             *)

\* Mutant: the prune comes first.
OpeningPruneFirst == <<"prune">> \o Move \o <<"seed">>

\* OpenHistory: archive first, then prune, then perhaps seed.
Opening == Move \o <<"prune", "seed">>

\* Without a database BtHistory's operations return at once.
Start(statements, open) ==
    /\ job' = IF open THEN statements ELSE <<>>
    /\ cutoff' = Unset /\ ok' = FALSE

\* The hourly timer.
ArchiveTimer ==
    /\ Idle
    /\ Start(Move, opened)
    /\ UNCHANGED <<clientVars, name, seen, posted, snapshots, opened, dbVars,
                   retention, countVars>>

\* The settings dialog.
ChangeSettings(days) ==
    /\ Idle
    /\ retention' = days
    /\ Start(Move \o (IF days # retention THEN <<"prune">> ELSE <<>>), opened)
    /\ UNCHANGED <<clientVars, name, seen, posted, snapshots, opened, dbVars,
                   countVars>>

\* The program starts again, after closing or after being killed at any point:
\* memory is lost, the tables and the settings file are not.  A database that
\* does not open is done without until the next start.
StartAgain(opens) ==
    /\ starts < MaxStarts
    /\ starts' = starts + 1
    /\ seen' = [c \in Clients |-> {}]
    /\ posted' = <<>>
    /\ snapshots' = [n \in Names |-> {}]
    /\ opened' = opens
    /\ Start(Opening, opens)
    /\ UNCHANGED <<clientVars, name, dbVars, retention, restarts>>

----------------------------------------------------------------------------

\* The first start ever: no database yet, clients may have been at work.
Init ==
    /\ today = 0
    /\ \E old \in SUBSET Tasks :
         /\ completedAt = [t \in Tasks |-> IF t \in old THEN 0 ELSE Never]
         /\ window \in
              {w \in [Clients -> UNION {[1..k -> old] : k \in 0..Window}] :
                 /\ \A c \in Clients : \A i \in DOMAIN w[c] : RunsOn[w[c][i]] = c
                 /\ \A c \in Clients : \A i, j \in DOMAIN w[c] :
                      w[c][i] = w[c][j] => i = j}
    /\ name \in {f \in [Clients -> Names] :
                   \A c, d \in Clients : f[c] = f[d] => c = d}
    /\ seen = [c \in Clients |-> {}]
    /\ posted = <<>>
    /\ snapshots = [n \in Names |-> {}]
    /\ opened \in BOOLEAN
    /\ history = {} /\ longterm = {}
    /\ retention \in Retentions
    /\ job = IF opened THEN Opening ELSE <<>>
    /\ cutoff = Unset /\ ok = FALSE
    /\ starts = 1
    /\ restarts = 0

Statement == Copy \/ Delete \/ Prune \/ Seed

Next ==
    \/ \E t \in Tasks : Complete(t)
    \/ NewDay
    \/ \E c \in Clients : Poll(c)
    \/ HandleSnapshot
    \/ \E selected \in SUBSET Names : Rebuild(selected)
    \/ \E c \in Clients, n \in Names : RenameComputer(c, n)
    \/ RestartPollers
    \/ Statement
    \/ ArchiveTimer
    \/ \E days \in Retentions : ChangeSettings(days)
    \/ \E opens \in BOOLEAN : StartAgain(opens)

Spec == Init /\ [][Next]_vars

----------------------------------------------------------------------------
(* Properties.                                                             *)

TypeOK ==
    /\ today \in 0..MaxDay
    /\ completedAt \in [Tasks -> 0..MaxDay \cup {Never}]
    /\ \A c \in Clients : window[c] \in Seq(Tasks) /\ Len(window[c]) <= Window
    /\ name \in [Clients -> Names]
    /\ seen \in [Clients -> SUBSET Tasks]
    /\ \A c \in Clients : Cardinality(seen[c]) <= SeenMax
    /\ posted \in Seq([name : Names, completed : SUBSET Row])
    /\ snapshots \in [Names -> SUBSET Row]
    /\ opened \in BOOLEAN
    /\ history \in SUBSET Row /\ longterm \in SUBSET Row
    /\ job \in Seq({"copy", "delete", "prune", "seed"})
    /\ cutoff \in Int /\ ok \in BOOLEAN
    /\ retention \in Retentions
    /\ starts \in 1..MaxStarts /\ restarts \in 0..MaxRestarts

\* A row leaves the store by a prune only, from the live table only, and only
\* when it is older than the retention: no failed statement of a move, and no
\* kill or change of day between two of them, loses one.
OnlyPruneForgets ==
    [][\A r \in Store \ Store' :
         /\ job # <<>> /\ Head(job) = "prune"
         /\ r \notin longterm
         /\ retention > 0 /\ completedAt[r.task] < today - retention]_vars

\* With archiving on, a prune follows the move of its own handler and takes no
\* row that was due for that move, unless the move's copy failed.  So where the
\* retention is no shorter than the archiving age, all it can take is a row that
\* came of age between the move's reading of the clock and its own.
ArchivedSurvive ==
    [][LongTermDays > 0 =>
         \A r \in Store \ Store' :
            cutoff # Unset /\ (ok => completedAt[r.task] >= cutoff)]_vars
=============================================================================
