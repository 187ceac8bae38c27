--------------------------- MODULE HistoryProofs ---------------------------
(* What the statements of BtHistory forget, for any clients, tasks, days,    *)
(* retentions and archiving age, whatever fails, whenever the day changes    *)
(* and wherever the program is killed: rows leave by a due prune only, and   *)
(* none that the move before it was due to take.                             *)
EXTENDS History, SequenceTheorems, FiniteSetTheorems, TLAPS

\* What a handler may have left to execute: the handlers' jobs and what
\* remains of them.
Jobs ==
    {<<>>, <<"prune">>, <<"seed">>, <<"prune", "seed">>,
     <<"delete">>, <<"delete", "prune">>, <<"delete", "prune", "seed">>,
     <<"copy", "delete">>, <<"copy", "delete", "prune">>,
     <<"copy", "delete", "prune", "seed">>}

ForgetTypes ==
    /\ today \in 0..MaxDay
    /\ completedAt \in [Tasks -> Nat]
    /\ retention \in Retentions
    /\ job \in Jobs
    /\ cutoff \in Int

\* Rows the handler's last move was due to take.
Due == Before(history, cutoff)

\* Between the two statements of a move, and from a move to the prune that
\* follows it, every row due is in the long-term table; when the copy failed
\* there is no delete, and the prune follows at once.
MoveDone ==
    job # <<>> =>
       /\ Head(job) = "delete" => cutoff <= today /\ Due \subseteq longterm
       /\ Head(job) = "prune" /\ LongTermDays > 0 =>
            cutoff <= today /\ (ok => Due \subseteq longterm)

ForgetInv == ForgetTypes /\ MoveDone

----------------------------------------------------------------------------
(* The statements left.                                                    *)

\* A concatenation is told by its elements.
LEMMA ConcatIs ==
    ASSUME NEW S, NEW s \in Seq(S), NEW t \in Seq(S), NEW u \in Seq(S),
           Len(u) = Len(s) + Len(t),
           \A i \in 1..Len(u) : u[i] = IF i <= Len(s) THEN s[i] ELSE t[i - Len(s)]
    PROVE  s \o t = u
<1>1. /\ s \o t \in Seq(S) /\ Len(s \o t) = Len(s) + Len(t)
      /\ \A i \in 1..(Len(s) + Len(t)) :
            (s \o t)[i] = IF i <= Len(s) THEN s[i] ELSE t[i - Len(s)]
  BY ConcatProperties
<1> QED BY <1>1, SeqEqual

\* A job is a sequence of statements.
LEMMA JobsAreStatements ==
    ASSUME NEW j \in Jobs
    PROVE  j \in Seq({"copy", "delete", "prune", "seed"})
<1> DEFINE S == {"copy", "delete", "prune", "seed"}
<1>1. <<>> \in Seq(S) /\ <<"prune">> \in Seq(S) /\ <<"seed">> \in Seq(S)
  OBVIOUS
<1>2. <<"prune", "seed">> \in Seq(S) /\ <<"delete">> \in Seq(S)
  OBVIOUS
<1>3. <<"delete", "prune">> \in Seq(S)
  OBVIOUS
<1>4. <<"delete", "prune", "seed">> \in Seq(S)
  OBVIOUS
<1>5. <<"copy", "delete">> \in Seq(S)
  OBVIOUS
<1>6. <<"copy", "delete", "prune">> \in Seq(S)
  OBVIOUS
<1>7. <<"copy", "delete", "prune", "seed">> \in Seq(S)
  OBVIOUS
<1> HIDE DEF S
<1> QED BY <1>1, <1>2, <1>3, <1>4, <1>5, <1>6, <1>7 DEF Jobs, S

\* The next statement and what is left after it.
LEMMA JobSteps ==
    ASSUME NEW j \in Jobs, j # <<>>
    PROVE  /\ Head(j) \in {"copy", "delete", "prune", "seed"}
           /\ Tail(j) \in Jobs
           /\ Head(j) = "copy" =>
                 /\ Tail(j) # <<>> /\ Head(Tail(j)) = "delete"
                 /\ Tail(Tail(j)) \in Jobs
                 /\ Tail(Tail(j)) # <<>> => Head(Tail(Tail(j))) = "prune"
           /\ Head(j) = "delete" => (Tail(j) # <<>> => Head(Tail(j)) = "prune")
           /\ Head(j) = "prune" => (Tail(j) # <<>> => Head(Tail(j)) = "seed")
           /\ Head(j) = "seed" => Tail(j) = <<>>
<1>1. CASE j = <<"prune">>
  <2>1. Head(j) = "prune" /\ Tail(j) = <<>>
    BY <1>1
  <2> QED BY <2>1 DEF Jobs
<1>2. CASE j = <<"seed">>
  <2>1. Head(j) = "seed" /\ Tail(j) = <<>>
    BY <1>2
  <2> QED BY <2>1 DEF Jobs
<1>3. CASE j = <<"prune", "seed">>
  <2>1. Head(j) = "prune" /\ Tail(j) = <<"seed">>
    BY <1>3
  <2> QED BY <2>1 DEF Jobs
<1>4. CASE j = <<"delete">>
  <2>1. Head(j) = "delete" /\ Tail(j) = <<>>
    BY <1>4
  <2> QED BY <2>1 DEF Jobs
<1>5. CASE j = <<"delete", "prune">>
  <2>1. Head(j) = "delete" /\ Tail(j) = <<"prune">>
    BY <1>5
  <2> QED BY <2>1 DEF Jobs
<1>6. CASE j = <<"delete", "prune", "seed">>
  <2>1. Head(j) = "delete" /\ Tail(j) = <<"prune", "seed">>
    BY <1>6
  <2> QED BY <2>1 DEF Jobs
<1>7. CASE j = <<"copy", "delete">>
  <2>1. Head(j) = "copy" /\ Tail(j) = <<"delete">>
    BY <1>7
  <2>2. <<"delete">> # <<>> /\ Head(<<"delete">>) = "delete" /\ Tail(<<"delete">>) = <<>>
    OBVIOUS
  <2>3. <<"delete">> \in Jobs /\ <<>> \in Jobs
    BY DEF Jobs
  <2> QED BY <2>1, <2>2, <2>3
<1>8. CASE j = <<"copy", "delete", "prune">>
  <2>1. Head(j) = "copy" /\ Tail(j) = <<"delete", "prune">>
    BY <1>8
  <2>2. <<"delete", "prune">> # <<>> /\ Head(<<"delete", "prune">>) = "delete" /\ Tail(<<"delete", "prune">>) = <<"prune">>
    OBVIOUS
  <2>3. <<"delete", "prune">> \in Jobs /\ <<"prune">> \in Jobs
    BY DEF Jobs
  <2>4. Head(<<"prune">>) = "prune"
    OBVIOUS
  <2> QED BY <2>1, <2>2, <2>3, <2>4
<1>9. CASE j = <<"copy", "delete", "prune", "seed">>
  <2>1. Head(j) = "copy" /\ Tail(j) = <<"delete", "prune", "seed">>
    BY <1>9
  <2>2. <<"delete", "prune", "seed">> # <<>> /\ Head(<<"delete", "prune", "seed">>) = "delete" /\ Tail(<<"delete", "prune", "seed">>) = <<"prune", "seed">>
    OBVIOUS
  <2>3. <<"delete", "prune", "seed">> \in Jobs /\ <<"prune", "seed">> \in Jobs
    BY DEF Jobs
  <2>4. Head(<<"prune", "seed">>) = "prune"
    OBVIOUS
  <2> QED BY <2>1, <2>2, <2>3, <2>4
<1> QED
  BY <1>1, <1>2, <1>3, <1>4, <1>5, <1>6, <1>7, <1>8, <1>9 DEF Jobs

\* The jobs the handlers start; the first statement of a move is the copy.
LEMMA JobsStarted ==
    /\ Move \in Jobs /\ Move \o <<"prune">> \in Jobs /\ Opening \in Jobs
    /\ <<"prune">> \in Jobs /\ Move \o <<>> \in Jobs
    /\ Move # <<>> => Head(Move) = "copy"
    /\ Move \o <<>> # <<>> => Head(Move \o <<>>) = "copy"
    /\ Opening # <<>> /\ Move \o <<"prune">> # <<>>
    /\ IF LongTermDays > 0
       THEN Head(Opening) = "copy" /\ Head(Move \o <<"prune">>) = "copy"
       ELSE Head(Opening) = "prune" /\ Head(Move \o <<"prune">>) = "prune"
<1>1. CASE LongTermDays > 0
  <2>1. Move = <<"copy", "delete">>
    BY <1>1 DEF Move
  <2>2. Move \o <<>> = <<"copy", "delete">>
    BY <2>1
  <2> DEFINE S == {"copy", "delete", "prune", "seed"}
             move == <<"copy", "delete">>
  <2>3. Move \o <<"prune">> = <<"copy", "delete", "prune">>
    <3> DEFINE t == <<"prune">>  u == <<"copy", "delete", "prune">>
    <3>1. /\ move \in Seq(S) /\ t \in Seq(S) /\ u \in Seq(S)
          /\ Len(move) = 2 /\ Len(t) = 1 /\ Len(u) = 3
          /\ u[1] = move[1] /\ u[2] = move[2] /\ u[3] = t[1]
      OBVIOUS
    <3> HIDE DEF S, move, t, u
    <3>2. \A i \in 1..Len(u) :
             u[i] = IF i <= Len(move) THEN move[i] ELSE t[i - Len(move)]
      BY <3>1
    <3>3. Len(u) = Len(move) + Len(t)
      BY <3>1
    <3>4. move \o t = u
      BY <3>1, <3>2, <3>3, ConcatIs
    <3> QED BY <2>1, <3>4 DEF move, t, u
  <2>4. Opening = <<"copy", "delete", "prune", "seed">>
    <3> DEFINE t == <<"prune", "seed">>  u == <<"copy", "delete", "prune", "seed">>
    <3>1. /\ move \in Seq(S) /\ t \in Seq(S) /\ u \in Seq(S)
          /\ Len(move) = 2 /\ Len(t) = 2 /\ Len(u) = 4
          /\ u[1] = move[1] /\ u[2] = move[2] /\ u[3] = t[1] /\ u[4] = t[2]
      OBVIOUS
    <3> HIDE DEF S, move, t, u
    <3>2. \A i \in 1..Len(u) :
             u[i] = IF i <= Len(move) THEN move[i] ELSE t[i - Len(move)]
      BY <3>1
    <3>3. Len(u) = Len(move) + Len(t)
      BY <3>1
    <3>4. move \o t = u
      BY <3>1, <3>2, <3>3, ConcatIs
    <3> QED BY <2>1, <3>4 DEF move, t, u, Opening
  <2> QED BY <1>1, <2>1, <2>2, <2>3, <2>4 DEF Jobs
<1>2. CASE ~(LongTermDays > 0)
  <2>1. Move = <<>>
    BY <1>2 DEF Move
  <2>2. Move \o <<>> = <<>> /\ Move \o <<"prune">> = <<"prune">>
    BY <2>1
  <2>3. Opening = <<"prune", "seed">>
    BY <2>1 DEF Opening
  <2> QED BY <1>2, <2>1, <2>2, <2>3 DEF Jobs
<1> QED BY <1>1, <1>2

----------------------------------------------------------------------------
(* The invariant.                                                          *)

\* A task that completes after a move is not due for it.
LEMMA CompleteKeepsDue ==
    ASSUME ForgetTypes, cutoff <= today, NEW t \in Tasks, Complete(t)
    PROVE  Due' \subseteq Due
<1>1. /\ today \in Nat /\ cutoff \in Int /\ completedAt \in [Tasks -> Nat]
      /\ completedAt' = [completedAt EXCEPT ![t] = today]
      /\ UNCHANGED <<today, history, cutoff>>
  BY HistoryAssumption DEF ForgetTypes, Complete, dbVars, jobVars
<1>2. \A u : u # t => completedAt'[u] = completedAt[u]
  BY <1>1
<1>3. ~(completedAt'[t] < cutoff)
  BY <1>1
<1> QED BY <1>1, <1>2, <1>3 DEF Due, Before

\* What a handler starts with: the program's jobs, or nothing.
LEMMA StartedJobs ==
    ASSUME NEW statements \in {Move, Move \o <<"prune">>, Move \o <<>>, Opening},
           NEW open, Start(statements, open)
    PROVE  /\ job' \in Jobs /\ cutoff' = Unset
           /\ LongTermDays > 0 /\ job' # <<>> => Head(job') = "copy"
           /\ job' # <<>> => Head(job') # "delete"
<1>1. job' \in {<<>>, statements} /\ cutoff' = Unset
  BY DEF Start
<1>2. <<>> \in Jobs
  BY DEF Jobs
<1> QED BY <1>1, <1>2, JobsStarted

\* Types and statements left, whoever acts.
LEMMA StepKeepsTypes ==
    ASSUME ForgetTypes, [Next]_vars
    PROVE  ForgetTypes'
<1>1. /\ today \in 0..MaxDay /\ completedAt \in [Tasks -> Nat] /\ job \in Jobs
      /\ retention \in Retentions /\ cutoff \in Int
      /\ MaxDay \in Nat /\ LongTermDays \in Nat /\ Unset \in Int
  BY HistoryAssumption DEF ForgetTypes, Unset
<1> USE DEF clientVars, dbVars, jobVars, countVars
<1>2. ASSUME UNCHANGED <<today, completedAt, retention>>, job' \in Jobs, cutoff' \in Int
      PROVE  ForgetTypes'
  BY <1>1, <1>2 DEF ForgetTypes
<1>3. CASE UNCHANGED vars
  BY <1>1, <1>2, <1>3 DEF vars
<1>4. ASSUME NEW t \in Tasks, Complete(t)
      PROVE  ForgetTypes'
  BY <1>1, <1>4 DEF ForgetTypes, Complete
<1>5. CASE NewDay
  BY <1>1, <1>5 DEF ForgetTypes, NewDay
<1>6. CASE \/ \E c \in Clients : Poll(c)
           \/ HandleSnapshot
           \/ \E selected \in SUBSET Names : Rebuild(selected)
           \/ \E c \in Clients, n \in Names : RenameComputer(c, n)
           \/ RestartPollers
  <2>1. UNCHANGED <<today, completedAt, retention, job, cutoff>>
    BY <1>6 DEF Poll, HandleSnapshot, Rebuild, RenameComputer, RestartPollers
  <2> QED BY <1>1, <1>2, <2>1
<1>7. CASE Statement
  <2>1. UNCHANGED <<today, completedAt, retention>> /\ job # <<>>
    BY <1>7 DEF Statement, Copy, Delete, Prune, Seed
  <2>2. CASE Copy
    <3>1. /\ Head(job) = "copy" /\ (job' = Tail(job) \/ job' = Tail(Tail(job)))
          /\ cutoff' = today - LongTermDays
      BY <2>2 DEF Copy, AfterFailedCopy
    <3>2. job' \in Jobs
      BY <1>1, <2>1, <3>1, JobSteps
    <3> QED BY <1>1, <1>2, <2>1, <3>1, <3>2
  <2>3. CASE Delete \/ Prune
    <3>1. job' = Tail(job) /\ UNCHANGED cutoff
      BY <2>3 DEF Delete, Prune
    <3> QED BY <1>1, <1>2, <2>1, <3>1, JobSteps
  <2>4. CASE Seed
    <3>1. /\ job' = Tail(job) \/ job' = Move \o <<"prune">>
          /\ cutoff' \in {cutoff, Unset}
      BY <2>4 DEF Seed
    <3> QED BY <1>1, <1>2, <2>1, <3>1, JobSteps, JobsStarted
  <2> QED BY <1>7, <2>2, <2>3, <2>4 DEF Statement
<1>8. CASE ArchiveTimer
  <2>1. Start(Move, opened) /\ UNCHANGED <<today, completedAt, retention>>
    BY <1>8 DEF ArchiveTimer
  <2> QED BY <1>1, <1>2, <2>1, StartedJobs
<1>9. ASSUME NEW days \in Retentions, ChangeSettings(days)
      PROVE  ForgetTypes'
  <2>1. /\ Start(Move \o <<"prune">>, opened) \/ Start(Move \o <<>>, opened)
        /\ retention' = days /\ UNCHANGED <<today, completedAt>>
    BY <1>9 DEF ChangeSettings
  <2>2. job' \in Jobs /\ cutoff' = Unset
    BY <2>1, StartedJobs
  <2> QED BY <1>1, <2>1, <2>2 DEF ForgetTypes
<1>10. ASSUME NEW opens \in BOOLEAN, StartAgain(opens)
       PROVE  ForgetTypes'
  <2>1. Start(Opening, opens) /\ UNCHANGED <<today, completedAt, retention>>
    BY <1>10 DEF StartAgain
  <2> QED BY <1>1, <1>2, <2>1, StartedJobs
<1> QED
  BY <1>3, <1>4, <1>5, <1>6, <1>7, <1>8, <1>9, <1>10 DEF Next

\* Every handler that prunes moves first; a move leaves nothing due in the live
\* table alone, and neither the clock nor a task that completes makes it so.
LEMMA StepKeepsMoved ==
    ASSUME ForgetTypes, MoveDone, [Next]_vars
    PROVE  MoveDone'
<1>1. /\ job \in Jobs /\ today \in 0..MaxDay /\ cutoff \in Int
      /\ MaxDay \in Nat /\ LongTermDays \in Nat
  BY HistoryAssumption DEF ForgetTypes
<1> USE DEF clientVars, dbVars, jobVars, countVars
<1>2. ASSUME UNCHANGED <<job, cutoff, ok, longterm>>, today <= today',
             cutoff <= today => Due' \subseteq Due
      PROVE  MoveDone'
  <2>1. today' \in Int
    BY <1>1, <1>2, StepKeepsTypes DEF ForgetTypes
  <2>2. cutoff <= today => cutoff' <= today'
    BY <1>1, <1>2, <2>1
  <2> QED BY <1>2, <2>2 DEF MoveDone
<1>3. ASSUME job' # <<>> => /\ Head(job') # "delete"
                            /\ LongTermDays > 0 => Head(job') # "prune"
      PROVE  MoveDone'
  BY <1>3 DEF MoveDone
<1>4. CASE UNCHANGED vars \/ (\E c \in Clients : Poll(c)) \/ NewDay
  <2>1. UNCHANGED <<job, cutoff, ok, longterm, history, completedAt>>
    BY <1>4 DEF vars, Poll, NewDay
  <2>2. today' = today \/ today' = today + 1
    BY <1>4 DEF vars, Poll, NewDay
  <2>3. today <= today'
    BY <1>1, <2>2
  <2>4. Due' = Due
    BY <2>1 DEF Due, Before
  <2> QED BY <1>2, <2>1, <2>3, <2>4
<1>5. ASSUME NEW t \in Tasks, Complete(t)
      PROVE  MoveDone'
  <2>1. UNCHANGED <<job, cutoff, ok, longterm, today>>
    BY <1>5 DEF Complete
  <2> QED BY <1>1, <1>2, <1>5, <2>1, CompleteKeepsDue
<1>6. CASE \/ HandleSnapshot \/ RestartPollers
           \/ \E selected \in SUBSET Names : Rebuild(selected)
           \/ \E c \in Clients, n \in Names : RenameComputer(c, n)
  <2>1. job = <<>> /\ job' = job
    BY <1>6 DEF HandleSnapshot, RestartPollers, Rebuild, RenameComputer, Idle
  <2> QED BY <1>3, <2>1
<1>7. CASE Copy
  <2>1. /\ job # <<>> /\ Head(job) = "copy" /\ cutoff' = today - LongTermDays
        /\ UNCHANGED <<history, today, completedAt>>
    BY <1>7 DEF Copy
  <2>2. cutoff' <= today'
    BY <1>1, <2>1
  <2>3. CASE /\ longterm' = longterm \cup Before(history, cutoff')
    <3>1. Due' \subseteq longterm'
      BY <2>1, <2>3 DEF Due, Before
    <3> QED BY <2>2, <3>1 DEF MoveDone
  <2>4. CASE ok' = FALSE /\ job' = Tail(Tail(job))
    <3>1. job' # <<>> => Head(job') = "prune"
      BY <1>1, <2>1, <2>4, JobSteps
    <3> QED BY <2>2, <2>4, <3>1 DEF MoveDone
  <2> QED BY <1>7, <2>3, <2>4 DEF Copy, AfterFailedCopy
<1>8. CASE Delete
  <2>1. /\ job # <<>> /\ Head(job) = "delete" /\ job' = Tail(job)
        /\ history' \subseteq history
        /\ UNCHANGED <<longterm, cutoff, ok, today, completedAt>>
    BY <1>8 DEF Delete
  <2>2. cutoff <= today /\ Due \subseteq longterm
    BY <2>1 DEF MoveDone
  <2>3. Due' \subseteq Due
    BY <2>1 DEF Due, Before
  <2> QED BY <2>1, <2>2, <2>3 DEF MoveDone
<1>9. CASE Prune
  <2>1. job # <<>> /\ Head(job) = "prune" /\ job' = Tail(job)
    BY <1>9 DEF Prune
  <2> QED BY <1>1, <1>3, <2>1, JobSteps
<1>10. CASE Seed
  <2>1. job # <<>> /\ Head(job) = "seed"
        /\ (job' = Tail(job) \/ job' = Move \o <<"prune">>)
    BY <1>10 DEF Seed
  <2> QED BY <1>1, <1>3, <2>1, JobSteps, JobsStarted
<1>11. CASE \/ ArchiveTimer
            \/ \E days \in Retentions : ChangeSettings(days)
            \/ \E opens \in BOOLEAN : StartAgain(opens)
  <2>1. PICK statements \in {Move, Move \o <<"prune">>, Move \o <<>>, Opening},
             open \in BOOLEAN \cup {opened} : Start(statements, open)
    BY <1>11 DEF ArchiveTimer, ChangeSettings, StartAgain
  <2> QED BY <1>3, <2>1, StartedJobs
<1> QED
  BY <1>4, <1>5, <1>6, <1>7, <1>8, <1>9, <1>10, <1>11 DEF Next, Statement

\* The program starts with no rows and nothing half done.
LEMMA InitForgets ==
    ASSUME Init
    PROVE  ForgetInv
<1>1. /\ today = 0 /\ history = {} /\ retention \in Retentions
      /\ job \in {<<>>, Opening} /\ cutoff = Unset
  BY DEF Init
<1>2. PICK old \in SUBSET Tasks :
         completedAt = [t \in Tasks |-> IF t \in old THEN 0 ELSE Never]
  BY DEF Init
<1>3. completedAt \in [Tasks -> Nat] /\ today \in 0..MaxDay /\ cutoff \in Int
  BY <1>1, <1>2, HistoryAssumption DEF Never, Unset
<1>4. /\ job \in Jobs
      /\ job # <<>> => Head(job) # "delete" /\ (LongTermDays > 0 => Head(job) = "copy")
  <2>1. <<>> \in Jobs
    BY DEF Jobs
  <2> QED BY <1>1, <2>1, JobsStarted
<1> QED
  BY <1>1, <1>3, <1>4 DEF ForgetInv, ForgetTypes, MoveDone

\* Rows leave by a due prune: what Delete takes has been copied, and every
\* other statement and handler adds rows or leaves them.
LEMMA StepForgetsByPrune ==
    ASSUME ForgetInv, [Next]_vars, NEW r \in Store \ Store'
    PROVE  /\ Prune
           /\ r \notin longterm
           /\ retention > 0 /\ completedAt[r.task] < today - retention
<1> USE DEF Store, dbVars
<1>1. ASSUME history \subseteq history', longterm \subseteq longterm'
      PROVE  FALSE
  BY <1>1
<1>2. ASSUME UNCHANGED dbVars
      PROVE  FALSE
  BY <1>2
<1>3. CASE UNCHANGED vars
  BY <1>2, <1>3 DEF vars
<1>4. CASE \/ \E t \in Tasks : Complete(t)
           \/ NewDay
           \/ \E c \in Clients : Poll(c)
           \/ HandleSnapshot
           \/ \E c \in Clients, n \in Names : RenameComputer(c, n)
           \/ RestartPollers
           \/ ArchiveTimer
           \/ \E days \in Retentions : ChangeSettings(days)
           \/ \E opens \in BOOLEAN : StartAgain(opens)
  <2>1. UNCHANGED dbVars
    BY <1>4 DEF Complete, NewDay, Poll, HandleSnapshot, RenameComputer,
       RestartPollers, ArchiveTimer, ChangeSettings, StartAgain
  <2> QED BY <1>2, <2>1
<1>5. CASE (\E selected \in SUBSET Names : Rebuild(selected)) \/ Copy \/ Seed
  <2>1. history \subseteq history' /\ longterm \subseteq longterm'
    BY <1>5 DEF Rebuild, Copy, Seed
  <2> QED BY <1>1, <2>1
<1>6. CASE Delete
  <2>1. Due \subseteq longterm
    BY <1>6 DEF ForgetInv, MoveDone, Delete
  <2>2. history' \in {history, history \ Due} /\ longterm' = longterm
    BY <1>6 DEF Delete, Due
  <2> QED BY <2>1, <2>2
<1>7. CASE Prune
  <2>1. longterm' = longterm
        /\ \/ history' = history
           \/ retention > 0 /\ history' = history \ Before(history, today - retention)
    BY <1>7 DEF Prune
  <2>2. retention > 0 /\ r \in Before(history, today - retention) /\ r \notin longterm
    BY <2>1
  <2> QED BY <1>7, <2>2 DEF Before
<1> QED
  BY <1>3, <1>4, <1>5, <1>6, <1>7 DEF Next, Statement

\* Whatever fails, whenever the day changes and wherever the program is killed,
\* a row leaves the store only when a prune finds it older than the retention,
\* and never from the long-term table (MoveToLongTerm and Prune of
\* bt_history.cpp, OpenHistory of bt_main.cpp).
THEOREM PruneAloneForgets == Spec => OnlyPruneForgets
<1> DEFINE Forgets ==
       \A r \in Store \ Store' :
         /\ job # <<>> /\ Head(job) = "prune"
         /\ r \notin longterm
         /\ retention > 0 /\ completedAt[r.task] < today - retention
<1>1. Init => ForgetInv
  BY InitForgets
<1>2. ForgetInv /\ [Next]_vars => ForgetInv'
  BY StepKeepsTypes, StepKeepsMoved DEF ForgetInv
<1>3. ForgetInv /\ [Next]_vars => [Forgets]_vars
  <2> SUFFICES ASSUME ForgetInv, [Next]_vars
               PROVE  Forgets
    OBVIOUS
  <2> TAKE r \in Store \ Store'
  <2>1. Prune /\ r \notin longterm
        /\ retention > 0 /\ completedAt[r.task] < today - retention
    BY StepForgetsByPrune
  <2> QED BY <2>1 DEF Prune
<1> QED
  BY <1>1, <1>2, <1>3, PTL DEF Spec, OnlyPruneForgets

----------------------------------------------------------------------------
(* Types.                                                                  *)

\* What TypeOK needs beside itself.
Shapes ==
    /\ ForgetTypes
    /\ window \in [Clients -> Seq(Tasks)]
    /\ \A c \in Clients : IsFiniteSet(seen[c])

\* A queue of one more, and one less, of the same kind.
LEMMA QueueTypes ==
    ASSUME NEW S, NEW q \in Seq(S)
    PROVE  /\ \A e \in S : Append(q, e) \in Seq(S) /\ Len(Append(q, e)) = Len(q) + 1
           /\ q # <<>> => /\ Head(q) \in S /\ Tail(q) \in Seq(S)
                          /\ Len(Tail(q)) = Len(q) - 1
  OBVIOUS

\* A guard set that was just cleared.
LEMMA ClearedGuardSet ==
    ASSUME NEW f, f = [c \in Clients |-> {}]
    PROVE  /\ f \in [Clients -> SUBSET Tasks]
           /\ \A c \in Clients : IsFiniteSet(f[c]) /\ Cardinality(f[c]) <= SeenMax
<1>1. IsFiniteSet({}) /\ Cardinality({}) = 0 /\ SeenMax \in Nat
  BY FS_EmptySet, HistoryAssumption
<1>2. \A c \in Clients : f[c] = {}
  OBVIOUS
<1> QED BY <1>1, <1>2

\* A client's old results are finitely many tasks.
LEMMA WindowIsFinite ==
    ASSUME NEW w \in Seq(Tasks)
    PROVE  /\ {w[i] : i \in 1..Len(w)} \subseteq Tasks
           /\ IsFiniteSet({w[i] : i \in 1..Len(w)})
<1> DEFINE T == {w[i] : i \in 1..Len(w)}
           f == [i \in 1..Len(w) |-> w[i]]
<1>1. IsFiniteSet(1..Len(w))
  BY FS_Interval
<1>2. f \in Surjection(1..Len(w), T)
  BY DEF Surjection
<1>3. IsFiniteSet(T)
  <2> HIDE DEF T, f
  <2> QED BY <1>1, <1>2, FS_Surjection
<1> QED BY <1>3

\* At the first start.
LEMMA InitTypes ==
    ASSUME Init
    PROVE  TypeOK /\ Shapes
<1> USE HistoryAssumption
<1>1. ForgetTypes
  BY InitForgets DEF ForgetInv
<1>2. PICK old \in SUBSET Tasks :
         /\ completedAt = [t \in Tasks |-> IF t \in old THEN 0 ELSE Never]
         /\ window \in [Clients -> UNION {[1..k -> old] : k \in 0..Window}]
  BY DEF Init
<1>3. ASSUME NEW c \in Clients
      PROVE  window[c] \in Seq(Tasks) /\ Len(window[c]) <= Window
  <2>1. PICK k \in 0..Window : window[c] \in [1..k -> old]
    <3> DEFINE Windows == UNION {[1..k -> old] : k \in 0..Window}
    <3>1. window[c] \in Windows
      <4> HIDE DEF Windows
      <4>1. window \in [Clients -> Windows]
        BY <1>2 DEF Windows
      <4> QED BY <4>1
    <3> QED BY ONLY <3>1
  <2>2. window[c] \in [1..k -> Tasks] /\ k \in Nat
    BY <2>1
  <2> QED BY <2>2
<1>4. window \in [Clients -> Seq(Tasks)]
  BY <1>2, <1>3
<1>5. completedAt \in [Tasks -> 0..MaxDay \cup {Never}]
  BY <1>2
<1>6. /\ seen \in [Clients -> SUBSET Tasks]
      /\ \A c \in Clients : IsFiniteSet(seen[c]) /\ Cardinality(seen[c]) <= SeenMax
  BY ClearedGuardSet DEF Init
<1>7. /\ today \in 0..MaxDay
      /\ name \in [Clients -> Names]
      /\ posted \in Seq([name : Names, completed : SUBSET Row])
      /\ snapshots \in [Names -> SUBSET Row]
      /\ history \in SUBSET Row /\ longterm \in SUBSET Row
      /\ starts \in 1..MaxStarts /\ restarts \in 0..MaxRestarts
  <2> USE DEF Init
  <2>1. today \in 0..MaxDay /\ starts \in 1..MaxStarts /\ restarts \in 0..MaxRestarts
    OBVIOUS
  <2>2. name \in [Clients -> Names] /\ snapshots \in [Names -> SUBSET Row]
    OBVIOUS
  <2>3. posted \in Seq([name : Names, completed : SUBSET Row])
    OBVIOUS
  <2> QED BY <2>1, <2>2, <2>3
<1>9. opened \in BOOLEAN /\ ok \in BOOLEAN
  BY Zenon DEF Init
<1>8. job \in Seq({"copy", "delete", "prune", "seed"})
  BY <1>1, JobsAreStatements DEF ForgetTypes
<1> QED
  BY <1>1, <1>3, <1>4, <1>5, <1>6, <1>7, <1>8, <1>9 DEF TypeOK, Shapes, ForgetTypes

\* Every step keeps them.
LEMMA StepKeepsTypeOK ==
    ASSUME TypeOK, Shapes, [Next]_vars
    PROVE  TypeOK' /\ Shapes'
<1> USE HistoryAssumption DEF clientVars, dbVars, jobVars, countVars
<1> DEFINE ClientTypes ==
              /\ today \in 0..MaxDay
              /\ completedAt \in [Tasks -> 0..MaxDay \cup {Never}]
              /\ window \in [Clients -> Seq(Tasks)]
              /\ \A c \in Clients : Len(window[c]) <= Window
           PollerTypes ==
              /\ name \in [Clients -> Names]
              /\ seen \in [Clients -> SUBSET Tasks]
              /\ \A c \in Clients : Cardinality(seen[c]) <= SeenMax
              /\ \A c \in Clients : IsFiniteSet(seen[c])
              /\ posted \in Seq([name : Names, completed : SUBSET Row])
              /\ snapshots \in [Names -> SUBSET Row]
           TableTypes == history \in SUBSET Row /\ longterm \in SUBSET Row
           CountTypes == starts \in 1..MaxStarts /\ restarts \in 0..MaxRestarts
<1>1. ForgetTypes'
  BY StepKeepsTypes DEF Shapes
<1>2. job' \in Seq({"copy", "delete", "prune", "seed"})
  BY <1>1, JobsAreStatements DEF ForgetTypes
<1>3. ClientTypes /\ PollerTypes /\ TableTypes /\ CountTypes /\ ForgetTypes
  BY DEF TypeOK, Shapes
<1>4. ClientTypes'
  <2>1. CASE UNCHANGED clientVars
    BY <1>3, <2>1
  <2>2. CASE NewDay
    BY <1>3, <2>2 DEF NewDay
  <2>3. ASSUME NEW t \in Tasks, Complete(t)
        PROVE  ClientTypes'
    <3> DEFINE c == RunsOn[t]
               all == Append(window[c], t)
    <3>1. /\ completedAt' = [completedAt EXCEPT ![t] = today]
          /\ window' = [window EXCEPT ![c] =
                          IF Len(all) > Window THEN Tail(all) ELSE all]
          /\ UNCHANGED today
      BY <2>3 DEF Complete
    <3>2. c \in Clients /\ window[c] \in Seq(Tasks) /\ Len(window[c]) <= Window
      BY <1>3
    <3>3. all \in Seq(Tasks) /\ Len(all) = Len(window[c]) + 1
      BY <3>2, QueueTypes
    <3>4. all # <<>>
      BY <3>2
    <3> HIDE DEF all
    <3>5. Tail(all) \in Seq(Tasks) /\ Len(Tail(all)) = Len(all) - 1
      BY <3>3, <3>4, QueueTypes
    <3> DEFINE kept == IF Len(all) > Window THEN Tail(all) ELSE all
    <3>6. kept \in Seq(Tasks) /\ Len(kept) <= Window
      BY <3>2, <3>5, <3>3
    <3>7. window' = [window EXCEPT ![c] = kept]
      BY <3>1 DEF all
    <3> HIDE DEF c, kept
    <3>8. /\ window' \in [Clients -> Seq(Tasks)]
          /\ \A d \in Clients : Len(window'[d]) <= Window
      BY <1>3, <3>2, <3>6, <3>7
    <3>9. /\ completedAt' \in [Tasks -> 0..MaxDay \cup {Never}]
          /\ today' \in 0..MaxDay
      BY <1>3, <3>1
    <3> QED BY <3>8, <3>9
  <2> QED
    BY <2>1, <2>2, <2>3 DEF Next, vars, Statement, Poll, HandleSnapshot, Rebuild,
       RenameComputer, RestartPollers, Copy, Delete, Prune, Seed, ArchiveTimer,
       ChangeSettings, StartAgain, Start
<1>5. PollerTypes'
  <2>1. CASE UNCHANGED <<name, seen, posted, snapshots>>
    BY <1>3, <2>1
  <2>2. ASSUME NEW c \in Clients, Poll(c)
        PROVE  PollerTypes'
    <3> DEFINE results == {window[c][i] : i \in 1..Len(window[c])}
               rows == {[computer |-> name[c], task |-> t] : t \in NewResults(c)}
               entry == [name |-> name[c], completed |-> rows]
               after == Remembered(seen[c] \cup results)
    <3>0. CASE seen' # [seen EXCEPT ![c] = after] \/ posted' # Append(posted, entry)
      <4> DEFINE none == [name |-> name[c], completed |-> {}]
      <4>1. posted' = Append(posted, none) /\ UNCHANGED <<name, seen, snapshots>>
        BY <2>2, <3>0 DEF Poll
      <4>2. none \in [name : Names, completed : SUBSET Row]
        BY <1>3
      <4> HIDE DEF none
      <4>3. posted' \in Seq([name : Names, completed : SUBSET Row])
        BY <1>3, <4>1, <4>2, QueueTypes
      <4> QED BY <1>3, <4>1, <4>3
    <3>1. results \subseteq Tasks /\ IsFiniteSet(results)
      BY <1>3, WindowIsFinite
    <3>2. IsFiniteSet(seen[c] \cup results) /\ Cardinality(seen[c] \cup results) \in Nat
      <4> HIDE DEF results
      <4> QED BY <1>3, <3>1, FS_Union, FS_CardinalityType
    <3>3. /\ after \subseteq Tasks /\ IsFiniteSet(after)
          /\ Cardinality(after) <= SeenMax
      BY <1>3, <3>1, <3>2, FS_EmptySet DEF Remembered
    <3>4. NewResults(c) \subseteq Tasks
      BY <3>1 DEF NewResults
    <3>5. entry \in [name : Names, completed : SUBSET Row]
      BY <1>3, <3>4 DEF Row
    <3>6. UNCHANGED <<name, snapshots>>
      BY <2>2 DEF Poll
    <3> SUFFICES ASSUME posted' = Append(posted, entry),
                        seen' = [seen EXCEPT ![c] = after]
                 PROVE  PollerTypes'
      BY <3>0
    <3> HIDE DEF after, entry, results
    <3>7. posted' \in Seq([name : Names, completed : SUBSET Row])
      BY <1>3, <3>5, <3>6, QueueTypes
    <3> QED BY <1>3, <3>3, <3>6, <3>7
  <2>3. CASE HandleSnapshot
    <3>1. /\ posted # <<>> /\ posted' = Tail(posted)
          /\ snapshots' = [snapshots EXCEPT
                ![Head(posted).name] = Head(posted).completed]
          /\ UNCHANGED <<name, seen>>
      BY <2>3 DEF HandleSnapshot
    <3>2. /\ Head(posted) \in [name : Names, completed : SUBSET Row]
          /\ posted' \in Seq([name : Names, completed : SUBSET Row])
      BY <1>3, <3>1, QueueTypes
    <3> QED BY <1>3, <3>1, <3>2
  <2>4. ASSUME NEW selected \in SUBSET Names, Rebuild(selected)
        PROVE  PollerTypes'
    BY <1>3, <2>4 DEF Rebuild
  <2>5. ASSUME NEW c \in Clients, NEW n \in Names, RenameComputer(c, n)
        PROVE  PollerTypes'
    <3>1. /\ seen' = [d \in Clients |-> {}] /\ UNCHANGED posted
          /\ name' = [name EXCEPT ![c] = n]
          /\ snapshots' = [snapshots EXCEPT ![n] = snapshots[name[c]],
                                            ![name[c]] = {}]
      BY <2>5 DEF RenameComputer
    <3>2. /\ seen' \in [Clients -> SUBSET Tasks]
          /\ \A d \in Clients : IsFiniteSet(seen'[d]) /\ Cardinality(seen'[d]) <= SeenMax
      BY <3>1, ClearedGuardSet
    <3>3. name' \in [Clients -> Names] /\ snapshots' \in [Names -> SUBSET Row]
      BY <1>3, <3>1
    <3> QED BY <1>3, <3>1, <3>2, <3>3
  <2>6. CASE RestartPollers
    <3>1. seen' = [d \in Clients |-> {}] /\ UNCHANGED <<name, posted, snapshots>>
      BY <2>6 DEF RestartPollers
    <3>2. /\ seen' \in [Clients -> SUBSET Tasks]
          /\ \A d \in Clients : IsFiniteSet(seen'[d]) /\ Cardinality(seen'[d]) <= SeenMax
      BY <3>1, ClearedGuardSet
    <3> QED BY <1>3, <3>1, <3>2
  <2>7. ASSUME NEW opens \in BOOLEAN, StartAgain(opens)
        PROVE  PollerTypes'
    <3>1. /\ seen' = [c \in Clients |-> {}] /\ UNCHANGED name
          /\ posted' = <<>> /\ snapshots' = [n \in Names |-> {}]
      BY <2>7 DEF StartAgain
    <3>2. /\ seen' \in [Clients -> SUBSET Tasks]
          /\ \A c \in Clients : IsFiniteSet(seen'[c]) /\ Cardinality(seen'[c]) <= SeenMax
      BY <3>1, ClearedGuardSet
    <3>3. posted' \in Seq([name : Names, completed : SUBSET Row])
      BY <3>1
    <3> QED BY <1>3, <3>1, <3>2, <3>3
  <2> QED
    BY <2>1, <2>2, <2>3, <2>4, <2>5, <2>6, <2>7 DEF Next, vars, Statement,
       Complete, NewDay, Copy, Delete, Prune, Seed, ArchiveTimer, ChangeSettings
<1>6. TableTypes'
  <2>1. CASE UNCHANGED dbVars
    BY <1>3, <2>1
  <2>2. ASSUME NEW selected \in SUBSET Names, Rebuild(selected)
        PROVE  TableTypes'
    BY <1>3, <2>2 DEF Rebuild
  <2>3. CASE Copy \/ Delete \/ Prune
    BY <1>3, <2>3 DEF Copy, Delete, Prune, Before
  <2>4. CASE Seed
    <3>1. JobLogRows \subseteq Row
      BY <1>3 DEF JobLogRows, Row
    <3> QED BY <1>3, <2>4, <3>1 DEF Seed
  <2> QED
    BY <2>1, <2>2, <2>3, <2>4 DEF Next, vars, Statement, Complete, NewDay, Poll,
       HandleSnapshot, RenameComputer, RestartPollers, ArchiveTimer,
       ChangeSettings, StartAgain, Start
<1>7. CountTypes'
  <2>1. CASE UNCHANGED countVars
    BY <1>3, <2>1
  <2>2. CASE \/ \E c \in Clients, n \in Names : RenameComputer(c, n)
             \/ RestartPollers \/ \E opens \in BOOLEAN : StartAgain(opens)
    BY <1>3, <2>2 DEF RenameComputer, RestartPollers, StartAgain
  <2> QED
    BY <2>1, <2>2 DEF Next, vars, Statement, Complete, NewDay, Poll,
       HandleSnapshot, Rebuild, Copy, Delete, Prune, Seed, ArchiveTimer,
       ChangeSettings
<1>8. Shapes'
  BY <1>1, <1>4, <1>5 DEF Shapes
<1>9. opened' \in BOOLEAN /\ ok' \in BOOLEAN
  <2>1. opened \in BOOLEAN /\ ok \in BOOLEAN
    BY DEF TypeOK
  <2> QED
    BY <2>1 DEF Next, vars, Statement, Complete, NewDay, Poll, HandleSnapshot,
       Rebuild, RenameComputer, RestartPollers, Copy, Delete, Prune, Seed,
       ArchiveTimer, ChangeSettings, StartAgain, Start
<1> QED
  BY <1>1, <1>2, <1>4, <1>5, <1>6, <1>7, <1>8, <1>9 DEF TypeOK, ForgetTypes

\* Every variable of History keeps its type: in particular the guard set of a
\* poller stays below its limit (bt_poller.cpp:445).
THEOREM HistoryTypes == Spec => []TypeOK
<1>1. Init => TypeOK /\ Shapes
  BY InitTypes
<1>2. TypeOK /\ Shapes /\ [Next]_vars => TypeOK' /\ Shapes'
  BY StepKeepsTypeOK
<1> QED BY <1>1, <1>2, PTL DEF Spec

----------------------------------------------------------------------------
(* Archived in time.                                                       *)

\* With archiving on, no prune takes a row that the move of its handler was due
\* to take, unless that move's copy failed: over any number of settings changes,
\* changes of day between the two, kills, starts and databases that do not open
\* (OpenHistory, OnSettings and the hourly timer of bt_main.cpp).
THEOREM ArchivedRowsSurvive == Spec => ArchivedSurvive
<1> DEFINE Survive ==
       LongTermDays > 0 =>
         \A r \in Store \ Store' :
            cutoff # Unset /\ (ok => completedAt[r.task] >= cutoff)
<1>1. Init => TypeOK /\ Shapes /\ ForgetInv
  BY InitForgets, InitTypes
<1>2. TypeOK /\ Shapes /\ ForgetInv /\ [Next]_vars => TypeOK' /\ Shapes' /\ ForgetInv'
  BY StepKeepsTypeOK, StepKeepsTypes, StepKeepsMoved DEF ForgetInv
<1>3. TypeOK /\ ForgetInv /\ [Next]_vars => [Survive]_vars
  <2> SUFFICES ASSUME TypeOK, ForgetInv, [Next]_vars, LongTermDays > 0,
                      NEW r \in Store \ Store'
               PROVE  cutoff # Unset /\ (ok => completedAt[r.task] >= cutoff)
    OBVIOUS
  <2>1. Prune /\ r \notin longterm
    BY StepForgetsByPrune
  <2>2. job # <<>> /\ Head(job) = "prune" /\ r \in history
    BY <2>1 DEF Prune, Store
  <2>3. cutoff <= today /\ (ok => Due \subseteq longterm)
    BY <2>2 DEF ForgetInv, MoveDone
  <2>4. /\ today \in 0..MaxDay /\ cutoff \in Int /\ MaxDay \in Nat
        /\ completedAt \in [Tasks -> Nat]
    BY HistoryAssumption DEF ForgetInv, ForgetTypes
  <2>5. cutoff # Unset
    BY <2>3, <2>4 DEF Unset
  <2>6. ok => ~(completedAt[r.task] < cutoff)
    BY <2>1, <2>2, <2>3 DEF Due, Before
  <2>7. completedAt[r.task] \in Nat
    BY <2>2, <2>4 DEF TypeOK, Row
  <2> QED BY <2>4, <2>5, <2>6, <2>7
<1> QED
  BY <1>1, <1>2, <1>3, PTL DEF Spec, ArchivedSurvive
=============================================================================
