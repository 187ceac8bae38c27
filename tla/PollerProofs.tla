---------------------------- MODULE PollerProofs ----------------------------
(***************************************************************************)
(* One computer, for any number of pollers, commands, sessions and         *)
(* messages: Poller implements CommandChannel, snapshots show the commands *)
(* that came before them, and the messages kept have no hole.              *)
(***************************************************************************)
EXTENDS Poller, SequenceTheorems, FiniteSetTheorems, TLAPS

ControlState == {"unborn", "top", "refused", "take", "run", "state",
                 "results", "messages", "deliver", "tellDown", "tellUp", "over"}

\* Where the state a poller fetched is on its way to the frame.
PastRefresh == {"results", "messages", "deliver", "tellUp"}

CommandTypes ==
    /\ current \in Pollers \cup {NoPoller} /\ started \in Pollers
    /\ current <= started
    /\ sent \in 0..MaxCommands
    /\ ops \in Seq(Pollers \X Commands)
    /\ pc \in [Pollers -> ControlState]
    /\ m_commands \in [Pollers -> Seq(Commands)]
    /\ pending \in [Pollers -> Seq(Commands)]

\* A poller holds commands it has taken just as long as it runs them.
BatchWhileRunning == \A p \in Pollers : pc[p] = "run" <=> pending[p] # <<>>

FutureIsUnborn == \A p \in Pollers : p > started => pc[p] = "unborn"

CommandInv == CommandTypes /\ BatchWhileRunning /\ FutureIsUnborn

----------------------------------------------------------------------------
(* Facts about sequences.                                                  *)

\* A command posted to a poller joins the end of all it has still to run.
LEMMA AppendToConcat ==
    ASSUME NEW S, NEW s \in Seq(S), NEW t \in Seq(S), NEW e \in S
    PROVE  s \o Append(t, e) = Append(s \o t, e)
<1>1. /\ Append(t, e) \in Seq(S) /\ Len(Append(t, e)) = Len(t) + 1
      /\ Len(s) \in Nat /\ Len(t) \in Nat
      /\ \A i \in 1..(Len(t) + 1) :
            Append(t, e)[i] = IF i = Len(t) + 1 THEN e ELSE t[i]
  BY AppendProperties, LenProperties
<1>2. /\ s \o t \in Seq(S) /\ Len(s \o t) = Len(s) + Len(t)
      /\ \A i \in 1..(Len(s) + Len(t)) :
            (s \o t)[i] = IF i <= Len(s) THEN s[i] ELSE t[i - Len(s)]
  BY ConcatProperties
<1>3. /\ s \o Append(t, e) \in Seq(S)
      /\ Len(s \o Append(t, e)) = Len(s) + Len(t) + 1
      /\ \A i \in 1..(Len(s) + Len(t) + 1) :
            (s \o Append(t, e))[i] = IF i <= Len(s) THEN s[i]
                                     ELSE Append(t, e)[i - Len(s)]
  <2> DEFINE u == Append(t, e)
  <2>1. u \in Seq(S) /\ Len(u) = Len(t) + 1
    BY <1>1
  <2> HIDE DEF u
  <2>2. /\ s \o u \in Seq(S) /\ Len(s \o u) = Len(s) + Len(u)
        /\ \A i \in 1..(Len(s) + Len(u)) :
              (s \o u)[i] = IF i <= Len(s) THEN s[i] ELSE u[i - Len(s)]
    BY <2>1, ConcatProperties
  <2>3. Len(s) + Len(u) = Len(s) + Len(t) + 1
    BY <1>1, <2>1
  <2> QED
    BY <2>2, <2>3 DEF u
<1>4. /\ Append(s \o t, e) \in Seq(S)
      /\ Len(Append(s \o t, e)) = Len(s) + Len(t) + 1
      /\ \A i \in 1..(Len(s) + Len(t) + 1) :
            Append(s \o t, e)[i] = IF i = Len(s) + Len(t) + 1 THEN e ELSE (s \o t)[i]
  BY <1>1, <1>2, AppendProperties
<1>5. ASSUME NEW i \in 1..(Len(s) + Len(t) + 1)
      PROVE  (s \o Append(t, e))[i] = Append(s \o t, e)[i]
  <2>1. CASE i <= Len(s)
    BY <1>1, <1>2, <1>3, <1>4, <2>1
  <2>2. CASE i > Len(s)
    BY <1>1, <1>2, <1>3, <1>4, <2>2
  <2> QED BY <1>1, <2>1, <2>2
<1> QED
  BY <1>3, <1>4, <1>5, SeqEqual

\* The next command is the next of the batch, as long as there is one.
LEMMA HeadOfConcat ==
    ASSUME NEW S, NEW s \in Seq(S), NEW t \in Seq(S), s # <<>>
    PROVE  /\ s \o t # <<>>
           /\ Head(s \o t) = Head(s)
           /\ Tail(s \o t) = Tail(s) \o t
<1>1. /\ Len(s) \in Nat \ {0} /\ Len(t) \in Nat
      /\ Tail(s) \in Seq(S) /\ Len(Tail(s)) = Len(s) - 1
      /\ \A i \in 1..(Len(s) - 1) : Tail(s)[i] = s[i + 1]
  BY EmptySeq, HeadTailProperties, LenProperties
<1>2. /\ s \o t \in Seq(S) /\ Len(s \o t) = Len(s) + Len(t)
      /\ \A i \in 1..(Len(s) + Len(t)) :
            (s \o t)[i] = IF i <= Len(s) THEN s[i] ELSE t[i - Len(s)]
  BY ConcatProperties
<1>3. s \o t # <<>>
  BY <1>1, <1>2, EmptySeq
<1>4. Head(s \o t) = Head(s)
  BY <1>1, <1>2
<1>5. /\ Tail(s \o t) \in Seq(S) /\ Len(Tail(s \o t)) = Len(s) + Len(t) - 1
      /\ \A i \in 1..(Len(s) + Len(t) - 1) : Tail(s \o t)[i] = (s \o t)[i + 1]
  BY <1>1, <1>2, <1>3, HeadTailProperties
<1>6. /\ Tail(s) \o t \in Seq(S) /\ Len(Tail(s) \o t) = Len(s) + Len(t) - 1
      /\ \A i \in 1..(Len(s) + Len(t) - 1) :
            (Tail(s) \o t)[i] = IF i <= Len(s) - 1 THEN Tail(s)[i]
                                ELSE t[i - (Len(s) - 1)]
  BY <1>1, ConcatProperties
<1>7. ASSUME NEW i \in 1..(Len(s) + Len(t) - 1)
      PROVE  Tail(s \o t)[i] = (Tail(s) \o t)[i]
  <2>1. CASE i <= Len(s) - 1
    BY <1>1, <1>2, <1>5, <1>6, <2>1
  <2>2. CASE i > Len(s) - 1
    BY <1>1, <1>2, <1>5, <1>6, <2>2
  <2> QED BY <1>1, <2>1, <2>2
<1>8. Tail(s \o t) = Tail(s) \o t
  BY <1>5, <1>6, <1>7, SeqEqual
<1> QED
  BY <1>3, <1>4, <1>8

----------------------------------------------------------------------------
(* The steps, by what they do to the commands.                             *)

commandVars == <<ops, current, started, stop, sent, pc, m_commands, pending>>

\* A step of the client or a callback.
LEMMA ElsewhereStep ==
    ASSUME CommandInv, UNCHANGED commandVars
    PROVE  CommandInv' /\ UNCHANGED Channel!channelVars
BY DEF commandVars, CommandInv, CommandTypes, BatchWhileRunning, FutureIsUnborn,
       Channel!channelVars

\* A poller moves on without touching a command.
LEMMA QuietStep ==
    ASSUME CommandInv, NEW p \in Pollers, NEW at,
           at \in ControlState \ {"run", "over", "unborn"},
           pc[p] \notin {"run", "over", "unborn"},
           pc' = [pc EXCEPT ![p] = at],
           UNCHANGED <<ops, current, started, stop, sent, m_commands, pending>>
    PROVE  CommandInv' /\ UNCHANGED Channel!channelVars
<1>1. pc \in [Pollers -> ControlState]
  BY DEF CommandInv, CommandTypes
<1>2. CommandInv'
  BY <1>1 DEF CommandInv, CommandTypes, BatchWhileRunning, FutureIsUnborn, Pollers
<1>3. {q \in Pollers : pc'[q] = "over"} = {q \in Pollers : pc[q] = "over"}
  BY <1>1
<1> QED
  BY <1>2, <1>3 DEF Channel!channelVars

\* A poller told to stop ends.
LEMMA LastStep ==
    ASSUME CommandInv, NEW p \in Pollers, p \in stop,
           pc[p] \notin {"run", "over", "unborn"},
           pc' = [pc EXCEPT ![p] = "over"],
           UNCHANGED <<ops, current, started, stop, sent, m_commands, pending>>
    PROVE  CommandInv' /\ Channel!End(p)
<1>1. pc \in [Pollers -> ControlState]
  BY DEF CommandInv, CommandTypes
<1>2. CommandInv'
  BY <1>1 DEF CommandInv, CommandTypes, BatchWhileRunning, FutureIsUnborn,
     Pollers, ControlState
<1>3. {q \in Pollers : pc'[q] = "over"} = {q \in Pollers : pc[q] = "over"} \cup {p}
  BY <1>1
<1> QED
  BY <1>2, <1>3 DEF Channel!End

\* Post is the channel's Send.
LEMMA PostStep ==
    ASSUME CommandInv, Post
    PROVE  CommandInv' /\ \E p \in Channel!Pollers : Channel!Send(p)
<1>1. /\ current \in Pollers /\ current # 0 /\ current <= started
      /\ sent \in Nat /\ sent < MaxCommands /\ sent + 1 \in Commands
      /\ sent' = sent + 1
      /\ pending \in [Pollers -> Seq(Commands)]
      /\ m_commands \in [Pollers -> Seq(Commands)]
      /\ m_commands' = [m_commands EXCEPT ![current] = Append(@, sent + 1)]
      /\ UNCHANGED <<ops, current, started, stop, pc, pending>>
  BY PollerAssumption DEF CommandInv, CommandTypes, Post, NoPoller, Commands,
     frameVars
<1>2. Append(m_commands[current], sent + 1) \in Seq(Commands)
  BY <1>1, AppendProperties
<1>3. CommandInv'
  BY <1>1, <1>2, PollerAssumption DEF CommandInv, CommandTypes,
     BatchWhileRunning, FutureIsUnborn, Commands
<1>4. pending[current] \o Append(m_commands[current], sent + 1)
        = Append(pending[current] \o m_commands[current], sent + 1)
  BY <1>1, AppendToConcat
<1>5. [p \in Pollers |-> pending'[p] \o m_commands'[p]]
        = [[p \in Pollers |-> pending[p] \o m_commands[p]]
              EXCEPT ![current] = Append(@, sent + 1)]
  BY <1>1, <1>4
<1>6. PICK p \in Pollers : p = current
  BY <1>1
<1>7. Channel!Send(p)
  BY <1>1, <1>5, <1>6 DEF Channel!Send, Channel!NoPoller
<1> QED
  BY <1>3, <1>7 DEF Channel!Pollers, Pollers

\* The next poller was not born before, so its start ends nobody.
LEMMA RestartStep ==
    ASSUME CommandInv, NEW polled \in BOOLEAN, Restart(polled)
    PROVE  CommandInv' /\ Channel!Restart(polled)
<1>1. /\ pc \in [Pollers -> ControlState] /\ started \in Pollers
      /\ current \in Pollers \cup {0} /\ current <= started
      /\ polled => started + 1 \in Pollers /\ pc[started + 1] = "unborn"
  BY PollerAssumption DEF CommandInv, CommandTypes, FutureIsUnborn, Restart,
     Pollers, NoPoller
<1>2. /\ polled => pc' = [pc EXCEPT ![started + 1] = "top"]
      /\ ~polled => pc' = pc
      /\ started' = IF polled THEN started + 1 ELSE started
      /\ current' = IF polled THEN started + 1 ELSE NoPoller
      /\ UNCHANGED <<ops, sent, m_commands, pending>>
  BY DEF Restart
<1>3. CommandInv'
  <2>1. CommandTypes'
    <3>1. pc' \in [Pollers -> ControlState]
      BY <1>1, <1>2 DEF ControlState
    <3>2. /\ current' \in Pollers \cup {NoPoller} /\ started' \in Pollers
          /\ current' <= started'
      BY <1>1, <1>2, PollerAssumption DEF Pollers, NoPoller
    <3> QED
      BY <1>2, <3>1, <3>2 DEF CommandInv, CommandTypes
  <2>2. BatchWhileRunning'
    BY <1>1, <1>2 DEF CommandInv, BatchWhileRunning
  <2>3. FutureIsUnborn'
    BY <1>1, <1>2, PollerAssumption DEF CommandInv, FutureIsUnborn, Pollers
  <2> QED BY <2>1, <2>2, <2>3 DEF CommandInv
<1>4. {p \in Pollers : pc'[p] = "over"} = {p \in Pollers : pc[p] = "over"}
  BY <1>1, <1>2
<1> QED
  BY <1>2, <1>3, <1>4 DEF Restart, Channel!Restart, Channel!NoPoller, NoPoller

\* The swap moves a queue from one variable to the other.
LEMMA TakeStep ==
    ASSUME CommandInv, NEW p \in Pollers, Take(p)
    PROVE  CommandInv' /\ UNCHANGED Channel!channelVars
<1>1. /\ pc \in [Pollers -> ControlState] /\ pc[p] = "take"
      /\ pending \in [Pollers -> Seq(Commands)] /\ pending[p] = <<>>
      /\ m_commands \in [Pollers -> Seq(Commands)]
      /\ pending' = [pending EXCEPT ![p] = m_commands[p]]
      /\ m_commands' = [m_commands EXCEPT ![p] = <<>>]
      /\ pc' = [pc EXCEPT ![p] = IF m_commands[p] = <<>> THEN "state" ELSE "run"]
      /\ UNCHANGED <<ops, current, started, stop, sent>>
  BY DEF CommandInv, CommandTypes, BatchWhileRunning, Take, LeftInQueue, frameVars
<1>2. CommandInv'
  <2>1. CommandTypes'
    BY <1>1 DEF CommandInv, CommandTypes, ControlState
  <2>2. BatchWhileRunning'
    BY <1>1 DEF CommandInv, BatchWhileRunning
  <2>3. FutureIsUnborn'
    BY <1>1 DEF CommandInv, FutureIsUnborn
  <2> QED BY <2>1, <2>2, <2>3 DEF CommandInv
<1>3. m_commands[p] \o <<>> = <<>> \o m_commands[p]
  BY <1>1, ConcatEmptySeq
<1>4. [q \in Pollers |-> pending'[q] \o m_commands'[q]]
        = [q \in Pollers |-> pending[q] \o m_commands[q]]
  BY <1>1, <1>3
<1>5. {q \in Pollers : pc'[q] = "over"} = {q \in Pollers : pc[q] = "over"}
  BY <1>1
<1> QED
  BY <1>1, <1>2, <1>4, <1>5 DEF Channel!channelVars

\* A command leaves the batch with or without effect.
LEMMA RunStep ==
    ASSUME CommandInv, NEW p \in Pollers, Run(p)
    PROVE  CommandInv' /\ \E effective \in BOOLEAN : Channel!Execute(p, effective)
<1> DEFINE c == Head(pending[p])
<1>1. /\ pc \in [Pollers -> ControlState] /\ pc[p] = "run"
      /\ pending \in [Pollers -> Seq(Commands)] /\ pending[p] # <<>>
      /\ m_commands \in [Pollers -> Seq(Commands)]
      /\ ops \in Seq(Pollers \X Commands)
      /\ pending' = [pending EXCEPT ![p] = Tail(@)]
      /\ ops' = Append(ops, <<p, c>>) \/ ops' = ops
      /\ pc' = IF Len(pending[p]) = 1 THEN [pc EXCEPT ![p] = "state"] ELSE pc
      /\ UNCHANGED <<current, started, stop, sent, m_commands>>
  BY DEF CommandInv, CommandTypes, BatchWhileRunning, Run, frameVars
<1>2. /\ Len(pending[p]) \in Nat \ {0}
      /\ c \in Commands /\ Tail(pending[p]) \in Seq(Commands)
      /\ Len(pending[p]) = 1 <=> Tail(pending[p]) = <<>>
  <2>1. pending[p] \in Seq(Commands) /\ pending[p] # <<>>
    BY <1>1
  <2>2. Len(pending[p]) \in Nat \ {0}
    BY <2>1, EmptySeq, LenProperties
  <2>3. /\ c \in Commands /\ Tail(pending[p]) \in Seq(Commands)
        /\ Len(Tail(pending[p])) = Len(pending[p]) - 1
    BY <2>1, HeadTailProperties
  <2>4. Tail(pending[p]) = <<>> <=> Len(Tail(pending[p])) = 0
    BY <2>3, EmptySeq
  <2> QED
    BY <2>2, <2>3, <2>4
<1>3. CommandInv'
  <2>1. CommandTypes'
    <3>1. ops' \in Seq(Pollers \X Commands)
      <4>1. <<p, c>> \in Pollers \X Commands
        BY <1>2
      <4> HIDE DEF c
      <4>2. Append(ops, <<p, c>>) \in Seq(Pollers \X Commands)
        BY <1>1, <4>1, AppendProperties
      <4> QED BY <1>1, <4>2
    <3>2. pc' \in [Pollers -> ControlState]
      BY <1>1 DEF ControlState
    <3>3. pending' \in [Pollers -> Seq(Commands)]
      BY <1>1, <1>2
    <3> QED
      BY <1>1, <3>1, <3>2, <3>3 DEF CommandInv, CommandTypes
  <2>2. BatchWhileRunning'
    BY <1>1, <1>2 DEF CommandInv, BatchWhileRunning
  <2>3. FutureIsUnborn'
    BY <1>1 DEF CommandInv, FutureIsUnborn
  <2> QED BY <2>1, <2>2, <2>3 DEF CommandInv
<1>4. /\ pending[p] \o m_commands[p] # <<>>
      /\ Head(pending[p] \o m_commands[p]) = c
      /\ Tail(pending[p] \o m_commands[p]) = Tail(pending[p]) \o m_commands[p]
  BY <1>1, HeadOfConcat
<1>5. [q \in Pollers |-> pending'[q] \o m_commands'[q]]
        = [[q \in Pollers |-> pending[q] \o m_commands[q]] EXCEPT ![p] = Tail(@)]
  BY <1>1, <1>4
<1>6. /\ {q \in Pollers : pc'[q] = "over"} = {q \in Pollers : pc[q] = "over"}
      /\ p \notin {q \in Pollers : pc[q] = "over"}
  BY <1>1
<1> HIDE DEF c
<1>7. CASE ops' = Append(ops, <<p, c>>)
  <2>1. Channel!Execute(p, TRUE)
    BY <1>1, <1>4, <1>5, <1>6, <1>7 DEF Channel!Execute
  <2> QED BY <1>3, <2>1
<1>8. CASE ops' = ops
  <2>1. Channel!Execute(p, FALSE)
    BY <1>1, <1>4, <1>5, <1>6, <1>8 DEF Channel!Execute
  <2> QED BY <1>3, <2>1
<1> QED BY <1>1, <1>7, <1>8

----------------------------------------------------------------------------
(* Every step.                                                             *)

\* The test of m_stop ends the poller or takes it to its delivery.
LEMMA TestStep ==
    ASSUME CommandInv, NEW p \in Pollers, NEW delivery \in {"tellDown", "tellUp"},
           PastTest(p, delivery), pc[p] \in {"refused", "deliver"},
           UNCHANGED <<ops, current, started, stop, sent, m_commands, pending>>
    PROVE  CommandInv' /\ [Channel!Next]_(Channel!channelVars)
<1>1. CASE p \in stop
  <2>1. pc' = [pc EXCEPT ![p] = "over"]
    BY <1>1 DEF PastTest
  <2>2. CommandInv' /\ Channel!End(p)
    BY <1>1, <2>1, LastStep
  <2> QED BY <2>2 DEF Channel!Next, Channel!Pollers, Pollers
<1>2. CASE p \notin stop
  <2>1. pc' = [pc EXCEPT ![p] = delivery]
    BY <1>2 DEF PastTest
  <2>2. CommandInv' /\ UNCHANGED Channel!channelVars
    BY <2>1, QuietStep DEF ControlState
  <2> QED BY <2>2
<1> QED BY <1>1, <1>2

\* Every step of Run maps to a step of the channel or to none.
LEMMA RoundStep ==
    ASSUME CommandInv, NEW p \in Pollers, Round(p)
    PROVE  CommandInv' /\ [Channel!Next]_(Channel!channelVars)
<1> USE DEF frameVars, roundVars, clientVars
<1>1. CASE Connect(p)
  <2>0. UNCHANGED <<ops, current, started, stop, sent, m_commands, pending>>
    BY <1>1 DEF Connect
  <2>1. CASE p \in stop
    <3>1. CommandInv' /\ Channel!End(p)
      BY <1>1, <2>0, <2>1, LastStep DEF Connect
    <3> QED BY <3>1 DEF Channel!Next, Channel!Pollers, Pollers
  <2>2. CASE p \notin stop
    <3>1. PICK at \in {"take", "refused"} : pc' = [pc EXCEPT ![p] = at]
      BY <1>1, <2>2 DEF Connect
    <3>2. CommandInv' /\ UNCHANGED Channel!channelVars
      BY <1>1, <2>0, <3>1, QuietStep DEF Connect, ControlState
    <3> QED BY <3>2
  <2> QED BY <2>1, <2>2
<1>2. CASE PollDown(p)
  BY <1>2, TestStep DEF PollDown, Refused
<1>3. CASE Take(p)
  BY <1>3, TakeStep
<1>4. CASE Run(p)
  BY <1>4, RunStep DEF Channel!Next, Channel!Pollers, Pollers
<1>5. CASE GetState(p)
  <2>1. PICK at \in {"top", "results"} : pc' = [pc EXCEPT ![p] = at]
    BY <1>5 DEF GetState, Fail
  <2>2. CommandInv' /\ UNCHANGED Channel!channelVars
    BY <1>5, <2>1, QuietStep DEF GetState, ControlState
  <2> QED BY <2>2
<1>6. CASE GetResults(p)
  <2>1. PICK at \in {"top", "messages"} : pc' = [pc EXCEPT ![p] = at]
    BY <1>6 DEF GetResults, Fail
  <2>2. CommandInv' /\ UNCHANGED Channel!channelVars
    BY <1>6, <2>1, QuietStep DEF GetResults, ControlState
  <2> QED BY <2>2
<1>7. CASE GetMessages(p)
  <2>1. CommandInv' /\ UNCHANGED Channel!channelVars
    BY <1>7, QuietStep DEF GetMessages, ControlState
  <2> QED BY <2>1
<1>8. CASE EndRound(p)
  BY <1>8, TestStep DEF EndRound
<1>9. CASE Deliver(p)
  <2>1. CommandInv' /\ UNCHANGED Channel!channelVars
    BY <1>9, QuietStep DEF Deliver, ControlState
  <2> QED BY <2>1
<1> QED
  BY <1>1, <1>2, <1>3, <1>4, <1>5, <1>6, <1>7, <1>8, <1>9 DEF Round

\* So does every step of the system.
LEMMA StepImplements ==
    ASSUME CommandInv, [Next]_vars
    PROVE  CommandInv' /\ [Channel!Next]_(Channel!channelVars)
<1>1. CASE UNCHANGED vars
  BY <1>1, ElsewhereStep DEF vars, commandVars
<1>2. CASE Client
  <2>1. UNCHANGED commandVars
    BY <1>2 DEF Client, GoDown, ComeUp, GoDeaf, LogMessage, commandVars, frameVars
  <2> QED BY <2>1, ElsewhereStep
<1>3. CASE Post
  BY <1>3, PostStep DEF Channel!Next
<1>4. ASSUME NEW polled \in BOOLEAN, Restart(polled)
      PROVE  CommandInv' /\ [Channel!Next]_(Channel!channelVars)
  BY <1>4, RestartStep DEF Channel!Next
<1>5. CASE HandleSnapshot
  <2>1. UNCHANGED commandVars
    BY <1>5 DEF HandleSnapshot, commandVars
  <2> QED BY <2>1, ElsewhereStep
<1>6. ASSUME NEW p \in Pollers, Round(p)
      PROVE  CommandInv' /\ [Channel!Next]_(Channel!channelVars)
  BY <1>6, RoundStep
<1> QED
  BY <1>1, <1>2, <1>3, <1>4, <1>5, <1>6 DEF Next

\* The first poller starts with an empty queue.
LEMMA InitImplements == Init => CommandInv /\ Channel!Init
<1> SUFFICES ASSUME Init PROVE CommandInv /\ Channel!Init
  OBVIOUS
<1>1. CommandInv
  BY PollerAssumption DEF Init, CommandInv, CommandTypes, BatchWhileRunning,
     FutureIsUnborn, ControlState, Pollers, Commands, NoPoller
<1>2. <<>> \o <<>> = <<>>
  OBVIOUS
<1>3. {p \in Pollers : pc[p] = "over"} = {}
  BY DEF Init
<1>4. [p \in Pollers |-> pending[p] \o m_commands[p]] = [p \in Pollers |-> <<>>]
  BY <1>2 DEF Init
<1> QED
  BY <1>1, <1>3, <1>4 DEF Init, Channel!Init, Channel!Pollers, Pollers

\* However pollers, restarts and failures interleave, the frame's commands are
\* treated as CommandChannel says.
THEOREM PollerImplementsChannel == Spec => ImplementsChannel
<1>1. CommandInv /\ [Next]_vars => CommandInv' /\ [Channel!Next]_(Channel!channelVars)
  BY StepImplements
<1> QED
  BY InitImplements, <1>1, PTL DEF Spec, ImplementsChannel, Channel!Spec

----------------------------------------------------------------------------
(* Snapshots.                                                              *)

\* The state poller p holds has seen every command p has run.
Fresh(p) == \A i \in 1..Len(ops) : ops[i][1] = p => i <= view[p]

RoundTypes ==
    /\ ops \in Seq(Pollers \X Commands)
    /\ pc \in [Pollers -> ControlState]
    /\ view \in [Pollers -> Nat]
    /\ stateAge \in [Pollers -> Nat]

\* Between batches the state is fresh or due for a refresh, and past the
\* refresh it is fresh.
FreshOrDue ==
    \A p \in Pollers :
        /\ pc[p] # "run" => Fresh(p) \/ stateAge[p] >= StateEvery
        /\ pc[p] \in PastRefresh => Fresh(p)

RoundInv == RoundTypes /\ FreshOrDue

\* A step that fetches nothing and runs nothing, and leaves whoever moves
\* outside the part of the round that follows the refresh.
LEMMA StepBefore ==
    ASSUME RoundInv, UNCHANGED <<ops, view>>,
           pc' \in [Pollers -> ControlState], stateAge' \in [Pollers -> Nat],
           \A p \in Pollers :
              /\ stateAge'[p] = stateAge[p] \/ stateAge'[p] >= StateEvery
              /\ \/ pc'[p] = pc[p]
                 \/ pc[p] # "run" /\ pc'[p] \in ControlState \ PastRefresh
                 \/ pc[p] \in PastRefresh /\ pc'[p] # "run"
    PROVE  RoundInv'
BY DEF RoundInv, RoundTypes, FreshOrDue, Fresh, PastRefresh

\* Only the poller that runs a command gets behind, and its last command makes
\* the refresh due.
LEMMA RunKeepsRound ==
    ASSUME CommandInv, RoundInv, NEW p \in Pollers, Run(p)
    PROVE  RoundInv'
<1> DEFINE c == Head(pending[p])
<1>1. /\ pc \in [Pollers -> ControlState] /\ pc[p] = "run"
      /\ ops \in Seq(Pollers \X Commands) /\ view \in [Pollers -> Nat]
      /\ stateAge \in [Pollers -> Nat] /\ StateEvery \in Nat
      /\ c \in Commands
      /\ ops' = Append(ops, <<p, c>>) \/ ops' = ops
      /\ view' = view
      /\ \/ pc' = [pc EXCEPT ![p] = "state"] /\ stateAge' = [stateAge EXCEPT ![p] = StateEvery]
         \/ pc' = pc /\ stateAge' = stateAge
  <2>1. pending[p] \in Seq(Commands) /\ pending[p] # <<>>
    BY DEF CommandInv, CommandTypes, BatchWhileRunning, Run
  <2>2. c \in Commands
    BY <2>1, HeadTailProperties
  <2> QED
    BY <2>2, PollerAssumption DEF RoundInv, RoundTypes, Run, AgeAfterCommands
<1> HIDE DEF c
<1>2. /\ ops' \in Seq(Pollers \X Commands) /\ Len(ops) \in Nat
      /\ \A i \in 1..Len(ops') : \/ i \in 1..Len(ops) /\ ops'[i] = ops[i]
                                \/ ops'[i] = <<p, c>>
  <2>1. CASE ops' = ops
    BY <1>1, <2>1, LenProperties
  <2>2. CASE ops' = Append(ops, <<p, c>>)
    <3>1. <<p, c>> \in Pollers \X Commands
      BY <1>1
    <3>2. /\ ops' \in Seq(Pollers \X Commands) /\ Len(ops') = Len(ops) + 1
          /\ \A i \in 1..(Len(ops) + 1) :
                ops'[i] = IF i = Len(ops) + 1 THEN <<p, c>> ELSE ops[i]
      BY <1>1, <2>2, <3>1, AppendProperties
    <3>3. Len(ops) \in Nat
      BY <1>1, LenProperties
    <3> HIDE <2>2
    <3> QED
      BY <3>2, <3>3
  <2> QED BY <1>1, <2>1, <2>2
<1>3. \A q \in Pollers \ {p} : Fresh(q) => Fresh(q)'
  <2> SUFFICES ASSUME NEW q \in Pollers \ {p}, Fresh(q),
                      NEW i \in 1..Len(ops'), ops'[i][1] = q
               PROVE  i <= view'[q]
    BY DEF Fresh
  <2>1. CASE i \in 1..Len(ops) /\ ops'[i] = ops[i]
    BY <1>1, <2>1 DEF Fresh
  <2>2. CASE ops'[i] = <<p, c>>
    BY <2>2
  <2> QED BY <1>2, <2>1, <2>2
<1>4. RoundTypes'
  BY <1>1, <1>2 DEF RoundTypes, ControlState
<1>5. FreshOrDue'
  BY <1>1, <1>3 DEF RoundInv, FreshOrDue, PastRefresh
<1> QED BY <1>4, <1>5 DEF RoundInv

\* A refresh sees every command before it; without one the state is fresh
\* already.
LEMMA GetStateKeepsRound ==
    ASSUME RoundInv, NEW p \in Pollers, GetState(p)
    PROVE  RoundInv'
<1> DEFINE due == stateAge[p] >= StateEvery
<1>1. /\ pc \in [Pollers -> ControlState] /\ pc[p] = "state"
      /\ ops \in Seq(Pollers \X Commands) /\ Len(ops) \in Nat
      /\ view \in [Pollers -> Nat]
      /\ stateAge \in [Pollers -> Nat] /\ ops' = ops
  BY LenProperties DEF RoundInv, RoundTypes, GetState
<1>2. CASE due /\ ~Answers(p)
  <2>1. pc' = [pc EXCEPT ![p] = "top"] /\ UNCHANGED <<stateAge, view>>
    BY <1>2 DEF GetState, Fail
  <2> QED
    BY <1>1, <2>1, StepBefore DEF ControlState, PastRefresh
<1>3. CASE ~(due /\ ~Answers(p))
  <2>1. /\ pc' = [pc EXCEPT ![p] = "results"]
        /\ stateAge' = [stateAge EXCEPT ![p] = IF due THEN 1 ELSE @ + 1]
        /\ view' = [view EXCEPT ![p] = IF due THEN Len(ops) ELSE @]
    BY <1>3 DEF GetState
  <2>2. \A q \in Pollers \ {p} : Fresh(q) => Fresh(q)'
    BY <1>1, <2>1 DEF Fresh
  <2>3. Fresh(p)'
    <3>1. CASE due
      BY <1>1, <2>1, <3>1 DEF Fresh
    <3>2. CASE ~due
      BY <1>1, <2>1, <3>2 DEF Fresh, RoundInv, FreshOrDue
    <3> QED BY <3>1, <3>2
  <2>4. RoundTypes'
    BY <1>1, <2>1 DEF RoundTypes, ControlState
  <2>5. FreshOrDue'
    BY <1>1, <2>1, <2>2, <2>3 DEF RoundInv, FreshOrDue, PastRefresh
  <2> QED BY <2>4, <2>5 DEF RoundInv
<1> QED BY <1>2, <1>3

\* The other steps of a round fetch no state.
LEMMA RoundKeepsRound ==
    ASSUME CommandInv, RoundInv, NEW p \in Pollers, Round(p)
    PROVE  RoundInv'
<1> USE DEF roundVars
<1>0. /\ pc \in [Pollers -> ControlState] /\ stateAge \in [Pollers -> Nat]
      /\ StateEvery \in Nat
  BY PollerAssumption DEF RoundInv, RoundTypes
<1>1. CASE Connect(p)
  <2>1. /\ pc[p] = "top" /\ UNCHANGED <<ops, view>>
        /\ \E at \in {"over", "take", "refused"} : pc' = [pc EXCEPT ![p] = at]
        /\ stateAge' = stateAge \/ stateAge' = [stateAge EXCEPT ![p] = StateEvery]
    BY <1>1 DEF Connect
  <2> QED BY <1>0, <2>1, StepBefore DEF ControlState, PastRefresh
<1>2. CASE PollDown(p)
  <2>1. /\ pc[p] = "refused" /\ UNCHANGED <<ops, view, stateAge>>
        /\ \E at \in {"over", "tellDown"} : pc' = [pc EXCEPT ![p] = at]
    BY <1>2 DEF PollDown, Refused, PastTest
  <2> QED BY <1>0, <2>1, StepBefore DEF ControlState, PastRefresh
<1>3. CASE Take(p)
  <2>1. /\ pc[p] = "take" /\ UNCHANGED <<ops, view, stateAge>>
        /\ \E at \in {"state", "run"} : pc' = [pc EXCEPT ![p] = at]
    BY <1>3 DEF Take
  <2> QED BY <1>0, <2>1, StepBefore DEF ControlState, PastRefresh
<1>4. CASE Run(p)
  BY <1>4, RunKeepsRound
<1>5. CASE GetState(p)
  BY <1>5, GetStateKeepsRound
<1>6. CASE GetResults(p)
  <2>1. /\ pc[p] = "results" /\ UNCHANGED <<ops, view, stateAge>>
        /\ \E at \in {"messages", "top"} : pc' = [pc EXCEPT ![p] = at]
    BY <1>6 DEF GetResults, Fail
  <2> QED BY <1>0, <2>1, StepBefore DEF ControlState, PastRefresh
<1>7. CASE GetMessages(p)
  <2>1. /\ pc[p] = "messages" /\ UNCHANGED <<ops, view, stateAge>>
        /\ pc' = [pc EXCEPT ![p] = "deliver"]
    BY <1>7 DEF GetMessages
  <2> QED BY <1>0, <2>1, StepBefore DEF ControlState, PastRefresh
<1>8. CASE EndRound(p)
  <2>1. /\ pc[p] = "deliver" /\ UNCHANGED <<ops, view, stateAge>>
        /\ \E at \in {"over", "tellUp"} : pc' = [pc EXCEPT ![p] = at]
    BY <1>8 DEF EndRound, PastTest
  <2> QED BY <1>0, <2>1, StepBefore DEF ControlState, PastRefresh
<1>9. CASE Deliver(p)
  <2>1. /\ pc[p] \in {"tellDown", "tellUp"} /\ UNCHANGED <<ops, view, stateAge>>
        /\ pc' = [pc EXCEPT ![p] = "top"]
    BY <1>9 DEF Deliver
  <2> QED BY <1>0, <2>1, StepBefore DEF ControlState, PastRefresh
<1> QED
  BY <1>1, <1>2, <1>3, <1>4, <1>5, <1>6, <1>7, <1>8, <1>9 DEF Round

\* Nor does anything outside the round.
LEMMA StepKeepsRound ==
    ASSUME CommandInv, RoundInv, [Next]_vars
    PROVE  RoundInv'
<1>0. pc \in [Pollers -> ControlState] /\ stateAge \in [Pollers -> Nat]
  BY DEF RoundInv, RoundTypes
<1>1. CASE UNCHANGED <<ops, view, pc, stateAge>>
  BY <1>0, <1>1, StepBefore
<1>2. CASE Client \/ HandleSnapshot \/ Post \/ UNCHANGED vars
  <2>1. UNCHANGED <<ops, view, pc, stateAge>>
    BY <1>2 DEF Client, GoDown, ComeUp, GoDeaf, LogMessage, HandleSnapshot, Post,
                roundVars, vars
  <2> QED BY <1>1, <2>1
<1>3. ASSUME NEW polled \in BOOLEAN, Restart(polled)
      PROVE  RoundInv'
  <2>1. UNCHANGED <<ops, view, stateAge>>
    BY <1>3 DEF Restart, roundVars
  <2>2. CASE polled
    <3>1. /\ started + 1 \in Pollers /\ pc[started + 1] = "unborn"
          /\ pc' = [pc EXCEPT ![started + 1] = "top"]
      BY <1>3, <2>2, PollerAssumption DEF CommandInv, CommandTypes,
         FutureIsUnborn, Restart, Pollers
    <3> QED BY <1>0, <2>1, <3>1, StepBefore DEF ControlState, PastRefresh
  <2>3. CASE ~polled
    BY <1>1, <1>3, <2>1, <2>3 DEF Restart
  <2> QED BY <2>2, <2>3
<1>4. ASSUME NEW p \in Pollers, Round(p)
      PROVE  RoundInv'
  BY <1>4, RoundKeepsRound
<1> QED
  BY <1>2, <1>3, <1>4 DEF Next

\* A snapshot about to be delivered has seen every command its poller ran: the
\* refresh that bt_poller.cpp forces after a batch works whatever fails in
\* between.
THEOREM AlwaysFresh == Spec => []FreshAfterCommand
<1>1. Init => CommandInv /\ RoundInv
  <2> SUFFICES ASSUME Init PROVE RoundInv
    BY InitImplements
  <2>1. Len(ops) = 0 /\ ops \in Seq(Pollers \X Commands)
    BY DEF Init
  <2> QED
    BY <2>1, PollerAssumption DEF Init, RoundInv, RoundTypes, FreshOrDue, Fresh,
       ControlState, PastRefresh
<1>2. CommandInv /\ RoundInv /\ [Next]_vars => (CommandInv /\ RoundInv)'
  BY StepImplements, StepKeepsRound
<1>3. RoundInv => FreshAfterCommand
  <2> SUFFICES ASSUME RoundInv PROVE FreshAfterCommand
    OBVIOUS
  <2>1. DOMAIN ops = 1..Len(ops)
    BY LenProperties DEF RoundInv, RoundTypes
  <2> QED BY <2>1 DEF RoundInv, FreshOrDue, Fresh, FreshAfterCommand, PastRefresh
<1> QED
  BY <1>1, <1>2, <1>3, PTL DEF Spec

----------------------------------------------------------------------------
(* Messages.                                                               *)

Rows == (1..(MaxSessions + 1)) \X (1..MaxLogged)

\* The next message kept: of a later run of the client, or the next of the same.
Follows(m, next) == next[1] > m[1] \/ next = <<m[1], m[2] + 1>>

LogOK(s) ==
    /\ s \in Seq(Rows)
    /\ \A i \in 1..(Len(s) - 1) : Follows(s[i], s[i + 1])

\* A client that is not down may have been started once more than its
\* connections were cut: before the program was.
BootInv ==
    /\ client \in {"up", "down", "deaf"}
    /\ session \in 1..MaxSessions /\ logged \in 0..MaxLogged
    /\ boot \in Nat \ {0} /\ boot <= session + 1
    /\ client = "down" => boot <= session

\* What a poller keeps is consecutive, within its limit, and ends with the
\* message it will ask for the successors of.
LogInv ==
    /\ lastSeqno \in [Pollers -> 0..MaxLogged]
    /\ msgLog \in [Pollers -> Seq(Rows)]
    /\ \A p \in Pollers :
          /\ LogOK(msgLog[p]) /\ Len(msgLog[p]) <= LogMax
          /\ msgLog[p] # <<>> => /\ msgLog[p][Len(msgLog[p])][2] = lastSeqno[p]
                                 /\ msgLog[p][Len(msgLog[p])][1] <= boot

MessageInv == BootInv /\ LogInv

\* The messages between two numbers, in order, leave none out.
LEMMA OrderedIs ==
    ASSUME NEW a \in Nat, NEW b \in Nat, a < b, NEW f \in Ordered((a + 1)..b)
    PROVE  /\ f \in [1..(b - a) -> (a + 1)..b] /\ Len(f) = b - a
           /\ f[1] = a + 1 /\ f[b - a] = b
           /\ \A i \in 1..(b - a - 1) : f[i + 1] = f[i] + 1
<1> DEFINE S == (a + 1)..b
           n == b - a
<1>1. IsFiniteSet(S) /\ Cardinality(S) = n
  <2>1. ~(a + 1 > b) /\ b - (a + 1) + 1 = n
    OBVIOUS
  <2> QED BY <2>1, FS_Interval
<1>2. f \in [1..n -> S] /\ \A i, j \in 1..n : i < j => f[i] < f[j]
  BY <1>1 DEF Ordered
<1>3. f \in Surjection(1..n, S)
  <2>1. f \in Injection(1..n, S)
    <3>1. \A i, j \in 1..n : i # j => f[i] # f[j]
      <4> TAKE i, j \in 1..n
      <4>1. f[i] \in Int /\ f[j] \in Int
        BY <1>2
      <4> QED BY <1>2, <4>1
    <3> QED BY <1>2, <3>1 DEF Injection, IsInjective
  <2>2. IsFiniteSet(1..n) /\ Cardinality(1..n) = n
    <3>1. 1 \in Int /\ n \in Int /\ ~(1 > n) /\ n - 1 + 1 = n
      OBVIOUS
    <3> HIDE DEF n
    <3> QED BY <3>1, FS_Interval
  <2> HIDE DEF S, n
  <2> QED BY <1>1, <2>1, <2>2, FS_Injection
<1>4. \A k \in S : \E i \in 1..n : f[i] = k
  BY <1>3 DEF Surjection
<1>5. f[1] = a + 1
  <2>1. PICK i \in 1..n : f[i] = a + 1
    BY <1>4
  <2>2. f[1] \in S /\ (1 < i => f[1] < f[i])
    BY <1>2
  <2> QED BY <2>1, <2>2
<1>6. f[n] = b
  <2>1. PICK i \in 1..n : f[i] = b
    BY <1>4
  <2>2. f[n] \in S /\ (i < n => f[i] < f[n])
    BY <1>2
  <2> QED BY <2>1, <2>2
<1>7. ASSUME NEW i \in 1..(n - 1)
      PROVE  f[i + 1] = f[i] + 1
  <2>1. i \in 1..n /\ i + 1 \in 1..n
    OBVIOUS
  <2>2. f[i] \in S /\ f[i + 1] \in S /\ f[i] < f[i + 1]
    BY <1>2, <2>1
  <2>3. f[i] + 1 \in S
    BY <2>2
  <2>4. PICK j \in 1..n : f[j] = f[i] + 1
    BY <1>4, <2>3
  <2>5. (j < i => f[j] < f[i]) /\ (i + 1 < j => f[i + 1] < f[j])
    BY <1>2, <2>1
  <2>6. ~(j < i) /\ j # i
    BY <2>2, <2>4, <2>5
  <2>7. CASE i + 1 < j
    BY <2>2, <2>4, <2>5, <2>7
  <2>8. CASE j = i + 1
    BY <2>4, <2>8
  <2> QED BY <2>1, <2>6, <2>7, <2>8
<1>8. Len(f) = n
  <2>1. f \in Seq(S) /\ DOMAIN f = 1..n
    <3>1. n \in Nat
      OBVIOUS
    <3> QED BY <1>2, <3>1, SeqDef
  <2>2. Len(f) \in Nat /\ DOMAIN f = 1..Len(f)
    BY <2>1, LenProperties
  <2> QED BY <2>1, <2>2
<1> QED BY <1>2, <1>5, <1>6, <1>7, <1>8

\* New messages join those kept.
LEMMA JoinLog ==
    ASSUME NEW s, NEW t, LogOK(s), LogOK(t), t # <<>>,
           s # <<>> => Follows(s[Len(s)], t[1])
    PROVE  /\ LogOK(s \o t) /\ s \o t # <<>>
           /\ (s \o t)[Len(s \o t)] = t[Len(t)]
<1>1. /\ s \in Seq(Rows) /\ t \in Seq(Rows)
      /\ Len(s) \in Nat /\ Len(t) \in Nat \ {0}
      /\ s # <<>> <=> Len(s) # 0
  BY EmptySeq, LenProperties DEF LogOK
<1>2. /\ s \o t \in Seq(Rows) /\ Len(s \o t) = Len(s) + Len(t)
      /\ \A i \in 1..(Len(s) + Len(t)) :
            (s \o t)[i] = IF i <= Len(s) THEN s[i] ELSE t[i - Len(s)]
  BY <1>1, ConcatProperties
<1>3. ASSUME NEW i \in 1..(Len(s \o t) - 1)
      PROVE  Follows((s \o t)[i], (s \o t)[i + 1])
  <2>1. i \in 1..(Len(s) + Len(t)) /\ i + 1 \in 1..(Len(s) + Len(t))
    BY <1>1, <1>2
  <2>2. CASE i < Len(s)
    <3>1. (s \o t)[i] = s[i] /\ (s \o t)[i + 1] = s[i + 1] /\ i \in 1..(Len(s) - 1)
      BY <1>1, <1>2, <2>1, <2>2
    <3> QED BY <3>1 DEF LogOK
  <2>3. CASE i = Len(s)
    <3>1. (s \o t)[i] = s[i] /\ (s \o t)[i + 1] = t[1] /\ Len(s) # 0
      BY <1>1, <1>2, <2>1, <2>3
    <3> QED BY <1>1, <2>3, <3>1
  <2>4. CASE i > Len(s)
    <3>1. /\ (s \o t)[i] = t[i - Len(s)] /\ (s \o t)[i + 1] = t[(i - Len(s)) + 1]
          /\ i - Len(s) \in 1..(Len(t) - 1)
      BY <1>1, <1>2, <2>1, <2>4
    <3> QED BY <3>1 DEF LogOK
  <2> QED BY <1>1, <2>2, <2>3, <2>4
<1>4. (s \o t)[Len(s \o t)] = t[Len(t)]
  BY <1>1, <1>2
<1>5. s \o t # <<>>
  BY <1>1, <1>2, EmptySeq
<1> QED BY <1>2, <1>3, <1>4, <1>5 DEF LogOK

\* The limit takes messages from the front.
LEMMA TrimLog ==
    ASSUME NEW s, LogOK(s), s # <<>>
    PROVE  /\ LogOK(Trimmed(s)) /\ Len(Trimmed(s)) <= LogMax /\ Trimmed(s) # <<>>
           /\ Trimmed(s)[Len(Trimmed(s))] = s[Len(s)]
<1>1. /\ s \in Seq(Rows) /\ Len(s) \in Nat \ {0} /\ LogMax \in Nat \ {0}
      /\ \A i \in 1..Len(s) : s[i] \in Rows
  BY EmptySeq, LenProperties, ElementOfSeq, PollerAssumption DEF LogOK
<1>2. CASE Len(s) <= LogMax
  BY <1>2 DEF Trimmed
<1>3. CASE Len(s) > LogMax
  <2> DEFINE m == Len(s) - LogMax + 1
             u == SubSeq(s, m, Len(s))
  <2>1. /\ m \in Int /\ m \in 1..Len(s) /\ Len(s) - m + 1 = LogMax /\ m <= Len(s)
        /\ \A i \in m..Len(s) : i \in 1..Len(s)
    BY <1>1, <1>3
  <2>2. Trimmed(s) = u
    BY <1>1, <1>3 DEF Trimmed
  <2> HIDE DEF m
  <2>3. /\ u \in Seq(Rows) /\ Len(u) = LogMax
        /\ \A i \in 1..LogMax : u[i] = s[m + i - 1]
    BY <1>1, <2>1, SubSeqProperties
  <2> HIDE DEF u
  <2>4. ASSUME NEW i \in 1..(LogMax - 1)
        PROVE  Follows(u[i], u[i + 1])
    <3>1. u[i] = s[m + i - 1] /\ u[i + 1] = s[(m + i - 1) + 1]
      <4>1. i \in 1..LogMax /\ i + 1 \in 1..LogMax /\ m + (i + 1) - 1 = (m + i - 1) + 1
        BY <1>1, <2>1
      <4> QED BY <2>3, <4>1
    <3>2. m + i - 1 \in 1..(Len(s) - 1)
      BY <1>1, <2>1
    <3> QED BY <3>1, <3>2 DEF LogOK
  <2>5. u[LogMax] = s[Len(s)]
    <3>1. LogMax \in 1..LogMax /\ m + LogMax - 1 = Len(s)
      BY <1>1, <2>1
    <3> QED BY <2>3, <3>1
  <2>6. u # <<>>
    BY <1>1, <2>3, EmptySeq
  <2> QED BY <1>1, <2>2, <2>3, <2>4, <2>5, <2>6 DEF LogOK
<1> QED BY <1>1, <1>2, <1>3

messageVars == <<client, session, boot, logged, lastSeqno, msgLog>>

\* get_messages keeps the messages in order: the client numbers them from
\* lastSeqno on, or has started anew and numbers a later run.
LEMMA GetMessagesKeeps ==
    ASSUME MessageInv, NEW p \in Pollers, GetMessages(p)
    PROVE  MessageInv'
<1>1. /\ boot \in Nat \ {0} /\ boot \in 1..(MaxSessions + 1)
      /\ logged \in 0..MaxLogged /\ MaxLogged \in Nat
      /\ lastSeqno \in [Pollers -> 0..MaxLogged] /\ msgLog \in [Pollers -> Seq(Rows)]
      /\ UNCHANGED <<client, session, boot, logged>>
  <2>1. /\ boot \in Nat \ {0} /\ session \in 1..MaxSessions /\ boot <= session + 1
        /\ MaxSessions \in Nat
    BY PollerAssumption DEF MessageInv, BootInv
  <2>2. boot \in 1..(MaxSessions + 1)
    BY <2>1
  <2> QED BY <2>2, PollerAssumption DEF MessageInv, BootInv, LogInv, GetMessages, clientVars
<1>2. BootInv'
  BY <1>1 DEF MessageInv, BootInv
<1>3. CASE UNCHANGED <<lastSeqno, msgLog>>
  BY <1>1, <1>2, <1>3 DEF MessageInv, LogInv
<1>4. CASE Newer(p) # {}
  <2> DEFINE a == lastSeqno[p]
             s == msgLog[p]
  <2>1. /\ a \in Nat /\ logged \in Nat /\ a < logged
        /\ Newer(p) = (a + 1)..logged
    <3>1. a \in 0..MaxLogged
      BY <1>1
    <3>2. Newer(p) = {i \in 1..logged : i > a}
      BY DEF Newer
    <3> HIDE DEF a
    <3>3. {i \in 1..logged : i > a} = (a + 1)..logged
      BY <1>1, <3>1
    <3> QED BY <1>1, <1>4, <3>1, <3>2, <3>3
  <2>2. CASE UNCHANGED <<lastSeqno, msgLog>>
    BY <1>3, <2>2
  <2>3. ASSUME NEW new \in Ordered(Newer(p)),
               lastSeqno' = [lastSeqno EXCEPT ![p] = new[Len(new)]],
               msgLog' = [msgLog EXCEPT
                            ![p] = Trimmed(@ \o [i \in DOMAIN new |-> <<boot, new[i]>>])]
        PROVE  MessageInv'
    <3> DEFINE t == [i \in DOMAIN new |-> <<boot, new[i]>>]
               n == logged - a
    <3>1. /\ n \in Nat \ {0} /\ new \in [1..n -> (a + 1)..logged] /\ Len(new) = n
          /\ new[1] = a + 1 /\ new[n] = logged
          /\ \A i \in 1..(n - 1) : new[i + 1] = new[i] + 1
      <4> HIDE DEF a
      <4>1. new \in Ordered((a + 1)..logged)
        BY <2>1
      <4>2. n \in Nat \ {0}
        BY <2>1
      <4>3. /\ new \in [1..(logged - a) -> (a + 1)..logged] /\ Len(new) = logged - a
            /\ new[1] = a + 1 /\ new[logged - a] = logged
            /\ \A i \in 1..(logged - a - 1) : new[i + 1] = new[i] + 1
        BY ONLY <2>1, <4>1, OrderedIs
      <4> QED BY ONLY <4>2, <4>3
    <3> HIDE DEF n
    <3>2. /\ t \in [1..n -> Rows] /\ t \in Seq(Rows) /\ Len(t) = n
      <4>1. \A i \in 1..n : <<boot, new[i]>> \in Rows
        <5> TAKE i \in 1..n
        <5>1. new[i] \in (a + 1)..logged
          BY <3>1
        <5>2. new[i] \in 1..MaxLogged
          BY <1>1, <2>1, <5>1
        <5> QED BY <1>1, <5>2 DEF Rows
      <4>2. t \in [1..n -> Rows]
        BY <3>1, <4>1
      <4> HIDE DEF t
      <4>3. t \in Seq(Rows) /\ DOMAIN t = 1..n
        BY <3>1, <4>2, SeqDef
      <4>4. Len(t) \in Nat /\ DOMAIN t = 1..Len(t)
        BY <4>3, LenProperties
      <4> QED BY <3>1, <4>2, <4>3, <4>4
    <3>3. \A i \in 1..n : t[i] = <<boot, new[i]>>
      BY <3>1
    <3>4. LogOK(t)
      <4>1. ASSUME NEW i \in 1..(n - 1)
            PROVE  Follows(t[i], t[i + 1])
        <5>1. i \in 1..n /\ i + 1 \in 1..n
          BY <3>1
        <5> QED BY <3>1, <3>3, <5>1 DEF Follows
      <4> QED BY <3>2, <4>1 DEF LogOK
    <3>5. t # <<>> /\ t[1] = <<boot, a + 1>> /\ t[Len(t)] = <<boot, logged>>
      BY <3>1, <3>2, <3>3, EmptySeq
    <3> HIDE DEF t
    <3>6. /\ LogOK(s)
          /\ s # <<>> => /\ s[Len(s)][2] = a /\ s[Len(s)][1] <= boot
                         /\ s[Len(s)] \in Rows
      <4>1. s # <<>> => Len(s) \in 1..Len(s)
        BY EmptySeq, LenProperties DEF MessageInv, LogInv, LogOK
      <4> QED BY <4>1, ElementOfSeq DEF MessageInv, LogInv, LogOK
    <3>7. s # <<>> => Follows(s[Len(s)], t[1])
      <4> SUFFICES ASSUME s # <<>> PROVE Follows(s[Len(s)], t[1])
        OBVIOUS
      <4>1. PICK b \in 1..(MaxSessions + 1), m \in 1..MaxLogged : s[Len(s)] = <<b, m>>
        BY <3>6 DEF Rows
      <4>2. m = a /\ b <= boot
        BY <3>6, <4>1
      <4>3. t[1][1] = boot /\ t[1] = <<boot, a + 1>>
        BY <3>5
      <4>4. s[Len(s)][1] = b /\ s[Len(s)][2] = a
        BY <4>1, <4>2
      <4>5. b \in Nat /\ (b < boot \/ b = boot)
        BY <1>1, <4>2, PollerAssumption
      <4> QED BY <4>3, <4>4, <4>5, <1>1 DEF Follows
    <3> DEFINE u == Trimmed(s \o t)
    <3>8. LogOK(u) /\ Len(u) <= LogMax /\ u # <<>> /\ u[Len(u)] = <<boot, logged>>
      <4>1. LogOK(s \o t) /\ s \o t # <<>> /\ (s \o t)[Len(s \o t)] = t[Len(t)]
        BY <3>4, <3>5, <3>6, <3>7, JoinLog
      <4> QED BY <3>5, <4>1, TrimLog
    <3>9. msgLog' = [msgLog EXCEPT ![p] = u] /\ lastSeqno' = [lastSeqno EXCEPT ![p] = logged]
      BY <2>3, <3>1 DEF t
    <3> HIDE DEF u, s, a
    <3>10. lastSeqno' \in [Pollers -> 0..MaxLogged] /\ msgLog' \in [Pollers -> Seq(Rows)]
      BY <1>1, <3>8, <3>9 DEF LogOK
    <3>11. ASSUME NEW q \in Pollers
           PROVE  /\ LogOK(msgLog'[q]) /\ Len(msgLog'[q]) <= LogMax
                  /\ msgLog'[q] # <<>> =>
                        /\ msgLog'[q][Len(msgLog'[q])][2] = lastSeqno'[q]
                        /\ msgLog'[q][Len(msgLog'[q])][1] <= boot'
      <4>1. CASE q = p
        <5>1. msgLog'[q] = u /\ lastSeqno'[q] = logged
          BY <1>1, <3>9, <4>1
        <5>2. u[Len(u)][2] = logged /\ u[Len(u)][1] = boot
          BY <3>8
        <5> QED BY <1>1, <3>8, <5>1, <5>2
      <4>2. CASE q # p
        <5>1. msgLog'[q] = msgLog[q] /\ lastSeqno'[q] = lastSeqno[q]
          BY <1>1, <3>9, <4>2
        <5> QED BY <1>1, <5>1 DEF MessageInv, LogInv
      <4> QED BY <4>1, <4>2
    <3>12. LogInv'
      BY <3>10, <3>11 DEF LogInv, LogOK
    <3> QED BY <1>2, <3>12 DEF MessageInv
  <2> QED BY <1>3, <2>3 DEF GetMessages
<1> QED BY <1>3, <1>4 DEF GetMessages

\* The client's own steps take its numbers back only where a later run begins.
LEMMA ClientKeepsMessages ==
    ASSUME MessageInv, Client
    PROVE  MessageInv'
<1>1. /\ session \in Nat \ {0} /\ boot \in Nat \ {0} /\ boot' \in Nat /\ boot <= boot'
      /\ UNCHANGED <<lastSeqno, msgLog>>
  BY PollerAssumption DEF MessageInv, BootInv, Client, GoDown, ComeUp, GoDeaf,
     LogMessage, roundVars
<1>2. BootInv'
  <2>1. CASE GoDown
    BY <2>1, PollerAssumption DEF MessageInv, BootInv, GoDown
  <2>2. ASSUME NEW anew \in BOOLEAN, ComeUp(anew)
        PROVE  BootInv'
    BY <2>2, PollerAssumption DEF MessageInv, BootInv, ComeUp
  <2>3. CASE GoDeaf
    BY <2>3 DEF MessageInv, BootInv, GoDeaf
  <2>4. CASE LogMessage
    BY <2>4, PollerAssumption DEF MessageInv, BootInv, LogMessage
  <2> QED BY <2>1, <2>2, <2>3, <2>4 DEF Client
<1>3. LogInv'
  <2>1. ASSUME NEW p \in Pollers, msgLog[p] # <<>>
        PROVE  msgLog[p][Len(msgLog[p])][1] <= boot'
    <3>1. Len(msgLog[p]) \in 1..Len(msgLog[p]) /\ msgLog[p] \in Seq(Rows)
      BY <2>1, EmptySeq, LenProperties DEF MessageInv, LogInv, LogOK
    <3>2. msgLog[p][Len(msgLog[p])] \in Rows
      BY <3>1, ElementOfSeq
    <3>3. msgLog[p][Len(msgLog[p])][1] \in Nat
      BY <3>2, PollerAssumption DEF Rows
    <3>4. msgLog[p][Len(msgLog[p])][1] <= boot
      BY <2>1 DEF MessageInv, LogInv
    <3> QED BY <1>1, <3>3, <3>4
  <2> QED BY <1>1, <2>1 DEF MessageInv, LogInv, LogOK
<1> QED BY <1>2, <1>3 DEF MessageInv

\* No step leaves a hole.
LEMMA StepKeepsMessages ==
    ASSUME MessageInv, [Next]_vars
    PROVE  MessageInv'
<1>1. CASE UNCHANGED messageVars
  BY <1>1 DEF messageVars, MessageInv, BootInv, LogInv, LogOK
<1>2. CASE Client
  BY <1>2, ClientKeepsMessages
<1>3. CASE Post \/ (\E polled \in BOOLEAN : Restart(polled)) \/ HandleSnapshot
           \/ UNCHANGED vars
  <2>1. UNCHANGED messageVars
    BY <1>3 DEF Post, Restart, HandleSnapshot, vars, messageVars, clientVars, roundVars
  <2> QED BY <1>1, <2>1
<1>4. ASSUME NEW p \in Pollers, Round(p)
      PROVE  MessageInv'
  <2>1. CASE GetMessages(p)
    BY <2>1, GetMessagesKeeps
  <2>2. CASE ~GetMessages(p)
    <3>1. UNCHANGED messageVars
      BY <1>4, <2>2 DEF Round, Connect, PollDown, Take, Run, GetState, GetResults,
         EndRound, Deliver, messageVars, clientVars, roundVars
    <3> QED BY <1>1, <3>1
  <2> QED BY <2>1, <2>2
<1> QED BY <1>2, <1>3, <1>4 DEF Next

\* A poller starts with none.
LEMMA InitMessages == Init => MessageInv
<1> SUFFICES ASSUME Init PROVE MessageInv
  OBVIOUS
<1>1. <<>> \in Seq(Rows) /\ Len(<<>>) = 0
  BY EmptySeq
<1>2. LogOK(<<>>) /\ Len(<<>>) <= LogMax
  BY <1>1, PollerAssumption DEF LogOK
<1>3. LogInv
  <2>1. lastSeqno = [p \in Pollers |-> 0] /\ msgLog = [p \in Pollers |-> <<>>]
    BY DEF Init
  <2>2. 0 \in 0..MaxLogged
    BY PollerAssumption
  <2> QED BY <1>2, <2>1, <2>2 DEF LogInv
<1>4. BootInv
  BY PollerAssumption DEF Init, BootInv
<1> QED BY <1>3, <1>4 DEF MessageInv

\* The messages a poller keeps have no hole and no repetition within a run of
\* the client, whatever fails and however often it restarts.
THEOREM MessagesConsecutive == Spec => []NoMessageMissed
<1>1. MessageInv => NoMessageMissed
  BY DEF MessageInv, LogInv, LogOK, Follows, NoMessageMissed
<1> QED BY <1>1, InitMessages, StepKeepsMessages, PTL DEF Spec

----------------------------------------------------------------------------
(* Types.                                                                  *)

RestTypes ==
    /\ stop \subseteq Pollers
    /\ shown \in {"nothing", "connected", "down"}
    /\ posted \in Seq({"connected", "down"})
    /\ connection \in [Pollers -> 0..MaxSessions]
    /\ stateAge \in [Pollers -> 1..StateEvery]
    /\ view \in [Pollers -> Nat]

\* Each step changes a few of them at one poller.
LEMMA StepKeepsRest ==
    ASSUME CommandInv, MessageInv, RestTypes, [Next]_vars
    PROVE  RestTypes'
<1>1. /\ session \in 0..MaxSessions /\ 0 \in 0..MaxSessions
      /\ StateEvery \in 1..StateEvery /\ 1 \in 1..StateEvery
      /\ current # NoPoller => current \in Pollers
      /\ Len(ops) \in Nat
  BY PollerAssumption, LenProperties DEF CommandInv, CommandTypes, MessageInv,
     BootInv, NoPoller
<1>2. CASE UNCHANGED <<stop, shown, posted, connection, stateAge, view>>
  BY <1>2 DEF RestTypes
<1>3. CASE Client \/ Post \/ UNCHANGED vars
  <2>1. UNCHANGED <<stop, shown, posted, connection, stateAge, view>>
    BY <1>3 DEF Client, GoDown, ComeUp, GoDeaf, LogMessage, Post, vars, frameVars,
       roundVars
  <2> QED BY <1>2, <2>1
<1>4. ASSUME NEW polled \in BOOLEAN, Restart(polled)
      PROVE  RestTypes'
  BY <1>1, <1>4 DEF RestTypes, Restart, roundVars
<1>5. CASE HandleSnapshot
  <2>1. shown' \in {"connected", "down"} /\ posted' \in Seq({"connected", "down"})
    BY <1>5, HeadTailProperties DEF RestTypes, HandleSnapshot
  <2> QED BY <1>5, <2>1 DEF RestTypes, HandleSnapshot, roundVars
<1>6. ASSUME NEW p \in Pollers, Round(p)
      PROVE  RestTypes'
  <2>1. CASE Connect(p)
    BY <1>1, <2>1 DEF RestTypes, Connect, frameVars
  <2>2. CASE PollDown(p)
    BY <1>2, <2>2 DEF PollDown, frameVars, roundVars
  <2>3. CASE Take(p) \/ GetMessages(p)
    BY <2>3, <1>2 DEF Take, GetMessages, frameVars, roundVars
  <2>4. CASE Run(p)
    BY <1>1, <2>4 DEF RestTypes, Run, AgeAfterCommands, frameVars
  <2>5. CASE GetState(p)
    <3>1. /\ stateAge' = stateAge \/ \E a \in 1..StateEvery :
                                        stateAge' = [stateAge EXCEPT ![p] = a]
          /\ view' = view \/ view' = [view EXCEPT ![p] = Len(ops)]
          /\ connection' = connection \/ connection' = [connection EXCEPT ![p] = 0]
          /\ UNCHANGED <<stop, shown, posted>>
      <4>1. stateAge[p] \in 1..StateEvery /\ StateEvery \in Nat
        BY PollerAssumption DEF RestTypes
      <4>2. stateAge[p] < StateEvery => stateAge[p] + 1 \in 1..StateEvery
        BY <4>1
      <4>3. view \in [Pollers -> Nat] /\ stateAge \in [Pollers -> 1..StateEvery]
        BY DEF RestTypes
      <4>4. CASE stateAge[p] >= StateEvery
        BY <1>1, <2>5, <4>3, <4>4 DEF GetState, Fail, AfterFailure, frameVars
      <4>5. CASE ~(stateAge[p] >= StateEvery)
        BY <1>1, <2>5, <4>1, <4>2, <4>3, <4>5 DEF GetState, frameVars
      <4> QED BY <4>4, <4>5
    <3> QED BY <1>1, <3>1 DEF RestTypes
  <2>6. CASE GetResults(p)
    BY <1>1, <2>6 DEF RestTypes, GetResults, Fail, AfterFailure, frameVars, roundVars
  <2>7. CASE EndRound(p)
    BY <1>2, <2>7 DEF EndRound, frameVars, roundVars
  <2>8. CASE Deliver(p)
    <3>1. \A c \in {"connected", "down"} :
             Append(posted, c) \in Seq({"connected", "down"})
      BY AppendProperties DEF RestTypes
    <3> QED BY <2>8, <3>1 DEF RestTypes, Deliver, frameVars, roundVars
  <2> QED
    BY <1>6, <2>1, <2>2, <2>3, <2>4, <2>5, <2>6, <2>7, <2>8 DEF Round
<1> QED BY <1>3, <1>4, <1>5, <1>6 DEF Next

\* Types hold throughout: the boots stay within the sessions, the messages kept
\* within their limit and the state's age within that of a refresh.
THEOREM PollerTypesHold == Spec => []TypeOK
<1>1. Init => RestTypes
  <2> SUFFICES ASSUME Init PROVE RestTypes
    OBVIOUS
  <2>1. posted \in Seq({"connected", "down"})
    BY EmptySeq DEF Init
  <2> QED BY <2>1, PollerAssumption DEF Init, RestTypes
<1>2. Init => CommandInv /\ MessageInv
  BY InitImplements, InitMessages
<1>3. CommandInv /\ MessageInv /\ RestTypes /\ [Next]_vars
         => (CommandInv /\ MessageInv /\ RestTypes)'
  BY StepImplements, StepKeepsMessages, StepKeepsRest
<1>4. CommandInv /\ MessageInv /\ RestTypes => TypeOK
  <2> SUFFICES ASSUME CommandInv, MessageInv, RestTypes PROVE TypeOK
    OBVIOUS
  <2>1. boot \in 1..(MaxSessions + 1)
    BY PollerAssumption DEF MessageInv, BootInv
  <2> QED BY <2>1 DEF TypeOK, CommandInv, CommandTypes, MessageInv, BootInv,
             LogInv, RestTypes, Rows, ControlState
<1> QED BY <1>1, <1>2, <1>3, <1>4, PTL DEF Spec

----------------------------------------------------------------------------
(* What CommandChannel is known to guarantee holds here.                   *)

Abstract == INSTANCE ChannelProofs WITH
    MaxPollers <- MaxStarts,
    ended <- {p \in Pollers : pc[p] = "over"},
    queue <- [p \in Pollers |-> pending[p] \o m_commands[p]],
    executed <- ops

\* A client executes each poller's commands in the order of Post and none of
\* them twice, whatever became of its connections.
THEOREM CommandsInOrder == Spec => [](Abstract!InOrder /\ Abstract!AtMostOnce)
<1>1. Abstract!ChannelAssumption
  BY PollerAssumption DEF Abstract!ChannelAssumption
<1>2. Abstract!Spec => [](Abstract!InOrder /\ Abstract!AtMostOnce)
  BY <1>1, Abstract!AlwaysInOrder
<1>3. ImplementsChannel => Abstract!Spec
  <2>1. Channel!Init => Abstract!Init
    BY DEF Channel!Init, Abstract!Init, Channel!Pollers, Abstract!Pollers
  <2>2. Channel!Next => Abstract!Next
    BY DEF Channel!Next, Channel!Send, Channel!Execute, Channel!Restart,
           Channel!End, Channel!Pollers, Channel!NoPoller,
           Abstract!Next, Abstract!Send, Abstract!Execute, Abstract!Restart,
           Abstract!End, Abstract!Pollers, Abstract!NoPoller
  <2>3. UNCHANGED Channel!channelVars => UNCHANGED Abstract!channelVars
    BY DEF Channel!channelVars, Abstract!channelVars
  <2> QED
    BY <2>1, <2>2, <2>3, PTL DEF ImplementsChannel, Channel!Spec, Abstract!Spec
<1> QED
  BY <1>2, <1>3, PollerImplementsChannel
=============================================================================
