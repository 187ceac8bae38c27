--------------------------- MODULE ChannelProofs ---------------------------
(* The order of commands in CommandChannel, for any number of pollers and   *)
(* commands: ChannelInv is inductive.                                       *)
EXTENDS CommandChannel, SequenceTheorems, TLAPS

\* Only one queue changes, by a command at its end, and nothing is executed.
LEMMA SendKeepsInv ==
    ASSUME ChannelInv, NEW p \in Pollers, Send(p)
    PROVE  ChannelInv'
<1>1. /\ sent \in Nat /\ sent' = sent + 1 /\ sent' \in Commands
      /\ queue \in [Pollers -> Seq(Commands)]
      /\ queue' = [queue EXCEPT ![p] = Append(@, sent + 1)]
      /\ UNCHANGED <<current, started, stop, ended, executed>>
  BY ChannelAssumption DEF ChannelInv, ChannelTypeOK, Send, Commands
<1>2. /\ queue'[p] \in Seq(Commands)
      /\ Len(queue'[p]) = Len(queue[p]) + 1
      /\ \A i \in 1..Len(queue'[p]) :
            queue'[p][i] = IF i <= Len(queue[p]) THEN queue[p][i] ELSE sent + 1
  BY <1>1, AppendProperties
<1>3. \A q \in Pollers \ {p} : queue'[q] = queue[q]
  BY <1>1
<1>4. \A q \in Pollers :
         /\ Len(queue[q]) \in Nat
         /\ \A i \in 1..Len(queue[q]) : queue[q][i] \in Nat /\ queue[q][i] <= sent
  <2> TAKE q \in Pollers
  <2>1. queue[q] \in Seq(Commands)
    BY <1>1
  <2>2. ASSUME NEW i \in 1..Len(queue[q])
        PROVE  queue[q][i] \in Nat /\ queue[q][i] <= sent
    <3>1. queue[q][i] \in Commands
      BY <2>1, ElementOfSeq
    <3> QED
      BY <3>1, ChannelAssumption DEF ChannelInv, OnlySent, Commands
  <2> QED
    BY <2>1, <2>2, LenProperties
<1>5. ChannelTypeOK'
  BY <1>1, <1>2, ChannelAssumption DEF ChannelInv, ChannelTypeOK, Commands
<1>6. \A i \in 1..Len(executed) : executed[i][2] \in Nat /\ executed[i][2] <= sent
  <2>1. executed \in Seq(Pollers \X Commands)
    BY DEF ChannelInv, ChannelTypeOK
  <2> QED
    BY <2>1, ElementOfSeq DEF ChannelInv, OnlySent, Commands
<1>7. OnlySent'
  <2>1. ASSUME NEW q \in Pollers, NEW i \in 1..Len(queue'[q])
        PROVE  queue'[q][i] <= sent + 1
    BY <1>1, <1>2, <1>3, <1>4, <2>1
  <2> QED
    BY <1>1, <1>6, <2>1 DEF OnlySent
<1>8. QueuesInOrder'
  <2> SUFFICES ASSUME NEW q \in Pollers,
                      NEW i \in 1..Len(queue'[q]), NEW j \in 1..Len(queue'[q]),
                      i < j
               PROVE  queue'[q][i] < queue'[q][j]
    BY DEF QueuesInOrder
  <2>1. CASE q = p
    <3>1. /\ Len(queue[p]) \in Nat /\ i \in Nat /\ j \in Nat
          /\ i \in 1..Len(queue[p]) /\ queue'[p][i] = queue[p][i]
          /\ queue[p][i] \in Nat /\ queue[p][i] <= sent
      BY <1>2, <1>4, <2>1
    <3>2. CASE j <= Len(queue[p])
      <4>1. j \in 1..Len(queue[p]) /\ queue'[p][j] = queue[p][j]
        BY <1>2, <2>1, <3>1, <3>2
      <4> QED
        BY <2>1, <3>1, <4>1 DEF ChannelInv, QueuesInOrder
    <3>3. CASE ~(j <= Len(queue[p]))
      BY <1>1, <1>2, <2>1, <3>1, <3>3
    <3> QED BY <3>2, <3>3
  <2>2. CASE q # p
    BY <1>3, <2>2 DEF ChannelInv, QueuesInOrder
  <2> QED BY <2>1, <2>2
<1>9. QueuesDisjoint'
  <2>1. ASSUME NEW q \in Pollers, q # p,
               NEW i \in 1..Len(queue'[p]), NEW j \in 1..Len(queue'[q])
        PROVE  queue'[p][i] # queue'[q][j]
    <3>1. queue'[q] = queue[q] /\ queue[q][j] \in Nat /\ queue[q][j] <= sent
      BY <1>3, <1>4, <2>1
    <3>2. CASE i <= Len(queue[p])
      BY <1>2, <1>4, <2>1, <3>1, <3>2 DEF ChannelInv, QueuesDisjoint
    <3>3. CASE ~(i <= Len(queue[p]))
      BY <1>1, <1>2, <3>1, <3>3
    <3> QED BY <3>2, <3>3
  <2> QED
    BY <1>3, <2>1 DEF ChannelInv, QueuesDisjoint
<1>10. ExecutedFirst'
  <2> SUFFICES ASSUME NEW i \in 1..Len(executed), NEW q \in Pollers,
                      NEW j \in 1..Len(queue'[q])
               PROVE  /\ executed[i][2] # queue'[q][j]
                      /\ executed[i][1] = q => executed[i][2] < queue'[q][j]
    BY <1>1 DEF ExecutedFirst
  <2>1. CASE q = p /\ ~(j <= Len(queue[p]))
    BY <1>1, <1>2, <1>6, <2>1
  <2>2. CASE ~(q = p /\ ~(j <= Len(queue[p])))
    <3>1. j \in 1..Len(queue[q]) /\ queue'[q][j] = queue[q][j]
      BY <1>2, <1>3, <1>4, <2>2
    <3> QED
      BY <3>1 DEF ChannelInv, ExecutedFirst
  <2> QED BY <2>1, <2>2
<1> QED
  BY <1>1, <1>5, <1>7, <1>8, <1>9, <1>10 DEF ChannelInv, InOrder, AtMostOnce

\* The head of one queue leaves it, and may come at the end of executed.
LEMMA ExecuteKeepsInv ==
    ASSUME ChannelInv, NEW p \in Pollers, NEW effective \in BOOLEAN,
           Execute(p, effective)
    PROVE  ChannelInv'
<1> DEFINE c == Head(queue[p])
<1>1. /\ queue \in [Pollers -> Seq(Commands)] /\ queue[p] # <<>>
      /\ executed \in Seq(Pollers \X Commands)
      /\ queue' = [queue EXCEPT ![p] = Tail(@)]
      /\ executed' = IF effective THEN Append(executed, <<p, c>>) ELSE executed
      /\ UNCHANGED <<current, started, stop, ended, sent>>
  BY DEF ChannelInv, ChannelTypeOK, Execute
<1>2. /\ Len(queue[p]) \in Nat \ {0} /\ c = queue[p][1] /\ c \in Commands
      /\ queue'[p] \in Seq(Commands)
      /\ Len(queue'[p]) = Len(queue[p]) - 1
      /\ \A i \in 1..Len(queue'[p]) : queue'[p][i] = queue[p][i + 1]
  BY <1>1, EmptySeq, HeadTailProperties
<1>3. \A q \in Pollers \ {p} : queue'[q] = queue[q]
  BY <1>1
<1>4. \A q \in Pollers : /\ Len(queue[q]) \in Nat
                         /\ \A i \in 1..Len(queue[q]) : queue[q][i] \in Nat
  <2> TAKE q \in Pollers
  <2>1. queue[q] \in Seq(Commands)
    BY <1>1
  <2>2. ASSUME NEW i \in 1..Len(queue[q])
        PROVE  queue[q][i] \in Nat
    <3>1. queue[q][i] \in Commands
      BY <2>1, ElementOfSeq
    <3> QED
      BY <3>1, ChannelAssumption DEF Commands
  <2> QED
    BY <2>1, <2>2, LenProperties
\* Where a command still queued was before.
<1> DEFINE was(q, j) == IF q = p THEN j + 1 ELSE j
<1>W1. ASSUME NEW q \in Pollers, NEW j \in 1..Len(queue'[q])
      PROVE  /\ was(q, j) \in 1..Len(queue[q])
             /\ queue'[q][j] = queue[q][was(q, j)]
             /\ j \in Nat /\ (q = p => was(q, j) > 1)
  <2>1. CASE q = p
    BY <1>2, <2>1
  <2>2. CASE q # p
    BY <1>3, <1>4, <2>2
  <2> QED BY <2>1, <2>2
<1>W2. ASSUME NEW q \in Pollers, NEW i \in Nat, NEW j \in Nat
      PROVE  i < j => was(q, i) < was(q, j)
  OBVIOUS
<1> HIDE DEF was, c
<1>5. /\ Len(executed) \in Nat /\ DOMAIN executed = 1..Len(executed)
      /\ \A i \in 1..Len(executed) : executed[i][2] \in Nat
  BY <1>1, LenProperties, ElementOfSeq DEF Commands
<1>6. /\ executed' \in Seq(Pollers \X Commands)
      /\ DOMAIN executed' = 1..Len(executed')
      /\ Len(executed') = IF effective THEN Len(executed) + 1 ELSE Len(executed)
      /\ \A i \in 1..Len(executed') :
            executed'[i] = IF i <= Len(executed) THEN executed[i] ELSE <<p, c>>
  <2>1. CASE effective
    BY <1>1, <1>2, <1>5, <2>1, AppendProperties, LenProperties
  <2>2. CASE ~effective
    BY <1>1, <1>5, <2>2
  <2> QED BY <2>1, <2>2
<1>7. ChannelTypeOK'
  BY <1>1, <1>2, <1>6 DEF ChannelInv, ChannelTypeOK
<1>8. QueuesInOrder'
  BY <1>W1, <1>W2 DEF ChannelInv, QueuesInOrder
<1>9. QueuesDisjoint'
  BY <1>W1 DEF ChannelInv, QueuesDisjoint
<1>10. OnlySent'
  <2>1. c <= sent
    BY <1>2 DEF ChannelInv, OnlySent
  <2>2. \A i \in 1..Len(executed') : executed'[i][2] <= sent
    BY <1>5, <1>6, <2>1 DEF ChannelInv, OnlySent
  <2> QED
    BY <1>1, <1>W1, <2>2 DEF ChannelInv, OnlySent
<1>11. ExecutedFirst'
  <2> SUFFICES ASSUME NEW i \in 1..Len(executed'), NEW q \in Pollers,
                      NEW j \in 1..Len(queue'[q])
               PROVE  /\ executed'[i][2] # queue'[q][j]
                      /\ executed'[i][1] = q => executed'[i][2] < queue'[q][j]
    BY DEF ExecutedFirst
  <2>1. /\ was(q, j) \in 1..Len(queue[q])
        /\ queue'[q][j] = queue[q][was(q, j)]
        /\ q = p => was(q, j) > 1
    BY <1>W1
  <2>2. CASE i <= Len(executed)
    BY <1>5, <1>6, <2>1, <2>2 DEF ChannelInv, ExecutedFirst
  <2>3. CASE ~(i <= Len(executed))
    <3>1. executed'[i] = <<p, c>>
      BY <1>6, <2>3
    <3>2. CASE q = p
      <4>1. queue[p][1] < queue[p][was(q, j)]
        BY <1>2, <2>1, <3>2 DEF ChannelInv, QueuesInOrder
      <4> QED
        BY <1>2, <1>4, <2>1, <3>1, <3>2, <4>1
    <3>3. CASE q # p
      <4>1. queue[p][1] # queue[q][was(q, j)]
        BY <1>2, <2>1, <3>3 DEF ChannelInv, QueuesDisjoint
      <4> QED
        BY <1>2, <2>1, <3>1, <3>3, <4>1
    <3> QED BY <3>2, <3>3
  <2> QED BY <2>2, <2>3
<1>12. \A i \in 1..Len(executed) :
          /\ executed[i][2] # c
          /\ executed[i][1] = p => executed[i][2] < c
  BY <1>2 DEF ChannelInv, ExecutedFirst
<1>13. InOrder'
  <2> SUFFICES ASSUME NEW i \in 1..Len(executed'), NEW j \in 1..Len(executed'),
                      i < j, executed'[i][1] = executed'[j][1]
               PROVE  executed'[i][2] < executed'[j][2]
    BY <1>6 DEF InOrder
  <2>1. i <= Len(executed) /\ executed'[i] = executed[i]
    BY <1>5, <1>6
  <2>2. CASE j <= Len(executed)
    <3>1. j \in DOMAIN executed /\ i \in DOMAIN executed
          /\ executed'[j] = executed[j]
      BY <1>5, <1>6, <2>1, <2>2
    <3> QED
      BY <2>1, <3>1 DEF ChannelInv, InOrder
  <2>3. CASE ~(j <= Len(executed))
    BY <1>5, <1>6, <1>12, <2>1, <2>3
  <2> QED BY <2>2, <2>3
<1>14. AtMostOnce'
  <2> SUFFICES ASSUME NEW i \in 1..Len(executed'), NEW j \in 1..Len(executed'),
                      executed'[i][2] = executed'[j][2]
               PROVE  i = j
    BY <1>6 DEF AtMostOnce
  <2>1. CASE i <= Len(executed) /\ j <= Len(executed)
    <3>1. /\ j \in DOMAIN executed /\ i \in DOMAIN executed
          /\ executed'[j] = executed[j] /\ executed'[i] = executed[i]
      BY <1>5, <1>6, <2>1
    <3> QED
      BY <3>1 DEF ChannelInv, AtMostOnce
  <2>2. CASE i <= Len(executed) /\ ~(j <= Len(executed))
    BY <1>5, <1>6, <1>12, <2>2
  <2>3. CASE ~(i <= Len(executed)) /\ j <= Len(executed)
    BY <1>5, <1>6, <1>12, <2>3
  <2>4. CASE ~(i <= Len(executed)) /\ ~(j <= Len(executed))
    BY <1>5, <1>6, <2>4
  <2> QED BY <2>1, <2>2, <2>3, <2>4
<1> QED
  BY <1>7, <1>8, <1>9, <1>10, <1>11, <1>13, <1>14 DEF ChannelInv

\* StopPollers and StartPollers move no command.
LEMMA RestartKeepsInv ==
    ASSUME ChannelInv, NEW polled \in BOOLEAN, Restart(polled)
    PROVE  ChannelInv'
<1>1. UNCHANGED <<ended, sent, queue, executed>>
  BY DEF Restart
<1>2. ChannelTypeOK'
  BY ChannelAssumption DEF ChannelInv, ChannelTypeOK, Restart, Pollers, NoPoller
<1> QED
  BY <1>1, <1>2 DEF ChannelInv, QueuesInOrder, QueuesDisjoint, OnlySent,
                    ExecutedFirst, InOrder, AtMostOnce

\* Nor does the end of Run: what was queued stays there, lost.
LEMMA EndKeepsInv ==
    ASSUME ChannelInv, NEW p \in Pollers, End(p)
    PROVE  ChannelInv'
<1>1. UNCHANGED <<current, started, stop, sent, queue, executed>>
  BY DEF End
<1>2. ChannelTypeOK'
  BY <1>1 DEF ChannelInv, ChannelTypeOK, End
<1> QED
  BY <1>1, <1>2 DEF ChannelInv, QueuesInOrder, QueuesDisjoint, OnlySent,
                    ExecutedFirst, InOrder, AtMostOnce

\* Nothing is posted at first.
LEMMA InitChannel == Init => ChannelInv
  BY ChannelAssumption DEF Init, ChannelInv, ChannelTypeOK, QueuesInOrder,
     QueuesDisjoint, OnlySent, ExecutedFirst, InOrder, AtMostOnce, Pollers,
     Commands, NoPoller

\* Every step of the channel keeps its commands in order.
LEMMA NextKeepsInv == ChannelInv /\ [Next]_channelVars => ChannelInv'
<1> SUFFICES ASSUME ChannelInv, [Next]_channelVars
             PROVE  ChannelInv'
  OBVIOUS
<1>1. CASE UNCHANGED channelVars
  BY <1>1 DEF channelVars, ChannelInv, ChannelTypeOK, QueuesInOrder,
     QueuesDisjoint, OnlySent, ExecutedFirst, InOrder, AtMostOnce
<1>2. CASE Next
  BY <1>2, SendKeepsInv, ExecuteKeepsInv, RestartKeepsInv, EndKeepsInv DEF Next
<1> QED BY <1>1, <1>2

\* Every command is executed at most once and in the order of its poller's
\* queue: what BtPoller::Post and the swap in Run are there for.
THEOREM ChannelSafe == Spec => []ChannelInv
  BY InitChannel, NextKeepsInv, PTL DEF Spec

\* The two properties by name, for the modules that implement the channel.
THEOREM AlwaysInOrder == Spec => [](InOrder /\ AtMostOnce)
<1>1. ChannelInv => InOrder /\ AtMostOnce
  BY DEF ChannelInv
<1> QED
  BY <1>1, ChannelSafe, PTL
=============================================================================
