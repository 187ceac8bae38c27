--------------------------- MODULE DialogsProofs ---------------------------
(* What a write by one of the three client dialogs leaves alone, for any     *)
(* number of uses, pollers, commands and preferences.                        *)
EXTENDS Dialogs, ChannelProofs

\* The commands a poller has not come to.
Queued(p) == {queue[p][i] : i \in 1..Len(queue[p])}

\* Every edit is in one place at a time: as a command in a queue, as a callback
\* posted or as a dialog open; its stage says which.
WhatOnce == \A i, j \in 1..Len(what) : what[i] = what[j] => i = j

WhatStage ==
    \A i \in 1..Len(what) :
        /\ stage[what[i][2]] # "unused"
        /\ what[i][1] = "write" => stage[what[i][2]] \in {"submitted", "closed", "untold"}

QueuedStage ==
    \A p \in Pollers : \A c \in Queued(p) :
        stage[what[c][2]] = IF what[c][1] = "fetch" THEN "fetching" ELSE "submitted"

PostedStage ==
    \A i \in 1..Len(posted) :
        stage[posted[i][2]] =
            IF posted[i][1] \in {"result", "silent"} THEN "submitted" ELSE "fetching"

OpenStage == \A i \in 1..Len(open) : stage[open[i]] = "open"

PostedOnce == \A i, j \in 1..Len(posted) : posted[i][2] = posted[j][2] => i = j
OpenOnce   == \A i, j \in 1..Len(open) : open[i] = open[j] => i = j

QueuedOrPosted ==
    \A p \in Pollers : \A c \in Queued(p) : \A i \in 1..Len(posted) :
        what[c][2] # posted[i][2]

EditInv ==
    /\ WhatOnce /\ WhatStage
    /\ QueuedStage /\ PostedStage /\ OpenStage
    /\ PostedOnce /\ OpenOnce /\ QueuedOrPosted

\* While no poller was retired there is one, and what it holds of cc_config is
\* what the client has: it is between the reading and the writing.
OnePoller  == stop = {} => current = 1 /\ started = 1
QueuesBorn == \A p \in Pollers : queue[p] # <<>> => p <= started
HolderBorn == \A p \in Pollers : at[p] = "set" => p <= started

HeldIsRead ==
    stop = {} => \A p \in Pollers : at[p] = "set" => config[p] = client.held

RestInv == OnePoller /\ QueuesBorn /\ HolderBorn /\ HeldIsRead

DialogsInv == DialogsTypeOK /\ ChannelInv /\ EditInv /\ RestInv

----------------------------------------------------------------------------
(* Sequences.                                                              *)

\* The elements of a sequence with one more at its end.
LEMMA Appended ==
    ASSUME NEW S, NEW s \in Seq(S), NEW x \in S
    PROVE  /\ Append(s, x) \in Seq(S) /\ Len(Append(s, x)) = Len(s) + 1
           /\ Len(s) \in Nat
           /\ \A i \in 1..Len(s) : Append(s, x)[i] = s[i] /\ s[i] \in S
           /\ Append(s, x)[Len(s) + 1] = x
           /\ s # <<>> => Head(Append(s, x)) = Head(s)
  BY AppendProperties, ElementOfSeq, LenProperties

\* Without its first element.
LEMMA Rested ==
    ASSUME NEW S, NEW s \in Seq(S), s # <<>>
    PROVE  /\ Tail(s) \in Seq(S) /\ Len(Tail(s)) = Len(s) - 1
           /\ Len(s) \in Nat \ {0}
           /\ Head(s) = s[1] /\ Head(s) \in S
           /\ \A i \in 1..Len(Tail(s)) : Tail(s)[i] = s[i + 1] /\ i + 1 \in 1..Len(s)
<1>1. Len(s) \in Nat /\ Len(s) # 0
  BY LenProperties, EmptySeq
<1>2. Tail(s) \in Seq(S) /\ Len(Tail(s)) = Len(s) - 1 /\ Head(s) = s[1] /\ Head(s) \in S
  BY <1>1, HeadTailProperties
<1>3. \A i \in 1..Len(Tail(s)) : Tail(s)[i] = s[i + 1]
  BY <1>1, <1>2, HeadTailProperties
<1> QED BY <1>1, <1>2, <1>3

\* Without its last.
LEMMA Popped ==
    ASSUME NEW S, NEW s \in Seq(S), s # <<>>
    PROVE  /\ SubSeq(s, 1, Len(s) - 1) \in Seq(S)
           /\ Len(SubSeq(s, 1, Len(s) - 1)) = Len(s) - 1
           /\ Len(s) \in Nat \ {0} /\ s[Len(s)] \in S
           /\ \A i \in 1..(Len(s) - 1) :
                 SubSeq(s, 1, Len(s) - 1)[i] = s[i] /\ i \in 1..Len(s)
<1>1. Len(s) \in Nat /\ Len(s) # 0
  BY LenProperties, EmptySeq
<1>2. \A i \in 1..Len(s) : s[i] \in S
  BY ElementOfSeq
<1> DEFINE f == SubSeq(s, 1, Len(s) - 1)
<1>3. f \in Seq(S) /\ Len(f) = Len(s) - 1
  <2>1. 1 \in Int /\ Len(s) - 1 \in Int /\ \A i \in 1..(Len(s) - 1) : s[i] \in S
    BY <1>1, <1>2
  <2>2. /\ SubSeq(s, 1, Len(s) - 1) \in Seq(S)
        /\ Len(SubSeq(s, 1, Len(s) - 1)) =
              IF 1 <= Len(s) - 1 THEN (Len(s) - 1) - 1 + 1 ELSE 0
    BY <2>1, SubSeqProperties
  <2>3. \A n \in Nat \ {0} : (IF 1 <= n - 1 THEN (n - 1) - 1 + 1 ELSE 0) = n - 1
    OBVIOUS
  <2>4. Len(SubSeq(s, 1, Len(s) - 1)) = Len(s) - 1
    BY <1>1, <2>2, <2>3
  <2> QED BY <2>2, <2>4
<1>4. \A i \in 1..(Len(s) - 1) : i \in 1..Len(s)
  BY <1>1
<1>5. \A i \in 1..(Len(s) - 1) : f[i] = s[i]
  BY <1>1
<1>6. s[Len(s)] \in S
  BY <1>1, <1>2
<1> HIDE DEF f
<1>7. f \in Seq(S) /\ Len(f) = Len(s) - 1 /\ Len(s) \in Nat \ {0}
      /\ s[Len(s)] \in S
      /\ \A i \in 1..(Len(s) - 1) : f[i] = s[i] /\ i \in 1..Len(s)
  BY <1>1, <1>3, <1>4, <1>5, <1>6
<1> QED BY <1>7 DEF f

----------------------------------------------------------------------------
(* The channel under the dialogs.                                          *)

\* A command posted is new to every queue.
LEMMA SendQueues ==
    ASSUME ChannelInv, NEW p \in Pollers, Send(p)
    PROVE  /\ sent \in Nat /\ sent' = sent + 1 /\ sent + 1 \in Commands
           /\ Queued(p)' = Queued(p) \cup {sent + 1}
           /\ \A q \in Pollers \ {p} : Queued(q)' = Queued(q)
<1>1. /\ sent \in Nat /\ sent' = sent + 1 /\ sent + 1 \in Commands
      /\ queue \in [Pollers -> Seq(Commands)]
      /\ queue' = [queue EXCEPT ![p] = Append(@, sent + 1)]
  BY ChannelAssumption DEF ChannelInv, ChannelTypeOK, Send, Commands
<1>2. queue'[p] = Append(queue[p], sent + 1)
  BY <1>1
<1>3. /\ Len(queue'[p]) = Len(queue[p]) + 1 /\ Len(queue[p]) \in Nat
      /\ \A i \in 1..Len(queue[p]) : queue'[p][i] = queue[p][i]
      /\ queue'[p][Len(queue[p]) + 1] = sent + 1
  BY <1>1, <1>2, Appended
<1>4. Queued(p)' = Queued(p) \cup {sent + 1}
  <2> DEFINE n == Len(queue[p])
  <2>1. 1..(n + 1) = 1..n \cup {n + 1}
    BY <1>3
  <2> HIDE DEF n
  <2>2. Queued(p)' = {queue'[p][i] : i \in 1..(n + 1)}
    BY <1>3 DEF Queued, n
  <2>3. Queued(p) = {queue[p][i] : i \in 1..n}
    BY DEF Queued, n
  <2>4. /\ \A i \in 1..n : queue'[p][i] = queue[p][i]
        /\ queue'[p][n + 1] = sent + 1
    BY <1>3 DEF n
  <2> QED BY ONLY <2>1, <2>2, <2>3, <2>4
<1> QED BY <1>1, <1>4 DEF Queued

\* A command executed leaves every queue.
LEMMA ExecuteQueues ==
    ASSUME ChannelInv, NEW p \in Pollers, NEW effective, Execute(p, effective)
    PROVE  /\ Head(queue[p]) \in Queued(p)
           /\ \A q \in Pollers :
                 Queued(q)' \subseteq Queued(q) \ {Head(queue[p])}
           /\ \A q \in Pollers \ {p} : queue'[q] = queue[q]
<1>1. /\ queue \in [Pollers -> Seq(Commands)]
      /\ queue[p] # <<>>
      /\ queue' = [queue EXCEPT ![p] = Tail(@)]
  BY DEF ChannelInv, ChannelTypeOK, Execute
<1>2. /\ Head(queue[p]) = queue[p][1] /\ Len(queue[p]) \in Nat \ {0}
      /\ Len(queue'[p]) = Len(queue[p]) - 1
      /\ \A i \in 1..Len(queue'[p]) :
            queue'[p][i] = queue[p][i + 1] /\ i + 1 \in 1..Len(queue[p])
  BY <1>1, Rested
<1>3. Head(queue[p]) \in Queued(p)
  BY <1>2 DEF Queued
<1>4. \A q \in Pollers \ {p} : queue'[q] = queue[q]
  BY <1>1
<1>5. ASSUME NEW q \in Pollers \ {p}
      PROVE  Queued(q)' \subseteq Queued(q) \ {Head(queue[p])}
  <2>1. \A i \in 1..Len(queue[q]) : queue[p][1] # queue[q][i]
    BY <1>2 DEF ChannelInv, QueuesDisjoint
  <2> QED BY <1>2, <1>4, <2>1 DEF Queued
<1>6. Queued(p)' \subseteq Queued(p) \ {Head(queue[p])}
  <2> SUFFICES ASSUME NEW i \in 1..Len(queue'[p])
               PROVE  queue'[p][i] \in Queued(p) /\ queue'[p][i] # Head(queue[p])
    BY DEF Queued
  <2>1. queue'[p][i] = queue[p][i + 1] /\ i + 1 \in 1..Len(queue[p]) /\ 1 < i + 1
        /\ 1 \in 1..Len(queue[p])
    BY <1>2
  <2>2. \A j \in 1..Len(queue[p]) : queue[p][j] \in Nat
    <3>1. \A j \in 1..Len(queue[p]) : queue[p][j] \in Commands
      BY <1>1, ElementOfSeq
    <3> QED BY <3>1 DEF Commands
  <2>3. queue[p][1] < queue[p][i + 1]
    BY <2>1 DEF ChannelInv, QueuesInOrder
  <2> QED BY <1>2, <2>1, <2>2, <2>3 DEF Queued
<1> QED BY <1>3, <1>4, <1>5, <1>6

\* Commands queued were posted.
LEMMA QueuedWereSent ==
    ASSUME ChannelInv, DialogsTypeOK, NEW p \in Pollers, NEW c \in Queued(p)
    PROVE  /\ c \in 1..Len(what)
           /\ what[c] \in {"fetch", "write"} \X Edits
<1>1. /\ queue[p] \in Seq(Commands) /\ sent \in Nat /\ Len(what) = sent
      /\ what \in Seq({"fetch", "write"} \X Edits)
  BY ChannelAssumption DEF ChannelInv, ChannelTypeOK, DialogsTypeOK
<1>2. PICK i \in 1..Len(queue[p]) : c = queue[p][i]
  BY DEF Queued
<1>3. c \in Commands /\ c <= sent
  BY <1>1, <1>2, ElementOfSeq DEF ChannelInv, OnlySent
<1>4. c \in 1..Len(what)
  BY <1>1, <1>3, ChannelAssumption DEF Commands
<1> QED BY <1>1, <1>4, ElementOfSeq

\* Every step of the dialogs is a step of the channel, or none.
LEMMA StepOfChannel ==
    ASSUME DialogsTypeOK, ChannelTypeOK, [DialogsNext]_vars
    PROVE  [Next]_channelVars
<1>1. CASE UNCHANGED channelVars
  BY <1>1
<1>2. ASSUME NEW e \in Edits, NEW k \in Kinds, OnEdit(e, k)
      PROVE  [Next]_channelVars
  <2>1. current \in Pollers /\ Send(current)
    BY <1>2 DEF OnEdit, ChannelTypeOK
  <2> QED BY <2>1 DEF Next
<1>3. ASSUME NEW e \in Edits, NEW parts, Accept(e, parts)
      PROVE  [Next]_channelVars
  <2>1. CASE Send(pointer[e])
    <3>1. pointer[e] \in Pollers
      BY <2>1 DEF DialogsTypeOK, Send
    <3> QED BY <2>1, <3>1 DEF Next
  <2> QED BY <1>1, <1>3, <2>1 DEF Accept
<1>4. ASSUME NEW polled \in BOOLEAN, RestartPollers(polled)
      PROVE  [Next]_channelVars
  BY <1>4 DEF RestartPollers, Next
<1>5. ASSUME NEW p \in Pollers, Thread(p)
      PROVE  [Next]_channelVars
  <2>1. CASE EndPoller(p)
    BY <2>1 DEF EndPoller, Next
  <2>2. ASSUME NEW effective \in BOOLEAN, Execute(p, effective)
        PROVE  [Next]_channelVars
    BY <2>2 DEF Next
  <2>3. ASSUME NEW e \in Edits,
               \/ Fetch(p, e) \/ ReadApps(p, e)
               \/ WriteConfig(p, e) \/ WriteProxy(p, e) \/ WriteApps(p, e)
        PROVE  [Next]_channelVars
    BY <2>2, <2>3 DEF Fetch, ReadApps, WriteConfig, WriteProxy, WriteApps
  <2>4. ASSUME NEW e \in Edits,
               \/ ReadPrefs(p, e) \/ ReadMask(p, e)
               \/ WritePrefs(p, e) \/ ReadConfig(p, e)
        PROVE  [Next]_channelVars
    BY <1>1, <2>2, <2>4 DEF ReadPrefs, ReadMask, WritePrefs, ReadConfig
  <2> QED BY <1>5, <2>1, <2>3, <2>4 DEF Thread
<1>6. CASE \/ UNCHANGED vars \/ Show \/ Tell
           \/ \E e \in Edits : Dismiss(e)
  BY <1>1, <1>6 DEF vars, Show, Tell, Dismiss
<1> QED
  BY <1>2, <1>3, <1>4, <1>5, <1>6 DEF DialogsNext, User

----------------------------------------------------------------------------
(* Types.                                                                  *)

Events == {"show", "failed", "result", "silent"} \X Edits
Orders == {"fetch", "write"} \X Edits

\* What an edit holds when it is over is of the types of what it held.
LEMMA CloseTypes ==
    ASSUME DialogsTypeOK, NEW e \in Edits, NEW how \in {"closed", "untold"},
           Close(e, how)
    PROVE  /\ stage' \in [Edits -> Stages]
           /\ pointer' \in [Edits -> Pollers \cup {NoPoller}]
           /\ read' \in [Edits -> BOOLEAN]
           /\ mask' \in [Edits -> SUBSET Fields]
           /\ changed' \in [Edits -> SUBSET (Fields \cup {"config", "apps", "proxy"})]
<1>1. stage' \in [Edits -> Stages]
  BY DEF Close, DialogsTypeOK, Stages
<1>2. pointer' \in [Edits -> Pollers \cup {NoPoller}]
  BY DEF Close, DialogsTypeOK
<1>3. read' \in [Edits -> BOOLEAN]
  BY DEF Close, DialogsTypeOK
<1>4. mask' \in [Edits -> SUBSET Fields]
  BY DEF Close, DialogsTypeOK
<1>5. changed' \in [Edits -> SUBSET (Fields \cup {"config", "apps", "proxy"})]
  BY DEF Close, DialogsTypeOK
<1> QED BY <1>1, <1>2, <1>3, <1>4, <1>5

\* The settings written by an edit.
LEMMA WrittenTypes ==
    ASSUME DialogsTypeOK, NEW e \in Edits
    PROVE  /\ [client EXCEPT !.held = e, !.other = e] \in Settings
           /\ [client EXCEPT !.proxy = e] \in Settings
           /\ [client EXCEPT !.override = MaskOf(e)] \in Settings
           /\ \A c \in 0..MaxEdits :
                 [client EXCEPT !.held = c, !.other = Dropped] \in Settings
           /\ client.held \in 0..MaxEdits
<1>1. e \in 0..MaxEdits /\ client \in Settings
  BY DialogsAssumption DEF DialogsTypeOK, Edits
<1>2. MaskOf(e) \subseteq Fields
  BY DEF MaskOf, DialogsTypeOK
<1> QED BY <1>1, <1>2 DEF Settings, Dropped

\* Every step keeps the types.
LEMMA StepKeepsDialogTypes ==
    ASSUME DialogsTypeOK, ChannelInv, [DialogsNext]_vars
    PROVE  DialogsTypeOK'
<1>1. /\ what \in Seq(Orders) /\ Len(what) = sent
      /\ posted \in Seq(Events) /\ open \in Seq(Edits) /\ sent \in Nat
  BY DEF DialogsTypeOK, Orders, Events, ChannelInv, ChannelTypeOK
<1>2. CASE UNCHANGED vars
  BY <1>2 DEF vars, channelVars, DialogsTypeOK
<1>3. ASSUME NEW e \in Edits, NEW k \in Kinds, OnEdit(e, k)
      PROVE  DialogsTypeOK'
  <2>1. /\ current \in Pollers /\ Send(current)
        /\ what' = Append(what, <<"fetch", e>>)
    BY <1>3 DEF OnEdit, ChannelInv, ChannelTypeOK
  <2>2. what' \in Seq(Orders) /\ Len(what') = sent'
    BY <1>1, <2>1, Appended, SendQueues DEF Orders
  <2> QED
    BY <1>3, <2>1, <2>2 DEF OnEdit, DialogsTypeOK, Orders, Stages, threadVars
<1>4. CASE \E polled \in BOOLEAN : RestartPollers(polled)
  BY <1>4 DEF RestartPollers, Restart, DialogsTypeOK, editVars, threadVars
<1>5. CASE Show
  <2>1. Head(posted) \in Events /\ posted' \in Seq(Events)
    BY <1>1, <1>5, Rested DEF Show
  <2>2. open' \in Seq(Edits)
    BY <1>1, <1>5, <2>1, Appended DEF Show, Events
  <2> QED
    BY <1>5, <2>1, <2>2 DEF Show, DialogsTypeOK, channelVars, Events, Stages,
       threadVars
<1>6. CASE Tell
  <2>1. Head(posted) \in Events /\ posted' \in Seq(Events)
    BY <1>1, <1>6, Rested DEF Tell
  <2>2. PICK how \in {"closed", "untold"} : Close(Head(posted)[2], how)
    BY <1>6 DEF Tell
  <2>3. Head(posted)[2] \in Edits
    BY <2>1 DEF Events
  <2> QED
    BY <1>6, <2>1, <2>2, <2>3, CloseTypes DEF Tell, DialogsTypeOK, channelVars,
       threadVars, Events
<1>7. ASSUME NEW e \in Edits, Dismiss(e)
      PROVE  DialogsTypeOK'
  <2>1. open' \in Seq(Edits)
    BY <1>1, <1>7, Popped DEF Dismiss
  <2> QED
    BY <1>7, <2>1, CloseTypes DEF Dismiss, DialogsTypeOK, channelVars, threadVars
<1>8. ASSUME NEW e \in Edits, NEW parts \in Changes(kind[e]), Accept(e, parts)
      PROVE  DialogsTypeOK'
  <2>1. open' \in Seq(Edits)
    BY <1>1, <1>8, Popped DEF Accept
  <2>2. what' \in Seq(Orders) /\ Len(what') = sent'
    <3>1. CASE Send(pointer[e]) /\ what' = Append(what, <<"write", e>>)
      <4>1. pointer[e] \in Pollers
        BY <3>1 DEF DialogsTypeOK, Send
      <4> QED BY <1>1, <3>1, <4>1, Appended, SendQueues DEF Orders
    <3> QED BY <1>1, <1>8, <3>1 DEF Accept, channelVars
  <2>3. parts \subseteq Fields \cup {"config", "apps", "proxy"}
    <3>1. kind[e] \in {"config", "proxy", "prefs"}
      BY DialogsAssumption DEF DialogsTypeOK
    <3> QED BY <3>1 DEF Changes
  <2>4. running' \in BOOLEAN
    BY <1>8 DEF Accept, DialogsTypeOK
  <2> QED
    BY <1>8, <2>1, <2>2, <2>3, <2>4 DEF Accept, DialogsTypeOK, Orders, Stages,
       threadVars
<1>9. ASSUME NEW p \in Pollers, Thread(p)
      PROVE  DialogsTypeOK'
  <2>1. CASE EndPoller(p)
    BY <2>1 DEF EndPoller, End, DialogsTypeOK, editVars, threadVars
  <2>2. ASSUME NEW e \in Edits, NEW x \in {"show", "failed", "result", "silent"}
        PROVE  Append(posted, <<x, e>>) \in Seq(Events)
    <3>1. <<x, e>> \in Events
      BY DEF Events
    <3> QED BY <1>1, <3>1, Appended
  <2>3. ASSUME NEW e \in Edits, Fetch(p, e)
        PROVE  DialogsTypeOK'
    <3>1. posted' \in Seq(Events)
      BY <2>2, <2>3 DEF Fetch
    <3> QED
      BY <2>3, <3>1 DEF Fetch, Execute, DialogsTypeOK, Events, editVars, threadVars
  <2>4. ASSUME NEW e \in Edits, ReadPrefs(p, e)
        PROVE  DialogsTypeOK'
    BY <2>4 DEF ReadPrefs, DialogsTypeOK, channelVars
  <2>5. ASSUME NEW e \in Edits, ReadMask(p, e)
        PROVE  DialogsTypeOK'
    <3>1. client.override \subseteq Fields
      BY DEF DialogsTypeOK, Settings
    <3> QED BY <2>5, <3>1 DEF ReadMask, DialogsTypeOK, channelVars
  <2>6. ASSUME NEW e \in Edits, ReadApps(p, e)
        PROVE  DialogsTypeOK'
    <3>1. posted' \in Seq(Events)
      BY <2>2, <2>6 DEF ReadApps
    <3> QED
      BY <2>6, <3>1 DEF ReadApps, Execute, DialogsTypeOK, Events, editVars
  <2>7. ASSUME NEW e \in Edits,
               \/ WriteConfig(p, e) \/ WriteProxy(p, e)
               \/ WritePrefs(p, e) \/ WriteApps(p, e)
        PROVE  DialogsTypeOK'
    <3>1. posted' \in Seq(Events)
      BY <1>1, <2>2, <2>7 DEF WriteConfig, WriteProxy, WritePrefs, WriteApps, Reported
    <3>2. UNCHANGED <<running, what, open, editVars, sent>>
      BY <2>7 DEF WriteConfig, WriteProxy, WritePrefs, WriteApps, Execute, channelVars
    <3>3. /\ config' \in [Pollers -> 0..MaxEdits]
          /\ at' \in [Pollers -> {"begin", "mask", "apps", "config", "set"}]
      <4>1. config \in [Pollers -> 0..MaxEdits] /\ 0 \in 0..MaxEdits
            /\ at \in [Pollers -> {"begin", "mask", "apps", "config", "set"}]
        BY DialogsAssumption DEF DialogsTypeOK
      <4>2. /\ config' = config \/ config' = [config EXCEPT ![p] = 0]
            /\ \/ at' = at
               \/ at' = [at EXCEPT ![p] = "begin"]
               \/ at' = [at EXCEPT ![p] = "config"]
        BY <2>7 DEF WriteConfig, WriteProxy, WritePrefs, WriteApps, threadVars
      <4> QED BY <4>1, <4>2
    <3>4. HeldAsRead(p) \in 0..MaxEdits
      BY DEF DialogsTypeOK, HeldAsRead
    <3>5. client' \in Settings
      BY <2>7, <3>4, WrittenTypes DEF WriteConfig, WriteProxy, WritePrefs, WriteApps,
         DialogsTypeOK
    <3> QED
      BY <3>1, <3>2, <3>3, <3>5 DEF DialogsTypeOK, Events, editVars
  <2>8. ASSUME NEW e \in Edits, ReadConfig(p, e)
        PROVE  DialogsTypeOK'
    <3>1. posted' \in Seq(Events)
      BY <1>1, <2>2, <2>8 DEF ReadConfig
    <3>2. UNCHANGED <<running, client, what, open, editVars, sent>>
      BY <2>8 DEF ReadConfig, Execute, channelVars
    <3>3. /\ config' \in [Pollers -> 0..MaxEdits]
          /\ at' \in [Pollers -> {"begin", "mask", "apps", "config", "set"}]
      BY <2>8, WrittenTypes DEF ReadConfig, GoesOn, DialogsTypeOK
    <3> QED
      BY <3>1, <3>2, <3>3 DEF DialogsTypeOK, Events, editVars
  <2> QED
    BY <1>9, <2>1, <2>3, <2>4, <2>5, <2>6, <2>7, <2>8 DEF Thread
<1> QED
  BY <1>2, <1>3, <1>4, <1>5, <1>6, <1>7, <1>8, <1>9 DEF DialogsNext, User

----------------------------------------------------------------------------
(* Where an edit is.                                                       *)

\* The types the lemmas below need.
LEMMA EditTypes ==
    ASSUME DialogsTypeOK, ChannelInv
    PROVE  /\ what \in Seq(Orders) /\ Len(what) = sent /\ sent \in Nat
           /\ \A i \in 1..Len(what) : what[i] \in Orders
           /\ posted \in Seq(Events) /\ Len(posted) \in Nat
           /\ \A i \in 1..Len(posted) : posted[i] \in Events
           /\ open \in Seq(Edits) /\ Len(open) \in Nat
           /\ \A i \in 1..Len(open) : open[i] \in Edits
           /\ stage \in [Edits -> Stages]
           /\ \A p \in Pollers : \A c \in Queued(p) :
                 c \in 1..Len(what) /\ what[c] \in Orders
<1>1. /\ what \in Seq(Orders) /\ Len(what) = sent /\ sent \in Nat
      /\ posted \in Seq(Events) /\ open \in Seq(Edits)
      /\ stage \in [Edits -> Stages]
  BY DEF DialogsTypeOK, Orders, Events, ChannelInv, ChannelTypeOK
<1>2. /\ \A i \in 1..Len(what) : what[i] \in Orders
      /\ \A i \in 1..Len(posted) : posted[i] \in Events
      /\ \A i \in 1..Len(open) : open[i] \in Edits
      /\ Len(posted) \in Nat /\ Len(open) \in Nat
  BY <1>1, ElementOfSeq, LenProperties
<1>3. \A p \in Pollers : \A c \in Queued(p) :
         c \in 1..Len(what) /\ what[c] \in Orders
  BY QueuedWereSent DEF Orders
<1> QED BY <1>1, <1>2, <1>3

\* Commands may be dropped; nothing else moves.
LEMMA RestKeepsEdits ==
    ASSUME EditInv, UNCHANGED <<what, posted, open, stage>>,
           \A p \in Pollers : Queued(p)' \subseteq Queued(p)
    PROVE  EditInv'
<1>1. WhatOnce' /\ WhatStage' /\ PostedStage' /\ OpenStage' /\ PostedOnce' /\ OpenOnce'
  BY DEF EditInv, WhatOnce, WhatStage, PostedStage, OpenStage, PostedOnce, OpenOnce
<1>2. QueuedStage' /\ QueuedOrPosted'
  BY DEF EditInv, QueuedStage, QueuedOrPosted
<1> QED BY <1>1, <1>2 DEF EditInv

\* A command is posted for an edit that is nowhere else: a fetch for one not
\* begun, a write for one whose dialog closes.
LEMMA PostKeepsEdits ==
    ASSUME DialogsTypeOK, ChannelInv, EditInv,
           NEW e \in Edits, NEW op \in {"fetch", "write"}, NEW p \in Pollers,
           Send(p),
           what' = Append(what, <<op, e>>),
           stage' = [stage EXCEPT ![e] = IF op = "fetch" THEN "fetching"
                                                         ELSE "submitted"],
           stage[e] = IF op = "fetch" THEN "unused" ELSE "open",
           UNCHANGED posted,
           Len(open') \in Nat,
           \A i \in 1..Len(open') : i \in 1..Len(open) /\ open'[i] = open[i]
                                    /\ open[i] # e
    PROVE  EditInv'
<1>1. /\ Len(what) \in Nat /\ Len(what') = Len(what) + 1
      /\ \A i \in 1..Len(what) : what'[i] = what[i] /\ what[i] \in Orders
      /\ what'[Len(what) + 1] = <<op, e>>
  BY EditTypes, Appended DEF Orders
<1>2. /\ Queued(p)' = Queued(p) \cup {Len(what) + 1}
      /\ \A q \in Pollers \ {p} : Queued(q)' = Queued(q)
      /\ \A q \in Pollers : \A c \in Queued(q) : c \in 1..Len(what)
  BY SendQueues, EditTypes
<1>3. /\ stage'[e] = IF op = "fetch" THEN "fetching" ELSE "submitted"
      /\ \A d \in Edits \ {e} : stage'[d] = stage[d]
  BY EditTypes
<1>4. \A i \in 1..Len(what) : what[i][2] \in Edits /\ what[i] = <<what[i][1], what[i][2]>>
  BY <1>1 DEF Orders
<1>5. \A i \in 1..Len(what) :
         what[i][2] = e => op = "write" /\ what[i][1] # "write"
  BY DEF EditInv, WhatStage
<1>6. \A q \in Pollers : \A c \in Queued(q) : what[c][2] # e
  BY DEF EditInv, QueuedStage
<1>7. \A i \in 1..Len(posted) : posted[i][2] # e /\ posted[i][2] \in Edits
  BY EditTypes DEF EditInv, PostedStage, Events
<1>8. WhatOnce'
  <2> SUFFICES ASSUME NEW i \in 1..Len(what'), NEW j \in 1..Len(what'),
                      what'[i] = what'[j]
               PROVE  i = j
    BY DEF WhatOnce
  <2>1. CASE i \in 1..Len(what) /\ j \in 1..Len(what)
    BY <1>1, <2>1 DEF EditInv, WhatOnce
  <2>2. ASSUME NEW m \in 1..Len(what)
        PROVE  what[m] # <<op, e>>
    BY <1>5
  <2> QED BY <1>1, <2>1, <2>2
<1>9. WhatStage'
  <2> SUFFICES ASSUME NEW i \in 1..Len(what')
               PROVE  /\ stage'[what'[i][2]] # "unused"
                      /\ what'[i][1] = "write" =>
                            stage'[what'[i][2]] \in {"submitted", "closed", "untold"}
    BY DEF WhatStage
  <2>1. CASE i \in 1..Len(what)
    BY <1>1, <1>3, <1>4, <1>5, <2>1 DEF EditInv, WhatStage
  <2>2. CASE i = Len(what) + 1
    BY <1>1, <1>3, <2>2
  <2> QED BY <1>1, <2>1, <2>2
<1>10. QueuedStage'
  <2> SUFFICES ASSUME NEW q \in Pollers, NEW c \in Queued(q)'
               PROVE  stage'[what'[c][2]] =
                         IF what'[c][1] = "fetch" THEN "fetching" ELSE "submitted"
    BY DEF QueuedStage
  <2>1. CASE c \in Queued(q)
    BY <1>1, <1>2, <1>3, <1>4, <1>6, <2>1 DEF EditInv, QueuedStage
  <2>2. CASE c = Len(what) + 1
    BY <1>1, <1>3, <2>2
  <2> QED BY <1>2, <2>1, <2>2
<1>11. PostedStage' /\ PostedOnce'
  BY <1>3, <1>7 DEF EditInv, PostedStage, PostedOnce
<1>12. OpenStage' /\ OpenOnce'
  BY <1>3, EditTypes DEF EditInv, OpenStage, OpenOnce
<1>13. QueuedOrPosted'
  <2> SUFFICES ASSUME NEW q \in Pollers, NEW c \in Queued(q)',
                      NEW i \in 1..Len(posted)
               PROVE  what'[c][2] # posted[i][2]
    BY DEF QueuedOrPosted
  <2>1. CASE c \in Queued(q)
    BY <1>1, <1>2, <2>1 DEF EditInv, QueuedOrPosted
  <2>2. CASE c = Len(what) + 1
    BY <1>1, <1>7, <2>2
  <2> QED BY <1>2, <2>1, <2>2
<1> QED
  BY <1>8, <1>9, <1>10, <1>11, <1>12, <1>13 DEF EditInv

\* A callback runs: a dialog opens, or the edit is over.
LEMMA CallbackKeepsEdits ==
    ASSUME DialogsTypeOK, ChannelInv, EditInv, Show \/ Tell
    PROVE  EditInv'
<1> DEFINE e == Head(posted)[2]
<1>1. posted # <<>> /\ posted' = Tail(posted) /\ UNCHANGED <<queue, what>>
  BY DEF Show, Tell, channelVars
<1>2. /\ Len(posted) \in Nat \ {0} /\ Len(posted') = Len(posted) - 1
      /\ Head(posted) = posted[1] /\ Head(posted) \in Events
      /\ \A i \in 1..Len(posted') : posted'[i] = posted[i + 1]
                                    /\ i + 1 \in 1..Len(posted)
  BY <1>1, EditTypes, Rested
<1>3. e \in Edits /\ posted[1][2] = e /\ 1 \in 1..Len(posted)
  BY <1>2 DEF Events
<1>4. \A p \in Pollers : Queued(p)' = Queued(p)
  BY <1>1 DEF Queued
<1>5. \A p \in Pollers : \A c \in Queued(p) : what[c][2] # e /\ what[c][2] \in Edits
  BY <1>3, EditTypes DEF EditInv, QueuedOrPosted, Orders
<1>6. \A i \in 1..Len(posted') : posted'[i][2] # e /\ posted'[i][2] \in Edits
  <2> SUFFICES ASSUME NEW i \in 1..Len(posted')
               PROVE  posted'[i][2] # e /\ posted'[i][2] \in Edits
    OBVIOUS
  <2>1. posted'[i] = posted[i + 1] /\ i + 1 \in 1..Len(posted) /\ i + 1 # 1
    BY <1>2
  <2>2. posted[i + 1][2] # posted[1][2]
    BY <1>3, <2>1 DEF EditInv, PostedOnce
  <2>3. posted[i + 1] \in Events
    BY <2>1, EditTypes
  <2> QED BY <1>3, <2>1, <2>2, <2>3 DEF Events
<1>7. \A i \in 1..Len(open) : open[i] # e
  BY <1>3 DEF EditInv, OpenStage, PostedStage
<1>8. /\ \A d \in Edits \ {e} : stage'[d] = stage[d]
      /\ \/ stage'[e] = "open" /\ open' = Append(open, e) /\ Head(posted)[1] = "show"
         \/ stage'[e] \in {"closed", "untold"} /\ open' = open
  BY <1>3, EditTypes DEF Show, Tell, Close
<1>9. WhatOnce'
  BY <1>1 DEF EditInv, WhatOnce
<1>10. WhatStage'
  <2> SUFFICES ASSUME NEW i \in 1..Len(what)
               PROVE  /\ stage'[what[i][2]] # "unused"
                      /\ what[i][1] = "write" =>
                            stage'[what[i][2]] \in {"submitted", "closed", "untold"}
    BY <1>1 DEF WhatStage
  <2>1. what[i][2] \in Edits
    BY EditTypes DEF Orders
  <2>2. CASE what[i][2] # e
    BY <1>8, <2>1, <2>2 DEF EditInv, WhatStage
  <2>3. CASE what[i][2] = e /\ stage'[e] = "open"
    <3>1. stage[e] = "fetching"
      BY <1>2, <1>3, <1>8, <2>3 DEF EditInv, PostedStage
    <3>2. what[i][1] # "write"
      BY <2>3, <3>1 DEF EditInv, WhatStage
    <3> QED BY <2>3, <3>2
  <2> QED BY <1>8, <2>2, <2>3
<1>11. QueuedStage' /\ QueuedOrPosted'
  <2>1. QueuedStage'
    BY <1>1, <1>4, <1>5, <1>8 DEF EditInv, QueuedStage
  <2>2. QueuedOrPosted'
    BY <1>1, <1>2, <1>4 DEF EditInv, QueuedOrPosted
  <2> QED BY <2>1, <2>2
<1>12. PostedStage'
  BY <1>2, <1>6, <1>8 DEF EditInv, PostedStage
<1>13. PostedOnce'
  <2> SUFFICES ASSUME NEW i \in 1..Len(posted'), NEW j \in 1..Len(posted'),
                      posted'[i][2] = posted'[j][2]
               PROVE  i = j
    BY DEF PostedOnce
  <2>1. /\ i + 1 \in 1..Len(posted) /\ posted'[i] = posted[i + 1]
        /\ j + 1 \in 1..Len(posted) /\ posted'[j] = posted[j + 1]
    BY <1>2
  <2>2. posted[i + 1][2] = posted[j + 1][2]
    BY <2>1
  <2>3. i + 1 = j + 1
    BY ONLY EditInv, <2>1, <2>2 DEF EditInv, PostedOnce
  <2> QED BY <1>2, <2>3
<1>14. OpenStage' /\ OpenOnce'
  <2>1. CASE open' = open
    BY <1>7, <1>8, <2>1, EditTypes DEF EditInv, OpenStage, OpenOnce
  <2>2. CASE open' = Append(open, e) /\ stage'[e] = "open"
    <3>1. /\ Len(open) \in Nat /\ Len(open') = Len(open) + 1
          /\ \A i \in 1..Len(open) : open'[i] = open[i] /\ open[i] \in Edits
          /\ open'[Len(open) + 1] = e
      BY <1>3, <2>2, EditTypes, Appended
    <3>2. OpenStage'
      BY <1>7, <1>8, <2>2, <3>1 DEF EditInv, OpenStage
    <3>3. OpenOnce'
      BY <1>7, <3>1 DEF EditInv, OpenOnce
    <3> QED BY <3>2, <3>3
  <2> QED BY <1>8, <2>1, <2>2
<1> QED
  BY <1>9, <1>10, <1>11, <1>12, <1>13, <1>14 DEF EditInv

\* A command executed hands its edit over to the event queue.
LEMMA ExecuteKeepsEdits ==
    ASSUME DialogsTypeOK, ChannelInv, EditInv,
           NEW e \in Edits, NEW op \in {"fetch", "write"}, NEW p \in Pollers,
           NEW effective, Execute(p, effective), NEW x,
           what[Head(queue[p])] = <<op, e>>,
           posted' = Append(posted, <<x, e>>),
           x \in IF op = "fetch" THEN {"show", "failed"} ELSE {"result", "silent"},
           UNCHANGED <<what, open, stage>>
    PROVE  EditInv'
<1> DEFINE c == Head(queue[p])
<1>1. /\ c \in Queued(p)
      /\ \A q \in Pollers : Queued(q)' \subseteq Queued(q) \ {c}
  BY ExecuteQueues
<1>2. stage[e] = IF op = "fetch" THEN "fetching" ELSE "submitted"
  BY <1>1 DEF EditInv, QueuedStage
<1>3. /\ Len(posted) \in Nat /\ Len(posted') = Len(posted) + 1
      /\ \A i \in 1..Len(posted) : posted'[i] = posted[i]
      /\ posted'[Len(posted) + 1] = <<x, e>>
  <2>1. <<x, e>> \in Events
    BY DEF Events
  <2> QED BY <2>1, EditTypes, Appended
<1>4. \A i \in 1..Len(posted) : posted[i][2] # e
  BY <1>1 DEF EditInv, QueuedOrPosted
<1>5. \A q \in Pollers : \A d \in Queued(q)' : what[d][2] # e
  <2> SUFFICES ASSUME NEW q \in Pollers, NEW d \in Queued(q)', what[d][2] = e
               PROVE  FALSE
    OBVIOUS
  <2>1. d \in Queued(q) /\ d # c /\ d \in 1..Len(what) /\ c \in 1..Len(what)
        /\ what[d] \in Orders
    BY <1>1, EditTypes
  <2>2. what[d][1] = op
    BY <1>2, <2>1 DEF EditInv, QueuedStage, Orders
  <2>3. what[d] = what[c]
    BY <2>1, <2>2 DEF Orders
  <2> QED BY <2>1, <2>3 DEF EditInv, WhatOnce
<1>6. WhatOnce' /\ WhatStage' /\ OpenStage' /\ OpenOnce'
  BY DEF EditInv, WhatOnce, WhatStage, OpenStage, OpenOnce
<1>7. QueuedStage'
  BY <1>1 DEF EditInv, QueuedStage
<1>8. PostedStage'
  BY <1>2, <1>3 DEF EditInv, PostedStage
<1>9. PostedOnce'
  BY <1>3, <1>4 DEF EditInv, PostedOnce
<1>10. QueuedOrPosted'
  <2> SUFFICES ASSUME NEW q \in Pollers, NEW d \in Queued(q)', NEW i \in 1..Len(posted')
               PROVE  what[d][2] # posted'[i][2]
    BY DEF QueuedOrPosted
  <2>1. CASE i \in 1..Len(posted)
    BY <1>1, <1>3, <2>1 DEF EditInv, QueuedOrPosted
  <2>2. CASE i = Len(posted) + 1
    BY <1>3, <1>5, <2>2
  <2> QED BY <1>3, <2>1, <2>2
<1> QED
  BY <1>6, <1>7, <1>8, <1>9, <1>10 DEF EditInv

\* The dialog on top closes.
LEMMA TopCloses ==
    ASSUME DialogsTypeOK, ChannelInv, EditInv, NEW e \in Edits,
           open # <<>>, open[Len(open)] = e,
           open' = SubSeq(open, 1, Len(open) - 1)
    PROVE  /\ stage[e] = "open"
           /\ Len(open') \in Nat
           /\ \A i \in 1..Len(open') : i \in 1..Len(open) /\ open'[i] = open[i]
                                       /\ open[i] # e
<1>1. /\ Len(open) \in Nat \ {0} /\ Len(open') = Len(open) - 1
      /\ \A i \in 1..(Len(open) - 1) : open'[i] = open[i] /\ i \in 1..Len(open)
  BY EditTypes, Popped
<1>2. Len(open) \in 1..Len(open)
  BY <1>1
<1>3. stage[e] = "open"
  BY <1>2 DEF EditInv, OpenStage
<1>4. ASSUME NEW i \in 1..Len(open')
      PROVE  i \in 1..Len(open) /\ open'[i] = open[i] /\ open[i] # e
  <2>1. i \in 1..Len(open) /\ open'[i] = open[i] /\ i # Len(open)
    BY <1>1
  <2> QED BY <1>2, <2>1 DEF EditInv, OpenOnce
<1> QED BY <1>1, <1>3, <1>4

\* The user closes it and nothing is posted, or the program is over.
LEMMA CloseKeepsEdits ==
    ASSUME DialogsTypeOK, ChannelInv, EditInv, NEW e \in Edits,
           open # <<>>, open[Len(open)] = e,
           open' = SubSeq(open, 1, Len(open) - 1),
           NEW s \in {"closed", "submitted"}, stage' = [stage EXCEPT ![e] = s],
           UNCHANGED <<queue, what, posted>>
    PROVE  EditInv'
<1>1. /\ stage[e] = "open" /\ Len(open') \in Nat
      /\ \A i \in 1..Len(open') : i \in 1..Len(open) /\ open'[i] = open[i]
                                  /\ open[i] # e
  BY TopCloses
<1>2. /\ stage'[e] = s
      /\ \A d \in Edits \ {e} : stage'[d] = stage[d]
  BY EditTypes
<1>3. \A p \in Pollers : Queued(p)' = Queued(p)
  BY DEF Queued
<1>4. \A i \in 1..Len(what) : what[i][2] \in Edits
  BY EditTypes DEF Orders
<1>5. \A p \in Pollers : \A c \in Queued(p) : what[c][2] \in Edits \ {e}
  BY <1>1, EditTypes DEF EditInv, QueuedStage, Orders
<1>6. \A i \in 1..Len(posted) : posted[i][2] \in Edits \ {e}
  BY <1>1, EditTypes DEF EditInv, PostedStage, Events
<1>7. WhatOnce' /\ PostedOnce'
  BY DEF EditInv, WhatOnce, PostedOnce
<1>8. WhatStage'
  BY <1>2, <1>4 DEF EditInv, WhatStage
<1>9. QueuedStage' /\ QueuedOrPosted'
  <2>1. QueuedStage'
    BY <1>2, <1>3, <1>5 DEF EditInv, QueuedStage
  <2>2. QueuedOrPosted'
    BY <1>3 DEF EditInv, QueuedOrPosted
  <2> QED BY <2>1, <2>2
<1>10. PostedStage'
  BY <1>2, <1>6 DEF EditInv, PostedStage
<1>11. OpenStage' /\ OpenOnce'
  <2>1. \A i \in 1..Len(open') : open'[i] \in Edits \ {e} /\ stage[open'[i]] = "open"
    BY <1>1, EditTypes DEF EditInv, OpenStage
  <2>2. OpenStage'
    BY <1>2, <2>1 DEF OpenStage
  <2>3. OpenOnce'
    BY <1>1 DEF EditInv, OpenOnce
  <2> QED BY <2>2, <2>3
<1> QED
  BY <1>7, <1>8, <1>9, <1>10, <1>11 DEF EditInv

\* Every step keeps an edit in one place.
LEMMA StepKeepsEdits ==
    ASSUME DialogsTypeOK, ChannelInv, EditInv, [DialogsNext]_vars
    PROVE  EditInv'
<1>1. CASE UNCHANGED vars \/ \E polled \in BOOLEAN : RestartPollers(polled)
  <2>1. UNCHANGED <<queue, what, posted, open, stage>>
    BY <1>1 DEF vars, channelVars, editVars, RestartPollers, Restart
  <2> QED BY <2>1, RestKeepsEdits DEF Queued
<1>2. ASSUME NEW e \in Edits, NEW k \in Kinds, OnEdit(e, k)
      PROVE  EditInv'
  <2>1. current \in Pollers
    BY <1>2 DEF OnEdit, ChannelInv, ChannelTypeOK
  <2>2. /\ Send(current) /\ what' = Append(what, <<"fetch", e>>)
        /\ stage' = [stage EXCEPT ![e] = "fetching"] /\ stage[e] = "unused"
        /\ UNCHANGED <<posted, open>>
    BY <1>2 DEF OnEdit
  <2>3. Len(open') \in Nat
        /\ \A i \in 1..Len(open') : i \in 1..Len(open) /\ open'[i] = open[i]
                                    /\ open[i] # e
    BY <2>2, EditTypes DEF EditInv, OpenStage
  <2> QED BY <2>1, <2>2, <2>3, PostKeepsEdits
<1>3. CASE Show \/ Tell
  BY <1>3, CallbackKeepsEdits
<1>4. ASSUME NEW e \in Edits, Dismiss(e)
      PROVE  EditInv'
  BY <1>4, CloseKeepsEdits DEF Dismiss, Close, channelVars
<1>5. ASSUME NEW e \in Edits, NEW parts, Accept(e, parts)
      PROVE  EditInv'
  <2>1. /\ open # <<>> /\ open[Len(open)] = e
        /\ open' = SubSeq(open, 1, Len(open) - 1)
        /\ stage' = [stage EXCEPT ![e] = "submitted"]
        /\ UNCHANGED posted
    BY <1>5 DEF Accept
  <2>2. CASE Send(pointer[e]) /\ what' = Append(what, <<"write", e>>)
    <3>1. pointer[e] \in Pollers
      BY <2>2 DEF DialogsTypeOK, Send
    <3> QED BY <2>1, <2>2, <3>1, TopCloses, PostKeepsEdits
  <2>3. CASE UNCHANGED <<queue, what>>
    BY <2>1, <2>3, CloseKeepsEdits
  <2> QED BY <1>5, <2>2, <2>3 DEF Accept, channelVars
<1>6. ASSUME NEW p \in Pollers, Thread(p)
      PROVE  EditInv'
  <2>1. CASE EndPoller(p)
    <3>1. UNCHANGED <<queue, what, posted, open, stage>>
      BY <2>1 DEF EndPoller, End, editVars
    <3> QED BY <3>1, RestKeepsEdits DEF Queued
  <2>2. ASSUME NEW e \in Edits, Fetch(p, e) \/ ReadApps(p, e)
        PROVE  EditInv'
    <3>1. PICK rc \in BOOLEAN :
             posted' = Append(posted, <<IF rc THEN "show" ELSE "failed", e>>)
      <4>1. read[e] \in BOOLEAN
        BY DEF DialogsTypeOK
      <4> QED BY <2>2, <4>1 DEF Fetch, ReadApps
    <3>2. /\ Execute(p, FALSE) /\ what[Head(queue[p])] = <<"fetch", e>>
          /\ UNCHANGED <<what, open, stage>>
      BY <2>2 DEF Fetch, ReadApps, NextCommand, editVars
    <3> DEFINE x == IF rc THEN "show" ELSE "failed"
    <3>3. x \in {"show", "failed"}
      OBVIOUS
    <3> HIDE DEF x
    <3>4. posted' = Append(posted, <<x, e>>)
      BY <3>1 DEF x
    <3> QED BY <3>2, <3>3, <3>4, ExecuteKeepsEdits
  <2>3. ASSUME NEW e \in Edits, ReadPrefs(p, e) \/ ReadMask(p, e)
        PROVE  EditInv'
    <3>1. UNCHANGED <<queue, what, posted, open, stage>>
      BY <2>3 DEF ReadPrefs, ReadMask, channelVars
    <3> QED BY <3>1, RestKeepsEdits DEF Queued
  <2>4. ASSUME NEW e \in Edits,
               \/ WriteConfig(p, e) \/ WriteProxy(p, e)
               \/ WritePrefs(p, e) \/ ReadConfig(p, e) \/ WriteApps(p, e)
        PROVE  EditInv'
    <3>1. /\ what[Head(queue[p])] = <<"write", e>>
          /\ UNCHANGED <<what, open, stage>>
      BY <2>4 DEF WriteConfig, WriteProxy, WritePrefs, ReadConfig, WriteApps,
         NextCommand, editVars
    <3>2. ASSUME NEW written, Execute(p, written), NEW x \in {"result", "silent"},
                 posted' = Append(posted, <<x, e>>)
          PROVE  EditInv'
      BY <3>1, <3>2, ExecuteKeepsEdits
    <3>3. CASE UNCHANGED <<channelVars, posted>>
      <4>1. UNCHANGED <<queue, posted>>
        BY <3>3 DEF channelVars
      <4> QED BY <3>1, <4>1, RestKeepsEdits DEF Queued
    <3>4. \/ UNCHANGED <<channelVars, posted>>
          \/ \E written \in BOOLEAN, x \in {"result", "silent"} :
                Execute(p, written) /\ posted' = Append(posted, <<x, e>>)
      BY <2>4 DEF WriteConfig, WriteProxy, WritePrefs, ReadConfig, WriteApps, Reported
    <3> QED BY <3>2, <3>3, <3>4
  <2> QED BY <1>6, <2>1, <2>2, <2>3, <2>4 DEF Thread
<1> QED
  BY <1>1, <1>2, <1>3, <1>4, <1>5, <1>6 DEF DialogsNext, User

----------------------------------------------------------------------------
(* What a poller holds of cc_config.                                       *)

\* A poller with a command next has been made.
LEMMA HeadQueued ==
    ASSUME ChannelInv, NEW p \in Pollers, queue[p] # <<>>
    PROVE  Head(queue[p]) \in Queued(p)
<1>1. queue[p] \in Seq(Commands)
  BY DEF ChannelInv, ChannelTypeOK
<1>2. Head(queue[p]) = queue[p][1] /\ 1 \in 1..Len(queue[p])
  BY <1>1, Rested
<1> QED BY <1>2 DEF Queued

\* Every step keeps what is held true.
LEMMA StepKeepsRest ==
    ASSUME DialogsTypeOK, ChannelInv, RestInv, [DialogsNext]_vars
    PROVE  RestInv'
<1> USE DEF RestInv
<1>1. CASE \/ UNCHANGED vars \/ Show \/ Tell
           \/ \E e \in Edits : Dismiss(e)
           \/ \E p \in Pollers : EndPoller(p)
  <2>1. UNCHANGED <<current, started, stop, queue, at, config, client>>
    BY <1>1 DEF vars, channelVars, threadVars, Show, Tell, Dismiss, EndPoller, End
  <2> QED BY <2>1 DEF OnePoller, QueuesBorn, HolderBorn, HeldIsRead
<1>2. ASSUME NEW polled \in BOOLEAN, RestartPollers(polled)
      PROVE  RestInv'
  <2>1. /\ UNCHANGED <<queue, at>>
        /\ started' = IF polled THEN started + 1 ELSE started
        /\ polled \/ current # NoPoller
        /\ stop' = IF current = NoPoller THEN stop ELSE stop \cup {current}
    BY <1>2 DEF RestartPollers, Restart, threadVars
  <2>2. stop' # {}
    BY <2>1 DEF OnePoller, NoPoller
  <2>3. started \in Pollers /\ Pollers \subseteq Nat
    BY DEF ChannelInv, ChannelTypeOK, Pollers
  <2>4. QueuesBorn' /\ HolderBorn'
    BY <2>1, <2>3 DEF QueuesBorn, HolderBorn
  <2> QED BY <2>2, <2>4 DEF OnePoller, HeldIsRead
<1>3. ASSUME NEW p \in Pollers, Send(p), UNCHANGED <<at, config, client>>
      PROVE  RestInv'
  <2>1. /\ queue \in [Pollers -> Seq(Commands)]
        /\ queue' = [queue EXCEPT ![p] = Append(@, sent + 1)]
        /\ p <= started /\ UNCHANGED <<current, started, stop>>
    BY <1>3 DEF Send, ChannelInv, ChannelTypeOK
  <2>2. \A q \in Pollers \ {p} : queue'[q] = queue[q]
    BY <2>1
  <2> QED
    BY <1>3, <2>1, <2>2 DEF OnePoller, QueuesBorn, HolderBorn, HeldIsRead
<1>4. ASSUME NEW e \in Edits, NEW k \in Kinds, OnEdit(e, k)
      PROVE  RestInv'
  <2>1. current \in Pollers /\ Send(current) /\ UNCHANGED <<at, config, client>>
    BY <1>4 DEF OnEdit, ChannelInv, ChannelTypeOK, threadVars
  <2> QED BY <1>3, <2>1
<1>5. ASSUME NEW e \in Edits, NEW parts, Accept(e, parts)
      PROVE  RestInv'
  <2>1. UNCHANGED <<at, config, client>>
    BY <1>5 DEF Accept, threadVars
  <2>2. CASE Send(pointer[e])
    <3>1. pointer[e] \in Pollers
      BY <2>2 DEF DialogsTypeOK, Send
    <3> QED BY <1>3, <2>1, <2>2, <3>1
  <2>3. CASE UNCHANGED channelVars
    BY <2>1, <2>3 DEF channelVars, OnePoller, QueuesBorn, HolderBorn, HeldIsRead
  <2> QED BY <1>5, <2>2, <2>3 DEF Accept
<1>6. ASSUME NEW p \in Pollers, NEW e \in Edits, ReadPrefs(p, e) \/ ReadMask(p, e)
      PROVE  RestInv'
  <2>1. /\ UNCHANGED <<current, started, stop, queue, config, client>>
        /\ \A q \in Pollers : at'[q] = "set" => at[q] = "set"
    BY <1>6 DEF ReadPrefs, ReadMask, channelVars, DialogsTypeOK
  <2> QED BY <2>1 DEF OnePoller, QueuesBorn, HolderBorn, HeldIsRead
\* What a poller has begun it ends before it turns to another command.
<1>7. ASSUME NEW p \in Pollers, NEW effective, Execute(p, effective),
             \A q \in Pollers \ {p} : at'[q] = at[q],
             at'[p] # "set"
      PROVE  RestInv'
  <2>1. /\ queue[p] # <<>> /\ UNCHANGED <<current, started, stop>>
        /\ \A q \in Pollers \ {p} : queue'[q] = queue[q]
    BY <1>7, ExecuteQueues DEF Execute
  <2>2. OnePoller' /\ QueuesBorn' /\ HolderBorn'
    BY <1>7, <2>1 DEF OnePoller, QueuesBorn, HolderBorn
  <2>3. HeldIsRead'
    <3> SUFFICES ASSUME stop = {}, NEW q \in Pollers \ {p}, at[q] = "set"
                 PROVE  FALSE
      BY <1>7, <2>1 DEF HeldIsRead
    <3>1. started = 1 /\ p <= 1 /\ q <= 1
      BY <2>1 DEF OnePoller, QueuesBorn, HolderBorn
    <3> QED BY <3>1, ChannelAssumption DEF Pollers
  <2> QED BY <2>2, <2>3
<1>8. ASSUME NEW p \in Pollers, NEW e \in Edits,
             \/ Fetch(p, e) \/ ReadApps(p, e)
             \/ WriteConfig(p, e) \/ WriteProxy(p, e) \/ WriteApps(p, e)
      PROVE  RestInv'
  <2>1. PICK effective : Execute(p, effective)
    BY <1>8 DEF Fetch, ReadApps, WriteConfig, WriteProxy, WriteApps
  <2>2. /\ \A q \in Pollers \ {p} : at'[q] = at[q]
        /\ at'[p] # "set"
    BY <1>8 DEF Fetch, ReadApps, WriteConfig, WriteProxy, WriteApps, NextCommand,
       threadVars, DialogsTypeOK
  <2> QED BY <1>7, <2>1, <2>2
<1>9. ASSUME NEW p \in Pollers, NEW e \in Edits, WritePrefs(p, e)
      PROVE  RestInv'
  <2>1. client'.held = client.held
    <3>1. client \in Settings
      BY DEF DialogsTypeOK
    <3> QED BY <1>9, <3>1 DEF WritePrefs, Settings
  <2>2. /\ \A q \in Pollers \ {p} : at'[q] = at[q]
        /\ at'[p] # "set" /\ UNCHANGED config
    BY <1>9 DEF WritePrefs, NextCommand, DialogsTypeOK
  <2>3. CASE UNCHANGED channelVars
    BY <2>1, <2>2, <2>3 DEF channelVars, OnePoller, QueuesBorn, HolderBorn, HeldIsRead
  <2>4. CASE \E written : Execute(p, written)
    BY <1>7, <2>2, <2>4
  <2> QED BY <1>9, <2>3, <2>4 DEF WritePrefs
<1>10. ASSUME NEW p \in Pollers, NEW e \in Edits, ReadConfig(p, e)
       PROVE  RestInv'
  <2>1. CASE /\ config' = [config EXCEPT ![p] = client.held]
             /\ at' = [at EXCEPT ![p] = "set"]
             /\ UNCHANGED channelVars
    <3>1. /\ UNCHANGED <<current, started, stop, queue, client>>
          /\ queue[p] # <<>>
      BY <1>10, <2>1 DEF channelVars, ReadConfig, NextCommand
    <3>2. \A q \in Pollers : /\ at'[q] = IF q = p THEN "set" ELSE at[q]
                             /\ config'[q] = IF q = p THEN client.held ELSE config[q]
      BY <2>1 DEF DialogsTypeOK
    <3> QED BY <3>1, <3>2 DEF OnePoller, QueuesBorn, HolderBorn, HeldIsRead
  <2>2. CASE Execute(p, FALSE) /\ at' = [at EXCEPT ![p] = "begin"]
    BY <1>7, <2>2 DEF DialogsTypeOK
  <2> QED BY <1>10, <2>1, <2>2 DEF ReadConfig, GoesOn
<1> QED
  BY <1>1, <1>2, <1>4, <1>5, <1>6, <1>8, <1>9, <1>10 DEF DialogsNext, User, Thread

----------------------------------------------------------------------------
(* Theorems.                                                               *)

\* Nothing is under way at first.
LEMMA InitDialogs == DialogsInit => DialogsInv
<1> SUFFICES ASSUME DialogsInit PROVE DialogsInv
  OBVIOUS
<1>1. Init
  BY DEF DialogsInit
<1>2. DialogsTypeOK
  <2>1. client \in Settings
    BY DialogsAssumption DEF DialogsInit, Settings
  <2>2. (CHOOSE k \in Kinds : TRUE) \in Kinds
    BY DialogsAssumption
  <2>3. sent = 0 /\ Len(<<>>) = 0
    BY <1>1 DEF Init
  <2> QED
    BY <2>1, <2>2, <2>3, DialogsAssumption DEF DialogsInit, DialogsTypeOK, Stages
<1>3. ChannelInv
  BY <1>1, InitChannel
<1>4. EditInv
  <2>1. \A p \in Pollers : Queued(p) = {}
    BY <1>1 DEF Init, Queued
  <2>2. Len(what) = 0 /\ Len(posted) = 0 /\ Len(open) = 0
    BY DEF DialogsInit
  <2> QED
    BY <2>1, <2>2 DEF EditInv, WhatOnce, WhatStage, QueuedStage, PostedStage,
       OpenStage, PostedOnce, OpenOnce, QueuedOrPosted
<1>5. RestInv
  BY <1>1 DEF DialogsInit, Init, RestInv, OnePoller, QueuesBorn, HolderBorn,
     HeldIsRead
<1> QED BY <1>2, <1>3, <1>4, <1>5 DEF DialogsInv

\* Every step keeps the invariant.
LEMMA StepKeepsDialogs == DialogsInv /\ [DialogsNext]_vars => DialogsInv'
<1> SUFFICES ASSUME DialogsInv, [DialogsNext]_vars
             PROVE  DialogsInv'
  OBVIOUS
<1>1. DialogsTypeOK /\ ChannelInv /\ ChannelTypeOK /\ EditInv /\ RestInv
  BY DEF DialogsInv, ChannelInv
<1>2. ChannelInv'
  BY <1>1, StepOfChannel, NextKeepsInv
<1>3. DialogsTypeOK' /\ EditInv' /\ RestInv'
  BY <1>1, StepKeepsDialogTypes, StepKeepsEdits, StepKeepsRest
<1> QED BY <1>2, <1>3 DEF DialogsInv

\* The types, the order of the channel's commands, the one place of every edit
\* and what a poller holds of cc_config, always.
THEOREM DialogsSafe == DialogsSpec => []DialogsInv
  BY InitDialogs, StepKeepsDialogs, PTL DEF DialogsSpec

\* The types of the state of the three dialogs, their closures and callbacks.
THEOREM DialogTypes == DialogsSpec => []DialogsTypeOK
<1>1. DialogsInv => DialogsTypeOK
  BY DEF DialogsInv
<1> QED BY <1>1, DialogsSafe, PTL

\* The dialogs use the pollers as CommandChannel says: what it promises of the
\* commands of any user holds of theirs.
THEOREM DialogsUseChannel == DialogsSpec => Spec
<1>1. DialogsInit => Init
  BY DEF DialogsInit
<1>2. DialogsInv /\ [DialogsNext]_vars => [Next]_channelVars
  BY StepOfChannel DEF DialogsInv, ChannelInv
<1> QED BY <1>1, <1>2, DialogsSafe, PTL DEF DialogsSpec, Spec

\* A step that unpins a preference is the write of an edit that could not have
\* kept it: set_global_prefs_override_struct with the mask of the dialog.
LEMMA StepKeepsOverrides ==
    ASSUME DialogsInv, [DialogsNext]_vars, NEW f \in client.override \ client'.override
    PROVE  \E e \in Edits : stage[e] = "submitted" /\ f \notin mask[e]
<1> USE DEF DialogsInv
<1>1. client \in Settings
  BY DEF DialogsTypeOK
<1>2. PICK p \in Pollers, e \in Edits : WritePrefs(p, e)
  <2>1. client' # client
    OBVIOUS
  <2>2. \A p \in Pollers, e \in Edits :
           WriteConfig(p, e) \/ WriteProxy(p, e) \/ WriteApps(p, e) =>
              client'.override = client.override
    BY <1>1 DEF WriteConfig, WriteProxy, WriteApps, Settings
  <2> QED
    BY <2>1, <2>2 DEF DialogsNext, User, Thread, vars, OnEdit, Dismiss, Accept,
       RestartPollers, Show, Tell, Fetch, ReadPrefs, ReadMask, ReadApps, ReadConfig,
       EndPoller
<1>3. /\ queue[p] # <<>> /\ what[Head(queue[p])] = <<"write", e>>
      /\ client' = [client EXCEPT !.override = MaskOf(e)]
  BY <1>2 DEF WritePrefs, NextCommand
<1>4. stage[e] = "submitted"
  BY <1>3, HeadQueued DEF EditInv, QueuedStage
<1>5. f \notin MaskOf(e)
  BY <1>1, <1>3 DEF Settings
<1> QED BY <1>4, <1>5 DEF MaskOf

\* A preference overridden on the client stays so through a write that did not
\* touch it, if the dialog read the mask and found it there.
THEOREM OverridesAlwaysKept == DialogsSpec => OverridesKept
<1>1. DialogsInv /\ [DialogsNext]_vars =>
        [\A f \in client.override \ client'.override :
            \E e \in Edits : stage[e] = "submitted" /\ f \notin mask[e]]_vars
  BY StepKeepsOverrides
<1> QED BY <1>1, DialogsSafe, PTL DEF DialogsSpec, OverridesKept

\* A step that changes what CC_CONFIG holds of cc_config is the editor's, or
\* there is a retired poller: WriteApps puts back what it holds, which nothing
\* else changed.
LEMMA StepKeepsRestOfConfig ==
    ASSUME DialogsInv, [DialogsNext]_vars, client'.held # client.held, stop = {}
    PROVE  \E e \in Edits : stage[e] = "submitted" /\ kind[e] = "config"
<1> USE DEF DialogsInv
<1>1. client \in Settings
  BY DEF DialogsTypeOK
<1>2. PICK p \in Pollers, e \in Edits : WriteConfig(p, e)
  <2>1. client' # client
    OBVIOUS
  <2>2. \A p \in Pollers, e \in Edits :
           WritePrefs(p, e) \/ WriteProxy(p, e) => client'.held = client.held
    BY <1>1 DEF WritePrefs, WriteProxy, Settings
  <2>3. ASSUME NEW p \in Pollers, NEW e \in Edits, WriteApps(p, e)
        PROVE  client'.held = client.held
    <3>1. config[p] = client.held
      BY <2>3 DEF WriteApps, NextCommand, RestInv, HeldIsRead
    <3>2. \/ client' = client
          \/ client' = [client EXCEPT !.held = config[p], !.other = Dropped]
      BY <2>3 DEF WriteApps, HeldAsRead
    <3> QED BY <1>1, <3>1, <3>2 DEF Settings
  <2> QED
    BY <2>1, <2>2, <2>3 DEF DialogsNext, User, Thread, vars, OnEdit, Dismiss,
       Accept, RestartPollers, Show, Tell, Fetch, ReadPrefs, ReadMask, ReadApps,
       ReadConfig, EndPoller
<1>3. /\ queue[p] # <<>> /\ what[Head(queue[p])] = <<"write", e>>
      /\ kind[e] = "config"
  BY <1>2 DEF WriteConfig, NextCommand
<1>4. stage[e] = "submitted"
  BY <1>3, HeadQueued DEF EditInv, QueuedStage
<1> QED BY <1>3, <1>4

\* Until a poller is retired, the write of the exclusive applications leaves
\* what CC_CONFIG holds of the file as the client has it, whatever was written
\* between the dialog's fetch and its OK.  What the struct does not hold is
\* dropped, and nothing is claimed of it.
THEOREM AppsWriteAlwaysKeepsRest == DialogsSpec => AppsWriteKeepsRest
<1>1. DialogsInv /\ [DialogsNext]_vars =>
        [client'.held # client.held =>
            stop # {} \/ \E e \in Edits : stage[e] = "submitted"
                                         /\ kind[e] = "config"]_vars
  BY StepKeepsRestOfConfig
<1> QED BY <1>1, DialogsSafe, PTL DEF DialogsSpec, AppsWriteKeepsRest
=============================================================================
