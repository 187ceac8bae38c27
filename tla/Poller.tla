------------------------------- MODULE Poller -------------------------------
(***************************************************************************)
(* BtPoller::Run (bt_poller.cpp) against one BOINC client that goes down,  *)
(* comes back, restarts or drops its connections: connecting, the queue of *)
(* commands the frame posts, the refresh of the client's state, the        *)
(* incremental messages and the snapshots.  Retired pollers of the same    *)
(* computer overlap with the poller that follows them, as in Fleet.        *)
(***************************************************************************)
EXTENDS Integers, Sequences, SequencesExt

CONSTANTS
    StateEvery,     \* rounds between two refreshes of the state
    LogMax,         \* messages a poller keeps
    MaxStarts,      \* bound: pollers made for the computer
    MaxCommands,    \* bound: commands posted
    MaxSessions,    \* bound: times the client's connections are cut, plus one
    MaxLogged,      \* bound: messages of the client between two restarts
    MaxPosted,      \* bound: callbacks waiting in the event queue
    DownUsed,       \* whether the client goes down
    DeafUsed        \* whether it may answer connections and nothing else

ASSUME PollerAssumption ==
    /\ StateEvery \in Nat \ {0} /\ LogMax \in Nat \ {0}
    /\ MaxStarts \in Nat \ {0} /\ MaxCommands \in Nat
    /\ MaxSessions \in Nat \ {0} /\ MaxLogged \in Nat
    /\ MaxPosted \in Nat \ {0}
    /\ DownUsed \in BOOLEAN /\ DeafUsed \in BOOLEAN

Pollers  == 1..MaxStarts
Commands == 1..MaxCommands
NoPoller == 0

VARIABLES
    client,     \* "up", "down", or "deaf": it accepts connections only
    session,    \* a connection lives as long as the session it was made in
    boot,       \* the client's start; it numbers its messages from 1 in each
    logged,     \* messages of this boot
    ops,        \* commands the client has executed: <<poller, command>>
    current,    \* the poller m_pollerByName has for the computer
    started,    \* pollers made so far
    stop,       \* pollers told to stop
    sent,       \* commands posted so far
    shown,      \* what the sidebar says: "nothing", "connected" or "down"
    posted,     \* CallAfter callbacks: snap->connected of each snapshot
    pc,         \* where each poller's Run is
    connection, \* the session of its RPC_CLIENT, 0 for not connected
    m_commands, \* the queue shared with the frame, under m_cmdMutex
    pending,    \* the commands taken from it
    stateAge,
    view,       \* ops the state it holds has seen
    lastSeqno,
    msgLog      \* messages: <<boot, seqno>>

clientVars == <<client, session, boot, logged>>
frameVars  == <<current, started, stop, sent, shown>>
roundVars  == <<stateAge, view, lastSeqno, msgLog>>
vars == <<client, session, boot, logged, ops, current, started, stop, sent,
          shown, posted, pc, connection, m_commands, pending, stateAge, view,
          lastSeqno, msgLog>>

----------------------------------------------------------------------------
(* The client: not part of the program.                                    *)

\* Its machine or its network goes away; every connection is gone.
GoDown ==
    /\ DownUsed
    /\ client # "down"
    /\ session < MaxSessions
    /\ client' = "down"
    /\ session' = session + 1
    /\ UNCHANGED <<boot, logged, ops, frameVars, posted, pc, connection,
                   m_commands, pending, roundVars>>

\* It is back; if it was started anew its messages start again at 1.
ComeUp(anew) ==
    /\ client # "up"
    /\ anew => client = "down"
    /\ client' = "up"
    /\ boot' = IF anew THEN boot + 1 ELSE boot
    /\ logged' = IF anew THEN 0 ELSE logged
    /\ UNCHANGED <<session, ops, frameVars, posted, pc, connection, m_commands,
                   pending, roundVars>>

\* It still shakes hands but answers no request for its state in time.
GoDeaf ==
    /\ DeafUsed
    /\ client = "up"
    /\ client' = "deaf"
    /\ UNCHANGED <<session, boot, logged, ops, frameVars, posted, pc, connection,
                   m_commands, pending, roundVars>>

LogMessage ==
    /\ client # "down"
    /\ logged < MaxLogged
    /\ logged' = logged + 1
    /\ UNCHANGED <<client, session, boot, ops, frameVars, posted, pc, connection,
                   m_commands, pending, roundVars>>

\* Does the poller's connection reach it, and does an RPC succeed?
Reaches(p) == client # "down" /\ connection[p] = session
Answers(p) == client = "up" /\ connection[p] = session

----------------------------------------------------------------------------
(* The frame.                                                              *)

\* Any operation of the menus or of a rule: Post on the poller of the index.
Post ==
    /\ current # NoPoller
    /\ sent < MaxCommands
    /\ sent' = sent + 1
    /\ m_commands' = [m_commands EXCEPT ![current] = Append(@, sent + 1)]
    /\ UNCHANGED <<clientVars, ops, current, started, stop, shown, posted, pc,
                   connection, pending, roundVars>>

\* StopPollers, then StartPollers if the computer is still to be polled.
Restart(polled) ==
    /\ polled \/ current # NoPoller
    /\ polled => started < MaxStarts
    /\ stop' = IF current = NoPoller THEN stop ELSE stop \cup {current}
    /\ started' = IF polled THEN started + 1 ELSE started
    /\ current' = IF polled THEN started + 1 ELSE NoPoller
    /\ pc' = IF polled THEN [pc EXCEPT ![started + 1] = "top"] ELSE pc
    /\ UNCHANGED <<clientVars, ops, sent, shown, posted, connection, m_commands,
                   pending, roundVars>>

\* The callback marks the computer.
HandleSnapshot ==
    /\ posted # <<>>
    /\ shown' = Head(posted)
    /\ posted' = Tail(posted)
    /\ UNCHANGED <<clientVars, ops, current, started, stop, sent, pc, connection,
                   m_commands, pending, roundVars>>

----------------------------------------------------------------------------
(* Run.                                                                    *)

\* The loop's test; init and authorize when there is no connection.
Connect(p) ==
    /\ pc[p] = "top"
    /\ IF p \in stop
       THEN pc' = [pc EXCEPT ![p] = "over"] /\ UNCHANGED <<connection, stateAge>>
       ELSE IF connection[p] # 0
       THEN pc' = [pc EXCEPT ![p] = "take"] /\ UNCHANGED <<connection, stateAge>>
       ELSE IF client # "down"
       THEN /\ pc' = [pc EXCEPT ![p] = "take"]
            /\ connection' = [connection EXCEPT ![p] = session]
            /\ stateAge' = [stateAge EXCEPT ![p] = StateEvery]
       ELSE pc' = [pc EXCEPT ![p] = "refused"] /\ UNCHANGED <<connection, stateAge>>
    /\ UNCHANGED <<clientVars, ops, frameVars, posted, m_commands, pending, view,
                   lastSeqno, msgLog>>

\* The test of m_stop before a delivery.  What it lets pass is delivered
\* whatever the frame does in between.
PastTest(p, delivery) ==
    pc' = [pc EXCEPT ![p] = IF p \in stop THEN "over" ELSE delivery]

\* Mutant: a poller that cannot connect gives up.
RefusedGivesUp(p) == pc' = [pc EXCEPT ![p] = "over"]

\* No connection: a snapshot is to say so.
Refused(p) == PastTest(p, "tellDown")

PollDown(p) ==
    /\ pc[p] = "refused"
    /\ Refused(p)
    /\ UNCHANGED <<clientVars, ops, frameVars, posted, connection, m_commands,
                   pending, roundVars>>

\* Mutant: the queue is copied and not emptied.
LeftInQueueAll(p) == m_commands[p]

\* What the swap leaves in the shared queue.
LeftInQueue(p) == <<>>

Take(p) ==
    /\ pc[p] = "take"
    /\ pending' = [pending EXCEPT ![p] = m_commands[p]]
    /\ m_commands' = [m_commands EXCEPT ![p] = LeftInQueue(p)]
    /\ pc' = [pc EXCEPT ![p] = IF m_commands[p] = <<>> THEN "state" ELSE "run"]
    /\ UNCHANGED <<clientVars, ops, frameVars, posted, connection, roundVars>>

\* Mutant: the state keeps its age.
AgeAfterCommandsKept(p) == stateAge[p]

\* Commands ask for a refresh.
AgeAfterCommands(p) == StateEvery

\* One command; nobody looks at what its RPC returns.
Run(p) ==
    /\ pc[p] = "run"
    /\ \/ Reaches(p)  /\ ops' = Append(ops, <<p, Head(pending[p])>>)
       \/ ~Answers(p) /\ UNCHANGED ops
    /\ pending' = [pending EXCEPT ![p] = Tail(@)]
    /\ IF Len(pending[p]) = 1
       THEN /\ pc' = [pc EXCEPT ![p] = "state"]
            /\ stateAge' = [stateAge EXCEPT ![p] = AgeAfterCommands(p)]
       ELSE UNCHANGED <<pc, stateAge>>
    /\ UNCHANGED <<clientVars, frameVars, posted, connection, m_commands, view,
                   lastSeqno, msgLog>>

\* Mutant: a failed request leaves the connection as it is.
AfterFailureKept(p) == connection[p]

\* A failed request drops the connection; no snapshot is sent for the round.
AfterFailure(p) == 0

\* Mutant: the request is tried again without going round the loop.
FailRetries(p) ==
    /\ connection' = [connection EXCEPT ![p] = AfterFailure(p)]
    /\ pc' = pc

Fail(p) ==
    /\ connection' = [connection EXCEPT ![p] = AfterFailure(p)]
    /\ pc' = [pc EXCEPT ![p] = "top"]

\* get_state, when it is due.
GetState(p) ==
    /\ pc[p] = "state"
    /\ LET due == stateAge[p] >= StateEvery
       IN  IF due /\ ~Answers(p)
           THEN Fail(p) /\ UNCHANGED <<stateAge, view>>
           ELSE /\ pc' = [pc EXCEPT ![p] = "results"]
                /\ stateAge' = [stateAge EXCEPT ![p] = IF due THEN 1 ELSE @ + 1]
                /\ view' = [view EXCEPT ![p] = IF due THEN Len(ops) ELSE @]
                /\ UNCHANGED connection
    /\ UNCHANGED <<clientVars, ops, frameVars, posted, m_commands, pending,
                   lastSeqno, msgLog>>

\* get_results.
GetResults(p) ==
    /\ pc[p] = "results"
    /\ IF Answers(p)
       THEN pc' = [pc EXCEPT ![p] = "messages"] /\ UNCHANGED connection
       ELSE Fail(p)
    /\ UNCHANGED <<clientVars, ops, frameVars, posted, m_commands, pending,
                   roundVars>>

\* Mutant: the newest message known is taken again.
NewerOrSame(p) == {i \in 1..logged : i >= lastSeqno[p]}

Newer(p) == {i \in 1..logged : i > lastSeqno[p]}

\* Mutant: the log is never trimmed.
TrimmedNot(s) == s

\* The newest LogMax messages.
Trimmed(s) == IF Len(s) <= LogMax THEN s ELSE SubSeq(s, Len(s) - LogMax + 1, Len(s))

\* A set of numbers in their order, as the one sequence it gives.
Ordered(S) ==
    {f \in [1..Cardinality(S) -> S] : \A i, j \in DOMAIN f : i < j => f[i] < f[j]}

\* get_messages after lastSeqno; its failure, and that of the RPCs around it,
\* is ignored.
GetMessages(p) ==
    /\ pc[p] = "messages"
    /\ pc' = [pc EXCEPT ![p] = "deliver"]
    /\ IF Answers(p) /\ Newer(p) # {}
       THEN \E new \in Ordered(Newer(p)) :
               /\ lastSeqno' = [lastSeqno EXCEPT ![p] = new[Len(new)]]
               /\ msgLog' = [msgLog EXCEPT
                     ![p] = Trimmed(@ \o [i \in DOMAIN new |-> <<boot, new[i]>>])]
       ELSE UNCHANGED <<lastSeqno, msgLog>>
    /\ UNCHANGED <<clientVars, ops, frameVars, posted, connection, m_commands,
                   pending, stateAge, view>>

\* The end of a round that got its results.
EndRound(p) ==
    /\ pc[p] = "deliver"
    /\ PastTest(p, "tellUp")
    /\ UNCHANGED <<clientVars, ops, frameVars, posted, connection, m_commands,
                   pending, roundVars>>

\* m_onSnapshot, by a poller that may have been retired since it tested
\* m_stop.  The wait that follows is cut short by a command or the flag.
Deliver(p) ==
    /\ pc[p] \in {"tellDown", "tellUp"}
    /\ Len(posted) < MaxPosted
    /\ posted' = Append(posted, IF pc[p] = "tellUp" THEN "connected" ELSE "down")
    /\ pc' = [pc EXCEPT ![p] = "top"]
    /\ UNCHANGED <<clientVars, ops, frameVars, connection, m_commands, pending,
                   roundVars>>

----------------------------------------------------------------------------

Init ==
    /\ client \in IF DownUsed THEN {"up", "down"} ELSE {"up"}
    /\ session = 1
    /\ boot = 1
    /\ logged \in 0..MaxLogged
    /\ ops = <<>>
    /\ current = 1
    /\ started = 1
    /\ stop = {}
    /\ sent = 0
    /\ shown = "nothing"
    /\ posted = <<>>
    /\ pc = [p \in Pollers |-> IF p = 1 THEN "top" ELSE "unborn"]
    /\ connection = [p \in Pollers |-> 0]
    /\ m_commands = [p \in Pollers |-> <<>>]
    /\ pending = [p \in Pollers |-> <<>>]
    /\ stateAge = [p \in Pollers |-> StateEvery]
    /\ view = [p \in Pollers |-> 0]
    /\ lastSeqno = [p \in Pollers |-> 0]
    /\ msgLog = [p \in Pollers |-> <<>>]

Round(p) ==
    \/ Connect(p) \/ PollDown(p) \/ Take(p) \/ Run(p) \/ GetState(p)
    \/ GetResults(p) \/ GetMessages(p) \/ EndRound(p) \/ Deliver(p)

Client == GoDown \/ (\E anew \in BOOLEAN : ComeUp(anew)) \/ GoDeaf \/ LogMessage

Next ==
    \/ Client
    \/ Post \/ (\E polled \in BOOLEAN : Restart(polled)) \/ HandleSnapshot
    \/ \E p \in Pollers : Round(p)

Spec == Init /\ [][Next]_vars

\* Threads run and the frame's event loop turns.  Fairness of a round is
\* strong because MaxPosted, which the program does not have, may hold up a
\* delivery.  Nothing obliges the client to come back.
FairSpec ==
    /\ Spec
    /\ WF_vars(HandleSnapshot)
    /\ \A p \in Pollers : SF_vars(Round(p))

----------------------------------------------------------------------------
(* Properties.                                                             *)

TypeOK ==
    /\ client \in {"up", "down", "deaf"}
    /\ session \in 1..MaxSessions /\ boot \in 1..(MaxSessions + 1)
    /\ logged \in 0..MaxLogged
    /\ ops \in Seq(Pollers \X Commands)
    /\ current \in Pollers \cup {NoPoller} /\ started \in Pollers
    /\ stop \subseteq Pollers
    /\ sent \in 0..MaxCommands
    /\ shown \in {"nothing", "connected", "down"}
    /\ posted \in Seq({"connected", "down"})
    /\ pc \in [Pollers -> {"unborn", "top", "refused", "take", "run", "state",
                           "results", "messages", "deliver", "tellDown",
                           "tellUp", "over"}]
    /\ connection \in [Pollers -> 0..MaxSessions]
    /\ m_commands \in [Pollers -> Seq(Commands)]
    /\ pending \in [Pollers -> Seq(Commands)]
    /\ stateAge \in [Pollers -> 1..StateEvery]
    /\ view \in [Pollers -> Nat]
    /\ lastSeqno \in [Pollers -> 0..MaxLogged]
    /\ msgLog \in [Pollers -> Seq((1..(MaxSessions + 1)) \X (1..MaxLogged))]
    /\ \A p \in Pollers : Len(msgLog[p]) <= LogMax

\* What the frame's commands are worth through all this: a queue per poller,
\* emptied in order, each command executed at most once or lost, whatever the
\* swap under the lock, the connection and the refreshes do meanwhile.
Channel == INSTANCE CommandChannel WITH
    MaxPollers <- MaxStarts,
    ended <- {p \in Pollers : pc[p] = "over"},
    queue <- [p \in Pollers |-> pending[p] \o m_commands[p]],
    executed <- ops

ImplementsChannel == Channel!Spec

\* A snapshot about to be delivered shows a state fetched after every command
\* its poller has run.
FreshAfterCommand ==
    \A p \in Pollers : pc[p] \in {"deliver", "tellUp"} =>
        \A i \in DOMAIN ops : ops[i][1] = p => i <= view[p]

\* The messages kept of one run of the client are consecutive: dropping the
\* oldest, reconnecting and ignored failures leave no hole and no repetition.
NoMessageMissed ==
    \A p \in Pollers : \A i \in 1..(Len(msgLog[p]) - 1) :
        \/ msgLog[p][i + 1][1] > msgLog[p][i][1]
        \/ msgLog[p][i + 1] = <<msgLog[p][i][1], msgLog[p][i][2] + 1>>

\* A client that stays down is shown as down for as long as its computer is
\* polled, whatever the pollers retired meanwhile still deliver.  One that is
\* deaf is not: a round that fails after connecting delivers nothing.
DownIsShown ==
    <>[](client = "down" /\ current # NoPoller) => <>[](shown = "down")

\* A client that stays up is shown as connected.
UpIsShown ==
    <>[](client = "up" /\ current # NoPoller) => <>[](shown = "connected")

\* A poller told to stop ends, whatever its client does.
RetiredEnd == \A p \in Pollers : p \in stop ~> pc[p] = "over"
=============================================================================
