---------------------------- MODULE CommandChannel ----------------------------
(***************************************************************************)
(* What BtPoller promises about the commands of the frame (bt_poller.h):   *)
(* each poller executes what was posted to it in order and at most once; a *)
(* command may be lost on the way to the client, and those a poller has    *)
(* not come to when it ends are lost with it.  Pollers of one computer     *)
(* follow each other; a retired one may still be executing.                *)
(***************************************************************************)
EXTENDS Integers, Sequences

CONSTANTS
    MaxPollers,   \* bound: pollers made for the computer
    MaxCommands   \* bound: commands posted

ASSUME ChannelAssumption ==
    MaxPollers \in Nat \ {0} /\ MaxCommands \in Nat

Pollers  == 1..MaxPollers
Commands == 1..MaxCommands
NoPoller == 0

VARIABLES
    current,    \* the poller m_pollerByName has for the computer
    started,    \* pollers made so far
    stop,       \* pollers told to stop
    ended,      \* those whose thread is over
    sent,       \* commands posted so far
    queue,      \* posted to each poller and not yet executed
    executed    \* what the client has executed: <<poller, command>>

channelVars == <<current, started, stop, ended, sent, queue, executed>>

----------------------------------------------------------------------------

\* Post, on whichever poller the caller holds a pointer to.
Send(p) ==
    /\ p # NoPoller /\ p <= started
    /\ sent < MaxCommands
    /\ sent' = sent + 1
    /\ queue' = [queue EXCEPT ![p] = Append(@, sent + 1)]
    /\ UNCHANGED <<current, started, stop, ended, executed>>

\* The next command leaves the queue, with or without effect.
Execute(p, effective) ==
    /\ p \notin ended
    /\ queue[p] # <<>>
    /\ queue' = [queue EXCEPT ![p] = Tail(@)]
    /\ executed' = IF effective THEN Append(executed, <<p, Head(queue[p])>>)
                                ELSE executed
    /\ UNCHANGED <<current, started, stop, ended, sent>>

\* StopPollers, then StartPollers if the computer is still to be polled.
Restart(polled) ==
    /\ polled \/ current # NoPoller
    /\ polled => started < MaxPollers
    /\ stop' = IF current = NoPoller THEN stop ELSE stop \cup {current}
    /\ started' = IF polled THEN started + 1 ELSE started
    /\ current' = IF polled THEN started + 1 ELSE NoPoller
    /\ UNCHANGED <<ended, sent, queue, executed>>

\* Run returns, and only in a poller told to stop.
End(p) ==
    /\ p \in stop \ ended
    /\ ended' = ended \cup {p}
    /\ UNCHANGED <<current, started, stop, sent, queue, executed>>

----------------------------------------------------------------------------

Init ==
    /\ current = 1
    /\ started = 1
    /\ stop = {}
    /\ ended = {}
    /\ sent = 0
    /\ queue = [p \in Pollers |-> <<>>]
    /\ executed = <<>>

Next ==
    \/ \E p \in Pollers : Send(p)
    \/ \E p \in Pollers, effective \in BOOLEAN : Execute(p, effective)
    \/ \E polled \in BOOLEAN : Restart(polled)
    \/ \E p \in Pollers : End(p)

Spec == Init /\ [][Next]_channelVars

----------------------------------------------------------------------------
(* Properties.                                                             *)

\* The client executes the commands of one poller in the order they were
\* posted.
InOrder ==
    \A i, j \in DOMAIN executed :
        i < j /\ executed[i][1] = executed[j][1] => executed[i][2] < executed[j][2]

\* It executes no command twice, were it for two pollers.
AtMostOnce ==
    \A i, j \in DOMAIN executed : executed[i][2] = executed[j][2] => i = j

----------------------------------------------------------------------------
(* The invariant the two follow from.                                      *)

ChannelTypeOK ==
    /\ current \in Pollers \cup {NoPoller} /\ started \in Pollers
    /\ stop \subseteq Pollers /\ ended \subseteq stop
    /\ sent \in 0..MaxCommands
    /\ queue \in [Pollers -> Seq(Commands)]
    /\ executed \in Seq(Pollers \X Commands)

\* Each queue is in the order of posting, and no command is in two.
QueuesInOrder ==
    \A p \in Pollers : \A i, j \in 1..Len(queue[p]) :
        i < j => queue[p][i] < queue[p][j]

QueuesDisjoint ==
    \A p, q \in Pollers : \A i \in 1..Len(queue[p]), j \in 1..Len(queue[q]) :
        queue[p][i] = queue[q][j] => p = q

\* Nothing is queued or executed that was not posted.
OnlySent ==
    /\ \A p \in Pollers : \A i \in 1..Len(queue[p]) : queue[p][i] <= sent
    /\ \A i \in 1..Len(executed) : executed[i][2] <= sent

\* What was executed is not queued any more, nor anything posted before it to
\* the same poller.
ExecutedFirst ==
    \A i \in 1..Len(executed) : \A p \in Pollers : \A j \in 1..Len(queue[p]) :
        /\ executed[i][2] # queue[p][j]
        /\ executed[i][1] = p => executed[i][2] < queue[p][j]

ChannelInv ==
    /\ ChannelTypeOK
    /\ QueuesInOrder /\ QueuesDisjoint /\ OnlySent /\ ExecutedFirst
    /\ InOrder /\ AtMostOnce
=============================================================================
