------------------------------- MODULE Fleet -------------------------------
(***************************************************************************)
(* The fleet of poller threads kept by MainFrame (bt_main.cpp): one        *)
(* BtPoller per enabled computer, owned by m_pollers and indexed by        *)
(* computer name in m_pollerByName.  A change to the list retires every    *)
(* poller and starts a new generation.  A poller hands its snapshots to    *)
(* the GUI thread through CallAfter, so a snapshot taken by a poller may   *)
(* be stored after that poller was retired.                                *)
(*                                                                         *)
(* The GUI thread runs one handler at a time, from the moment its dialog   *)
(* closed: each handler is one action.  Poller threads interleave freely.  *)
(***************************************************************************)
EXTENDS Integers, Sequences

CONSTANTS
    Entries,      \* the BtComputer objects m_computers may hold
    Names,        \* computer names; equal up to case is one name here
    Addrs,        \* host and port of a client
    LocalAddr,    \* the client on this machine
    MaxStarts,    \* bound: how often StartPollers runs
    MaxPosted,    \* bound: callbacks waiting in the event queue
    ImportUsed,   \* whether the classic import is used at all
    Unlisted,     \* the value of an entry that is not in m_computers
    NoPoller      \* a name m_pollerByName has no poller for

ASSUME FleetAssumption ==
    /\ LocalAddr \in Addrs
    /\ MaxStarts \in Nat \ {0}
    /\ MaxPosted \in Nat
    /\ ImportUsed \in BOOLEAN
    /\ Unlisted \notin [name : Names, addr : Addrs, enabled : BOOLEAN]
    /\ NoPoller \notin (1..MaxStarts) \X Entries
    /\ NoPoller \notin [connected : BOOLEAN]
    /\ NoPoller \notin Names

Computer == [name : Names, addr : Addrs, enabled : BOOLEAN]
List     == [Entries -> Computer \cup {Unlisted}]

\* What a poller copies from its computer.
Client == [name : Names, addr : Addrs]
ClientOf(c) == [name |-> c.name, addr |-> c.addr]

\* A poller is named by the StartPollers call that made it and by its entry.
Poller == (1..MaxStarts) \X Entries

\* Where a poller's thread is.  "poll": between the loop's test of m_stop and
\* the test before delivery, in an RPC or asleep.  "send": past that test.
\* "ended": Run returned.  "gone": joined and destroyed.
ThreadState == {"unborn", "poll", "send", "ended", "gone"}

\* What of a snapshot the sidebar shows.
Snapshot == [connected : BOOLEAN]

NoSnapshot == NoPoller

VARIABLES
    computers,     \* m_computers
    started,       \* StartPollers calls so far
    m_pollers,     \* the pollers the frame owns
    m_pollerByName,
    target,        \* the copy of its computer each poller was made with
    stop,          \* pollers whose m_stop is set
    thread,        \* each poller's thread
    posted,        \* CallAfter callbacks not yet run, oldest first
    m_snapshots,
    m_treeItems,   \* the sidebar: each name's item and its marker
    alive,         \* *m_alive
    quit           \* what became of "stop the client on exit"

fleetVars  == <<computers, started, m_pollers, m_pollerByName, target>>
threadVars == <<stop, thread, posted>>
viewVars   == <<m_snapshots, m_treeItems>>
vars == <<computers, started, m_pollers, m_pollerByName, target,
          stop, thread, posted, m_snapshots, m_treeItems, alive, quit>>

----------------------------------------------------------------------------
(* The list of computers.                                                  *)

Listed(list)  == {e \in Entries : list[e] # Unlisted}
Enabled(list) == {e \in Listed(list) : list[e].enabled}
NamesOf(list) == {list[e].name : e \in Listed(list)}
EnabledNames(list) == {list[e].name : e \in Enabled(list)}

UniqueIn(list) ==
    \A e, f \in Listed(list) : list[e].name = list[f].name => e = f

\* Mutant: no handler compares names.
NameTakenUnasked(list, name, except) == FALSE

\* Is the name that of a listed computer other than those called except?
NameTaken(list, name, except) ==
    \E e \in Listed(list) : list[e].name = name /\ list[e].name # except

\* The list with new computers appended.
Grown(list) ==
    {longer \in List : \A e \in Listed(list) : longer[e] = list[e]}

Added(list, longer) == Listed(longer) \ Listed(list)

\* The add dialog and the scan make computers that are enabled.
AddedEnabled(list, longer) == \A e \in Added(list, longer) : longer[e].enabled

\* The sidebar as RebuildTree draws it.
TreeOf(list, snapshots) ==
    [n \in Names |->
        IF n \notin EnabledNames(list) THEN "absent"
        ELSE IF snapshots[n] # NoSnapshot /\ ~snapshots[n].connected
             THEN "down" ELSE "up"]

Erase(snapshots, names) ==
    [n \in Names |-> IF n \in names THEN NoSnapshot ELSE snapshots[n]]

\* The snapshot stored under old moves to new.
Rename(snapshots, old, new) ==
    IF old = new \/ snapshots[old] = NoSnapshot THEN snapshots
    ELSE [snapshots EXCEPT ![new] = snapshots[old], ![old] = NoSnapshot]

----------------------------------------------------------------------------
(* Starting and retiring pollers.                                          *)

\* Mutant: StopPollers leaves m_pollerByName as it is.
StaleIndex == m_pollerByName

\* Mutant: StopPollers signals no poller before it lets them go.
SignalNone == stop

EmptyIndex == [n \in Names |-> NoPoller]

\* Every poller owned has been told to stop.
SignalAll == stop \cup m_pollers

\* One poller for each enabled computer of list, on top of the pollers kept
\* and the index as it stands.  Of two computers with one name, the index
\* holds the later in list order; entries are unordered here, so either.
StartPollers(list, kept, index) ==
    LET born == {<<started + 1, e>> : e \in Enabled(list)}
        called(n) == {p \in born : list[p[2]].name = n}
    IN  /\ started < MaxStarts
        /\ started' = started + 1
        /\ m_pollers' = kept \cup born
        /\ m_pollerByName' \in
             {f \in [Names -> Poller \cup {NoPoller}] :
                \A n \in Names : IF called(n) = {} THEN f[n] = index[n]
                                                   ELSE f[n] \in called(n)}
        /\ target' = [p \in Poller |->
                        IF p \in born
                        THEN ClientOf(list[p[2]]) ELSE target[p]]
        /\ thread' = [p \in Poller |-> IF p \in born THEN "poll" ELSE thread[p]]

\* StopPollers, then StartPollers.  The retired pollers belong to a detached
\* thread from here on.
Restart(list) ==
    /\ stop' = SignalAll
    /\ StartPollers(list, {}, EmptyIndex)

\* What every handler that changes the list does with its result.
Commit(list, snapshots) ==
    /\ computers' = list
    /\ m_snapshots' = snapshots
    /\ m_treeItems' = TreeOf(list, snapshots)
    /\ Restart(list)
    /\ UNCHANGED <<posted, alive, quit>>

----------------------------------------------------------------------------
(* The GUI thread's handlers.                                              *)

AddComputer ==
    \E longer \in Grown(computers) :
        /\ alive
        /\ \E e \in Entries : Added(computers, longer) = {e}
        /\ AddedEnabled(computers, longer)
        /\ \A e \in Added(computers, longer) :
              ~NameTaken(computers, longer[e].name, NoPoller)
        /\ Commit(longer, m_snapshots)

RemoveComputers(names) ==
    /\ alive
    /\ Commit([e \in Entries |->
                 IF e \in Listed(computers) /\ computers[e].name \in names
                 THEN Unlisted ELSE computers[e]],
              Erase(m_snapshots, names))

EnableComputers(names, on) ==
    /\ alive
    /\ Commit([e \in Entries |->
                 IF e \in Listed(computers) /\ computers[e].name \in names
                 THEN [computers[e] EXCEPT !.enabled = on] ELSE computers[e]],
              IF on THEN m_snapshots ELSE Erase(m_snapshots, names))

\* The edit dialog.  Its result has enabled set whatever the entry had.
EditComputer(e, name, addr) ==
    /\ alive
    /\ e \in Listed(computers)
    /\ ~NameTaken(computers, name, computers[e].name)
    /\ Commit([computers EXCEPT
                 ![e] = [name |-> name, addr |-> addr, enabled |-> TRUE]],
              Rename(m_snapshots, computers[e].name, name))

\* A cell of the Computers tab: the name.
EditName(e, name) ==
    /\ alive
    /\ e \in Listed(computers)
    /\ name # computers[e].name
    /\ ~NameTaken(computers, name, computers[e].name)
    /\ Commit([computers EXCEPT ![e].name = name],
              Rename(m_snapshots, computers[e].name, name))

\* Mutant: a new address does not reconnect.
EditAddrOnly(e, addr) ==
    /\ alive
    /\ e \in Listed(computers)
    /\ computers' = [computers EXCEPT ![e].addr = addr]
    /\ UNCHANGED <<started, m_pollers, m_pollerByName, target, threadVars,
                   viewVars, alive, quit>>

\* Mutant: the host's cell writes the name.
EditAddrAsName(e, addr) ==
    /\ alive
    /\ e \in Listed(computers)
    /\ Commit([computers EXCEPT ![e].name = addr], m_snapshots)

\* A cell of the Computers tab: host, port or password.
EditAddr(e, addr) ==
    /\ alive
    /\ e \in Listed(computers)
    /\ Commit([computers EXCEPT ![e].addr = addr], m_snapshots)

\* Pollers restart at a new interval; the list and the sidebar stay.
ChangeInterval ==
    /\ alive
    /\ Restart(computers)
    /\ UNCHANGED <<computers, m_snapshots, m_treeItems, posted, alive, quit>>

\* The classic import skips a name it knows and keeps each computer's
\* "checked" flag.  It starts pollers for the whole list and retires none.
ImportClassic ==
    \E longer \in Grown(computers) :
        /\ ImportUsed
        /\ alive
        /\ \A e \in Added(computers, longer) :
             \A f \in Listed(longer) \ {e} : longer[e].name # longer[f].name
        /\ computers' = longer
        /\ m_treeItems' = TreeOf(longer, m_snapshots)
        /\ StartPollers(longer, m_pollers, m_pollerByName)
        /\ UNCHANGED <<stop, posted, m_snapshots, alive, quit>>

\* The network scan skips an address it knows; names are not compared.
FindComputers ==
    \E longer \in Grown(computers) :
        /\ alive
        /\ AddedEnabled(computers, longer)
        /\ \A e \in Added(computers, longer) :
             \A f \in Listed(longer) \ {e} : longer[e].addr # longer[f].addr
        /\ Commit(longer, m_snapshots)

\* Mutant: only a change is marked.
IsNewsOnChange(n, snap) ==
    (m_snapshots[n] # NoSnapshot /\ m_snapshots[n].connected) # snap.connected

\* MarkConnected is called for a first snapshot and for a change.
IsNews(n, snap) ==
    \/ m_snapshots[n] = NoSnapshot
    \/ m_snapshots[n].connected # snap.connected

\* The callback a poller posted, run by the event loop.
HandleSnapshot ==
    /\ posted # <<>>
    /\ posted' = Tail(posted)
    /\ IF ~alive THEN UNCHANGED viewVars
       ELSE LET n    == Head(posted).name
                snap == Head(posted).snap
            IN  /\ m_treeItems' =
                     IF IsNews(n, snap) /\ m_treeItems[n] # "absent"
                     THEN [m_treeItems EXCEPT
                             ![n] = IF snap.connected THEN "up" ELSE "down"]
                     ELSE m_treeItems
                /\ m_snapshots' = [m_snapshots EXCEPT ![n] = snap]
    /\ UNCHANGED <<fleetVars, stop, thread, alive, quit>>

\* The window closes: DrainPollers, then the quit command for the client on
\* this machine is looked up in the index DrainPollers has just emptied.
CloseFrame(stopClientOnExit) ==
    /\ alive
    /\ alive' = FALSE
    /\ stop' = SignalAll
    /\ m_pollers' = {}
    /\ m_pollerByName' = EmptyIndex
    /\ LET local == {e \in Listed(computers) : computers[e].addr = LocalAddr}
       IN  quit' = IF ~stopClientOnExit \/ local = {} THEN "unwanted"
                   ELSE IF \E e \in local :
                             m_pollerByName'[computers[e].name] # NoPoller
                        THEN "posted" ELSE "lost"
    /\ UNCHANGED <<computers, started, target, thread, posted, viewVars>>

----------------------------------------------------------------------------
(* The poller threads.                                                     *)

AfterRound(p) == IF p \in stop THEN "ended" ELSE "send"

\* One round of RPCs up to the test of m_stop before delivery.  A round that
\* fails after connecting starts over and stays in "poll".
PollClient(p) ==
    /\ thread[p] = "poll"
    /\ thread' = [thread EXCEPT ![p] = AfterRound(p)]
    /\ UNCHANGED <<fleetVars, stop, posted, viewVars, alive, quit>>

\* m_onSnapshot: the callback is queued for the GUI thread.
PostSnapshot(p) ==
    /\ thread[p] = "send"
    /\ Len(posted) < MaxPosted
    /\ \E connected \in BOOLEAN :
         posted' = Append(posted,
                          [name |-> target[p].name,
                           snap |-> [connected |-> connected]])
    /\ thread' = [thread EXCEPT ![p] = "poll"]
    /\ UNCHANGED <<fleetVars, stop, viewVars, alive, quit>>

\* The detached thread runs a retired poller's destructor, which sets m_stop
\* itself and joins the thread.
Destroy(p) ==
    /\ p \notin m_pollers
    /\ thread[p] # "unborn"
    /\ stop' = stop \cup {p}
    /\ thread' = [thread EXCEPT ![p] = IF @ = "ended" THEN "gone" ELSE @]
    /\ UNCHANGED <<fleetVars, posted, viewVars, alive, quit>>

----------------------------------------------------------------------------

\* Start-up: the saved list is loaded, the sidebar drawn, and the first
\* generation of pollers started.
Init ==
    /\ computers \in {list \in List :
                        UniqueIn(list) /\ Listed(list) # {}}
    /\ started = 1
    /\ m_pollers = {<<1, e>> : e \in Enabled(computers)}
    /\ m_pollerByName =
         [n \in Names |->
            IF n \in EnabledNames(computers)
            THEN <<1, CHOOSE e \in Enabled(computers) : computers[e].name = n>>
            ELSE NoPoller]
    /\ target = [p \in Poller |->
                   IF p \in m_pollers
                   THEN ClientOf(computers[p[2]]) ELSE NoPoller]
    /\ stop = {}
    /\ thread = [p \in Poller |-> IF p \in m_pollers THEN "poll" ELSE "unborn"]
    /\ posted = <<>>
    /\ m_snapshots = [n \in Names |-> NoSnapshot]
    /\ m_treeItems = TreeOf(computers, m_snapshots)
    /\ alive = TRUE
    /\ quit = "unasked"

Handler ==
    \/ AddComputer
    \/ \E names \in SUBSET NamesOf(computers) \ {{}} : RemoveComputers(names)
    \/ \E names \in SUBSET NamesOf(computers) \ {{}}, on \in BOOLEAN :
         EnableComputers(names, on)
    \/ \E e \in Entries, name \in Names, addr \in Addrs :
         EditComputer(e, name, addr)
    \/ \E e \in Entries, name \in Names : EditName(e, name)
    \/ \E e \in Entries, addr \in Addrs : EditAddr(e, addr)
    \/ ChangeInterval
    \/ ImportClassic
    \/ FindComputers
    \/ \E stopClientOnExit \in BOOLEAN : CloseFrame(stopClientOnExit)

Next ==
    \/ Handler
    \/ HandleSnapshot
    \/ \E p \in Poller : PollClient(p) \/ PostSnapshot(p) \/ Destroy(p)

Spec == Init /\ [][Next]_vars

----------------------------------------------------------------------------
(* Properties.                                                             *)

TypeOK ==
    /\ computers \in List
    /\ started \in 1..MaxStarts
    /\ m_pollers \subseteq Poller
    /\ m_pollerByName \in [Names -> Poller \cup {NoPoller}]
    /\ target \in [Poller -> Client \cup {NoPoller}]
    /\ stop \subseteq Poller
    /\ thread \in [Poller -> ThreadState]
    /\ posted \in Seq([name : Names, snap : Snapshot])
    /\ m_snapshots \in [Names -> Snapshot \cup {NoSnapshot}]
    /\ m_treeItems \in [Names -> {"absent", "up", "down"}]
    /\ alive \in BOOLEAN
    /\ quit \in {"unasked", "unwanted", "posted", "lost"}

\* The pollers the frame owns poll exactly the enabled computers, at the
\* addresses the list holds now: no edit, enable, disable, import or scan
\* leaves a poller on an old address or a computer without one.
PollersMatchList ==
    alive => {target[p] : p \in m_pollers} =
             {ClientOf(computers[e]) : e \in Enabled(computers)}

\* What a handler finds in m_pollerByName is a raw pointer.  It is a poller
\* the frame owns, made for that name, not told to stop and not destroyed;
\* and every enabled computer has one.
IndexIsLive ==
    \A n \in Names :
        LET p == m_pollerByName[n]
        IN  /\ p # NoPoller =>
                 /\ p \in m_pollers /\ target[p].name = n
                 /\ p \notin stop /\ thread[p] \in {"poll", "send"}
            /\ alive /\ n \in EnabledNames(computers) => p # NoPoller

\* Every poller that was started and is no longer owned has been told to
\* stop.  Its destructor would tell it too, but one after another: a retired
\* generation is told at once, so that its timeouts overlap.
RetiredAreSignalled ==
    \A p \in Poller : thread[p] # "unborn" /\ p \notin m_pollers => p \in stop

\* The sidebar's markers are updated one at a time as snapshots arrive and
\* redrawn from scratch by some handlers; both always agree.
SidebarIsCurrent == m_treeItems = TreeOf(computers, m_snapshots)

\* What the invariants above need to be inductive.  The pollers owned are at
\* work; a poller that was started has its copy of a computer; a generation
\* not yet started has left no trace; a closed frame owns no poller.
OwnedAreAtWork ==
    \A p \in m_pollers :
        /\ thread[p] \in {"poll", "send"}
        /\ p \notin stop

BornHaveTarget ==
    \A p \in Poller : thread[p] # "unborn" => target[p] \in Client

FutureIsUnborn ==
    \A p \in Poller : p[1] > started => thread[p] = "unborn" /\ p \notin stop

ClosedOwnsNone == ~alive => m_pollers = {}

FleetInv ==
    /\ TypeOK
    /\ OwnedAreAtWork
    /\ BornHaveTarget
    /\ FutureIsUnborn
    /\ ClosedOwnsNone
    /\ PollersMatchList
    /\ IndexIsLive
    /\ RetiredAreSignalled
    /\ SidebarIsCurrent

\* Names stay unique, as RejectDuplicateName wants them, whatever handler runs,
\* but for the scan, which compares addresses.
UniqueNames ==
    [][UniqueIn(computers) => UniqueIn(computers') \/ FindComputers]_vars

\* Of the pollers that have not been told to stop, no two write one entry of
\* m_snapshots.
OnePollerPerName ==
    \A p, q \in Poller :
        /\ {p, q} \cap stop = {}
        /\ thread[p] \in {"poll", "send"} /\ thread[q] \in {"poll", "send"}
        /\ target[p].name = target[q].name
        => p = q

\* The quit command reaches a poller when the client on this machine was
\* being polled.
QuitIsPosted ==
    (\A e \in Listed(computers) :
        computers[e].addr = LocalAddr => computers[e].enabled) => quit # "lost"
=============================================================================
