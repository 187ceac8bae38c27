---------------------------- MODULE FleetProofs ----------------------------
(* The safety of the fleet of pollers, for any computers and any number of *)
(* generations: the inductive invariant FleetInv and what follows from it, *)
(* and the names of computers.                                             *)
EXTENDS Fleet, TLAPS

(***************************************************************************)
(* StartPollers, whatever the pollers it keeps: every poller dropped must  *)
(* have been signalled, those kept must serve enabled computers of the new *)
(* list, and the old index must name pollers kept.  Restart keeps none,    *)
(* ImportClassic keeps all.                                                *)
(***************************************************************************)
PollerInv(list) ==
    /\ OwnedAreAtWork
    /\ BornHaveTarget
    /\ FutureIsUnborn
    /\ RetiredAreSignalled
    /\ {target[p] : p \in m_pollers} = {ClientOf(list[e]) : e \in Enabled(list)}

\* StartPollers makes pollers of a new generation only, so types are kept.
LEMMA StartPollersType ==
    ASSUME TypeOK, NEW list \in List,
           NEW kept \in SUBSET Poller,
           NEW index \in [Names -> Poller \cup {NoPoller}],
           StartPollers(list, kept, index)
    PROVE  /\ started' \in 1..MaxStarts
           /\ m_pollers' \subseteq Poller
           /\ m_pollerByName' \in [Names -> Poller \cup {NoPoller}]
           /\ target' \in [Poller -> Client \cup {NoPoller}]
           /\ thread' \in [Poller -> ThreadState]
<1> DEFINE born == {<<started + 1, e>> : e \in Enabled(list)}
<1>1. started' \in 1..MaxStarts
  BY FleetAssumption DEF TypeOK, StartPollers
<1>2. born \subseteq Poller
  BY <1>1 DEF Poller, Enabled, Listed, StartPollers
<1>3. \A p \in born : p[2] \in Enabled(list)
  OBVIOUS
<1>4. \A e \in Enabled(list) : ClientOf(list[e]) \in Client
  BY DEF Enabled, Listed, List, Computer, Client, ClientOf
<1>5. target' \in [Poller -> Client \cup {NoPoller}]
  BY <1>3, <1>4 DEF TypeOK, StartPollers
<1> QED
  BY <1>1, <1>2, <1>5 DEF TypeOK, StartPollers, ThreadState

\* What is said of pollers alone outlives StartPollers, if those let go are
\* signalled.
LEMMA StartPollersInv ==
    ASSUME TypeOK, OwnedAreAtWork, BornHaveTarget, FutureIsUnborn,
           RetiredAreSignalled,
           NEW list \in List,
           NEW kept \in SUBSET m_pollers,
           NEW index \in [Names -> Poller \cup {NoPoller}],
           {target[p] : p \in kept} \subseteq
               {ClientOf(list[e]) : e \in Enabled(list)},
           stop' = stop \cup (m_pollers \ kept),
           StartPollers(list, kept, index)
    PROVE  PollerInv(list)'
<1> DEFINE born == {<<started + 1, e>> : e \in Enabled(list)}
<1>1. /\ started' = started + 1
      /\ started \in Nat
      /\ m_pollers' = kept \cup born
      /\ target' = [p \in Poller |->
                      IF p \in born THEN ClientOf(list[p[2]]) ELSE target[p]]
      /\ thread' = [p \in Poller |-> IF p \in born THEN "poll" ELSE thread[p]]
  BY FleetAssumption DEF TypeOK, StartPollers
<1>2. kept \subseteq Poller /\ m_pollers \subseteq Poller
  BY DEF TypeOK
<1>3. born \subseteq Poller
  BY <1>1, FleetAssumption DEF Poller, Enabled, Listed, StartPollers
<1>4. \A p \in born : p[1] > started /\ p[2] \in Enabled(list)
  BY <1>1
<1>5. \A p \in born : thread[p] = "unborn" /\ p \notin stop
  BY <1>3, <1>4 DEF FutureIsUnborn
<1>6. born \cap m_pollers = {}
  BY <1>5 DEF OwnedAreAtWork
<1>7. OwnedAreAtWork'
  BY <1>1, <1>2, <1>3, <1>5, <1>6 DEF OwnedAreAtWork
<1>8. BornHaveTarget'
  <2>1. \A e \in Enabled(list) : ClientOf(list[e]) \in Client
    BY DEF Enabled, Listed, List, Computer, Client, ClientOf
  <2> QED BY <1>1, <1>4, <2>1 DEF BornHaveTarget
<1>9. FutureIsUnborn'
  <2> SUFFICES ASSUME NEW p \in Poller, p[1] > started + 1
               PROVE  thread'[p] = "unborn" /\ p \notin stop'
    BY <1>1 DEF FutureIsUnborn
  <2>1. p[1] > started
    BY <1>1 DEF Poller
  <2>2. thread[p] = "unborn" /\ p \notin stop
    BY <2>1 DEF FutureIsUnborn
  <2>3. p \notin born /\ p \notin m_pollers
    BY <1>1, <2>2 DEF OwnedAreAtWork, Poller
  <2> QED BY <1>1, <2>2, <2>3
<1>10. RetiredAreSignalled'
  BY <1>1 DEF RetiredAreSignalled
<1>11. {target'[p] : p \in m_pollers'} = {ClientOf(list[e]) : e \in Enabled(list)}
  <2>1. \A p \in kept : target'[p] = target[p]
    BY <1>1, <1>2, <1>6
  <2>2. \A p \in born : target'[p] = ClientOf(list[p[2]])
    BY <1>1, <1>3
  <2>3. \A e \in Enabled(list) : <<started + 1, e>> \in born
    OBVIOUS
  <2> HIDE DEF born
  <2>4. \A e \in Enabled(list) :
           target'[<<started + 1, e>>] = ClientOf(list[e])
    BY <2>2, <2>3
  <2>5. \A p \in m_pollers' :
           target'[p] \in {ClientOf(list[e]) : e \in Enabled(list)}
    <3>1. \A p \in kept :
             target'[p] \in {ClientOf(list[e]) : e \in Enabled(list)}
      BY <2>1
    <3>2. \A p \in born :
             target'[p] \in {ClientOf(list[e]) : e \in Enabled(list)}
      BY <1>4, <2>2
    <3> QED BY <1>1, <3>1, <3>2
  <2>6. \A e \in Enabled(list) : <<started + 1, e>> \in m_pollers'
    BY <1>1, <2>3
  <2> QED BY <2>4, <2>5, <2>6
<1> QED
  BY <1>7, <1>8, <1>9, <1>10, <1>11 DEF PollerInv

\* The index after StartPollers holds live pollers only, one for each enabled
\* name, if the old index held pollers that are kept.
LEMMA StartPollersIndex ==
    ASSUME TypeOK, OwnedAreAtWork, BornHaveTarget, FutureIsUnborn,
           RetiredAreSignalled,
           NEW list \in List,
           NEW kept \in SUBSET m_pollers,
           NEW index \in [Names -> Poller \cup {NoPoller}],
           \A n \in Names : index[n] # NoPoller =>
               index[n] \in kept /\ target[index[n]].name = n,
           stop' = stop \cup (m_pollers \ kept),
           computers' = list,
           StartPollers(list, kept, index),
           OwnedAreAtWork'
    PROVE  IndexIsLive'
<1> DEFINE born == {<<started + 1, e>> : e \in Enabled(list)}
           called(n) == {p \in born : list[p[2]].name = n}
<1>1. /\ started \in Nat
      /\ m_pollers' = kept \cup born
      /\ target' = [p \in Poller |->
                      IF p \in born THEN ClientOf(list[p[2]]) ELSE target[p]]
      /\ \A n \in Names : IF called(n) = {} THEN m_pollerByName'[n] = index[n]
                                            ELSE m_pollerByName'[n] \in called(n)
  BY FleetAssumption DEF TypeOK, StartPollers
<1>2. born \subseteq Poller
  BY FleetAssumption, <1>1 DEF Poller, Enabled, Listed, StartPollers
<1>3. kept \subseteq Poller /\ kept \cap born = {}
  <2>1. \A p \in born : thread[p] = "unborn"
    <3>1. \A p \in born : p[1] > started
      BY <1>1
    <3> QED BY <1>2, <3>1 DEF FutureIsUnborn
  <2> QED BY <2>1 DEF TypeOK, OwnedAreAtWork
<1> SUFFICES ASSUME NEW n \in Names
             PROVE  /\ m_pollerByName'[n] # NoPoller =>
                          /\ m_pollerByName'[n] \in m_pollers'
                          /\ target'[m_pollerByName'[n]].name = n
                    /\ n \in EnabledNames(list) => m_pollerByName'[n] # NoPoller
  BY DEF IndexIsLive, OwnedAreAtWork, EnabledNames
<1>4. CASE called(n) = {}
  <2>1. n \notin EnabledNames(list)
    <3> SUFFICES ASSUME NEW e \in Enabled(list), list[e].name = n
                 PROVE  FALSE
      BY DEF EnabledNames
    <3>1. <<started + 1, e>> \in born /\ <<started + 1, e>>[2] = e
      OBVIOUS
    <3> QED BY <1>4, <3>1
  <2>2. m_pollerByName'[n] = index[n]
    BY <1>1, <1>4
  <2> QED BY <1>1, <1>3, <2>1, <2>2
<1>5. CASE called(n) # {}
  <2>1. m_pollerByName'[n] \in called(n)
    BY <1>1, <1>5
  <2>2. PICK p \in born : m_pollerByName'[n] = p /\ list[p[2]].name = n
    BY <2>1
  <2>3. target'[p].name = n
    BY <1>1, <1>2, <2>2 DEF ClientOf
  <2>4. p # NoPoller
    BY <1>2, FleetAssumption DEF Poller
  <2> QED BY <1>1, <2>2, <2>3, <2>4
<1> QED BY <1>4, <1>5

----------------------------------------------------------------------------
(* The handlers.                                                           *)

SnapshotMap == [Names -> Snapshot \cup {NoSnapshot}]

\* A redrawn sidebar has the sidebar's type.
LEMMA TreeOfType ==
    \A list, snaps : TreeOf(list, snaps) \in [Names -> {"absent", "up", "down"}]
BY DEF TreeOf

\* StartPollers, with every poller that is not kept signalled, preserves all
\* of the invariant that speaks of pollers.
LEMMA StartPollersKeepsInv ==
    ASSUME FleetInv, alive,
           NEW list \in List,
           NEW kept \in SUBSET m_pollers,
           NEW index \in [Names -> Poller \cup {NoPoller}],
           {target[p] : p \in kept} \subseteq
               {ClientOf(list[e]) : e \in Enabled(list)},
           \A n \in Names : index[n] # NoPoller =>
               index[n] \in kept /\ target[index[n]].name = n,
           StartPollers(list, kept, index),
           stop' = stop \cup (m_pollers \ kept),
           computers' = list,
           m_snapshots' \in SnapshotMap,
           m_treeItems' = TreeOf(list, m_snapshots'),
           UNCHANGED <<posted, alive, quit>>
    PROVE  FleetInv'
<1>1. /\ TypeOK /\ OwnedAreAtWork /\ BornHaveTarget /\ FutureIsUnborn
      /\ RetiredAreSignalled
  BY DEF FleetInv
<1>2. PollerInv(list)'
  BY <1>1, StartPollersInv
<1>3. IndexIsLive'
  <2>1. OwnedAreAtWork'
    BY <1>2 DEF PollerInv
  <2> QED BY <1>1, <2>1, StartPollersIndex
<1>4. TypeOK'
  <2>1. /\ started' \in 1..MaxStarts
        /\ m_pollers' \subseteq Poller
        /\ m_pollerByName' \in [Names -> Poller \cup {NoPoller}]
        /\ target' \in [Poller -> Client \cup {NoPoller}]
        /\ thread' \in [Poller -> ThreadState]
    BY <1>1, StartPollersType DEF TypeOK
  <2>2. stop' \subseteq Poller
    BY <1>1 DEF TypeOK
  <2>3. m_treeItems' \in [Names -> {"absent", "up", "down"}]
    BY TreeOfType
  <2> QED BY <1>1, <2>1, <2>2, <2>3 DEF TypeOK, SnapshotMap
<1>5. PollersMatchList'
  BY <1>2 DEF PollerInv, PollersMatchList
<1>6. ClosedOwnsNone' /\ SidebarIsCurrent'
  BY DEF ClosedOwnsNone, SidebarIsCurrent
<1> QED
  BY <1>2, <1>3, <1>4, <1>5, <1>6 DEF FleetInv, PollerInv

\* The tail most handlers share, after they changed the list and the snapshots.
LEMMA CommitKeepsInv ==
    ASSUME FleetInv, alive,
           NEW list \in List, NEW snaps \in SnapshotMap,
           Commit(list, snaps)
    PROVE  FleetInv'
<1>1. StartPollers(list, {}, EmptyIndex)
  BY DEF Commit, Restart
<1>2. stop' = stop \cup (m_pollers \ {})
  BY DEF Commit, Restart, SignalAll
<1>3. /\ EmptyIndex \in [Names -> Poller \cup {NoPoller}]
      /\ \A n \in Names : EmptyIndex[n] = NoPoller
  BY DEF EmptyIndex
<1>4. /\ computers' = list /\ m_snapshots' = snaps
      /\ m_treeItems' = TreeOf(list, snaps)
      /\ UNCHANGED <<posted, alive, quit>>
  BY DEF Commit
<1> QED
  BY <1>1, <1>2, <1>3, <1>4, StartPollersKeepsInv

\* Erasing and renaming keep the map of snapshots a map of snapshots.
LEMMA SnapshotMaps ==
    ASSUME NEW snaps \in SnapshotMap
    PROVE  /\ \A names : Erase(snaps, names) \in SnapshotMap
           /\ \A old, new \in Names : Rename(snaps, old, new) \in SnapshotMap
BY DEF SnapshotMap, Erase, Rename

\* Every handler of the frame keeps the invariant.
LEMMA HandlersKeepInv ==
    ASSUME FleetInv, Handler
    PROVE  FleetInv'
<1>1. /\ TypeOK /\ OwnedAreAtWork /\ BornHaveTarget /\ FutureIsUnborn
      /\ PollersMatchList /\ IndexIsLive
      /\ RetiredAreSignalled /\ SidebarIsCurrent
  BY DEF FleetInv
<1>2. computers \in List /\ m_snapshots \in SnapshotMap
  BY <1>1 DEF TypeOK, SnapshotMap
<1>3. \A e \in Listed(computers) : computers[e] \in Computer
  BY <1>2 DEF Listed, List
<1>4. CASE AddComputer
  <2>1. PICK longer \in Grown(computers) :
          alive /\ Commit(longer, m_snapshots)
    BY <1>4 DEF AddComputer
  <2>2. longer \in List
    BY DEF Grown
  <2> QED BY <1>2, <2>1, <2>2, CommitKeepsInv
<1>5. ASSUME NEW names \in SUBSET NamesOf(computers), RemoveComputers(names)
      PROVE  FleetInv'
  <2> DEFINE list == [e \in Entries |->
                 IF e \in Listed(computers) /\ computers[e].name \in names
                 THEN Unlisted ELSE computers[e]]
  <2>1. list \in List
    BY <1>2 DEF List
  <2>2. Erase(m_snapshots, names) \in SnapshotMap
    BY <1>2, SnapshotMaps
  <2>3. alive /\ Commit(list, Erase(m_snapshots, names))
    BY <1>5 DEF RemoveComputers
  <2> HIDE DEF list
  <2> QED BY <2>1, <2>2, <2>3, CommitKeepsInv
<1>6. ASSUME NEW names \in SUBSET NamesOf(computers), NEW on \in BOOLEAN,
             EnableComputers(names, on)
      PROVE  FleetInv'
  <2> DEFINE list == [e \in Entries |->
                 IF e \in Listed(computers) /\ computers[e].name \in names
                 THEN [computers[e] EXCEPT !.enabled = on] ELSE computers[e]]
             snaps == IF on THEN m_snapshots ELSE Erase(m_snapshots, names)
  <2>1. list \in List
    <3>1. \A e \in Listed(computers) :
             [computers[e] EXCEPT !.enabled = on] \in Computer
      BY <1>3 DEF Computer
    <3> QED BY <1>2, <3>1 DEF List
  <2>2. snaps \in SnapshotMap
    BY <1>2, SnapshotMaps
  <2>3. alive /\ Commit(list, snaps)
    BY <1>6 DEF EnableComputers
  <2> HIDE DEF list, snaps
  <2> QED BY <2>1, <2>2, <2>3, CommitKeepsInv
<1>7. ASSUME NEW e \in Entries, NEW name \in Names, NEW addr \in Addrs,
             EditComputer(e, name, addr)
      PROVE  FleetInv'
  <2> DEFINE list == [computers EXCEPT
                 ![e] = [name |-> name, addr |-> addr, enabled |-> TRUE]]
             snaps == Rename(m_snapshots, computers[e].name, name)
  <2>1. e \in Listed(computers) /\ alive /\ Commit(list, snaps)
    BY <1>7 DEF EditComputer
  <2>2. list \in List
    BY <1>2 DEF List, Computer
  <2>3. snaps \in SnapshotMap
    BY <1>2, <1>3, <2>1, SnapshotMaps DEF Computer
  <2> HIDE DEF list, snaps
  <2> QED BY <2>1, <2>2, <2>3, CommitKeepsInv
<1>8. ASSUME NEW e \in Entries, NEW name \in Names, EditName(e, name)
      PROVE  FleetInv'
  <2> DEFINE list == [computers EXCEPT ![e].name = name]
             snaps == Rename(m_snapshots, computers[e].name, name)
  <2>1. e \in Listed(computers) /\ alive /\ Commit(list, snaps)
    BY <1>8 DEF EditName
  <2>2. list \in List
    BY <1>2, <1>3, <2>1 DEF List, Computer
  <2>3. snaps \in SnapshotMap
    BY <1>2, <1>3, <2>1, SnapshotMaps DEF Computer
  <2> HIDE DEF list, snaps
  <2> QED BY <2>1, <2>2, <2>3, CommitKeepsInv
<1>9. ASSUME NEW e \in Entries, NEW addr \in Addrs, EditAddr(e, addr)
      PROVE  FleetInv'
  <2> DEFINE list == [computers EXCEPT ![e].addr = addr]
  <2>1. e \in Listed(computers) /\ alive /\ Commit(list, m_snapshots)
    BY <1>9 DEF EditAddr
  <2>2. list \in List
    BY <1>2, <1>3, <2>1 DEF List, Computer
  <2> HIDE DEF list
  <2> QED BY <1>2, <2>1, <2>2, CommitKeepsInv
<1>10. CASE ChangeInterval
  <2>1. /\ alive /\ Restart(computers)
        /\ UNCHANGED <<computers, m_snapshots, m_treeItems, posted, alive, quit>>
    BY <1>10 DEF ChangeInterval
  <2>2. Commit(computers, m_snapshots)
    BY <1>1, <2>1 DEF Commit, SidebarIsCurrent
  <2> QED BY <1>2, <2>1, <2>2, CommitKeepsInv
<1>11. CASE ImportClassic
  <2>1. PICK longer \in Grown(computers) :
          /\ alive
          /\ computers' = longer
          /\ m_treeItems' = TreeOf(longer, m_snapshots)
          /\ StartPollers(longer, m_pollers, m_pollerByName)
          /\ UNCHANGED <<stop, posted, m_snapshots, alive, quit>>
    BY <1>11 DEF ImportClassic
  <2>2. longer \in List /\ \A e \in Listed(computers) : longer[e] = computers[e]
    BY DEF Grown
  <2>3. \A e \in Enabled(computers) :
           e \in Enabled(longer) /\ longer[e] = computers[e]
    BY <1>3, <2>2, FleetAssumption DEF Enabled, Listed, Computer
  <2>4. {target[p] : p \in m_pollers} \subseteq
           {ClientOf(longer[e]) : e \in Enabled(longer)}
    BY <1>1, <2>1, <2>3 DEF PollersMatchList
  <2>5. \A n \in Names : m_pollerByName[n] # NoPoller =>
           m_pollerByName[n] \in m_pollers /\ target[m_pollerByName[n]].name = n
    BY <1>1 DEF IndexIsLive
  <2>6. stop' = stop \cup (m_pollers \ m_pollers)
    BY <2>1
  <2>7. m_pollerByName \in [Names -> Poller \cup {NoPoller}]
    BY <1>1 DEF TypeOK
  <2> QED
    BY <1>2, <2>1, <2>2, <2>4, <2>5, <2>6, <2>7, StartPollersKeepsInv
<1>12. CASE FindComputers
  <2>1. PICK longer \in Grown(computers) :
          alive /\ Commit(longer, m_snapshots)
    BY <1>12 DEF FindComputers
  <2>2. longer \in List
    BY DEF Grown
  <2> QED BY <1>2, <2>1, <2>2, CommitKeepsInv
<1>13. ASSUME NEW stopClientOnExit \in BOOLEAN, CloseFrame(stopClientOnExit)
       PROVE  FleetInv'
  <2>1. /\ alive' = FALSE
        /\ stop' = stop \cup m_pollers
        /\ m_pollers' = {}
        /\ m_pollerByName' = EmptyIndex
        /\ UNCHANGED <<computers, started, target, thread, posted, m_snapshots,
                       m_treeItems>>
        /\ quit' \in {"unwanted", "posted", "lost"}
    BY <1>13 DEF CloseFrame, SignalAll, viewVars
  <2>2. TypeOK'
    BY <1>1, <2>1 DEF TypeOK, EmptyIndex
  <2>3. OwnedAreAtWork' /\ BornHaveTarget' /\ ClosedOwnsNone'
    BY <1>1, <2>1 DEF OwnedAreAtWork, BornHaveTarget, ClosedOwnsNone
  <2>4. FutureIsUnborn'
    BY <1>1, <2>1 DEF FutureIsUnborn, OwnedAreAtWork, TypeOK
  <2>5. PollersMatchList' /\ IndexIsLive'
    BY <2>1 DEF PollersMatchList, IndexIsLive, EmptyIndex
  <2>6. RetiredAreSignalled' /\ SidebarIsCurrent'
    BY <1>1, <2>1 DEF RetiredAreSignalled, SidebarIsCurrent
  <2> QED BY <2>2, <2>3, <2>4, <2>5, <2>6 DEF FleetInv
<1> QED
  BY <1>4, <1>5, <1>6, <1>7, <1>8, <1>9, <1>10, <1>11, <1>12, <1>13 DEF Handler

----------------------------------------------------------------------------
(* The event loop and the poller threads.                                  *)

\* What is at the head of a queue is of its kind.
LEMMA HeadAndTail ==
    ASSUME NEW S, NEW s \in Seq(S), s # <<>>
    PROVE  Head(s) \in S /\ Tail(s) \in Seq(S)
OBVIOUS

\* So does every callback of the event loop, whoever posted it.
LEMMA CallbackKeepsInv ==
    ASSUME FleetInv, HandleSnapshot
    PROVE  FleetInv'
<1>1. /\ TypeOK /\ OwnedAreAtWork /\ BornHaveTarget /\ FutureIsUnborn
      /\ ClosedOwnsNone /\ PollersMatchList /\ IndexIsLive
      /\ RetiredAreSignalled /\ SidebarIsCurrent
  BY DEF FleetInv
<1>2. /\ UNCHANGED <<computers, started, m_pollers, m_pollerByName, target,
                     stop, thread, alive, quit>>
      /\ posted # <<>> /\ posted' = Tail(posted)
  BY DEF HandleSnapshot, fleetVars
<1>3. /\ OwnedAreAtWork' /\ BornHaveTarget' /\ FutureIsUnborn'
      /\ ClosedOwnsNone' /\ PollersMatchList' /\ IndexIsLive'
      /\ RetiredAreSignalled'
  <2>1. OwnedAreAtWork' /\ BornHaveTarget' /\ FutureIsUnborn'
    BY <1>1, <1>2 DEF OwnedAreAtWork, BornHaveTarget, FutureIsUnborn
  <2>2. ClosedOwnsNone' /\ RetiredAreSignalled' /\ PollersMatchList'
    BY <1>1, <1>2 DEF ClosedOwnsNone, RetiredAreSignalled, PollersMatchList
  <2>3. IndexIsLive'
    BY <1>1, <1>2 DEF IndexIsLive
  <2> QED BY <2>1, <2>2, <2>3
<1>4. /\ Head(posted) \in [name : Names, snap : Snapshot]
      /\ posted' \in Seq([name : Names, snap : Snapshot])
  BY <1>1, <1>2, HeadAndTail DEF TypeOK
<1>5. CASE ~alive
  <2>1. UNCHANGED <<m_snapshots, m_treeItems>>
    BY <1>5 DEF HandleSnapshot, viewVars
  <2>2. TypeOK'
    BY <1>1, <1>2, <1>4, <2>1 DEF TypeOK
  <2>3. SidebarIsCurrent'
    BY <1>1, <1>2, <2>1 DEF SidebarIsCurrent
  <2> QED BY <1>3, <2>2, <2>3 DEF FleetInv
<1>6. CASE alive
  <2> DEFINE n     == Head(posted).name
             snap  == Head(posted).snap
  <2>1. /\ m_treeItems' =
              IF IsNews(n, snap) /\ m_treeItems[n] # "absent"
              THEN [m_treeItems EXCEPT
                      ![n] = IF snap.connected THEN "up" ELSE "down"]
              ELSE m_treeItems
        /\ m_snapshots' = [m_snapshots EXCEPT ![n] = snap]
    BY <1>6 DEF HandleSnapshot
  <2>2. n \in Names /\ snap \in Snapshot
    BY <1>4
  <2> HIDE DEF n, snap
  <2>3. TypeOK'
    BY <1>1, <1>2, <1>4, <2>1, <2>2 DEF TypeOK
  <2>4. snap # NoSnapshot /\ snap.connected \in BOOLEAN
    BY <2>2, FleetAssumption DEF Snapshot, NoSnapshot
  <2>5. \A m \in Names : m_treeItems[m] =
            IF m \notin EnabledNames(computers) THEN "absent"
            ELSE IF m_snapshots[m] # NoSnapshot /\ ~m_snapshots[m].connected
                 THEN "down" ELSE "up"
    BY <1>1 DEF SidebarIsCurrent, TreeOf
  <2>6. ASSUME NEW m \in Names
        PROVE  m_treeItems'[m] = TreeOf(computers, m_snapshots')[m]
    <3>1. CASE m # n
      <4>1. /\ m_snapshots'[m] = m_snapshots[m]
            /\ m_treeItems'[m] = m_treeItems[m]
        BY <1>1, <2>1, <2>2, <3>1 DEF TypeOK
      <4> QED BY <2>5, <4>1 DEF TreeOf
    <3>2. CASE m = n
      <4>1. m_snapshots'[n] = snap
        BY <1>1, <2>1, <2>2 DEF TypeOK
      <4>2. CASE m_treeItems[n] = "absent"
        <5>1. n \notin EnabledNames(computers) /\ m_treeItems'[n] = "absent"
          BY <2>1, <2>2, <2>5, <4>2
        <5> QED BY <2>2, <3>2, <5>1 DEF TreeOf
      <4>3. CASE m_treeItems[n] # "absent"
        <5>1. n \in EnabledNames(computers)
          BY <2>2, <2>5, <4>3
        <5>2. m_treeItems'[n] = IF snap.connected THEN "up" ELSE "down"
          <6>1. CASE IsNews(n, snap)
            BY <1>1, <2>1, <2>2, <4>3, <6>1 DEF TypeOK
          <6>2. CASE ~IsNews(n, snap)
            <7>1. m_treeItems'[n] = m_treeItems[n]
              BY <2>1, <6>2
            <7>2. /\ m_snapshots[n] # NoSnapshot
                  /\ m_snapshots[n].connected = snap.connected
              BY <6>2 DEF IsNews
            <7> QED BY <2>2, <2>5, <5>1, <7>1, <7>2
          <6> QED BY <6>1, <6>2
        <5> QED BY <2>2, <2>4, <3>2, <4>1, <5>1, <5>2 DEF TreeOf
      <4> QED BY <4>2, <4>3
    <3> QED BY <3>1, <3>2
  <2>7. SidebarIsCurrent'
    <3>1. m_treeItems' \in [Names -> {"absent", "up", "down"}]
      BY <2>3 DEF TypeOK
    <3> QED BY <1>2, <2>6, <3>1 DEF SidebarIsCurrent, TreeOf
  <2> QED BY <1>3, <2>3, <2>7 DEF FleetInv
<1> QED BY <1>5, <1>6

\* So does every step of a poller's thread and the thread that reaps it.
LEMMA ThreadsKeepInv ==
    ASSUME FleetInv, NEW p \in Poller,
           PollClient(p) \/ PostSnapshot(p) \/ Destroy(p)
    PROVE  FleetInv'
<1>1. /\ TypeOK /\ OwnedAreAtWork /\ BornHaveTarget /\ FutureIsUnborn
      /\ ClosedOwnsNone /\ PollersMatchList /\ IndexIsLive
      /\ RetiredAreSignalled /\ SidebarIsCurrent
  BY DEF FleetInv
<1>2. /\ UNCHANGED <<computers, started, m_pollers, m_pollerByName, target,
                     m_snapshots, m_treeItems, alive, quit>>
      /\ stop' = stop
  <2>1. CASE Destroy(p)
    <3>1. p \in stop
      BY <1>1, <2>1 DEF Destroy, RetiredAreSignalled
    <3> QED BY <2>1, <3>1 DEF Destroy, fleetVars, viewVars
  <2>2. CASE PollClient(p) \/ PostSnapshot(p)
    BY <2>2 DEF PollClient, PostSnapshot, fleetVars, viewVars
  <2> QED BY <2>1, <2>2
<1>3. PICK s \in ThreadState \ {"unborn"} :
         /\ thread' = [thread EXCEPT ![p] = s]
         /\ p \in m_pollers => s \in {"poll", "send"}
         /\ thread[p] # "unborn"
  <2>1. CASE PollClient(p)
    BY <1>1, <2>1 DEF PollClient, AfterRound, OwnedAreAtWork, ThreadState
  <2>2. CASE PostSnapshot(p)
    BY <2>2 DEF PostSnapshot, ThreadState
  <2>3. CASE Destroy(p)
    <3>1. thread[p] \in ThreadState
      BY <1>1 DEF TypeOK
    <3> QED BY <2>3, <3>1 DEF Destroy, ThreadState
  <2> QED BY <2>1, <2>2, <2>3
<1>4. posted' \in Seq([name : Names, snap : Snapshot])
  <2>1. CASE PostSnapshot(p)
    <3>1. target[p] \in Client
      BY <1>1, <2>1 DEF PostSnapshot, BornHaveTarget
    <3>2. \A connected \in BOOLEAN :
            [name |-> target[p].name, snap |-> [connected |-> connected]]
              \in [name : Names, snap : Snapshot]
      BY <3>1 DEF Client, Snapshot
    <3>3. posted \in Seq([name : Names, snap : Snapshot])
      BY <1>1 DEF TypeOK
    <3> QED BY <2>1, <3>2, <3>3 DEF PostSnapshot
  <2>2. CASE ~PostSnapshot(p)
    <3>1. posted' = posted
      BY <2>2 DEF PollClient, Destroy
    <3> QED BY <1>1, <3>1 DEF TypeOK
  <2> QED BY <2>1, <2>2
<1>5. TypeOK'
  BY <1>1, <1>2, <1>3, <1>4 DEF TypeOK
<1>6. OwnedAreAtWork' /\ BornHaveTarget'
  BY <1>1, <1>2, <1>3 DEF TypeOK, OwnedAreAtWork, BornHaveTarget
<1>7. FutureIsUnborn' /\ RetiredAreSignalled'
  BY <1>1, <1>2, <1>3 DEF TypeOK, FutureIsUnborn, RetiredAreSignalled
<1>8. IndexIsLive'
  BY <1>1, <1>2, <1>6 DEF IndexIsLive, OwnedAreAtWork
<1>9. ClosedOwnsNone' /\ PollersMatchList' /\ SidebarIsCurrent'
  BY <1>1, <1>2 DEF ClosedOwnsNone, PollersMatchList, SidebarIsCurrent
<1> QED
  BY <1>5, <1>6, <1>7, <1>8, <1>9 DEF FleetInv

----------------------------------------------------------------------------
(* The theorems.                                                           *)

\* The frame starts without pollers and with an empty sidebar.
LEMMA InitEstablishesInv == Init => FleetInv
<1> SUFFICES ASSUME Init PROVE FleetInv
  OBVIOUS
<1>1. /\ computers \in List
      /\ started = 1 /\ 1 \in 1..MaxStarts
      /\ m_pollers = {<<1, e>> : e \in Enabled(computers)}
      /\ m_treeItems = TreeOf(computers, m_snapshots)
      /\ stop = {} /\ posted = <<>> /\ alive = TRUE /\ quit = "unasked"
      /\ m_snapshots = [n \in Names |-> NoSnapshot]
      /\ target = [p \in Poller |-> IF p \in m_pollers
                                   THEN ClientOf(computers[p[2]]) ELSE NoPoller]
      /\ thread = [p \in Poller |-> IF p \in m_pollers THEN "poll" ELSE "unborn"]
  BY FleetAssumption DEF Init
<1>2. m_pollers \subseteq Poller
  BY <1>1 DEF Poller, Enabled, Listed
<1>3. \A p \in m_pollers : p[1] = 1 /\ p[2] \in Enabled(computers)
  BY <1>1
<1>4. \A e \in Enabled(computers) :
         ClientOf(computers[e]) \in Client /\ computers[e].name \in Names
  BY <1>1 DEF Enabled, Listed, List, Computer, Client, ClientOf
<1>5. ASSUME NEW n \in EnabledNames(computers)
      PROVE  /\ m_pollerByName[n] \in m_pollers
             /\ target[m_pollerByName[n]].name = n
  <2> DEFINE e == CHOOSE e \in Enabled(computers) : computers[e].name = n
  <2>1. e \in Enabled(computers) /\ computers[e].name = n
    BY <1>5 DEF EnabledNames
  <2>2. n \in Names
    BY <1>4, <2>1
  <2>3. m_pollerByName[n] = <<1, e>>
    BY <1>5, <2>2 DEF Init
  <2> HIDE DEF e
  <2>4. <<1, e>> \in m_pollers
    BY <1>1, <2>1
  <2>5. target[<<1, e>>] = ClientOf(computers[e])
    BY <1>1, <1>2, <2>4
  <2> QED BY <2>1, <2>3, <2>4, <2>5 DEF ClientOf
<1>6. ASSUME NEW n \in Names, n \notin EnabledNames(computers)
      PROVE  m_pollerByName[n] = NoPoller
  BY <1>6 DEF Init
<1>7. TypeOK
  <2>1. m_pollerByName \in [Names -> Poller \cup {NoPoller}]
    <3>1. \A n \in Names : m_pollerByName[n] \in Poller \cup {NoPoller}
      BY <1>2, <1>5, <1>6
    <3>2. m_pollerByName = [n \in Names |-> m_pollerByName[n]]
      BY DEF Init
    <3> QED BY <3>1, <3>2
  <2>2. target \in [Poller -> Client \cup {NoPoller}]
    BY <1>1, <1>3, <1>4
  <2>3. thread \in [Poller -> ThreadState]
    BY <1>1 DEF ThreadState
  <2>4. m_treeItems \in [Names -> {"absent", "up", "down"}]
    BY <1>1, TreeOfType
  <2> QED BY <1>1, <1>2, <2>1, <2>2, <2>3, <2>4 DEF TypeOK
<1>8. OwnedAreAtWork /\ BornHaveTarget
  BY <1>1, <1>2, <1>3, <1>4 DEF OwnedAreAtWork, BornHaveTarget
<1>9. FutureIsUnborn /\ ClosedOwnsNone /\ RetiredAreSignalled
  BY <1>1, <1>3 DEF FutureIsUnborn, ClosedOwnsNone, RetiredAreSignalled
<1>10. PollersMatchList
  <2>1. \A p \in m_pollers : target[p] = ClientOf(computers[p[2]])
    BY <1>1, <1>2
  <2>2. \A e \in Enabled(computers) : <<1, e>> \in m_pollers
    BY <1>1
  <2>3. \A e \in Enabled(computers) : target[<<1, e>>] = ClientOf(computers[e])
    BY <2>1, <2>2
  <2>4. \A p \in m_pollers :
           target[p] \in {ClientOf(computers[e]) : e \in Enabled(computers)}
    BY <1>3, <2>1
  <2> QED BY <2>2, <2>3, <2>4 DEF PollersMatchList
<1>11. IndexIsLive
  <2> SUFFICES ASSUME NEW n \in Names
               PROVE  LET p == m_pollerByName[n] IN
                        /\ p # NoPoller =>
                             /\ p \in m_pollers /\ target[p].name = n
                             /\ p \notin stop /\ thread[p] \in {"poll", "send"}
                        /\ alive /\ n \in EnabledNames(computers) => p # NoPoller
    BY DEF IndexIsLive
  <2>1. CASE n \in EnabledNames(computers)
    <3>1. m_pollerByName[n] # NoPoller
      BY <1>2, <1>5, <2>1, FleetAssumption DEF Poller
    <3> QED BY <1>5, <1>8, <2>1, <3>1 DEF OwnedAreAtWork
  <2>2. CASE n \notin EnabledNames(computers)
    BY <1>6, <2>2
  <2> QED BY <2>1, <2>2
<1>12. SidebarIsCurrent
  BY <1>1 DEF SidebarIsCurrent
<1> QED
  BY <1>7, <1>8, <1>9, <1>10, <1>11, <1>12 DEF FleetInv

\* FleetInv is inductive.
LEMMA NextKeepsInv == FleetInv /\ [Next]_vars => FleetInv'
<1> SUFFICES ASSUME FleetInv, [Next]_vars PROVE FleetInv'
  OBVIOUS
<1>1. CASE Handler
  BY <1>1, HandlersKeepInv
<1>2. CASE HandleSnapshot
  BY <1>2, CallbackKeepsInv
<1>3. ASSUME NEW p \in Poller,
             PollClient(p) \/ PostSnapshot(p) \/ Destroy(p)
      PROVE  FleetInv'
  BY <1>3, ThreadsKeepInv
<1>4. CASE UNCHANGED vars
  <2>1. /\ TypeOK' = TypeOK /\ OwnedAreAtWork' = OwnedAreAtWork
        /\ BornHaveTarget' = BornHaveTarget /\ FutureIsUnborn' = FutureIsUnborn
    BY <1>4 DEF vars, TypeOK, OwnedAreAtWork, BornHaveTarget, FutureIsUnborn
  <2>2. ClosedOwnsNone' /\ RetiredAreSignalled' /\ SidebarIsCurrent'
    BY <1>4 DEF FleetInv, vars, ClosedOwnsNone, RetiredAreSignalled,
       SidebarIsCurrent
  <2>3. PollersMatchList'
    BY <1>4 DEF FleetInv, vars, PollersMatchList
  <2>4. IndexIsLive'
    BY <1>4 DEF FleetInv, vars, IndexIsLive
  <2> QED BY <2>1, <2>2, <2>3, <2>4 DEF FleetInv
<1> QED BY <1>1, <1>2, <1>3, <1>4 DEF Next

\* Whatever the order of handlers, poller threads and late callbacks, the
\* inductive invariant of MainFrame's fleet holds.
THEOREM FleetSafe == Spec => []FleetInv
<1>1. FleetInv /\ [Next]_vars => FleetInv'
  BY NextKeepsInv
<1> QED BY InitEstablishesInv, <1>1, PTL DEF Spec

\* The variables of the fleet keep their types.
THEOREM TypeCorrect == Spec => []TypeOK
<1>1. FleetInv => TypeOK
  BY DEF FleetInv
<1> QED BY FleetSafe, <1>1, PTL

\* After every handler the owned pollers poll the enabled computers, no more
\* and no fewer, where the list says they are.
THEOREM PollersAlwaysMatchList == Spec => []PollersMatchList
<1>1. FleetInv => PollersMatchList
  BY DEF FleetInv
<1> QED BY FleetSafe, <1>1, PTL

\* The raw pointers in m_pollerByName never dangle and never name a poller
\* that has been told to stop.
THEOREM IndexAlwaysLive == Spec => []IndexIsLive
<1>1. FleetInv => IndexIsLive
  BY DEF FleetInv
<1> QED BY FleetSafe, <1>1, PTL

\* No poller is let go without being told to stop.
THEOREM RetiredAlwaysSignalled == Spec => []RetiredAreSignalled
<1>1. FleetInv => RetiredAreSignalled
  BY DEF FleetInv
<1> QED BY FleetSafe, <1>1, PTL

\* The markers set one by one agree with the sidebar drawn from scratch.
THEOREM SidebarAlwaysCurrent == Spec => []SidebarIsCurrent
<1>1. FleetInv => SidebarIsCurrent
  BY DEF FleetInv
<1> QED BY FleetSafe, <1>1, PTL

(***************************************************************************)
(* Names as the key of every map of the frame.  Each handler that lets     *)
(* somebody enter one compares it with the others; the network scan makes  *)
(* names up and compares addresses.                                        *)
(***************************************************************************)

\* A list whose entries were all listed, with the names they have, repeats no
\* name.
LEMMA FewerStayUnique ==
    ASSUME UniqueIn(computers), NEW list,
           Listed(list) \subseteq Listed(computers),
           \A e \in Listed(list) : list[e].name = computers[e].name
    PROVE  UniqueIn(list)
BY DEF UniqueIn

\* Nor does one with a single name changed for one that is not taken.
LEMMA RenamedStayUnique ==
    ASSUME UniqueIn(computers), NEW list, NEW e \in Listed(computers), NEW name,
           name = computers[e].name \/ ~NameTaken(computers, name, computers[e].name),
           Listed(list) \subseteq Listed(computers),
           \A f \in Listed(list) :
              list[f].name = IF f = e THEN name ELSE computers[f].name
    PROVE  UniqueIn(list)
BY DEF UniqueIn, NameTaken

\* What the handlers append.
LEMMA GrownStayUnique ==
    ASSUME UniqueIn(computers), NEW longer \in Grown(computers),
           \A e \in Added(computers, longer) :
              \A f \in Listed(longer) \ {e} : longer[e].name # longer[f].name
    PROVE  UniqueIn(longer)
BY DEF UniqueIn, Grown, Added

\* Every handler but the scan's, whose guard on addresses says nothing about
\* names.
LEMMA HandlersKeepUnique ==
    ASSUME TypeOK, UniqueIn(computers), ~FindComputers, Handler
    PROVE  UniqueIn(computers')
<1>1. computers \in List
  BY DEF TypeOK
<1>2. CASE AddComputer
  <2>1. PICK longer \in Grown(computers) :
          /\ \E e \in Entries : Added(computers, longer) = {e}
          /\ \A e \in Added(computers, longer) :
                ~NameTaken(computers, longer[e].name, NoPoller)
          /\ computers' = longer
    BY <1>2 DEF AddComputer, Commit
  <2>2. \A f \in Listed(computers) :
           longer[f] = computers[f] /\ computers[f].name # NoPoller
    BY <1>1, FleetAssumption DEF Grown, Listed, List, Computer
  <2>3. \A e \in Added(computers, longer) :
           \A f \in Listed(longer) \ {e} : longer[e].name # longer[f].name
    BY <2>1, <2>2 DEF Added, NameTaken
  <2> QED
    BY <2>1, <2>3, GrownStayUnique
<1>3. ASSUME NEW names \in SUBSET NamesOf(computers), RemoveComputers(names)
      PROVE  UniqueIn(computers')
  <2>1. computers' = [e \in Entries |->
          IF e \in Listed(computers) /\ computers[e].name \in names
          THEN Unlisted ELSE computers[e]]
    BY <1>3 DEF RemoveComputers, Commit
  <2>2. /\ Listed(computers') \subseteq Listed(computers)
        /\ \A e \in Listed(computers') : computers'[e].name = computers[e].name
    BY <2>1 DEF Listed
  <2> QED BY <2>2, FewerStayUnique
<1>4. ASSUME NEW names \in SUBSET NamesOf(computers), NEW on \in BOOLEAN,
             EnableComputers(names, on)
      PROVE  UniqueIn(computers')
  <2>1. computers' = [e \in Entries |->
          IF e \in Listed(computers) /\ computers[e].name \in names
          THEN [computers[e] EXCEPT !.enabled = on] ELSE computers[e]]
    BY <1>4 DEF EnableComputers, Commit
  <2>2. \A e \in Listed(computers) :
           [computers[e] EXCEPT !.enabled = on].name = computers[e].name
    BY <1>1 DEF Listed, List, Computer
  <2>3. /\ Listed(computers') \subseteq Listed(computers)
        /\ \A e \in Listed(computers') : computers'[e].name = computers[e].name
    BY <2>1, <2>2 DEF Listed
  <2> QED BY <2>3, FewerStayUnique
<1>5. ASSUME NEW e \in Entries, NEW name \in Names, NEW addr \in Addrs,
             EditComputer(e, name, addr)
      PROVE  UniqueIn(computers')
  <2>1. /\ e \in Listed(computers)
        /\ ~NameTaken(computers, name, computers[e].name)
        /\ computers' = [computers EXCEPT
              ![e] = [name |-> name, addr |-> addr, enabled |-> TRUE]]
    BY <1>5 DEF EditComputer, Commit
  <2>2. /\ Listed(computers') \subseteq Listed(computers)
        /\ \A f \in Listed(computers') :
              computers'[f].name = IF f = e THEN name ELSE computers[f].name
    BY <1>1, <2>1 DEF Listed, List
  <2> QED BY <2>1, <2>2, RenamedStayUnique
<1>6. ASSUME NEW e \in Entries, NEW name \in Names, EditName(e, name)
      PROVE  UniqueIn(computers')
  <2>1. /\ e \in Listed(computers)
        /\ ~NameTaken(computers, name, computers[e].name)
        /\ computers' = [computers EXCEPT ![e].name = name]
    BY <1>6 DEF EditName, Commit
  <2>2. /\ Listed(computers') \subseteq Listed(computers)
        /\ \A f \in Listed(computers') :
              computers'[f].name = IF f = e THEN name ELSE computers[f].name
    BY <1>1, <2>1 DEF Listed, List, Computer
  <2> QED BY <2>1, <2>2, RenamedStayUnique
<1>7. ASSUME NEW e \in Entries, NEW addr \in Addrs, EditAddr(e, addr)
      PROVE  UniqueIn(computers')
  <2>1. e \in Listed(computers) /\ computers' = [computers EXCEPT ![e].addr = addr]
    BY <1>7 DEF EditAddr, Commit
  <2>2. /\ Listed(computers') \subseteq Listed(computers)
        /\ \A f \in Listed(computers') : computers'[f].name = computers[f].name
    BY <1>1, <2>1 DEF Listed, List, Computer
  <2> QED BY <2>2, FewerStayUnique
<1>8. CASE ChangeInterval
  BY <1>8 DEF ChangeInterval
<1>9. CASE ImportClassic
  BY <1>9, GrownStayUnique DEF ImportClassic
<1>10. ASSUME NEW stopClientOnExit \in BOOLEAN, CloseFrame(stopClientOnExit)
       PROVE  UniqueIn(computers')
  BY <1>10 DEF CloseFrame
<1> QED
  BY <1>2, <1>3, <1>4, <1>5, <1>6, <1>7, <1>8, <1>9, <1>10 DEF Handler

\* Neither the event loop nor a thread changes the list.
LEMMA OthersKeepNames ==
    ASSUME [Next]_vars, ~Handler
    PROVE  UNCHANGED computers
BY DEF Next, vars, HandleSnapshot, PollClient, PostSnapshot, Destroy, fleetVars

\* RejectDuplicateName and the import's comparison keep unique names unique,
\* whatever is edited, removed and parked in between; only the scan's handler
\* ever ends that.
THEOREM NamesStayUnique == Spec => UniqueNames
<1>1. TypeOK /\ [Next]_vars =>
        [UniqueIn(computers) => UniqueIn(computers') \/ FindComputers]_vars
  <2> SUFFICES ASSUME TypeOK, [Next]_vars, UniqueIn(computers), ~FindComputers
               PROVE  UniqueIn(computers')
    OBVIOUS
  <2>1. CASE Handler
    BY <2>1, HandlersKeepUnique
  <2>2. CASE ~Handler
    BY <2>2, OthersKeepNames
  <2> QED BY <2>1, <2>2
<1> QED
  BY <1>1, TypeCorrect, PTL DEF Spec, UniqueNames
=============================================================================
