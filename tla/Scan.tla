-------------------------------- MODULE Scan --------------------------------
(***************************************************************************)
(* BtScanRange (bt_scan.cpp): a pool of threads sweeps the ports of every  *)
(* address of a range, taking addresses from a shared counter; addresses   *)
(* that stay silent are swept once more, patiently, by a smaller pool.     *)
(* The caller's thread watches a counter of finished addresses, reports    *)
(* progress, and learns there that the user pressed Cancel.                *)
(***************************************************************************)
EXTENDS Integers, Sequences, FiniteSets, Functions

CONSTANTS
    HostFirst, HostLast,   \* the range of addresses
    PortFirst, PortLast,   \* the range of ports
    Workers,               \* the threads of the quick pass
    SlowWorkers,           \* those of the patient pass, under the same names
    PatientLonger,         \* scanSlowTimeoutMs > scanTimeoutMs
    CancelUsed             \* whether Cancel may be pressed

ASSUME ScanAssumption ==
    /\ HostFirst \in Nat /\ HostLast \in Nat /\ HostFirst <= HostLast
    /\ PortFirst \in Nat /\ PortLast \in Nat /\ PortFirst <= PortLast
    /\ IsFiniteSet(Workers) /\ Workers # {}
    /\ SlowWorkers \subseteq Workers /\ SlowWorkers # {}
    /\ PatientLonger \in BOOLEAN
    /\ CancelUsed \in BOOLEAN

Hosts == HostFirst..HostLast
Ports == PortFirst..PortLast

VARIABLES
    phase,           \* "quick", "patient" or "returned"
    cancelled,
    done,            \* addresses finished in this pass
    nextHost,        \* the next address of the quick pass
    slowCandidates,  \* addresses silent in the quick pass
    slowNext,        \* the next of them, from 1
    pc,              \* each worker: "claim", "sweep", "finish" or "out"
    host,            \* the address a worker has claimed
    port,            \* the port it probes next
    hostAlive,       \* whether the address has answered
    results,         \* clients found
    shown,           \* the last value given to the progress bar
    lastReported,
    verdict          \* history: how each address was left

scanVars   == <<phase, cancelled, done, nextHost, slowCandidates, slowNext>>
workerVars == <<pc, host, port, hostAlive>>
barVars    == <<shown, lastReported>>
vars == <<phase, cancelled, done, nextHost, slowCandidates, slowNext,
          pc, host, port, hostAlive, results, shown, lastReported, verdict>>

\* addresses in the whole range; the bar covers both passes
total       == HostLast - HostFirst + 1
reportTotal == 2 * total

\* addresses of the pass that runs
Expected == IF phase = "quick" THEN total ELSE Len(slowCandidates)

----------------------------------------------------------------------------
(* The workers.                                                            *)

\* Mutant: the last address of the range is left out.
LeftQuickShort == nextHost < HostLast

LeftQuick == nextHost <= HostLast

\* Mutant: the shared counter is read and not advanced.
NextHostStuck == nextHost

NextHost == nextHost + 1

\* fetch_add on the pass's counter, then the test of cancelled.  A worker that
\* sees the flag leaves with the address it had just claimed.
Claim(w) ==
    /\ pc[w] = "claim"
    /\ LET quick == phase = "quick"
           left  == IF quick THEN LeftQuick ELSE slowNext <= Len(slowCandidates)
       IN  /\ nextHost' = IF quick THEN NextHost ELSE nextHost
           /\ slowNext' = IF quick THEN slowNext ELSE slowNext + 1
           /\ IF left /\ ~cancelled
              THEN /\ host' = [host EXCEPT
                        ![w] = IF quick THEN nextHost ELSE slowCandidates[slowNext]]
                   /\ port' = [port EXCEPT ![w] = PortFirst]
                   /\ hostAlive' = [hostAlive EXCEPT ![w] = FALSE]
                   /\ pc' = [pc EXCEPT ![w] = "sweep"]
              ELSE /\ pc' = [pc EXCEPT ![w] = "out"]
                   /\ UNCHANGED <<host, port, hostAlive>>
    /\ UNCHANGED <<phase, cancelled, done, slowCandidates, results, barVars,
                   verdict>>

\* Mutant: a port that times out earns a retry on an address that answered.
AbandonsAlways(w) == TRUE

\* A time-out abandons the address unless it has answered before.
Abandons(w) == ~hostAlive[w]

\* Mutant: candidates are noted in the wrong pass.
NotesInPatient == phase = "patient"

\* Mutant: the port loop runs one port too far.
AtLastPortLate(w) == port[w] > PortLast

AtLastPort(w) == port[w] = PortLast

\* An abandoned address is noted for the patient pass.
Notes == phase = "quick"

\* The next port of the address claimed.  It stays silent; or it answers and
\* no client speaks there; or it is a client.
ProbePort(w) ==
    /\ pc[w] = "sweep"
    /\ \/ /\ Abandons(w)
          /\ pc' = [pc EXCEPT ![w] = "finish"]
          /\ slowCandidates' = IF Notes THEN Append(slowCandidates, host[w])
                                        ELSE slowCandidates
          /\ UNCHANGED <<port, hostAlive, results>>
       \/ /\ port' = [port EXCEPT ![w] = port[w] + 1]
          /\ pc' = [pc EXCEPT ![w] = IF AtLastPort(w) THEN "finish" ELSE "sweep"]
          /\ \/ hostAlive[w] /\ UNCHANGED <<hostAlive, results>>
             \/ hostAlive' = [hostAlive EXCEPT ![w] = TRUE] /\ UNCHANGED results
             \/ /\ hostAlive' = [hostAlive EXCEPT ![w] = TRUE]
                /\ results' = Append(results, <<host[w], port[w]>>)
          /\ UNCHANGED slowCandidates
    /\ UNCHANGED <<phase, cancelled, done, nextHost, slowNext, host, barVars,
                   verdict>>

\* done.fetch_add at the end of an address.
Finish(w) ==
    /\ pc[w] = "finish"
    /\ done' = done + 1
    /\ pc' = [pc EXCEPT ![w] = "claim"]
    /\ verdict' = [verdict EXCEPT
          ![host[w]] = IF hostAlive[w] THEN "answered"
                       ELSE IF phase = "quick" THEN "silent" ELSE "gaveup"]
    /\ UNCHANGED <<phase, cancelled, nextHost, slowCandidates, slowNext, host,
                   port, hostAlive, results, barVars>>

----------------------------------------------------------------------------
(* The caller's thread.                                                    *)

\* Mutant: each pass has the whole bar to itself.
BarOfPass(d) == (d * reportTotal) \div Expected

\* The patient pass moves the second half of the bar.
Bar(d) == IF phase = "quick" THEN d ELSE total + (d * total) \div Expected

\* onProgress, when the count has changed.  The count is read again after the
\* loop's test, so it may have reached the pass's total meanwhile.
Report(cancel) ==
    /\ phase # "returned"
    /\ done # lastReported
    /\ shown' = Bar(done)
    /\ lastReported' = done
    /\ cancelled' = (cancelled \/ cancel)
    /\ UNCHANGED <<phase, done, nextHost, slowCandidates, slowNext, workerVars,
                   results, verdict>>

\* The loop's test, after which the pass's workers are joined.
PassOver == done >= Expected /\ \A w \in Workers : pc[w] = "out"

Retries == ~cancelled /\ slowCandidates # <<>> /\ PatientLonger

\* The sequence sorted.
Ascending(s) ==
    {[i \in DOMAIN s |-> s[order[i]]] : order \in
        {f \in [DOMAIN s -> DOMAIN s] :
            /\ IsInjective(f)
            /\ \A i, j \in DOMAIN s : i < j => s[f[i]] <= s[f[j]]}}

\* The candidates are sorted and a smaller pool started over them.
StartPatient ==
    /\ phase = "quick" /\ PassOver
    /\ Retries
    /\ phase' = "patient"
    /\ slowCandidates' \in Ascending(slowCandidates)
    /\ done' = 0
    /\ lastReported' = -1
    /\ pc' = [w \in Workers |-> IF w \in SlowWorkers THEN "claim" ELSE "out"]
    /\ UNCHANGED <<cancelled, nextHost, slowNext, host, port, hostAlive,
                   results, shown, verdict>>

\* The last report fills the bar; the results go back to OnFindComputers.
Return ==
    /\ \/ phase = "quick" /\ PassOver /\ ~Retries
       \/ phase = "patient" /\ PassOver
    /\ phase' = "returned"
    /\ shown' = reportTotal
    /\ UNCHANGED <<cancelled, done, nextHost, slowCandidates, slowNext,
                   workerVars, results, lastReported, verdict>>

----------------------------------------------------------------------------

Init ==
    /\ phase = "quick"
    /\ cancelled = FALSE
    /\ done = 0
    /\ nextHost = HostFirst
    /\ slowCandidates = <<>>
    /\ slowNext = 1
    /\ pc = [w \in Workers |-> "claim"]
    /\ host = [w \in Workers |-> HostFirst]
    /\ port = [w \in Workers |-> PortFirst]
    /\ hostAlive = [w \in Workers |-> FALSE]
    /\ results = <<>>
    /\ shown = 0
    /\ lastReported = -1
    /\ verdict = [h \in Hosts |-> "unswept"]

Worker(w) == Claim(w) \/ ProbePort(w) \/ Finish(w)

Main == (\E cancel \in BOOLEAN : (cancel => CancelUsed) /\ Report(cancel))
        \/ StartPatient \/ Return

Next == Main \/ \E w \in Workers : Worker(w)

Spec == Init /\ [][Next]_vars

\* Every probe and every RPC has a time-out, so every thread moves on.
FairSpec == Spec /\ WF_vars(Main) /\ \A w \in Workers : WF_vars(Worker(w))

----------------------------------------------------------------------------
(* Properties.                                                             *)

TypeOK ==
    /\ phase \in {"quick", "patient", "returned"}
    /\ cancelled \in BOOLEAN
    /\ done \in 0..total
    /\ nextHost \in Nat
    /\ slowCandidates \in Seq(Hosts)
    /\ slowNext \in Nat \ {0}
    /\ pc \in [Workers -> {"claim", "sweep", "finish", "out"}]
    /\ host \in [Workers -> Hosts]
    /\ port \in [Workers -> PortFirst..(PortLast + 1)]
    /\ hostAlive \in [Workers -> BOOLEAN]
    /\ results \in Seq(Hosts \X Ports)
    /\ shown \in 0..reportTotal
    /\ lastReported \in -1..total
    /\ verdict \in [Hosts -> {"unswept", "silent", "answered", "gaveup"}]

\* No two workers are ever on one address.
NeverShared ==
    \A v, w \in Workers :
        pc[v] \in {"sweep", "finish"} /\ pc[w] \in {"sweep", "finish"}
        /\ host[v] = host[w] => v = w

\* A client is found once, though its address may be swept twice.
FoundOnce ==
    \A i, j \in DOMAIN results : results[i] = results[j] => i = j

\* A scan nobody cancelled returns only when every address has answered or
\* has been given up after the retry it is due.
NothingSkipped ==
    phase = "returned" /\ ~cancelled =>
        \A h \in Hosts :
            verdict[h] \in {"answered", "gaveup"}
                           \cup (IF PatientLonger THEN {} ELSE {"silent"})

\* The bar tops out only when no address is left to sweep: a progress dialog
\* that closes itself at the top never leaves a scan running behind it.
TopsOutAtEnd == shown = reportTotal => \A w \in Workers : pc[w] # "sweep"

\* The bar never moves back.
BarOnlyGrows == [][shown' >= shown]_vars

\* A scan nobody cancels returns, whichever worker finishes last in either pass.
Returns == <>(phase = "returned" \/ cancelled)

\* A scan that is cancelled returns too.
CancelReturns == cancelled ~> phase = "returned"
=============================================================================
