---------------------------- MODULE ScanProofs ----------------------------
(***************************************************************************)
(* A scan, for any range of addresses and ports and any number of workers: *)
(* no address is with two of them, no client is found twice, no address is *)
(* skipped, and the bar is full only at the end and never moves back.      *)
(***************************************************************************)
EXTENDS Scan, SequenceTheorems, FiniteSetTheorems, TLAPS

ScanTypes ==
    /\ phase \in {"quick", "patient", "returned"}
    /\ nextHost \in Nat /\ nextHost >= HostFirst /\ slowNext \in Nat \ {0}
    /\ slowCandidates \in Seq(Hosts)
    /\ pc \in [Workers -> {"claim", "sweep", "finish", "out"}]
    /\ host \in [Workers -> Hosts]
    /\ port \in [Workers -> PortFirst..(PortLast + 1)]
    /\ hostAlive \in [Workers -> BOOLEAN]
    /\ results \in Seq(Hosts \X Ports)
    /\ \A w \in Workers : pc[w] = "sweep" => port[w] \in Ports
    /\ phase = "returned" => \A w \in Workers : pc[w] = "out"

Working(w) == pc[w] \in {"sweep", "finish"}

Noted == {slowCandidates[i] : i \in 1..Len(slowCandidates)}

\* The addresses the pass has not handed out.
Ahead ==
    IF phase = "quick" THEN {h \in Hosts : h >= nextHost}
    ELSE IF phase = "patient"
    THEN {slowCandidates[i] : i \in {j \in 1..Len(slowCandidates) : j >= slowNext}}
    ELSE {}

NotedOnce ==
    \A i, j \in 1..Len(slowCandidates) :
        slowCandidates[i] = slowCandidates[j] => i = j

ClaimedNotAhead == \A w \in Workers : Working(w) => host[w] \notin Ahead

FoundNotAhead == \A i \in 1..Len(results) : results[i][1] \notin Ahead

\* What has been found on the address of a worker, it has found itself, on the
\* ports behind it.
FoundSoFar ==
    \A w \in Workers, i \in 1..Len(results) :
        pc[w] = "sweep" /\ results[i][1] = host[w] =>
            hostAlive[w] /\ results[i][2] < port[w]

\* An address noted for the patient pass is done with, and nothing was found.
NotedSilent ==
    phase = "quick" => \A h \in Noted :
        /\ h \notin Ahead
        /\ \A w \in Workers : pc[w] = "sweep" => host[w] # h
        /\ \A i \in 1..Len(results) : results[i][1] # h

ScanInv ==
    /\ ScanTypes
    /\ NeverShared
    /\ NotedOnce /\ NotedSilent
    /\ ClaimedNotAhead
    /\ FoundNotAhead /\ FoundSoFar
    /\ FoundOnce

----------------------------------------------------------------------------

\* Nothing is claimed, noted or found before the first claim.
LEMMA InitEstablishesInv == Init => ScanInv
<1> SUFFICES ASSUME Init PROVE ScanInv
  OBVIOUS
<1>1. /\ Len(results) = 0 /\ results \in Seq(Hosts \X Ports)
      /\ Len(slowCandidates) = 0 /\ slowCandidates \in Seq(Hosts)
      /\ DOMAIN results = {}
  BY DEF Init
<1>2. HostFirst \in Hosts /\ HostFirst \in Nat /\ PortFirst \in PortFirst..(PortLast + 1)
  BY ScanAssumption DEF Hosts
<1>3. ScanTypes
  BY <1>1, <1>2 DEF Init, ScanTypes
<1> QED
  BY <1>1, <1>3 DEF Init, ScanInv, NeverShared, NotedOnce, NotedSilent, Noted,
     ClaimedNotAhead, Working, FoundNotAhead, FoundSoFar, FoundOnce

\* The shared counters hand every address out once.
LEMMA ClaimTakes ==
    ASSUME ScanInv, NEW w \in Workers, Claim(w)
    PROVE  /\ Ahead' \subseteq Ahead
           /\ nextHost' \in Nat /\ nextHost' >= HostFirst
           /\ slowNext' \in Nat \ {0}
           /\ \/ /\ pc' = [pc EXCEPT ![w] = "out"]
                 /\ UNCHANGED <<host, port, hostAlive>>
              \/ \E h \in Ahead :
                    /\ h \in Hosts /\ h \notin Ahead'
                    /\ host' = [host EXCEPT ![w] = h]
                    /\ port' = [port EXCEPT ![w] = PortFirst]
                    /\ hostAlive' = [hostAlive EXCEPT ![w] = FALSE]
                    /\ pc' = [pc EXCEPT ![w] = "sweep"]
<1>1. /\ nextHost \in Nat /\ nextHost >= HostFirst /\ slowNext \in Nat \ {0}
      /\ slowCandidates \in Seq(Hosts) /\ Len(slowCandidates) \in Nat
      /\ phase \in {"quick", "patient"} /\ pc[w] = "claim"
      /\ UNCHANGED <<phase, slowCandidates>>
  BY LenProperties DEF ScanInv, ScanTypes, Claim
<1>0. HostFirst \in Nat
  BY ScanAssumption
<1>2. CASE phase = "quick"
  <2>1. nextHost' = nextHost + 1 /\ slowNext' = slowNext
    BY <1>2 DEF Claim, NextHost
  <2>2. Ahead = {h \in Hosts : h >= nextHost} /\ Ahead' = {h \in Hosts : h >= nextHost + 1}
    BY <1>1, <1>2, <2>1 DEF Ahead
  <2>3. Ahead' \subseteq Ahead /\ nextHost \notin Ahead'
    BY <1>1, <2>2, ScanAssumption DEF Hosts
  <2>4. nextHost' \in Nat /\ nextHost' >= HostFirst
    BY <1>0, <1>1, <2>1
  <2>5. CASE LeftQuick /\ ~cancelled
    <3>1. nextHost \in Ahead /\ nextHost \in Hosts
      BY <1>1, <2>2, <2>5, ScanAssumption DEF LeftQuick, Hosts
    <3>2. /\ host' = [host EXCEPT ![w] = nextHost]
          /\ port' = [port EXCEPT ![w] = PortFirst]
          /\ hostAlive' = [hostAlive EXCEPT ![w] = FALSE]
          /\ pc' = [pc EXCEPT ![w] = "sweep"]
      BY <1>2, <2>5 DEF Claim
    <3> QED
      BY <1>1, <2>1, <2>3, <2>4, <3>1, <3>2
  <2>6. CASE ~(LeftQuick /\ ~cancelled)
    BY <1>1, <1>2, <2>1, <2>3, <2>4, <2>6 DEF Claim
  <2> QED BY <2>5, <2>6
<1>3. CASE phase = "patient"
  <2>1. nextHost' = nextHost /\ slowNext' = slowNext + 1
    BY <1>3 DEF Claim
  <2>2. /\ Ahead = {slowCandidates[i] : i \in {j \in 1..Len(slowCandidates) : j >= slowNext}}
        /\ Ahead' = {slowCandidates[i] : i \in {j \in 1..Len(slowCandidates) : j >= slowNext + 1}}
    BY <1>1, <1>3, <2>1 DEF Ahead
  <2>3. Ahead' \subseteq Ahead
    BY <1>1, <2>2
  <2>4. CASE slowNext <= Len(slowCandidates) /\ ~cancelled
    <3>1. slowNext \in 1..Len(slowCandidates)
      BY <1>1, <2>4
    <3>2. slowCandidates[slowNext] \in Ahead /\ slowCandidates[slowNext] \in Hosts
      BY <1>1, <2>2, <3>1, ElementOfSeq
    <3>3. slowCandidates[slowNext] \notin Ahead'
      BY <1>1, <2>2, <3>1 DEF ScanInv, NotedOnce
    <3> QED
      BY <1>1, <1>3, <2>1, <2>3, <2>4, <3>2, <3>3 DEF Claim
  <2>5. CASE ~(slowNext <= Len(slowCandidates) /\ ~cancelled)
    BY <1>1, <1>3, <2>1, <2>3, <2>5 DEF Claim
  <2> QED BY <2>4, <2>5
<1> QED BY <1>1, <1>2, <1>3

\* An address handed out is new to every worker and to the findings.
LEMMA ClaimKeepsInv ==
    ASSUME ScanInv, NEW w \in Workers, Claim(w)
    PROVE  ScanInv'
<1>1. /\ ScanTypes /\ NeverShared /\ NotedOnce /\ NotedSilent
      /\ ClaimedNotAhead /\ FoundNotAhead /\ FoundSoFar /\ FoundOnce
  BY DEF ScanInv
<1>2. /\ Ahead' \subseteq Ahead
      /\ nextHost' \in Nat /\ nextHost' >= HostFirst /\ slowNext' \in Nat \ {0}
      /\ UNCHANGED <<phase, slowCandidates, results>>
      /\ pc[w] = "claim"
  BY ClaimTakes DEF Claim
<1>3. NotedOnce' /\ FoundOnce' /\ FoundNotAhead'
  BY <1>1, <1>2 DEF NotedOnce, FoundOnce, FoundNotAhead
<1>4. CASE pc' = [pc EXCEPT ![w] = "out"] /\ UNCHANGED <<host, port, hostAlive>>
  <2>1. ScanTypes'
    BY <1>1, <1>2, <1>4 DEF ScanTypes
  <2>2. NeverShared' /\ ClaimedNotAhead' /\ FoundSoFar'
    BY <1>1, <1>2, <1>4 DEF ScanTypes, NeverShared, ClaimedNotAhead, Working, FoundSoFar
  <2>3. NotedSilent'
    <3>1. \A v \in Workers : pc'[v] = "sweep" => pc[v] = "sweep" /\ host'[v] = host[v]
      BY <1>1, <1>4 DEF ScanTypes
    <3> QED BY <1>1, <1>2, <3>1 DEF NotedSilent, Noted
  <2> QED BY <1>3, <2>1, <2>2, <2>3 DEF ScanInv
<1>5. ASSUME NEW h \in Ahead, h \in Hosts, h \notin Ahead',
             host' = [host EXCEPT ![w] = h],
             port' = [port EXCEPT ![w] = PortFirst],
             hostAlive' = [hostAlive EXCEPT ![w] = FALSE],
             pc' = [pc EXCEPT ![w] = "sweep"]
      PROVE  ScanInv'
  <2>1. /\ pc \in [Workers -> {"claim", "sweep", "finish", "out"}]
        /\ host \in [Workers -> Hosts]
        /\ port \in [Workers -> PortFirst..(PortLast + 1)]
        /\ hostAlive \in [Workers -> BOOLEAN]
    BY <1>1 DEF ScanTypes
  <2>2. ScanTypes'
    <3>1. PortFirst \in PortFirst..(PortLast + 1) /\ PortFirst \in Ports
      BY ScanAssumption DEF Ports
    <3>2. phase' # "returned"
      BY <1>1, <1>2 DEF ScanTypes
    <3>3. \A v \in Workers : pc'[v] = "sweep" => port'[v] \in Ports
      BY <1>1, <1>5, <2>1, <3>1 DEF ScanTypes
    <3>4. port' \in [Workers -> PortFirst..(PortLast + 1)]
      BY <1>5, <2>1, <3>1
    <3>5. /\ pc' \in [Workers -> {"claim", "sweep", "finish", "out"}]
          /\ host' \in [Workers -> Hosts]
          /\ hostAlive' \in [Workers -> BOOLEAN]
      BY <1>5, <2>1
    <3> QED
      BY <1>1, <1>2, <3>2, <3>3, <3>4, <3>5 DEF ScanTypes
  <2>3. \A v \in Workers \ {w} : pc'[v] = pc[v] /\ host'[v] = host[v]
                                  /\ port'[v] = port[v] /\ hostAlive'[v] = hostAlive[v]
    BY <1>5, <2>1
  <2>4. pc'[w] = "sweep" /\ host'[w] = h
    BY <1>5, <2>1
  <2>5. NeverShared'
    BY <1>1, <1>5, <2>3, <2>4 DEF NeverShared, ClaimedNotAhead, Working
  <2>6. ClaimedNotAhead'
    BY <1>1, <1>2, <1>5, <2>3, <2>4 DEF ClaimedNotAhead, Working
  <2>7. FoundSoFar'
    BY <1>1, <1>2, <1>5, <2>3, <2>4 DEF FoundSoFar, FoundNotAhead
  <2>8. NotedSilent'
    <3>1. Noted' = Noted
      BY <1>2 DEF Noted
    <3> SUFFICES ASSUME phase = "quick", NEW g \in Noted
                 PROVE  /\ g \notin Ahead'
                        /\ \A v \in Workers : pc'[v] = "sweep" => host'[v] # g
                        /\ \A i \in 1..Len(results) : results[i][1] # g
      BY <1>2, <3>1 DEF NotedSilent
    <3>2. /\ g \notin Ahead
          /\ \A v \in Workers : pc[v] = "sweep" => host[v] # g
          /\ \A i \in 1..Len(results) : results[i][1] # g
      BY <1>1 DEF NotedSilent
    <3> QED BY <1>2, <1>5, <2>3, <2>4, <3>2
  <2> QED BY <1>3, <2>2, <2>5, <2>6, <2>7, <2>8 DEF ScanInv
<1> QED
  BY <1>4, <1>5, ClaimTakes

\* An address noted in the quick pass has shown nothing.
LEMMA AbandonKeepsInv ==
    ASSUME ScanInv, NEW w \in Workers, pc[w] = "sweep", ~hostAlive[w],
           pc' = [pc EXCEPT ![w] = "finish"],
           slowCandidates' = IF phase = "quick" THEN Append(slowCandidates, host[w])
                                                ELSE slowCandidates,
           UNCHANGED <<phase, nextHost, slowNext, host, port, hostAlive, results>>
    PROVE  ScanInv'
<1>1. /\ ScanTypes /\ NeverShared /\ NotedOnce /\ NotedSilent
      /\ ClaimedNotAhead /\ FoundNotAhead /\ FoundSoFar /\ FoundOnce
  BY DEF ScanInv
<1>2. /\ pc \in [Workers -> {"claim", "sweep", "finish", "out"}]
      /\ slowCandidates \in Seq(Hosts) /\ Len(slowCandidates) \in Nat
      /\ host[w] \in Hosts /\ phase \in {"quick", "patient"}
  BY <1>1, LenProperties DEF ScanTypes
<1>3. Ahead' = Ahead
  BY <1>2 DEF Ahead
<1>4. \A v \in Workers : Working(v)' <=> Working(v)
  BY <1>2 DEF Working
<1>5. NeverShared' /\ ClaimedNotAhead' /\ FoundNotAhead' /\ FoundSoFar' /\ FoundOnce'
  <2>1. NeverShared'
    BY <1>1, <1>4 DEF NeverShared, Working
  <2>2. ClaimedNotAhead'
    BY <1>1, <1>3, <1>4 DEF ClaimedNotAhead
  <2>3. FoundNotAhead' /\ FoundOnce'
    BY <1>1, <1>3 DEF FoundNotAhead, FoundOnce
  <2>4. FoundSoFar'
    BY <1>1, <1>2 DEF FoundSoFar
  <2> QED BY <2>1, <2>2, <2>3, <2>4
<1>6. CASE phase = "quick"
  <2>1. /\ slowCandidates' \in Seq(Hosts)
        /\ Len(slowCandidates') = Len(slowCandidates) + 1
        /\ \A i \in 1..(Len(slowCandidates) + 1) :
              slowCandidates'[i] = IF i = Len(slowCandidates) + 1
                                   THEN host[w] ELSE slowCandidates[i]
    BY <1>2, <1>6, AppendProperties
  <2>2. host[w] \notin Noted
    BY <1>1, <1>6 DEF NotedSilent
  <2>3. Noted' = Noted \cup {host[w]}
    BY <1>2, <2>1 DEF Noted
  <2>4. NotedOnce'
    BY <1>1, <1>2, <2>1, <2>2 DEF NotedOnce, Noted
  <2>5. NotedSilent'
    <3>1. host[w] \notin Ahead
      BY <1>1 DEF ClaimedNotAhead, Working
    <3>2. \A v \in Workers : pc'[v] = "sweep" => pc[v] = "sweep" /\ host[v] # host[w]
      BY <1>1, <1>2 DEF NeverShared
    <3>3. \A i \in 1..Len(results) : results[i][1] # host[w]
      BY <1>1 DEF FoundSoFar
    <3> QED
      BY <1>1, <1>3, <1>6, <2>3, <3>1, <3>2, <3>3 DEF NotedSilent
  <2>6. ScanTypes'
    BY <1>1, <1>2, <2>1 DEF ScanTypes
  <2> QED BY <1>5, <2>4, <2>5, <2>6 DEF ScanInv
<1>7. CASE phase = "patient"
  BY <1>1, <1>2, <1>5, <1>7 DEF ScanInv, ScanTypes, NotedOnce, NotedSilent
<1> QED BY <1>2, <1>6, <1>7

\* An answer, a client's or another's, is on a port nobody has tried.
LEMMA AnswerKeepsInv ==
    ASSUME ScanInv, NEW w \in Workers, pc[w] = "sweep",
           port' = [port EXCEPT ![w] = port[w] + 1],
           pc' = [pc EXCEPT ![w] = IF port[w] = PortLast THEN "finish" ELSE "sweep"],
           \/ hostAlive[w] /\ UNCHANGED <<hostAlive, results>>
           \/ hostAlive' = [hostAlive EXCEPT ![w] = TRUE] /\ UNCHANGED results
           \/ /\ hostAlive' = [hostAlive EXCEPT ![w] = TRUE]
              /\ results' = Append(results, <<host[w], port[w]>>),
           UNCHANGED <<phase, nextHost, slowCandidates, slowNext, host>>
    PROVE  ScanInv'
<1>1. /\ ScanTypes /\ NeverShared /\ NotedOnce /\ NotedSilent
      /\ ClaimedNotAhead /\ FoundNotAhead /\ FoundSoFar /\ FoundOnce
  BY DEF ScanInv
<1>2. /\ pc \in [Workers -> {"claim", "sweep", "finish", "out"}]
      /\ port \in [Workers -> PortFirst..(PortLast + 1)]
      /\ hostAlive \in [Workers -> BOOLEAN]
      /\ results \in Seq(Hosts \X Ports) /\ Len(results) \in Nat
      /\ host[w] \in Hosts /\ port[w] \in Ports
      /\ phase \in {"quick", "patient"}
  BY <1>1, LenProperties DEF ScanTypes
<1>3. /\ PortFirst \in Nat /\ PortLast \in Nat
      /\ Ports = PortFirst..PortLast /\ port[w] \in Nat
  BY <1>2, ScanAssumption DEF Ports
<1>4. Ahead' = Ahead /\ Noted' = Noted
  BY DEF Ahead, Noted
<1>5. /\ results' \in Seq(Hosts \X Ports)
      /\ \A i \in 1..Len(results') :
            \/ i \in 1..Len(results) /\ results'[i] = results[i]
            \/ i = Len(results) + 1 /\ results'[i] = <<host[w], port[w]>>
      /\ results' # results => hostAlive'[w]
  <2>1. CASE results' = results
    BY <1>2, <2>1
  <2>2. CASE /\ results' = Append(results, <<host[w], port[w]>>)
             /\ hostAlive' = [hostAlive EXCEPT ![w] = TRUE]
    <3>1. <<host[w], port[w]>> \in Hosts \X Ports
      BY <1>2
    <3>2. /\ Append(results, <<host[w], port[w]>>) \in Seq(Hosts \X Ports)
          /\ Len(Append(results, <<host[w], port[w]>>)) = Len(results) + 1
          /\ \A i \in 1..(Len(results) + 1) :
                Append(results, <<host[w], port[w]>>)[i]
                  = IF i = Len(results) + 1 THEN <<host[w], port[w]>> ELSE results[i]
      BY <1>2, <3>1, AppendProperties
    <3> QED
      BY <1>2, <2>2, <3>2
  <2> QED BY <2>1, <2>2
<1>6. /\ hostAlive' \in [Workers -> BOOLEAN] /\ hostAlive'[w]
      /\ \A v \in Workers \ {w} : hostAlive'[v] = hostAlive[v]
  BY <1>2
<1>7. /\ port'[w] = port[w] + 1
      /\ \A v \in Workers \ {w} : port'[v] = port[v] /\ pc'[v] = pc[v]
      /\ pc'[w] = IF port[w] = PortLast THEN "finish" ELSE "sweep"
  BY <1>2
<1>8. ScanTypes'
  <2>1. port' \in [Workers -> PortFirst..(PortLast + 1)]
    BY <1>2, <1>3
  <2>2. \A v \in Workers : pc'[v] = "sweep" => port'[v] \in Ports
    BY <1>1, <1>2, <1>3, <1>7 DEF ScanTypes
  <2>3. pc' \in [Workers -> {"claim", "sweep", "finish", "out"}]
    BY <1>2
  <2> QED
    BY <1>1, <1>2, <1>5, <1>6, <2>1, <2>2, <2>3 DEF ScanTypes
<1>9. NeverShared' /\ ClaimedNotAhead'
  BY <1>1, <1>4, <1>7 DEF NeverShared, ClaimedNotAhead, Working
<1>10. FoundNotAhead'
  <2>1. host[w] \notin Ahead
    BY <1>1 DEF ClaimedNotAhead, Working
  <2> QED BY <1>1, <1>4, <1>5, <2>1 DEF FoundNotAhead
<1>11. NotedSilent'
  <2> SUFFICES ASSUME phase = "quick", NEW h \in Noted
               PROVE  /\ h \notin Ahead
                      /\ \A v \in Workers : pc'[v] = "sweep" => host[v] # h
                      /\ \A i \in 1..Len(results') : results'[i][1] # h
    BY <1>4 DEF NotedSilent
  <2>1. /\ h \notin Ahead /\ host[w] # h
        /\ \A v \in Workers : pc[v] = "sweep" => host[v] # h
        /\ \A i \in 1..Len(results) : results[i][1] # h
    BY <1>1 DEF NotedSilent
  <2> QED BY <1>5, <1>7, <2>1
<1>12. FoundSoFar'
  <2> SUFFICES ASSUME NEW v \in Workers, NEW i \in 1..Len(results'),
                      pc'[v] = "sweep", results'[i][1] = host[v]
               PROVE  hostAlive'[v] /\ results'[i][2] < port'[v]
    BY DEF FoundSoFar
  <2>1. pc[v] = "sweep"
    BY <1>7
  <2>2. CASE i \in 1..Len(results) /\ results'[i] = results[i]
    <3>1. hostAlive[v] /\ results[i][2] < port[v]
      BY <1>1, <2>1, <2>2 DEF FoundSoFar
    <3>2. results[i] \in Hosts \X Ports
      BY <1>2, <2>2, ElementOfSeq
    <3>3. results[i][2] \in Nat
      BY <1>3, <3>2
    <3> QED BY <1>3, <1>6, <1>7, <2>2, <3>1, <3>3
  <2>3. CASE results'[i] = <<host[w], port[w]>>
    <3>1. v = w
      BY <1>1, <2>1, <2>3 DEF NeverShared
    <3> QED BY <1>3, <1>6, <1>7, <2>3, <3>1
  <2> QED BY <1>5, <2>2, <2>3
<1>13. FoundOnce'
  <2>1. DOMAIN results' = 1..Len(results') /\ DOMAIN results = 1..Len(results)
    BY <1>2, <1>5, LenProperties
  <2>2. \A i \in 1..Len(results) : results[i] # <<host[w], port[w]>>
    <3> SUFFICES ASSUME NEW i \in 1..Len(results),
                        results[i] = <<host[w], port[w]>>
                 PROVE  FALSE
      OBVIOUS
    <3>1. results[i][2] < port[w]
      BY <1>1 DEF FoundSoFar
    <3> QED BY <1>3, <3>1
  <2>3. \A i, j \in 1..Len(results) : results[i] = results[j] => i = j
    BY <1>1, <2>1 DEF FoundOnce
  <2>4. ASSUME NEW i \in 1..Len(results'), NEW j \in 1..Len(results'),
               results'[i] = results'[j]
        PROVE  i = j
    BY <1>5, <2>2, <2>3, <2>4
  <2> QED BY <2>1, <2>4 DEF FoundOnce
<1>14. NotedOnce'
  BY <1>1 DEF NotedOnce
<1> QED
  BY <1>8, <1>9, <1>10, <1>11, <1>12, <1>13, <1>14 DEF ScanInv

\* The outcomes of a probe.
LEMMA ProbeKeepsInv ==
    ASSUME ScanInv, NEW w \in Workers, ProbePort(w)
    PROVE  ScanInv'
<1>1. /\ pc[w] = "sweep"
      /\ UNCHANGED <<phase, nextHost, slowNext, host>>
  BY DEF ProbePort
<1>2. CASE /\ Abandons(w)
           /\ pc' = [pc EXCEPT ![w] = "finish"]
           /\ slowCandidates' = IF Notes THEN Append(slowCandidates, host[w])
                                         ELSE slowCandidates
           /\ UNCHANGED <<port, hostAlive, results>>
  BY <1>1, <1>2, AbandonKeepsInv DEF Abandons, Notes
<1>3. CASE /\ port' = [port EXCEPT ![w] = port[w] + 1]
           /\ pc' = [pc EXCEPT ![w] = IF AtLastPort(w) THEN "finish" ELSE "sweep"]
           /\ \/ hostAlive[w] /\ UNCHANGED <<hostAlive, results>>
              \/ hostAlive' = [hostAlive EXCEPT ![w] = TRUE] /\ UNCHANGED results
              \/ /\ hostAlive' = [hostAlive EXCEPT ![w] = TRUE]
                 /\ results' = Append(results, <<host[w], port[w]>>)
           /\ UNCHANGED slowCandidates
  BY <1>1, <1>3, AnswerKeepsInv DEF AtLastPort
<1> QED BY <1>2, <1>3 DEF ProbePort

\* A worker done with its address has none.
LEMMA FinishKeepsInv ==
    ASSUME ScanInv, NEW w \in Workers, Finish(w)
    PROVE  ScanInv'
<1>1. /\ ScanTypes /\ NeverShared /\ NotedOnce /\ NotedSilent
      /\ ClaimedNotAhead /\ FoundNotAhead /\ FoundSoFar /\ FoundOnce
  BY DEF ScanInv
<1>2. /\ pc[w] = "finish" /\ pc' = [pc EXCEPT ![w] = "claim"]
      /\ UNCHANGED <<phase, nextHost, slowCandidates, slowNext, host, port,
                     hostAlive, results>>
  BY DEF Finish
<1>3. Ahead' = Ahead /\ Noted' = Noted
  BY <1>2 DEF Ahead, Noted
<1>4. ScanTypes'
  BY <1>1, <1>2 DEF ScanTypes
<1>5. \A v \in Workers : /\ Working(v)' => Working(v)
                        /\ pc'[v] = "sweep" => pc[v] = "sweep"
  BY <1>1, <1>2 DEF ScanTypes, Working
<1>6. NeverShared' /\ ClaimedNotAhead' /\ FoundSoFar' /\ NotedSilent'
  BY <1>1, <1>2, <1>3, <1>5 DEF NeverShared, ClaimedNotAhead, FoundSoFar,
     NotedSilent, Working
<1>7. NotedOnce' /\ FoundNotAhead' /\ FoundOnce'
  BY <1>1, <1>2, <1>3 DEF NotedOnce, FoundNotAhead, FoundOnce
<1> QED BY <1>4, <1>6, <1>7 DEF ScanInv

\* Sorting keeps the candidates, each once.
LEMMA AscendingKeeps ==
    ASSUME NEW s \in Seq(Hosts), NEW t \in Ascending(s),
           \A i, j \in 1..Len(s) : s[i] = s[j] => i = j
    PROVE  /\ t \in Seq(Hosts)
           /\ \A i \in 1..Len(t) : \E j \in 1..Len(s) : t[i] = s[j]
           /\ \A i, j \in 1..Len(t) : t[i] = t[j] => i = j
<1>1. Len(s) \in Nat /\ DOMAIN s = 1..Len(s)
  BY LenProperties
<1>2. PICK f \in [DOMAIN s -> DOMAIN s] :
         IsInjective(f) /\ t = [i \in DOMAIN s |-> s[f[i]]]
  BY DEF Ascending
<1>3. \A i \in 1..Len(s) : s[i] \in Hosts
  BY ElementOfSeq
<1>4. t \in [1..Len(s) -> Hosts]
  BY <1>1, <1>2, <1>3
<1>5. t \in Seq(Hosts) /\ Len(t) = Len(s)
  BY <1>1, <1>4, SeqDef, LenProperties
<1>6. \A i \in 1..Len(t) : f[i] \in 1..Len(s) /\ t[i] = s[f[i]]
  BY <1>1, <1>2, <1>5
<1>7. \A i, j \in 1..Len(t) : f[i] = f[j] => i = j
  <2>1. DOMAIN f = 1..Len(t)
    BY <1>1, <1>2, <1>5
  <2> QED BY ONLY <1>2, <2>1 DEF IsInjective
<1>8. ASSUME NEW i \in 1..Len(t), NEW j \in 1..Len(t), t[i] = t[j]
      PROVE  i = j
  <2>1. f[i] = f[j]
    BY <1>6, <1>8
  <2> QED BY <1>7, <2>1
<1> QED
  BY <1>5, <1>6, <1>8

\* The invariant does not look at the counting, the bar or the user.
LEMMA ElsewhereKeepsInv ==
    ASSUME ScanInv,
           UNCHANGED <<phase, nextHost, slowCandidates, slowNext, pc, host, port,
                       hostAlive, results>>
    PROVE  ScanInv'
<1>1. /\ ScanTypes /\ NeverShared /\ NotedOnce /\ NotedSilent
      /\ ClaimedNotAhead /\ FoundNotAhead /\ FoundSoFar /\ FoundOnce
  BY DEF ScanInv
<1>2. Ahead' = Ahead /\ Noted' = Noted
  BY DEF Ahead, Noted
<1>3. ScanTypes'
  BY <1>1 DEF ScanTypes
<1>4. NeverShared' /\ NotedOnce' /\ FoundOnce'
  BY <1>1 DEF NeverShared, NotedOnce, FoundOnce
<1>5. NotedSilent' /\ ClaimedNotAhead' /\ FoundNotAhead' /\ FoundSoFar'
  BY <1>1, <1>2 DEF NotedSilent, ClaimedNotAhead, Working, FoundNotAhead, FoundSoFar
<1> QED BY <1>3, <1>4, <1>5 DEF ScanInv

\* The caller's thread starts a pass only when no worker is on an address.
LEMMA MainKeepsInv ==
    ASSUME ScanInv, Main
    PROVE  ScanInv'
<1>1. /\ ScanTypes /\ NeverShared /\ NotedOnce /\ NotedSilent
      /\ ClaimedNotAhead /\ FoundNotAhead /\ FoundSoFar /\ FoundOnce
  BY DEF ScanInv
<1>2. ASSUME NEW cancel \in BOOLEAN, Report(cancel)
      PROVE  ScanInv'
  <2>1. UNCHANGED <<phase, nextHost, slowCandidates, slowNext, pc, host, port,
                    hostAlive, results>>
    BY <1>2 DEF Report, workerVars
  <2> QED BY <2>1, ElsewhereKeepsInv
<1>3. CASE StartPatient
  <2>1. /\ phase = "quick" /\ phase' = "patient"
        /\ slowCandidates' \in Ascending(slowCandidates)
        /\ pc' = [w \in Workers |-> IF w \in SlowWorkers THEN "claim" ELSE "out"]
        /\ UNCHANGED <<nextHost, slowNext, host, port, hostAlive, results>>
    BY <1>3 DEF StartPatient
  <2>2. /\ slowCandidates' \in Seq(Hosts)
        /\ \A i \in 1..Len(slowCandidates') :
              \E j \in 1..Len(slowCandidates) : slowCandidates'[i] = slowCandidates[j]
        /\ NotedOnce'
    BY <1>1, <2>1, AscendingKeeps DEF ScanTypes, NotedOnce
  <2>3. Ahead' \subseteq Noted
    BY <2>1, <2>2 DEF Ahead, Noted
  <2>4. \A w \in Workers : pc'[w] \in {"claim", "out"}
    BY <2>1
  <2>5. ScanTypes'
    BY <1>1, <2>1, <2>2, <2>4 DEF ScanTypes
  <2>6. FoundNotAhead'
    BY <1>1, <2>1, <2>3 DEF FoundNotAhead, NotedSilent
  <2>7. NeverShared' /\ ClaimedNotAhead' /\ FoundSoFar' /\ NotedSilent' /\ FoundOnce'
    BY <1>1, <2>1, <2>4 DEF NeverShared, ClaimedNotAhead, Working, FoundSoFar,
       NotedSilent, FoundOnce
  <2> QED BY <2>2, <2>5, <2>6, <2>7 DEF ScanInv
<1>4. CASE Return
  <2>1. /\ phase' = "returned"
        /\ \A w \in Workers : pc[w] = "out"
        /\ UNCHANGED <<nextHost, slowCandidates, slowNext, pc, host, port,
                       hostAlive, results>>
    BY <1>4 DEF Return, PassOver, workerVars
  <2>2. Ahead' = {}
    BY <2>1 DEF Ahead
  <2>3. ScanTypes'
    BY <1>1, <2>1 DEF ScanTypes
  <2>4. NeverShared' /\ NotedOnce' /\ FoundOnce'
    BY <1>1, <2>1 DEF NeverShared, NotedOnce, FoundOnce
  <2>5. NotedSilent' /\ ClaimedNotAhead' /\ FoundNotAhead' /\ FoundSoFar'
    BY <1>1, <2>1, <2>2 DEF NotedSilent, ClaimedNotAhead, Working, FoundNotAhead,
       FoundSoFar
  <2> QED BY <2>3, <2>4, <2>5 DEF ScanInv
<1> QED BY <1>2, <1>3, <1>4 DEF Main

----------------------------------------------------------------------------
(* The theorems.                                                           *)

\* The two counters, the candidates and the findings agree throughout a scan.
THEOREM ScanSafe == Spec => []ScanInv
<1>1. ScanInv /\ [Next]_vars => ScanInv'
  <2> SUFFICES ASSUME ScanInv, [Next]_vars
               PROVE  ScanInv'
    OBVIOUS
  <2>1. CASE UNCHANGED vars
    BY <2>1, ElsewhereKeepsInv DEF vars
  <2>2. CASE Main
    BY <2>2, MainKeepsInv
  <2>3. ASSUME NEW w \in Workers, Worker(w)
        PROVE  ScanInv'
    BY <2>3, ClaimKeepsInv, ProbeKeepsInv, FinishKeepsInv DEF Worker
  <2> QED BY <2>1, <2>2, <2>3 DEF Next
<1> QED
  BY <1>1, InitEstablishesInv, PTL DEF Spec

\* The fetch_add on the shared counter of each pass is all that keeps two
\* threads off one address, and it is enough.
THEOREM AddressNeverShared == Spec => []NeverShared
<1>1. ScanInv => NeverShared
  BY DEF ScanInv
<1> QED BY <1>1, ScanSafe, PTL

\* The patient pass sweeps only addresses on which the quick one found nothing,
\* so no client comes twice into the results.
THEOREM ClientFoundOnce == Spec => []FoundOnce
<1>1. ScanInv => FoundOnce
  BY DEF ScanInv
<1> QED BY <1>1, ScanSafe, PTL

----------------------------------------------------------------------------
(* The counting, and the bar.                                              *)

Busy == {w \in Workers : Working(w)}

\* The addresses the pass has handed out; a worker that finds none left may
\* have moved the counter on.
Handed ==
    IF phase = "quick"
    THEN IF nextHost <= HostLast THEN nextHost - HostFirst ELSE total
    ELSE IF slowNext <= Len(slowCandidates) THEN slowNext - 1
         ELSE Len(slowCandidates)

CountTypes ==
    /\ cancelled \in BOOLEAN
    /\ done \in 0..total
    /\ shown \in 0..reportTotal
    /\ lastReported \in -1..total

\* An address handed out is with a worker or finished, unless a worker that saw
\* the cancellation dropped it; the bar is behind.
CountInv ==
    /\ CountTypes
    /\ phase = "quick" => slowNext = 1
    /\ phase = "patient" => slowCandidates # <<>>
    /\ phase # "returned" => done + Cardinality(Busy) <= Handed
    /\ phase # "returned" => shown <= Bar(done)

----------------------------------------------------------------------------
(* The counting is inductive.                                              *)

\* Arithmetic of the bar.
LEMMA TimesMono == ASSUME NEW a \in Int, NEW b \in Int, NEW c \in Nat, a <= b PROVE a * c <= b * c
<1>1. (b - a) \in Nat
  OBVIOUS
<1>2. (b - a) * c >= 0
  BY <1>1
<1>3. (b - a) * c = b * c - a * c
  OBVIOUS
<1>4. a * c \in Int /\ b * c \in Int
  OBVIOUS
<1> QED BY <1>2, <1>3, <1>4

\* What a quotient is.
LEMMA DivSpec == ASSUME NEW a \in Int, NEW e \in Nat \ {0}
  PROVE /\ a \div e \in Int
        /\ e * (a \div e) <= a
        /\ a < e * (a \div e) + e
OBVIOUS

\* A quotient is the least such.
LEMMA DivLeast == ASSUME NEW a \in Int, NEW e \in Nat \ {0}, NEW q \in Int, a < e * (q + 1)
   PROVE a \div e <= q
<1>1. a \div e \in Int /\ e * (a \div e) <= a
  BY DivSpec
<1>2. SUFFICES ASSUME a \div e >= q + 1 PROVE FALSE
  BY <1>1
<1> DEFINE d == a \div e
<1> HIDE DEF d
<1>3. (q + 1) * e <= d * e
  BY <1>1, <1>2, TimesMono DEF d
<1>4. (q + 1) * e = e * (q + 1) /\ d * e = e * d /\ e * d \in Int /\ e * (q + 1) \in Int
  BY <1>1 DEF d
<1> QED BY <1>1, <1>3, <1>4 DEF d

\* Division keeps the order.
LEMMA DivMono == ASSUME NEW a \in Int, NEW b \in Int, NEW e \in Nat \ {0}, a <= b
   PROVE a \div e <= b \div e
<1>1. b \div e \in Int /\ b < e * (b \div e) + e
  BY DivSpec
<1> DEFINE q == b \div e
<1> HIDE DEF q
<1>2. e * q + e = e * (q + 1) /\ e * (q + 1) \in Int /\ e * q \in Int
  BY <1>1 DEF q
<1>3. a < e * (q + 1)
  BY <1>1, <1>2 DEF q
<1> QED BY <1>1, <1>3, DivLeast DEF q

\* A part of the bar is within it,
LEMMA DivBounds == ASSUME NEW d \in Nat, NEW t \in Nat, NEW e \in Nat \ {0}, d <= e
   PROVE (d * t) \div e \in 0..t
<1>1. d * t <= e * t /\ d * t \in Nat /\ e * t \in Nat
  BY TimesMono
<1>2. d * t < e * (t + 1)
  <2>1. e * (t + 1) = e * t + e
    OBVIOUS
  <2> QED BY <1>1, <2>1
<1>3. (d * t) \div e <= t
  BY <1>1, <1>2, DivLeast
<1>4. (d * t) \div e \in Nat
  BY <1>1
<1> QED BY <1>3, <1>4

\* and fills it only when the part is the whole.
LEMMA DivFull == ASSUME NEW d \in Nat, NEW t \in Nat \ {0}, NEW e \in Nat \ {0}, (d * t) \div e >= t
   PROVE d >= e
<1>1. SUFFICES ASSUME d < e PROVE FALSE
  OBVIOUS
<1>2. (d + 1) * t <= e * t /\ (d + 1) * t = d * t + t
  BY <1>1, TimesMono
<1>3. d * t \in Int /\ e * t \in Int /\ e * t = e * ((t - 1) + 1)
  OBVIOUS
<1>4. d * t < e * ((t - 1) + 1)
  BY <1>2, <1>3
<1>5. (d * t) \div e <= t - 1
  BY <1>3, <1>4, DivLeast
<1>6. (d * t) \div e \in Int
  BY <1>3
<1> QED BY <1>5, <1>6

\* The candidates are addresses of the range, each once, so no more than those.
LEMMA Sizes ==
    ASSUME ScanInv
    PROVE  /\ total \in Nat \ {0}
           /\ Len(slowCandidates) \in 0..total
           /\ IsFiniteSet(Busy) /\ Cardinality(Busy) \in Nat
           /\ Handed \in 0..Expected
<1>1. HostFirst \in Nat /\ HostLast \in Nat /\ HostFirst <= HostLast /\ IsFiniteSet(Workers)
  BY ScanAssumption
<1>2. total \in Nat \ {0}
  BY <1>1 DEF total
<1>3. slowCandidates \in Seq(Hosts) /\ Len(slowCandidates) \in Nat
  BY LenProperties DEF ScanInv, ScanTypes
<1>4. Len(slowCandidates) <= total
  <2>1. slowCandidates \in Injection(1..Len(slowCandidates), Hosts)
    <3>1. slowCandidates \in [1..Len(slowCandidates) -> Hosts]
      BY <1>3, LenProperties
    <3> QED BY <3>1 DEF ScanInv, NotedOnce, Injection, IsInjective
  <2>2. IsFiniteSet(Hosts) /\ Cardinality(Hosts) = total
    BY <1>1, FS_Interval DEF Hosts, total
  <2>3. Cardinality(1..Len(slowCandidates)) = Len(slowCandidates)
    <3>1. Len(slowCandidates) \in Nat
      BY <1>3
    <3>2. \A n \in Nat : Cardinality(1..n) = n
      BY ONLY FS_Interval
    <3> QED BY ONLY <3>1, <3>2
  <2> QED BY <2>1, <2>2, <2>3, FS_Injection
<1>5. IsFiniteSet(Busy) /\ Cardinality(Busy) \in Nat
  BY <1>1, FS_Subset, FS_CardinalityType DEF Busy
<1>6. nextHost \in Nat /\ nextHost >= HostFirst /\ slowNext \in Nat \ {0}
  BY DEF ScanInv, ScanTypes
<1>7. Handed \in 0..Expected
  BY <1>1, <1>2, <1>3, <1>6 DEF Handed, Expected, total
<1> QED BY <1>2, <1>3, <1>4, <1>5, <1>7

\* The bar of the count of a pass.
LEMMA BarBounds ==
    ASSUME ScanInv, CountInv, phase # "returned"
    PROVE  /\ done \in 0..Expected /\ done \in Nat
           /\ phase = "quick" => Bar(done) = done
           /\ Bar(done) \in 0..reportTotal
           /\ \A d \in Nat : done <= d => Bar(done) <= Bar(d) /\ Bar(d) \in Nat
<1>1. /\ total \in Nat \ {0} /\ Len(slowCandidates) \in 0..total
      /\ Cardinality(Busy) \in Nat /\ Handed \in 0..Expected
  BY Sizes
<1>2. done \in Nat /\ done + Cardinality(Busy) <= Handed
  BY <1>1 DEF CountInv, CountTypes
<1>3. Expected \in Nat
  BY <1>1 DEF Expected
<1>4. done \in 0..Expected
  BY <1>1, <1>2, <1>3
<1>5. CASE phase = "quick"
  BY <1>1, <1>2, <1>4, <1>5 DEF Bar, Expected, reportTotal
<1>6. CASE phase = "patient"
  <2>1. Expected = Len(slowCandidates) /\ Expected \in Nat \ {0}
    <3>1. slowCandidates # <<>> /\ slowCandidates \in Seq(Hosts)
      BY <1>6 DEF CountInv, ScanInv, ScanTypes
    <3> QED BY <1>1, <1>6, <3>1, EmptySeq DEF Expected
  <2>2. \A d : Bar(d) = total + (d * total) \div Expected
    BY <1>6 DEF Bar
  <2>3. (done * total) \div Expected \in 0..total
    <3>1. done \in Nat /\ total \in Nat /\ done <= Expected
      BY <1>1, <1>2, <1>4, <2>1
    <3> QED BY ONLY <2>1, <3>1, DivBounds
  <2>4. ASSUME NEW d \in Nat, done <= d
        PROVE  /\ (done * total) \div Expected <= (d * total) \div Expected
               /\ (d * total) \div Expected \in Nat
    <3>1. done * total <= d * total /\ done * total \in Int /\ d * total \in Nat
      BY <1>1, <1>2, <2>4, TimesMono
    <3>2. (done * total) \div Expected <= (d * total) \div Expected
      BY ONLY <2>1, <3>1, DivMono
    <3>3. (d * total) \div Expected \in Nat
      BY ONLY <2>1, <3>1
    <3> QED BY <3>2, <3>3
  <2>5. Bar(done) \in 0..reportTotal
    BY <1>1, <2>2, <2>3 DEF reportTotal
  <2>6. ASSUME NEW d \in Nat, done <= d
        PROVE  Bar(done) <= Bar(d) /\ Bar(d) \in Nat
    <3> DEFINE a == (done * total) \div Expected
               b == (d * total) \div Expected
    <3>1. a \in Nat /\ b \in Nat /\ a <= b
      BY <1>1, <2>3, <2>4, <2>6
    <3>2. Bar(done) = total + a /\ Bar(d) = total + b
      BY <2>2
    <3> HIDE DEF a, b
    <3> QED BY <1>1, <3>1, <3>2
  <2> QED BY <1>2, <1>4, <1>6, <2>5, <2>6
<1> QED BY <1>5, <1>6 DEF ScanInv, ScanTypes

\* A claim moves the counter on by the address it takes.
LEMMA ClaimKeepsCount ==
    ASSUME ScanInv, CountInv, NEW w \in Workers, Claim(w)
    PROVE  CountInv'
<1>1. /\ total \in Nat \ {0} /\ Len(slowCandidates) \in 0..total
      /\ IsFiniteSet(Busy) /\ Cardinality(Busy) \in Nat
      /\ Handed \in 0..Expected
  BY Sizes
<1>2. /\ nextHost \in Nat /\ nextHost >= HostFirst /\ slowNext \in Nat \ {0}
      /\ phase \in {"quick", "patient"} /\ pc[w] = "claim"
      /\ pc \in [Workers -> {"claim", "sweep", "finish", "out"}]
      /\ HostFirst \in Nat /\ HostLast \in Nat /\ HostFirst <= HostLast
  BY ScanAssumption DEF ScanInv, ScanTypes, Claim
<1>3. UNCHANGED <<phase, cancelled, done, slowCandidates, shown, lastReported>>
  BY DEF Claim, barVars
<1>4. Bar(done)' = Bar(done)
  BY <1>3 DEF Bar, Expected
<1>5. Handed' \in Int /\ Handed' >= Handed
  BY <1>1, <1>2, <1>3 DEF Claim, NextHost, Handed, total
<1>6. CASE pc' = [pc EXCEPT ![w] = "out"]
  <2>1. Busy' = Busy
    BY <1>2, <1>6 DEF Busy, Working
  <2>2. done + Cardinality(Busy)' <= Handed'
    BY <1>1, <1>2, <1>5, <2>1 DEF CountInv, CountTypes
  <2> QED
    BY <1>2, <1>3, <1>4, <2>2 DEF CountInv, CountTypes, Claim
<1>7. CASE /\ pc' = [pc EXCEPT ![w] = "sweep"]
           /\ IF phase = "quick" THEN LeftQuick ELSE slowNext <= Len(slowCandidates)
  <2>1. Busy' = Busy \cup {w} /\ w \notin Busy
    BY <1>2, <1>7 DEF Busy, Working
  <2>2. Cardinality(Busy)' = Cardinality(Busy) + 1
    BY <1>1, <2>1, FS_AddElement
  <2>3. Handed' = Handed + 1
    BY <1>1, <1>2, <1>3, <1>7 DEF Claim, NextHost, LeftQuick, Handed, total
  <2>4. done + Cardinality(Busy)' <= Handed'
    BY <1>1, <1>2, <2>2, <2>3 DEF CountInv, CountTypes
  <2> QED
    BY <1>2, <1>3, <1>4, <2>4 DEF CountInv, CountTypes, Claim
<1> QED BY <1>6, <1>7 DEF Claim

\* A probe keeps its worker on its address.
LEMMA ProbeKeepsCount ==
    ASSUME ScanInv, CountInv, NEW w \in Workers, ProbePort(w)
    PROVE  CountInv'
<1>1. /\ pc \in [Workers -> {"claim", "sweep", "finish", "out"}]
      /\ pc[w] = "sweep" /\ phase \in {"quick", "patient"}
      /\ slowCandidates \in Seq(Hosts)
  BY DEF ScanInv, ScanTypes, ProbePort
<1>2. /\ UNCHANGED <<phase, cancelled, done, nextHost, slowNext, shown, lastReported>>
      /\ phase = "patient" => slowCandidates' = slowCandidates
      /\ \/ pc' = [pc EXCEPT ![w] = "finish"]
         \/ pc' = [pc EXCEPT ![w] = IF AtLastPort(w) THEN "finish" ELSE "sweep"]
  BY DEF ProbePort, Notes, barVars
<1>3. Busy' = Busy
  BY <1>1, <1>2 DEF Busy, Working
<1>4. Bar(done)' = Bar(done) /\ Handed' = Handed
  BY <1>1, <1>2 DEF Bar, Expected, Handed
<1> QED
  BY <1>1, <1>2, <1>3, <1>4 DEF CountInv, CountTypes

\* A worker counts its address when it is done with it, and is free.
LEMMA FinishKeepsCount ==
    ASSUME ScanInv, CountInv, NEW w \in Workers, Finish(w)
    PROVE  CountInv'
<1>1. /\ total \in Nat \ {0} /\ Len(slowCandidates) \in 0..total
      /\ IsFiniteSet(Busy) /\ Cardinality(Busy) \in Nat
      /\ Handed \in 0..Expected
  BY Sizes
<1>2. /\ pc \in [Workers -> {"claim", "sweep", "finish", "out"}]
      /\ pc[w] = "finish" /\ pc' = [pc EXCEPT ![w] = "claim"]
      /\ phase \in {"quick", "patient"} /\ done' = done + 1
      /\ UNCHANGED <<phase, cancelled, nextHost, slowCandidates, slowNext,
                     shown, lastReported>>
  BY DEF ScanInv, ScanTypes, Finish, barVars
<1>3. Busy' = Busy \ {w} /\ w \in Busy
  BY <1>2 DEF Busy, Working
<1>4. Cardinality(Busy)' = Cardinality(Busy) - 1
  BY <1>1, <1>3, FS_RemoveElement
<1>5. Handed' = Handed /\ Expected' = Expected /\ \A d : Bar(d)' = Bar(d)
  BY <1>2 DEF Handed, Bar, Expected
<1>6. done \in Nat /\ done + Cardinality(Busy) <= Handed
  BY <1>1, <1>2 DEF CountInv, CountTypes
<1>7. done' + Cardinality(Busy)' <= Handed'
  BY <1>1, <1>2, <1>4, <1>5, <1>6
<1>8. Cardinality(Busy)' \in Nat
  <2>1. IsFiniteSet(Busy')
    BY <1>1, <1>3, FS_Subset
  <2> QED BY <2>1, FS_CardinalityType
<1>9. done' \in 0..total
  BY <1>1, <1>2, <1>5, <1>6, <1>7, <1>8 DEF Expected
<1>10. shown' <= Bar(done + 1)
  <2>1. Bar(done) <= Bar(done + 1) /\ Bar(done + 1) \in Nat /\ Bar(done) \in 0..reportTotal
    BY <1>2, <1>6, BarBounds
  <2>2. reportTotal \in Nat
    BY <1>1 DEF reportTotal
  <2>3. shown \in 0..reportTotal /\ shown <= Bar(done)
    BY <1>2 DEF CountInv, CountTypes
  <2> QED BY <1>2, <2>1, <2>2, <2>3
<1>11. shown' <= Bar(done)'
  BY <1>2, <1>10 DEF Bar, Expected
<1> QED
  BY <1>2, <1>7, <1>9, <1>11 DEF CountInv, CountTypes

\* Sorting loses no candidate.
LEMMA AscendingCovers ==
    ASSUME NEW s \in Seq(Hosts), NEW t \in Ascending(s)
    PROVE  /\ Len(t) = Len(s)
           /\ \A j \in 1..Len(s) : \E i \in 1..Len(t) : t[i] = s[j]
<1>1. Len(s) \in Nat /\ DOMAIN s = 1..Len(s)
  BY LenProperties
<1>2. PICK f \in [1..Len(s) -> 1..Len(s)] :
         IsInjective(f) /\ t = [i \in 1..Len(s) |-> s[f[i]]]
  BY <1>1 DEF Ascending
<1>3. \A i \in 1..Len(s) : s[i] \in Hosts
  BY ElementOfSeq
<1>4. t \in [1..Len(s) -> Hosts]
  BY <1>2, <1>3
<1>5. Len(t) = Len(s)
  BY <1>1, <1>4, SeqDef, LenProperties
<1>6. f \in Injection(1..Len(s), 1..Len(s))
  BY <1>2 DEF IsInjective, Injection
<1>7. f \in Surjection(1..Len(s), 1..Len(s))
  <2>1. IsFiniteSet(1..Len(s))
    BY <1>1, FS_Interval
  <2> QED BY <1>6, <2>1, FS_Injection
<1>8. ASSUME NEW j \in 1..Len(s)
      PROVE  \E i \in 1..Len(s) : t[i] = s[j]
  <2>1. PICK i \in 1..Len(s) : f[i] = j
    BY <1>7 DEF Surjection
  <2> QED BY <1>2, <2>1
<1> QED BY <1>5, <1>8

\* The caller's thread moves the bar to what the count says, and starts the
\* second pass at half of it.
LEMMA MainKeepsCount ==
    ASSUME ScanInv, CountInv, Main
    PROVE  CountInv' /\ shown <= shown'
<1>1. /\ total \in Nat \ {0} /\ Len(slowCandidates) \in 0..total
      /\ IsFiniteSet(Busy) /\ Cardinality(Busy) \in Nat
      /\ Handed \in 0..Expected
  BY Sizes
<1>2. /\ cancelled \in BOOLEAN /\ done \in 0..total
      /\ shown \in 0..reportTotal /\ lastReported \in -1..total
      /\ reportTotal = 2 * total
  BY DEF CountInv, CountTypes, reportTotal
<1>3. ASSUME NEW cancel \in BOOLEAN, Report(cancel)
      PROVE  CountInv' /\ shown <= shown'
  <2>1. /\ phase # "returned" /\ shown' = Bar(done) /\ lastReported' = done
        /\ cancelled' \in BOOLEAN
        /\ UNCHANGED <<phase, done, nextHost, slowCandidates, slowNext, pc>>
    BY <1>2, <1>3 DEF Report, workerVars
  <2>2. Bar(done) \in 0..reportTotal /\ shown <= Bar(done)
    BY <2>1, BarBounds DEF CountInv
  <2>3. Bar(done)' = Bar(done) /\ Busy' = Busy /\ Handed' = Handed
    BY <2>1 DEF Bar, Expected, Busy, Working, Handed
  <2>4. CountTypes'
    BY <1>1, <1>2, <2>1, <2>2 DEF CountTypes
  <2>5. shown' <= Bar(done)'
    BY <1>1, <1>2, <2>1, <2>2, <2>3
  <2> QED BY <2>1, <2>2, <2>3, <2>4, <2>5 DEF CountInv
<1>4. CASE StartPatient
  <2>1. /\ phase = "quick" /\ phase' = "patient"
        /\ slowCandidates # <<>> /\ slowCandidates' \in Ascending(slowCandidates)
        /\ done' = 0 /\ lastReported' = -1
        /\ pc' = [w \in Workers |-> IF w \in SlowWorkers THEN "claim" ELSE "out"]
        /\ UNCHANGED <<cancelled, slowNext, shown>>
    BY <1>4 DEF StartPatient, Retries
  <2>2. /\ slowCandidates \in Seq(Hosts)
        /\ Len(slowCandidates') = Len(slowCandidates)
        /\ slowCandidates' \in Seq(Hosts)
    <3>1. slowCandidates \in Seq(Hosts) /\ NotedOnce
      BY DEF ScanInv, ScanTypes
    <3> QED BY <2>1, <3>1, AscendingCovers, AscendingKeeps DEF NotedOnce
  <2>3. Len(slowCandidates) # 0 /\ slowCandidates' # <<>>
    BY <2>1, <2>2, EmptySeq
  <2>4. Busy' = {}
    BY <2>1 DEF Busy, Working
  <2>5. slowNext = 1 /\ slowNext' = 1
    BY <2>1 DEF CountInv
  <2>6. Handed' = 0
    BY <1>1, <2>1, <2>2, <2>3, <2>5 DEF Handed
  <2>7. done' + Cardinality(Busy)' <= Handed'
    BY <2>1, <2>4, <2>6, FS_EmptySet
  <2>8. shown <= total
    <3>1. shown <= Bar(done) /\ Bar(done) = done
      BY <2>1, BarBounds DEF CountInv
    <3> QED BY <1>1, <1>2, <3>1
  <2>9. Bar(done)' = total
    <3>1. Bar(done)' = total + (0 * total) \div Len(slowCandidates')
      BY <2>1 DEF Bar, Expected
    <3>2. 0 * total = 0 /\ 0 \div Len(slowCandidates') = 0
      BY <1>1, <2>2, <2>3
    <3> QED BY <1>1, <3>1, <3>2
  <2>10. CountTypes'
    BY <1>1, <1>2, <2>1 DEF CountTypes
  <2> QED BY <1>1, <1>2, <2>1, <2>3, <2>7, <2>8, <2>9, <2>10 DEF CountInv
<1>5. CASE Return
  <2>1. /\ phase' = "returned" /\ shown' = reportTotal
        /\ UNCHANGED <<cancelled, done, lastReported>>
    BY <1>5 DEF Return
  <2>2. CountTypes'
    BY <1>1, <1>2, <2>1 DEF CountTypes
  <2> QED BY <1>1, <1>2, <2>1, <2>2 DEF CountInv
<1> QED BY <1>3, <1>4, <1>5 DEF Main

\* The workers leave the bar alone.
LEMMA WorkerKeepsCount ==
    ASSUME ScanInv, CountInv, NEW w \in Workers, Worker(w)
    PROVE  CountInv' /\ shown <= shown'
<1>1. CountInv'
  BY ClaimKeepsCount, ProbeKeepsCount, FinishKeepsCount DEF Worker
<1>2. shown' = shown
  BY DEF Worker, Claim, ProbePort, Finish, barVars
<1>3. shown \in Int
  BY DEF CountInv, CountTypes
<1> QED BY <1>1, <1>2, <1>3

LEMMA StepKeepsCount ==
    ASSUME ScanInv, CountInv, [Next]_vars
    PROVE  CountInv' /\ shown <= shown'
<1>1. CASE UNCHANGED vars
  <2>1. Busy' = Busy /\ Handed' = Handed /\ Bar(done)' = Bar(done)
    BY <1>1 DEF vars, Busy, Working, Handed, Bar, Expected
  <2>2. shown \in 0..reportTotal
    BY DEF CountInv, CountTypes
  <2> QED BY <1>1, <2>1, <2>2 DEF vars, CountInv, CountTypes
<1>2. CASE Main
  BY <1>2, MainKeepsCount
<1>3. ASSUME NEW w \in Workers, Worker(w)
      PROVE  CountInv' /\ shown <= shown'
  BY <1>3, WorkerKeepsCount
<1> QED BY <1>1, <1>2, <1>3 DEF Next

\* Nothing is counted before the first claim.
LEMMA InitEstablishesCount == Init => CountInv
<1> SUFFICES ASSUME Init PROVE CountInv
  OBVIOUS
<1>1. HostFirst \in Nat /\ HostLast \in Nat /\ HostFirst <= HostLast
  BY ScanAssumption
<1>2. total \in Nat \ {0} /\ reportTotal \in Nat
  BY <1>1 DEF total, reportTotal
<1>3. Busy = {} /\ Handed = 0 /\ Bar(done) = 0
  BY <1>1 DEF Init, Busy, Working, Handed, Bar
<1>4. Cardinality(Busy) = 0
  BY <1>3, FS_EmptySet
<1>5. CountTypes
  <2>1. done = 0 /\ shown = 0 /\ lastReported = -1
    BY DEF Init
  <2>2. cancelled \in BOOLEAN
    BY DEF Init
  <2>3. done \in 0..total /\ shown \in 0..reportTotal /\ lastReported \in -1..total
    BY <1>2, <2>1
  <2> QED BY <2>2, <2>3 DEF CountTypes
<1>6. done + Cardinality(Busy) <= Handed /\ shown <= Bar(done)
  BY <1>3, <1>4 DEF Init
<1>7. phase = "quick" /\ slowNext = 1
  BY DEF Init
<1> QED BY <1>5, <1>6, <1>7 DEF CountInv

\* The counts of the addresses handed out, with a worker and finished agree
\* throughout a scan, and the bar is never ahead of them.
THEOREM CountsAgree == Spec => []CountInv
<1>1. ScanInv /\ CountInv /\ [Next]_vars => CountInv'
  BY StepKeepsCount
<1> QED
  BY <1>1, InitEstablishesCount, ScanSafe, PTL DEF Spec

\* The bar never moves back: both halves are filled in the order the addresses
\* are counted, though a reporter may sleep through any number of them.
THEOREM BarNeverMovesBack == Spec => BarOnlyGrows
<1>1. ScanInv /\ CountInv /\ [Next]_vars => shown <= shown'
  BY StepKeepsCount
<1>2. ScanInv /\ CountInv /\ [Next]_vars => [shown' >= shown]_vars
  <2> SUFFICES ASSUME ScanInv, CountInv, [Next]_vars
               PROVE  [shown' >= shown]_vars
    OBVIOUS
  <2>1. shown \in 0..reportTotal /\ shown' \in 0..reportTotal
    BY StepKeepsCount DEF CountInv, CountTypes, reportTotal, total
  <2>2. total \in Nat
    BY Sizes
  <2>3. shown' >= shown
    BY <1>1, <2>1, <2>2 DEF reportTotal
  <2> QED BY <2>3
<1> QED
  BY <1>2, ScanSafe, CountsAgree, PTL DEF Spec, BarOnlyGrows

\* The bar is full only when the second pass has counted every candidate, and
\* then no worker is on an address; a scan without a second pass fills it on
\* returning.
THEOREM BarTopsOutAtEnd == Spec => []TopsOutAtEnd
<1>1. ScanInv /\ CountInv => TopsOutAtEnd
  <2> SUFFICES ASSUME ScanInv, CountInv, shown = reportTotal,
                      NEW w \in Workers, pc[w] = "sweep"
               PROVE  FALSE
    BY DEF TopsOutAtEnd
  <2>1. /\ total \in Nat \ {0} /\ Len(slowCandidates) \in 0..total
        /\ IsFiniteSet(Busy) /\ Cardinality(Busy) \in Nat
        /\ Handed \in 0..Expected
    BY Sizes
  <2>2. phase \in {"quick", "patient"}
    BY DEF ScanInv, ScanTypes
  <2>3. done \in Nat /\ done + Cardinality(Busy) <= Handed /\ shown <= Bar(done)
    BY <2>1, <2>2 DEF CountInv, CountTypes
  <2>4. Cardinality(Busy) # 0
    BY <2>1, FS_EmptySet DEF Busy, Working
  <2>5. done < Expected
    BY <2>1, <2>3, <2>4 DEF Expected
  <2>6. CASE phase = "quick"
    BY <2>1, <2>3, <2>5, <2>6 DEF Bar, Expected, reportTotal
  <2>7. CASE phase = "patient"
    <3>1. Expected \in Nat \ {0}
      BY <2>1, <2>3, <2>5, <2>7 DEF Expected
    <3> DEFINE q == (done * total) \div Expected
    <3>2. q \in Int
      BY <2>1, <2>3, <3>1
    <3>3. ~(q >= total)
      <4>1. SUFFICES ASSUME q >= total PROVE FALSE
        OBVIOUS
      <4>2. done >= Expected
        BY ONLY <2>1, <2>3, <3>1, <4>1, DivFull
      <4> QED BY <2>3, <2>5, <3>1, <4>2
    <3>4. shown <= total + q
      BY <2>3, <2>7 DEF Bar
    <3> HIDE DEF q
    <3> QED BY <2>1, <3>2, <3>3, <3>4 DEF reportTotal
  <2> QED BY <2>2, <2>6, <2>7
<1> QED BY <1>1, ScanSafe, CountsAgree, PTL

----------------------------------------------------------------------------
(* The answers.                                                            *)

Held(h) == \E w \in Workers : Working(w) /\ host[w] = h

\* How a pass may leave an address.
Settled ==
    IF phase = "quick" THEN {"answered", "silent"}
    ELSE IF phase = "patient" \/ PatientLonger THEN {"answered", "gaveup"}
    ELSE {"answered", "gaveup", "silent"}

\* Unless the user cancelled, every address is ahead, with a worker or settled;
\* one found silent by the quick pass is noted for the patient one.
AnswerInv ==
    /\ verdict \in [Hosts -> {"unswept", "silent", "answered", "gaveup"}]
    /\ phase = "quick" =>
          /\ \A h \in Hosts : verdict[h] = "silent" => h \in Noted
          /\ \A w \in Workers : pc[w] = "finish" /\ ~hostAlive[w] => host[w] \in Noted
    /\ ~cancelled => \A h \in Hosts : h \in Ahead \/ Held(h) \/ verdict[h] \in Settled

\* An address ahead stays so, or goes to the worker that claims it, or that
\* worker saw the cancellation.
LEMMA ClaimHands ==
    ASSUME ScanInv, NEW w \in Workers, Claim(w), ~cancelled, NEW g \in Ahead
    PROVE  g \in Ahead' \/ (pc'[w] = "sweep" /\ host'[w] = g)
<1>1. /\ nextHost \in Nat /\ slowNext \in Nat \ {0}
      /\ slowCandidates \in Seq(Hosts) /\ Len(slowCandidates) \in Nat
      /\ phase \in {"quick", "patient"} /\ pc[w] = "claim"
      /\ UNCHANGED <<phase, slowCandidates>>
      /\ pc \in [Workers -> {"claim", "sweep", "finish", "out"}]
      /\ host \in [Workers -> Hosts]
  BY LenProperties DEF ScanInv, ScanTypes, Claim
<1>2. HostFirst \in Nat /\ HostLast \in Nat
  BY ScanAssumption
<1>3. CASE phase = "quick"
  <2>1. g \in Hosts /\ g >= nextHost /\ g <= HostLast /\ g \in Nat
    BY <1>2, <1>3 DEF Ahead, Hosts
  <2>2. nextHost <= HostLast
    BY <1>1, <1>2, <2>1
  <2>3. nextHost' = nextHost + 1 /\ pc'[w] = "sweep" /\ host'[w] = nextHost
    BY <1>1, <1>3, <2>2 DEF Claim, NextHost, LeftQuick
  <2>4. g >= nextHost + 1 => g \in Ahead'
    BY <1>1, <1>3, <2>1, <2>3 DEF Ahead
  <2> QED BY <1>1, <2>1, <2>3, <2>4
<1>4. CASE phase = "patient"
  <2>1. PICK i \in 1..Len(slowCandidates) : i >= slowNext /\ g = slowCandidates[i]
    BY <1>1, <1>4 DEF Ahead
  <2>2. /\ slowNext' = slowNext + 1 /\ pc'[w] = "sweep"
        /\ host'[w] = slowCandidates[slowNext]
    BY <1>1, <1>4, <2>1 DEF Claim
  <2>3. i >= slowNext + 1 => g \in Ahead'
    BY <1>1, <1>4, <2>1, <2>2 DEF Ahead
  <2> QED BY <1>1, <2>1, <2>2, <2>3
<1> QED BY <1>1, <1>3, <1>4

\* A claim leaves no address behind.
LEMMA ClaimKeepsAnswers ==
    ASSUME ScanInv, AnswerInv, NEW w \in Workers, Claim(w)
    PROVE  AnswerInv'
<1>1. /\ pc[w] = "claim" /\ UNCHANGED <<phase, cancelled, slowCandidates, verdict>>
      /\ pc \in [Workers -> {"claim", "sweep", "finish", "out"}]
      /\ host \in [Workers -> Hosts] /\ hostAlive \in [Workers -> BOOLEAN]
  BY DEF Claim, ScanInv, ScanTypes
<1>2. \A v \in Workers \ {w} :
         pc'[v] = pc[v] /\ host'[v] = host[v] /\ hostAlive'[v] = hostAlive[v]
  BY <1>1 DEF Claim
<1>3. pc'[w] # "finish"
  BY <1>1 DEF Claim
<1>4. Noted' = Noted /\ Settled' = Settled
  BY <1>1 DEF Noted, Settled
<1>5. ASSUME ~cancelled, NEW h \in Hosts
      PROVE  h \in Ahead' \/ Held(h)' \/ verdict[h] \in Settled
  <2>1. CASE h \in Ahead
    <3>1. CASE pc'[w] = "sweep" /\ host'[w] = h
      BY <3>1 DEF Held, Working
    <3> QED BY <1>5, <2>1, <3>1, ClaimHands
  <2>2. ASSUME NEW v \in Workers, Working(v), host[v] = h
        PROVE  Held(h)'
    <3>1. v # w
      BY <1>1, <2>2 DEF Working
    <3> QED BY <1>2, <2>2, <3>1 DEF Held, Working
  <2> QED BY <1>5, <2>1, <2>2 DEF AnswerInv, Held
<1> QED
  BY <1>1, <1>2, <1>3, <1>4, <1>5 DEF AnswerInv

\* An address abandoned in the quick pass is noted before it is counted.
LEMMA ProbeKeepsAnswers ==
    ASSUME ScanInv, AnswerInv, NEW w \in Workers, ProbePort(w)
    PROVE  AnswerInv'
<1>1. /\ pc[w] = "sweep" /\ UNCHANGED <<phase, cancelled, verdict, host>>
      /\ pc \in [Workers -> {"claim", "sweep", "finish", "out"}]
      /\ host \in [Workers -> Hosts] /\ hostAlive \in [Workers -> BOOLEAN]
      /\ slowCandidates \in Seq(Hosts) /\ Len(slowCandidates) \in Nat
      /\ phase \in {"quick", "patient"}
  BY LenProperties DEF ProbePort, ScanInv, ScanTypes
<1>2. /\ pc'[w] \in {"sweep", "finish"}
      /\ \A v \in Workers \ {w} : pc'[v] = pc[v] /\ hostAlive'[v] = hostAlive[v]
  BY <1>1 DEF ProbePort
<1>3. Ahead' = Ahead
  <2>1. /\ UNCHANGED <<phase, nextHost, slowNext>>
        /\ phase # "quick" => slowCandidates' = slowCandidates
    BY DEF ProbePort, Notes
  <2>2. CASE phase = "quick"
    BY <2>1, <2>2 DEF Ahead
  <2>3. CASE phase # "quick"
    BY <2>1, <2>3 DEF Ahead
  <2> QED BY <2>2, <2>3
<1>4. \A v \in Workers : Working(v)' <=> Working(v)
  BY <1>1, <1>2 DEF Working
<1>5. /\ Noted \subseteq Noted'
      /\ phase = "quick" /\ pc'[w] = "finish" /\ ~hostAlive'[w] => host[w] \in Noted'
  <2>1. CASE /\ Abandons(w) /\ UNCHANGED hostAlive
             /\ slowCandidates' = IF Notes THEN Append(slowCandidates, host[w])
                                           ELSE slowCandidates
    <3>1. CASE phase = "quick"
      <4>1. /\ Len(slowCandidates') = Len(slowCandidates) + 1
            /\ \A i \in 1..(Len(slowCandidates) + 1) :
                  slowCandidates'[i] = IF i = Len(slowCandidates) + 1
                                       THEN host[w] ELSE slowCandidates[i]
        BY <1>1, <2>1, <3>1, AppendProperties DEF Notes
      <4> QED BY <1>1, <4>1 DEF Noted
    <3>2. CASE phase # "quick"
      BY <2>1, <3>2 DEF Noted, Notes
    <3> QED BY <3>1, <3>2
  <2>2. CASE UNCHANGED slowCandidates /\ hostAlive'[w]
    BY <2>2 DEF Noted
  <2>3. \/ UNCHANGED slowCandidates /\ hostAlive'[w]
        \/ /\ Abandons(w) /\ UNCHANGED hostAlive
           /\ slowCandidates' = IF Notes THEN Append(slowCandidates, host[w])
                                         ELSE slowCandidates
    BY <1>1 DEF ProbePort
  <2> QED BY <2>1, <2>2, <2>3
<1>6. Settled' = Settled
  BY <1>1 DEF Settled
<1>7. \A h \in Hosts : Held(h) => Held(h)'
  BY <1>1, <1>4 DEF Held
<1>8. phase = "quick" =>
         /\ \A h \in Hosts : verdict[h] = "silent" => h \in Noted'
         /\ \A v \in Workers : pc'[v] = "finish" /\ ~hostAlive'[v] => host[v] \in Noted'
  BY <1>1, <1>2, <1>5 DEF AnswerInv
<1>9. ~cancelled => \A h \in Hosts : h \in Ahead' \/ Held(h)' \/ verdict[h] \in Settled'
  BY <1>3, <1>6, <1>7 DEF AnswerInv
<1> QED
  BY <1>1, <1>8, <1>9 DEF AnswerInv

\* A worker leaves its address with the answer the pass may give.
LEMMA FinishKeepsAnswers ==
    ASSUME ScanInv, AnswerInv, NEW w \in Workers, Finish(w)
    PROVE  AnswerInv'
<1> DEFINE left == IF hostAlive[w] THEN "answered"
                   ELSE IF phase = "quick" THEN "silent" ELSE "gaveup"
<1>1. /\ pc[w] = "finish" /\ pc' = [pc EXCEPT ![w] = "claim"]
      /\ UNCHANGED <<phase, cancelled, nextHost, slowCandidates, slowNext, host,
                     hostAlive>>
      /\ verdict' = [verdict EXCEPT ![host[w]] = left]
      /\ pc \in [Workers -> {"claim", "sweep", "finish", "out"}]
      /\ host \in [Workers -> Hosts]
      /\ phase \in {"quick", "patient"}
      /\ verdict \in [Hosts -> {"unswept", "silent", "answered", "gaveup"}]
  BY DEF Finish, ScanInv, ScanTypes, AnswerInv
<1>2. Ahead' = Ahead /\ Noted' = Noted /\ Settled' = Settled
  BY <1>1 DEF Ahead, Noted, Settled
<1>3. left \in Settled /\ left \in {"silent", "answered", "gaveup"}
  BY <1>1 DEF Settled
<1>4. left = "silent" => phase = "quick" /\ ~hostAlive[w]
  OBVIOUS
<1> HIDE DEF left
<1>5. /\ verdict'[host[w]] = left
      /\ \A h \in Hosts \ {host[w]} : verdict'[h] = verdict[h]
      /\ verdict' \in [Hosts -> {"unswept", "silent", "answered", "gaveup"}]
  BY <1>1, <1>3
<1>6. ASSUME phase = "quick"
      PROVE  /\ \A h \in Hosts : verdict'[h] = "silent" => h \in Noted
             /\ \A v \in Workers : pc'[v] = "finish" /\ ~hostAlive[v] => host[v] \in Noted
  <2>1. left = "silent" => host[w] \in Noted
    BY <1>1, <1>4, <1>6 DEF AnswerInv
  <2> QED BY <1>1, <1>5, <1>6, <2>1 DEF AnswerInv
<1>7. ASSUME ~cancelled, NEW h \in Hosts
      PROVE  h \in Ahead \/ Held(h)' \/ verdict'[h] \in Settled
  <2>1. CASE h = host[w]
    BY <1>3, <1>5, <2>1
  <2>2. CASE h # host[w]
    <3>1. Held(h) => Held(h)'
      BY <1>1, <2>2 DEF Held, Working
    <3> QED BY <1>5, <1>7, <2>2, <3>1 DEF AnswerInv
  <2> QED BY <2>1, <2>2
<1> QED
  BY <1>1, <1>2, <1>5, <1>6, <1>7 DEF AnswerInv

\* A pass that is over has handed out every address and waits for none.
LEMMA OverIsDone ==
    ASSUME ScanInv, CountInv, PassOver
    PROVE  Ahead = {} /\ \A h \in Hosts : ~Held(h)
<1>1. /\ total \in Nat \ {0} /\ Len(slowCandidates) \in 0..total
      /\ Cardinality(Busy) \in Nat /\ Handed \in 0..Expected
      /\ HostFirst \in Nat /\ HostLast \in Nat
      /\ nextHost \in Nat /\ nextHost >= HostFirst /\ slowNext \in Nat \ {0}
  BY Sizes, ScanAssumption DEF ScanInv, ScanTypes
<1>2. \A h \in Hosts : ~Held(h)
  BY DEF PassOver, Held, Working
<1>3. CASE phase # "returned"
  <2>1. Handed >= Expected
    BY <1>1, <1>3 DEF PassOver, CountInv, CountTypes, Expected
  <2>2. CASE phase = "quick"
    <3>1. nextHost > HostLast
      BY <1>1, <2>1, <2>2 DEF Handed, Expected, total
    <3> QED BY <1>1, <1>2, <2>2, <3>1 DEF Ahead, Hosts
  <2>3. CASE phase = "patient"
    <3>1. slowNext > Len(slowCandidates)
      BY <1>1, <2>1, <2>3 DEF Handed, Expected
    <3> QED BY <1>1, <1>2, <2>3, <3>1 DEF Ahead
  <2> QED BY <1>3, <2>2, <2>3 DEF ScanInv, ScanTypes
<1>4. CASE phase = "returned"
  BY <1>2, <1>4 DEF Ahead
<1> QED BY <1>3, <1>4

\* The patient pass begins with every address found silent ahead of it.
LEMMA MainKeepsAnswers ==
    ASSUME ScanInv, CountInv, AnswerInv, Main
    PROVE  AnswerInv'
<1>0. /\ cancelled \in BOOLEAN
      /\ verdict \in [Hosts -> {"unswept", "silent", "answered", "gaveup"}]
  BY DEF CountInv, CountTypes, AnswerInv
<1>1. ASSUME NEW cancel \in BOOLEAN, Report(cancel)
      PROVE  AnswerInv'
  <2>1. /\ UNCHANGED <<phase, nextHost, slowCandidates, slowNext, pc, host,
                       hostAlive, verdict>>
        /\ ~cancelled' => ~cancelled
    BY <1>1 DEF Report, workerVars
  <2>2. Ahead' = Ahead /\ Noted' = Noted /\ Settled' = Settled
    BY <2>1 DEF Ahead, Noted, Settled
  <2>3. \A h \in Hosts : Held(h) => Held(h)'
    BY <2>1 DEF Held, Working
  <2>4. ~cancelled' =>
           \A h \in Hosts : h \in Ahead' \/ Held(h)' \/ verdict'[h] \in Settled'
    BY <2>1, <2>2, <2>3 DEF AnswerInv
  <2> QED BY <2>1, <2>2, <2>4 DEF AnswerInv
<1>2. CASE StartPatient
  <2>1. /\ phase = "quick" /\ PassOver /\ phase' = "patient"
        /\ slowCandidates' \in Ascending(slowCandidates)
        /\ UNCHANGED <<cancelled, slowNext, verdict>>
    BY <1>2 DEF StartPatient
  <2>2. \A h \in Hosts : ~cancelled => verdict[h] \in {"answered", "silent"}
    BY <2>1, OverIsDone DEF AnswerInv, Settled
  <2>3. Noted \subseteq Ahead'
    <3>1. slowCandidates \in Seq(Hosts) /\ slowNext' = 1
      BY <2>1 DEF ScanInv, ScanTypes, CountInv
    <3>2. \A j \in 1..Len(slowCandidates) :
             \E i \in 1..Len(slowCandidates') : slowCandidates'[i] = slowCandidates[j]
      BY <2>1, <3>1, AscendingCovers
    <3> QED BY <2>1, <3>1, <3>2 DEF Noted, Ahead
  <2>4. Settled' = {"answered", "gaveup"}
    BY <2>1 DEF Settled
  <2>5. \A h \in Hosts : ~cancelled => h \in Ahead' \/ verdict[h] \in Settled'
    BY <2>1, <2>2, <2>3, <2>4 DEF AnswerInv
  <2> QED BY <1>0, <2>1, <2>5 DEF AnswerInv
<1>3. CASE Return
  <2>1. /\ PassOver /\ phase' = "returned"
        /\ phase = "patient" \/ (phase = "quick" /\ ~Retries)
        /\ UNCHANGED <<cancelled, slowCandidates, verdict>>
    BY <1>3 DEF Return
  <2>2. \A h \in Hosts : ~cancelled => verdict[h] \in Settled
    BY <2>1, OverIsDone DEF AnswerInv
  <2>3. ASSUME NEW h \in Hosts, ~cancelled
        PROVE  verdict[h] \in Settled'
    <3>1. CASE phase = "patient"
      BY <2>1, <2>2, <2>3, <3>1 DEF Settled
    <3>2. CASE phase = "quick" /\ ~PatientLonger
      BY <2>1, <2>2, <2>3, <3>2 DEF Settled
    <3>3. CASE phase = "quick" /\ slowCandidates = <<>>
      <4>1. Noted = {}
        BY <3>3 DEF Noted
      <4>2. verdict[h] # "silent"
        BY <3>3, <4>1 DEF AnswerInv
      <4> QED BY <2>1, <2>2, <2>3, <3>3, <4>2 DEF Settled
    <3> QED BY <2>1, <2>3, <3>1, <3>2, <3>3 DEF Retries
  <2> QED BY <1>0, <2>1, <2>3 DEF AnswerInv
<1> QED BY <1>1, <1>2, <1>3 DEF Main

\* No address has an answer before the first claim, and all are ahead.
LEMMA InitEstablishesAnswers == Init => AnswerInv
<1> SUFFICES ASSUME Init PROVE AnswerInv
  OBVIOUS
<1>1. HostFirst \in Nat /\ HostLast \in Nat
  BY ScanAssumption
<1>2. Ahead = Hosts
  BY <1>1 DEF Init, Ahead, Hosts
<1>3. /\ verdict \in [Hosts -> {"unswept", "silent", "answered", "gaveup"}]
      /\ \A h \in Hosts : verdict[h] = "unswept"
      /\ \A w \in Workers : pc[w] = "claim"
  BY DEF Init
<1> QED BY <1>2, <1>3 DEF AnswerInv

\* Throughout a scan nobody cancelled, every address is ahead of the workers,
\* with one of them, or left the way the pass may leave it.
THEOREM EveryAddressAccounted == Spec => []AnswerInv
<1>1. ScanInv /\ CountInv /\ AnswerInv /\ [Next]_vars => AnswerInv'
  <2> SUFFICES ASSUME ScanInv, CountInv, AnswerInv, [Next]_vars
               PROVE  AnswerInv'
    OBVIOUS
  <2>1. CASE UNCHANGED vars
    <3>1. /\ UNCHANGED <<phase, cancelled, nextHost, slowCandidates, slowNext,
                         pc, host, hostAlive, verdict>>
      BY <2>1 DEF vars
    <3>2. Ahead' = Ahead /\ Noted' = Noted /\ Settled' = Settled
      BY <3>1 DEF Ahead, Noted, Settled
    <3>3. \A h \in Hosts : Held(h) => Held(h)'
      BY <3>1 DEF Held, Working
    <3> QED BY <3>1, <3>2, <3>3 DEF AnswerInv
  <2>2. CASE Main
    BY <2>2, MainKeepsAnswers
  <2>3. ASSUME NEW w \in Workers, Worker(w)
        PROVE  AnswerInv'
    BY <2>3, ClaimKeepsAnswers, ProbeKeepsAnswers, FinishKeepsAnswers DEF Worker
  <2> QED BY <2>1, <2>2, <2>3 DEF Next
<1> QED
  BY <1>1, InitEstablishesAnswers, ScanSafe, CountsAgree, PTL DEF Spec

\* A scan nobody cancelled returns only when every address has answered or has
\* been given up after the retry it is due, however the workers interleave.
THEOREM ScanSkipsNothing == Spec => []NothingSkipped
<1>1. ScanInv /\ AnswerInv => NothingSkipped
  <2> SUFFICES ASSUME ScanInv, AnswerInv, phase = "returned", ~cancelled, NEW h \in Hosts
               PROVE  verdict[h] \in {"answered", "gaveup"}
                                     \cup (IF PatientLonger THEN {} ELSE {"silent"})
    BY DEF NothingSkipped
  <2>1. h \notin Ahead
    BY DEF Ahead
  <2>2. ~Held(h)
    BY DEF ScanInv, ScanTypes, Held, Working
  <2>3. verdict[h] \in Settled
    BY <2>1, <2>2 DEF AnswerInv
  <2> QED BY <2>3 DEF Settled
<1> QED BY <1>1, ScanSafe, EveryAddressAccounted, PTL

\* Every variable of a scan keeps to its type; no count passes the range's.
THEOREM ScanTypesHold == Spec => []TypeOK
<1>1. ScanInv /\ CountInv /\ AnswerInv => TypeOK
  BY DEF ScanInv, ScanTypes, CountInv, CountTypes, AnswerInv, TypeOK
<1> QED BY <1>1, ScanSafe, CountsAgree, EveryAddressAccounted, PTL
=============================================================================
