---------------------------- MODULE RulesProofs ----------------------------
(***************************************************************************)
(* The rules engine, for any computers, rules and snapshots, any ticks     *)
(* shorter than a week and any use of the settings dialog: what fires,     *)
(* where it is sent, and how far apart.                                    *)
(***************************************************************************)
EXTENDS Rules, SequenceTheorems, FiniteSetTheorems, WellFoundedInduction, TLAPS

\* A rule of the engine, or of the dialog's copy.
Rule == [id : Ids, named : BOOLEAN, text : DOMAIN Texts, enabled : BOOLEAN, left : Nat]

ListOK(rs) ==
    /\ rs \in Seq(Rule)
    /\ \A j, k \in DOMAIN rs : rs[j].id = rs[k].id => j = k

TypeInv == TypeOK /\ ListOK(copy)

----------------------------------------------------------------------------
(* Numbers and lists.                                                      *)

\* A set of naturals has a least element.
LEMMA Least ==
    ASSUME NEW T, T \subseteq Nat, T # {}
    PROVE  \E n \in T : \A m \in T : n <= m
<1> DEFINE R == {ss \in Nat \X Nat : ss[1] < ss[2]}
<1>1. IsWellFoundedOn(R, Nat)
  BY NatLessThanWellFounded DEF OpToRel
<1>2. \A n, m \in Nat : m < n => <<m, n>> \in R
  OBVIOUS
<1> HIDE DEF R
<1>3. PICK n \in T : \A m \in T : ~(<<m, n>> \in R)
  BY <1>1, WFMin
<1>4. ASSUME NEW m \in T
      PROVE  n <= m
  <2>1. m \in Nat /\ n \in Nat
    OBVIOUS
  <2>2. ~(m < n)
    BY <1>2, <1>3, <2>1
  <2> QED BY <2>1, <2>2
<1> QED BY <1>4

\* A bounded one has a greatest.
LEMMA Greatest ==
    ASSUME NEW T, T \subseteq Nat, T # {}, NEW b \in Nat, \A n \in T : n <= b
    PROVE  \E n \in T : \A m \in T : m <= n
<1> DEFINE U == {b - n : n \in T}
<1>1. U \subseteq Nat /\ U # {}
  <2>1. \A n \in T : n \in Nat /\ n <= b /\ b - n \in Nat
    OBVIOUS
  <2> QED BY <2>1
<1>2. PICK u \in U : \A v \in U : u <= v
  BY <1>1, Least
<1>3. PICK n \in T : u = b - n
  OBVIOUS
<1>4. ASSUME NEW m \in T
      PROVE  m <= n
  <2>1. u <= b - m
    BY <1>2
  <2>2. m \in Nat /\ n \in Nat
    OBVIOUS
  <2> QED BY <1>3, <2>1, <2>2
<1> QED BY <1>4

\* A list given entry by entry.
LEMMA ListOf ==
    ASSUME NEW n \in Nat, NEW f \in [1..n -> Rule],
           \A j, k \in 1..n : f[j].id = f[k].id => j = k
    PROVE  ListOK(f) /\ DOMAIN f = 1..n
<1>1. f \in Seq(Rule)
  BY SeqDef
<1>2. DOMAIN f = 1..n
  OBVIOUS
<1> QED BY <1>1, <1>2 DEF ListOK

\* Every rule of a list is a rule.
LEMMA EntriesOf ==
    ASSUME NEW rs, ListOK(rs)
    PROVE  /\ Len(rs) \in Nat /\ DOMAIN rs = 1..Len(rs)
           /\ \A k \in DOMAIN rs : rs[k] \in Rule
           /\ ToSet(rs) \subseteq Rule
           /\ \A p, q \in ToSet(rs) : p.id = q.id => p = q
<1>1. Len(rs) \in Nat /\ DOMAIN rs = 1..Len(rs)
  BY LenProperties DEF ListOK
<1>2. \A k \in DOMAIN rs : rs[k] \in Rule
  BY <1>1, ElementOfSeq DEF ListOK
<1> QED BY <1>1, <1>2 DEF ToSet, ListOK

\* A rule but for its back-off.
LEMMA LeftOf ==
    ASSUME NEW r \in Rule, NEW n \in Nat, NEW q, q = [r EXCEPT !.left = n]
    PROVE  /\ q \in Rule /\ q.left = n /\ q.id = r.id /\ q.text = r.text
           /\ q.enabled = r.enabled /\ q.named = r.named
BY DEF Rule

\* A list with the back-offs changed.
LEMMA LeftsOf ==
    ASSUME NEW rs, ListOK(rs), NEW e \in [DOMAIN rs -> Nat]
    PROVE  LET new == [k \in DOMAIN rs |-> [rs[k] EXCEPT !.left = e[k]]]
           IN  /\ ListOK(new) /\ DOMAIN new = DOMAIN rs
               /\ \A k \in DOMAIN rs :
                     /\ new[k].left = e[k] /\ new[k].id = rs[k].id
                     /\ new[k].text = rs[k].text
                     /\ new[k].enabled = rs[k].enabled
<1> DEFINE new == [k \in DOMAIN rs |-> [rs[k] EXCEPT !.left = e[k]]]
<1>1. /\ Len(rs) \in Nat /\ DOMAIN rs = 1..Len(rs)
      /\ \A k \in DOMAIN rs : rs[k] \in Rule
  BY EntriesOf
<1>2. DOMAIN new = DOMAIN rs
  OBVIOUS
<1>3. \A k \in DOMAIN rs :
         /\ new[k] \in Rule /\ new[k].left = e[k] /\ new[k].id = rs[k].id
         /\ new[k].text = rs[k].text /\ new[k].enabled = rs[k].enabled
  <2> TAKE k \in DOMAIN rs
  <2>1. new[k] = [rs[k] EXCEPT !.left = e[k]] /\ rs[k] \in Rule /\ e[k] \in Nat
    BY <1>1
  <2> HIDE DEF new
  <2> QED BY <2>1, LeftOf
<1>4. new \in [1..Len(rs) -> Rule]
  BY <1>1, <1>3
<1>5. \A j, k \in 1..Len(rs) : new[j].id = new[k].id => j = k
  BY <1>1, <1>3 DEF ListOK
<1> HIDE DEF new
<1>6. ListOK(new)
  BY <1>1, <1>4, <1>5, ListOf
<1> QED BY <1>2, <1>3, <1>6 DEF new

\* A new rule at the end of a list.
LEMMA AppendOf ==
    ASSUME NEW rs, ListOK(rs), NEW r \in Rule, \A q \in ToSet(rs) : q.id # r.id
    PROVE  /\ ListOK(Append(rs, r))
           /\ \A q \in ToSet(Append(rs, r)) : q = r \/ q \in ToSet(rs)
<1>1. /\ Len(rs) \in Nat /\ DOMAIN rs = 1..Len(rs) /\ rs \in Seq(Rule)
      /\ \A k \in DOMAIN rs : rs[k] \in Rule
  BY EntriesOf DEF ListOK
<1> DEFINE new == Append(rs, r)
<1>2. /\ new \in Seq(Rule) /\ Len(new) = Len(rs) + 1
      /\ \A k \in 1..Len(rs) : new[k] = rs[k]
      /\ new[Len(rs) + 1] = r
  BY <1>1, AppendProperties
<1> HIDE DEF new
<1>3. DOMAIN new = 1..(Len(rs) + 1)
  BY <1>2, LenProperties
<1>4. \A k \in 1..(Len(rs) + 1) : k \in 1..Len(rs) \/ k = Len(rs) + 1
  BY <1>1
<1>5. \A k \in 1..Len(rs) : rs[k].id # r.id
  BY <1>1 DEF ToSet
<1>6. ListOK(new)
  BY <1>1, <1>2, <1>3, <1>4, <1>5 DEF ListOK
<1>7. \A q \in ToSet(new) : q = r \/ q \in ToSet(rs)
  BY <1>1, <1>2, <1>3, <1>4 DEF ToSet
<1> QED BY <1>6, <1>7 DEF new

\* A list without one of its rules.
LEMMA RemoveOf ==
    ASSUME NEW rs, ListOK(rs), NEW i \in DOMAIN rs
    PROVE  /\ ListOK(RemoveAt(rs, i))
           /\ ToSet(RemoveAt(rs, i)) \subseteq ToSet(rs)
<1>1. /\ Len(rs) \in Nat /\ DOMAIN rs = 1..Len(rs) /\ i \in 1..Len(rs)
      /\ \A k \in 1..Len(rs) : rs[k] \in Rule
  BY EntriesOf
<1> DEFINE a == SubSeq(rs, 1, i - 1)
           b == SubSeq(rs, i + 1, Len(rs))
           new == RemoveAt(rs, i)
<1>2. /\ a \in Seq(Rule) /\ Len(a) = i - 1
      /\ \A k \in 1..(i - 1) : a[k] = rs[k]
  <2>1. i - 1 \in Int /\ \A k \in 1..(i - 1) : rs[k] \in Rule
    BY <1>1
  <2>2. /\ a \in Seq(Rule) /\ Len(a) = IF 1 <= i - 1 THEN (i - 1) - 1 + 1 ELSE 0
        /\ \A k \in 1..((i - 1) - 1 + 1) : a[k] = rs[1 + k - 1]
    BY <2>1, SubSeqProperties
  <2> HIDE DEF a
  <2> QED BY <1>1, <2>2
<1>3. /\ b \in Seq(Rule) /\ Len(b) = Len(rs) - i
      /\ \A k \in 1..(Len(rs) - i) : b[k] = rs[i + k]
  <2>1. i + 1 \in Int /\ Len(rs) \in Int /\ \A k \in (i + 1)..Len(rs) : rs[k] \in Rule
    BY <1>1
  <2>2. /\ b \in Seq(Rule)
        /\ Len(b) = IF i + 1 <= Len(rs) THEN Len(rs) - (i + 1) + 1 ELSE 0
        /\ \A k \in 1..(Len(rs) - (i + 1) + 1) : b[k] = rs[(i + 1) + k - 1]
    <3> DEFINE m == i + 1
               n == Len(rs)
    <3>1. m \in Int /\ n \in Int /\ \A k \in m..n : rs[k] \in Rule
      BY <2>1
    <3> HIDE DEF m, n
    <3>2. /\ SubSeq(rs, m, n) \in Seq(Rule)
          /\ Len(SubSeq(rs, m, n)) = IF m <= n THEN n - m + 1 ELSE 0
          /\ \A k \in 1..(n - m + 1) : SubSeq(rs, m, n)[k] = rs[m + k - 1]
      BY ONLY <3>1, SubSeqProperties
    <3> QED BY <3>2 DEF m, n
  <2>3. \A k \in 1..(Len(rs) - i) : k \in 1..(Len(rs) - (i + 1) + 1) /\ (i + 1) + k - 1 = i + k
    BY <1>1
  <2> HIDE DEF b
  <2> QED BY <1>1, <2>2, <2>3
<1>4. new = a \o b
  BY DEF RemoveAt
<1> HIDE DEF a, b, new
<1>5. /\ new \in Seq(Rule) /\ Len(new) = Len(rs) - 1
      /\ \A k \in 1..(Len(rs) - 1) : new[k] = IF k <= i - 1 THEN rs[k] ELSE rs[k + 1]
  <2>1. /\ new \in Seq(Rule) /\ Len(new) = Len(a) + Len(b)
        /\ \A k \in 1..(Len(a) + Len(b)) :
              new[k] = IF k <= Len(a) THEN a[k] ELSE b[k - Len(a)]
    BY <1>2, <1>3, <1>4, ConcatProperties
  <2>2. Len(a) + Len(b) = Len(rs) - 1
    BY <1>1, <1>2, <1>3
  <2>3. ASSUME NEW k \in 1..(Len(rs) - 1)
        PROVE  new[k] = IF k <= i - 1 THEN rs[k] ELSE rs[k + 1]
    <3>1. CASE k <= i - 1
      BY <1>1, <1>2, <2>1, <2>2, <3>1
    <3>2. CASE ~(k <= i - 1)
      <4>1. k - (i - 1) \in 1..(Len(rs) - i) /\ i + (k - (i - 1)) = k + 1
        BY <1>1, <3>2
      <4>2. new[k] = b[k - (i - 1)]
        BY <1>2, <2>1, <2>2, <3>2
      <4> QED BY <1>3, <3>2, <4>1, <4>2
    <3> QED BY <3>1, <3>2
  <2> QED BY <2>1, <2>2, <2>3
<1>6. DOMAIN new = 1..(Len(rs) - 1)
  BY <1>5, LenProperties
<1>7. ListOK(new)
  <2> SUFFICES ASSUME NEW j \in 1..(Len(rs) - 1), NEW k \in 1..(Len(rs) - 1),
                      new[j].id = new[k].id
               PROVE  j = k
    BY <1>5, <1>6 DEF ListOK
  <2> DEFINE u == IF j <= i - 1 THEN j ELSE j + 1
             v == IF k <= i - 1 THEN k ELSE k + 1
  <2>1. u \in 1..Len(rs) /\ v \in 1..Len(rs) /\ new[j] = rs[u] /\ new[k] = rs[v]
    BY <1>1, <1>5
  <2>2. u = v
    BY <1>1, <2>1 DEF ListOK
  <2> QED BY <1>1, <2>2
<1>8. ToSet(new) \subseteq ToSet(rs)
  <2>1. ASSUME NEW k \in 1..(Len(rs) - 1)
        PROVE  \E j \in 1..Len(rs) : new[k] = rs[j]
    <3>1. k \in 1..Len(rs) /\ k + 1 \in 1..Len(rs)
      BY <1>1
    <3> QED BY <1>5, <3>1
  <2> QED BY <1>1, <1>6, <2>1 DEF ToSet
<1> QED BY <1>7, <1>8 DEF new

\* A list with one rule changed.
LEMMA ExceptOf ==
    ASSUME NEW rs, ListOK(rs), NEW i \in DOMAIN rs, NEW r \in Rule, r.id = rs[i].id
    PROVE  /\ ListOK([rs EXCEPT ![i] = r])
           /\ \A q \in ToSet([rs EXCEPT ![i] = r]) : q = r \/ q \in ToSet(rs)
<1>1. /\ Len(rs) \in Nat /\ DOMAIN rs = 1..Len(rs) /\ rs \in Seq(Rule)
      /\ \A k \in DOMAIN rs : rs[k] \in Rule
  BY EntriesOf DEF ListOK
<1> DEFINE new == [rs EXCEPT ![i] = r]
<1>2. rs \in [1..Len(rs) -> Rule]
  BY <1>1, LenProperties
<1>3. new \in [1..Len(rs) -> Rule] /\ \A k \in 1..Len(rs) : new[k].id = rs[k].id
  BY <1>1, <1>2
<1>4. \A k \in 1..Len(rs) : new[k] = r \/ new[k] = rs[k]
  BY <1>1, <1>2
<1> HIDE DEF new
<1>5. ListOK(new) /\ DOMAIN new = 1..Len(rs)
  <2>1. \A j, k \in 1..Len(rs) : new[j].id = new[k].id => j = k
    BY <1>1, <1>3 DEF ListOK
  <2> QED BY ONLY <1>1, <1>3, <2>1, ListOf
<1>6. \A q \in ToSet(new) : q = r \/ q \in ToSet(rs)
  BY <1>1, <1>4, <1>5 DEF ToSet
<1> QED BY <1>5, <1>6 DEF new

----------------------------------------------------------------------------
(* What a rule does.                                                       *)

\* The snapshots a tick may find, and those of the tick before.
LEMMA WorldOK ==
    ASSUME NEW n \in {0} \cup DOMAIN Worlds
    PROVE  /\ Len(World(n).tasks) \in Nat
           /\ DOMAIN World(n).tasks = 1..Len(World(n).tasks)
           /\ \A i \in DOMAIN World(n).tasks : World(n).tasks[i].computer \in Hosts
           /\ World(n).polled \subseteq Hosts
<1>1. CASE n = 0
  <2>1. World(n).tasks = <<>> /\ World(n).polled = {}
    BY <1>1 DEF World, Nothing
  <2>2. <<>> \in Seq({}) /\ Len(<<>>) = 0 /\ DOMAIN <<>> = {}
    BY EmptySeq
  <2> QED BY <2>1, <2>2
<1>2. CASE n # 0
  BY <1>2, RulesAssumption DEF World
<1> QED BY <1>1, <1>2

\* The first computer of some, in the order of the names.
LEMMA FirstInIs ==
    ASSUME NEW S, S \subseteq Hosts, S # {}
    PROVE  HostOrder[FirstIn(HostOrder, S)] \in S
<1>1. HostOrder \in Seq(Hosts) /\ Hosts = {HostOrder[i] : i \in DOMAIN HostOrder}
  BY RulesAssumption DEF Hosts, ToSet
<1>2. Len(HostOrder) \in Nat /\ DOMAIN HostOrder = 1..Len(HostOrder)
  BY <1>1, LenProperties
<1> DEFINE I == {i \in 1..Len(HostOrder) : HostOrder[i] \in S}
<1>3. I \subseteq Nat /\ I # {}
  BY <1>1, <1>2
<1>4. FirstIn(HostOrder, S) = IF I # {} THEN Min(I) ELSE 0
  BY DEF FirstIn, SelectInSeq
<1>5. \A i \in I : HostOrder[i] \in S
  OBVIOUS
<1> HIDE DEF I
<1>6. \E i \in I : \A j \in I : i <= j
  BY <1>3, Least
<1>7. Min(I) \in I
  BY <1>6 DEF Min
<1> QED BY <1>3, <1>4, <1>5, <1>7

\* The conditions of a rule are numbered from 1.
LEMMA CondsOf ==
    ASSUME NEW b \in DOMAIN Texts
    PROVE  DOMAIN Texts[b].cond \subseteq Nat /\ 1 \in DOMAIN Texts[b].cond
BY RulesAssumption

\* Where a condition holds: on computers there are, or for a time of the week.
LEMMA WhereIs ==
    ASSUME NEW b \in DOMAIN Texts, NEW c, NEW w, NEW ever, NEW t
    PROVE  /\ c.type = "wallclock" => Where(Texts[b], c, w, ever, t) \subseteq {Texts[b].computer}
           /\ c.type # "wallclock" => Where(Texts[b], c, w, ever, t) \subseteq Hosts
<1> DEFINE r == Texts[b]
<1>1. Within[r.computer] \subseteq Hosts
  BY RulesAssumption
<1>2. CASE c.type = "wallclock"
  BY <1>2 DEF Where
<1>3. CASE c.type = "connection"
  BY <1>1, <1>3 DEF Where
<1>4. CASE c.type = "project left"
  BY <1>4 DEF Where
<1>5. CASE c.type = "status"
  BY <1>5 DEF Where
<1>6. CASE c.type \notin {"wallclock", "connection", "project left", "status"}
  BY <1>6 DEF Where
<1> QED BY <1>2, <1>3, <1>4, <1>5, <1>6

\* A rule that does something names a condition that holds, where it holds; or
\* a task of which all its conditions hold.
LEMMA ActionIs ==
    ASSUME NEW id, NEW b, NEW n, NEW before, NEW ever, NEW t, NEW dt, NEW a,
           b \in DOMAIN Texts, n \in {0} \cup DOMAIN Worlds,
           a \in Action(id, Texts[b], World(n), before, ever, t, dt)
    PROVE  /\ a.id = id /\ a.event = Texts[b].event
           /\ \/ /\ a.task = 0
                 /\ \E k \in DOMAIN Texts[b].cond :
                       a.computer \in Where(Texts[b], Texts[b].cond[k], World(n), ever, t)
              \/ /\ a.task \in Matching(Texts[b], World(n), before, dt)
                 /\ a.computer = World(n).tasks[a.task].computer
<1> DEFINE r == Texts[b]
           w == World(n)
           hits(k) == Where(r, r.cond[k], w, ever, t)
           some == {k \in DOMAIN r.cond : hits(k) # {}}
           tasks == Matching(r, w, before, dt)
           first == CHOOSE k \in some : \A j \in some : k <= j
           task == CHOOSE i \in tasks : \A j \in tasks : i <= j
<1>1. CASE some # {}
  <2>1. some \subseteq Nat
    BY CondsOf
  <2>2. \E k \in some : \A j \in some : k <= j
    <3> HIDE DEF some
    <3> QED BY <1>1, <2>1, Least
  <2>3. first \in some
    <3> HIDE DEF some
    <3> QED BY <2>2
  <2>4. a = [id |-> id, event |-> r.event, task |-> 0,
             computer |-> IF r.cond[first].type = "wallclock" THEN r.computer
                          ELSE HostOrder[FirstIn(HostOrder, hits(first))]]
    BY <1>1 DEF Action
  <2>5. first \in DOMAIN r.cond /\ hits(first) # {}
    BY <2>3
  <2> HIDE DEF first
  <2>6. a.computer \in hits(first)
    <3>1. CASE r.cond[first].type = "wallclock"
      BY <2>4, <2>5, <3>1, WhereIs
    <3>2. CASE r.cond[first].type # "wallclock"
      <4>1. hits(first) \subseteq Hosts
        BY <3>2, WhereIs
      <4>2. HostOrder[FirstIn(HostOrder, hits(first))] \in hits(first)
        <5> HIDE DEF hits
        <5> QED BY <2>5, <4>1, FirstInIs
      <4> QED BY <2>4, <3>2, <4>2
    <3> QED BY <3>1, <3>2
  <2> QED BY <2>4, <2>5, <2>6
<1>2. CASE some = {} /\ tasks # {}
  <2>1. tasks \subseteq Nat
    BY WorldOK DEF Matching, MatchesFields
  <2>2. \E i \in tasks : \A j \in tasks : i <= j
    <3> HIDE DEF tasks
    <3> QED BY <1>2, <2>1, Least
  <2>3. task \in tasks
    <3> HIDE DEF tasks
    <3> QED BY <2>2
  <2>4. a = [id |-> id, event |-> r.event, task |-> task,
             computer |-> w.tasks[task].computer]
    BY <1>2 DEF Action
  <2> HIDE DEF task
  <2> QED BY <2>3, <2>4
<1>3. CASE some = {} /\ tasks = {}
  BY <1>3 DEF Action
<1> QED BY <1>1, <1>2, <1>3

\* A rule does nothing only if none of its conditions about computers holds.
LEMMA ActionWhere ==
    ASSUME NEW id, NEW b \in DOMAIN Texts, NEW w, NEW before, NEW ever, NEW t, NEW dt,
           NEW k \in DOMAIN Texts[b].cond,
           Where(Texts[b], Texts[b].cond[k], w, ever, t) # {}
    PROVE  Action(id, Texts[b], w, before, ever, t, dt) # {}
BY DEF Action

\* The rules that fire at a tick, and what they do.
Ever(n) == seen \cup Up(World(n))

Now(dt) == (clock + dt) % Week

ActsOf(q, n, dt) ==
    Action(q.id, Texts[q.text], World(n), World(last), Ever(n), Now(dt), dt)

Ready(dt) == {p \in ToSet(rules) : Armed(p, dt)}

Acts(n, dt) == UNION {ActsOf(q, n, dt) : q \in Ready(dt)}

IdsOf(n, dt) == {a.id : a \in Acts(n, dt)}

\* What a tick does, in these terms.
LEMMA TickDoes ==
    ASSUME NEW n, NEW dt, RunRules(n, dt)
    PROVE  /\ clock' = Now(dt) /\ seen' = Ever(n) /\ last' = n
           /\ fired' = IdsOf(n, dt)
           /\ sent' = UNION {Dispatch(a, World(n)) : a \in Acts(n, dt)}
           /\ rules' = [k \in DOMAIN rules |->
                 [rules[k] EXCEPT !.left = IF rules[k].id \in IdsOf(n, dt)
                                           THEN Backoff(Texts[rules[k].text])
                                           ELSE CountDown(@, dt)]]
           /\ copy' = [k \in DOMAIN copy |-> [copy[k] EXCEPT !.left = CountDown(@, dt)]]
           /\ ago' = [i \in Ids |-> IF i \in IdsOf(n, dt) THEN 0
                                    ELSE IF ago[i] + dt < Never THEN ago[i] + dt ELSE Never]
           /\ touched' = IF dialog THEN touched \cup IdsOf(n, dt) ELSE touched
           /\ unsettled' = {i \in unsettled : \E k \in DOMAIN rules :
                 /\ rules[k].id = i
                 /\ InAnyInterval(Texts[rules[k].text].intervals, Now(dt))}
           /\ UNCHANGED <<dialog, dialogs, changes>>
BY DEF RunRules, Tick, IdsOf, Acts, ActsOf, Ready, Now, Ever

----------------------------------------------------------------------------
(* Types.                                                                  *)

\* A back-off is a time.
LEMMA BackoffOf ==
    ASSUME NEW b \in DOMAIN Texts
    PROVE  /\ Backoff(Texts[b]) \in Nat /\ Backoff(Texts[b]) >= Minute
           /\ Texts[b].cond[1].type = "wallclock" => Backoff(Texts[b]) = Minute
           /\ Texts[b].cond[1].type # "wallclock" =>
                 /\ Backoff(Texts[b]) >= Texts[b].snooze * Minute
                 /\ Texts[b].snooze = 0 => Backoff(Texts[b]) >= 5 * Minute
<1> DEFINE s == Texts[b].snooze
<1>1. s \in Int /\ Minute \in Nat \ {0}
  BY RulesAssumption
<1>2. CASE Texts[b].cond[1].type = "wallclock"
  BY <1>1, <1>2 DEF Backoff
<1>3. CASE Texts[b].cond[1].type # "wallclock" /\ s > 0
  <2>1. Backoff(Texts[b]) = s * Minute
    BY <1>3 DEF Backoff
  <2>2. s * Minute \in Nat /\ s * Minute >= Minute
    <3>1. s - 1 \in Nat /\ (s - 1) * Minute >= 0
      BY <1>1, <1>3
    <3>2. (s - 1) * Minute = s * Minute - Minute /\ s * Minute \in Int
      BY <1>1
    <3> QED BY <1>1, <3>1, <3>2
  <2> QED BY <1>1, <1>3, <2>1, <2>2
<1>4. CASE Texts[b].cond[1].type # "wallclock" /\ ~(s > 0)
  <2>1. Backoff(Texts[b]) = 5 * Minute
    BY <1>4 DEF Backoff
  <2>2. s * Minute <= 0 /\ s * Minute \in Int
    <3>1. (-s) \in Nat /\ (-s) * Minute >= 0
      BY <1>1, <1>4
    <3>2. (-s) * Minute = -(s * Minute) /\ s * Minute \in Int
      BY <1>1
    <3> QED BY <3>1, <3>2
  <2> QED BY <1>1, <1>4, <2>1, <2>2
<1> QED BY <1>2, <1>3, <1>4

\* What is done at a tick is done by a rule that is armed.
LEMMA ActOf ==
    ASSUME TypeInv, NEW n \in DOMAIN Worlds, NEW dt \in Steps, NEW a \in Acts(n, dt)
    PROVE  \E q \in ToSet(rules) :
              /\ q \in Rule /\ Armed(q, dt) /\ a.id = q.id /\ a.event = Texts[q.text].event
              /\ \/ /\ a.task = 0
                    /\ \E k \in DOMAIN Texts[q.text].cond :
                          a.computer \in Where(Texts[q.text], Texts[q.text].cond[k],
                                               World(n), Ever(n), Now(dt))
                 \/ /\ a.task \in Matching(Texts[q.text], World(n), World(last), dt)
                    /\ a.computer = World(n).tasks[a.task].computer
<1>1. PICK q \in Ready(dt) : a \in ActsOf(q, n, dt)
  BY DEF Acts
<1>2. q \in ToSet(rules) /\ Armed(q, dt)
  BY <1>1 DEF Ready
<1>3. q \in Rule
  <2>1. ListOK(rules)
    BY DEF TypeInv, TypeOK, ListOK, Rule
  <2> QED BY <1>2, <2>1, EntriesOf
<1>4. q.text \in DOMAIN Texts
  BY <1>3 DEF Rule
<1>5. a \in Action(q.id, Texts[q.text], World(n), World(last), Ever(n), Now(dt), dt)
  BY <1>1 DEF ActsOf
<1>6. /\ a.id = q.id /\ a.event = Texts[q.text].event
      /\ \/ /\ a.task = 0
            /\ \E k \in DOMAIN Texts[q.text].cond :
                  a.computer \in Where(Texts[q.text], Texts[q.text].cond[k],
                                       World(n), Ever(n), Now(dt))
         \/ /\ a.task \in Matching(Texts[q.text], World(n), World(last), dt)
            /\ a.computer = World(n).tasks[a.task].computer
  <2> DEFINE b == q.text
             u == World(last)
             e == Ever(n)
             t == Now(dt)
             i == q.id
  <2>1. /\ n \in {0} \cup DOMAIN Worlds /\ b \in DOMAIN Texts
        /\ a \in Action(i, Texts[b], World(n), u, e, t, dt)
    BY <1>4, <1>5
  <2> HIDE DEF b, u, e, t, i
  <2>2. /\ a.id = i /\ a.event = Texts[b].event
        /\ \/ /\ a.task = 0
              /\ \E k \in DOMAIN Texts[b].cond :
                    a.computer \in Where(Texts[b], Texts[b].cond[k], World(n), e, t)
           \/ /\ a.task \in Matching(Texts[b], World(n), u, dt)
              /\ a.computer = World(n).tasks[a.task].computer
    BY ONLY <2>1, ActionIs
  <2> QED BY <2>2 DEF b, u, e, t, i
<1> QED BY <1>2, <1>3, <1>6

\* The lists of rules have their types.
LEMMA ListsOf ==
    ASSUME TypeInv
    PROVE  /\ ListOK(rules) /\ ListOK(copy)
           /\ ToSet(rules) \subseteq Rule /\ ToSet(copy) \subseteq Rule
           /\ \A k \in DOMAIN rules : rules[k] \in Rule
           /\ \A k \in DOMAIN copy : copy[k] \in Rule
<1>1. ListOK(rules) /\ ListOK(copy)
  BY DEF TypeInv, TypeOK, ListOK, Rule
<1> QED BY <1>1, EntriesOf

\* A time that counts down stays a time.
LEMMA CountDownOf ==
    ASSUME NEW n \in Nat, NEW dt \in Nat
    PROVE  /\ CountDown(n, dt) \in Nat
           /\ CountDown(n, dt) <= n /\ CountDown(n, dt) + dt >= n
           /\ CountDown(n, dt) > 0 => CountDown(n, dt) = n - dt
BY DEF CountDown

\* A tick leaves every rule in its place, with a back-off of its own.
LEMMA TickLists ==
    ASSUME TypeInv, NEW n \in DOMAIN Worlds, NEW dt \in Steps, RunRules(n, dt)
    PROVE  /\ ListOK(rules') /\ ListOK(copy')
           /\ DOMAIN rules' = DOMAIN rules /\ DOMAIN copy' = DOMAIN copy
           /\ \A k \in DOMAIN rules :
                 /\ rules'[k].id = rules[k].id /\ rules'[k].text = rules[k].text
                 /\ rules'[k].enabled = rules[k].enabled
                 /\ rules'[k].left = IF rules[k].id \in IdsOf(n, dt)
                                     THEN Backoff(Texts[rules[k].text])
                                     ELSE CountDown(rules[k].left, dt)
           /\ \A k \in DOMAIN copy :
                 /\ copy'[k].id = copy[k].id /\ copy'[k].text = copy[k].text
                 /\ copy'[k].left = CountDown(copy[k].left, dt)
<1>1. /\ ListOK(rules) /\ ListOK(copy)
      /\ \A k \in DOMAIN rules : rules[k] \in Rule
      /\ \A k \in DOMAIN copy : copy[k] \in Rule
  BY ListsOf
<1>2. dt \in Nat
  BY RulesAssumption
<1> DEFINE e == [k \in DOMAIN rules |-> IF rules[k].id \in IdsOf(n, dt)
                                        THEN Backoff(Texts[rules[k].text])
                                        ELSE CountDown(rules[k].left, dt)]
           f == [k \in DOMAIN copy |-> CountDown(copy[k].left, dt)]
<1>3. e \in [DOMAIN rules -> Nat] /\ f \in [DOMAIN copy -> Nat]
  <2>1. ASSUME NEW r \in Rule
        PROVE  r.left \in Nat /\ r.text \in DOMAIN Texts
    BY DEF Rule
  <2>2. \A k \in DOMAIN rules : e[k] \in Nat
    BY <1>1, <1>2, <2>1, BackoffOf, CountDownOf
  <2>3. \A k \in DOMAIN copy : f[k] \in Nat
    BY <1>1, <1>2, <2>1, CountDownOf
  <2> QED BY <2>2, <2>3
<1>4. rules' = [k \in DOMAIN rules |-> [rules[k] EXCEPT !.left = e[k]]]
  <2>1. rules' = [k \in DOMAIN rules |->
                 [rules[k] EXCEPT !.left = IF rules[k].id \in IdsOf(n, dt)
                                           THEN Backoff(Texts[rules[k].text])
                                           ELSE CountDown(rules[k].left, dt)]]
    BY TickDoes
  <2> QED BY <2>1
<1>5. copy' = [k \in DOMAIN copy |-> [copy[k] EXCEPT !.left = f[k]]]
  <2>1. copy' = [k \in DOMAIN copy |-> [copy[k] EXCEPT !.left = CountDown(copy[k].left, dt)]]
    BY TickDoes
  <2> QED BY <2>1
<1>6. \A k \in DOMAIN rules :
         e[k] = IF rules[k].id \in IdsOf(n, dt) THEN Backoff(Texts[rules[k].text])
                                                ELSE CountDown(rules[k].left, dt)
  OBVIOUS
<1>7. \A k \in DOMAIN copy : f[k] = CountDown(copy[k].left, dt)
  OBVIOUS
<1> HIDE DEF e, f
<1>8. /\ ListOK(rules') /\ DOMAIN rules' = DOMAIN rules
      /\ \A k \in DOMAIN rules :
            /\ rules'[k].left = e[k] /\ rules'[k].id = rules[k].id
            /\ rules'[k].text = rules[k].text /\ rules'[k].enabled = rules[k].enabled
  BY <1>1, <1>3, <1>4, LeftsOf
<1>9. /\ ListOK(copy') /\ DOMAIN copy' = DOMAIN copy
      /\ \A k \in DOMAIN copy :
            /\ copy'[k].left = f[k] /\ copy'[k].id = copy[k].id
            /\ copy'[k].text = copy[k].text
  BY <1>1, <1>3, <1>5, LeftsOf
<1> QED BY <1>6, <1>7, <1>8, <1>9

\* A tick keeps the types.
LEMMA TickKeepsTypes ==
    ASSUME TypeInv, NEW n \in DOMAIN Worlds, NEW dt \in Steps, RunRules(n, dt)
    PROVE  TypeInv'
<1>1. /\ TypeOK /\ ListOK(rules') /\ ListOK(copy') /\ DOMAIN copy' = DOMAIN copy
      /\ Week \in Nat \ {0} /\ Never \in Nat /\ dt \in Nat
  BY TickLists, RulesAssumption DEF TypeInv
<1>2. clock' \in 0..(Week - 1)
  BY <1>1, TickDoes DEF TypeOK, Now
<1>3. seen' \subseteq Hosts /\ last' \in {0} \cup DOMAIN Worlds
  BY <1>1, TickDoes DEF TypeOK, Ever, Up
<1>4. fired' \subseteq Ids
  <2>1. \A a \in Acts(n, dt) : a.id \in Ids
    BY ActOf DEF Rule
  <2> QED BY <2>1, TickDoes DEF IdsOf
<1>5. sent' \subseteq [id : Ids, computer : World(n).polled, task : 0..Len(World(n).tasks)]
  <2> SUFFICES ASSUME NEW a \in Acts(n, dt), NEW s \in Dispatch(a, World(n))
               PROVE  s \in [id : Ids, computer : World(n).polled,
                             task : 0..Len(World(n).tasks)]
    BY TickDoes
  <2>1. PICK h \in World(n).polled : s = [id |-> a.id, computer |-> h, task |-> a.task]
    BY DEF Dispatch
  <2>2. a.id \in Ids
    BY ActOf DEF Rule
  <2>3. a.task \in 0..Len(World(n).tasks)
    <3>1. \/ a.task = 0 \/ a.task \in DOMAIN World(n).tasks
      BY ActOf DEF Matching, MatchesFields
    <3>2. /\ Len(World(n).tasks) \in Nat
          /\ DOMAIN World(n).tasks = 1..Len(World(n).tasks)
      BY WorldOK
    <3> QED BY <3>1, <3>2
  <2> QED BY <2>1, <2>2, <2>3
<1>6. dialog' \in BOOLEAN /\ (~dialog' => copy' = <<>>)
  <2>1. dialog' = dialog
    BY TickDoes
  <2>2. CASE ~dialog
    <3>1. copy = <<>>
      BY <1>1, <2>2 DEF TypeOK
    <3>2. copy' \in Seq(Rule) /\ DOMAIN copy' = {}
      BY <1>1, <3>1 DEF ListOK
    <3>3. copy' = <<>>
      BY <3>2, LenProperties, EmptySeq
    <3> QED BY <1>1, <2>1, <3>3 DEF TypeOK
  <2> QED BY <1>1, <2>1, <2>2 DEF TypeOK
<1>7. ago' \in [Ids -> 0..Never]
  <2>1. \A i \in Ids : ago[i] \in 0..Never
    BY <1>1 DEF TypeOK
  <2>2. \A i \in Ids : (IF i \in IdsOf(n, dt) THEN 0
                        ELSE IF ago[i] + dt < Never THEN ago[i] + dt ELSE Never) \in 0..Never
    BY <1>1, <2>1
  <2> QED BY <2>2, TickDoes
<1>8. touched' \subseteq Ids /\ unsettled' \subseteq Ids
  <2>1. touched \subseteq Ids /\ unsettled \subseteq Ids
    BY <1>1 DEF TypeOK
  <2>2. touched' \subseteq touched \cup fired' /\ unsettled' \subseteq unsettled
    BY TickDoes
  <2> QED BY <1>4, <2>1, <2>2
<1>9. World(last') = World(n)
  BY TickDoes
<1> QED
  BY <1>1, <1>2, <1>3, <1>4, <1>5, <1>6, <1>7, <1>8, <1>9
  DEF TypeInv, TypeOK, ListOK, Rule, World

\* A list that replaces the copy, the rules ids touched.
Kept(new, ids) ==
    /\ ListOK(new) /\ ids \subseteq Ids
    /\ \A q \in ToSet(new) :
          \/ q.left = 0 /\ q.id \in ids
          \/ \E p \in ToSet(copy) : /\ p.left = q.left /\ p.text = q.text
                                    /\ p.id = q.id \/ q.id \in ids

\* What is done in the dialog, whole: a rule of the copy is as it was, or
\* touched and either armed or as another.
LEMMA DialogDoes ==
    ASSUME TypeInv,
           \/ \E k \in DOMAIN copy : OnToggle(k) \/ OnCopy(k) \/ OnDelete(k)
           \/ \E text \in Offered, enabled \in BOOLEAN :
                 \/ OnAdd(text, enabled)
                 \/ \E k \in DOMAIN copy, named \in BOOLEAN :
                       OnEdit(k, text, named, enabled)
    PROVE  /\ dialog /\ ListOK(copy')
           /\ touched \subseteq touched' /\ touched' \subseteq Ids
           /\ \A q \in ToSet(copy') :
                 \/ q.left = 0 /\ q.id \in touched'
                 \/ \E p \in ToSet(copy) : /\ p.left = q.left /\ p.text = q.text
                                           /\ p.id = q.id \/ q.id \in touched'
           /\ UNCHANGED <<clock, rules, seen, last, fired, sent, dialog, dialogs,
                          ago, unsettled>>
<1>1. /\ ListOK(copy) /\ ToSet(copy) \subseteq Rule
      /\ \A k \in DOMAIN copy : copy[k] \in Rule /\ copy[k] \in ToSet(copy)
  BY ListsOf DEF ToSet
<1>2. touched \subseteq Ids
  BY DEF TypeInv, TypeOK
<1>3. ASSUME NEW new, NEW ids, Change(new, ids), Kept(new, ids)
      PROVE  /\ dialog /\ ListOK(copy')
             /\ touched \subseteq touched' /\ touched' \subseteq Ids
             /\ \A q \in ToSet(copy') :
                   \/ q.left = 0 /\ q.id \in touched'
                   \/ \E p \in ToSet(copy) : /\ p.left = q.left /\ p.text = q.text
                                             /\ p.id = q.id \/ q.id \in touched'
             /\ UNCHANGED <<clock, rules, seen, last, fired, sent, dialog, dialogs,
                            ago, unsettled>>
  <2>1. /\ dialog /\ copy' = new /\ touched' = touched \cup ids
        /\ UNCHANGED <<clock, rules, seen, last, fired, sent, dialog, dialogs,
                       ago, unsettled>>
    BY <1>3 DEF Change
  <2>2. touched \subseteq touched' /\ touched' \subseteq Ids /\ ids \subseteq touched'
    BY <1>2, <1>3, <2>1 DEF Kept
  <2> QED BY <1>3, <2>1, <2>2 DEF Kept
<1>4. ASSUME NEW k \in DOMAIN copy, OnToggle(k)
      PROVE  \E new, ids : Change(new, ids) /\ Kept(new, ids)
  <2> DEFINE r == [copy[k] EXCEPT !.enabled = ~@]
  <2>1. r \in Rule /\ r.id = copy[k].id /\ r.text = copy[k].text /\ r.left = copy[k].left
    BY <1>1 DEF Rule
  <2>2. Change([copy EXCEPT ![k] = r], {})
    <3>1. [copy EXCEPT ![k].enabled = ~@] = [copy EXCEPT ![k] = r]
      OBVIOUS
    <3> QED BY <1>4, <3>1 DEF OnToggle
  <2> HIDE DEF r
  <2> DEFINE new == [copy EXCEPT ![k] = r]
  <2>3. ListOK(new) /\ \A q \in ToSet(new) : q = r \/ q \in ToSet(copy)
    BY <1>1, <2>1, ExceptOf
  <2> HIDE DEF new
  <2>4. Kept(new, {})
    BY <1>1, <2>1, <2>3 DEF Kept
  <2> QED BY <2>2, <2>4 DEF new
<1>5. ASSUME NEW k \in DOMAIN copy, OnCopy(k)
      PROVE  \E new, ids : Change(new, ids) /\ Kept(new, ids)
  <2>1. PICK id \in Unused :
           Change(Append(copy, [copy[k] EXCEPT !.id = id, !.named = TRUE,
                                               !.enabled = FALSE]), {id})
    BY <1>5 DEF OnCopy
  <2> DEFINE r == [copy[k] EXCEPT !.id = id, !.named = TRUE, !.enabled = FALSE]
  <2>2. id \in Ids /\ \A q \in ToSet(copy) : q.id # id
    BY DEF Unused
  <2>3. r \in Rule /\ r.id = id /\ r.text = copy[k].text /\ r.left = copy[k].left
    BY <1>1, <2>2 DEF Rule
  <2>4. Change(Append(copy, r), {id})
    BY <2>1
  <2> HIDE DEF r
  <2>5. ListOK(Append(copy, r)) /\ \A q \in ToSet(Append(copy, r)) : q = r \/ q \in ToSet(copy)
    BY <1>1, <2>2, <2>3, AppendOf
  <2>6. Kept(Append(copy, r), {id})
    BY <1>1, <2>2, <2>3, <2>5 DEF Kept
  <2> QED BY <2>4, <2>6
<1>6. ASSUME NEW k \in DOMAIN copy, OnDelete(k)
      PROVE  \E new, ids : Change(new, ids) /\ Kept(new, ids)
  <2>1. Change(RemoveAt(copy, k), {copy[k].id}) /\ copy[k].id \in Ids
    BY <1>1, <1>6 DEF OnDelete, Rule
  <2>2. ListOK(RemoveAt(copy, k)) /\ ToSet(RemoveAt(copy, k)) \subseteq ToSet(copy)
    BY <1>1, RemoveOf
  <2>3. Kept(RemoveAt(copy, k), {copy[k].id})
    BY <2>1, <2>2 DEF Kept
  <2> QED BY <2>1, <2>3
<1>7. ASSUME NEW text \in Offered, NEW enabled \in BOOLEAN, OnAdd(text, enabled)
      PROVE  \E new, ids : Change(new, ids) /\ Kept(new, ids)
  <2>1. PICK id \in Unused : Change(Append(copy, Edited(id, text, TRUE, enabled)), {id})
    BY <1>7 DEF OnAdd
  <2>2. id \in Ids /\ \A q \in ToSet(copy) : q.id # id
    BY DEF Unused
  <2> DEFINE r == Edited(id, text, TRUE, enabled)
  <2>3. r \in Rule /\ r.id = id /\ r.left = 0
    BY <2>2, RulesAssumption DEF Edited, Rule
  <2> HIDE DEF r
  <2>4. ListOK(Append(copy, r)) /\ \A q \in ToSet(Append(copy, r)) : q = r \/ q \in ToSet(copy)
    BY <1>1, <2>2, <2>3, AppendOf
  <2>5. Change(Append(copy, r), {id})
    BY <2>1 DEF r
  <2>6. Kept(Append(copy, r), {id})
    BY <2>2, <2>3, <2>4 DEF Kept
  <2> QED BY <2>5, <2>6
<1>8. ASSUME NEW text \in Offered, NEW enabled \in BOOLEAN, NEW k \in DOMAIN copy,
             NEW named \in BOOLEAN, OnEdit(k, text, named, enabled)
      PROVE  \E new, ids : Change(new, ids) /\ Kept(new, ids)
  <2> DEFINE r == Edited(copy[k].id, text, named, enabled)
  <2>1. r \in Rule /\ r.id = copy[k].id /\ r.left = 0 /\ copy[k].id \in Ids
    BY <1>1, RulesAssumption DEF Edited, Rule
  <2>2. Change([copy EXCEPT ![k] = r], {copy[k].id})
    <3>1. [copy EXCEPT ![k] = Edited(@.id, text, named, enabled)] = [copy EXCEPT ![k] = r]
      OBVIOUS
    <3> QED BY <1>8, <3>1 DEF OnEdit
  <2> HIDE DEF r
  <2> DEFINE new == [copy EXCEPT ![k] = r]
  <2>3. ListOK(new) /\ \A q \in ToSet(new) : q = r \/ q \in ToSet(copy)
    BY <1>1, <2>1, ExceptOf
  <2> HIDE DEF new
  <2>4. Kept(new, {copy[k].id})
    BY <2>1, <2>3 DEF Kept
  <2> QED BY <2>2, <2>4 DEF new
<1>9. \E new, ids : Change(new, ids) /\ Kept(new, ids)
  BY <1>4, <1>5, <1>6, <1>7, <1>8
<1> QED BY <1>3, <1>9

\* A list loaded has rules of the list saved, in their order.
LEMMA LoadedIs ==
    ASSUME TypeInv, NEW new \in Loaded
    PROVE  /\ ListOK(new)
           /\ \A q \in ToSet(new) : q \in Rule /\ q.left = 0
<1> DEFINE named == {k \in DOMAIN rules : rules[k].named}
           n == Cardinality(named)
<1>1. PICK at \in [1..n -> named] :
         /\ \A j, k \in DOMAIN at : j < k => at[j] < at[k]
         /\ new = [k \in DOMAIN at |-> [rules[at[k]] EXCEPT !.left = 0]]
  BY DEF Loaded
<1>2. ListOK(rules) /\ \A k \in DOMAIN rules : rules[k] \in Rule
  BY ListsOf
<1>3. Len(rules) \in Nat /\ DOMAIN rules = 1..Len(rules) /\ named \subseteq DOMAIN rules
  BY <1>2, EntriesOf
<1>4. IsFiniteSet(named) /\ n \in Nat
  <2>1. IsFiniteSet(1..Len(rules))
    BY <1>3, FS_Interval
  <2> QED BY <1>3, <2>1, FS_Subset, FS_CardinalityType
<1> HIDE DEF named, n
<1>5. \A k \in 1..n : at[k] \in DOMAIN rules /\ new[k] = [rules[at[k]] EXCEPT !.left = 0]
  BY <1>1, <1>3
<1>6. \A k \in 1..n : new[k] \in Rule /\ new[k].left = 0 /\ new[k].id = rules[at[k]].id
  <2> TAKE k \in 1..n
  <2>1. 0 \in Nat /\ rules[at[k]] \in Rule /\ new[k] = [rules[at[k]] EXCEPT !.left = 0]
    BY <1>2, <1>5
  <2> QED BY <2>1, LeftOf
<1>7. new \in [1..n -> Rule]
  BY <1>1, <1>6
<1>8. ASSUME NEW j \in 1..n, NEW k \in 1..n, new[j].id = new[k].id
      PROVE  j = k
  <2>1. at[j] = at[k]
    <3>1. rules[at[j]].id = rules[at[k]].id /\ at[j] \in DOMAIN rules /\ at[k] \in DOMAIN rules
      BY <1>5, <1>6, <1>8
    <3> QED BY <1>2, <3>1 DEF ListOK
  <2>2. at[j] \in Nat /\ at[k] \in Nat
    BY <1>3, <1>5
  <2>3. j < k => at[j] < at[k]
    BY <1>1
  <2>4. k < j => at[k] < at[j]
    BY <1>1
  <2> QED BY <1>4, <2>1, <2>2, <2>3, <2>4
<1>9. ListOK(new) /\ DOMAIN new = 1..n
  BY <1>4, <1>7, <1>8, ListOf
<1> QED BY <1>6, <1>9 DEF ToSet

\* The rules put in place amid an interval are rules.
LEMMA AmidOf ==
    ASSUME NEW rs, ListOK(rs)
    PROVE  Amid(rs) \subseteq Ids
<1>1. ToSet(rs) \subseteq Rule
  BY EntriesOf
<1> QED BY <1>1 DEF Amid, Rule

\* Outside the ticks, the types are kept by the lists.
LEMMA OthersKeepTypes ==
    ASSUME TypeInv, Settings \/ Restart
    PROVE  TypeInv'
<1>1. /\ TypeOK /\ ListOK(rules) /\ ListOK(copy)
      /\ Never \in Nat /\ Never \in 0..Never
  BY ListsOf, RulesAssumption DEF TypeInv
<1>2. ListOK(<<>>) /\ \A rs : ListOK(rs) => rs \in Seq(Rule)
  <2>1. <<>> \in Seq(Rule) /\ DOMAIN <<>> = {}
    BY EmptySeq
  <2> QED BY <2>1 DEF ListOK
<1>3. CASE OnSettings
  BY <1>1, <1>3 DEF OnSettings, TypeInv, TypeOK, ListOK, Rule
<1>4. CASE Accept
  <2>1. /\ ListOK(rules') /\ copy' = <<>> /\ touched' = {} /\ unsettled' = Amid(copy)
        /\ ago' = [i \in Ids |-> IF i \in touched THEN Never ELSE ago[i]]
        /\ dialog' = FALSE /\ UNCHANGED <<clock, seen, last, fired, sent>>
    BY <1>1, <1>4 DEF Accept
  <2>2. unsettled' \subseteq Ids
    BY <1>1, <2>1, AmidOf
  <2>3. ago' \in [Ids -> 0..Never]
    BY <1>1, <2>1 DEF TypeOK
  <2> QED BY <1>1, <1>2, <2>1, <2>2, <2>3 DEF TypeInv, TypeOK, ListOK, Rule
<1>5. CASE Cancel
  BY <1>1, <1>2, <1>5 DEF Cancel, TypeInv, TypeOK, ListOK, Rule
<1>6. CASE \/ \E k \in DOMAIN copy : OnToggle(k) \/ OnCopy(k) \/ OnDelete(k)
           \/ \E text \in Offered, enabled \in BOOLEAN :
                 \/ OnAdd(text, enabled)
                 \/ \E k \in DOMAIN copy, named \in BOOLEAN :
                       OnEdit(k, text, named, enabled)
  <2>1. /\ dialog /\ ListOK(copy') /\ touched' \subseteq Ids
        /\ UNCHANGED <<clock, rules, seen, last, fired, sent, dialog, ago, unsettled>>
    BY <1>6, DialogDoes
  <2> QED BY <1>1, <2>1 DEF TypeInv, TypeOK, ListOK, Rule
<1>7. CASE Restart
  <2>1. /\ ListOK(rules') /\ copy' = <<>> /\ touched' = {} /\ unsettled' = Amid(rules')
        /\ ago' = [i \in Ids |-> Never] /\ seen' = {} /\ last' = 0
        /\ fired' = {} /\ sent' = {} /\ dialog' = FALSE /\ UNCHANGED clock
    BY <1>1, <1>7, LoadedIs DEF Restart
  <2>2. unsettled' \subseteq Ids
    BY <2>1, AmidOf
  <2>3. ago' \in [Ids -> 0..Never]
    BY <1>1, <2>1
  <2> QED BY <1>1, <1>2, <2>1, <2>2, <2>3 DEF TypeInv, TypeOK, ListOK, Rule
<1> QED BY <1>3, <1>4, <1>5, <1>6, <1>7 DEF Settings

\* The program starts with one rule, armed.
LEMMA InitTypes == Init => TypeInv
<1> SUFFICES ASSUME Init PROVE TypeInv
  OBVIOUS
<1>1. PICK text \in DOMAIN Texts, id \in Ids : rules = <<Edited(id, text, TRUE, TRUE)>>
  BY DEF Init
<1> DEFINE r == Edited(id, text, TRUE, TRUE)
<1>2. r \in Rule
  BY DEF Edited, Rule
<1> HIDE DEF r
<1>3. ListOK(<<r>>)
  <2>1. <<r>> \in Seq(Rule) /\ Len(<<r>>) = 1
    BY <1>2
  <2>2. DOMAIN <<r>> = 1..1
    BY <2>1, LenProperties
  <2> QED BY <2>1, <2>2 DEF ListOK
<1>4. ListOK(<<>>)
  <2>1. <<>> \in Seq(Rule) /\ DOMAIN <<>> = {}
    BY EmptySeq
  <2> QED BY <2>1 DEF ListOK
<1>5. ListOK(rules) /\ ListOK(copy)
  BY <1>1, <1>3, <1>4 DEF Init, r
<1>6. unsettled \subseteq Ids
  BY <1>5, AmidOf DEF Init
<1>7. ago \in [Ids -> 0..Never] /\ Week \in Nat \ {0}
  BY RulesAssumption DEF Init
<1>8. clock \in 0..(Week - 1) /\ dialog \in BOOLEAN /\ copy = <<>>
  <2>1. clock = 0 /\ dialog = FALSE /\ copy = <<>>
    BY DEF Init
  <2>2. 0 \in 0..(Week - 1)
    BY <1>7
  <2> QED BY <2>1, <2>2
<1>9. seen = {} /\ last = 0 /\ fired = {} /\ sent = {} /\ touched = {}
  BY DEF Init
<1> QED BY <1>5, <1>6, <1>7, <1>8, <1>9 DEF TypeInv, TypeOK, ListOK, Rule

\* Every variable of the rules engine keeps to its type, and the rules to their
\* identities, whatever is fired, edited, copied, deleted or loaded.
THEOREM RuleTypes == Spec => []TypeInv
<1>1. TypeInv /\ [Next]_vars => TypeInv'
  <2> SUFFICES ASSUME TypeInv, [Next]_vars
               PROVE  TypeInv'
    OBVIOUS
  <2>1. CASE UNCHANGED vars
    BY <2>1 DEF vars, TypeInv, TypeOK, ListOK, World
  <2>2. CASE Timer
    BY <2>2, TickKeepsTypes DEF Timer
  <2>3. CASE Settings \/ Restart
    BY <2>3, OthersKeepTypes
  <2> QED BY <2>1, <2>2, <2>3 DEF Next
<1> QED BY <1>1, InitTypes, PTL DEF Spec

THEOREM RuleTypesHold == Spec => []TypeOK
<1>1. TypeInv => TypeOK
  BY DEF TypeInv
<1> QED BY <1>1, RuleTypes, PTL

----------------------------------------------------------------------------
(* Where an operation goes.                                                *)

\* Time passes at a tick only, and by less than a week.
LEMMA TimePasses ==
    ASSUME TypeInv, Next
    PROVE  \/ Elapsed = 0
           \/ \E n \in DOMAIN Worlds, dt \in Steps : RunRules(n, dt) /\ Elapsed = dt
<1>1. Week \in Nat \ {0} /\ clock \in 0..(Week - 1) /\ Steps \subseteq 1..(Week - 1)
  BY RulesAssumption DEF TypeInv, TypeOK
<1>2. CASE Timer
  <2>1. PICK n \in DOMAIN Worlds, dt \in Steps : RunRules(n, dt)
    BY <1>2 DEF Timer
  <2>2. clock' = (clock + dt) % Week /\ dt \in 1..(Week - 1)
    BY <1>1, <2>1, TickDoes DEF Now
  <2>3. (((clock + dt) % Week) - clock) % Week = dt
    <3>1. CASE clock + dt < Week
      <4>1. (clock + dt) % Week = clock + dt
        BY <1>1, <2>2, <3>1
      <4>2. (clock + dt) - clock = dt /\ dt % Week = dt
        BY <1>1, <2>2
      <4> QED BY <4>1, <4>2
    <3>2. CASE clock + dt >= Week
      <4>1. (clock + dt) % Week = clock + dt - Week
        BY <1>1, <2>2, <3>2
      <4>2. (clock + dt - Week) - clock = dt - Week /\ (dt - Week) % Week = dt
        BY <1>1, <2>2
      <4> QED BY <4>1, <4>2
    <3> QED BY <1>1, <2>2, <3>1, <3>2
  <2> QED BY <2>1, <2>2, <2>3 DEF Elapsed
<1>3. CASE Settings \/ Restart
  <2>1. clock' = clock
    BY <1>3, DialogDoes DEF Settings, Restart, OnSettings, Accept, Cancel
  <2>2. (clock - clock) % Week = 0
    BY <1>1
  <2> QED BY <2>1, <2>2 DEF Elapsed
<1> QED BY <1>2, <1>3 DEF Next

\* A rule is known by its identity.
LEMMA TextOfIs ==
    ASSUME TypeInv, NEW q \in ToSet(rules)
    PROVE  TextOf(q.id) = Texts[q.text]
<1>1. \A p \in ToSet(rules) : p.id = q.id => p = q
  BY ListsOf, EntriesOf
<1>2. (CHOOSE r \in ToSet(rules) : r.id = q.id) = q
  BY <1>1
<1> QED BY <1>2 DEF TextOf

\* An operation goes only where something the rule says holds: the dispatch,
\* which looks for the computer by its whole name, loses nothing of what the
\* rule found on a part of it, and never goes to all.
THEOREM SentOnlyWhereItHolds == Spec => SentWhereItHolds
<1> DEFINE A == \A a \in sent' : Elapsed # 0 =>
          LET r == TextOf(a.id)
          IN  IF a.task = 0
              THEN \E k \in DOMAIN r.cond :
                      Where(r, r.cond[k], World(last'), seen', clock') \cap
                          {a.computer, Blank} # {}
              ELSE LET task == World(last').tasks[a.task]
                   IN  /\ task.computer = a.computer
                       /\ a.computer \in Within[r.computer]
                       /\ \A k \in Given(r) : HoldsOf(r.cond[k], task, World(last),
                                                   Elapsed)
<1>1. ASSUME TypeInv, [Next]_vars
      PROVE  [A]_vars
  <2> SUFFICES ASSUME Next, Elapsed # 0, NEW s \in sent'
               PROVE  LET r == TextOf(s.id)
                      IN  IF s.task = 0
                          THEN \E k \in DOMAIN r.cond :
                                  Where(r, r.cond[k], World(last'), seen', clock') \cap
                                      {s.computer, Blank} # {}
                          ELSE LET task == World(last').tasks[s.task]
                               IN  /\ task.computer = s.computer
                                   /\ s.computer \in Within[r.computer]
                                   /\ \A k \in Given(r) :
                                         HoldsOf(r.cond[k], task, World(last), Elapsed)
    BY <1>1
  <2>1. PICK n \in DOMAIN Worlds, dt \in Steps : RunRules(n, dt) /\ Elapsed = dt
    BY <1>1, TimePasses
  <2>2. /\ clock' = Now(dt) /\ seen' = Ever(n) /\ last' = n
        /\ sent' = UNION {Dispatch(a, World(n)) : a \in Acts(n, dt)}
    BY <2>1, TickDoes
  <2>3. PICK a \in Acts(n, dt) : s \in Dispatch(a, World(n))
    BY <2>2
  <2>4. PICK h \in Addressed(a) : s = [id |-> a.id, computer |-> h, task |-> a.task]
    BY <2>3 DEF Dispatch
  <2>5. h = a.computer \/ a.computer = Blank
    BY <2>4 DEF Addressed
  <2>6. PICK q \in ToSet(rules) :
           /\ q \in Rule /\ a.id = q.id
           /\ \/ /\ a.task = 0
                 /\ \E k \in DOMAIN Texts[q.text].cond :
                       a.computer \in Where(Texts[q.text], Texts[q.text].cond[k],
                                            World(n), Ever(n), Now(dt))
              \/ /\ a.task \in Matching(Texts[q.text], World(n), World(last), dt)
                 /\ a.computer = World(n).tasks[a.task].computer
    BY <1>1, ActOf
  <2>7. TextOf(s.id) = Texts[q.text]
    BY <1>1, <2>4, <2>6, TextOfIs
  <2>8. World(last') = World(n) /\ s.task = a.task /\ s.computer = h
    BY <2>2, <2>4
  <2>9. /\ Len(World(n).tasks) \in Nat
        /\ DOMAIN World(n).tasks = 1..Len(World(n).tasks)
        /\ \A i \in DOMAIN World(n).tasks : World(n).tasks[i].computer \in Hosts
    BY WorldOK
  <2>10. CASE a.task = 0
    <3>1. a.task \notin DOMAIN World(n).tasks
      BY <2>9, <2>10
    <3>2. PICK k \in DOMAIN Texts[q.text].cond :
             a.computer \in Where(Texts[q.text], Texts[q.text].cond[k],
                                  World(n), Ever(n), Now(dt))
      BY <2>6, <3>1 DEF Matching, MatchesFields
    <3>3. Where(Texts[q.text], Texts[q.text].cond[k], World(last'), seen', clock')
             \cap {s.computer, Blank} # {}
      BY <2>2, <2>5, <2>8, <3>2
    <3> QED BY <2>7, <2>8, <2>10, <3>3
  <2>11. CASE a.task # 0
    <3>1. /\ a.task \in Matching(Texts[q.text], World(n), World(last), dt)
          /\ a.computer = World(n).tasks[a.task].computer
      BY <2>6, <2>11
    <3>2. /\ a.task \in DOMAIN World(n).tasks
          /\ a.computer \in Within[Texts[q.text].computer]
          /\ \A k \in Given(Texts[q.text]) :
                HoldsOf(Texts[q.text].cond[k], World(n).tasks[a.task], World(last), dt)
      BY <3>1 DEF Matching, MatchesFields
    <3>3. a.computer # Blank
      BY <2>9, <3>1, <3>2, RulesAssumption
    <3>4. h = a.computer
      BY <2>5, <3>3
    <3> QED BY <2>1, <2>7, <2>8, <2>11, <3>1, <3>2, <3>4
  <2> QED BY <2>10, <2>11
<1>2. TypeInv /\ [Next]_vars => [A]_vars
  BY <1>1
<1> QED BY <1>2, RuleTypes, PTL DEF Spec, SentWhereItHolds

----------------------------------------------------------------------------
(* How far apart firings lie.                                              *)

\* What remains of a rule's back-off makes up for the time since it fired.
MakesUp(q) == ago[q.id] < Never => q.left + ago[q.id] >= Backoff(Texts[q.text])

\* No rule waits for longer than its back-off; those of the engine, and those of
\* the copy that have not been touched, for no less than what remains of it.
SpacedInv ==
    /\ \A q \in ToSet(rules) \cup ToSet(copy) : q.left <= Backoff(Texts[q.text])
    /\ \A q \in ToSet(rules) : MakesUp(q)
    /\ \A q \in ToSet(copy) : q.id \notin touched => MakesUp(q)

\* What the entries of a list are.
LEMMA EntryOf ==
    ASSUME NEW rs, ListOK(rs), NEW q \in ToSet(rs)
    PROVE  /\ q \in Rule /\ q.left \in Nat /\ q.id \in Ids /\ q.text \in DOMAIN Texts
           /\ \E k \in DOMAIN rs : q = rs[k]
<1>1. PICK k \in DOMAIN rs : q = rs[k]
  BY DEF ToSet
<1>2. q \in Rule
  BY <1>1, EntriesOf
<1> QED BY <1>1, <1>2 DEF Rule

\* A tick takes from what remains what it adds to the time since.
LEMMA TickKeepsSpaced ==
    ASSUME TypeInv, SpacedInv, NEW n \in DOMAIN Worlds, NEW dt \in Steps, RunRules(n, dt)
    PROVE  SpacedInv'
<1>1. /\ ListOK(rules) /\ ListOK(copy)
      /\ ListOK(rules') /\ ListOK(copy')
      /\ DOMAIN rules' = DOMAIN rules /\ DOMAIN copy' = DOMAIN copy
      /\ dt \in Nat /\ Never \in Nat
      /\ ago \in [Ids -> 0..Never]
  <2>1. ListOK(rules) /\ ListOK(copy)
    BY ListsOf
  <2>2. /\ ListOK(rules') /\ ListOK(copy')
        /\ DOMAIN rules' = DOMAIN rules /\ DOMAIN copy' = DOMAIN copy
    BY TickLists
  <2>3. dt \in Nat /\ Never \in Nat /\ ago \in [Ids -> 0..Never]
    BY RulesAssumption DEF TypeInv, TypeOK
  <2> QED BY <2>1, <2>2, <2>3
<1>2. \A i \in Ids : ago'[i] = IF i \in IdsOf(n, dt) THEN 0
                              ELSE IF ago[i] + dt < Never THEN ago[i] + dt ELSE Never
  BY TickDoes
<1>3. ASSUME NEW r \in Rule, NEW q \in Rule, q.id = r.id, q.text = r.text,
             q.left = CountDown(r.left, dt), q.id \notin IdsOf(n, dt),
             r.left <= Backoff(Texts[r.text])
      PROVE  /\ q.left <= Backoff(Texts[q.text])
             /\ MakesUp(r) => (ago'[q.id] < Never =>
                                  q.left + ago'[q.id] >= Backoff(Texts[q.text]))
  <2>1. /\ r.left \in Nat /\ r.id \in Ids /\ r.text \in DOMAIN Texts
        /\ Backoff(Texts[r.text]) \in Nat /\ ago[r.id] \in 0..Never
    BY <1>1, BackoffOf DEF Rule
  <2>2. q.left \in Nat /\ q.left <= r.left /\ q.left + dt >= r.left
    <3>1. /\ CountDown(r.left, dt) \in Nat
          /\ CountDown(r.left, dt) <= r.left /\ CountDown(r.left, dt) + dt >= r.left
      BY ONLY <1>1, <2>1, CountDownOf
    <3> QED BY ONLY <1>3, <3>1
  <2>3. ago'[q.id] = IF ago[r.id] + dt < Never THEN ago[r.id] + dt ELSE Never
    BY <1>2, <1>3, <2>1
  <2> QED BY <1>1, <1>3, <2>1, <2>2, <2>3 DEF MakesUp
<1>4. ASSUME NEW q \in ToSet(rules')
      PROVE  /\ q.left <= Backoff(Texts[q.text])
             /\ ago'[q.id] < Never => q.left + ago'[q.id] >= Backoff(Texts[q.text])
  <2>1. PICK k \in DOMAIN rules : q = rules'[k]
    BY <1>1 DEF ToSet
  <2>2. /\ rules[k] \in Rule /\ q \in Rule /\ rules[k] \in ToSet(rules)
        /\ q.id = rules[k].id /\ q.text = rules[k].text
        /\ q.left = IF q.id \in IdsOf(n, dt) THEN Backoff(Texts[q.text])
                    ELSE CountDown(rules[k].left, dt)
    BY <1>1, <2>1, EntriesOf, TickLists DEF ToSet
  <2>3. CASE q.id \in IdsOf(n, dt)
    <3>1. ago'[q.id] = 0 /\ Backoff(Texts[q.text]) \in Nat
      BY <1>2, <2>2, <2>3, BackoffOf DEF Rule
    <3> QED BY <2>2, <2>3, <3>1
  <2>4. CASE q.id \notin IdsOf(n, dt)
    BY <1>3, <2>2, <2>4 DEF SpacedInv
  <2> QED BY <2>3, <2>4
<1>5. ASSUME NEW q \in ToSet(copy')
      PROVE  /\ q.left <= Backoff(Texts[q.text])
             /\ q.id \notin touched' =>
                   (ago'[q.id] < Never => q.left + ago'[q.id] >= Backoff(Texts[q.text]))
  <2>1. PICK k \in DOMAIN copy : q = copy'[k]
    BY <1>1 DEF ToSet
  <2>2. /\ copy[k] \in Rule /\ q \in Rule /\ copy[k] \in ToSet(copy)
        /\ q.id = copy[k].id /\ q.text = copy[k].text
        /\ q.left = CountDown(copy[k].left, dt)
    BY <1>1, <2>1, EntriesOf, TickLists DEF ToSet
  <2>3. touched' = touched \cup IdsOf(n, dt)
    <3>1. copy # <<>>
      <4>1. DOMAIN <<>> = {}
        BY EmptySeq
      <4> QED BY <2>1, <4>1
    <3>2. dialog
      BY <3>1 DEF TypeInv, TypeOK
    <3> QED BY <3>2, TickDoes
  <2>4. q.left <= Backoff(Texts[q.text])
    <3>1. copy[k].left <= Backoff(Texts[copy[k].text])
      BY <2>2 DEF SpacedInv
    <3>2. copy[k].left \in Nat /\ Backoff(Texts[copy[k].text]) \in Nat
      BY <2>2, BackoffOf DEF Rule
    <3>3. q.left \in Nat /\ q.left <= copy[k].left
      BY <1>1, <2>2, <3>2, CountDownOf
    <3> QED BY <2>2, <3>1, <3>2, <3>3
  <2>5. CASE q.id \notin touched'
    BY <1>3, <2>2, <2>3, <2>5 DEF SpacedInv
  <2> QED BY <2>4, <2>5
<1> QED BY <1>4, <1>5 DEF SpacedInv, MakesUp

\* The dialog is given what remains and gives it back, but for what it touched.
LEMMA OthersKeepSpaced ==
    ASSUME TypeInv, SpacedInv, Settings \/ Restart
    PROVE  SpacedInv'
<1>1. /\ ListOK(rules) /\ ListOK(copy)
      /\ ToSet(rules) \subseteq Rule /\ ToSet(copy) \subseteq Rule
      /\ Never \in Nat /\ ago \in [Ids -> 0..Never]
  BY ListsOf, RulesAssumption DEF TypeInv, TypeOK
<1>2. ToSet(<<>>) = {}
  BY EmptySeq DEF ToSet
<1>3. CASE OnSettings
  <2>1. copy' = rules /\ UNCHANGED <<rules, ago>>
    BY <1>3 DEF OnSettings
  <2> QED BY <2>1 DEF SpacedInv, MakesUp
<1>4. CASE Accept
  <2>1. /\ rules' = copy /\ copy' = <<>>
        /\ ago' = [i \in Ids |-> IF i \in touched THEN Never ELSE ago[i]]
    BY <1>4 DEF Accept
  <2>2. \A q \in ToSet(copy) :
           /\ q.left <= Backoff(Texts[q.text])
           /\ ago'[q.id] < Never => q.left + ago'[q.id] >= Backoff(Texts[q.text])
    <3> TAKE q \in ToSet(copy)
    <3>1. q.id \in Ids
      BY <1>1, EntryOf
    <3>2. ago'[q.id] = IF q.id \in touched THEN Never ELSE ago[q.id]
      BY <2>1, <3>1
    <3> QED BY <1>1, <3>2 DEF SpacedInv, MakesUp
  <2> QED BY <1>2, <2>1, <2>2 DEF SpacedInv, MakesUp
<1>5. CASE Cancel
  <2>1. copy' = <<>> /\ UNCHANGED <<rules, ago>>
    BY <1>5 DEF Cancel
  <2> QED BY <1>2, <2>1 DEF SpacedInv, MakesUp
<1>6. CASE \/ \E k \in DOMAIN copy : OnToggle(k) \/ OnCopy(k) \/ OnDelete(k)
           \/ \E text \in Offered, enabled \in BOOLEAN :
                 \/ OnAdd(text, enabled)
                 \/ \E k \in DOMAIN copy, named \in BOOLEAN :
                       OnEdit(k, text, named, enabled)
  <2>1. /\ ListOK(copy') /\ touched \subseteq touched'
        /\ \A q \in ToSet(copy') :
              \/ q.left = 0 /\ q.id \in touched'
              \/ \E p \in ToSet(copy) : /\ p.left = q.left /\ p.text = q.text
                                        /\ p.id = q.id \/ q.id \in touched'
        /\ UNCHANGED <<rules, ago>>
    BY <1>6, DialogDoes
  <2>2. ASSUME NEW q \in ToSet(copy')
        PROVE  /\ q.left <= Backoff(Texts[q.text])
               /\ q.id \notin touched' => MakesUp(q)
    <3>1. Backoff(Texts[q.text]) \in Nat
      BY <2>1, EntryOf, BackoffOf
    <3>2. CASE q.left = 0 /\ q.id \in touched'
      BY <3>1, <3>2
    <3>3. CASE \E p \in ToSet(copy) : /\ p.left = q.left /\ p.text = q.text
                                      /\ p.id = q.id \/ q.id \in touched'
      BY <2>1, <3>3 DEF SpacedInv, MakesUp
    <3> QED BY <2>1, <3>2, <3>3
  <2> QED BY <2>1, <2>2 DEF SpacedInv, MakesUp
<1>7. CASE Restart
  <2>1. /\ copy' = <<>> /\ ago' = [i \in Ids |-> Never]
        /\ \A q \in ToSet(rules') : q \in Rule /\ q.left = 0
    BY <1>7, LoadedIs DEF Restart
  <2>2. \A q \in ToSet(rules') :
           /\ q.left <= Backoff(Texts[q.text])
           /\ ~(ago'[q.id] < Never)
    BY <1>1, <2>1, BackoffOf DEF Rule
  <2> QED BY <1>2, <2>1, <2>2 DEF SpacedInv, MakesUp
<1> QED BY <1>3, <1>4, <1>5, <1>6, <1>7 DEF Settings

\* A list of one entry.
LEMMA OneOf ==
    ASSUME NEW r
    PROVE  ToSet(<<r>>) = {r}
<1>1. Len(<<r>>) = 1 /\ <<r>>[1] = r /\ DOMAIN <<r>> = 1..1
  OBVIOUS
<1> QED BY <1>1 DEF ToSet

\* Nothing has fired when the program starts.
LEMMA InitSpaced == Init => SpacedInv
<1> SUFFICES ASSUME Init PROVE SpacedInv
  OBVIOUS
<1>1. PICK text \in DOMAIN Texts, id \in Ids : rules = <<Edited(id, text, TRUE, TRUE)>>
  BY DEF Init
<1>2. \A q \in ToSet(rules) : q = Edited(id, text, TRUE, TRUE)
  BY <1>1, OneOf
<1>3. ToSet(copy) = {}
  BY EmptySeq DEF Init, ToSet
<1>4. Backoff(Texts[text]) \in Nat /\ Never \in Nat
  BY BackoffOf, RulesAssumption
<1>5. ASSUME NEW q \in ToSet(rules)
      PROVE  q.left <= Backoff(Texts[q.text]) /\ ~(ago[q.id] < Never)
  <2>1. q.left = 0 /\ q.text = text /\ q.id = id
    BY <1>2 DEF Edited
  <2>2. ago[id] = Never
    BY DEF Init
  <2> QED BY ONLY <1>4, <2>1, <2>2
<1> QED BY <1>3, <1>5 DEF SpacedInv, MakesUp

\* What remains of every back-off agrees with the time since, throughout.
THEOREM BackoffsAgree == Spec => []SpacedInv
<1>1. TypeInv /\ SpacedInv /\ [Next]_vars => SpacedInv'
  <2> SUFFICES ASSUME TypeInv, SpacedInv, [Next]_vars
               PROVE  SpacedInv'
    OBVIOUS
  <2>1. CASE UNCHANGED vars
    BY <2>1 DEF vars, SpacedInv, MakesUp
  <2>2. CASE Timer
    BY <2>2, TickKeepsSpaced DEF Timer
  <2>3. CASE Settings \/ Restart
    BY <2>3, OthersKeepSpaced
  <2> QED BY <2>1, <2>2, <2>3 DEF Next
<1> QED BY <1>1, InitSpaced, RuleTypes, PTL DEF Spec

\* Between two firings of a rule lies its back-off, however early or late the
\* ticks come and whatever is done meanwhile in the dialog.
THEOREM FiringsSpacedOut == Spec => SpacedOut
<1> DEFINE A == \A i \in fired' : Elapsed # 0 /\ ago[i] < Never =>
          /\ ago[i] + Elapsed >= Minute
          /\ TextOf(i).cond[1].type # "wallclock" =>
                /\ ago[i] + Elapsed >= TextOf(i).snooze * Minute
                /\ TextOf(i).snooze = 0 => ago[i] + Elapsed >= 5 * Minute
<1>1. ASSUME TypeInv, SpacedInv, [Next]_vars
      PROVE  [A]_vars
  <2> SUFFICES ASSUME Next, NEW i \in fired', Elapsed # 0, ago[i] < Never
               PROVE  /\ ago[i] + Elapsed >= Minute
                      /\ TextOf(i).cond[1].type # "wallclock" =>
                            /\ ago[i] + Elapsed >= TextOf(i).snooze * Minute
                            /\ TextOf(i).snooze = 0 => ago[i] + Elapsed >= 5 * Minute
    BY <1>1
  <2>1. PICK n \in DOMAIN Worlds, dt \in Steps : RunRules(n, dt) /\ Elapsed = dt
    BY <1>1, TimePasses
  <2>2. PICK a \in Acts(n, dt) : a.id = i
    BY <2>1, TickDoes DEF IdsOf
  <2>3. PICK q \in ToSet(rules) : q \in Rule /\ Armed(q, dt) /\ a.id = q.id
    BY <1>1, ActOf
  <2>4. /\ q.left \in Nat /\ q.text \in DOMAIN Texts /\ i \in Ids /\ i = q.id
        /\ dt \in Nat /\ Minute \in Nat /\ ago[i] \in Nat
    BY <1>1, <2>2, <2>3, RulesAssumption DEF Rule, TypeInv, TypeOK
  <2>5. q.left <= dt
    BY <2>3, <2>4 DEF Armed, CountDown
  <2>6. TextOf(i) = Texts[q.text]
    BY <1>1, <2>4, TextOfIs
  <2>7. q.left + ago[i] >= Backoff(Texts[q.text])
    BY <1>1, <2>4 DEF SpacedInv, MakesUp
  <2> DEFINE b == Backoff(Texts[q.text])
             m == Texts[q.text].snooze * Minute
  <2>8. /\ b \in Nat /\ b >= Minute /\ m \in Int
        /\ Texts[q.text].cond[1].type # "wallclock" =>
              /\ b >= m
              /\ Texts[q.text].snooze = 0 => b >= 5 * Minute
    <3>1. Texts[q.text].snooze \in Int
      BY <2>4, RulesAssumption
    <3> QED BY <2>4, <3>1, BackoffOf
  <2>9. ago[i] + dt >= b
    <3> HIDE DEF b
    <3> QED BY <2>4, <2>5, <2>7, <2>8 DEF b
  <2> HIDE DEF b
  <2>10. ago[i] + dt \in Nat /\ ago[i] + dt >= Minute
    BY <2>4, <2>8, <2>9
  <2>11. ASSUME Texts[q.text].cond[1].type # "wallclock"
         PROVE  /\ ago[i] + dt >= m
                /\ Texts[q.text].snooze = 0 => ago[i] + dt >= 5 * Minute
    <3> HIDE DEF m
    <3> QED BY <2>4, <2>8, <2>9, <2>10, <2>11
  <2> QED BY <2>1, <2>6, <2>10, <2>11
<1>2. TypeInv /\ SpacedInv /\ [Next]_vars => [A]_vars
  BY <1>1
<1> QED BY <1>2, RuleTypes, BackoffsAgree, PTL DEF Spec, SpacedOut

----------------------------------------------------------------------------
(* Intervals.                                                              *)

Length(i) == (i.stop - i.start) % Week

Since(i, t) == (t - i.start) % Week

\* A rule the intervals of which are looked after.
Watched(q) ==
    /\ q.enabled /\ Texts[q.text].event # "none" /\ q.id \notin unsettled
    /\ Texts[q.text].cond[1].type = "wallclock"
    /\ \A j \in Texts[q.text].intervals : ~j.inverted

\* Amid an interval a rule has fired, or will within a minute of its start.
IntervalInv ==
    \A q \in ToSet(rules) : \A i \in Texts[q.text].intervals :
        Watched(q) /\ Length(i) # 0 /\ Inside(i, clock) =>
            \/ ago[q.id] <= Since(i, clock)
            \/ q.left > 0 /\ q.left + Since(i, clock) <= Minute

\* Inside an interval is where less time has passed since its start than it is
\* long, before or beyond the end of the week.
LEMMA SinceIs ==
    ASSUME NEW i, NEW t \in 0..(Week - 1),
           i.start \in 0..(Week - 1), i.stop \in 0..Week, Length(i) # 0
    PROVE  /\ Since(i, t) \in 0..(Week - 1) /\ Length(i) \in 1..(Week - 1)
           /\ Inside(i, t) <=> Since(i, t) < Length(i)
<1>1. Week \in Nat \ {0}
  BY RulesAssumption
<1>2. Since(i, t) = IF i.start <= t THEN t - i.start ELSE t - i.start + Week
  <2>1. CASE i.start <= t
    BY <1>1, <2>1 DEF Since
  <2>2. CASE i.start > t
    <3>1. (t - i.start) % Week = t - i.start + Week
      BY <1>1, <2>2
    <3> QED BY <1>1, <2>2, <3>1 DEF Since
  <2> QED BY <1>1, <2>1, <2>2
<1>3. /\ i.stop # i.start /\ i.stop - i.start # Week
      /\ Length(i) = IF i.start <= i.stop THEN i.stop - i.start
                     ELSE i.stop - i.start + Week
  <2>1. CASE i.start <= i.stop /\ i.stop - i.start < Week
    <3>1. (i.stop - i.start) % Week = i.stop - i.start
      BY <1>1, <2>1
    <3> QED BY <1>1, <2>1, <3>1 DEF Length
  <2>2. CASE i.stop - i.start = Week
    <3>1. (i.stop - i.start) % Week = 0
      BY <1>1, <2>2
    <3> QED BY <3>1 DEF Length
  <2>3. CASE i.start > i.stop
    <3>1. (i.stop - i.start) % Week = i.stop - i.start + Week
      BY <1>1, <2>3
    <3> QED BY <1>1, <2>3, <3>1 DEF Length
  <2> QED BY <1>1, <2>1, <2>2, <2>3
<1> QED BY <1>1, <1>2, <1>3 DEF Inside

\* A tick moves an interval's time on, past the end of the week to its start.
LEMMA SinceMoves ==
    ASSUME NEW i, NEW t \in 0..(Week - 1), NEW dt \in 1..(Week - 1),
           i.start \in 0..(Week - 1)
    PROVE  /\ (t + dt) % Week \in 0..(Week - 1)
           /\ Since(i, (t + dt) % Week) =
                 IF Since(i, t) + dt < Week THEN Since(i, t) + dt
                 ELSE Since(i, t) + dt - Week
<1>1. Week \in Nat \ {0}
  BY RulesAssumption
<1>2. \A x \in 0..(Week - 1) :
         (x - i.start) % Week = IF i.start <= x THEN x - i.start ELSE x - i.start + Week
  <2> TAKE x \in 0..(Week - 1)
  <2>1. CASE i.start <= x
    BY <1>1, <2>1
  <2>2. CASE i.start > x
    <3>1. (x - i.start) % Week = x - i.start + Week
      BY <1>1, <2>2
    <3> QED BY <1>1, <2>2, <3>1
  <2> QED BY <1>1, <2>1, <2>2
<1>3. (t + dt) % Week = IF t + dt < Week THEN t + dt ELSE t + dt - Week
  <2>1. CASE t + dt < Week
    BY <1>1, <2>1
  <2>2. CASE t + dt >= Week
    <3>1. (t + dt) % Week = t + dt - Week
      BY <1>1, <2>2
    <3> QED BY <1>1, <2>2, <3>1
  <2> QED BY <1>1, <2>1, <2>2
<1>4. (t + dt) % Week \in 0..(Week - 1)
  BY <1>1, <1>3
<1>5. /\ Since(i, t) = IF i.start <= t THEN t - i.start ELSE t - i.start + Week
      /\ Since(i, (t + dt) % Week) =
            IF i.start <= (t + dt) % Week THEN ((t + dt) % Week) - i.start
            ELSE ((t + dt) % Week) - i.start + Week
  BY <1>2, <1>4 DEF Since
<1> QED BY <1>1, <1>3, <1>4, <1>5

\* An interval of a rule lies within the week.
LEMMA IntervalOf ==
    ASSUME NEW b \in DOMAIN Texts, NEW i \in Texts[b].intervals
    PROVE  i.start \in 0..(Week - 1) /\ i.stop \in 0..Week
BY RulesAssumption

\* A rule that starts with a time of the week fires when it is armed and the
\* time has come.
LEMMA FiresInTime ==
    ASSUME NEW n, NEW dt, NEW q \in ToSet(rules), q.text \in DOMAIN Texts,
           n \in DOMAIN Worlds,
           Armed(q, dt), Texts[q.text].cond[1].type = "wallclock",
           Texts[q.text].intervals # {},
           InAnyInterval(Texts[q.text].intervals, Now(dt))
    PROVE  q.id \in IdsOf(n, dt)
<1> DEFINE b == Texts[q.text]
<1>1. 1 \in DOMAIN b.cond
  BY CondsOf
<1>2. Where(b, b.cond[1], World(n), Ever(n), Now(dt)) # {}
  BY DEF Where
<1>3. Action(q.id, b, World(n), World(last), Ever(n), Now(dt), dt) # {}
  BY <1>1, <1>2, ActionWhere
<1>4. PICK a \in Action(q.id, b, World(n), World(last), Ever(n), Now(dt), dt) : TRUE
  BY <1>3
<1>5. a.id = q.id
  BY <1>4, ActionIs
<1>6. a \in Acts(n, dt)
  BY <1>4 DEF Acts, ActsOf, Ready
<1> QED BY <1>5, <1>6 DEF IdsOf

\* A rule put in place amid its interval is not watched.
LEMMA AmidUnwatched ==
    ASSUME NEW rs, NEW q \in ToSet(rs), NEW i \in Texts[q.text].intervals,
           \A j \in Texts[q.text].intervals : ~j.inverted, Inside(i, clock)
    PROVE  q.id \in Amid(rs)
<1>1. InAnyInterval(Texts[q.text].intervals, clock)
  BY DEF InAnyInterval
<1> QED BY <1>1 DEF Amid

\* A tick: a rule that does not fire amid its interval still waits, and then for
\* what is left of a minute that began no earlier than the interval.
LEMMA TickKeepsIntervals ==
    ASSUME TypeInv, SpacedInv, IntervalInv,
           NEW n \in DOMAIN Worlds, NEW dt \in Steps, RunRules(n, dt)
    PROVE  IntervalInv'
<1>1. /\ Week \in Nat \ {0} /\ Minute \in Nat /\ Never \in Nat /\ Never >= Week
      /\ dt \in 1..(Week - 1) /\ clock \in 0..(Week - 1)
      /\ ago \in [Ids -> 0..Never]
      /\ ListOK(rules) /\ ListOK(rules')
      /\ DOMAIN rules' = DOMAIN rules
  BY ListsOf, TickLists, RulesAssumption DEF TypeInv, TypeOK
<1> SUFFICES ASSUME NEW q \in ToSet(rules'), NEW i \in Texts[q.text].intervals,
                    Watched(q)', Length(i) # 0, Inside(i, clock')
             PROVE  \/ ago'[q.id] <= Since(i, clock')
                    \/ q.left > 0 /\ q.left + Since(i, clock') <= Minute
  BY DEF IntervalInv, Length, Since, Inside
<1>2. PICK k \in DOMAIN rules : q = rules'[k]
  BY <1>1 DEF ToSet
<1> DEFINE p == rules[k]
<1>3. /\ p \in ToSet(rules) /\ p.left \in Nat /\ p.id \in Ids /\ p.text \in DOMAIN Texts
      /\ q.id = p.id /\ q.text = p.text /\ q.enabled = p.enabled
      /\ q.left = IF p.id \in IdsOf(n, dt) THEN Backoff(Texts[p.text])
                  ELSE CountDown(p.left, dt)
  <2>1. p \in Rule /\ p \in ToSet(rules)
    BY <1>1, ListsOf DEF ToSet
  <2> QED BY <1>2, <2>1, TickLists DEF Rule
<1> HIDE DEF p
<1> DEFINE s  == Since(i, clock)
           s2 == Since(i, clock')
<1>4. /\ i.start \in 0..(Week - 1) /\ i.stop \in 0..Week
      /\ i \in Texts[p.text].intervals
  BY <1>3, IntervalOf
<1>5. clock' = Now(dt) /\ Now(dt) = (clock + dt) % Week
  BY TickDoes DEF Now
<1>6. /\ s \in 0..(Week - 1) /\ s2 \in 0..(Week - 1) /\ Length(i) \in 1..(Week - 1)
      /\ Inside(i, clock) <=> s < Length(i)
      /\ s2 < Length(i)
      /\ s2 = IF s + dt < Week THEN s + dt ELSE s + dt - Week
  <2>1. /\ clock' \in 0..(Week - 1)
        /\ s2 = IF s + dt < Week THEN s + dt ELSE s + dt - Week
    BY <1>1, <1>4, <1>5, SinceMoves
  <2> QED BY <1>1, <1>4, <2>1, SinceIs
<1>7. /\ p.enabled /\ Texts[p.text].event # "none" /\ q.id \notin unsettled'
      /\ Texts[p.text].cond[1].type = "wallclock"
      /\ \A j \in Texts[p.text].intervals : ~j.inverted
  BY <1>3 DEF Watched
<1>8. InAnyInterval(Texts[p.text].intervals, Now(dt))
  BY <1>4, <1>5, <1>7 DEF InAnyInterval
<1>9. p.id \notin unsettled
  <2>1. unsettled' = {j \in unsettled : \E m \in DOMAIN rules :
           /\ rules[m].id = j
           /\ InAnyInterval(Texts[rules[m].text].intervals, Now(dt))}
    BY TickDoes
  <2> QED BY <1>3, <1>7, <1>8, <2>1 DEF p
<1>10. ago'[p.id] = IF p.id \in IdsOf(n, dt) THEN 0
                    ELSE IF ago[p.id] + dt < Never THEN ago[p.id] + dt ELSE Never
  BY <1>3, TickDoes
<1>11. CASE p.id \in IdsOf(n, dt)
  BY <1>3, <1>6, <1>10, <1>11
<1>12. CASE p.id \notin IdsOf(n, dt)
  <2>1. CountDown(p.left, dt) # 0
    <3>1. ~Armed(p, dt)
      BY <1>3, <1>4, <1>7, <1>8, <1>12, FiresInTime
    <3> QED BY <1>7, <3>1 DEF Armed
  <2>2. p.left \in Nat /\ p.left > dt /\ q.left = p.left - dt
    <3>1. q.left = CountDown(p.left, dt)
      BY <1>3, <1>12
    <3> QED BY <1>1, <1>3, <2>1, <3>1 DEF CountDown
  <2>3. p.left <= Minute
    BY <1>3, <1>7, BackoffOf DEF SpacedInv
  <2>4. ago[p.id] \in 0..Never
    BY <1>1, <1>3
  <2> HIDE DEF s, s2
  <2>5. CASE s + dt >= Week
    <3>1. q.left > 0 /\ q.left + s2 <= Minute
      BY ONLY <1>1, <1>6, <2>2, <2>3, <2>5
    <3> QED BY <3>1 DEF s2
  <2>6. CASE s + dt < Week
    <3>1. s2 = s + dt /\ s < Length(i)
      BY ONLY <1>1, <1>6, <2>6
    <3>2. \/ ago[p.id] <= s
          \/ p.left > 0 /\ p.left + s <= Minute
      <4>1. Inside(i, clock)
        BY <1>6, <3>1
      <4>2. Watched(p)
        BY <1>7, <1>9 DEF Watched
      <4> QED BY <1>3, <1>4, <4>1, <4>2 DEF IntervalInv, s
    <3>3. CASE ago[p.id] <= s
      <4>1. ago[p.id] + dt < Never
        BY ONLY <1>1, <1>6, <2>4, <2>6, <3>3
      <4>2. ago'[p.id] <= s2
        BY ONLY <1>1, <1>6, <1>10, <1>12, <2>4, <3>1, <3>3, <4>1
      <4> QED BY <1>3, <4>2 DEF s2
    <3>4. CASE p.left > 0 /\ p.left + s <= Minute
      <4>1. q.left > 0 /\ q.left + s2 <= Minute
        BY ONLY <1>1, <1>6, <2>2, <3>1, <3>4
      <4> QED BY <4>1 DEF s2
    <3> QED BY <3>2, <3>3, <3>4
  <2> QED BY <1>1, <1>6, <2>5, <2>6
<1> QED BY <1>11, <1>12

\* The dialog and a restart leave the rules as they were, or put rules in place
\* that are not watched amid their intervals.
LEMMA OthersKeepIntervals ==
    ASSUME TypeInv, IntervalInv, Settings \/ Restart
    PROVE  IntervalInv'
<1>1. CASE UNCHANGED <<rules, clock, ago, unsettled>>
  BY <1>1 DEF IntervalInv, Watched, Length, Since, Inside
<1>2. CASE clock' = clock /\ unsettled' = Amid(rules')
  <2> SUFFICES ASSUME NEW q \in ToSet(rules'), NEW i \in Texts[q.text].intervals,
                      Watched(q)', Inside(i, clock')
               PROVE  FALSE
    BY DEF IntervalInv, Length, Since, Inside
  <2>1. q.id \notin unsettled' /\ \A j \in Texts[q.text].intervals : ~j.inverted
    BY DEF Watched
  <2>2. Inside(i, clock)
    BY <1>2
  <2> QED BY <1>2, <2>1, <2>2, AmidUnwatched
<1>3. CASE Accept \/ Restart
  BY <1>2, <1>3 DEF Accept, Restart
<1>4. CASE Settings /\ ~Accept
  BY <1>1, <1>4 DEF Settings, OnSettings, Cancel, OnToggle, OnAdd, OnEdit, OnCopy,
                    OnDelete, Change
<1> QED BY <1>3, <1>4

\* Amid its interval a rule has fired or is about to, throughout.
THEOREM IntervalsServed == Spec => []IntervalInv
<1>1. Init => IntervalInv
  <2> SUFFICES ASSUME Init, NEW q \in ToSet(rules), NEW i \in Texts[q.text].intervals,
                      Watched(q), Inside(i, clock)
               PROVE  FALSE
    BY DEF IntervalInv
  <2>1. q.id \notin unsettled /\ \A j \in Texts[q.text].intervals : ~j.inverted
    BY DEF Watched
  <2>2. unsettled = Amid(rules)
    BY DEF Init
  <2> QED BY <2>1, <2>2, AmidUnwatched
<1>2. TypeInv /\ SpacedInv /\ IntervalInv /\ [Next]_vars => IntervalInv'
  <2> SUFFICES ASSUME TypeInv, SpacedInv, IntervalInv, [Next]_vars
               PROVE  IntervalInv'
    OBVIOUS
  <2>1. CASE UNCHANGED vars
    BY <2>1 DEF vars, IntervalInv, Watched, Length, Since, Inside
  <2>2. CASE Timer
    BY <2>2, TickKeepsIntervals DEF Timer
  <2>3. CASE Settings \/ Restart
    BY <2>3, OthersKeepIntervals
  <2> QED BY <2>1, <2>2, <2>3 DEF Next
<1> QED BY <1>1, <1>2, RuleTypes, BackoffsAgree, PTL DEF Spec

\* No interval long enough for a back-off and the latest of the ticks ends
\* without its rule having fired in it.
THEOREM NoIntervalUnnoticed == Spec => NoIntervalMissed
<1> DEFINE A == \A q \in ToSet(rules) : \A i \in Texts[q.text].intervals :
          (/\ Elapsed # 0
           /\ q.enabled /\ Texts[q.text].event # "none" /\ q.id \notin unsettled
           /\ Texts[q.text].cond[1].type = "wallclock"
           /\ \A j \in Texts[q.text].intervals : ~j.inverted
           /\ (i.stop - i.start) % Week >= Minute + Longest
           /\ Inside(i, clock) /\ ~Inside(i, clock'))
          => ago[q.id] <= (clock - i.start) % Week
<1>1. ASSUME TypeInv, IntervalInv, [Next]_vars
      PROVE  [A]_vars
  <2> SUFFICES ASSUME Next, NEW q \in ToSet(rules), NEW i \in Texts[q.text].intervals,
                      Elapsed # 0, Watched(q), Length(i) >= Minute + Longest,
                      Inside(i, clock), ~Inside(i, clock')
               PROVE  ago[q.id] <= Since(i, clock)
    BY <1>1 DEF Watched, Length, Since
  <2>1. PICK n \in DOMAIN Worlds, dt \in Steps : RunRules(n, dt)
    BY <1>1, TimePasses
  <2>2. /\ Week \in Nat \ {0} /\ Minute \in Nat /\ clock \in 0..(Week - 1)
        /\ Steps \subseteq 1..(Week - 1) /\ Steps \subseteq Nat
        /\ dt \in 1..(Week - 1)
    BY <1>1, RulesAssumption DEF TypeInv, TypeOK
  <2>3. Longest \in Nat /\ dt <= Longest
    <3>1. Week - 1 \in Nat /\ \A d \in Steps : d <= Week - 1
      BY <2>2
    <3>2. \E d \in Steps : \A m \in Steps : m <= d
      BY <2>2, <3>1, Greatest
    <3>3. Longest \in Steps /\ \A m \in Steps : m <= Longest
      BY <3>2 DEF Longest
    <3> QED BY <2>2, <3>3
  <2>4. q.left \in Nat /\ i.start \in 0..(Week - 1) /\ i.stop \in 0..Week
    <3>1. q \in Rule
      BY <1>1, ListsOf
    <3> QED BY <3>1, IntervalOf DEF Rule
  <2>5. Length(i) \in Int /\ Length(i) # 0
    <3>1. Length(i) \in Int
      BY <2>2, <2>4 DEF Length
    <3> QED BY <2>2, <2>3, <3>1
  <2> DEFINE s  == Since(i, clock)
             s2 == Since(i, clock')
  <2>6. /\ s \in 0..(Week - 1) /\ s2 \in 0..(Week - 1) /\ Length(i) \in 1..(Week - 1)
        /\ s < Length(i) /\ ~(s2 < Length(i))
        /\ s2 = IF s + dt < Week THEN s + dt ELSE s + dt - Week
    <3>1. clock' = (clock + dt) % Week
      BY <2>1, TickDoes DEF Now
    <3>2. /\ clock' \in 0..(Week - 1)
          /\ s2 = IF s + dt < Week THEN s + dt ELSE s + dt - Week
      BY <2>2, <2>4, <3>1, SinceMoves
    <3> QED BY <2>2, <2>4, <2>5, <3>2, SinceIs
  <2>7. \/ ago[q.id] <= s
        \/ q.left > 0 /\ q.left + s <= Minute
    BY <1>1, <2>5 DEF IntervalInv
  <2> HIDE DEF s, s2
  <2>8. ~(q.left > 0 /\ q.left + s <= Minute)
    BY ONLY <2>2, <2>3, <2>4, <2>6, Length(i) >= Minute + Longest
  <2> QED BY <2>7, <2>8 DEF s
<1>2. TypeInv /\ IntervalInv /\ [Next]_vars => [A]_vars
  BY <1>1
<1> QED BY <1>2, RuleTypes, IntervalsServed, PTL DEF Spec, NoIntervalMissed
=============================================================================
