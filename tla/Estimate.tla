-------------------------------- MODULE Estimate --------------------------------
(***************************************************************************)
(* BtWallClockRemaining (bt_estimate.cpp): how long a computer is busy with *)
(* a set of tasks.  A span is <<n, d>>, n units of time divided by d; what *)
(* a task occupies is in hundredths of a processor.                         *)
(***************************************************************************)
EXTENDS Integers, FiniteSets, FiniteSetsExt

Leq(s, t) == s[1] * t[2] <= t[1] * s[2]
Later(s, t) == IF Leq(s, t) THEN t ELSE s

AtLeast(n, m) == IF m < n THEN n ELSE m

Unknown == <<-1, 1>>

\* The processors BOINC may use: one at least, if their number is known.
Slots(cap) ==
    IF cap.ncpus = 0 THEN 0 ELSE AtLeast(1, (cap.ncpus * cap.maxNcpusPct) \div 100)

OnGpu(t)       == t.useGpus > 0
Unfinished(ts) == {t \in ts : t.timeLeft > 0}
CpuTasks(ts)   == {t \in Unfinished(ts) : ~OnGpu(t)}
GpuTasks(ts)   == {t \in Unfinished(ts) : OnGpu(t)}
GpuRunning(ts) == {t \in ts : t.running /\ OnGpu(t)}

Work(ts)    == MapThenSumSet(LAMBDA t : t.timeLeft, ts)
Longest(ts) == Max({0} \cup {t.timeLeft : t \in ts})

\* What tasks occupy; unknown counts as given.
Used(ts, given) ==
    MapThenSumSet(LAMBDA t : IF t.useCpus > 0 THEN t.useCpus ELSE given, ts)

\* Mutant: the processors GPU tasks hold are counted, too.
CpuConcurrentUnreserved(ts, cap) ==
    LET count == Cardinality(CpuTasks(ts))
    IN  AtLeast(1, (100 * Slots(cap) * count) \div AtLeast(count, Used(CpuTasks(ts), 100)))

\* What is left of the processors beside the GPU tasks that run, divided by
\* what a CPU task occupies on average.
CpuConcurrent(ts, cap) ==
    LET free  == AtLeast(0, 100 * Slots(cap) - Used(GpuRunning(ts), 0))
        each  == Used(CpuTasks(ts), 100)
        count == Cardinality(CpuTasks(ts))
    IN  AtLeast(1, (free * count) \div AtLeast(count, each))

\* As many GPU tasks as run now.
GpuConcurrent(ts) == AtLeast(1, Cardinality(GpuRunning(ts)))

CpuSpan(ts, cap) ==
    IF CpuTasks(ts) = {} THEN <<0, 1>>
    ELSE <<Work(CpuTasks(ts)), CpuConcurrent(ts, cap)>>

GpuSpan(ts) == <<Work(GpuTasks(ts)), GpuConcurrent(ts)>>

\* Until the slower pool is through, and the longest task.
Busy(ts, cap) == Later(Later(CpuSpan(ts, cap), GpuSpan(ts)), <<Longest(ts), 1>>)

WallClockRemaining(ts, cap) ==
    IF Slots(cap) = 0 \/ Longest(ts) = 0 THEN Unknown
    ELSE IF cap.cpuUsageLimit > 0 /\ cap.cpuUsageLimit < 100
    THEN <<100 * Busy(ts, cap)[1], cap.cpuUsageLimit * Busy(ts, cap)[2]>>
    ELSE Busy(ts, cap)
=============================================================================
