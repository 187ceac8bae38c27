------------------------------- MODULE MCTasks -------------------------------
(* Values for the constants of Tasks. *)
EXTENDS Tasks

T(name, computer, status, left, useCpus, useGpus) ==
    [name |-> name, computer |-> computer, status |-> status, timeLeft |-> left,
     running |-> status = 1, useCpus |-> useCpus, useGpus |-> useGpus]
Poll(tasks, connected) == [tasks |-> tasks, connected |-> connected]

\* Status 1 is running, 2 waiting.  The first poll has a task 2 of two computers, the
\* second a GPU task that leaves one processor of three, the last two that leave none.
MCPolls ==
    { Poll(<<T(2, 1, 1, 6, 100, 0), T(1, 1, 1, 4, 100, 0), T(3, 1, 2, 3, 100, 0),
             T(2, 3, 1, 5, 0, 0)>>, {1, 2, 3}),
      Poll(<<T(7, 1, 1, 6, 200, 100), T(3, 1, 1, 3, 100, 0), T(5, 1, 1, 4, 100, 0),
             T(4, 2, 2, 5, 0, 0)>>, {1, 2}),
      Poll(<<T(5, 1, 1, 4, 200, 0), T(6, 1, 1, 2, 200, 100), T(7, 1, 1, 1, 200, 100),
             T(4, 2, 2, 0, 0, 0)>>, {1}) }

Capacity(ncpus, pct, limit) ==
    [ncpus |-> ncpus, maxNcpusPct |-> pct, cpuUsageLimit |-> limit]

\* The third is not told how many processors it has.
MCCaps == <<Capacity(3, 100, 100), Capacity(2, 25, 50), Capacity(0, 100, 50)>>
=============================================================================
