------------------------------ MODULE MCFleet ------------------------------
(* Values for the constants of Fleet. *)
EXTENDS Fleet, TLC

CONSTANTS e1, e2, n1, n2, localhost, remote

MCEntries == {e1, e2}
MCNames   == {n1, n2}
MCEntry   == {e1}
MCLocal   == {localhost}
MCAddrs   == {localhost, remote}

Interchangeable == Permutations(MCEntries) \cup Permutations(MCNames)
=============================================================================
