----------------------------- MODULE MCRaftCluster -----------------------------
(* The bounds of RaftCluster's runs: one election too many in each program, in  *)
(* wal-restart before main has found the first leader.                        *)
EXTENDS RaftCluster

MCMaxDeposed == [p \in Programs |-> 1]
MCDeposing == [p \in Programs |-> IF p = "raft" THEN 1..Len(RaftMain) ELSE {1}]
================================================================================
