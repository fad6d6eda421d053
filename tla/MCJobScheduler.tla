----------------------------- MODULE MCJobScheduler -----------------------------
(***************************************************************************)
(* TLC instances of JobScheduler.  JobScheduler.cfg has two runs of the    *)
(* job in flight on one replica, JobRetryLost.cfg a third on another one.  *)
(***************************************************************************)
EXTENDS JobScheduler, TLC

CONSTANTS a1, a2, b1, A, B

MCHome == [w \in Workers |-> IF w = b1 THEN B ELSE A]

ChainSymmetry == Permutations(Chains)

\* The part of the job's runs in which replicas do not stop.
NoStopNext ==
    JobNext /\ \A w \in Workers : pc'[w] # "down"

NoStopSpec == JobInit /\ [][NoStopNext]_vars
=============================================================================
