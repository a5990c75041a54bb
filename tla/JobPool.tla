------------------------------ MODULE JobPool ------------------------------
(***************************************************************************)
(* What a thread pool promises its clients: a job is started at most once, *)
(* in the order in which the jobs were queued, and at most Capacity jobs   *)
(* run at a time.  Pool3430 and ThrPool implement it.                      *)
(***************************************************************************)
EXTENDS Naturals, Sequences, FiniteSets

CONSTANTS Jobs, Capacity

VARIABLES pending,   \* the jobs that have been queued and not started
          executing, \* the jobs that are being run
          ended      \* the jobs that have been run

poolVars == <<pending, executing, ended>>

PoolInit == pending = <<>> /\ executing = {} /\ ended = {}

Pending == {pending[n] : n \in DOMAIN pending}

Submit(j) ==
    /\ j \notin Pending \cup executing \cup ended
    /\ pending' = Append(pending, j)
    /\ UNCHANGED <<executing, ended>>

Begin ==
    /\ pending # <<>>
    /\ Cardinality(executing) < Capacity
    /\ executing' = executing \cup {Head(pending)}
    /\ pending' = Tail(pending)
    /\ UNCHANGED ended

End(j) ==
    /\ j \in executing
    /\ executing' = executing \ {j}
    /\ ended' = ended \cup {j}
    /\ UNCHANGED pending

PoolNext == Begin \/ \E j \in Jobs : Submit(j) \/ End(j)

PoolSpec == PoolInit /\ [][PoolNext]_poolVars
=============================================================================
