--------------------------- MODULE NqpRoundRobin ---------------------------
(***************************************************************************)
(* NqpThread with a history variable that counts, for each thread that     *)
(* waits for the CPU, how often the ring search of nqp_yield has given it  *)
(* to each other thread since.                                             *)
(***************************************************************************)
EXTENDS NqpThread

\* waited[t][u]: the turns u has had since t waits.
VARIABLE waited

Unpassed == [u \in Threads |-> 0]

RRInit == Init /\ waited = [t \in Threads |-> Unpassed]

\* Every change of current_thread is a dispatch.  The counts are cut off at 2,
\* more than BypassBound allows.
CountWait ==
    waited' = IF current_thread' = current_thread
              THEN waited
              ELSE [t \in Threads |->
                      IF t \in (Created \ finished)' \ {current_thread'}
                      THEN [waited[t] EXCEPT ![current_thread'] = Min({@ + 1, 2})]
                      ELSE Unpassed]

RRNext == Next /\ CountWait

RRSpec == RRInit /\ [][RRNext]_<<vars, waited>>
FairRRSpec == RRSpec /\ WF_<<vars, waited>>(RRNext)

\* Between two turns of a thread each other thread has at most one, also when
\* threads finish, or are created, in between.
BypassBound == \A t \in Created \ finished, u \in Threads : waited[t][u] <= 1

=============================================================================
