------------------------------ MODULE NqpMutex ------------------------------
(***************************************************************************)
(* The spin lock of src/Erebor/nqp_thread_locks.c: one mutex, which is one *)
(* atomic_flag.  The operators are its calls; NqpCounter (kernel threads)  *)
(* and NqpListInsertion (threads of the library) make them.                *)
(***************************************************************************)

VARIABLE flag   \* "none", "clear" or "set"; "freed" once it is destroyed

mutex_init == flag' = "clear"

\* Mutant: the result of the test and set is thrown away.
test_and_set_ignored == flag \in {"clear", "set"} /\ flag' = "set"

\* nqp_thread_mutex_lock returns: its test and set has found the flag clear.
test_and_set == flag = "clear" /\ flag' = "set"

\* One turn of the spin loop.  spin_count only counts itself back to 0: the
\* nqp_yield it is there for is commented out (nqp_thread_locks.c:67).
spin == flag = "set" /\ UNCHANGED flag

\* Mutant: the flag is not cleared.
mutex_unlock_kept == UNCHANGED flag

mutex_unlock == flag' = "clear"

mutex_destroy == flag' = "freed"
=============================================================================
