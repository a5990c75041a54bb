--------------------------- MODULE MCLockPrograms ---------------------------
EXTENDS LockPrograms

\* The two transfers of deadlock.c, and two of which the second may not go through.
MCTransfers == {<<[from |-> 1, to |-> 2, amount |-> 2], [from |-> 2, to |-> 1, amount |-> 2]>>,
                <<[from |-> 1, to |-> 2, amount |-> 2], [from |-> 1, to |-> 2, amount |-> 2]>>}
MCSizes == <<1, 2, 4>>
MCPrograms == {"deadlock", "file_scope", "hash_logger", "matrix", "condition", "counter", "list"}
=============================================================================
