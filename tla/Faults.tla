-------------------------------- MODULE Faults --------------------------------
(***************************************************************************)
(* What the modules about core/redis_transaction.py and those about        *)
(* core/redis_stream.py have in common: the failures a run allows.  A call *)
(* to Redis raises, or a process dies.                                     *)
(***************************************************************************)
EXTENDS Naturals

CONSTANTS
    MaxErrors,    \* bound: Redis calls that fail
    MaxCrashes    \* bound: processes that die

VARIABLES
    errors,    \* Redis calls that failed so far
    crashes    \* deaths so far

NoFaults == errors = 0 /\ crashes = 0

Fault == errors < MaxErrors /\ errors' = errors + 1
Death == crashes < MaxCrashes /\ crashes' = crashes + 1
===============================================================================
