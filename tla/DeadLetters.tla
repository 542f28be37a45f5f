----------------------------- MODULE DeadLetters -----------------------------
(***************************************************************************)
(* core/redis_stream.py, DeadLetterQueue: the stream of the dead letters.  *)
(* push adds a letter; replay reads one batch for the group dlq_replayer   *)
(* under a new consumer name and adds each letter to the target stream.    *)
(* Nothing in the class creates the group, reads its pending letters or    *)
(* claims them.                                                            *)
(***************************************************************************)
EXTENDS RedisStream

VARIABLES
    copies,    \* history: how often each letter is on the target stream
    unsent     \* history: letters that target_stream.add did not add

letterVars == <<eventVars, copies, unsent>>

LettersInit ==
    /\ StreamInit
    /\ copies = [m \in Messages |-> 0]
    /\ unsent = {}

Sent(m) == copies' = [copies EXCEPT ![m] = @ + 1]

\* _replay_handler: target_stream.add answers None when the call fails, applied
\* or not; the letter counts as replayed, and consume acknowledges it.
ReplayOne(c) ==
    /\ Accept(c)
    /\ \/ Sent(Head(batch[c])) /\ UNCHANGED <<unsent, errors>>
       \/ Sent(Head(batch[c])) /\ UNCHANGED unsent /\ Fault
       \/ unsent' = unsent \union {Head(batch[c])} /\ UNCHANGED copies /\ Fault

\* A call of replay that begins, ends its batch or dies; a new one has a new name.
ReplayStep(c) == (Read(c) \/ Ack(c) \/ Crash(c)) /\ UNCHANGED <<copies, unsent>>

LettersNext ==
    \/ (Add \/ Trim \/ CreateGroup(0)) /\ UNCHANGED <<copies, unsent>>
    \/ \E c \in Consumers : ReplayStep(c) \/ ReplayOne(c)

LettersSpec == LettersInit /\ [][LettersNext]_letterVars

-----------------------------------------------------------------------------
\* A letter that the group has passed over and that is neither on the target
\* stream nor in a replayer's hands was dropped by a failing call or a crash; the
\* silent failure of add is the only one that also takes it off the pending list.
LeftBehindNeedsFault ==
    \A m \in start + 1..cursor :
        \/ copies[m] = 1
        \/ \E c \in Consumers : m \in ToSet(batch[c])
        \/ m < first
        \/ pending[m] # NoConsumer /\ errors + crashes > 0
        \/ m \in unsent

=============================================================================
