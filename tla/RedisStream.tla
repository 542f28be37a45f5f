----------------------------- MODULE RedisStream -----------------------------
(***************************************************************************)
(* core/redis_stream.py, RedisStream: one stream with one consumer group.  *)
(* Consumers read batches of messages that are new to the group, call a    *)
(* callback for each and acknowledge those it accepts; claim_pending hands *)
(* messages that stay unacknowledged to another caller.  A message is its  *)
(* position in the stream.                                                 *)
(***************************************************************************)
EXTENDS Faults, Integers, Sequences, SequencesExt, FiniteSetsExt

CONSTANTS
    Consumers,     \* consumer names, each used by one thread
    NoConsumer,    \* not pending
    BatchSize,     \* consume's batch_size
    ClaimCount,    \* claim_pending's count
    MaxLen,        \* self._max_len
    MaxMessages    \* bound: messages added

ASSUME StreamAssumption ==
    /\ NoConsumer \notin Consumers
    /\ BatchSize \in Nat \ {0}
    /\ MaxLen \in Nat
    /\ MaxMessages \in Nat

Messages == 1..MaxMessages

VARIABLES
    last,      \* the newest message, 0 at first
    first,     \* the oldest message that is not trimmed
    group,     \* the consumer group exists
    start,     \* history: the group is meant to see the messages after this one
    cursor,    \* its last-delivered-id
    pending,   \* its pending entries list: the consumer each message is with
    turn,      \* where each consumer is in _consume_batch
    batch,     \* the messages it has read and not finished
    handled    \* history: messages a callback has accepted

streamVars == <<last, first>>
groupVars == <<group, start, cursor>>
eventVars == <<last, first, group, start, cursor, pending, turn, batch, handled,
               errors, crashes>>

StreamInit ==
    /\ last = 0
    /\ first = 1
    /\ group = FALSE
    /\ start = 0
    /\ cursor = 0
    /\ pending = [m \in Messages |-> NoConsumer]
    /\ turn = [c \in Consumers |-> "read"]
    /\ batch = [c \in Consumers |-> <<>>]
    /\ handled = {}
    /\ NoFaults

TurnTo(c, place) == turn' = [turn EXCEPT ![c] = place]

-----------------------------------------------------------------------------
\* xadd, with or without its reply; it trims what is beyond max_len, now or
\* later ("approximate").
Add ==
    /\ last < MaxMessages
    /\ last' = last + 1
    /\ UNCHANGED errors \/ Fault
    /\ UNCHANGED <<first, groupVars, pending, turn, batch, handled, crashes>>

Trim ==
    /\ last - first >= MaxLen
    /\ first' = first + 1
    /\ UNCHANGED <<last, groupVars, pending, turn, batch, handled, errors, crashes>>

\* xgroup_create with id "0" or "$"; if the group exists, BUSYGROUP is taken
\* for success and nothing changes.
CreateGroup(id) ==
    /\ ~group
    /\ id \in {0, last}
    /\ group' = TRUE
    /\ start' = id
    /\ cursor' = id
    /\ UNCHANGED errors \/ Fault
    /\ UNCHANGED <<streamVars, pending, turn, batch, handled, crashes>>

-----------------------------------------------------------------------------
(***************************************************************************)
(* _consume_batch                                                          *)
(***************************************************************************)

\* The messages that XREADGROUP ">" delivers: the next ones that are not trimmed.
FirstNew == IF cursor < first THEN first ELSE cursor + 1
LastNew == IF last - FirstNew < BatchSize THEN last ELSE FirstNew + BatchSize - 1
NextBatch == [i \in 1..LastNew - FirstNew + 1 |-> FirstNew + i - 1]

\* Mutant of Read: XREADGROUP with NOACK.
ReadNoAck(c) ==
    /\ turn[c] = "read"
    /\ group
    /\ FirstNew <= last
    /\ cursor' = LastNew
    /\ batch' = [batch EXCEPT ![c] = NextBatch]
    /\ TurnTo(c, "call")
    /\ UNCHANGED <<streamVars, group, start, pending, handled, errors, crashes>>

\* They become pending with this consumer; a lost reply leaves them there.
\* (Without a group, or without new messages, the call returns 0.)
Read(c) ==
    /\ turn[c] = "read"
    /\ group
    /\ FirstNew <= last
    /\ cursor' = LastNew
    /\ pending' = [m \in Messages |-> IF m \in FirstNew..LastNew THEN c ELSE pending[m]]
    /\ \/ /\ batch' = [batch EXCEPT ![c] = NextBatch]
          /\ TurnTo(c, "call")
          /\ UNCHANGED errors
       \/ /\ UNCHANGED <<batch, turn>>
          /\ Fault
    /\ UNCHANGED <<streamVars, group, start, handled, crashes>>

\* One message is finished with.
NextMessage(c) ==
    /\ batch' = [batch EXCEPT ![c] = Tail(@)]
    /\ TurnTo(c, IF Len(batch[c]) = 1 THEN "read" ELSE "call")

\* The callback returns a true value,
Accept(c) ==
    /\ turn[c] = "call"
    /\ handled' = handled \union {Head(batch[c])}
    /\ TurnTo(c, "ack")
    /\ UNCHANGED <<streamVars, groupVars, pending, batch, crashes>>

CallbackAccepts(c) == Accept(c) /\ UNCHANGED errors

\* Mutant of CallbackFails: the message is acknowledged all the same.
FailedIsAcked(c) ==
    /\ turn[c] = "call"
    /\ pending' = [pending EXCEPT ![Head(batch[c])] = NoConsumer]
    /\ NextMessage(c)
    /\ UNCHANGED <<streamVars, groupVars, handled, errors, crashes>>

\* or a false one, or raises: the message is logged and stays pending.
CallbackFails(c) ==
    /\ turn[c] = "call"
    /\ NextMessage(c)
    /\ UNCHANGED <<streamVars, groupVars, pending, handled, errors, crashes>>

\* xack, whoever the message is pending with by now.  Its failure is treated
\* like the callback's.
Acknowledged(m) == pending' = [pending EXCEPT ![m] = NoConsumer]

Ack(c) ==
    /\ turn[c] = "ack"
    /\ \/ Acknowledged(Head(batch[c])) /\ UNCHANGED errors
       \/ Acknowledged(Head(batch[c])) /\ Fault
       \/ UNCHANGED pending /\ Fault
    /\ NextMessage(c)
    /\ UNCHANGED <<streamVars, groupVars, handled, crashes>>

-----------------------------------------------------------------------------
\* claim_pending: of the first ClaimCount pending messages those that were
\* delivered long enough ago (any of them may have been) and that still have
\* their data go to c, whose caller works on them and accepts some.  The class
\* offers that caller nothing to acknowledge them with.
Unacked == {m \in Messages : pending[m] # NoConsumer}

Claimable == {m \in Unacked : m >= first /\ Quantify(Unacked, LAMBDA k : k < m) < ClaimCount}

Claim(c) ==
    /\ \E S \in SUBSET Claimable : \E H \in SUBSET S :
        /\ pending' = [m \in Messages |-> IF m \in S THEN c ELSE pending[m]]
        /\ handled' = handled \union H
    /\ UNCHANGED <<streamVars, groupVars, turn, batch, errors, crashes>>

\* A consumer dies and is started again under its name.
Crash(c) ==
    /\ batch[c] # <<>>
    /\ Death
    /\ batch' = [batch EXCEPT ![c] = <<>>]
    /\ TurnTo(c, "read")
    /\ UNCHANGED <<streamVars, groupVars, pending, handled, errors>>

ConsumerStep(c) == Read(c) \/ CallbackAccepts(c) \/ CallbackFails(c) \/ Ack(c)

StreamNext ==
    \/ Add \/ Trim
    \/ \E id \in 0..last : CreateGroup(id)
    \/ \E c \in Consumers : ConsumerStep(c) \/ Claim(c) \/ Crash(c)

StreamSpec == StreamInit /\ [][StreamNext]_eventVars

-----------------------------------------------------------------------------
(***************************************************************************)
(* Properties                                                              *)
(***************************************************************************)

\* The group never loses sight of a message: one that the group is meant to
\* see and no callback has accepted is still to be delivered or is pending,
\* whatever consumers crash, claim and fail, unless it was trimmed unread.
UnhandledStaysPending ==
    group => \A m \in start + 1..last :
        m \in handled \/ m > cursor \/ pending[m] # NoConsumer \/ m < first

==============================================================================
