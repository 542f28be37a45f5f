------------------------------- MODULE Outbox -------------------------------
(***************************************************************************)
(* core/redis_transaction.py, TransactionalOutbox: publish() appends a     *)
(* message to a Redis list; background tasks call dispatch(), which pops   *)
(* messages and hands them to a sender.  Several tasks may dispatch at     *)
(* once; the sender (the message queue's client) is the caller's.          *)
(***************************************************************************)
EXTENDS Faults, Sequences, FiniteSets

CONSTANTS
    Events,        \* the messages
    Dispatchers,   \* background tasks
    BatchSize,     \* dispatch's batch_size
    NoEvent        \* a dispatcher's hands are empty

ASSUME OutboxAssumption == NoEvent \notin Events /\ IsFiniteSet(Dispatchers) /\ BatchSize \in Nat

VARIABLES
    outbox,    \* the Redis list
    publish,   \* "open", or how publish() ended for each message
    at,        \* where each dispatcher is
    left,      \* the turns its loop has left
    raw,       \* the message it has popped
    accepted   \* history: how often the sender returned true for a message

dispatchVars == <<at, left, raw>>
outboxVars == <<outbox, publish, at, left, raw, accepted, errors, crashes>>

OutboxInit ==
    /\ outbox = <<>>
    /\ publish = [m \in Events |-> "open"]
    /\ at = [d \in Dispatchers |-> "off"]
    /\ left = [d \in Dispatchers |-> 0]
    /\ raw = [d \in Dispatchers |-> NoEvent]
    /\ accepted = [m \in Events |-> 0]
    /\ NoFaults

Goto(d, place) == at' = [at EXCEPT ![d] = place]

\* The loop goes on, or dispatch is left by break, return or an exception.
NextTurn(d) == Goto(d, "pop") /\ raw' = [raw EXCEPT ![d] = NoEvent] /\ UNCHANGED left
Exit(d) ==
    /\ Goto(d, "off")
    /\ raw' = [raw EXCEPT ![d] = NoEvent]
    /\ left' = [left EXCEPT ![d] = 0]

-----------------------------------------------------------------------------
\* publish: rpush succeeds; or it raises, with or without effect.  The except
\* clause names RedisError, which the module does not import: publish does
\* not return False, it raises NameError.  The caller may publish the event
\* again.
Publish(m) ==
    /\ publish[m] # "done"
    /\ \/ /\ outbox' = Append(outbox, m)
          /\ publish' = [publish EXCEPT ![m] = "done"]
          /\ UNCHANGED errors
       \/ /\ outbox' \in {outbox, Append(outbox, m)}
          /\ publish' = [publish EXCEPT ![m] = "raised"]
          /\ Fault
    /\ UNCHANGED <<dispatchVars, accepted, crashes>>

Dispatch(d) ==
    /\ at[d] = "off"
    /\ Goto(d, "pop")
    /\ left' = [left EXCEPT ![d] = BatchSize]
    /\ UNCHANGED <<outbox, publish, raw, accepted, errors, crashes>>

\* Mutant of Pop: the message is read and stays on the list.
PopKeeps(d) ==
    /\ at[d] = "pop"
    /\ left[d] > 0
    /\ outbox # <<>>
    /\ raw' = [raw EXCEPT ![d] = Head(outbox)]
    /\ left' = [left EXCEPT ![d] = @ - 1]
    /\ Goto(d, "send")
    /\ UNCHANGED <<outbox, publish, accepted, errors, crashes>>

\* lpop outside the try block: when it raises, dispatch is left, whether the
\* message was removed or not.
Pop(d) ==
    /\ at[d] = "pop"
    /\ left[d] > 0
    /\ outbox # <<>>
    /\ \/ /\ outbox' = Tail(outbox)
          /\ raw' = [raw EXCEPT ![d] = Head(outbox)]
          /\ left' = [left EXCEPT ![d] = @ - 1]
          /\ Goto(d, "send")
          /\ UNCHANGED errors
       \/ /\ outbox' \in {outbox, Tail(outbox)}
          /\ Exit(d)
          /\ Fault
    /\ UNCHANGED <<publish, accepted, crashes>>

\* Mutant of EndDispatch: a list with one message left counts as empty.
DispatchEndsEarly(d) ==
    /\ at[d] = "pop"
    /\ Len(outbox) <= 1 \/ left[d] = 0
    /\ Exit(d)
    /\ UNCHANGED <<outbox, publish, accepted, errors, crashes>>

\* The list is empty, or the loop has made its last turn.
EndDispatch(d) ==
    /\ at[d] = "pop"
    /\ outbox = <<>> \/ left[d] = 0
    /\ Exit(d)
    /\ UNCHANGED <<outbox, publish, accepted, errors, crashes>>

\* The sender returns true,
SendAccepted(d) ==
    /\ at[d] = "send"
    /\ accepted' = [accepted EXCEPT ![raw[d]] = @ + 1]
    /\ NextTurn(d)
    /\ UNCHANGED <<outbox, publish, errors, crashes>>

\* or false, or raises.
SendFails(d) ==
    /\ at[d] = "send"
    /\ Goto(d, "refused") \/ Goto(d, "failed")
    /\ UNCHANGED <<outbox, publish, left, raw, accepted, errors, crashes>>

\* A refused message goes to the tail and dispatch ends.  This rpush is inside
\* the try block: when it raises, the except clause pushes once more.
PutBackRefused(d) ==
    /\ at[d] = "refused"
    /\ \/ /\ outbox' = Append(outbox, raw[d])
          /\ Exit(d)
          /\ UNCHANGED errors
       \/ /\ outbox' \in {outbox, Append(outbox, raw[d])}
          /\ Goto(d, "failed")
          /\ Fault
          /\ UNCHANGED <<left, raw>>
    /\ UNCHANGED <<publish, accepted, crashes>>

\* The except clause: the message goes to the tail and the loop goes on; when
\* this rpush raises, dispatch is left.
PutBackFailed(d) ==
    /\ at[d] = "failed"
    /\ \/ /\ outbox' = Append(outbox, raw[d])
          /\ NextTurn(d)
          /\ UNCHANGED errors
       \/ /\ outbox' \in {outbox, Append(outbox, raw[d])}
          /\ Exit(d)
          /\ Fault
    /\ UNCHANGED <<publish, accepted, crashes>>

DispatcherDies(d) ==
    /\ at[d] # "off"
    /\ Exit(d)
    /\ Death
    /\ UNCHANGED <<outbox, publish, accepted, errors>>

DispatchStep(d) ==
    \/ Pop(d) \/ EndDispatch(d) \/ SendAccepted(d) \/ SendFails(d)
    \/ PutBackRefused(d) \/ PutBackFailed(d)

OutboxNext ==
    \/ \E m \in Events : Publish(m)
    \/ \E d \in Dispatchers : Dispatch(d) \/ DispatchStep(d) \/ DispatcherDies(d)

OutboxSpec == OutboxInit /\ [][OutboxNext]_outboxVars

\* The background tasks run and are started again, and a sender that is given
\* a chance again and again accepts in the end.
Accepts(d, m) == raw[d] = m /\ SendAccepted(d)

OutboxFairSpec ==
    /\ OutboxSpec
    /\ \A d \in Dispatchers :
        /\ WF_outboxVars(Dispatch(d))
        /\ WF_outboxVars(DispatchStep(d))
        /\ \A m \in Events : SF_outboxVars(Accepts(d, m))

-----------------------------------------------------------------------------
(***************************************************************************)
(* Properties                                                              *)
(***************************************************************************)

\* The copies of a message on the list and in the dispatchers' hands.
Copies(m) ==
    Cardinality({i \in DOMAIN outbox : outbox[i] = m})
        + Cardinality({d \in Dispatchers : raw[d] = m})

\* A message is doubled by failed pushes only: however the dispatchers
\* interleave, it is accepted and still held at most once for every Redis call
\* that failed, and once more.
DuplicatesNeedFaults ==
    \A m \in Events : accepted[m] + Copies(m) <= 1 + errors

Published(m) == publish[m] = "done"

\* dispatch's docstring says at-least-once: a published message is accepted, or
\* on the list, or in the hands of a dispatcher that will send it or put it back.
AtLeastOnce == \A m \in Events : Published(m) => accepted[m] > 0 \/ Copies(m) > 0

\* A message is given up only if no copy of it is left, and only after a Redis
\* call failed or a dispatcher died.
GivenUp(m) == Copies(m) = 0 /\ errors + crashes > 0

\* Every published message of which there is a copy is accepted in the end:
\* refusals only delay it, and so do the failures that hit other messages.
EveryMessageSent == \A m \in Events : Published(m) ~> (accepted[m] > 0 \/ GivenUp(m))
=============================================================================
