--------------------------- MODULE PostsaleCommit ---------------------------
(***************************************************************************)
(* actions/action_postsale.py: dialogues that ask for the order details    *)
(* open to an after-sale request (AskOrderDetailIds) and submit one        *)
(* (CommitPostsale) for the same order detail.  The table has no unique    *)
(* key on the detail: check and insert are kept together by the lock       *)
(* postsale:{order_detail_id} alone.  The module composes DistributedLock  *)
(* with the dialogues and with the postsale table; a client is one run of  *)
(* a dialogue, and the critical section is _do_commit.                     *)
(***************************************************************************)
EXTENDS Integers, Sequences, FiniteSets

CONSTANTS
    Clients, NoOwner, Ttl, RetryTimes, MaxErrors, MaxLate,  \* of the lock
    MaxRows,                                                \* bound: rows of the postsale table
    MaxDbErrors                                             \* bound: commits that raise

ASSUME PostsaleAssumption ==
    /\ NoOwner \notin Clients
    /\ Ttl \in Nat \ {0}
    /\ {RetryTimes, MaxErrors, MaxLate, MaxRows, MaxDbErrors} \subseteq Nat

VARIABLES
    owner, ttl, pc, attempt, blocking, dog, stop, wake, errors, lost,
    postsales,      \* the detail's postsale rows, in order of insertion
    dialog,    \* where each dialogue is in the flow and in _do_commit
    dbErrors   \* failed commits so far

lockVars == <<owner, ttl, pc, attempt, blocking, dog, stop, wake, errors, lost>>
commitVars == <<owner, ttl, pc, attempt, blocking, dog, stop, wake, errors, lost,
          postsales, dialog, dbErrors>>

Lock == INSTANCE DistributedLock

\* active: complete_time IS NULL.  leased: history, the inserting client's
\* key had not expired when it committed.
Row == [active : BOOLEAN, leased : BOOLEAN]

ActiveRequests == {i \in DOMAIN postsales : postsales[i].active}

CommitInit ==
    /\ Lock!Init
    /\ postsales = <<>>
    /\ dialog = [c \in Clients |-> "start"]
    /\ dbErrors = 0

DialogTo(c, place) == dialog' = [dialog EXCEPT ![c] = place]

-----------------------------------------------------------------------------
\* AskOrderDetailIds offers the detail if it has no postsale row, or if some
\* row of it is completed.
Ask(c) ==
    /\ dialog[c] = "start"
    /\ pc[c] \in Lock!Finished
    /\ postsales = <<>> \/ \E i \in DOMAIN postsales : ~postsales[i].active
    /\ DialogTo(c, "offered")
    /\ UNCHANGED <<lockVars, postsales, dbErrors>>

\* The user ends the flow with one of the buttons that set a slot to false.
Cancel(c) ==
    /\ dialog[c] = "offered"
    /\ DialogTo(c, "start")
    /\ UNCHANGED <<lockVars, postsales, dbErrors>>

\* CommitPostsale.run: a new lock object, guard() acquires it.
SubmitPostsale(c) ==
    /\ dialog[c] = "offered"
    /\ Lock!Acquire(c, TRUE)
    /\ DialogTo(c, "locking")
    /\ UNCHANGED <<postsales, dbErrors>>

\* The lock's own steps, which leave the dialogue where it is.
LockStep(c) ==
    /\ \/ Lock!SetTakesKey(c)
       \/ Lock!SetRefused(c)
       \/ Lock!SetFails(c)
       \/ Lock!Join(c)
       \/ Lock!Delete(c)
       \/ Lock!DogStep(c)
    /\ UNCHANGED <<postsales, dialog, dbErrors>>

\* Mutant of CheckActive: the filter on complete_time is the wrong way round.
CheckCompleted(c) ==
    /\ pc[c] = "critical"
    /\ dialog[c] = "locking"
    /\ DialogTo(c, IF ActiveRequests = DOMAIN postsales THEN "adding" ELSE "duplicate")
    /\ UNCHANGED <<lockVars, postsales, dbErrors>>

\* _do_commit, the repeat check: the first query of the session fixes its
\* snapshot, so the order detail and the active requests are read at once.
CheckActive(c) ==
    /\ pc[c] = "critical"
    /\ dialog[c] = "locking"
    /\ DialogTo(c, IF ActiveRequests = {} THEN "adding" ELSE "duplicate")
    /\ UNCHANGED <<lockVars, postsales, dbErrors>>

\* session.add and the commit of get_session: the row is written.
Insert(c) ==
    /\ Len(postsales) < MaxRows
    /\ postsales' = Append(postsales, [active |-> TRUE, leased |-> c \notin lost])

Commit(c) ==
    /\ pc[c] = "critical"
    /\ dialog[c] = "adding"
    /\ Insert(c)
    /\ DialogTo(c, "committed")
    /\ UNCHANGED <<lockVars, dbErrors>>

\* The commit raises, before the database applied it or after: get_session
\* rolls back and the exception leaves _do_commit.
CommitFails(c) ==
    /\ pc[c] = "critical"
    /\ dialog[c] = "adding"
    /\ dbErrors < MaxDbErrors
    /\ dbErrors' = dbErrors + 1
    /\ UNCHANGED postsales \/ Insert(c)
    /\ DialogTo(c, "failed")
    /\ UNCHANGED lockVars

\* guard's finally clause: release the lock.
LeaveCommit(c) ==
    /\ dialog[c] \in {"duplicate", "committed", "failed"}
    /\ Lock!StopRenew(c)
    /\ UNCHANGED <<postsales, dialog, dbErrors>>

\* run returns.  After a commit the detail is taken off the slot; a repeat,
\* a failed commit and a lock that was not acquired leave it there, and the
\* flow asks for the type and the reason of the same detail again.
Return(c) ==
    /\ dialog[c] \notin {"start", "offered"}
    /\ pc[c] \in Lock!Returned
    /\ DialogTo(c, IF dialog[c] = "committed" THEN "start" ELSE "offered")
    /\ UNCHANGED <<lockVars, postsales, dbErrors>>

\* The action server dies; its open transaction is rolled back.
Crash(c) ==
    /\ Lock!Crash(c)
    /\ DialogTo(c, "start")
    /\ UNCHANGED <<postsales, dbErrors>>

\* The back office completes a request.
CompletePostsale(i) ==
    /\ postsales[i].active
    /\ postsales' = [postsales EXCEPT ![i] = [active |-> FALSE, leased |-> @.leased]]
    /\ UNCHANGED <<lockVars, dialog, dbErrors>>

LockTick == Lock!Tick /\ UNCHANGED <<postsales, dialog, dbErrors>>

CommitNext ==
    \/ \E c \in Clients :
        \/ Ask(c) \/ Cancel(c) \/ SubmitPostsale(c) \/ LockStep(c) \/ CheckActive(c)
        \/ Commit(c) \/ CommitFails(c) \/ LeaveCommit(c) \/ Return(c) \/ Crash(c)
    \/ \E i \in DOMAIN postsales : CompletePostsale(i)
    \/ LockTick

CommitSpec == CommitInit /\ [][CommitNext]_commitVars

-----------------------------------------------------------------------------
(***************************************************************************)
(* Properties                                                              *)
(***************************************************************************)

\* Every variable has its type.
CommitTypeOK ==
    /\ Lock!TypeOK
    /\ postsales \in Seq(Row)
    /\ Len(postsales) <= MaxRows
    /\ dialog \in [Clients -> {"start", "offered", "locking", "adding",
                               "duplicate", "committed", "failed"}]
    /\ dbErrors \in 0..MaxDbErrors

\* Of two requests in progress for the same detail at least one was written by
\* a dialogue whose lock had expired: whatever else fails, crashes or repeats,
\* a submission whose lease held is never the second one.
NoDoubleRequestUnlessLost ==
    \A i, j \in ActiveRequests : i # j => ~postsales[i].leased \/ ~postsales[j].leased

\* At most one request is in progress for an order detail: what the repeat
\* check is for.  It takes a lock that is not lost, so no failed Redis call
\* (and watchdogs that are on time); crashes and failed commits do no harm.
OneActiveRequest == errors = 0 => Cardinality(ActiveRequests) <= 1

\* While a dialogue is about to insert, the table has no request in progress:
\* the repeat check is still true when its result is used.
CheckStillTrue ==
    \A c \in Clients : dialog[c] = "adding" /\ c \notin lost => \A i \in ActiveRequests : ~postsales[i].leased
=============================================================================
