# A formal model of the e-commerce customer-service agent

TLA+ modules, TLC configurations and TLAPS proofs for this repository: the Redis
infrastructure with its locks, queues, streams, transactions, caches, limits and
ids; the dialogue actions and the forms that lead to them; the retrieval from the
product graph; and the scripts, the training and the inference behind that graph.
Paths below are relative to the repository.

    tlc -config MCLockAndOrders.cfg MCLockAndOrders         # a run
    tlapm DistributedLockProofs.tla                         # proofs, likewise *Proofs.tla

## 1. The system

A Rasa Pro dialogue engine runs the flows of `data/flows/` and calls the action
server's actions (`actions/`), which work on a MySQL database through SQLAlchemy
sessions. `core/` holds the Redis infrastructure. `addons/` answers product
questions from Neo4j with language models in the loop. `graph/` fills that graph
from MySQL and from descriptions and pictures, trains the models it needs, and has
a small web service of its own. Several action servers run against one Redis and
one database, every dialogue on its own thread or process, and they share nothing
but Redis and the database.

| Component | State | Operations | Who else touches the state | Correct when |
|---|---|---|---|---|
| `DistributedLock` (`core/distributed_lock.py` 54-322) | one Redis key with a TTL; per object an owner token, a watchdog thread, a stop event | `acquire`, `release`, `extend`, `_renew_loop`, `guard`, the decorator | other owners, threads that share the object, Redis's clock | one holder at a time; a holder loses its key to the clock only; an abandoned key goes away |
| `RedLock` (325-470) | the same key on several servers | `acquire`, `release` | | (cannot be constructed: `redis` is not imported) |
| after-sale dialogue (`actions/action_postsale.py`, `flow_postsale.yml`) | rows of `postsale`, the dialogue's slots | choose details, type and reason; commit one after the other | other dialogues, the back office | one request in progress for a detail, one for every detail chosen |
| order actions (`actions/action_order.py`, `flow_order.yml`) | `order_info.order_status`, `receive_id`, rows of `receive_info`, slots | show an order, cancel it, compose and change receive info | other dialogues, shop and carrier | cancelled only before shipping, told once, no duplicate receive info, addresses that exist |
| logistics actions (`actions/action_logistics.py`) | a cached list, rows of `logistics_complaints_record` | list, record a complaint | the carrier, other dialogues | what is told and recorded fits the parcel |
| `DelayQueue` (`core/redis_delay_queue.py`) | a sorted set of ids, a hash per task, the workers' poll threads | `add`, `start_polling`, `stop_polling`, batch, execute, retry, give up | all workers | an accepted task is settled, by one keeper, in `max_retry` calls at the most |
| `RedisStream` (`core/redis_stream.py`) | stream, consumer group, pending list | `add`, `create_consumer_group`, `_consume_batch`, `claim_pending` | all consumers | nothing unhandled is forgotten or acknowledged |
| `DeadLetterQueue` (308-353) | a second stream | `push`, `replay` | operators | a letter is replayed or still there |
| `SagaCoordinator` (`core/redis_transaction.py` 211-329) | `_executed_steps` of the object | `execute`, `_compensate` | other executions on the object | a failed saga is undone, in reverse, and only itself |
| `TccCoordinator` (100-208) | the participants' stock counters | Try, Confirm, Cancel | other executions | no oversell, no reservation left behind |
| `TransactionalOutbox` (332-405) | a Redis list | `publish`, `dispatch` | several dispatchers | every message is sent, copies only after failures |
| local message table (408-490) | hash per message, pending and dead lists | `create_local_message`, `process_local_messages` | several tasks | every message is sent or dead, in a bounded number of sends |
| cache (`core/redis_client.py` 330-400, `core/cache_decorator.py`) | value, mutex key | `get_or_set_advanced`, `cacheable`, `cache_evict` | readers and writers | one loader at a time, no stale value after an eviction |
| Redis client (`core/redis_client.py`) | the module's global connection, counters, bits | `get_redis_client`, pipelines, `optimistic_transaction`, Lua deductions | all threads | a live client or an error; what is answered is what happened |
| rate limiter (`core/rate_limiter.py`) | a sorted set, a bucket or a counter for each key | one script or command each | all processes | no more passes than the limit, and no fewer without a reason |
| ids (`core/distributed_id.py`) | a generator's clock and sequence; worker ids in a bitmap | `next_id`, segments | all processes, the clock | no id twice |
| idempotency (`core/idempotency.py`), Bloom filter (`core/redis_bloom.py`) | a record or a bit for each call or element | check and set; add and exists | all processes | a request is new once within its TTL; no false negative |
| GraphRAG (`addons/`) | the graph's indexes | route, look up, generate, validate, correct, run; drop and rebuild indexes | the index script | answers rest on whole indexes and checked statements |
| graph scripts (`graph/src/datasync/`) | nodes and relationships in Neo4j | copy from MySQL, extract from texts and pictures | each other, the shop | a value from a picture stands beside another of its name only where the two were written at once |
| graph chat (`graph/src/web/`, the UIE predictor) | attributes of one predictor object | extract, look up, answer | all requests | a request fails only when others run beside it |
| training (`graph/src/runner/`, `graph/src/models/`) | model, counters, checkpoint and best file | train, save, resume, early stop; beam search | kills | resuming goes on where it stopped; the best beam is returned |
| demo data (`gen_data.py`) | all tables | clear, generate | the foreign keys | clears in a legal order, draws orders whose times make sense |

How they interact: the actions take a `DistributedLock` around check and write;
the delay queue takes one around every task; the dead letter queue adds to the
stream; the logistics actions read through the cache; ids take counters and bits
of the Redis client, through which everything else calls Redis as well. The scripts
write the graph and the indexes that retrieval and chat read. The hard behaviours are those of a distributed program. A
Redis call can fail **with or without its effect**; processes die between two
commands; watchdogs, retries and TTLs race with the code they guard; and a
check made in one statement is used in another. `PROJECT.json` lists these
places as hazards, each at its line with the properties that cover it.

## 2. The modules

All modules share these conventions. One action is what happens between two
points at which another process can act: a Redis command, a Lua script, a
database statement or commit, a return to the caller. A Redis call that may fail
has three outcomes: effect and reply, effect and `RedisError`, no effect and
`RedisError`. `Fault` counts the errors, up to `MaxErrors`; the modules about
`core/redis_transaction.py` and `core/redis_stream.py` take it, and the count of
deaths, from the module **Faults**. Crashes are actions
that drop what the process had in memory. A variable marked *history* exists in
no process: no guard reads it, and properties use it to speak of the past.
Definitions whose comment begins with "Mutant of" are deliberately wrong
variants of the action that follows; no specification uses them, and they
document which bug each property is there to find.

**Mutex** is the abstract lock: a set `inside`, and those of them whose lease is
`lost`. A client enters when everybody inside has lost its lease.

**DistributedLock** is the class, one client per owner token, one resource key.
`owner` and `ttl` are the Redis key; `pc`, `attempt`, `blocking` the thread in
`acquire`/`release`; `dog`, `stop`, `wake` the watchdog. `SetTakesKey`,
`SetRefused`, `SetFails` are the three ends of one `SET NX EX`; `StopRenew`,
`Join`, `Delete` are `release`, with a join that times out while the watchdog
is inside a Redis call; `DogWakes`, `DogStops`, `DogExtends`, `DogGivesUp` are
`_renew_loop` and `extend`. `Tick` ages the key and the watchdogs' timers; no
watchdog is ever more than `MaxLate` ticks late. `Tick` does not run when there
is neither key nor watchdog, since it would change nothing.
`Abstract == INSTANCE Mutex WITH inside <- Inside` is the refinement.

**PostsaleCommit** composes *the whole of* DistributedLock with the dialogues
and the `postsale` rows of one order detail. `dialog` is where the flow and
`_do_commit` are; the critical section is `CheckActive`, `Commit` or
`CommitFails`, then `LeaveCommit`. A row remembers whether it is active
(`complete_time IS NULL`) and, as history, whether its writer still had its
lease. Dialogues repeat: a duplicate, a failed commit and a refused lock leave
the detail on the slot, as the flow does.

**OrderActions** has cancelling and modifying dialogues, and the shop and the
carrier who move the same order along. The lock `cancel_order:{id}` is taken as
the abstract Mutex with no lease lost: the module asks what is left to go wrong
when the lock works. Sessions read a snapshot and write by primary key at
commit. `InsertInfo` models the unique index of `receive_info`: the insert
waits for an uncommitted row with the same content and fails on a committed one.

**DelayQueue** has workers with poll threads (an old thread may outlive
`stop_polling` and meet its successor). `add` is three commands. `Pop` is the
Lua script, and from there the tasks are in the thread's memory only. `Take`,
`Load`, `Handle`, `Clean`, `Retry`, `Requeue`, `GiveUp` are `_execute_task`.
Every exception that leaves it drops the rest of the batch (`DropBatch`), as
`_poll_loop` does. Time is left out, and so is the task's lock; the module's
header gives the reason.

**Delivery** is the abstract queue with retries that DelayQueue and LocalMessages both
implement (`ImplementsDelivery`). An item is outside, queued, held by one keeper, done,
failed or lost. A keeper takes it from the queue and can only put it back there, every
attempt is made while it is held, it is done after an attempt and failed after exactly
`Tries` of them, and it is lost only when it is `excused`. `Fate` and `KeptBy` are the
refinement mapping: a task is settled when its handler's last answer is known, also while
the thread still has to delete or mark its hash; a message is settled when its hash says so.
Many items may move in one step (a popped batch, a dropped one, a death), so `Next` is
stated item by item. `Tries` is `max_retry` for tasks and `max_retry + 1` for messages: the
two parts of the code mean different things by the same parameter.

**Saga**: several calls of `execute`, each on its coordinator object. `executed`
is the object's `_executed_steps`, `at` the index in the steps or in the reversed
list. `CompensateFails` covers both ends of `return str(e)`: the text of the
exception makes the call a failure, an empty text makes it a success.

**Tcc** takes the participant of the class's docstring (two stock counters and an
order), since the coordinator itself has no state beyond a record nobody reads.

**Outbox** and **LocalMessages** follow the two delivery patterns command by
command. Their `except` clauses name `RedisError`, which the module does not
import, so the errors they mean to swallow leave as `NameError`: the outcome
`"raised"`.

**RedisStream** identifies a message with its position. `cursor` is the group's
last delivered id, `pending` its pending list. `Read` is `XREADGROUP >`; `Claim`
re-assigns idle messages, whose new owner the class gives no way to acknowledge;
`Trim` is MAXLEN, at any time after the limit is reached.

**ReadThrough** is `get_or_set_advanced` with its owner-less mutex, against
writers that update the row and then evict, as a function decorated with
`cache_evict` does. It composes the two for one cached key.

**SharedLock** is the lock used as the decorator uses it: several threads have one
object, and with it the owner token and the stop event in common. A thread's
`release` stops a colleague's watchdog, a colleague's `_start_renew` revives an
old one, and `Delete` may take the key of whoever holds it for the object. No call
fails here; what failures do is DistributedLock's subject.

**DeadLetters** extends RedisStream: `Push` adds to the stream of letters, and
`Replay` reads a batch for the group `dlq_replayer` under a fresh consumer name,
adds each letter to the target and acknowledges it. That the class never creates
the group, never reads pending letters again and acknowledges what it failed to
add is in the actions.

**Connection** has the threads inside `get_redis_client`. Each mention of the
global `_client` is a step, since another thread can set it to `None` in between:
`Test`, `Ping`, `Drop`, `Build`, `Return`. Redis goes away and comes back.

**Batches** has threads that move one piece from one counter to another in one of
three ways: a pipeline, a pipeline under MULTI, `optimistic_transaction`, whose
block runs once outside and once inside MULTI. What they were answered is set
against what happened to the counters. `aligned` says whether the keys that are watched,
which get the prefix, are those that the block writes; in the docstring's example they
are not.

**RedisCalls** are the functions that are one command or script: `atomic_deduct`,
`atomic_check_and_purchase`, counters and the ids and segments taken from them. A
call answers a default when it raises, executed or not.

**RateLimiter** has the three limiters on one key, given the caller's clock, which
may be behind. A member of the sliding window's set is named with 14 digits, so
two requests within a `Grain` overwrite each other; the bucket rounds its refill
down; the fixed window's TTL goes to another key than its counter. The history
`passed` is the sequence of the times of the requests that passed, and the bounds are
stated about any two of them.

**DistributedId** has Snowflake generators with worker ids from a bitmap (or, when
Redis fails, from a hash of the host) and a clock that may be set back. A
generator that sleeps holds its lock. `start` is two steps: SETBIT (`TakeBit`), from
which on the generator has its worker id, and EXPIRE (`ExpireBits`), which may fail or
never come, so that the bitmap may keep an old TTL or none.

**Idempotency** has threads under `@idempotent` and in `idempotent_request_id`. The
record of a call contains a member of an Enum; `json.dumps` raises for it before
anything is stored, and what the wrapper does with a stored record, or after the
function has run, is never reached: the actions end where the code does. No property
is about the decorator, of which nothing is left to check; section 4 reports it.

**Bloom** adds and looks up elements bit by bit, with the guard that asks before
a database query, and the batch operations as one pipeline.

**Logistics** has the cached list of companies and the complaint flow, from the
parcel's information to the recorded reason, while the carrier moves the parcel.

**ReceiveForm** is the flow that changes an order's receive info: the buttons for
province, city and district, each filtered as its query filters, the loop over
further changes, and the insert that the foreign key to `region` may refuse.

**PostsaleFlow** is the whole after-sale dialogue around PostsaleCommit: the shown
order, the details offered, the loop until every chosen detail is requested. What
CommitPostsale does under its lock is one step here.

**GraphSearch** is `GraphRAG.search` (route, look up by index, generate, EXPLAIN and
review, correct, execute) against `create_indexing.py`, which drops an index and
fills it again batch by batch. The language models' answers are choices.

**DataSync** has processes (`Scripts`) that run `mysql_data_sync` or `sku_image_sync`,
one after the other, each process beside the others: nothing in the scripts excludes
that. Each row is a transaction of its own; a script may die after any of them and is
run again, while the shop renames, adds and removes. The one statement of
`write_sku_entity` is two steps, `LookEntity` (the match of nodes without the attribute)
and `AddEntity` (its MERGEs), since Neo4j reads what is committed and locks nothing it
has only looked at. `crossed` is the history of the nodes that another process has
given the attribute in between.

**ChatService** has the requests that share one `UIEPredictor`, whose schema and
piece mapping are attributes of the object. A step is what happens between two
accesses to them.

**Spans** is `get_span`: one turn of its loop is one action, since the theorem
about it is an invariant of that loop. `Couple` overwrites an earlier start.

**Training** follows the trainer's loop by its global step; a model is the sequence
of batches it was trained on, where a batch is a *position* in the epoch: the
loader shuffles, so the rows at a position are others after a restart. A kill may
happen anywhere, also while a file is written.

**BeamSearch** is `generate` of the spell checker with rows of tensors as
functions, and **GenData** is `gen_data.py`: the order in which tables are emptied,
and the drawing of one order from its status.

`MC*` modules hold what TLC needs and the specification does not (functions as
values of constants). `MCLockAndOrders`, `MCTransactions`, `MCRedisTools` and
`MCAssistant` check several modules in one run: they extend all of them, every module
keeps its own variables, and the variable `machine` names the part that a behaviour
explores while the others stay in one initial state. The parts share no state but the
failures that a run allows, so their product would show nothing that they do not show
one by one; the state space is the *sum* of the parts. (PostsaleCommit, which is itself
the composition of the dialogues with the lock, is one part.) The properties are the
modules' own definitions, the same that the theorems name. `MCSaga` is only for
Saga_reused; the other runs of a single module use it directly.

## 3. The runs

| Run | Instance | Asks |
|---|---|---|
| LockAndOrders: DistributedLock | 2 clients, TTL 3, 1 retry, 2 errors, watchdogs 1 tick late | `MutualExclusion` until a call fails, `OrphanExpires`, refinement of Mutex |
| LockAndOrders: OrderActions | 2 cancellers, 2 modifiers, 2 receive infos | one cancellation reported, no duplicate receive info, answers |
| OrderActions_shipped | 1 and 1 | *violated*: a shipped order is not cancelled |
| DelayQueue | 2 tasks, 2 workers, 3 threads, 2 tries, batches of 2, 1 error, 1 crash or stop | one keeper, refinement of Delivery (settled stays settled after a bounded number of calls, losses have a reason), accepted is settled |
| Transactions: Tcc | 3 executions for 2, 1, 1 pieces of a stock of 2; 2 errors, 1 crash | `NoOversell`, and reservations and deductions that match |
| Transactions: Outbox | 2 messages, 2 dispatchers, batches of 2, 2 errors, 1 crash | copies need faults, every message of which a copy is left is sent |
| Outbox_lost | the same, no error, 1 crash | *violated*: at-least-once |
| Transactions: LocalMessages | 2 messages, 2 tasks, 1 retry, 2 errors, 1 crash | refinement of Delivery (bounded sends, settled stays settled, losses have a reason), every message settled |
| RedisTools: Saga | 3 executions on 2 objects, 3 steps | nothing left behind, completed stays intact, reverse order |
| Saga_reused | 2 executions on 1 object, 2 steps | *violated*: reverse order |
| RedisTools: RedisStream, DeadLetters | 2 consumers, 3 messages, MAXLEN 2, batches and claims of 2, 1 error, 1 crash | unhandled stays pending; a letter that is left behind needs a fault |
| RedisTools: ReadThrough | 2 readers, 2 writers, 2 polls, 2 updates, 1 error, 1 raise | overlapping loads and stale values need a cause |
| RedisTools: SharedLock | 2 threads, another process, TTL 5, interval 1, 3 acquisitions, 1 late tick | sharing an object is safe while threads are on time |
| RedisTools: Connection, Batches, RedisCalls | 2 threads and 2 outages; 2 movers; 2 buyers, 2 goods, 2 faults | a client is pulled away by another thread only; no answer leaves half a move behind; what was sold or refused is explained by the answers |
| Batches_transfer | 2 movers, 3 attempts, nothing raises | *violated*: True means that the block was executed once |
| RedisTools: RateLimiter, DistributedId | limit 2 in a window of 3, 5 requests, skew 1; 2 generators, 4 ids, 2 mishaps | passes and refusals are explained; equal ids have one of four reasons |
| RateLimiter_window | the same | *violated*: a rested fixed window is open |
| RedisTools: Idempotency, Bloom | 2 threads, TTL 2, 3 calls, 2 outages or lost replies; 2 elements that share a bit | a request is new once within its TTL; no false negative |
| Assistant: PostsaleCommit | 2 dialogues, 2 rows, 1 error, 1 failed commit, the lock as above | one active request until a call fails, and after that a second one only from an expired lease |
| Assistant: Logistics | 2 dialogues, cached for 2 ticks, a query of 1 tick, 4 ticks | what is told was true, what is recorded fits |
| Assistant: ReceiveForm, PostsaleFlow | 4 regions with a city's name in two provinces, 2 rounds; 2 dialogues, 2 details | addresses can be stored; through means requested |
| PostsaleFlow_shown | as above | *violated*: an order shown as not in after-sale has no request |
| Assistant: GraphSearch, DataSync, ChatService | 2 nodes, 2 labels, 2 runs of the script; 2 processes, 1 SKU under 2 names, 3 runs, 2 changes; 2 requests of 1 and 2 pieces | answers rest on whole indexes and checked statements; a picture fills a gap; failures need an overlap |
| Assistant: Spans, Training, GenData | 5 positions; 9 steps, checkpoints every 4, 2 kills; 7 order and 5 request states | no overlap; trained in order; data makes sense, and a completed order raises for two reasons only |
| BeamSearch_best | 1 sample, 2 beams, 2 tokens, 3 costs | *violated*: the best beam is returned |

**What the passing runs show.** The lock is sound with respect to everything but
time: releases, late extensions, lost replies and crashes of others never take
the key from a holder. It excludes as long as no Redis call has failed and
watchdogs are on time, also when threads share the object. One failed `extend`
already ends the watchdog (`_renew_loop` breaks), after which the key runs out
under a working holder, which is why the guarantees of PostsaleCommit are stated in
two forms. The delay queue never has two keepers for a task, also with two poll
threads in one worker, and loses a task only to a crash, an error, or a worker that
polls before its handler is registered: it implements Delivery, and so do the local
messages. The transaction patterns keep what
the properties say, up to the faults that these name: the outbox sends a message as long
as a copy of it is left somewhere, and it has none left only after an error or a crash; Tcc does not oversell although
Confirm ignores the result of its deduction. In the stream an acknowledgement
always means a handled message, and a dead letter is lost to a fault only. The
cache serves a stale value only after an update between a reader's load and its
store, or a failed call.

The properties about the smaller tools say what their callers may conclude. A
thread that is alone never meets `get_redis_client`'s stray exception, and two
threads do not build pools for ever. A pipeline that returns has moved one
piece, and no answer of `optimistic_transaction` leaves half a piece behind, whatever
else it does (section 4). Sales never exceed the stock or the
user's limit, while a refusal may hide a sale. The bucket and the sliding window
let pass no more than they should but for requests in one `Grain` or from a clock
that is behind. Two equal ids need an expired bitmap, a hashed host name or a clock set back.
What the Bloom filter has confirmed as added it always finds.

Of the dialogues: the address put up for confirmation exists unless two provinces
have a city of the same name, also after rounds that were left in the middle; who
is led through the after-sale flow has a request for each chosen detail. Retrieval
never runs an uncorrected statement that was refused; whatever order the scripts ran
and died in, also at once, a picture's value is written beside another of its name,
the shop's or a picture's, only where that one was committed between the look and the
write of the statement; a resumed
training misses no batch but the very first and repeats one per resumption, and a
request to the shared predictor fails only beside another one.

**Bounds.** Two clients, dialogues or workers are the smallest number that can
disagree, and a third party is present where it matters: the third saga run
(alone on its object), the third poll thread, shop and carrier. The TTL of 3
gives an interval of 1, so a watchdog can be early, late by one and still in
time, or too late after an error. One error suffices for every property about
"a call fails"; two are given where an error may be met while another is being
handled (put-back after a failed put-back, an extend and a release). A batch of
two is the smallest that can lose a task it has not started. A stock of two
against orders of 2, 1, 1 lets the last piece be contested by two. MAXLEN 2
with three messages makes trimming overtake reading. Two mishaps let a generator be
restarted *and* its clock be set back, the one reason for equal ids that needs both; four
ids (`MaxIds`) are enough to come back to one after that. One SKU is enough
for two scripts to meet on it, and its two names make two nodes of it. The counters
`errors`, `crashes`, `stops`, `raises`, `dbErrors` are bounded by guards, and so are
rows, messages and writes. The two clients of PostsaleCommit are interchangeable in its
specification and in its two invariants, and symmetric in that run.

**Deadlock** is checked for the lock in LockAndOrders and for PostsaleCommit in
Assistant: somebody can always go on. The other parts may stop, OrderActions, Saga and
the dialogues, scripts and executions of the sum runs when all have ended or a bound is
met (in LockAndOrders and Assistant `OrdersDone` and `OthersEnd` let them), DelayQueue
when it is empty and no crash or stop is left.

**Fairness.** (`MCLockAndOrders.MCSpec` and `MCTransactions.MCSpec` state the fairness
conditions of their modules for their own variables.) DistributedLock: Redis's clock runs and watchdog threads are
scheduled; nothing is assumed of clients, which may stay in their critical
section for ever. OrderActions: an action the user has confirmed runs to its end;
users, shop and carrier need do nothing. DelayQueue: workers register their
handler and start polling, poll threads run and handlers return; nobody has to
add, stop or crash. Outbox: background tasks are started again and run, and a
sender that is given the same message again and again accepts it in the end
(strong fairness, because a refusal in between puts the message back);
LocalMessages: the tasks run, and *nothing* is assumed of the sender, since
`max_retry` bounds the refusals. The other specifications have safety
properties only and state no fairness.

## 4. The disagreements found

* **OrderActions_shipped** - the comment at `actions/action_order.py:627` says
  that only an unpaid or unshipped order can be cancelled. The status is read
  in the session's snapshot and written by primary key; the shop does not take
  the agent's lock, and an order shipped in between is cancelled.
* **PostsaleFlow_shown** - the comment at `actions/action_order.py:229` says that an
  order with `status_code < 400` is not in after-sale. `CommitPostsale` enters a
  request and leaves the order's status alone, so a delivered order is shown
  without the request that is in progress.
* **Saga_reused** - `core/redis_transaction.py:224` promises that a failed step is
  followed by the compensations from there back, and `:300` calls it reverse order. `_executed_steps` belongs to the object and is not reset when
  `execute` begins, so a second execution also compensates steps of the first,
  with its own parameters, and more than once. A coordinator that is used for
  one execution keeps the promise (`AloneInReverse`).
* **BeamSearch_best** - the comment at `graph/src/models/spell_check_t5.py:121` says
  that each sample's beam with the best score is selected. The loop breaks when all
  beams are finished (`:116`), after the scores have been sorted and before the rows
  have, and the first row is not the best one's.
* **Outbox_lost** - the docstring of `dispatch` (`core/redis_transaction.py:382`) says
  at-least-once. `LPOP` (`:387`) takes the message off the only list that holds it before
  it is sent; a dispatcher that dies then has lost it, and so has one whose put-back
  is refused. What is left of the promise is `EveryMessageSent`: without such a loss
  the message is sent.
* **Batches_transfer** - the docstring of `optimistic_transaction`
  (`core/redis_client.py:190`) says that True means executed, and its example transfers
  an amount. The block is called at `:210` after WATCH, where a pipeline executes
  at once, and again under MULTI: True means transferred twice. True is only returned
  when the block writes other keys than those watched, as the example does, whose keys
  lack the prefix; otherwise the first call makes every attempt fail.
* **RateLimiter_window** - the docstring at `core/rate_limiter.py:164` says fixed window,
  and the comment at `:170` that the first request sets the expiry. `expire` (`:171`) is
  given the key without the prefix that `cache_incr` counts under, so the counter
  never expires, and after `limit` requests the key is shut.

One more promise is contradicted without a run, because the contradiction is in a single
call and needs no model checker: `core/idempotency.py:8` says that the first call is
processed and its result cached for repeated ones. `json.dumps` does not take the Enum in
the record (`:135`), so that a call that finds Redis there ends with `TypeError` before
the function has run (`SetProcessing` in Idempotency), and only calls that find Redis
away run it, each of them.

Met while modelling and left to the text:

* Transactions: a compensation that raises an exception without a text is reported as
  done (`wordless` in Saga); the `except RedisError` clauses of the outbox and of the
  local messages raise `NameError`.
* Locks: a blocking `acquire` raises on its last failed attempt but returns `False`
  when it finds its own key after a lost reply; the watchdog ends after one failed
  extension; `RedLock` cannot be constructed; the failure of a commit inside
  `CancelOrder` is answered as if another dialogue held the lock.
* Limits and ids: frequent requests starve the token bucket by rounding; the worker ids are forgotten five minutes after the last
  start; one of the id helpers lacks the `f` of its f-string.
* Streams: `replay` acknowledges letters whose add failed.
* Graph: two scripts at once may both find a SKU without an attribute and both give it
  one (`crossed` in DataSync).
* Demo data: `max()` raises for a completed order with several refunds whose status is
  above 920, if there is such a status.
* Dialogues: districts are filtered by the city's name alone; an empty answer to
  `validate_cypher`'s review makes `json.loads` raise.

## 5. The proofs

`DistributedLockProofs` proves, for every set of clients, TTL, number of retries
and bounds, from `LockAssumption` (`NoOwner` is not a client, the numbers are
naturals, the TTL is positive):

* `TypeCorrectness`: `Spec => []TypeOK`.
* `LeaseSafety`: `Spec => []LeaseHonoured`. Together with the types the property
  is inductive: `SetTakesKey` needs a free key, `Delete` compares the owner, and
  only `Tick` can remove a key from a client in its critical section, whom it
  then records in `lost`.
* `MutexSafety`: two clients are inside only if one has lost its key, from
  LeaseHonoured and the fact that a key has one owner.
* `TimelyLease` and `TimelyMutualExclusion`, under `Timely` (interval plus delay
  is below the TTL): until a Redis call fails no critical section outlives its
  key, and clients exclude each other. LeaseHonoured is too weak for this. The
  invariant `TimelyInv` says of every client inside that the key is its own, that
  its watchdog is awake, and that the key's life is exactly the watchdog's timer
  plus `Ttl - Interval`: both run down together, and the timer never falls below
  `-MaxLate`. `NoFaultStep` shows that `errors` never goes down, so that a state
  without errors was reached by steps without errors. `Timely` is needed: with
  `ttl = 1` the interval is the whole TTL.
* `MutexRefinement`: `Spec => ImplementsMutex`, with no assumption on time.
  `Enter` needs that everybody inside has lost its key, which is LeaseHonoured
  at a free key; `LostInside` says that only clients inside are in `lost`.

`PostsaleCommitProofs` proves the composition from `PostsaleAssumption`, for any
number of dialogues, rows, failures and crashes:

* `LockInside`: every step of the composition is a step of DistributedLock or
  leaves its variables alone, so `CommitSpec` implies the lock's `Spec` and every
  theorem above holds here. `TypeCorrectness` and the rest build on it.
* `NoDoubleRequest`: `CommitSpec => []NoDoubleRequestUnlessLost`. The property is not
  inductive. `TableInv` adds that a dialogue in `adding` is inside the lock, and
  `CheckStillTrue`: what CheckActive saw is still so when Commit inserts, unless
  somebody has lost his lease. The lock's LeaseHonoured keeps the second one, for a
  row is only inserted by a client inside.
* `OneRequest`: under `Timely`, `CommitSpec => []OneActiveRequest`. TimelyLease is brought
  in from the lock, and `LeasedRows` says that every row was then written
  under a lease.

`OrderActionsProofs` proves, from `OrderAssumption` (a dialogue either cancels or
modifies, and the first receive info is one of the infos):

* `OneCancellation`, by `CancelInv`: who reads or writes the order is alone inside
  the lock, and once a cancellation is reported the order is cancelled and nobody
  is about to write. The abstract lock is essential here; the write by primary
  key alone would let both report.
* `InfosStoredOnce`, by `PendingRows`: an uncommitted row has a content that is
  neither stored nor in another uncommitted row.

`DelayQueueProofs` proves, from `QueueAssumption`, for any number of tasks, workers,
poll threads and tries:

* `KeeperSafety`: `Spec => []OneKeeper`. `KeeperInv` adds where a thread may hold
  something (`Places`) and that nobody has seen a task before its ZADD (`Unseen`),
  without which the late ZADD of `add` could double it.
* `SettledSafety`: `Spec => []SettledStaysSettled`. What bounds the calls is the retry
  count, and it is spread over the hash and a thread's copy: `CountsCalls` says that for
  a task that waits the calls are the hash's count, which is below `MaxRetry`, and for
  one that is being handled the copy's plus one. The
  proof needs KeeperInv: only one thread writes the count. It does not need that
  calls to Redis succeed; the order in which `Retry` writes count and queue does it.
* `DeliveryRefinement`: `Spec => ImplementsDelivery`. `FateTable` reads the refinement
  mapping off the place a task is in, which KeeperInv makes unique, so each action's
  proof only says where tasks go; `Undisturbed` serves all others. That a task is given up
  after exactly `MaxRetry` calls needs the equalities of CountsCalls, and a task put back
  has been tried by `HandInv`. A loss must be excused: CountsCalls also says that a
  waiting task has its hash, so that `hgetall` finds no task gone. This is the safety
  half of AcceptedSettled; that a task does not wait for ever is left to TLC.

`SagaProofs` proves, from `SagaAssumption`, `RollbackIsWhole` and `CompletedStays`.
Their invariant `Accounted` follows one run through its phases: the steps done by a
running run are `1..at-1`, all are in the list of its coordinator and none is undone; while it
compensates each of them is undone or still before its index. Runs on the same
coordinator only append to the list (`OthersKeep`), and a crash, which empties it,
ends all of them. `InList` bounds the index. `RollbackInReverse` is about a
coordinator that serves one run: `Lined` says that its list is then `1, 2, ..., n`,
and that a compensating run has undone just the steps behind its index, once each.
Saga_reused shows that the hypothesis, which is part of `AloneInReverse`, is needed.

`TransactionsProofs` has a part for each of three modules.

* `NeverOversold`, from `TccAssumption` (quantities and stock are naturals), for any set
  of executions: `Balanced` says that what the two stock counters have lost is the
  amount of the reservations, or deductions, that are in effect, and `Holdings`
  what an execution has at each place. An amount is the number of pieces of a set of
  executions, so that the library's theorems on cardinalities do for the sums.
* `OnlyFaultsDuplicate`, from `OutboxAssumption`: `CopiesBounded` adds up, for a message,
  what was accepted, the copies on the list and in dispatchers' hands and the publication
  still to come; a step moves one from one place to another or counts an error.
* `SettledForGood`, from `LocalAssumption`, goes the way of SettledSafety: the sends are
  the retries that the hash, or the task that has the message, counts (`Counted`,
  `Reckoned`). That the list never holds a message twice and that a message in a task's
  hands is in nobody else's (`TaskOK`) is what lets one task write the count.
* `DeliveryRefinement`: `LocalSpec => ImplementsDelivery`, from the same invariant and laid
  out as the delay queue's. `OthersSame` gives each step its one message, and `LetGoIsLost`
  the losses: a task lets go of an unsettled message only when a command raised or it died.

`RedisToolsProofs` proves the safety properties of the modules that MCRedisTools runs, each
for its own specification and from its own assumption (the parts of the list below
say where an assumption is more than the type of a constant):

* ReadThrough, `OneLoader` and `StaleHasCause`: until somebody is late, who works has the
  mutex and is alone (`MutexMeansOne`); until an update crosses a load, what is about to be
  stored is the row, and what is cached without being it has a writer about to evict
  (`FreshUntilCrossed`).
* RedisStream, `NothingOverlooked`: besides the types, `AckMeansHandled` is needed: who is
  about to acknowledge has a message that a callback accepted.
* DeadLetters, `LettersAccounted`: a replayer's letters are a run of positions that are
  pending with it alone and not yet added, but for the one about to be acknowledged
  (`InHands`), and what the group has not reached was not added (`UnreadUnsent`).
* SharedLock, `SharingSafety`, under `SharedTimely` (interval plus three delays is below the
  TTL): `KeyLives` bounds the key's life in the three phases of a use, from the start
  of the watchdog, by the newest watchdog's timer, and after the stop event. `Delay`
  is counted once for the thread that starts the watchdog, once for the
  watchdog, once for the thread that deletes.
* Connection, `ClientSafety`, for a finite set of threads: `PoolsPaid` is a potential.
  The pools built and those that threads may still build are paid by the failed pings that
  have set the client to `None`.
* Batches, `AnswersTellTheMoves`: `Moved` says how often the two commands of each thread's
  block have been executed at each step, which makes them equal wherever a call may end
  (but for an exception in a pipeline's body or outside MULTI), and `Watched` when an
  attempt is refused.
* RedisCalls, `CallsAreExplained`: what is booked in Redis is at least what callers were told,
  and just that until a call raises (`Booked`); segments lie below the counter (`BelowCounter`).
* DistributedId, `IdsUnique`, for any number of worker ids and of ids per millisecond: unless
  one of the named causes has occurred, the ids of a worker id are not ahead of its
  generator (`OwnIds`), and none is ahead of the clock (`PastIds`), so that a generator
  that starts anew begins in a later millisecond. `DigitsUnique` is the arithmetic
  that lets the parts of an id be read off again.
* Idempotency, `RequestsNewOnce`: `SpacedOut` keeps the key alive for the TTL after each
  answer "new", and `TroubleSeen` says that nothing but a fault stands in the way of the
  first one.
* Bloom, `NoFalseNegative`: bits stay set, and the bits of an element whose add returned True,
  and those before the next one of an add under way, are set (`BitsKept`).
* RateLimiter, `LimitsHold`, for any limit, window and times of requests. The sliding
  window's set has a member for each request that passed within the window, counted from
  any time on (`LogCounts`), so that a request that passes finds fewer than `Limit`
  of them. For the bucket `BucketPaid` says that what passed since any request, and the
  tokens left, are covered by the capacity and the rate up to the last refill; two
  refills, each rounded down, make no more than one of the whole span (`QuotientsAdd`), and
  a bucket whose TTL is over would be full by then (`WindowMakesLimit`), so that forgetting
  it gives nothing away.

`AssistantProofs` does the same for the modules of MCAssistant:

* Spans, `SpansWithoutOverlap`, from `SpansAssumption` (positions are naturals):
  `PointersBehind` relates what is coupled to what the two pointers have left, so
  that a new couple can only meet the last one, which it replaces.
* ReceiveForm, `FormStorable`, from `FormAssumption` (regions have three columns and the
  first receive info refers to one), for every table of regions. `Composed` says what is
  known after each button: after the city's, that it is one of the province's.
  `DistrictCompletes` is the step where the filter by the city's name alone matters.
* PostsaleFlow, `ThroughIsRequested`: what a dialogue has chosen is requested or still in its
  slot, which is empty when it is through and not before (`DialogueFine`); a detail has one
  request in progress (`OneActiveEach`). An order has finitely many details.
* Logistics, `ToldIsTrue`: what is told was the table's content no longer ago than a load and
  the TTL take (`ListsInTime`, with `LastsUntil` for the list that was not replaced before
  a time); the reasons offered fit the parcel, or the parcel came since (`OffersFit`).
* GraphSearch, `AnswersAreSound`, from `RetrievalAssumption` (there are labels, each node has
  one, and `User` is not indexed): the script has embedded all nodes of the labels before
  the one it is at (`ScriptInv`); a search that no run of the script has interrupted finds
  all of them (`ExpectInv`, `FoundInv`); a statement that reaches its execution was accepted
  or corrected (`QueryInv`).
* DataSync, `PicturesFillGaps`, an action property, for any number of processes: a node that
  a process has found without the attribute has it now only if it is crossed
  (`LookHolds`). `GiveCrosses` is the step that matters, when another process gives an
  attribute between the look and the write.
* ChatService, `FailuresOverlap`: a request that nobody has overlapped since it began is alone
  in the predictor, and the predictor's attributes are those of its question at every
  place of its way (`AloneInside`, `RequestFine`).
* Training, `TrainingResumes`: the model in memory and the one in the checkpoint are trained on
  the batches in order, with at most one batch repeated for every death
  (`Ordered`, `ModelsInOrder`), and a readable `best.pt` is not behind either of them
  (`ScoresInOrder`).
* GenData, `DemoMakesSense`, from `GenAssumption` (a completed order has a code from 400 on, as
  the script's table says): `DrawnSoFar` relates the order's times to the place in the
  drawing, and each request to the order and to its own type and status; `NextRaises` is
  where the script may die of a completed order.

**Every safety invariant, the action property and every refinement that a passing run
checks is stated by a theorem**, and most theorems state such a property. The theorems of type correctness,
LeaseSafety, LockInside, MutexSafety and TimelyLease serve them, and `SettledStaysSettled`,
of the delay queue and of the local messages, is proved in the variables of the code while
the runs check it as part of `ImplementsDelivery`. The assumptions hold of the values in
the runs' configurations, which TLC evaluates.

Only model-checked, and why:

* the liveness properties `OrphanExpires`, `ConfirmedAnswered`, `AcceptedSettled`,
  `EveryMessageSent` and `EveryMessageSettled`: fairness and ENABLED are out of the
  prover's reach;
* the seven properties that are violated, which need no proof (section 4);
* BeamSearch, whose only property is one of those.

## 6. What is not modelled

`PROJECT.json` gives the reason for each component. In short:

* `RedLock`: its constructor always raises.
* Configuration; pub/sub, HyperLogLog and GEO helpers (single commands nothing
  calls); the listing of `AskOrderID`, which only reads; `view_log_sync`, which merges
  one relationship a row that nothing else reads.
* Rasa's command generator and policies, language models, embedding models, the
  networks, tokenizers, conversion and fine-tuning of the vendored UIE code: outside
  the repository, or numerical and without state. What they answer is a choice in
  the modules that ask them.
* Time in DelayQueue: due times, and the hash's TTL of a day more than the delay
  (`core/redis_delay_queue.py:121`, the one hazard that no property covers).

Two abstractions run through everything: Redis is one server that applies its
commands one after the other and does not lose what it has acknowledged, and one
key, order, detail, task type or cached value stands for all of them.

## 7. Plan

Done: the lock and its refinement, the dialogues, the delay queue and the local messages
with theirs, the stream and its dead letters, the other transaction patterns, the cache, the
smaller Redis tools, the graph's retrieval, scripts, chat and training, the demo data; the
proofs of section 5.

Left to model: the expiry of a task's hash in DelayQueue, which needs time there.
