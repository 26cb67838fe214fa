# wfc_jsonrpc: TLA+ specifications

TLA+ models of the JSON-RPC modules of this repository, the TLC configurations
that check them on small instances, and proofs, checked by TLAPS, of what holds
for every value of the constants. Paths are relative to the repository
(`src/...`); line numbers refer to the source beside these modules.

    tlc -config MCBatchPool.cfg MCBatch        a run
    tlapm BatchProofs.tla                      a proof

## 1. The system

wfc_jsonrpc is a package of objects that stand in a chain between a server (or
a client connection) and a service. Each object is a `domain_proxy`: it
implements `ijsonrpc` and has a *target*, the next object of the chain. A
message comes in as

- `perform_io(data, io_id, handler)`: raw data of a connection,
- `perform_incoming(holder, io_id, handler)`: a parsed incoming message, with
  the handler its response is passed to (null for a notification),
- `perform_outgoing(holder, io_id)`: a message that goes the other way,

and connections are announced with `reg_io(io_id, interface)` and
`unreg_io(io_id)`. An object does its work and calls the same function of its
target. A *suspended* object passes everything on. All of this runs on any
thread: the asio loops that read connections and the threads of *workflows*
(bounded queues of tasks, served by threads). A target may answer inside
`perform_incoming` or later, from another thread. The base class, the workflow
and the connections are in other repositories (wfc, wflow, wjrpc): they are
modelled as the source uses them and marked external.

### Components

| component | state | operations | what is hard | what makes it correct |
|---|---|---|---|---|
| **batch** `package/batch` | per packet: slots of the responses, an atomic counter, the requests to pass on | `perform_io`, the response handlers it creates | handlers on several threads; synchronous answers inside the dispatch loop; decrement and test are two steps | one reply, full, in the order of the requests; no reply lost |
| **backlog** `package/backlog` | `_active`, `_lock_flag`, `_mutex`, `_ss`, the output stream and its buffer, the file | recording in `perform_incoming`/`perform_outgoing`; `lock`, `unlock`, `rotate`, `restore`, `async_restore`, `restore_cancel`; the proxy's `reg_io`/`unreg_io` | two unlocked readings of `_active`; a restore posted to another thread and a callback that truncates; buffers that are not flushed; restarts | nothing recorded is lost; the file is ahead of the target; a message is forwarded or recorded; what was recorded is replayed |
| **queue** `package/queue` | the workflow, `_callback_workflow`, tracked connections | `perform_incoming`, `perform_outgoing`, `restart`, `stop`, the drop handler, the response handlers | a full queue, a full callback queue, disconnection and reconfiguration while messages are on their way | one fate and one answer at most for a request; order with one thread; refused is not executed |
| **broker** `package/broker` | reject list, rules, targets, under a read-write lock | `perform_incoming`, `reg_io`, `unreg_io`, `restart` | rules are iterated without the lock while `restart` replaces them; a failed reconfiguration; connections known to old targets only | a message goes where one configuration says; a rejected method reaches nobody |
| **stub** `package/stub` | a handler per connection, the identifiers it waits for | conversions of requests, notifications and answers in four modes | an answer sent in advance and a late one; identifiers that stay | one answer per request; a notification gets none |
| **hub** `package/hub` | the registered connections | `reg_io`, `unreg_io`, broadcast | a snapshot is sent to while connections come and go | everybody but the sender gets it, once |
| **repli** `package/repli` | targets, a counter for identifiers | copies of messages to `reply_targets` | the counter is reset while copies are numbered | copies do not answer the client; identifiers of a target differ |
| **statistics** `package/statistics` | caches of meters | `perform_incoming`, `reconfigure` | caches cleared while meters are alive | each message is counted by the meter of its kind |
| **extract** `package/extract` | none between calls | the scan of a buffer for JSON values | resynchronisation after garbage | every value is found, once, whole |
| **matchmaker** `utilites/matchmaker` | a tree of matchers | `reconfigure`, `match` | modes are combinations of bits; arrays mean "one of" and "all of" by turns | a match means what the configuration says |
| config_json, multitons, modules | none | registration, field names | nothing | not modelled: tables of names |

### Interactions

batch must be first in the chain (`src/Readme.md:219-220`); what is behind it
decides which threads run its handlers: a queue makes them several. A queue
behind a batch answers on three kinds of thread: the reader (QueueOverflow, or a
suspended queue), a worker, and a thread of the callback workflow. A backlog in
client mode stands before a client connection, and hears of its link through
`reg_io` and `unreg_io` of its proxy. The broker is what makes a tree of the
chain; stub needs the `reg_io` of every connection it serves, which broker
forwards only to the targets it has at that moment.

## 2. Plan

Done, in this order: Batch with its abstract specification, Backlog, Queue, Broker
with the Matchmaker, Stub, Hub and Repli with their composition Fanout, Extract,
Statistics; the proofs of all of them; the abstract specifications of Queue and Broker,
with proofs that they are implemented; the safety halves of the liveness properties; and the
matchers, proved to mean what they should wherever the broker asks them.

Left, and why it is worth doing:

- Batch over Queue: the threads that run the handlers of a batch would come from
  the queue and need not be assumed.
- Broker over Stub: a stub behind a broker is told of the connections that the
  broker knows it for (`KnownSender`), and without a `reg_io` it converts nothing.
- Backlog with a target that calls the same backlog back, which waits for its own
  mutex (`backlog.cpp:289`).
- Abstract specifications of Stub (what a client sees of its requests in each mode) and
  of Statistics.

## 3. The modules

A component's state is its VARIABLES, one action is one step that another thread can
see, and variables under "what has happened" are history for the properties. Each
`<X>Proofs` extends `<X>`; each `MC<X>` gives `<X>` values for TLC. Some definitions
are *slips*: a plausible error in one operation, kept beside it; each shows that
some property notices it.

### Batch, BatchPromise

One packet, because all the state belongs to one: locals of `perform_io` and the
`shared_ptr`s its handlers capture (`batch.cpp:37-41`). An element is its index in
the array and its response is named by that index; of its contents only its kind
is kept.

| TLA+ | source |
|---|---|
| `class`, `items` | what the data is, and the elements of `batch1` |
| `stage`, `next` | where `perform_io` is: receiving, in the parse loop, in the dispatch loop, done |
| `slots`, `slotOf` | `*pbatch_res`, and the `pos` each handler captured |
| `calls` | `holder_handler_list` |
| `pcount`, `phase`, `busy` | the atomic counter; how far each handler is; which thread runs it |
| `replies`, `sent`, `ran` | history: the arrays given to the output handler, what the target got, the threads that ran a handler |
| `PassOrDrop`, `Refuse`, `Split` | lines 9-35 |
| `ParseInvalid`, `ParseNotify`, `ParseRequest` | lines 42-91 |
| `FinishWithoutCalls`, `Arm`, `Dispatch`, `FinishDispatch` | lines 93-110 |
| `Store`, `Decrement`, `TestAndReply`, `Return` | lines 71, 72, 73-79 and the end of a handler |

`Runners` are the threads that run handlers. A handler on `IoThread` during the
dispatch loop is nested in the call of the request just passed on (`MayRun`).
A target calls a handler at most once: nothing in batch.cpp checks it.

`BatchPromise` is the sentence of `src/Readme.md:222` as a specification: it
collects one response at a time, and sends a reply when all are there; once, or as
many times as threads took part, for that is all the code keeps of the promise.

### Backlog

| TLA+ | source |
|---|---|
| `pc` | where the call of each message is in `perform_incoming`: before the first reading of `_active`, recording, before the second, about to call the target |
| `active`, `locked`, `suspended`, `stopping` | `_active`, `_lock_flag`, the domain's flags |
| `ss`, `buffer`, `file`, `pos` | `_ss`, what `_filelog` has buffered, the file, how far a restore has read it |
| `job` | each restore: posted, reading (it holds `_mutex`), at its callback |
| `link` | what `reg_io` and `unreg_io` have said last |
| `forwarded`, `replayed`, `stranded`, `cut` | history: passed on by its call, by a restore, with the link down; not read by a restore that a stop cut short |
| `Arrive`, `Record`, `Write`, `Check`, `Forward` | `perform_incoming` and `write_incoming_`, lines 149-191: the first reading, the record, the second reading, the call of the target |
| `Lock`, `Unlock`, `ReleaseLock`, `Rotate`, `Truncate` | lines 322-345 |
| `RestoreBegin`, `RestoreLine`, `RestoreEnd` | `restore` and `apply_backlog_`, lines 251-320, 347-353 |
| `RequestRestore`, `LinkUp`, `LinkDown`, `Callback`, `RestoreCancel` | lines 39-87, 355-373 |
| `Crash` | the end of the process and `configure`, `initialize`, `start` of the next |

`std::endl` flushes the record and what was buffered before it; `_filelog <<
_ss.str()` does not flush, so what it writes stays in the buffer or reaches the
file, as the stream likes. `perform_outgoing` differs from `perform_incoming` in
the copy it records, which is a message like another here. Left out: the rate
limit (it only sleeps), records that do not parse back, `restore_target`
against `target` (a restore passes its records to one of them; in client mode
both are taken to be behind the same link).

### Queue, QueuePromise

| TLA+ | source |
|---|---|
| `tasks`, `hands` | the workflow: tasks that wait, tasks taken by a thread and not yet run |
| `callback`, `responses` | `_callback_workflow` is set; its tasks |
| `open`, `wrapped` | requests at the target; those whose handler was wrapped by `make_outgoing_handler_` |
| `PassThrough`, `Post`, `PostFull` | lines 29-59; `drop_handler_`, 123-140 |
| `Run`, `DropUntracked` | `make_post_fun_`, `make_track_fun_`, lines 61-87 |
| `RespondDirectly`, `RespondByCallback`, `LoseResponse`, `Deliver` | `make_outgoing_handler_`, lines 89-121 |
| `Reconfigure` | `restart`, `stop`, lines 15-27 |
| `Take`, `Overflow`, `Disconnect`, `Suspend` | external: workflow threads, its bound, connections, the domain |

When the workflow is full it drops one message and calls that message's drop
function. Which one it drops is the workflow's affair, so any of them may go.

`QueuePromise` says what one sees who knows nothing of workflows and threads: a message
comes, waits, and reaches the target once; somebody is refused only when `Room` messages
wait, and a request that is refused is answered in the same step; a message is given up
for its own client only; an answer goes back unless `ReplyRoom` of them wait; and when a
message reaches the target, fewer than `Threads` of those before it still wait. The
mapping is `Whereabouts`: a message waits if it is a task or in the hands of a thread, and
a request is back if its answer is a task of the callback workflow.

### Broker, BrokerPromise, Matchmaker, Routing

One connection, since connections share only the configuration. A message carries
its method and its parameters; what a matcher says of the parameters is the constant
`Verdict`. Routing gives it the matchers of Matchmaker.

| TLA+ | source (`broker.cpp`) |
|---|---|
| `options`, `targets`, `reject`, `rules` | the options, `_targets`, `_reject` with `_reject_all`, `_rules` |
| `writer` | where `restart` is; from `InstallTargets` to `InstallRules` it holds the lock |
| `io`, `snapshot`, `known` | where `reg_io` or `unreg_io` of the connection is, its copy of `_targets`, the targets told of it |
| `pc`, `dest` | where a message is, and the target it has reached or its refusal |
| `torn` | history: readers that the writer overtook in a container they read without the lock |
| `applied`, `regAt`, `checked` | history: the configurations installed, and how many when the connection was registered and the message checked |
| `Reconfigure` | lines 76-127: everything is made first; a rule that does not parse ends it |
| `InstallTargets`, `InstallReject`, `InstallRules` | lines 129-136 |
| `RegIo`, `RegTargets`, `UnregIo`, `UnregTargets` | lines 138-165: a copy under the lock, the calls without it |
| `PassThrough`, `Check`, `Scan`, `Forward` | lines 168-241: suspended, or a message without a method; the reject list under the lock; the rules without it |

A reader that is overtaken reads a container while it is assigned, which is
undefined behaviour: it may come to any target, and is in `torn`. What the properties
say of the others is therefore what the code keeps.

`BrokerPromise` has one configuration, replaced as a whole, and no lists, lock or steps of
`restart`. A message that names a method (`HasMethod`) is refused or let in by the
configuration it meets, and goes where the one that it meets then sends it, unless it is
overtaken. The mapping takes the configuration of the rules for the one in force
(`applied[Ruling]`), so the replacement is `InstallRules`: the reject list is assigned
before, but under the lock, where nobody can read it. A `restart` that fails is a stutter.

Matchmaker has the matchers over JSON values (`NameLeaf`, `ValueLeaf`:
`match_factory.cpp:15-53`; `ObjectMatch`: `object_match.cpp:55-110`; `ArrayMatch`:
`array_match.cpp:35-57`; `VariantMatch`: `variant_match.cpp:35-46`; `MatchWith`, `Match`:
`builder.cpp:14-59`). What a matcher calls the matchers of its parts for is its argument
`match`; `Match(mode)` is the recursive function that closes the circle. The loops of the
code are folds (`Loop`), and an error is carried from one matcher to the next and never
reset, as in the code. `Fits` is the reference: what a pattern means, with quantifiers and
without errors. The JSON values are the constant `Json`, any set of them with a depth
(`JsonAssumption`): a JSON text is finite, so what is nested in it ends.

Routing puts the two together: each matcher has a mode and a pattern, and its verdict is
`Judgement`, what `Match` says of the parameters with an error taken for a refusal
(`broker.cpp:207-220`). `MatchersAssumption` says so for every matcher, so that `Verdict` is
no free choice there. `RoutedAsMeant` compares `Match` with `Fits` where it matters, in the
rules of a broker while configurations replace one another.

### Stub

One connection, whose client sends requests and notifications up and whose target
calls it down.

| TLA+ | source (`stub.cpp`) |
|---|---|
| `conf`, `handler` | `_conf`; the options of the `stab_handler` in `_handler_map` |
| `wait` | its `_wait_responce` |
| `itf` | the interface the target was given by `reg_io`, and whether `_handler_map` has the connection yet |
| `pc`, `pstub`, `held`, `idOf` | where a message is, the `stab_handler` it has found, what response handler the target holds, its identifier |
| `answers` | what each response handler has been called with |
| `shared`, `swallowed`, `thrown` | history: identifiers in use twice, answers that `_wait_responce` stopped, calls of empty handlers |
| `RegIo`, `InsertHandler`, `UnregIo`, `Restart` | lines 156-185; `reg_io` tells the target first and fills `_handler_map` then |
| `Find`, `Make`, `Pass` | `perform_incoming`, lines 187-203: the lookup, the handler (118-139), the message (92-106) |
| `ByHandler`, `ByInterface` | an answer through the handler (134-138; that of a notification is empty) and as a response on the interface (25-45) |
| `Substitute`, `AnswersAnswer` | what the client gets for it, lines 107-131 |
| `CallOut`, `Reply` | the target calls the client, lines 47-90 and 187-211 |

### Hub, Repli, Fanout

| TLA+ | source |
|---|---|
| Hub: `member`, `dead` | registered connections (`_map`), and those whose weak pointer has expired |
| `RegIo`, `UnregIo` | `hub.cpp:46-56` |
| `Arrive`, `Copy`, `Send`, `Forward` | `hub.cpp:58-114`: the snapshot under the lock, one member at a time, the target last |
| Repli: `counter`, `targets`, `writer` | `_counter`, `_reply_targets`, where `restart` is |
| `ResetCounter`, `ReplaceTargets` | `repli.cpp:17-25` |
| `Arrive`, `Forward`, `Snapshot`, `Copy`, `Return` | `repli.cpp:27-48`: the clone, the original, the list under the lock, one copy at a time |
| Fanout: `Receive`, `SendToHub` | a call of the repli, a call of the hub by one of its members: both at any time, whoever else is inside |
| `CopyToHub` | the call by which a copy of the repli enters the hub, on the same thread |
| `earlier` | history: the messages whose calls had returned when that of each began |

Fanout takes both by `INSTANCE`. Each keeps its actions, and each message is a call on a
thread of its own: neither object has a lock around a call, so any number of calls are in
the repli and in the hub at once. A call of the repli waits for its own copy to come back
from the hub, and for nobody else. Members may also send to the hub themselves. Whether
the domain is suspended is an open choice for each call. What order there is, `SameOrder`
says: if one call had returned when another began, nobody gets the later message first.
Calls that overlap keep no order (see the end of section 4). `perform_outgoing` of both does the
same as `perform_incoming`.

### Extract

One call of `perform_io`: the object keeps nothing between calls. The parser of JSON
is the constant `Parse(text, i)`, the position behind the value that begins at `i`, or
`Fail`; all that is assumed of it is that it goes forward and not beyond the end.
MCExtract has a parser for brackets and quotes.

| TLA+ | source (`extract.cpp`) |
|---|---|
| `d`, `beg`, `sent` | the buffer, the position of the scan, what has been sent as ranges of the buffer |
| `Pass`, `PerformIoStream` | lines 26-45; `stream_mode` drops the buffer |
| `PerformIoPack`, `FindFirst`, `ParseOnce` | lines 31-106 |

### Statistics

| TLA+ | source (`statistics.cpp`) |
|---|---|
| `writeSize`, `errorStat`, `stat` | the options; whether there is a statistics object |
| `cache` | the prototypes in `_req_meters`, `_ntf_meters`, `_other` |
| `hasStat`, `meter`, `wants` | what a call has read and made so far |
| `Reconfigure`, `Switch` | lines 15-22; the statistics object comes and goes (external) |
| `Pass`, `GetStatistics`, `CreateMeter`, `Forward`, `Answer` | lines 46-49, 108-163, 113-181, 61-97, 69-91 |

## 4. The runs

| run | what it checks | instance | distinct states |
|---|---|---|---|
| batch_pool | `TypeOK`, `RepliesAreFull`, `NoLostReply`, and Batch implements BatchPromise (safety and liveness) | up to 4 elements, the IO thread and two workers | 34,000 |
| batch_race | `AtMostOneReply` is violated with two workers | 2 elements | |
| backlog_server | `TypeOK`, `Retained`, `Durable`, `WriteAhead`, `ReplayComplete` in server mode | 2 messages and a response, 2 restores, 2 locks, a restart, everything else unbounded | 3,226,000 |
| backlog_client | `LossOnlyInWindows`, `CallsReturn`, `OutageReplayed` in client mode | 2 messages, the link comes up, is lost and comes up again, suspension, a stop | 97,000 |
| backlog_once | `RecordedOnce` is violated by two calls of lock and unlock | 1 message | |
| backlog_late | `LateKept` is violated by a record before the callback | 1 message, the same link | |
| queue_pool | `TypeOK`, `OneFate`, `InOrder`, `RequestsOfTheLiving`, `EventuallyAnswered`, and Queue implements QueuePromise | 2 requests and an outgoing message, 2 threads, queues of one place, suspension, reconfiguration, disconnection | 51,000 |
| broker | `TypeOK`, `Consistent`, `Routed`, `KnownSender`, `NoGhosts`, `RoutedAsMeant`, and Broker implements BrokerPromise | 2 messages, one without a method in some scenarios, 2 targets, 3 configurations that replace one another and one for each pattern and mode, 3 installations | 350,000 |
| stub | `TypeOK`, `OneAnswer`, `StoppedWereAnswered`, `AnsweredInAdvance`, `EventuallyAnswered` | 2 requests, a notification and a call with one identifier, 4 sets of options | 351,000 |
| fanout | `TypeOK`, `HeardOnce`, `WholeList`, `UniqueIds`, `SameOrder` | 2 messages at once, each by the repli or by the hub, 2 members, one of a restart, a death and a departure, the hub alone or after another target | 1,340,000 |
| extract | `ValuesInOrder`, `NothingMissed`, `ScanEnds` | every buffer of up to 6 brackets and quotes | 187,000 |
| statistics | `CacheCoherent`, `MetersFit` | 2 calls of any kind, 3 events | 342,000 |

**Bounds.** Four elements of a batch hold every order of two requests among an
error and a notification, and two workers and the reader are as many threads as
can disagree on one counter. Two messages of a backlog are what it takes for one
to be in `_ss` or in the buffer while another is written to the file; two locks
are what it takes for `_ss` to be written twice, two restores to be posted at
once. A link that comes up twice has a restore of the first time run during the
outage, or after it beside the second one; a link that comes up three times gives
627,000 states in place of 23,000 without a stop, takes minutes, and has the same result. A queue
of one place overflows with two messages; two threads are as many as can hold
messages taken in one order and run in another; a notification differs from an
outgoing message in nothing that is modelled. Three configurations of a broker let
one replace another while a call that began under the first still runs, and two targets
let one of them leave the list and the other come in. One identifier of a stub makes
every request use it again, so a stale one always meets the next request; the four sets
of options hold each conversion in the mode where it matters. Two members of a hub let
one come or go while the other is sent to, and two messages are what an order needs;
both may be in the repli and in the hub at any time. One restart, death or departure in a
run (`FewChanges` in MCFanout) meets two calls wherever they are; what two of them do
together is left to the proofs.
Six characters hold a value in a value after one that is broken off. Three events let
the options change and the statistics go and come in the middle of one call. The
bounded counters are `MaxItems`, `MaxLocks`, `MaxCrashes`, `MaxInstalls`, `MaxRestarts`,
`MaxLen` (MCExtract) and `MaxEvents`; they are named in the guards, and the proofs
hold for every value of them. `MaxChanges` (MCFanout) is a constraint of the run.
Symmetry is used in runs of invariants only.

**Deadlock** is checked for Batch, Broker, Stub, Fanout, Extract and Statistics. A
Batch, Stub, Fanout, Extract or Statistics that has finished stutters (`Done`, `Over`);
a Broker can always be suspended. Backlog and Queue stop when every message has come
and gone, so it is off for them.

**Fairness.** Batch: a thread inside `perform_io` or a handler keeps running, and
the target answers every request (assumed of the target; the batch cannot force
it). Backlog: a thread inside a call keeps running and a posted restore is run by
its workflow; the mutex is not assumed fair, and a restore ends because the file
ends while nobody can write to it; `ClientSpec` adds that an outage of the link
ends. Queue: the threads of both workflows keep running and the target calls
every handler it got. Stub: a call that `perform_incoming` has begun runs to its end,
and each side answers what it got, in one of its two ways. Extract: the thread in
`perform_io` keeps running. Nothing is assumed of clients, configurations or links
beyond that.

### What the runs found

- `batch.cpp:72-73` (batch_race): the counter is decremented and then read. Two
  handlers can both read zero, and the client gets the array twice.
  `if (--(*pcount) == 0)` reads it once.
- `backlog.cpp:335, 351` (backlog_once): `_ss` is written out and never cleared.
- `backlog.cpp:75` (backlog_late): the callback truncates the file after the mutex
  has been released; a record made in between, for instance because the link was
  lost again, is gone and no restore has read it.

Seen in the models as well, and stated as the conditions of properties that hold:

- `backlog.cpp:151, 156`: `_active` is read twice. A message that finds it false
  and then true is neither recorded nor forwarded, and one that has read it the
  second time may reach the target after the link is lost (`crossed`, `stranded` in
  `LossOnlyInWindows`).
- `backlog.cpp:278`: a restore that the stop of the program cuts short returns as
  one that has ended, and the callback truncates what it has not read (`cut` in
  `LossOnlyInWindows`; without it TLC finds the loss in ten steps).
- `backlog.cpp:73, 116`: messages that come before the link has ever been up, and
  records that a restore replays when the link is down again, are passed to a
  target that is not there (`stranded`); after the restore they are truncated.
- `backlog.cpp:351-352`: the records a restore releases from `_ss` are not flushed
  before the file is read, so the restore may miss them (`locks = 0` in
  `ReplayComplete`); records under the lock do not survive a restart
  (`locks = 0` in `WriteAhead`).
- `queue.cpp:70-73`: requests are tracked and notifications are not, where
  `src/Readme.md:26-27` says "message" (`RequestsOfTheLiving`).
- `queue.cpp:111`: a response that finds the callback workflow full is dropped
  without a word to the client (`lost` in `OneFate`).
- `broker.cpp:146, 203`: the rules and the targets are read without the lock under
  which `restart` assigns them (`torn` in `Routed`, `KnownSender` and `NoGhosts`).
- `broker.cpp:139`: connections are not registered with the targets of a later
  configuration, and targets that left the list hear no more of them (`KnownSender`
  and `NoGhosts` say which).
- `match_factory.cpp:42`: values are compared as prefixes or regular expressions when
  the bits of names say so (`ByValueBits` in `RoutedAsMeant`); and an error of one
  alternative is carried into the next and may keep it from fitting (`Raises`).
- `stub.cpp:126`: an identifier enters `_wait_responce` in advance mode and leaves it
  only by a response on the interface. When the target answers by the handler it stays,
  and a later response with that identifier is swallowed (`swallowed`).
- `stub.cpp:79`: a request of the target that becomes a notification in advance mode
  is never answered (`Unanswerable`).
- `stub.cpp:134-137`: in `fake_response` mode an answer that comes by the handler is
  not replaced, where `stub_config.hpp` says "always".
- `repli.cpp:27-35`: the copies of requests are requests, where `src/Readme.md:158-159`
  says that they become notifications.
- `repli.cpp:27-48`: nothing keeps the copies of two calls that overlap in the order of
  their originals. The copies may overtake one another on the way to a reply target, and
  two members of a hub may hear the messages in different orders (`earlier` in
  `SameOrder`).
- `repli.cpp:17-19`: a restart sets the counter of identifiers to zero while requests of
  before may still be unanswered: copies of before and after it may share an identifier
  (`epoch` in `UniqueIds`).
- `statistics.cpp:61-69`: the statistics are looked up twice; if they come in between,
  the call measures by a null meter (`enabled` in `MetersFit`). The meter of messages
  that are neither requests nor notifications keeps the option it was made with
  (`CacheCoherent`).
- `extract.cpp:31`: `stream_mode` drops every buffer.

## 5. The proofs

Every invariant and action property of the passing runs is proved with TLAPS, for every
value of the constants, under the named assumptions of the modules; they say what the
sets of kinds are, that bounds are natural numbers, that a queue has finitely many threads
(`WorkersAssumption`, for the overtaking is counted), that the name of the connection of a
broker is not that of a message (`IoAssumption`), that JSON is nested finitely deep
(`JsonAssumption`), that a broker's matchers are those of Matchmaker
(`MatchersAssumption`), and in Extract that the parser goes forward. So are the
refinements of BatchPromise (its safety half), QueuePromise and BrokerPromise. Each proof
has one lemma or one step per action.

| module | theorems | inductive invariant |
|---|---|---|
| BatchProofs | `TypeCorrect`, `RepliesCorrect`, `NoLossCorrect`, `OneReplyCorrect`, `PromiseCorrect` | `IInv`, `ReplyInv`, `OneInv`, `PromiseInv` |
| BacklogProofs | `TypeCorrect`, `RetainedCorrect`, `DurableCorrect`, `WriteAheadCorrect`, `ReplayCorrect`, `LossCorrect`, `RecordedOnceCorrect`, `HolderCorrect`, `ReadingCorrect`, `OnItsWayCorrect` | `Kept`, `Holding`, `Plain` with `Ahead`, `Replaying`, `Safe`, `Once` or `Passing` |
| QueueProofs | `TypeCorrect`, `OneFateCorrect`, `RefusedCorrect`, `BoundedCorrect`, `OrderCorrect`, `TrackingCorrect`, `PromiseCorrect` | `Types`, `Places`, `Returns`, `Order`, `ArrivedOnce` |
| BrokerProofs | `TypeCorrect`, `ConsistentCorrect`, `RoutedCorrect`, `KnownSenderCorrect`, `NoGhostsCorrect`, `PromiseCorrect`, `MeantCorrect`, `MatchSound`, `MatchComplete`, `RoutedAsMeantCorrect` | `Types`, `Config`, `Conn`, `Msg` |
| StubProofs | `TypeCorrect`, `OneAnswerCorrect`, `StoppedCorrect`, `AdvanceCorrect`, `NoneForgottenCorrect` | `Types`, `Hands`, `Identifiers`, `Msg`, `Answerers` |
| FanoutProofs | `TypeCorrect`, `HeardOnceCorrect`, `WholeListCorrect`, `UniqueIdsCorrect`, `SameOrderCorrect`, `RepliByItself`, `HubByItself` | `RepliInv`, `HubInv`, `Link` |
| ExtractProofs | `OrderCorrect`, `NothingMissedCorrect`, `GetsOnCorrect` | `Position`, `Behind`, `ValuesInOrder`, `Complete` |
| StatisticsProofs | `CoherenceCorrect`, `MetersCorrect` | `Types`, `CacheCoherent`, `CallInv` |

**Batch.** `RepliesAreFull` is not inductive: a handler that reads zero sends the slots
as they are, and nothing in it says that they are filled. `IInv` adds that the slots are
those of the elements passed that want a response, in their order (`SlotsInOrder`); that a
slot is null only while its request is idle or waiting (`SlotsFilled`); that the list to
dispatch is the requests, each once, in order (`CallsExact`); that no handler runs before
the parse loop ends (`HandlersLate`); and that the counter is the number of handlers that
have not decremented it (`CounterExact`). So zero means that every slot is filled.
`ReplyInv` adds that every request is dispatched and that as long as no reply has been
sent some handler has still to test the counter. `OneReplyCorrect` needs that `Runners`
is one thread: the handler that reads zero is then the last. With two it is false, as
batch_race shows. `PromiseCorrect` is the safety half of the refinement, on any number of
threads: the initial states of Batch are those of BatchPromise and every step is a step
of it or a stutter. It needs that there are no more replies than threads
(`FewReplies`): when the counter is zero, every handler that may still reply is on a
thread of its own, and so was every one that has.

**Backlog.** `Retained` and `Durable` are inductive together with the types. The next
three rest on `Plain`: until somebody calls lock nothing waits in `_ss` or in the buffer.
`Ahead` follows a message from its record to the target; `Replaying` says that what a
restore owes has been replayed or is still to be read. `LossCorrect` assumes `Alone`: no
lock, rotate or end of the process. Its invariant `Safe` says that what a restore has
read was replayed, that what a callback will truncate was replayed or is in one of the
windows, and that a message at its second reading of `_active` has been recorded or will
be forwarded. `RecordedOnceCorrect` is what is true of `RecordedOnce`, which backlog_once
violates: until somebody calls lock no message is recorded twice, for one that is in the
file is past its call's only write. `HolderCorrect` and `ReadingCorrect` are the safety
half of `CallsReturn`: one restore at a time holds the mutex, it stands in the file or
right behind it, nobody changes the file under it and it goes forward line by line; so it
lets go of the mutex after as many steps as there are lines. `OnItsWayCorrect` is the
safety half of `OutageReplayed`: while the link is up, each record was passed on, or its
call will pass it on, or a restore of the link is before it (`ToCome`), unless the stop of
the program cut that restore short. It assumes that no restore is cancelled.

**Queue.** `OneFate` counts places; it follows from `Places` (a message is in one place,
once, and what has arrived is somewhere) and `Returns` (a request executed is with the
target, on its way back, answered or lost). `Order` holds for two threads as for one,
because it speaks of what left the queue and not of what ran first. `TrackingCorrect`
assumes `Tracking`. `RefusedCorrect` (a message is executed once at most, and never after
it was refused) and `BoundedCorrect` (both workflows keep their bounds) are stated in
QueueProofs only. `PromiseCorrect` maps each action to one of QueuePromise. That fewer
messages are overtaken than there are threads needs that a message arrives once
(`ArrivedOnce`), that what waits before one that a thread holds is itself in somebody's
hands (`Order`), and that each thread holds one message at most (`Places`); then it is
counted. The room is counted in the same way.

**Broker.** `Config` says from which configuration each part comes in the middle of a
restart. With it a message that was checked by configuration i and scanned by j, with
i no later than j, went where these two send it. `PromiseCorrect` is the refinement of
BrokerPromise: of the steps of `restart` only `InstallRules` is seen. `MeantCorrect` is the
broker's half of `RoutedAsMeant`: for any meaning of the matchers, if they match only what
they mean then a message goes to a rule that means it, and if they match all of that, to
the first one, whatever was reconfigured before. That the matchers keep to their meaning
is the other half. `MatchSound`: a matcher says that it matches only what its pattern means,
whatever error it was called with. `MatchComplete`: an answer without an error is right, for
an error is never reset, and a matcher that has none has tried everything before it refuses. Both
hold when values are compared by the bits of values. `NoError` says where errors come from:
an object in a pattern, or a message without parameters. `RoutedAsMeantCorrect` joins the
halves: whatever was reconfigured, a message goes to no rule whose pattern does not mean it,
and to the first whose pattern does unless a matcher raises an error and has a reason to.

The matchers are proved for every pattern and value, nested as deep as they may be. No
induction theorem with an operator for a parameter is needed: `Recursion` says that a step
which looks only at what is less deep (`Local`) is computed everywhere by some function, built
depth by depth, and from it `MatchUnfolds` and `FitsUnfolds` say that the definitions compute
what they seem to; and `RankInduction` is about the set of patterns for which something has
been shown. `LoopInvariant` is the induction over the loops, from which `SearchFinds` (a loop
that looks for one) and `CheckPasses` (one that asks for all) follow.

**Stub.** `Hands` says that a message keeps the options of the one `stab_handler` of the
connection; `Identifiers`, that two messages at the target with one identifier are in
`shared`. So a request answered in advance finds its own identifier in `_wait_responce`
when its response comes, and the response is stopped. `NoneForgottenCorrect` is the safety
half of `EventuallyAnswered`: what is over has its answer or has lost it in one of the ways
of `Unanswerable`. It needs `Answerers`: a handler that does nothing was made in advance
mode, and a wrapped one by a `stab_handler` that goes only when the connection is closed.

**Fanout.** Repli and Hub have invariants of their own, and `Link` joins them, for any
number of calls at once: a call of the hub by the repli is within the call of the repli
(`Call`), what was over when a call began is over for good, and everybody has what they
got in order (`InOrder`). Whoever gets a message gets it from a call that is not over, so
it is not one that had returned when another began, and it may stand at the end of what
they got. `SameOrderCorrect` says nothing of calls that overlap, for which it is false.
`RepliByItself` and `HubByItself` say that every step of the composition is a step of Repli
and of Hub, or changes nothing in it: what is proved of one by itself holds in it.

**Extract.** `Complete`: every value that begins behind the scan lies in something sent.
It holds for every parser, because the scan skips either one character or a whole value.
`GetsOnCorrect`, the safety half of `ScanEnds`, bounds the scan: `StepsLeft` is a natural
number and less after each step, at most two for each character of the buffer.

**Statistics.** A prototype is made under the mutex from the options of that moment, and
`reconfigure` clears the caches under it; a call that met statistics has a meter.

**Only model-checked:** liveness, which is beyond TLAPS. Of `CallsReturn`, `OutageReplayed`,
`EventuallyAnswered` of Stub and `ScanEnds` it is proved what a state may never be, see
`HolderCorrect` and `ReadingCorrect`, `OnItsWayCorrect`, `NoneForgottenCorrect` and
`GetsOnCorrect`. That fairness then leads to the end is checked. Of `EventuallyAnswered` of
Queue `OneFateCorrect` is that half, and of the liveness of BatchPromise `NoLossCorrect`.

## 6. What is not modelled

- The tables of field names for the JSON serializer (`*_config_json.hpp`) and the
  registration of objects with the framework (multitons, `jsonrpc_package.cpp`): no
  state and no control.
- JSON parsing, serialization, logging; the names and values of meters.
- The base class, workflows and connections: outside the repository, and modelled only
  by what the source uses of them.
- Backlog: the rate limit, which only sleeps; records that do not parse back; a target
  that calls the backlog back and waits for its mutex (`backlog.cpp:289`), which depends
  on a chain of targets that a configuration builds.
- Data races are undefined behaviour in C++. In Broker a reader that is overtaken may
  come to any target. In Queue each reading of `_callback_workflow` is one step, and in
  Stub so is each reading of the options; tearing of these is not modelled.
- Broker: a rule whose target is empty, and `perform_outgoing`, which passes everything
  on.
- Stub: result handlers of outgoing requests, targets that answer notifications.
- Repli: the wrap-around of the counter of identifiers.
- Matchmaker: regular expressions have one metacharacter.
