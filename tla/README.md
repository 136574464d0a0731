# TLA+ models of the TKNC inference and billing code

TKNC is a Bitcoin-derived node that sells LLM inference for its coin. A client
node admits a request, reserves its cost, forwards it to a miner, bills the
answer against a spending-limit record ("escrow") and pays the miner one whole
TKNC at a time. A miner node answers with a local LLM engine and shares its GPU
between inference and proof of work. This directory models that added code; the
Bitcoin Core code below it appears only as far as the added code uses it.

Paths are relative to the repository (`src/src/...`). `PROJECT.json` maps every
definition that models code to its lines.

## The system's parts

| part | source | here |
|---|---|---|
| escrow billing | `rpc/escrow.cpp`, `escrow/*` | `EscrowBilling`; its promise in `SpendingAccount` |
| escrow merge by the operator | `rpc/escrow.cpp`, `rpc/tknc_apikey.cpp` | `EscrowReconfigure` |
| miner-side payment check | `rpc/escrow.cpp` | `MinerPayment`, composed with `EscrowBilling` |
| API gateway and local proxy | `inference_gateway.cpp` | `InferenceGateway` |
| miner worker pool, mode switcher, token limit | `miner/api_server.cpp`, `miner/mode_switcher.h`, `model/llm_inference.cpp` | `MinerWorkers` |
| API requests over P2P, inference engine, router, backends | `net_processing.cpp`, `rpc/net.cpp`, `net/inference_engine.cpp`, `net/*backend*` | `ApiForwarding` |
| emission schedule | `economics/emission.h` | `Emission` |
| mining loop, coinbase rule | `miner/miner.cpp`, `validation.cpp`, `node/miner.cpp` | `MiningLoop` |

A client reaches a miner in two ways. Over HTTP the proxy or the gateway admits
the request (`CanAffordInference`), streams the answer (`InferenceGateway`) and
bills it (`CheckAndDeductEscrow`); the miner's node checks that it was paid for
what it served before (`MinerPayment`), and the miner's program answers with its
worker pool (`MinerWorkers`). Over the peer-to-peer network an RPC sends an
APIREQ, which nodes forward to a miner they know of (`ApiForwarding`). When no
request is active the miner's program mines (`MiningLoop`). `*Proofs` modules
hold theorems, `MC*` modules the instances for TLC.

## Modules

### EscrowBilling
One record, its user's wallet, the chain, and request threads. A request goes
through the labels of `pc`:

    idle - screen - balance - funds - admitted - serving - billing - paying - recording - release

`FindEscrow` to `CheckFunds` are `CanAffordInference`, cut where it gives up the
mutex: it copies the record, decides on the copy, may write part of it back,
reads the wallet balance and compares it with the reservations. `Deduct`, `Pay`
and `RecordTransfer` are the one critical section of `CheckAndDeductEscrow`. It
is three steps because it writes the record, broadcasts a transfer and writes
the record again, and the process can stop in between; `mutex` keeps every
other section out meanwhile. The environment locks, unloads and funds the
wallet, mines transfers, suspends, closes and expires the record, and crashes
the process, which keeps the record and the chain and loses the rest.

Amounts are integers in units of `Coin`; the rounding of rates, the minimal cost
of 1, the cut to the remaining limit, `INT64_MAX` as "unlimited" and the
overflow test are those of the code. A partial transfer pays its fee out of the
amount: the record counts the whole amount, and so does the model. `Thread` says
which requests share an event loop: such requests never interleave inside a
handler. The node starts two loops, the gateway's and the proxy's (`init.cpp`),
and RPC threads bill as well, so every run gives each request a thread of its
own. `InferenceFails` releases the reservation; `ProxyForgets` is the error
paths of the proxy that do not. Assumed: the record has a user wallet address,
and the API key has one record. `served`, `paid`, `deposited` and `crashes` are
history variables.

### EscrowReconfigure
Extends `EscrowBilling` with an operator thread in `tknc_setinferproxytarget`:
copy the record, edit the copy, `WriteSpendingLimitFromP2P`, which reads the
stored record without the mutex, merges and writes. Closing the record for a
change of miner is included, the record of the new miner is not. The other
caller of the merge, `ESCROWSYNC`, is sent when a record is created and accepted
from outbound peers; what it does to a node that bills the record itself is not
modelled.

### InferenceGateway
The contexts of streamed requests. Each server is one libevent loop, so one
callback is one action: `HandleChatCompletions`, `StreamKeepaliveCb`,
`StreamMinerReadCb`, `StreamMinerEventCb`, and `StreamClientCloseCb` for the
gateway, `ProxyHandler`, `ProxyReadCb`, `ProxyEventCb` and `ProxyClientCloseCb`
for the proxy. A context records which callbacks still point at it, how far the
reply is and what was forwarded. The text of an answer is reduced to what
billing tells apart: content, error text, nothing. `silent` holds the requests
whose miner sends nothing more (`MinerFallsSilent`); until then it may go on
sending for ever. Assumed: a connect call that returns an error has run no callback. Stopping a server closes its connections,
which is `ClientLeaves`. After the last chunk the loop of `ProxyReadCb`
evaluates `ctx->finished` of a context that is already deleted when more input
is buffered; the model stops at the deletion.

### MinerWorkers
The task queue with its condition variable, the workers, `ModeSwitcher` and its
`RequestGuard`, the shared token limit of the engine, the mining loop's
`CleanupTimeoutRequests` and `StopWorkerThreads`. A step is one atomic operation
or one section under a mutex. Going to sleep is a step of its own (`Block`),
because the stop flag is cleared without `queue_mutex_`. `CounterSize` stands
for the 2^64 values of `active_requests`, so that a count below zero wraps.

### SpendingAccount
What a spending limit promises: billed one cost at a time while open, never
beyond a prepaid limit, paying out only whole TKNC already billed, never billed
again once closed. `EscrowBilling!Account` maps its record to it: `open` is what
`CheckAndDeductEscrow` would still bill, `paid` is what has left the wallet.

### MinerPayment
Extends `EscrowBilling` (the client's node) with the miner's node: its counter
of served TKNC, its wallet, whether the record has been synced to it, and where
each request is. Each request carries the header with the pending transfers,
written after the reservation by the gateway and before the balance check by the
proxy. A crash loses the client's requests, a restart the miner's counter.
`dropped` is history: the transfers that are neither confirmed nor on the
pending list, because a stale write-back or a crash lost them. Everything else
that can happen to the client's node is `Outside`, the same steps as in
`EscrowBilling`.
`ESCROWSYNC` is sent only when a record is created, so the pending list the
synced copy holds is empty. Transfers that become conflicted are not modelled.

### ApiForwarding
Nodes, their connections (a queue each way), the two tables of promises of a
node and the RPC calls. A call without an explicit peer goes through the router
(`LocalBackend`, `RemoteBackend`) first and then sends the request itself. The
message handler of a node is one thread: while it waits for the answer to a
forwarded request it takes no message, so `hand[n].busy` guards every handler
action. Overwriting a promise breaks the future of its waiter (`Entered`). Ids
are a second and a counter of the process; `Second` is the number of ids in a
second. Keeping the promise and sending the request is one step; a timeout may
happen at any time; a connection may be lost at any time, with what is on it.
Advertisements are constant. `answered` counts the answers of miners.
A relay to the local miner that fails may have run the prompt
before (`P2PRelayToLocalMiner` fails also after it has sent it), and the request
is then forwarded: such a run is part of `ForwardAPIREQ` and `LocalBackend` and
is not counted. A message about a lost request stays harmless: the
erased promise is looked up and not found.

### Emission, MiningLoop
`Emission` has the table of checkpoints, the partial loop, the reported total
and the subsidy as functions of the constants. `MiningLoop` is `MinerThread`
with `FetchBlockTemplateFromRPC` and `SubmitBlockToNode`, cut at its RPCs and at
its accesses to `g_current_mining_height`; the status thread, which writes the
same variable (`GetMiningInfo`); and a node whose chain grows, reorganises, and
which may be up, syncing, without template, or down. Which check is due is left
open. A block is judged by `CoinbaseAccepted`, the rule of `ConnectBlock`.

## Runs

| run | result | what it shows |
|---|---|---|
| `billing_money` | holds | Two requests, pay as you go and prepaid, one crash: nothing is overpaid, the record accounts for what was sent, reservations cover what is in flight and stay within a bound, debt is bounded, a prepaid total is kept, admission and billing agree on what is exhausted; and all of it implements `SpendingAccount` |
| `billing_untracked` | violated | On two threads the write-back of `CanAffordInference` drops a transfer recorded since its copy was made |
| `reconfigure_merge` | holds | On two threads beside the operator's: the merge never invents a transfer or a cost, and keeps to a prepaid total; no billing is lost and no transferred amount goes down but by a write between the merge's unlocked read and its write; no thread stays inside the node's code |
| `payment_exposure` | holds | The debt the miner counts is bounded; a client that has paid is refused only over a transfer its header leaves out, for one of four reasons: confirmed, dropped by a stale write-back, made after the header, or lost in a crash |
| `payment_refused` | violated | A client whose payments are received and confirmed is refused: confirmed transfers are off the list that the miner adds up |
| `gateway_both` | holds | No callback outlives its context and none is missing while it lives, replies are well formed, answers are accounted for once, no release takes back what another context reserved, the context of a silent miner ends |
| `gateway_leak` | violated | The proxy deletes a context whose miner failed before the response headers, and its reservation stays |
| `workers_pool` | holds | Exact active count, PoW restored after the last request, no task lost or repeated, no wake-up lost but one; tasks are answered; `Stop` returns unless a worker missed it |
| `workers_timeout` | violated | A slow request is subtracted twice, the count wraps, the node stays in LLM mode |
| `forwarding_chain` | holds | Waiters are in their tables; a call gets the answer to its own prompt unless ids collide; forwarding never multiplies an answer; calls return and queues empty |
| `forwarding_relay` | violated | The handler waits for an answer that only it could read |
| `mining_reward` | holds | Table and loop agree, supply stays within what is reported, a block on the tip has an acceptable coinbase, a lost node stops the miner, the miner gets back to the tip |

A violated run states what a comment or message of the code says;
`PROJECT.json` quotes it.

## Known deviations

Behaviour met while modelling that differs from what a comment says or a reader
expects, beside the violated runs. Where a property of a passing run bounds it
or names it as its exception, the property is given.

* `WriteSpendingLimitFromP2P` takes the mutex only to write and can undo a
  concurrent billing (`LossNeedsRace`), after which the confirmed amount may be
  ahead of the transferred one; it never adds anything
  (`MergeInventsNothing`). "Update state if the client reports a higher state"
  (`rpc/escrow.cpp:1772`): it takes over any state that differs, so a stale copy
  reopens a closed record.
* Concurrent requests are to see a decreasing balance and be refused "before the
  wallet is actually drained" (`rpc/escrow.cpp:36`). The check compares the
  balance with what others have reserved, without the request's own cost, and
  reserving is a later step, so the reservations can exceed the balance;
  `OverbookingBound` says by how much.
* A failed transfer "will be retried on the next billing cycle"
  (`rpc/escrow.cpp:1663`), but only newly crossed coins are paid. A balance that
  covers the coin and not the fee is left in the wallet. A partial transfer is
  recorded with its fee. A limit worth less than a token is admitted and never
  billed (`AdmissionMatchesBilling`).
* The miner's count is of completed answers, since its start: an answer whose
  client leaves the gateway is neither billed nor counted, and what is served
  before the record is synced is not verified. `CountedDebtBound` is about the
  count.
* After the last chunk the loop of `ProxyReadCb` evaluates `ctx->finished` of a
  context that is already deleted. The timeouts of the miner connection start
  again at every read, so a miner that keeps sending keeps its context
  (`ContextsEnd` is about the others).
* `OnRequestEnd` can switch the GPU to PoW under a request that has just
  started, which `miner/api_server.cpp:2609` says is prevented. The engine's
  token limit is shared, so "max_tokens > 0 means generate up to N tokens"
  (`miner/api_server.cpp:2620`) does not hold of requests that overlap, and a
  request without `max_tokens` inherits that of the one before it.
  `StopWorkerThreads` can miss a worker that is about to sleep (`StopReturns`).
* The remote backend's key is never the id on the wire, so its request is never
  answered, against "Response delivered via HandleAPIResponse() when APIRESP
  arrives." (`net/inference_engine.cpp:163`), and the prompt may run again when
  the call then sends its own. It may also run twice when a relay fails after
  the miner ran it and the request is forwarded. Two calls under one id may
  swap answers (`OwnAnswer`). Advertisements that form a cycle let a request
  circulate without end, as there is no hop count. `p2pinference` bills an
  "Error: ..." answer like any other.
* The comments of `emission.h` give the reward of a block from the supply
  before it, the code from the supply after it: the reported total overstates
  the coins that exist, and jumps to the full supply at the end. The miner never
  claims fees, though its log says "only fees" at the end. The status thread can
  store an old height, after which a block claims too much and is refused
  (`CandidateAccepted`).

## Bounds

`billing_money`: `Coin = 3` with one-token costs of 1 and 3 makes a billing cross
no boundary or one, in each alignment; a deposit of 2 against a fee of 1 pays for
a partial transfer, two deposits for a full one, none for a failed one;
`MaxServed = 7` is two boundaries and one unit more, so that a third whole coin
of debt is in reach. The prepaid total of 1 is below the price of a token, that
of 4 is not a multiple of it. A reservation of 3 exceeds one deposit and nearly
uses up two. With one deposit a second request is refused after the first one's
reservation and admitted before it; with two it is admitted either way, and the
reservations exceed the balance.
`billing_untracked` and `reconfigure_merge` use `Coin = 2`, the latter with a
prepaid total of a coin and a half as well. One crash reaches every point of the
critical section. Two requests are the least that can interleave; the theorems
cover any number. `OwnerSteps` says which of locking, unloading, suspending and
expiry a run has: all, but in the runs with the miner's node.

`payment_exposure`: one gateway and one proxy request; `Coin = 1`, no fee and
costs of one coin, so that every billing pays and a transfer fails by an
unloaded wallet or by chance; `MaxTracked = 3` is one coin past the grace of
two; `MaxFailures = 1` is one crash of the client or one restart of the miner.
`payment_refused` needs neither. `gateway_both`: a gateway and a proxy
context share nothing but the reservations, so one of each is enough.
`workers_pool`: two workers, two requests and a queue of one reach refusal,
sleep, wake-up, timeout and stop in every order; three requests with a queue of
two were checked as well for the invariants (1.15 million states);
`CounterSize = 8` exceeds any count. `forwarding_chain`: the shortest
chain with a node that forwards, serves and calls; two seconds of ten ids make
ids equal and different. `mining_reward`: twelve blocks of emission with a
checkpoint every four; the miner starts two blocks before the end, where the
remainder becomes too small to divide.

Deadlock checking is off because all of these systems may come to rest (no more
requests within the bounds).

## Fairness

Billing: a thread inside the node's own code runs on, and one that waits for the
mutex, which is released again and again, gets it in the end (strong fairness of
`HandlerStep`). Nothing is assumed of clients and miners: a request may stay
with its miner for ever. Gateway: once a miner has fallen silent the timeout of
its connection runs out and the event callback is called
(`bufferevent_set_timeouts`); a miner that goes on sending is under no fairness,
because every read starts the timeouts again. Workers: each thread runs on, and
answers end.
Forwarding: RPC threads and message handlers run, their waits end at the latest
with the timeout of 86400 s, and a handler serves its peers in turn; a call need
never start. Mining: the loop runs on (weak); as 30 s pass again and again, a
check that can be due in infinitely many rounds is made (strong, for the IBD
check and the refresh). The node is under no fairness.

## Proofs

Every safety property the passing runs check is also proved: for every number of
requests, workers, nodes or calls, every interleaving and all constants the
named assumptions allow. No theorem restricts the threads.

**`SumTheorems`**: sums over a finite set. The provers cannot use the library's
induction theorems, so induction is by a smallest counterexample: `NatMinimum`
and `SmallestSet` give one, and the step is refuted on it. With that
`SumIsFold` shows that the community fold has the recursion of a sum, and
`LoopExists` that a loop defined by recursion on a natural number is a function
with that recursion. What the other modules cite is how a sum changes with one
value (`SumChange`) and one element (`SumRemove`), how it splits (`SumSplit`)
and that it grows with the set (`SumSubset`).

**`EscrowBillingProofs`**: `TypeCorrect`, `NeverOverpaysHolds`,
`TransfersAccountedHolds`, `PrepaidLimitHolds` and `DebtBoundHolds` follow from
`BillingCorrect: Spec => []BillingInv`. The properties are not inductive by
themselves. `SectionOK` adds what the thread inside the critical section knows:
it holds the mutex, what it is about to pay is covered by coins already
consumed, and what it is about to record has been sent; this carries
`NeverOverpays` and `TransfersAccounted` over the gap between the two writes and
over crashes. `CopyOK` ties the copy a request decides on to the record's total.
`DebtBound` counts `Tickets`, the requests that passed the debt rule or will
pass it on the copy they hold: each can add one more cost, and passing the rule
is what buys a ticket. `ReservationsCoverHolds` rests on `ReservationInv` (a
request holds something only from `ReserveEscrowCost` to `ReleaseEscrowCost` or
until the proxy forgets it). `OverbookingBoundHolds` counts in the same way as
`DebtBound`: a request between its balance check and its reservation stands for
one reservation still to come. Assumptions: `Coin` is positive, amounts are natural, no
cost exceeds `MaxCost` and no reservation `MaxReservation`, the set of requests
is finite.

**`SpendingAccountProofs`**: `BillingImplementsAccount`, the refinement: under
`BillingInv`, `Deduct` is `Bill`, `Pay` is `Pay` or a stutter, suspending,
closing and expiry are `Close`, and every other step, crashes included, leaves
the account alone. `AdmissionMatchesBillingHolds` by its own induction.
For the merge, `ReconfigureCorrect` shows that the copies are ordered
(`CopiesOrdered`): what the operator's copy says was consumed is not ahead of
the record, nor later of what the merge read. `LossNeedsRaceHolds` follows, for
requests on any threads. It does not speak of `confirmed`: of two threads in
`CanAffordInference` one can write back an older one.
`MergeInventsNothingHolds` says what survives every race. It is inductive
with `Within`, the same bounds for the operator's copy and for the record the
merge read, because a maximum of two pasts is never ahead of the present; and
with `SectionsOK`, because the write of the merge takes the mutex, so it never
falls between a transfer and the write that records it.

**`MinerPaymentProofs`**: `PaymentImplementsBilling: MPSpec => Spec` carries all
billing theorems over to the client beside the miner's node (`PaymentBooks`).
`CountedDebtBoundHolds` is `DebtBound` seen from the other side: a request the
miner admits has passed its debt rule, and while it runs it counts as one cost.
`RefusalsExplainedHolds` needs to know where a transfer can be: `AllListed` says
that each is on the pending list, on chain, in `dropped`, or in the hands of the
one request about to record it, through write-backs and crashes; hence a header
holds every transfer made before it but for those on chain or dropped
(`HeaderOK`). Sums over sets of transfers grow with the set, which does the
rest.

**`InferenceGatewayProofs`**: `GatewayInvariant` describes a context by its
life: a live one can be reached by its client and by the connection to the
miner and has told the client as much as its stage says; a dead one is not
pointed at and has been accounted for as its answer demands. `GatewayTypes`, `CallbacksAliveHolds`, `RepliesInOrderHolds`,
`AccountedOnceHolds`, `ProxyBillsForwardedHolds` and
`GatewayAccountsForwardedHolds` follow. `PendingCoversHolds` adds `PendingInv`:
what is pending is the sum of what all contexts have not released, dead ones
included, and a dead one that has not released is the proxy's. Hence also
`GatewayReleasesAll`: without the proxy `EveryReservationReleased` holds, so the
leak of the run `gateway_leak` is the proxy's alone.

**`MinerWorkersProofs`**: `WorkersInvariant` is the types, `CountsActive` (an
argument about cardinalities modulo `CounterSize`), and that while no request
was written off someone is going to restore PoW whenever the mode is not PoW.
`CountsActiveHolds`, `RestoresPoWHolds` and `WorkersTypes` follow.
`HandledOnceHolds` rests on `TaskInv` (a task is queued exactly while it is once
in the queue or with one worker).
`SleepersWokenHolds` is the safety half of `EveryTaskAnswered` and `StopReturns`,
which TLC checks: no wake-up is lost but the one `StopReturns` names. `SleepInv`
gives the reason: who is about to wait holds `queue_mutex_` and the queue is
empty, so no task comes between the predicate and the wait. It needs a pool that
is not empty.

**`ApiForwardingProofs`**: `ForwardingInvariant` is inductive with the facts that
messages carry ids that were sent and answers that miners gave, that the remote
backend's keys stay below every id on the wire (they count its calls, hence
`Cardinality(Calls) < Second`), and that a table entry belongs to a waiter.
`ForwardingTypes`, `WaitersEnteredHolds` and `OwnAnswerHolds` follow.
`OneAnswerPerRequestHolds` rests on `TallyInv`: the answers to a prompt and its
requests on all connections together never exceed the ids its call used.
Delivering a request takes one off its connection before it is answered or sent
on, and a new id is new to its call. Any topology and any
advertisements are allowed, cycles included; the set of connections is finite.

**`MiningLoopProofs`**: `TableMatchesLoopHolds`: a lookup and at most `Interval`
steps of the loop give what the loop gives from the first block, since decay over
a sum of blocks is decay twice. `LoopInvariant` adds what carries the other two
through reorganisations: hashes are not reused, no block created more than the
subsidy of its height, a template knows the height after its parent, and the
reward it claims is that of its height or a later one unless the height was set
back. As the schedule only falls, a later height claims less, whence
`CandidateAcceptedHolds`; adding the subsidies up gives
`SupplyWithinReportedHolds`.

The type invariants of `EscrowBilling`, `InferenceGateway`, `MinerWorkers` and
`ApiForwarding` are checked by proof only; no run repeats them.

Only model-checked: the liveness properties `RequestsReturn`, `ContextsEnd`,
`EveryTaskAnswered`, `StopReturns`, `CallsReturn`, `MessagesTaken`,
`StopsWithoutNode` and `WorksOnTip`. They rest on fairness, and so on `ENABLED`,
which this prover does not reason about.

## Not modelled

* Several records of one API key, the repair of a record without user wallet,
  the record created for a new miner, an `ESCROWSYNC` that reaches a node which
  bills the record itself, the price commitment; read-only RPCs.
* `MINER_INFO`, `APIKEYSYNC`, the scores by which a peer is chosen (any choice
  is possible), the billing inside the P2P handlers.
* Code that no program reaches: the connection manager, the review chain, the
  expiry and heartbeat of peer sessions, the clean-up of the registries, and the
  P2P LLM protocol they would use. There are no executions to be faithful to.
* API keys: a table; its unlocked balance update is listed as a hazard.
* Discovery, DHT, NAT traversal and the WebSocket proxy: socket I/O.
* Hash kernels, GPU code, model files, receipts, dynamic pricing (floating-point
  estimates that are displayed): numeric kernels, file I/O and formatting.
* The Bitcoin Core base, except where the code above uses it, and the graphical
  wallet with its translation catalogues (`qt/locale/*.ts`), which are data.
