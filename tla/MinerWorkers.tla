---------------------------- MODULE MinerWorkers ----------------------------
(***************************************************************************)
(* The miner's HTTP worker pool, the ModeSwitcher that shares the GPU      *)
(* between proof of work and inference, and the mining loop that cleans up *)
(* after it (miner/api_server.cpp, miner/mode_switcher.h, miner/miner.cpp, *)
(* model/llm_inference.cpp).                                               *)
(*                                                                         *)
(* Threads: the event loop queues chat requests, the workers answer them,  *)
(* the mining loop calls CleanupTimeoutRequests while the mode is not PoW, *)
(* and one thread may stop the pool.  A step is what no other thread can   *)
(* see the middle of: an atomic operation, or a section under one mutex.   *)
(* SwitchToMode is one step: its mutex serialises the switches, and the    *)
(* wait for the GPU inside it is bounded.  A spurious wakeup would only    *)
(* repeat Take, and is left out.                                           *)
(***************************************************************************)
EXTENDS Integers, Sequences, FiniteSets

CONSTANTS
    Workers,        \* the threads of StartWorkerThreads (16 in the code)
    Requests,       \* request ids
    MaxQueue,       \* MAX_QUEUE_SIZE
    CounterSize,    \* number of values of active_requests (2^64)
    Slow,           \* the requests that may run for more than 30 s
    MaxTokens,      \* request -> max_tokens: -1 unlimited, 0 unspecified
    AnswerLength,   \* bound on the tokens of an answer
    Stops           \* whether Stop is called

ASSUME WorkersAssumption ==
    /\ IsFiniteSet(Workers) /\ Workers # {} /\ IsFiniteSet(Requests)
    /\ MaxQueue \in Nat \ {0} /\ AnswerLength \in Nat
    /\ CounterSize \in Nat /\ CounterSize > Cardinality(Workers)
    /\ Slow \subseteq Requests
    /\ MaxTokens \in [Requests -> Nat \cup {-1}]
    /\ Stops \in BOOLEAN

VARIABLES
    queue,      \* task_queue_
    qlock,      \* holder of queue_mutex_, or Nobody
    running,    \* workers_running_
    signal,     \* the event loop is about to call notify_one
    stop,       \* progress of StopWorkerThreads
    pc, cur,    \* per worker: where it is and its task
    active,     \* active_requests
    mode,       \* current_mode
    gpu,        \* RealGPUMiner::s_current_mode
    rlock,      \* holder of request_mutex, or Nobody
    stamps,     \* keys of request_timestamps
    old,        \* those stamped more than 30 s ago
    n_predict,  \* the engine's config.n_predict
    engine,     \* holder of inference_mutex, or Nobody
    tokens,     \* per worker: tokens generated for its task
    fate,       \* per request: new, queued, rejected, cut (by the limit), done
    written,    \* history: requests written off by CleanupTimeoutRequests
    missed      \* history: workers about to sleep when Stop notified them

pool == <<queue, qlock, running, signal, stop>>
switcher == <<active, mode, gpu, rlock, stamps, old>>
llm == <<n_predict, engine, tokens>>
history == <<written, missed>>
vars == <<pool, pc, cur, switcher, llm, fate, history>>

Nobody == "nobody"
Miner == "miner"
NoTask == "none"
ASSUME NamesAssumption ==
    Nobody \notin Workers /\ Miner \notin Workers /\ NoTask \notin Requests

Idle == {"check", "want", "block", "blocked", "woken", "exited"}
Starting == {"add", "llm", "gpu", "stamp"}
Working == {"limit", "generate", "decode"}
Ending == {"sub", "erase", "pow", "restore"}

PoolType ==
    /\ queue \in Seq(Requests) /\ Len(queue) <= MaxQueue
    /\ running \in BOOLEAN /\ signal \in BOOLEAN
    /\ stop \in {"no", "notify", "join", "joined"}
    /\ qlock \in Workers \cup {Nobody} /\ missed \subseteq Workers
    /\ fate \in [Requests -> {"new", "queued", "rejected", "cut", "done"}]

SwitcherType ==
    /\ active \in 0..(CounterSize - 1) /\ written \in Nat
    /\ mode \in {"POW", "LLM"} /\ gpu \in {"IDLE", "POW_MINING", "INFERENCE"}
    /\ stamps \subseteq Requests /\ old \subseteq stamps
    /\ rlock \in Workers \cup {Nobody, Miner}

EngineType ==
    /\ n_predict \in Int /\ engine \in Workers \cup {Nobody}
    /\ tokens \in [Workers -> 0..AnswerLength]

WorkerType ==
    /\ pc \in [Workers -> Idle \cup Starting \cup Working \cup Ending]
    /\ cur \in [Workers -> Requests \cup {NoTask}]
    /\ \A w \in Workers : /\ (qlock = w) <=> (pc[w] = "block")
                          /\ (rlock = w) <=> (pc[w] \in {"pow", "restore"})
                          /\ (engine = w) <=> (pc[w] = "decode")
                          /\ (cur[w] = NoTask) <=> (pc[w] \in Idle)

(* What every state satisfies: the locks have holders that are inside the    *)
(* section they protect, and the queue keeps to MAX_QUEUE_SIZE.              *)
TypeOK == PoolType /\ SwitcherType /\ EngineType /\ WorkerType

Init ==
    /\ queue = <<>> /\ qlock = Nobody /\ running = TRUE
    /\ signal = FALSE /\ stop = "no"
    /\ pc = [w \in Workers |-> "check"]
    /\ cur = [w \in Workers |-> NoTask]
    /\ active = 0 /\ mode = "POW" /\ gpu = "IDLE"
    /\ rlock = Nobody /\ stamps = {} /\ old = {}
    /\ n_predict = -1 /\ engine = Nobody
    /\ tokens = [w \in Workers |-> 0]
    /\ fate = [r \in Requests |-> "new"]
    /\ written = 0 /\ missed = {}

Goto(w, label) == pc' = [pc EXCEPT ![w] = label]

(* Mutant: requests are counted up, never down.                              *)
PlusOnly(n) == IF n < 0 THEN active ELSE (active + n) % CounterSize
Plus(n) == (active + n) % CounterSize
-----------------------------------------------------------------------------
QueueFull == Len(queue) >= MaxQueue

(* Mutant: the task is queued and nobody is told.                            *)
NoSignal == signal' = FALSE
Signal == signal' = TRUE

(* The event loop: HandleChatRequest queues a task, or answers 503.          *)
Enqueue(r) ==
    /\ fate[r] = "new" /\ qlock = Nobody /\ ~signal /\ stop # "joined"
    /\ IF QueueFull
       THEN fate' = [fate EXCEPT ![r] = "rejected"] /\ UNCHANGED <<queue, signal>>
       ELSE /\ fate' = [fate EXCEPT ![r] = "queued"]
            /\ queue' = Append(queue, r)
            /\ Signal
    /\ UNCHANGED <<qlock, running, stop, pc, cur, switcher, llm, history>>

Blocked == {w \in Workers : pc[w] = "blocked"}

NotifyOne ==
    /\ signal /\ signal' = FALSE
    /\ IF Blocked = {} THEN UNCHANGED pc
       ELSE \E w \in Blocked : Goto(w, "woken")
    /\ UNCHANGED <<queue, qlock, running, stop, cur, switcher, llm, fate, history>>

(* Mutant: the queue hands out its first task without popping it.            *)
PeekTask == UNCHANGED queue
PopTask == queue' = Tail(queue)

(* Mutant: the wait's predicate does not look at workers_running_.           *)
WaitsForTasksOnly == TRUE
(* Does a worker that finds the queue empty wait?                            *)
WaitsOn == running

(* WorkerThreadFunc.  Take locks queue_mutex_ and evaluates the predicate of *)
(* the wait: a task is popped, the worker leaves, or it goes to sleep, which *)
(* releases the mutex in a step of its own.                                  *)
LoopHead(w) ==
    /\ pc[w] = "check"
    /\ Goto(w, IF running THEN "want" ELSE "exited")
    /\ UNCHANGED <<pool, cur, switcher, llm, fate, history>>

Take(w) ==
    /\ pc[w] \in {"want", "woken"} /\ qlock = Nobody
    /\ IF queue # <<>>
       THEN /\ cur' = [cur EXCEPT ![w] = Head(queue)]
            /\ PopTask /\ Goto(w, "add")
            /\ UNCHANGED qlock
       ELSE /\ UNCHANGED <<queue, cur>>
            /\ IF WaitsOn
               THEN Goto(w, "block") /\ qlock' = w
               ELSE Goto(w, "exited") /\ UNCHANGED qlock
    /\ UNCHANGED <<running, signal, stop, switcher, llm, fate, history>>

Block(w) ==
    /\ pc[w] = "block" /\ Goto(w, "blocked") /\ qlock' = Nobody
    /\ UNCHANGED <<queue, running, signal, stop, cur, switcher, llm, fate, history>>
-----------------------------------------------------------------------------
(* RealGPUMiner::SwitchToMode as one step: the mode is what others read.     *)
GpuToInference == gpu' = "INFERENCE"

(* RequestGuard: OnRequestStart, in the order of its five statements (the    *)
(* interrupt flag it sets is read by no one).                                *)
OnRequestStart(w) ==
    /\ \/ /\ pc[w] = "add" /\ active' = Plus(1) /\ Goto(w, "llm")
          /\ UNCHANGED <<mode, gpu, rlock, stamps, old>>
       \/ /\ pc[w] = "llm" /\ mode' = "LLM" /\ Goto(w, "gpu")
          /\ UNCHANGED <<active, gpu, rlock, stamps, old>>
       \/ /\ pc[w] = "gpu" /\ GpuToInference /\ Goto(w, "stamp")
          /\ UNCHANGED <<active, mode, rlock, stamps, old>>
       \/ /\ pc[w] = "stamp" /\ rlock = Nobody /\ Goto(w, "limit")
          /\ stamps' = stamps \cup {cur[w]}
          /\ UNCHANGED <<active, mode, gpu, rlock, old>>
    /\ UNCHANGED <<pool, cur, llm, fate, history>>

(* Mutant: off by one, as if load were the value before the fetch_sub.       *)
OneLeft(load) == load = 1
LastRequest(load) == load = 0

(* OnRequestEnd: the count goes down outside the lock, the rest is under it. *)
OnRequestEnd(w) ==
    /\ \/ /\ pc[w] = "sub" /\ active' = Plus(-1) /\ Goto(w, "erase")
          /\ UNCHANGED <<mode, gpu, rlock, stamps, old, cur, tokens>>
       \/ /\ pc[w] = "erase" /\ rlock = Nobody
          /\ stamps' = stamps \ {cur[w]} /\ old' = old \ {cur[w]}
          /\ IF LastRequest(active)
             THEN Goto(w, "pow") /\ rlock' = w /\ UNCHANGED <<cur, tokens>>
             ELSE /\ Goto(w, "check") /\ UNCHANGED rlock
                  /\ cur' = [cur EXCEPT ![w] = NoTask]
                  /\ tokens' = [tokens EXCEPT ![w] = 0]
          /\ UNCHANGED <<active, mode, gpu>>
       \/ /\ pc[w] = "pow" /\ mode' = "POW" /\ Goto(w, "restore")
          /\ UNCHANGED <<active, gpu, rlock, stamps, old, cur, tokens>>
       \/ /\ pc[w] = "restore" /\ gpu' = "POW_MINING" /\ Goto(w, "check")
          /\ rlock' = Nobody
          /\ cur' = [cur EXCEPT ![w] = NoTask]
          /\ tokens' = [tokens EXCEPT ![w] = 0]
          /\ UNCHANGED <<active, mode, stamps, old>>
    /\ UNCHANGED <<pool, n_predict, engine, fate, history>>

SetMaxTokens(w) ==
    /\ pc[w] = "limit" /\ Goto(w, "generate")
    /\ n_predict' = IF MaxTokens[cur[w]] = 0 THEN n_predict ELSE MaxTokens[cur[w]]
    /\ UNCHANGED <<pool, cur, switcher, engine, tokens, fate, history>>

MoreTokens(w) == n_predict < 0 \/ tokens[w] < n_predict

(* Generate and GenerateStream: the whole answer under inference_mutex, with *)
(* the limit read again before each token; the model may end the answer at   *)
(* any token, and a failure ends it as well.                                 *)
Generate(w) ==
    /\ \/ /\ pc[w] = "generate" /\ engine = Nobody
          /\ engine' = w /\ Goto(w, "decode")
          /\ UNCHANGED <<tokens, fate>>
       \/ /\ pc[w] = "decode" /\ MoreTokens(w) /\ tokens[w] < AnswerLength
          /\ tokens' = [tokens EXCEPT ![w] = @ + 1]
          /\ UNCHANGED <<engine, pc, fate>>
       \/ /\ pc[w] = "decode"
          /\ fate' = [fate EXCEPT ![cur[w]] = IF MoreTokens(w) THEN "done" ELSE "cut"]
          /\ engine' = Nobody /\ Goto(w, "sub")
          /\ UNCHANGED tokens
    /\ UNCHANGED <<pool, cur, switcher, n_predict, history>>
-----------------------------------------------------------------------------
(* A request has been running for more than REQUEST_TIMEOUT_SECONDS.         *)
Timeout(r) ==
    /\ r \in (stamps \cap Slow) \ old /\ old' = old \cup {r}
    /\ UNCHANGED <<pool, pc, cur, active, mode, gpu, rlock, stamps, llm, fate, history>>

(* The mining loop, when the mode it reads is not PoW; the store is a step.  *)
CleanupTimeoutRequests ==
    /\ \/ /\ rlock = Nobody /\ mode # "POW"
          /\ active' = Plus(-Cardinality(old))
          /\ stamps' = stamps \ old /\ old' = {}
          /\ written' = written + Cardinality(old)
          /\ rlock' = IF LastRequest(active') THEN Miner ELSE Nobody
          /\ UNCHANGED mode
       \/ /\ rlock = Miner /\ mode' = "POW" /\ rlock' = Nobody
          /\ UNCHANGED <<active, stamps, old, written>>
    /\ UNCHANGED <<pool, pc, cur, gpu, llm, fate, missed>>

(* Stop: clear workers_running_ (without queue_mutex_), notify all, join.    *)
StopWorkerThreads ==
    /\ \/ /\ Stops /\ stop = "no" /\ stop' = "notify" /\ running' = FALSE
          /\ UNCHANGED <<pc, missed>>
       \/ /\ stop = "notify" /\ stop' = "join" /\ UNCHANGED running
          /\ pc' = [w \in Workers |-> IF w \in Blocked THEN "woken" ELSE pc[w]]
          /\ missed' = {w \in Workers : pc[w] = "block"}
       \/ /\ stop = "join" /\ \A w \in Workers : pc[w] = "exited"
          /\ stop' = "joined" /\ UNCHANGED <<running, pc, missed>>
    /\ UNCHANGED <<queue, qlock, signal, cur, switcher, llm, fate, written>>
-----------------------------------------------------------------------------
ProcessAsyncChatTask(w) ==
    OnRequestStart(w) \/ SetMaxTokens(w) \/ Generate(w) \/ OnRequestEnd(w)
WorkerThreadFunc(w) ==
    LoopHead(w) \/ Take(w) \/ Block(w) \/ ProcessAsyncChatTask(w)

Next ==
    \/ \E r \in Requests : Enqueue(r) \/ Timeout(r)
    \/ NotifyOne
    \/ \E w \in Workers : WorkerThreadFunc(w)
    \/ CleanupTimeoutRequests
    \/ StopWorkerThreads

Spec == Init /\ [][Next]_vars

(* Every thread that can run does run.  What a worker waits for (a mutex) is *)
(* held for a bounded time, and the answers end.                             *)
Fairness ==
    /\ WF_vars(NotifyOne) /\ WF_vars(CleanupTimeoutRequests)
    /\ WF_vars(StopWorkerThreads /\ stop # "no")
    /\ \A w \in Workers : WF_vars(WorkerThreadFunc(w))

FairSpec == Spec /\ Fairness
-----------------------------------------------------------------------------
(* The workers between the fetch_add and the fetch_sub of their guards.      *)
Guarding == {w \in Workers : pc[w] \in (Starting \ {"add"}) \cup Working \cup {"sub"}}

(* active_requests is the number of requests under a guard, whatever the     *)
(* threads do in between, less the ones the cleanup wrote off: their guards  *)
(* end as well, so each leaves the count one too low for good.               *)
CountsActive == active = (Cardinality(Guarding) - written) % CounterSize

(* "RAII: auto-restore on scope exit": once no worker holds a request guard, *)
(* the node mines again: the mode is PoW and the GPU is not left inferring,  *)
(* unless the cleanup has ever written a request off.                        *)
RestoresPoW ==
    written = 0 /\ (\A w \in Workers : pc[w] \in Idle)
        => mode = "POW" /\ gpu # "INFERENCE"

(* A queued task is in the queue or with one worker, never both or twice.    *)
HandledOnce ==
    \A r \in Requests :
        Cardinality({i \in DOMAIN queue : queue[i] = r})
          + Cardinality({w \in Workers : cur[w] = r /\ pc[w] \in Starting \cup Working})
        = IF fate[r] = "queued" THEN 1 ELSE 0

(* No wake-up is lost, but the one that StopReturns names.  A task is not    *)
(* left in the queue with every worker asleep or gone and no notification to *)
(* come, and after the notify_all of Stop the only workers still asleep are  *)
(* those that had read workers_running_ before it was cleared.               *)
SleepersWoken ==
    /\ stop = "no" /\ queue # <<>> /\ ~signal
          => \E w \in Workers : pc[w] \notin {"block", "blocked", "exited"}
    /\ stop \in {"join", "joined"}
          => \A w \in Workers : pc[w] \in {"block", "blocked"} => w \in missed

(* Stop returns, unless a worker evaluated its predicate before the flag was *)
(* cleared (without queue_mutex_) and fell asleep after the notification:    *)
(* nothing else keeps Stop waiting.                                          *)
StopReturns == stop = "notify" ~> stop = "joined" \/ missed # {}

(* "Prevent permanent LLM lock": when every request is over, the mining loop *)
(* gets back to PoW.                                                         *)
NoPermanentLLM ==
    (\A r \in Requests : fate[r] \in {"rejected", "cut", "done"}) ~> (mode = "POW")

(* Every accepted task is answered, unless the pool is stopped.              *)
EveryTaskAnswered ==
    \A r \in Requests : fate[r] = "queued" ~> fate[r] \in {"cut", "done"} \/ stop # "no"

=============================================================================
