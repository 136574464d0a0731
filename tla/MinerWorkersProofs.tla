------------------------- MODULE MinerWorkersProofs -------------------------
(***************************************************************************)
(* Proofs about MinerWorkers, for any number of workers and requests, any  *)
(* queue, any limits, with or without Stop.                                *)
(***************************************************************************)
EXTENDS MinerWorkers, FiniteSetTheorems, TLAPS

(* Facts about % that the provers know.                                      *)
LEMMA ModRange ==
    ASSUME NEW a \in Int, NEW n \in Nat \ {0} PROVE a % n \in 0..(n - 1)
OBVIOUS

(* Division with remainder.                                                  *)
LEMMA ModQuotient ==
    ASSUME NEW x \in Int, NEW n \in Nat \ {0}
    PROVE  x \div n \in Int /\ x % n = x - n * (x \div n)
OBVIOUS

(* The remainder of a multiple and a small rest is the rest.                 *)
LEMMA ModOfSum ==
    ASSUME NEW n \in Nat \ {0}, NEW q \in Int, NEW r \in 0..(n - 1)
    PROVE  (n * q + r) % n = r
OBVIOUS

(* A number below the modulus is its own remainder.                          *)
LEMMA ModSmall ==
    ASSUME NEW n \in Nat \ {0}, NEW a \in 0..(n - 1) PROVE a % n = a
OBVIOUS

(* A multiple of the modulus makes no difference.                            *)
LEMMA ModMultiple ==
    ASSUME NEW y \in Int, NEW q \in Int, NEW n \in Nat \ {0}
    PROVE  (y + n * q) % n = y % n
<1>1. PICK p \in Int : y % n = y - n * p BY ModQuotient, Zenon
<1>2. PICK r \in 0..(n - 1) : r = y % n BY ModRange
<1>3. y + n * q = n * (p + q) + r
  <2>1. n * p \in Int /\ n * q \in Int /\ n * (p + q) = n * p + n * q OBVIOUS
  <2>2. QED BY <1>1, <1>2, <2>1
<1>4. (n * (p + q) + r) % n = r BY ModOfSum
<1>5. QED BY <1>2, <1>3, <1>4

(* fetch_add and fetch_sub on a counter that wraps.                          *)
LEMMA ModAdd ==
    ASSUME NEW x \in Int, NEW k \in Int, NEW n \in Nat \ {0}
    PROVE  ((x % n) + k) % n = (x + k) % n
<1>1. PICK p \in Int : x % n = x - n * p BY ModQuotient, Zenon
<1>2. PICK r \in Int : r = x % n BY ModRange
<1>3. PICK m \in Int : m = n * p OBVIOUS
<1>4. r = x - m BY <1>1, <1>2, <1>3
<1>5. x + k = (r + k) + m BY <1>4
<1>6. PICK y \in Int : y = r + k OBVIOUS
<1>7. (y + n * p) % n = y % n BY ModMultiple, Zenon
<1>8. (x + k) % n = (r + k) % n BY <1>3, <1>5, <1>6, <1>7
<1>9. QED BY <1>2, <1>8

Labels == Idle \cup Starting \cup Working \cup Ending

(* Labels under a guard whose request is counted, and labels from which a    *)
(* worker still has to leave its guard.                                      *)
Counted == (Starting \ {"add"}) \cup Working \cup {"sub"}
Busy == Counted \cup {"erase", "pow", "restore"}

(* How the sets of labels lie to each other.                                 *)
LEMMA LabelFacts ==
    /\ Counted \subseteq Busy /\ Busy \subseteq Labels
    /\ Busy \cap Idle = {} /\ Labels = Idle \cup {"add"} \cup Busy
    /\ Starting \subseteq Labels
BY DEF Counted, Busy, Labels, Idle, Starting, Working, Ending

(* How a step of one worker changes the set of counted workers.              *)
LEMMA GuardingMoves ==
    ASSUME pc \in [Workers -> Labels], NEW w \in Workers, NEW label \in Labels,
           pc' = [pc EXCEPT ![w] = label]
    PROVE  /\ label \in Counted => Guarding' = Guarding \cup {w}
           /\ label \notin Counted => Guarding' = Guarding \ {w}
BY DEF Guarding, Counted

(* The workers under a guard are finitely many, fewer than the counter       *)
(* holds.                                                                    *)
LEMMA GuardingSize ==
    /\ IsFiniteSet(Guarding) /\ Cardinality(Guarding) \in Nat
    /\ Cardinality(Guarding) <= Cardinality(Workers)
    /\ Cardinality(Guarding) < CounterSize
    /\ Cardinality(Guarding) = 0 <=> Guarding = {}
    /\ \A w \in Workers \ Guarding : Cardinality(Guarding) + 1 < CounterSize
    /\ \A w \in Workers \ Guarding :
          Cardinality(Guarding \cup {w}) = Cardinality(Guarding) + 1
    /\ \A w \in Guarding : /\ Cardinality(Guarding \ {w}) = Cardinality(Guarding) - 1
                           /\ Cardinality(Guarding) > 0
<1>1. IsFiniteSet(Workers) /\ Cardinality(Workers) \in Nat
  BY WorkersAssumption, FS_CardinalityType
<1>2. Guarding \subseteq Workers BY DEF Guarding
<1>3. IsFiniteSet(Guarding) /\ Cardinality(Guarding) <= Cardinality(Workers)
  BY <1>1, <1>2, FS_Subset
<1>4. Cardinality(Guarding) \in Nat BY <1>3, FS_CardinalityType
<1>5. Cardinality(Guarding) = 0 <=> Guarding = {} BY <1>3, FS_EmptySet
<1>6. ASSUME NEW w \in Workers \ Guarding
      PROVE  Cardinality(Guarding \cup {w}) = Cardinality(Guarding) + 1
  BY <1>3, FS_AddElement
<1>7. ASSUME NEW w \in Workers \ Guarding
      PROVE  Cardinality(Guarding) + 1 < CounterSize
  <2>1. Guarding \cup {w} \subseteq Workers BY <1>2
  <2>2. Cardinality(Guarding \cup {w}) <= Cardinality(Workers)
    BY <1>1, <2>1, FS_Subset
  <2>3. QED BY <1>1, <1>4, <1>6, <2>2, WorkersAssumption
<1>8. ASSUME NEW w \in Guarding
      PROVE  /\ Cardinality(Guarding \ {w}) = Cardinality(Guarding) - 1
             /\ Cardinality(Guarding) > 0
  <2>1. Cardinality(Guarding \ {w}) = Cardinality(Guarding) - 1
    BY <1>3, FS_RemoveElement
  <2>2. Guarding # {} BY <1>8
  <2>3. QED BY <2>1, <2>2, <1>4, <1>5
<1>9. QED BY <1>1, <1>3, <1>4, <1>5, <1>6, <1>7, <1>8, WorkersAssumption

-----------------------------------------------------------------------------
(* Whoever has put the mode to LLM or the GPU to inference still has to end  *)
(* its request, and the one about to restore the GPU is not the only one.    *)
SomeoneRestores ==
    /\ mode = "LLM" \/ gpu = "INFERENCE" => \E w \in Workers : pc[w] \in Busy
    /\ \A w \in Workers : pc[w] = "restore" /\ mode = "LLM"
          => \E v \in Workers \ {w} : pc[v] \in Busy

(* The inductive invariant.                                                  *)
WorkersInv ==
    /\ TypeOK /\ CountsActive
    /\ written = 0 => SomeoneRestores

(* What the inductive invariant says of the runs' properties.                *)
LEMMA WorkersInvImplies == WorkersInv => TypeOK /\ CountsActive /\ RestoresPoW
<1> SUFFICES ASSUME WorkersInv PROVE RestoresPoW BY DEF WorkersInv
<1> SUFFICES ASSUME written = 0, \A w \in Workers : pc[w] \in Idle
    PROVE  mode = "POW" /\ gpu # "INFERENCE"
  BY DEF RestoresPoW
<1>1. ~ \E w \in Workers : pc[w] \in Busy BY LabelFacts
<1>2. QED BY <1>1 DEF WorkersInv, SomeoneRestores, TypeOK, SwitcherType

(* No worker is under a guard at first.                                      *)
LEMMA WorkersInit == Init => WorkersInv
<1> SUFFICES ASSUME Init PROVE WorkersInv OBVIOUS
<1>1. TypeOK
  <2>1. PoolType
    <3>1. queue \in Seq(Requests) /\ Len(queue) <= MaxQueue
      BY WorkersAssumption DEF Init
    <3>2. QED BY <3>1, Zenon DEF Init, PoolType
  <2>2. SwitcherType BY WorkersAssumption, FS_CardinalityType DEF Init, SwitcherType
  <2>3. EngineType BY WorkersAssumption DEF Init, EngineType
  <2>4. WorkerType BY NamesAssumption DEF Init, WorkerType, Idle
  <2>5. QED BY <2>1, <2>2, <2>3, <2>4 DEF TypeOK
<1>2. CountsActive
  <2>1. Guarding = {} BY DEF Init, Guarding, Starting, Working
  <2>2. Cardinality(Guarding) - written = 0 BY <2>1, FS_EmptySet DEF Init
  <2>3. QED BY <2>2, ModSmall, GuardingSize, WorkersAssumption DEF Init, CountsActive
<1>3. SomeoneRestores BY DEF Init, SomeoneRestores
<1>4. QED BY <1>1, <1>2, <1>3 DEF WorkersInv
-----------------------------------------------------------------------------
(* The count of active requests.                                             *)

(* The counter when no guard is entered or left.                             *)
LEMMA CountStays ==
    ASSUME CountsActive, Guarding' = Guarding, UNCHANGED <<active, written>>
    PROVE  CountsActive'
BY DEF CountsActive

(* The counter when one more, or one less, is counted.                       *)
LEMMA CountAdds ==
    ASSUME CountsActive, NEW k \in Int, active' = Plus(k),
           Cardinality(Guarding)' - written' = Cardinality(Guarding) - written + k,
           written \in Nat
    PROVE  CountsActive' /\ active' \in 0..(CounterSize - 1)
<1> DEFINE x == Cardinality(Guarding) - written
<1>1. CounterSize \in Nat \ {0} /\ x \in Int
  BY WorkersAssumption, GuardingSize
<1>2. active = x % CounterSize BY DEF CountsActive
<1>3. active' = (x + k) % CounterSize
  <2> HIDE DEF x
  <2>1. ((x % CounterSize) + k) % CounterSize = (x + k) % CounterSize
    BY <1>1, ModAdd, Zenon
  <2>2. QED BY <1>2, <2>1 DEF Plus
<1>4. CountsActive' BY <1>3 DEF CountsActive
<1>5. x + k \in Int BY <1>1
<1>6. active' \in 0..(CounterSize - 1)
  <2> HIDE DEF x
  <2>1. QED BY <1>1, <1>3, <1>5, ModRange
<1>7. QED BY <1>4, <1>6

(* Without a request written off, the count is zero only if none is counted. *)
LEMMA CountZero ==
    ASSUME CountsActive, written = 0
    PROVE  active = Cardinality(Guarding) /\ (active = 0 <=> Guarding = {})
<1>1. Cardinality(Guarding) - written \in 0..(CounterSize - 1) /\ CounterSize \in Nat \ {0}
  BY GuardingSize, WorkersAssumption
<1>2. (Cardinality(Guarding) - written) % CounterSize = Cardinality(Guarding) - written
  BY <1>1, ModSmall
<1>3. QED BY <1>2, GuardingSize DEF CountsActive

(* The restoring of PoW.                                                     *)

(* A worker that still has to leave its guard is there to restore the        *)
(* mining.                                                                   *)
LEMMA RestoresBusy ==
    ASSUME pc \in [Workers -> Labels], NEW w \in Workers, NEW label \in Busy \ {"restore"},
           pc' = [pc EXCEPT ![w] = label]
    PROVE  SomeoneRestores'
<1>1. pc'[w] = label /\ \A v \in Workers \ {w} : pc'[v] = pc[v] OBVIOUS
<1>2. QED BY <1>1 DEF SomeoneRestores

(* A step outside the guards changes nothing about who restores the mining.  *)
LEMMA RestoresIdle ==
    ASSUME pc \in [Workers -> Labels], NEW w \in Workers, NEW label \in Labels \ Busy,
           pc[w] \notin Busy, pc' = [pc EXCEPT ![w] = label],
           SomeoneRestores, UNCHANGED <<mode, gpu>>
    PROVE  SomeoneRestores'
<1>1. pc'[w] = label /\ \A v \in Workers \ {w} : pc'[v] = pc[v] OBVIOUS
<1>2. \A v \in Workers : pc'[v] \in Busy <=> pc[v] \in Busy BY <1>1
<1>3. "restore" \in Busy BY DEF Busy
<1>4. \A v \in Workers : pc'[v] = "restore" <=> pc[v] = "restore" BY <1>1, <1>3
<1>5. QED BY <1>2, <1>4 DEF SomeoneRestores
-----------------------------------------------------------------------------
(* A lock is taken and released by the label it protects.                    *)
Handover(lock, next, labels, w, label) ==
    next = IF label \in labels THEN w ELSE IF pc[w] \in labels THEN Nobody ELSE lock

Available(lock, labels, w, label) ==
    label \in labels => lock = Nobody \/ pc[w] \in labels

(* A step of one worker keeps the locks and the tasks in order.              *)
LEMMA WorkerMoves ==
    ASSUME WorkerType, NEW w \in Workers, NEW label \in Labels,
           NEW task \in Requests \cup {NoTask},
           pc' = [pc EXCEPT ![w] = label], cur' = [cur EXCEPT ![w] = task],
           (task = NoTask) <=> (label \in Idle),
           Available(qlock, {"block"}, w, label),
           Available(rlock, {"pow", "restore"}, w, label),
           Available(engine, {"decode"}, w, label),
           Handover(qlock, qlock', {"block"}, w, label),
           Handover(rlock, rlock', {"pow", "restore"}, w, label),
           Handover(engine, engine', {"decode"}, w, label)
    PROVE  WorkerType'
<1>1. /\ pc' \in [Workers -> Labels] /\ cur' \in [Workers -> Requests \cup {NoTask}]
      /\ pc'[w] = label /\ cur'[w] = task
      /\ \A v \in Workers \ {w} : pc'[v] = pc[v] /\ cur'[v] = cur[v]
  BY DEF WorkerType, Labels
<1>2. ASSUME NEW v \in Workers PROVE (qlock' = v) <=> (pc'[v] = "block")
  BY <1>1, NamesAssumption DEF WorkerType, Available, Handover
<1>3. ASSUME NEW v \in Workers PROVE (rlock' = v) <=> (pc'[v] \in {"pow", "restore"})
  BY <1>1, NamesAssumption DEF WorkerType, Available, Handover
<1>4. ASSUME NEW v \in Workers PROVE (engine' = v) <=> (pc'[v] = "decode")
  BY <1>1, NamesAssumption DEF WorkerType, Available, Handover
<1>5. ASSUME NEW v \in Workers PROVE (cur'[v] = NoTask) <=> (pc'[v] \in Idle)
  BY <1>1 DEF WorkerType
<1>6. QED BY <1>1, <1>2, <1>3, <1>4, <1>5 DEF WorkerType, Labels

(* What the invariant says of one worker.                                    *)
LEMMA OneWorker ==
    ASSUME WorkersInv, NEW w \in Workers
    PROVE  /\ pc \in [Workers -> Labels] /\ pc[w] \in Labels
           /\ cur \in [Workers -> Requests \cup {NoTask}]
           /\ cur[w] \in Requests \cup {NoTask}
           /\ (cur[w] = NoTask) <=> (pc[w] \in Idle)
           /\ cur = [cur EXCEPT ![w] = cur[w]]
           /\ TypeOK /\ CountsActive /\ WorkerType
           /\ written \in Nat
BY DEF WorkersInv, TypeOK, WorkerType, Labels, SwitcherType

(* A step of a worker between labels outside its guard.                      *)
LEMMA IdleMoves ==
    ASSUME WorkersInv, NEW w \in Workers, NEW label \in Labels \ Busy,
           pc[w] \notin Busy, pc' = [pc EXCEPT ![w] = label],
           TypeOK', UNCHANGED <<active, written, mode, gpu>>
    PROVE  WorkersInv'
<1>1. Guarding' = Guarding
  <2>1. label \notin Counted /\ pc[w] \notin Counted BY LabelFacts
  <2>2. w \notin Guarding BY <2>1 DEF Guarding, Counted
  <2>3. Guarding' = Guarding \ {w} BY <2>1, OneWorker, GuardingMoves, Zenon
  <2>4. QED BY <2>2, <2>3
<1>2. CountsActive' BY <1>1, CountStays, OneWorker
<1>3. written' = 0 => SomeoneRestores'
  BY RestoresIdle, OneWorker, Zenon DEF WorkersInv
<1>4. QED BY <1>2, <1>3 DEF WorkersInv

(* A worker at the head of its loop.                                         *)
LEMMA LoopHeadStep ==
    ASSUME WorkersInv, NEW w \in Workers, LoopHead(w) PROVE WorkersInv'
<1> DEFINE label == IF running THEN "want" ELSE "exited"
<1>1. pc' = [pc EXCEPT ![w] = label] BY DEF LoopHead, Goto
<1>2. /\ label \in Labels \ Busy /\ label \in Idle /\ pc[w] = "check"
      /\ pc[w] \notin Busy /\ pc[w] \in Idle
  BY DEF LoopHead, Labels, Busy, Counted, Idle, Starting, Working, Ending
<1>3. WorkerType'
  <2>1. label \notin {"block", "pow", "restore", "decode"} OBVIOUS
  <2>2. /\ cur' = [cur EXCEPT ![w] = cur[w]] /\ cur[w] = NoTask
        /\ qlock' = qlock /\ rlock' = rlock /\ engine' = engine
    BY <1>2, OneWorker DEF LoopHead, pool, switcher, llm
  <2> HIDE DEF label
  <2>3. QED BY <1>1, <1>2, <2>1, <2>2, OneWorker, WorkerMoves, Zenon DEF Available, Handover
<1>4. PoolType' /\ SwitcherType' /\ EngineType'
  BY OneWorker
  DEF TypeOK, PoolType, SwitcherType, EngineType, LoopHead, pool, switcher, llm, history
<1>5. UNCHANGED <<active, written, mode, gpu>> BY DEF LoopHead, switcher, history
<1> HIDE DEF label
<1>6. QED BY <1>1, <1>2, <1>3, <1>4, <1>5, IdleMoves, Zenon DEF TypeOK

(* A worker takes a task off the queue.                                      *)
LEMMA TakeStep ==
    ASSUME WorkersInv, NEW w \in Workers, Take(w) PROVE WorkersInv'
<1>1. /\ pc[w] \notin Busy /\ pc[w] \in Idle /\ cur[w] = NoTask
      /\ pc[w] \notin {"block", "pow", "restore", "decode"} /\ qlock = Nobody
      /\ rlock' = rlock /\ engine' = engine
  BY OneWorker
  DEF Take, Labels, Busy, Counted, Idle, Starting, Working, Ending, switcher, llm
<1>2. UNCHANGED <<active, written, mode, gpu>> BY DEF Take, switcher, history
<1>3. SwitcherType' /\ EngineType'
  BY OneWorker DEF TypeOK, SwitcherType, EngineType, Take, switcher, llm, history
<1>4. PoolType BY OneWorker DEF TypeOK
<1>5. CASE queue # <<>>
  <2>1. /\ pc' = [pc EXCEPT ![w] = "add"] /\ cur' = [cur EXCEPT ![w] = Head(queue)]
        /\ queue' = Tail(queue) /\ qlock' = qlock
    BY <1>5 DEF Take, Goto, PopTask
  <2>2. Head(queue) \in Requests /\ Tail(queue) \in Seq(Requests)
        /\ Len(Tail(queue)) <= MaxQueue
    BY <1>4, <1>5, WorkersAssumption DEF PoolType
  <2>3. PoolType'
    BY <1>4, <2>1, <2>2 DEF PoolType, Take, switcher, llm, history
  <2>4. "add" \in Labels \ Busy /\ "add" \notin Idle
        /\ "add" \notin {"block", "pow", "restore", "decode"}
    BY DEF Labels, Busy, Counted, Idle, Starting, Working, Ending
  <2>5. WorkerType'
    BY <1>1, <2>1, <2>2, <2>4, NamesAssumption, OneWorker, WorkerMoves, Zenon
    DEF Available, Handover
  <2>6. QED BY <1>1, <1>2, <1>3, <2>1, <2>3, <2>4, <2>5, IdleMoves, Zenon DEF TypeOK
<1>6. CASE queue = <<>>
  <2>1. /\ cur' = [cur EXCEPT ![w] = NoTask] /\ queue' = queue
        /\ \/ pc' = [pc EXCEPT ![w] = "block"] /\ qlock' = w
           \/ pc' = [pc EXCEPT ![w] = "exited"] /\ qlock' = qlock
    BY <1>1, <1>6, OneWorker DEF Take, Goto
  <2>2. PoolType'
    BY <1>4, <2>1 DEF PoolType, Take, switcher, llm, history
  <2>3. /\ "block" \in Labels \ Busy /\ "block" \in Idle
        /\ "exited" \in Labels \ Busy /\ "exited" \in Idle
        /\ "block" \notin {"pow", "restore", "decode"}
        /\ "exited" \notin {"block", "pow", "restore", "decode"}
    BY DEF Labels, Busy, Counted, Idle, Starting, Working, Ending
  <2>4. WorkerType'
    <3>1. CASE pc' = [pc EXCEPT ![w] = "block"] /\ qlock' = w
      BY <1>1, <2>1, <2>3, <3>1, OneWorker, WorkerMoves, Zenon DEF Available, Handover
    <3>2. CASE pc' = [pc EXCEPT ![w] = "exited"] /\ qlock' = qlock
      BY <1>1, <2>1, <2>3, <3>2, OneWorker, WorkerMoves, Zenon DEF Available, Handover
    <3>3. QED BY <2>1, <3>1, <3>2
  <2>5. QED BY <1>1, <1>2, <1>3, <2>1, <2>2, <2>3, <2>4, IdleMoves DEF TypeOK
<1>7. QED BY <1>5, <1>6

(* A worker waits for a task.                                                *)
LEMMA BlockStep ==
    ASSUME WorkersInv, NEW w \in Workers, Block(w) PROVE WorkersInv'
<1>1. /\ pc[w] \notin Busy /\ pc[w] \in Idle /\ cur[w] = NoTask /\ pc[w] = "block"
      /\ pc[w] \notin {"pow", "restore", "decode"}
      /\ rlock' = rlock /\ engine' = engine /\ qlock' = Nobody
      /\ cur' = [cur EXCEPT ![w] = NoTask]
      /\ pc' = [pc EXCEPT ![w] = "blocked"]
  BY OneWorker
  DEF Block, Goto, Busy, Counted, Idle, Starting, Working, Ending, switcher, llm
<1>2. UNCHANGED <<active, written, mode, gpu>> BY DEF Block, switcher, history
<1>3. "blocked" \in Labels \ Busy /\ "blocked" \in Idle
      /\ "blocked" \notin {"block", "pow", "restore", "decode"}
  BY DEF Labels, Busy, Counted, Idle, Starting, Working, Ending
<1>4. SwitcherType' /\ EngineType'
  BY OneWorker DEF TypeOK, SwitcherType, EngineType, Block, switcher, llm, history
<1>5. PoolType' BY OneWorker DEF TypeOK, PoolType, Block, history
<1>6. WorkerType'
  BY <1>1, <1>3, OneWorker, WorkerMoves, Zenon DEF Available, Handover
<1>7. QED BY <1>1, <1>2, <1>3, <1>4, <1>5, <1>6, IdleMoves, Zenon DEF TypeOK
-----------------------------------------------------------------------------
(* A step of a worker under its guard.                                       *)
LEMMA BusyMoves ==
    ASSUME WorkersInv, NEW w \in Workers, NEW label \in Busy \ {"restore"},
           pc' = [pc EXCEPT ![w] = label], TypeOK', CountsActive'
    PROVE  WorkersInv'
BY RestoresBusy, OneWorker, Zenon DEF WorkersInv

(* The number of counted workers after a step of one of them.                *)
LEMMA GuardingCount ==
    ASSUME WorkersInv, NEW w \in Workers, NEW label \in Labels,
           pc' = [pc EXCEPT ![w] = label]
    PROVE  /\ (pc[w] \in Counted <=> label \in Counted) => Guarding' = Guarding
           /\ pc[w] \notin Counted /\ label \in Counted
                 => Cardinality(Guarding)' = Cardinality(Guarding) + 1
           /\ pc[w] \in Counted /\ label \notin Counted
                 => Cardinality(Guarding)' = Cardinality(Guarding) - 1
<1>1. /\ label \in Counted => Guarding' = Guarding \cup {w}
      /\ label \notin Counted => Guarding' = Guarding \ {w}
  BY OneWorker, GuardingMoves, Zenon
<1>2. w \in Guarding <=> pc[w] \in Counted BY DEF Guarding, Counted
<1>3. (pc[w] \in Counted <=> label \in Counted) => Guarding' = Guarding
  BY <1>1, <1>2
<1>4. pc[w] \notin Counted /\ label \in Counted
         => Cardinality(Guarding') = Cardinality(Guarding) + 1
  BY <1>1, <1>2, GuardingSize
<1>5. pc[w] \in Counted /\ label \notin Counted
         => Cardinality(Guarding') = Cardinality(Guarding) - 1
  BY <1>1, <1>2, GuardingSize
<1>6. QED BY <1>3, <1>4, <1>5

(* A step that keeps the worker's task and takes or releases no lock.        *)
LEMMA KeepsTask ==
    ASSUME WorkersInv, NEW w \in Workers, NEW label \in Busy,
           pc[w] \notin Idle, pc' = [pc EXCEPT ![w] = label], cur' = cur,
           pc[w] \notin {"pow", "restore", "decode"},
           label \notin {"pow", "restore", "decode"},
           UNCHANGED <<qlock, rlock, engine>>
    PROVE  WorkerType'
<1>1. label \in Labels /\ label \notin Idle /\ label # "block" /\ pc[w] # "block"
  BY LabelFacts DEF Idle
<1>2. cur' = [cur EXCEPT ![w] = cur[w]] BY OneWorker
<1>3. cur[w] # NoTask BY OneWorker
<1>4. /\ Handover(qlock, qlock', {"block"}, w, label)
      /\ Handover(rlock, rlock', {"pow", "restore"}, w, label)
      /\ Handover(engine, engine', {"decode"}, w, label)
  BY <1>1 DEF Handover
<1>5. /\ Available(qlock, {"block"}, w, label)
      /\ Available(rlock, {"pow", "restore"}, w, label)
      /\ Available(engine, {"decode"}, w, label)
  BY <1>1 DEF Available
<1>6. QED BY <1>1, <1>2, <1>3, <1>4, <1>5, OneWorker, WorkerMoves, Zenon

(* OnRequestStart.                                                           *)
LEMMA StartStep ==
    ASSUME WorkersInv, NEW w \in Workers, OnRequestStart(w) PROVE WorkersInv'
<1>1. /\ cur' = cur /\ UNCHANGED <<qlock, engine>>
      /\ PoolType' /\ EngineType'
  BY OneWorker
  DEF OnRequestStart, pool, llm, history, TypeOK, PoolType, EngineType
<1>2. rlock' = rlock BY DEF OnRequestStart
<1>3. SwitcherType BY OneWorker DEF TypeOK
<1>4. CASE pc[w] = "add" /\ active' = Plus(1) /\ Goto(w, "llm")
           /\ UNCHANGED <<mode, gpu, rlock, stamps, old>>
  <2>1. /\ pc[w] \notin Idle /\ pc[w] \notin Counted
        /\ pc[w] \notin {"pow", "restore", "decode"} /\ pc' = [pc EXCEPT ![w] = "llm"]
        /\ "llm" \in Busy \ {"restore"} /\ "llm" \in Counted /\ "llm" \in Labels
        /\ "llm" \notin {"pow", "restore", "decode"} /\ written' = written
    BY <1>4
    DEF Goto, OnRequestStart, history, Labels, Busy, Counted, Idle, Starting, Working, Ending
  <2>3. Cardinality(Guarding)' = Cardinality(Guarding) + 1 BY <2>1, GuardingCount, Zenon
  <2>4. CountsActive' /\ active' \in 0..(CounterSize - 1)
    <3>1. Cardinality(Guarding)' - written' = Cardinality(Guarding) - written + 1
      BY <2>1, <2>3, GuardingSize, OneWorker
    <3>2. QED BY <1>4, <3>1, CountAdds, OneWorker
  <2>5. SwitcherType' BY <1>3, <1>4, <2>1, <2>4 DEF SwitcherType
  <2>6. WorkerType' BY <1>1, <1>2, <2>1, KeepsTask, Zenon
  <2>7. QED BY <1>1, <2>1, <2>4, <2>5, <2>6, BusyMoves, Zenon DEF TypeOK
<1>5. ASSUME NEW label \in {"gpu", "stamp", "limit"}, Goto(w, label),
             pc[w] \in Starting \ {"add"}, SwitcherType',
             UNCHANGED <<active, written>>
      PROVE  WorkersInv'
  <2>1. /\ pc[w] \notin Idle /\ pc[w] \in Counted
        /\ pc[w] \notin {"pow", "restore", "decode"} /\ pc' = [pc EXCEPT ![w] = label]
        /\ label \in Busy \ {"restore"} /\ label \in Counted /\ label \in Labels
        /\ label \notin {"pow", "restore", "decode"}
    BY <1>5
    DEF Goto, Labels, Busy, Counted, Idle, Starting, Working, Ending
  <2>2. Guarding' = Guarding BY <2>1, GuardingCount, Zenon
  <2>3. CountsActive' BY <1>5, <2>2, CountStays, OneWorker
  <2>4. WorkerType' BY <1>1, <1>2, <2>1, KeepsTask, Zenon
  <2>5. QED BY <1>1, <1>5, <2>1, <2>3, <2>4, BusyMoves, Zenon DEF TypeOK
<1>6. CASE pc[w] = "llm" /\ mode' = "LLM" /\ Goto(w, "gpu")
           /\ UNCHANGED <<active, gpu, rlock, stamps, old>>
  <2>1. SwitcherType' /\ UNCHANGED <<active, written>>
    BY <1>3, <1>6 DEF SwitcherType, OnRequestStart, history
  <2>2. pc[w] \in Starting \ {"add"} BY <1>6 DEF Starting
  <2>3. QED BY <1>5, <1>6, <2>1, <2>2
<1>7. CASE pc[w] = "gpu" /\ GpuToInference /\ Goto(w, "stamp")
           /\ UNCHANGED <<active, mode, rlock, stamps, old>>
  <2>1. SwitcherType' /\ UNCHANGED <<active, written>>
    BY <1>3, <1>7 DEF SwitcherType, OnRequestStart, GpuToInference, history
  <2>2. pc[w] \in Starting \ {"add"} BY <1>7 DEF Starting
  <2>3. QED BY <1>5, <1>7, <2>1, <2>2
<1>8. CASE pc[w] = "stamp" /\ Goto(w, "limit")
           /\ stamps' = stamps \cup {cur[w]}
           /\ UNCHANGED <<active, mode, gpu, rlock, old>>
  <2>1. cur[w] \in Requests BY <1>8, OneWorker DEF Idle
  <2>2. SwitcherType' /\ UNCHANGED <<active, written>>
    BY <1>3, <1>8, <2>1 DEF SwitcherType, OnRequestStart, history
  <2>3. pc[w] \in Starting \ {"add"} BY <1>8 DEF Starting
  <2>4. QED BY <1>5, <1>8, <2>2, <2>3
<1>9. QED BY <1>4, <1>6, <1>7, <1>8 DEF OnRequestStart

(* A worker sets its limit of tokens.                                        *)
LEMMA LimitStep ==
    ASSUME WorkersInv, NEW w \in Workers, SetMaxTokens(w) PROVE WorkersInv'
<1>1. /\ pc[w] \notin Idle /\ pc[w] \in Counted
      /\ pc[w] \notin {"pow", "restore", "decode"} /\ pc' = [pc EXCEPT ![w] = "generate"]
      /\ "generate" \in Busy \ {"restore"} /\ "generate" \in Counted
      /\ "generate" \in Labels /\ "generate" \notin {"pow", "restore", "decode"}
  BY DEF SetMaxTokens, Goto, Labels, Busy, Counted, Idle, Starting, Working, Ending
<1>2. /\ cur' = cur /\ UNCHANGED <<qlock, rlock, engine, active, written>>
      /\ PoolType' /\ SwitcherType'
  BY OneWorker
  DEF SetMaxTokens, pool, switcher, history, TypeOK, PoolType, SwitcherType
<1>3. EngineType'
  <2>1. cur[w] \in Requests BY <1>1, OneWorker
  <2>2. MaxTokens[cur[w]] \in Int BY <2>1, WorkersAssumption
  <2>3. QED BY <2>2, OneWorker DEF SetMaxTokens, TypeOK, EngineType
<1>4. WorkerType' BY <1>1, <1>2, KeepsTask, Zenon
<1>5. CountsActive' BY <1>1, <1>2, GuardingCount, CountStays, OneWorker, Zenon
<1>6. QED BY <1>1, <1>2, <1>3, <1>4, <1>5, BusyMoves, Zenon DEF TypeOK

(* A worker generates a token, or ends.                                      *)
LEMMA GenerateStep ==
    ASSUME WorkersInv, NEW w \in Workers, Generate(w) PROVE WorkersInv'
<1>1. /\ cur' = cur /\ UNCHANGED <<qlock, rlock, active, written, mode, gpu>>
      /\ SwitcherType'
  BY OneWorker
  DEF Generate, pool, switcher, history, TypeOK, SwitcherType
<1>2. /\ pc[w] \notin Idle /\ pc[w] \in Counted /\ pc[w] \in {"generate", "decode"}
      /\ {"decode", "sub"} \subseteq (Busy \ {"restore"}) \cap Counted
      /\ {"decode", "sub"} \subseteq Labels \ Idle
  BY DEF Generate, Labels, Busy, Counted, Idle, Starting, Working, Ending
<1>3. /\ cur[w] \in Requests /\ cur[w] # NoTask
      /\ cur' = [cur EXCEPT ![w] = cur[w]]
  BY <1>1, <1>2, OneWorker
<1>4. PoolType /\ EngineType BY OneWorker DEF TypeOK
<1>5. PoolType'
  BY <1>3, <1>4 DEF Generate, PoolType, pool, history
<1>6. EngineType'
  <2>1. tokens' \in [Workers -> 0..AnswerLength]
    <3>1. CASE tokens' = tokens BY <1>4, <3>1 DEF EngineType
    <3>2. CASE tokens[w] < AnswerLength /\ tokens' = [tokens EXCEPT ![w] = @ + 1]
      BY <1>4, <3>2, WorkersAssumption DEF EngineType
    <3>3. QED BY <3>1, <3>2 DEF Generate
  <2>2. engine' \in Workers \cup {Nobody} /\ n_predict' \in Int
    BY <1>4 DEF Generate, EngineType
  <2>3. QED BY <2>1, <2>2 DEF EngineType
<1>7. CASE engine = Nobody /\ pc[w] = "generate" /\ engine' = w /\ Goto(w, "decode")
  <2>1. pc' = [pc EXCEPT ![w] = "decode"] BY <1>7 DEF Goto
  <2>2. WorkerType'
    BY <1>1, <1>2, <1>3, <1>7, <2>1, OneWorker, WorkerMoves, Zenon DEF Available, Handover
  <2>3. CountsActive' BY <1>1, <1>2, <2>1, GuardingCount, CountStays, OneWorker, Zenon
  <2>4. QED BY <1>1, <1>2, <1>5, <1>6, <2>1, <2>2, <2>3, BusyMoves, Zenon DEF TypeOK
<1>8. CASE UNCHANGED <<engine, pc>>
  <2>1. WorkerType' BY <1>1, <1>8, OneWorker DEF WorkerType
  <2>2. Guarding' = Guarding BY <1>8 DEF Guarding
  <2>3. CountsActive' BY <1>1, <2>2, CountStays, OneWorker
  <2>4. written' = 0 => SomeoneRestores' BY <1>1, <1>8 DEF WorkersInv, SomeoneRestores
  <2>5. QED BY <1>1, <1>5, <1>6, <2>1, <2>3, <2>4 DEF WorkersInv, TypeOK
<1>9. CASE pc[w] = "decode" /\ engine' = Nobody /\ Goto(w, "sub")
  <2>1. pc' = [pc EXCEPT ![w] = "sub"] BY <1>9 DEF Goto
  <2>2. WorkerType'
    BY <1>1, <1>2, <1>3, <1>9, <2>1, OneWorker, WorkerMoves, Zenon DEF Available, Handover
  <2>3. CountsActive' BY <1>1, <1>2, <2>1, GuardingCount, CountStays, OneWorker, Zenon
  <2>4. QED BY <1>1, <1>2, <1>5, <1>6, <2>1, <2>2, <2>3, BusyMoves, Zenon DEF TypeOK
<1>10. QED BY <1>7, <1>8, <1>9 DEF Generate

(* A worker that leaves its guard: the one that is counted beside it, or the *)
(* one that set the mode behind its back, has yet to leave.                  *)
LEMMA LeavesGuard ==
    ASSUME WorkersInv, NEW w \in Workers, pc[w] \in {"erase", "restore"},
           pc' = [pc EXCEPT ![w] = "check"], TypeOK', CountsActive',
           written' = written, mode' = mode,
           pc[w] = "erase" => rlock = Nobody /\ gpu' = gpu /\ active # 0,
           pc[w] = "restore" => gpu' # "INFERENCE"
    PROVE  WorkersInv'
<1>1. /\ pc'[w] = "check" /\ \A v \in Workers \ {w} : pc'[v] = pc[v]
  BY OneWorker
<1>2. ASSUME NEW v \in Workers PROVE pc'[v] # "restore"
  <2>1. CASE v = w BY <1>1, <2>1
  <2>2. CASE v # w
    <3>1. rlock \in {Nobody, w} BY OneWorker DEF WorkerType
    <3>2. rlock # v BY <2>2, <3>1, NamesAssumption
    <3>3. QED BY <1>1, <2>2, <3>2, OneWorker DEF WorkerType
  <2>3. QED BY <2>1, <2>2
<1>3. ASSUME written = 0, mode = "LLM" \/ gpu' = "INFERENCE"
      PROVE  \E v \in Workers : pc'[v] \in Busy
  <2>1. CASE pc[w] = "erase"
    <3>1. Guarding # {} BY <1>3, <2>1, CountZero, OneWorker
    <3>2. PICK v \in Guarding : TRUE BY <3>1
    <3>3. v \in Workers /\ pc[v] \in Counted BY DEF Guarding, Counted
    <3>4. v # w BY <2>1, <3>3 DEF Counted, Starting, Working
    <3>5. QED BY <1>1, <3>3, <3>4, LabelFacts
  <2>2. CASE pc[w] = "restore"
    <3>1. PICK v \in Workers \ {w} : pc[v] \in Busy
      BY <1>3, <2>2 DEF WorkersInv, SomeoneRestores
    <3>2. QED BY <1>1, <3>1
  <2>3. QED BY <2>1, <2>2
<1>4. written' = 0 => SomeoneRestores' BY <1>2, <1>3 DEF SomeoneRestores
<1>5. QED BY <1>4 DEF WorkersInv

(* OnRequestEnd.                                                             *)
LEMMA EndStep ==
    ASSUME WorkersInv, NEW w \in Workers, OnRequestEnd(w) PROVE WorkersInv'
<1>1. /\ UNCHANGED <<qlock, engine, written>> /\ PoolType'
      /\ pc[w] \in Ending /\ pc[w] \notin Idle /\ pc[w] # "decode" /\ pc[w] # "block"
  BY OneWorker
  DEF OnRequestEnd, pool, history, TypeOK, PoolType, Ending, Idle
<1>2. /\ {"erase", "pow"} \subseteq Busy \ {"restore"}
      /\ {"erase", "pow", "restore"} \subseteq (Busy \cap Labels) \ (Idle \cup Counted)
      /\ "check" \in (Labels \cap Idle) \ (Busy \cup Counted) /\ "sub" \in Counted
      /\ "restore" \in Busy
  BY DEF Labels, Busy, Counted, Idle, Starting, Working, Ending
<1>3. SwitcherType /\ EngineType BY OneWorker DEF TypeOK
<1>4. EngineType'
  <2>1. tokens' \in [Workers -> 0..AnswerLength]
    <3>1. CASE tokens' = tokens BY <1>3, <3>1 DEF EngineType
    <3>2. CASE tokens' = [tokens EXCEPT ![w] = 0]
      <4>1. 0 \in 0..AnswerLength BY WorkersAssumption
      <4>2. QED BY <1>3, <3>2, <4>1 DEF EngineType
    <3>3. QED BY <3>1, <3>2 DEF OnRequestEnd
  <2>2. QED BY <1>3, <2>1 DEF OnRequestEnd, EngineType
<1>5. cur[w] \in Requests /\ cur[w] # NoTask /\ cur = [cur EXCEPT ![w] = cur[w]]
  BY <1>1, OneWorker
<1>6. CASE pc[w] = "sub" /\ active' = Plus(-1) /\ Goto(w, "erase")
           /\ UNCHANGED <<mode, gpu, rlock, stamps, old, cur, tokens>>
  <2>1. pc' = [pc EXCEPT ![w] = "erase"] /\ cur' = cur BY <1>6 DEF Goto
  <2>2. Cardinality(Guarding)' = Cardinality(Guarding) - 1
    BY <1>2, <1>6, <2>1, GuardingCount, Zenon
  <2>3. Cardinality(Guarding)' - written' = Cardinality(Guarding) - written + (-1)
    BY <1>1, <2>2, GuardingSize, OneWorker
  <2>4. CountsActive' /\ active' \in 0..(CounterSize - 1)
    BY <1>6, <2>3, CountAdds, OneWorker
  <2>5. SwitcherType' BY <1>1, <1>3, <1>6, <2>4 DEF SwitcherType
  <2>6. WorkerType' BY <1>1, <1>2, <1>6, <2>1, KeepsTask, Zenon
  <2>7. QED BY <1>1, <1>2, <1>4, <2>1, <2>4, <2>5, <2>6, BusyMoves, Zenon DEF TypeOK
<1>7. ASSUME UNCHANGED active, pc[w] # "sub",
             NEW label \in {"pow", "restore", "check"}, Goto(w, label)
      PROVE  CountsActive' /\ pc' = [pc EXCEPT ![w] = label]
  <2>1. pc[w] \notin Counted BY <1>1, <1>7 DEF Counted, Starting, Working, Ending
  <2>2. label \in Labels /\ label \notin Counted BY <1>2
  <2>3. pc' = [pc EXCEPT ![w] = label] BY <1>7 DEF Goto
  <2>4. Guarding' = Guarding BY <2>1, <2>2, <2>3, GuardingCount, Zenon
  <2>5. QED BY <1>1, <1>7, <2>3, <2>4, CountStays, OneWorker
<1>8. CASE /\ pc[w] = "erase" /\ rlock = Nobody
           /\ stamps' = stamps \ {cur[w]} /\ old' = old \ {cur[w]}
           /\ UNCHANGED <<active, mode, gpu>>
           /\ Goto(w, "pow") /\ rlock' = w /\ UNCHANGED cur
  <2>1. CountsActive' /\ pc' = [pc EXCEPT ![w] = "pow"] BY <1>7, <1>8
  <2>2. SwitcherType' BY <1>1, <1>3, <1>8 DEF SwitcherType
  <2>3. WorkerType'
    BY <1>1, <1>2, <1>5, <1>8, <2>1, OneWorker, WorkerMoves, Zenon DEF Available, Handover
  <2>4. QED BY <1>1, <1>2, <1>4, <2>1, <2>2, <2>3, BusyMoves, Zenon DEF TypeOK
<1>9. CASE /\ pc[w] = "erase" /\ rlock = Nobody
           /\ stamps' = stamps \ {cur[w]} /\ old' = old \ {cur[w]}
           /\ UNCHANGED <<active, mode, gpu>>
           /\ active # 0 /\ Goto(w, "check") /\ UNCHANGED rlock
           /\ cur' = [cur EXCEPT ![w] = NoTask]
  <2>1. CountsActive' /\ pc' = [pc EXCEPT ![w] = "check"] BY <1>7, <1>9
  <2>2. SwitcherType' BY <1>1, <1>3, <1>9 DEF SwitcherType
  <2>3. WorkerType'
    BY <1>1, <1>2, <1>9, <2>1, OneWorker, WorkerMoves, Zenon DEF Available, Handover
  <2>4. QED BY <1>1, <1>4, <1>9, <2>1, <2>2, <2>3, LeavesGuard, Zenon DEF TypeOK
<1>10. CASE pc[w] = "pow" /\ mode' = "POW" /\ Goto(w, "restore")
            /\ UNCHANGED <<active, gpu, rlock, stamps, old, cur, tokens>>
  <2>1. CountsActive' /\ pc' = [pc EXCEPT ![w] = "restore"] BY <1>7, <1>10
  <2>2. SwitcherType' BY <1>1, <1>3, <1>10 DEF SwitcherType
  <2>3. rlock = w BY <1>10, OneWorker DEF WorkerType
  <2>4. WorkerType'
    BY <1>1, <1>2, <1>5, <1>10, <2>1, <2>3, OneWorker, WorkerMoves, Zenon DEF Available, Handover
  <2>5. pc'[w] \in Busy BY <1>2, <2>1, OneWorker
  <2>6. SomeoneRestores' BY <1>10, <2>5 DEF SomeoneRestores
  <2>7. QED BY <1>1, <1>4, <2>1, <2>2, <2>4, <2>6 DEF WorkersInv, TypeOK
<1>11. CASE pc[w] = "restore" /\ gpu' = "POW_MINING" /\ Goto(w, "check")
            /\ rlock' = Nobody /\ cur' = [cur EXCEPT ![w] = NoTask]
            /\ UNCHANGED <<active, mode, stamps, old>>
  <2>1. CountsActive' /\ pc' = [pc EXCEPT ![w] = "check"] BY <1>7, <1>11
  <2>2. SwitcherType' BY <1>1, <1>3, <1>11 DEF SwitcherType
  <2>3. WorkerType'
    BY <1>1, <1>2, <1>11, <2>1, OneWorker, WorkerMoves, Zenon DEF Available, Handover
  <2>4. QED BY <1>1, <1>4, <1>11, <2>1, <2>2, <2>3, LeavesGuard, Zenon DEF TypeOK
<1>12. QED BY <1>6, <1>8, <1>9, <1>10, <1>11 DEF OnRequestEnd, LastRequest
-----------------------------------------------------------------------------
(* The other threads: a step that moves no worker.                           *)
LEMMA NobodyMoves ==
    ASSUME WorkersInv, UNCHANGED <<pc, active, written, mode, gpu>>, TypeOK'
    PROVE  WorkersInv'
<1>1. Guarding' = Guarding BY DEF Guarding
<1>2. CountsActive' BY <1>1, CountStays DEF WorkersInv
<1>3. written' = 0 => SomeoneRestores' BY DEF WorkersInv, SomeoneRestores
<1>4. QED BY <1>2, <1>3 DEF WorkersInv

(* A request is put on the queue, or refused.                                *)
LEMMA EnqueueStep ==
    ASSUME WorkersInv, NEW r \in Requests, Enqueue(r) PROVE WorkersInv'
<1>1. TypeOK BY DEF WorkersInv
<1>2. SwitcherType' /\ EngineType' /\ UNCHANGED <<pc, active, written, mode, gpu>>
  BY <1>1 DEF TypeOK, SwitcherType, EngineType, Enqueue, switcher, llm, history
<1>3. WorkerType' BY <1>1 DEF TypeOK, WorkerType, Enqueue, switcher, llm
<1>4. PoolType'
  <2>1. queue' \in Seq(Requests) /\ Len(queue') <= MaxQueue
    <3>1. queue \in Seq(Requests) /\ Len(queue) <= MaxQueue BY <1>1 DEF TypeOK, PoolType
    <3>2. CASE queue' = queue BY <3>1, <3>2
    <3>3. CASE ~ QueueFull /\ queue' = Append(queue, r)
      BY <3>1, <3>3, WorkersAssumption DEF QueueFull
    <3>4. QED BY <3>2, <3>3 DEF Enqueue
  <2>2. fate' \in [Requests -> {"new", "queued", "rejected", "cut", "done"}]
    BY <1>1 DEF TypeOK, PoolType, Enqueue
  <2>3. signal' \in BOOLEAN BY <1>1, Zenon DEF TypeOK, PoolType, Enqueue, Signal
  <2>4. QED BY <1>1, <2>1, <2>2, <2>3 DEF TypeOK, PoolType, Enqueue, history
<1>5. QED BY <1>2, <1>3, <1>4, NobodyMoves DEF TypeOK

(* A request has run for too long.                                           *)
LEMMA TimeoutStep ==
    ASSUME WorkersInv, NEW r \in Requests, Timeout(r) PROVE WorkersInv'
<1>1. TypeOK BY DEF WorkersInv
<1>2. PoolType' /\ EngineType' /\ UNCHANGED <<pc, active, written, mode, gpu>>
  BY <1>1 DEF TypeOK, PoolType, EngineType, Timeout, pool, llm, history
<1>3. WorkerType' BY <1>1 DEF TypeOK, WorkerType, Timeout, pool, llm
<1>4. SwitcherType' BY <1>1 DEF TypeOK, SwitcherType, Timeout, history
<1>5. QED BY <1>2, <1>3, <1>4, NobodyMoves DEF TypeOK

(* The mining loop writes off the requests that have run for too long.       *)
LEMMA CleanupStep ==
    ASSUME WorkersInv, CleanupTimeoutRequests PROVE WorkersInv'
<1>1. TypeOK /\ CountsActive BY DEF WorkersInv
<1>2. PoolType' /\ EngineType' /\ UNCHANGED <<pc, gpu, cur, qlock, engine>>
  BY <1>1
  DEF TypeOK, PoolType, EngineType, CleanupTimeoutRequests, pool, llm
<1>3. SwitcherType BY <1>1 DEF TypeOK
<1>4. Guarding' = Guarding BY <1>2 DEF Guarding
<1>5. Cardinality(old) \in Nat
  BY <1>3, WorkersAssumption, FS_Subset, FS_CardinalityType DEF SwitcherType
<1>6. WorkerType'
  <2>1. rlock \notin Workers /\ rlock' \notin Workers
    BY NamesAssumption DEF CleanupTimeoutRequests
  <2>2. WorkerType BY <1>1 DEF TypeOK
  <2>3. QED BY <1>2, <2>1, <2>2 DEF WorkerType
<1>7. CASE /\ active' = Plus(-Cardinality(old)) /\ stamps' = stamps \ old /\ old' = {}
           /\ written' = written + Cardinality(old) /\ rlock' \in {Miner, Nobody}
           /\ UNCHANGED mode
  <2>1. Cardinality(Guarding)' - written'
           = Cardinality(Guarding) - written + (-Cardinality(old))
    BY <1>3, <1>4, <1>5, <1>7, GuardingSize DEF SwitcherType
  <2>2. CountsActive' /\ active' \in 0..(CounterSize - 1)
    BY <1>1, <1>3, <1>5, <1>7, <2>1, CountAdds DEF SwitcherType
  <2>3. written' \in Nat /\ (written' = 0 => written = 0)
    BY <1>3, <1>5, <1>7 DEF SwitcherType
  <2>4. SwitcherType' BY <1>2, <1>3, <1>7, <2>2, <2>3 DEF SwitcherType
  <2>5. written' = 0 => SomeoneRestores'
    BY <1>2, <1>7, <2>3 DEF WorkersInv, SomeoneRestores
  <2>6. QED BY <1>2, <1>6, <2>2, <2>4, <2>5, Zenon DEF WorkersInv, TypeOK
<1>8. CASE mode' = "POW" /\ rlock' = Nobody /\ UNCHANGED <<active, stamps, old, written>>
  <2>1. CountsActive' BY <1>1, <1>4, <1>8, CountStays
  <2>2. SwitcherType' BY <1>2, <1>3, <1>8 DEF SwitcherType
  <2>3. written' = 0 => SomeoneRestores' BY <1>2, <1>8 DEF WorkersInv, SomeoneRestores
  <2>4. QED BY <1>2, <1>6, <2>1, <2>2, <2>3 DEF WorkersInv, TypeOK
<1>9. QED BY <1>7, <1>8 DEF CleanupTimeoutRequests

(* A step that only wakes workers.                                           *)
LEMMA WakesWorkers ==
    ASSUME WorkersInv, NEW W \in SUBSET Blocked,
           pc' = [w \in Workers |-> IF w \in W THEN "woken" ELSE pc[w]],
           UNCHANGED <<qlock, cur, switcher, llm, fate, written>>, PoolType'
    PROVE  WorkersInv'
<1>1. TypeOK /\ CountsActive BY DEF WorkersInv
<1>2. /\ "woken" \in Idle \ Busy /\ "blocked" \in Idle \ Busy
      /\ {"woken", "blocked"} \cap (Counted \cup {"block", "pow", "restore", "decode"}) = {}
  BY DEF Busy, Counted, Idle, Starting, Working
<1>3. ASSUME NEW w \in Workers
      PROVE  \/ pc'[w] = pc[w]
             \/ pc'[w] = "woken" /\ pc[w] = "blocked"
  BY DEF Blocked
<1>4. pc' \in [Workers -> Labels]
  <2>1. pc \in [Workers -> Labels] BY <1>1 DEF TypeOK, WorkerType, Labels
  <2>2. "woken" \in Labels BY <1>2, Zenon DEF Labels
  <2>3. QED BY <2>1, <2>2
<1>5. WorkerType'
  <2>1. WorkerType /\ UNCHANGED <<qlock, rlock, engine, cur>>
    BY <1>1 DEF TypeOK, switcher, llm
  <2>2. ASSUME NEW w \in Workers
        PROVE  /\ pc'[w] \in Idle <=> pc[w] \in Idle
               /\ pc'[w] = "block" <=> pc[w] = "block"
               /\ pc'[w] \in {"pow", "restore"} <=> pc[w] \in {"pow", "restore"}
               /\ pc'[w] = "decode" <=> pc[w] = "decode"
    BY <1>2, <1>3
  <2>3. QED BY <1>4, <2>1, <2>2 DEF WorkerType, Labels
<1>6. SwitcherType' /\ EngineType' /\ UNCHANGED <<active, written, mode, gpu>>
  BY <1>1 DEF TypeOK, SwitcherType, EngineType, switcher, llm
<1>7. Guarding' = Guarding
  <2>1. \A w \in Workers : pc'[w] \in Counted <=> pc[w] \in Counted BY <1>2, <1>3
  <2>2. QED BY <2>1 DEF Guarding, Counted
<1>8. CountsActive' BY <1>1, <1>6, <1>7, CountStays
<1>9. SomeoneRestores => SomeoneRestores'
  <2>1. \A w \in Workers : /\ pc'[w] \in Busy <=> pc[w] \in Busy
                           /\ pc'[w] = "restore" <=> pc[w] = "restore"
    BY <1>2, <1>3
  <2>2. QED BY <1>6, <2>1 DEF SomeoneRestores
<1>10. QED BY <1>5, <1>6, <1>8, <1>9 DEF WorkersInv, TypeOK

(* A waiting worker is woken up.                                             *)
LEMMA NotifyStep == ASSUME WorkersInv, NotifyOne PROVE WorkersInv'
<1>1. TypeOK /\ UNCHANGED <<qlock, cur, switcher, llm, fate, written>>
  BY DEF WorkersInv, NotifyOne, history
<1>2. PoolType' BY <1>1, Zenon DEF TypeOK, PoolType, NotifyOne, history
<1>3. pc \in [Workers -> Labels] BY <1>1 DEF TypeOK, WorkerType, Labels
<1>4. CASE UNCHANGED pc
  <2>1. {} \in SUBSET Blocked /\ pc' = [w \in Workers |-> IF w \in {} THEN "woken" ELSE pc[w]]
    BY <1>3, <1>4
  <2>2. QED BY <1>1, <1>2, <2>1, WakesWorkers, Zenon
<1>5. CASE \E v \in Blocked : Goto(v, "woken")
  <2>1. PICK v \in Blocked : pc' = [pc EXCEPT ![v] = "woken"] BY <1>5, Zenon DEF Goto
  <2>2. {v} \in SUBSET Blocked
        /\ pc' = [w \in Workers |-> IF w \in {v} THEN "woken" ELSE pc[w]]
    BY <1>3, <2>1, Zenon
  <2>3. QED BY <1>1, <1>2, <2>2, WakesWorkers, Zenon
<1>6. QED BY <1>4, <1>5 DEF NotifyOne

(* The workers are told to stop.                                             *)
LEMMA StopStep == ASSUME WorkersInv, StopWorkerThreads PROVE WorkersInv'
<1>1. TypeOK /\ UNCHANGED <<qlock, cur, switcher, llm, fate, written>>
  BY DEF WorkersInv, StopWorkerThreads
<1>2. PoolType' BY <1>1, Zenon DEF TypeOK, PoolType, StopWorkerThreads
<1>3. pc \in [Workers -> Labels] BY <1>1 DEF TypeOK, WorkerType, Labels
<1>4. CASE UNCHANGED pc
  <2>1. {} \in SUBSET Blocked /\ pc' = [w \in Workers |-> IF w \in {} THEN "woken" ELSE pc[w]]
    BY <1>3, <1>4
  <2>2. QED BY <1>1, <1>2, <2>1, WakesWorkers, Zenon
<1>5. CASE pc' = [w \in Workers |-> IF w \in Blocked THEN "woken" ELSE pc[w]]
  BY <1>1, <1>2, <1>5, WakesWorkers
<1>6. QED BY <1>4, <1>5 DEF StopWorkerThreads

(* WorkersInv is inductive.                                                  *)
LEMMA WorkersNext == WorkersInv /\ [Next]_vars => WorkersInv'
<1> SUFFICES ASSUME WorkersInv, [Next]_vars PROVE WorkersInv' OBVIOUS
<1>1. ASSUME NEW w \in Workers, WorkerThreadFunc(w) PROVE WorkersInv'
  BY <1>1, LoopHeadStep, TakeStep, BlockStep, StartStep, LimitStep, GenerateStep, EndStep
  DEF WorkerThreadFunc, ProcessAsyncChatTask
<1>2. CASE UNCHANGED vars
  <2>1. PoolType' /\ SwitcherType' /\ EngineType' /\ WorkerType'
        /\ UNCHANGED <<pc, active, written, mode, gpu>>
    BY <1>2 DEF vars, pool, switcher, llm, history, WorkersInv, TypeOK,
                PoolType, SwitcherType, EngineType, WorkerType
  <2>2. QED BY <2>1, NobodyMoves, Zenon DEF TypeOK
<1>3. QED
  BY <1>1, <1>2, EnqueueStep, TimeoutStep, NotifyStep, CleanupStep, StopStep DEF Next

(* The inductive invariant holds in every state of every behaviour.          *)
THEOREM WorkersInvariant == Spec => []WorkersInv
<1>1. QED BY WorkersInit, WorkersNext, PTL DEF Spec

(* The locks have holders inside their sections, and the queue keeps to its  *)
(* bound, for any pool and any number of requests (api_server.cpp).          *)
THEOREM WorkersTypes == Spec => []TypeOK
<1>1. QED BY WorkersInvariant, WorkersInvImplies, PTL

(* active_requests is the number of guarded requests less the ones written   *)
(* off by CleanupTimeoutRequests, modulo the counter's size                  *)
(* (mode_switcher.h).                                                        *)
THEOREM CountsActiveHolds == Spec => []CountsActive
<1>1. QED BY WorkersInvariant, WorkersInvImplies, PTL

(* Until the cleanup writes a request off, a pool without a guarded request  *)
(* is back in PoW mode with the GPU not inferring (mode_switcher.h).         *)
THEOREM RestoresPoWHolds == Spec => []RestoresPoW
<1>1. QED BY WorkersInvariant, WorkersInvImplies, PTL


-----------------------------------------------------------------------------
(* Every task is handled once *)

(* From Take to the end of Generate a worker has a task that is queued.      *)
Tasked == Starting \cup Working

(* No task is twice in the queue, with two workers, or in both; and it is in *)
(* one of them exactly while it is queued.                                   *)
TaskInv ==
    /\ \A i, j \in DOMAIN queue : queue[i] = queue[j] => i = j
    /\ \A v, w \in Workers :
          pc[v] \in Tasked /\ pc[w] \in Tasked /\ cur[v] = cur[w] => v = w
    /\ \A i \in DOMAIN queue, w \in Workers : pc[w] \in Tasked => cur[w] # queue[i]
    /\ \A r \in Requests :
          (fate[r] = "queued") <=> \/ \E i \in DOMAIN queue : queue[i] = r
                                   \/ \E w \in Workers : pc[w] \in Tasked /\ cur[w] = r

(* A worker has a task, is idle or ends: the sets of labels.                 *)
LEMMA TaskedFacts ==
    /\ Tasked \cap (Idle \cup Ending) = {} /\ Labels = Idle \cup Ending \cup Tasked
BY Zenon DEF Tasked, Labels, Idle, Starting, Working, Ending

(* The pool starts with no task anywhere.                                    *)
LEMMA TaskInit == Init => TaskInv
<1> SUFFICES ASSUME Init PROVE TaskInv OBVIOUS
<1>1. DOMAIN queue = {} BY DEF Init
<1>2. \A w \in Workers : pc[w] \notin Tasked
  BY DEF Init, Tasked, Starting, Working
<1>3. \A r \in Requests : fate[r] = "new" BY Zenon DEF Init
<1>4. QED BY <1>1, <1>2, <1>3 DEF TaskInv

(* A step that neither gives nor takes a task.                               *)
LEMMA TasksStay ==
    ASSUME TaskInv, UNCHANGED <<queue, fate>>,
           \A w \in Workers : /\ pc'[w] \in Tasked <=> pc[w] \in Tasked
                              /\ pc[w] \in Tasked => cur'[w] = cur[w]
    PROVE  TaskInv'
BY DEF TaskInv

(* One of a single worker, which keeps its task as long as it has one.       *)
LEMMA TaskMoves ==
    ASSUME WorkersInv, TaskInv, UNCHANGED <<queue, fate>>, NEW w \in Workers,
           NEW label \in Labels, Goto(w, label),
           label \in Tasked <=> pc[w] \in Tasked,
           pc[w] \in Tasked => cur' = cur,
           \A v \in Workers \ {w} : cur'[v] = cur[v]
    PROVE  TaskInv'
<1>1. ASSUME NEW v \in Workers
      PROVE  /\ pc'[v] \in Tasked <=> pc[v] \in Tasked
             /\ pc[v] \in Tasked => cur'[v] = cur[v]
  BY OneWorker DEF Goto
<1>2. QED BY <1>1, TasksStay, Zenon

(* HandleChatRequest queues a new request.                                   *)
LEMMA TaskQueued ==
    ASSUME WorkersInv, TaskInv, NEW r \in Requests, Enqueue(r) PROVE TaskInv'
<1>1. queue \in Seq(Requests) /\ fate \in [Requests -> {"new", "queued", "rejected", "cut", "done"}]
  BY DEF WorkersInv, TypeOK, PoolType
<1>2. fate[r] = "new" /\ UNCHANGED <<pc, cur>> BY Zenon DEF Enqueue
<1>3. CASE QueueFull
  <2>1. fate' = [fate EXCEPT ![r] = "rejected"] /\ queue' = queue
    BY <1>3, Zenon DEF Enqueue
  <2>2. QED BY <1>1, <1>2, <2>1 DEF TaskInv
<1>4. CASE ~QueueFull
  <2>1. fate' = [fate EXCEPT ![r] = "queued"] /\ queue' = Append(queue, r)
    BY <1>4 DEF Enqueue
  <2>2. /\ Len(queue) \in Nat /\ DOMAIN queue = 1..Len(queue)
        /\ DOMAIN queue' = 1..(Len(queue) + 1) /\ queue'[Len(queue) + 1] = r
        /\ \A i \in DOMAIN queue : queue'[i] = queue[i] /\ queue[i] # r
    <3>1. \A i \in DOMAIN queue : queue[i] # r BY <1>1, <1>2 DEF TaskInv
    <3>2. QED BY <1>1, <2>1, <3>1
  <2>3. \A w \in Workers : pc[w] \in Tasked => cur[w] # r BY <1>2, Zenon DEF TaskInv
  <2>4. \A i, j \in DOMAIN queue' : queue'[i] = queue'[j] => i = j
    BY <2>2 DEF TaskInv
  <2>5. \A i \in DOMAIN queue', w \in Workers : pc[w] \in Tasked => cur[w] # queue'[i]
    BY <2>2, <2>3 DEF TaskInv
  <2>6. ASSUME NEW q \in Requests
        PROVE  (fate'[q] = "queued") <=>
                  \/ \E i \in DOMAIN queue' : queue'[i] = q
                  \/ \E w \in Workers : pc[w] \in Tasked /\ cur[w] = q
    <3>1. CASE q = r BY <1>1, <2>1, <2>2, <3>1
    <3>2. CASE q # r
      <4>1. fate'[q] = fate[q] BY <1>1, <2>1, <3>2
      <4>2. (\E i \in DOMAIN queue' : queue'[i] = q) <=> (\E i \in DOMAIN queue : queue[i] = q)
        BY <2>2, <3>2
      <4>3. QED BY <4>1, <4>2 DEF TaskInv
    <3>3. QED BY <3>1, <3>2
  <2>7. QED BY <1>2, <2>4, <2>5, <2>6, Zenon DEF TaskInv
<1>5. QED BY <1>3, <1>4

(* A worker pops the first task, which leaves the queue and is its own.      *)
LEMMA TaskTaken ==
    ASSUME WorkersInv, TaskInv, NEW w \in Workers, Take(w) PROVE TaskInv'
<1>1. /\ queue \in Seq(Requests) /\ pc \in [Workers -> Labels]
      /\ cur \in [Workers -> Requests \cup {NoTask}] /\ fate' = fate
  BY OneWorker DEF Take, TypeOK, PoolType
<1>2. pc[w] \notin Tasked BY TaskedFacts, Zenon DEF Take, Idle
<1>3. CASE queue # <<>>
  <2>1. /\ cur' = [cur EXCEPT ![w] = queue[1]] /\ pc' = [pc EXCEPT ![w] = "add"]
        /\ queue' = Tail(queue)
    BY <1>1, <1>3 DEF Take, PopTask, Goto
  <2>2. /\ Len(queue) \in Nat \ {0} /\ DOMAIN queue = 1..Len(queue)
        /\ DOMAIN queue' = 1..(Len(queue) - 1)
        /\ \A i \in DOMAIN queue' : queue'[i] = queue[i + 1] /\ i + 1 \in DOMAIN queue
    BY <1>1, <1>3, <2>1
  <2>3. /\ pc'[w] \in Tasked /\ cur'[w] = queue[1]
        /\ \A v \in Workers \ {w} : pc'[v] = pc[v] /\ cur'[v] = cur[v]
    BY <1>1, <2>1, Zenon DEF Tasked, Starting
  <2>4. \A i, j \in DOMAIN queue' : queue'[i] = queue'[j] => i = j
    BY <2>2 DEF TaskInv
  <2>5. \A u, v \in Workers :
          pc'[u] \in Tasked /\ pc'[v] \in Tasked /\ cur'[u] = cur'[v] => u = v
    BY <2>2, <2>3 DEF TaskInv
  <2>6. \A i \in DOMAIN queue', v \in Workers : pc'[v] \in Tasked => cur'[v] # queue'[i]
    <3> SUFFICES ASSUME NEW i \in DOMAIN queue', NEW v \in Workers, pc'[v] \in Tasked
        PROVE cur'[v] # queue'[i]
      BY Zenon
    <3>1. queue'[i] = queue[i + 1] /\ i + 1 \in DOMAIN queue /\ 1 \in DOMAIN queue /\ i + 1 # 1
      BY <2>2
    <3>2. CASE v = w BY <2>3, <3>1, <3>2 DEF TaskInv
    <3>3. CASE v # w BY <2>3, <3>1, <3>3 DEF TaskInv
    <3>4. QED BY <3>2, <3>3, Zenon
  <2>7. ASSUME NEW r \in Requests
        PROVE  (fate[r] = "queued") <=>
                  \/ \E i \in DOMAIN queue' : queue'[i] = r
                  \/ \E v \in Workers : pc'[v] \in Tasked /\ cur'[v] = r
    <3>1. ASSUME NEW i \in DOMAIN queue, queue[i] = r
          PROVE  \/ \E j \in DOMAIN queue' : queue'[j] = r
                 \/ \E v \in Workers : pc'[v] \in Tasked /\ cur'[v] = r
      <4>1. CASE i = 1 BY <2>3, <3>1, <4>1, Zenon
      <4>2. CASE i # 1
        <5>1. i - 1 \in DOMAIN queue' /\ queue'[i - 1] = queue[i] BY <2>2, <4>2
        <5>2. QED BY <3>1, <5>1
      <4>3. QED BY <4>1, <4>2, Zenon
    <3>2. ASSUME NEW v \in Workers, pc[v] \in Tasked, cur[v] = r
          PROVE  \E u \in Workers : pc'[u] \in Tasked /\ cur'[u] = r
      BY <1>2, <2>3, <3>2, Zenon
    <3>3. ASSUME NEW i \in DOMAIN queue', queue'[i] = r PROVE fate[r] = "queued"
      BY <2>2, <3>3 DEF TaskInv
    <3>4. ASSUME NEW v \in Workers, pc'[v] \in Tasked, cur'[v] = r
          PROVE  fate[r] = "queued"
      BY <2>2, <2>3, <3>4 DEF TaskInv
    <3>5. QED BY <3>1, <3>2, <3>3, <3>4 DEF TaskInv
  <2>8. QED BY <1>1, <2>4, <2>5, <2>6, <2>7 DEF TaskInv
<1>4. CASE queue = <<>>
  <2>1. PICK label \in {"block", "exited"} : Goto(w, label)
    BY <1>4 DEF Take
  <2>2. label \in Labels /\ label \notin Tasked BY TaskedFacts DEF Idle
  <2>3. UNCHANGED <<queue, fate, cur>> BY <1>4 DEF Take
  <2>4. QED BY <1>2, <2>1, <2>2, <2>3, TaskMoves
<1>5. QED BY <1>3, <1>4


(* An answer ends: its request is no longer queued, and no one's task.       *)
LEMMA TaskAnswered ==
    ASSUME WorkersInv, TaskInv, NEW w \in Workers, Generate(w) PROVE TaskInv'
<1>1. /\ fate \in [Requests -> {"new", "queued", "rejected", "cut", "done"}]
      /\ pc \in [Workers -> Labels] /\ UNCHANGED <<queue, cur>>
  BY OneWorker DEF Generate, pool, TypeOK, PoolType
<1>2. CASE pc[w] = "generate" /\ Goto(w, "decode") /\ UNCHANGED fate
  <2>1. {"generate", "decode"} \subseteq Tasked /\ "decode" \in Labels
    BY TaskedFacts DEF Tasked, Working
  <2>2. QED BY <1>1, <1>2, <2>1, TaskMoves
<1>3. CASE UNCHANGED <<pc, fate>> BY <1>1, <1>3, TasksStay, Zenon
<1>4. CASE /\ pc[w] = "decode" /\ Goto(w, "sub")
           /\ fate' = [fate EXCEPT ![cur[w]] = IF MoreTokens(w) THEN "done" ELSE "cut"]
  <2>1. pc[w] \in Tasked /\ pc[w] \notin Idle /\ "sub" \notin Tasked
    BY <1>4, TaskedFacts DEF Tasked, Working, Ending, Idle
  <2>2. cur[w] \in Requests BY <2>1, OneWorker, Zenon
  <2>3. PICK over \in {"done", "cut"} : fate' = [fate EXCEPT ![cur[w]] = over]
    BY <1>4, Zenon
  <2>4. /\ pc'[w] \notin Tasked /\ fate'[cur[w]] # "queued"
        /\ \A v \in Workers \ {w} : pc'[v] = pc[v]
        /\ \A r \in Requests \ {cur[w]} : fate'[r] = fate[r]
    BY <1>1, <1>4, <2>1, <2>2, <2>3 DEF Goto
  <2>5. \A v \in Workers : pc'[v] \in Tasked => cur[v] # cur[w]
    BY <2>1, <2>4 DEF TaskInv
  <2>6. \A i \in DOMAIN queue : queue[i] # cur[w] BY <2>1 DEF TaskInv
  <2>7. ASSUME NEW r \in Requests
        PROVE  (fate'[r] = "queued") <=>
                  \/ \E i \in DOMAIN queue : queue[i] = r
                  \/ \E v \in Workers : pc'[v] \in Tasked /\ cur[v] = r
    <3>1. CASE r = cur[w] BY <2>4, <2>5, <2>6, <3>1, Zenon
    <3>2. CASE r # cur[w] BY <2>4, <3>2, Zenon DEF TaskInv
    <3>3. QED BY <3>1, <3>2, Zenon
  <2>8. /\ \A u, v \in Workers :
              pc'[u] \in Tasked /\ pc'[v] \in Tasked /\ cur[u] = cur[v] => u = v
        /\ \A i \in DOMAIN queue, v \in Workers : pc'[v] \in Tasked => cur[v] # queue[i]
    BY <2>4 DEF TaskInv
  <2>9. QED BY <1>1, <2>7, <2>8, Zenon DEF TaskInv
<1>5. QED BY <1>2, <1>3, <1>4 DEF Generate

(* The guard and the limit keep a worker's task, and it is let go of after   *)
(* the answer only.                                                          *)
LEMMA TaskGuarded ==
    ASSUME WorkersInv, TaskInv, NEW w \in Workers,
           OnRequestStart(w) \/ SetMaxTokens(w) \/ OnRequestEnd(w)
    PROVE  TaskInv'
<1>1. UNCHANGED <<queue, fate>> BY Zenon DEF OnRequestStart, SetMaxTokens, OnRequestEnd, pool
<1>2. CASE OnRequestStart(w) \/ SetMaxTokens(w)
  <2>1. cur' = cur BY <1>2, Zenon DEF OnRequestStart, SetMaxTokens
  <2>2. pc[w] \in Tasked /\ \E label \in Tasked : Goto(w, label)
    BY <1>2, Zenon DEF OnRequestStart, SetMaxTokens, Tasked, Starting, Working
  <2>3. QED BY <1>1, <2>1, <2>2, TaskedFacts, TaskMoves, Zenon
<1>3. CASE OnRequestEnd(w)
  <2>1. \A v \in Workers \ {w} : cur'[v] = cur[v] BY <1>3, OneWorker, Zenon DEF OnRequestEnd
  <2>2. pc[w] \in Ending /\ \E label \in Ending \cup {"check"} : Goto(w, label)
    BY <1>3 DEF OnRequestEnd, Ending
  <2>3. "check" \in Idle BY DEF Idle
  <2>4. QED BY <1>1, <2>1, <2>2, <2>3, TaskedFacts, TaskMoves, Zenon
<1>4. QED BY <1>2, <1>3, Zenon

(* TaskInv is inductive, relative to WorkersInv.                             *)
LEMMA TaskNext ==
    ASSUME WorkersInv, TaskInv, [Next]_vars PROVE TaskInv'
<1>1. ASSUME NEW w \in Workers, WorkerThreadFunc(w) PROVE TaskInv'
  <2>1. CASE LoopHead(w) \/ Block(w)
    <3>1. UNCHANGED <<queue, fate, cur>> BY <2>1 DEF LoopHead, Block, pool
    <3>2. pc[w] \in Idle /\ \E label \in Idle : Goto(w, label)
      BY <2>1 DEF LoopHead, Block, Idle
    <3>3. QED BY <3>1, <3>2, TaskedFacts, TaskMoves
  <2>2. QED BY <1>1, <2>1, TaskTaken, TaskGuarded, TaskAnswered, ZenonT(30)
        DEF WorkerThreadFunc, ProcessAsyncChatTask
<1>2. CASE NotifyOne \/ StopWorkerThreads
  <2>1. UNCHANGED <<queue, fate, cur>> BY <1>2 DEF NotifyOne, StopWorkerThreads
  <2>2. ASSUME NEW w \in Workers
        PROVE  pc'[w] = pc[w] \/ (pc[w] = "blocked" /\ pc'[w] = "woken")
    BY <1>2, OneWorker DEF NotifyOne, StopWorkerThreads, Blocked, Goto
  <2>3. "blocked" \notin Tasked /\ "woken" \notin Tasked BY TaskedFacts DEF Idle
  <2>4. QED BY <2>1, <2>2, <2>3, TasksStay
<1>3. ASSUME UNCHANGED <<queue, fate, cur, pc>> PROVE TaskInv'
  BY <1>3, TasksStay
<1>4. ASSUME NEW r \in Requests, Timeout(r) PROVE TaskInv'
  BY <1>3, <1>4 DEF Timeout, pool
<1>5. CASE CleanupTimeoutRequests \/ UNCHANGED vars
  BY <1>3, <1>5 DEF CleanupTimeoutRequests, vars, pool
<1>6. QED BY <1>1, <1>2, <1>4, <1>5, TaskQueued DEF Next

(* TaskInv is a strengthening of HandledOnce.                                *)
LEMMA TaskInvImplies == TaskInv => HandledOnce
<1> SUFFICES ASSUME TaskInv, NEW r \in Requests
    PROVE  Cardinality({i \in DOMAIN queue : queue[i] = r})
             + Cardinality({w \in Workers : cur[w] = r /\ pc[w] \in Tasked})
           = IF fate[r] = "queued" THEN 1 ELSE 0
  BY DEF HandledOnce, Tasked
<1> DEFINE I == {i \in DOMAIN queue : queue[i] = r}
           W == {w \in Workers : cur[w] = r /\ pc[w] \in Tasked}
<1>1. Cardinality({}) = 0 BY FS_EmptySet
<1>2. \A x : Cardinality({x}) = 1 BY FS_Singleton, Zenon
<1>3. I = {} \/ \E i : I = {i} BY DEF TaskInv
<1>4. W = {} \/ \E w : W = {w} BY DEF TaskInv
<1>5. I = {} \/ W = {} BY DEF TaskInv
<1>6. (fate[r] = "queued") <=> (I # {} \/ W # {}) BY DEF TaskInv
<1> HIDE DEF I, W
<1>7. Cardinality(I) + Cardinality(W) = IF fate[r] = "queued" THEN 1 ELSE 0
  BY <1>1, <1>2, <1>3, <1>4, <1>5, <1>6
<1>8. QED BY <1>7 DEF I, W

(* A queued task is in the queue or with one worker, never both or twice,    *)
(* whatever the pool's threads do in between (miner/api_server.cpp).         *)
THEOREM HandledOnceHolds == Spec => []HandledOnce
<1>1. Init => WorkersInv /\ TaskInv BY WorkersInit, TaskInit
<1>2. WorkersInv /\ TaskInv /\ [Next]_vars => WorkersInv' /\ TaskInv'
  BY WorkersNext, TaskNext
<1>3. QED BY <1>1, <1>2, TaskInvImplies, PTL DEF Spec

-----------------------------------------------------------------------------
(* No wake-up is lost *)

Asleep == {"block", "blocked"}

(* Why: who is about to wait holds queue_mutex_ with the queue empty, so no  *)
(* task is queued between the evaluation of the predicate and the wait; and  *)
(* no worker leaves, or is left asleep, before workers_running_ is cleared.  *)
SleepInv ==
    /\ running <=> stop = "no"
    /\ running => \A w \in Workers : pc[w] # "exited"
    /\ qlock # Nobody => queue = <<>>
    /\ SleepersWoken

(* The pool starts awake.                                                    *)
LEMMA SleepInit == Init => SleepInv
BY DEF Init, SleepInv, SleepersWoken

(* A step to a label that is neither asleep nor gone, of a worker that does  *)
(* not touch the queue.                                                      *)
LEMMA SleepMoves ==
    ASSUME WorkersInv, SleepInv, NEW w \in Workers, NEW label,
           label \notin Asleep, label = "exited" => ~running,
           Goto(w, label), UNCHANGED pool, missed' = missed
    PROVE  SleepInv'
<1>1. /\ pc'[w] = label /\ \A v \in Workers \ {w} : pc'[v] = pc[v]
      /\ UNCHANGED <<queue, qlock, running, signal, stop>>
  BY OneWorker DEF Goto, pool
<1>2. QED BY <1>1 DEF SleepInv, SleepersWoken, Asleep

(* The steps on a task neither sleep nor touch the queue.                    *)
LEMMA SleepWorking ==
    ASSUME WorkersInv, SleepInv, NEW w \in Workers, ProcessAsyncChatTask(w)
    PROVE  SleepInv'
<1>1. UNCHANGED pool /\ missed' = missed
  BY Zenon DEF ProcessAsyncChatTask, OnRequestStart, SetMaxTokens, Generate,
               OnRequestEnd, history
<1>2. \/ pc' = pc
      \/ \E label \in {"llm", "gpu", "stamp", "limit", "generate", "decode", "sub",
                       "erase", "pow", "restore", "check"} : Goto(w, label)
  BY Zenon DEF ProcessAsyncChatTask, OnRequestStart, SetMaxTokens, Generate, OnRequestEnd
<1>3. CASE pc' = pc BY <1>1, <1>3, Zenon DEF SleepInv, SleepersWoken, pool
<1>4. ASSUME NEW label \in {"llm", "gpu", "stamp", "limit", "generate", "decode", "sub",
                            "erase", "pow", "restore", "check"}, Goto(w, label)
      PROVE  SleepInv'
  <2>1. label \notin Asleep /\ label # "exited" BY <1>4 DEF Asleep
  <2>2. QED BY <1>1, <1>4, <2>1, SleepMoves
<1>5. QED BY <1>2, <1>3, <1>4, Zenon

(* Take: a worker goes to sleep only on an empty queue, and leaves only once *)
(* the pool is stopped.                                                      *)
LEMMA SleepTakes ==
    ASSUME WorkersInv, SleepInv, NEW w \in Workers, Take(w)
    PROVE  SleepInv'
<1>1. UNCHANGED <<running, signal, stop, missed>> /\ qlock = Nobody
  BY DEF Take, history
<1>2. CASE queue # <<>>
  <2>1. qlock' = Nobody /\ Goto(w, "add") BY <1>1, <1>2 DEF Take
  <2>2. pc'[w] = "add" /\ \A v \in Workers \ {w} : pc'[v] = pc[v]
    BY <2>1, OneWorker DEF Goto
  <2>3. QED BY <1>1, <2>1, <2>2 DEF SleepInv, SleepersWoken
<1>3. CASE queue = <<>>
  <2>1. queue' = <<>> BY <1>3 DEF Take
  <2>2. CASE running
    <3>1. Goto(w, "block") BY <1>3, <2>2 DEF Take, WaitsOn
    <3>2. pc'[w] = "block" /\ \A v \in Workers \ {w} : pc'[v] = pc[v]
      BY <3>1, OneWorker DEF Goto
    <3>3. QED BY <1>1, <2>1, <2>2, <3>2 DEF SleepInv, SleepersWoken
  <2>3. CASE ~running
    <3>1. Goto(w, "exited") /\ qlock' = qlock BY <1>3, <2>3 DEF Take, WaitsOn
    <3>2. pc'[w] = "exited" /\ \A v \in Workers \ {w} : pc'[v] = pc[v]
      BY <3>1, OneWorker DEF Goto
    <3>3. QED BY <1>1, <2>1, <2>3, <3>1, <3>2 DEF SleepInv, SleepersWoken
  <2>4. QED BY <2>2, <2>3
<1>4. QED BY <1>2, <1>3

(* Block: the queue is still empty when the wait lets the mutex go.          *)
LEMMA SleepBlocks ==
    ASSUME WorkersInv, SleepInv, NEW w \in Workers, Block(w)
    PROVE  SleepInv'
<1>1. /\ UNCHANGED <<queue, running, signal, stop, missed>> /\ qlock' = Nobody
      /\ pc[w] = "block" /\ Goto(w, "blocked")
  BY DEF Block, history
<1>2. pc'[w] = "blocked" /\ \A v \in Workers \ {w} : pc'[v] = pc[v]
  BY <1>1, OneWorker DEF Goto
<1>3. qlock = w BY <1>1 DEF WorkersInv, TypeOK, WorkerType
<1>4. queue = <<>> BY <1>3, NamesAssumption DEF SleepInv
<1>5. QED BY <1>1, <1>2, <1>4 DEF SleepInv, SleepersWoken

(* NotifyOne: with a task queued nobody is between the predicate and the     *)
(* wait, so either a worker is awake or one is there to be woken.            *)
LEMMA SleepNotified ==
    ASSUME WorkersInv, SleepInv, NotifyOne
    PROVE  SleepInv'
<1>1. UNCHANGED <<queue, qlock, running, stop, missed>> /\ pc \in [Workers -> Labels]
  BY DEF NotifyOne, history, WorkersInv, TypeOK, WorkerType, Labels
<1>2. CASE Blocked = {}
  <2>1. pc' = pc BY <1>2 DEF NotifyOne
  <2>2. ASSUME stop = "no", queue # <<>>
        PROVE  \E w \in Workers : pc[w] \notin {"block", "blocked", "exited"}
    <3>1. PICK w \in Workers : TRUE BY WorkersAssumption
    <3>2. pc[w] # "blocked" BY <1>2 DEF Blocked
    <3>3. pc[w] # "block"
      BY <2>2, NamesAssumption DEF SleepInv, WorkersInv, TypeOK, WorkerType
    <3>4. pc[w] # "exited" BY <2>2 DEF SleepInv
    <3>5. QED BY <3>2, <3>3, <3>4
  <2>3. QED BY <1>1, <2>1, <2>2 DEF SleepInv, SleepersWoken
<1>3. ASSUME NEW w \in Blocked, Goto(w, "woken") PROVE SleepInv'
  <2>1. w \in Workers BY DEF Blocked
  <2>2. pc'[w] = "woken" /\ \A v \in Workers \ {w} : pc'[v] = pc[v]
    BY <1>1, <1>3, <2>1 DEF Goto
  <2>3. QED BY <1>1, <2>1, <2>2 DEF SleepInv, SleepersWoken
<1>4. QED BY <1>2, <1>3 DEF NotifyOne

(* Stop: notify_all leaves asleep only who was about to sleep.               *)
LEMMA SleepStopped ==
    ASSUME WorkersInv, SleepInv, StopWorkerThreads
    PROVE  SleepInv'
<1>1. UNCHANGED <<queue, qlock>> BY DEF StopWorkerThreads
<1>2. CASE stop = "no" /\ stop' = "notify" /\ running' = FALSE /\ UNCHANGED <<pc, missed>>
  BY <1>1, <1>2 DEF SleepInv, SleepersWoken
<1>3. CASE /\ stop = "notify" /\ stop' = "join" /\ UNCHANGED running
           /\ pc' = [w \in Workers |-> IF w \in Blocked THEN "woken" ELSE pc[w]]
           /\ missed' = {w \in Workers : pc[w] = "block"}
  <2>1. ASSUME NEW w \in Workers, pc'[w] \in {"block", "blocked"}
        PROVE  w \in missed'
    BY <1>3, <2>1 DEF Blocked
  <2>2. ~running' BY <1>3 DEF SleepInv
  <2>3. QED BY <1>1, <1>3, <2>1, <2>2 DEF SleepInv, SleepersWoken
<1>4. CASE stop = "join" /\ stop' = "joined" /\ UNCHANGED <<running, pc, missed>>
  BY <1>1, <1>4 DEF SleepInv, SleepersWoken
<1>5. QED BY <1>2, <1>3, <1>4, Zenon DEF StopWorkerThreads

(* SleepInv is inductive, relative to WorkersInv.                            *)
LEMMA SleepNext ==
    ASSUME WorkersInv, SleepInv, [Next]_vars
    PROVE  SleepInv'
<1>1. ASSUME NEW w \in Workers, WorkerThreadFunc(w) PROVE SleepInv'
  <2>1. CASE LoopHead(w)
    <3>1. /\ UNCHANGED pool /\ missed' = missed
          /\ Goto(w, IF running THEN "want" ELSE "exited")
      BY <2>1 DEF LoopHead, history
    <3>2. QED BY <3>1, SleepMoves DEF Asleep
  <2>2. QED BY <1>1, <2>1, SleepTakes, SleepBlocks, SleepWorking, Zenon
        DEF WorkerThreadFunc
<1>2. ASSUME NEW r \in Requests, Enqueue(r) PROVE SleepInv'
  <2>1. /\ qlock = Nobody /\ UNCHANGED <<qlock, running, stop, pc, missed>>
        /\ (queue' = queue /\ signal' = signal) \/ signal' = TRUE
    BY <1>2, Zenon DEF Enqueue, Signal, history
  <2>2. QED BY <2>1 DEF SleepInv, SleepersWoken
<1>3. ASSUME UNCHANGED <<pool, pc, missed>> PROVE SleepInv'
  BY <1>3, Zenon DEF SleepInv, SleepersWoken, pool
<1>4. ASSUME NEW r \in Requests, Timeout(r) PROVE SleepInv'
  BY <1>3, <1>4 DEF Timeout, history
<1>5. CASE CleanupTimeoutRequests \/ UNCHANGED vars
  BY <1>3, <1>5 DEF CleanupTimeoutRequests, vars, history
<1>6. QED BY <1>1, <1>2, <1>4, <1>5, SleepNotified, SleepStopped, Zenon DEF Next

(* No task waits with every worker asleep, and Stop leaves asleep only the   *)
(* workers that read workers_running_ too early (WorkerThreadFunc,           *)
(* HandleChatRequest and StopWorkerThreads in api_server.cpp).               *)
THEOREM SleepersWokenHolds == Spec => []SleepersWoken
<1>1. Init => WorkersInv /\ SleepInv BY WorkersInit, SleepInit
<1>2. WorkersInv /\ SleepInv /\ [Next]_vars => WorkersInv' /\ SleepInv'
  BY WorkersNext, SleepNext
<1>3. SleepInv => SleepersWoken BY DEF SleepInv
<1>4. QED BY <1>1, <1>2, <1>3, PTL DEF Spec
=============================================================================
