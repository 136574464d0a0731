--------------------------- MODULE ApiForwarding ---------------------------
(***************************************************************************)
(* Inference over the peer-to-peer network: the RPC p2pinference sends an  *)
(* APIREQ to a peer and waits on a promise that the APIRESP handler        *)
(* fulfils.  A node whose own miner cannot answer forwards the APIREQ to a *)
(* peer that advertises a miner, and waits for the answer inside its       *)
(* message handler thread.  A call without an explicit peer first tries    *)
(* the backend router, whose remote backend sends an APIREQ of its own and *)
(* keeps its promise in a second table, under a second kind of number.     *)
(*                                                                         *)
(* A call stands for its prompt, so the content of a response is the call  *)
(* whose prompt the miner answered.                                        *)
(***************************************************************************)
EXTENDS Naturals, Sequences, FiniteSets, Functions

CONSTANTS
    Nodes,          \* full nodes
    Calls,          \* p2pinference calls, one RPC thread each
    Home,           \* Home[c]: the node that call c is made on
    Explicit,       \* calls that name the peer to ask
    Miners,         \* nodes whose local miner may answer
    Peers,          \* connections at the start: a symmetric relation on Nodes
    Ads,            \* Ads[n]: peers of n that have sent a MINER_INFO
    Second,         \* ids per second: 1000000 in the code
    MaxClock        \* bound on the clock, in seconds

ASSUME ForwardingAssumption ==
    /\ Nodes \cap Calls = {}
    /\ Home \in [Calls -> Nodes]
    /\ Explicit \subseteq Calls
    /\ Miners \subseteq Nodes
    /\ Peers \subseteq Nodes \X Nodes /\ IsFiniteSet(Peers)
    /\ \A n, m \in Nodes : <<n, m>> \in Peers => <<m, n>> \in Peers /\ n # m
    /\ Ads \in [Nodes -> SUBSET Nodes]
    /\ \A n \in Nodes : n \notin Ads[n]
    /\ IsFiniteSet(Calls) /\ Second \in Nat /\ Cardinality(Calls) < Second
    /\ MaxClock \in Nat \ {0}

VARIABLES
    clock,          \* the last value of GetTime() that made an id
    up,             \* the connections that are open
    link,           \* link[<<n, m>>]: messages on their way from n to m
    hand,           \* hand[n]: the request n's message handler forwards, if any
    pending,        \* pending[n]: m_pending_api_responses, id -> who waits
    engine,         \* engine[n]: s_pending_responses, key -> who waits
    got,            \* the state of each waiter's future
    counter,        \* counter[n]: s_req_counter, s_wire_counter, s_next_request_id
    pc, target, tried, \* per call: progress, chosen peer, backends tried
    sentId,         \* per call: the ids its requests went out under
    result,         \* per call: what it returned
    answered        \* history: successful relays to a miner, per call

vars == <<clock, up, link, hand, pending, engine, got, counter,
          pc, target, tried, sentId, result, answered>>
callVars == <<pc, target, tried, sentId, result>>

NoNode == "no node"
ASSUME NamesAssumption ==
    Calls \cap {"error", "wait", "broken", "none", "no peer", "timeout"} = {}

Waiters == Calls \cup Nodes
Answers == Calls \cup {"error"}
Ids == Nat
Idle == [busy |-> FALSE]
Forwarding(id, from) == [busy |-> TRUE, id |-> id, from |-> from]
APIREQ(id, c) == [type |-> "apireq", id |-> id, body |-> c]
APIRESP(id, a) == [type |-> "apiresp", id |-> id, body |-> a]
Messages == [type : {"apireq"}, id : Ids, body : Calls]
              \cup [type : {"apiresp"}, id : Ids, body : Answers]

Init ==
    /\ clock = 1
    /\ up = Peers
    /\ link = [p \in Peers |-> <<>>]
    /\ hand = [n \in Nodes |-> Idle]
    /\ pending = [n \in Nodes |-> <<>>]
    /\ engine = [n \in Nodes |-> <<>>]
    /\ got = [w \in Waiters |-> "wait"]
    /\ counter = [n \in Nodes |-> [req |-> 0, wire |-> 0, key |-> 1]]
    /\ pc = [c \in Calls |-> "idle"]
    /\ target = [c \in Calls |-> NoNode]
    /\ tried = [c \in Calls |-> {}]
    /\ sentId = [c \in Calls |-> {}]
    /\ result = [c \in Calls |-> "none"]
    /\ answered = [c \in Calls |-> 0]

----------------------------------------------------------------------------
\* CConnman::PushMessage through ForNode: nothing is sent to a lost peer.
Push(l, n, m, msg) ==
    IF <<n, m>> \in up THEN [l EXCEPT ![<<n, m>>] = Append(@, msg)] ELSE l

\* A waiter whose thread still holds the future of its promise.
Waiting(w) == IF w \in Nodes THEN hand[w].busy ELSE pc[w] \in {"engine", "wait"}

With(f, id, w) == [i \in DOMAIN f \cup {id} |-> IF i = id THEN w ELSE f[i]]
Without(f, id) == Restrict(f, DOMAIN f \ {id})

\* The futures after m_pending_api_responses[id] = promise by waiter w, whose
\* own future is then v: a promise that was already there is destroyed, and
\* the future of its waiter throws broken_promise.
Entered(n, id, w, v) ==
    [x \in Waiters |->
       CASE x = w -> v
         [] x # w /\ id \in DOMAIN pending[n] /\ x = pending[n][id] /\ Waiting(x) -> "broken"
         [] OTHER -> got[x]]

\* GetTime() * 1000000 + counter, at a time t no earlier than the last one.
WireId(t, k) == t * Second + k

----------------------------------------------------------------------------
(* The RPC p2pinference and the backend router.                            *)

\* p2pinference with an explicit peer goes straight to SendInferenceRequest;
\* without one the first connected peer is chosen before anything is tried.
CallStarts(c) ==
    /\ pc[c] = "idle"
    /\ pc' = [pc EXCEPT ![c] = IF c \in Explicit THEN "send" ELSE "route"]
    /\ \E p \in Nodes \cup {NoNode} :
          /\ target' = [target EXCEPT ![c] = p]
          /\ \/ c \in Explicit /\ p \in Nodes \ {Home[c]}
             \/ c \notin Explicit /\ <<Home[c], p>> \in up
             \/ /\ c \notin Explicit /\ p = NoNode
                /\ \A q \in Nodes : <<Home[c], q>> \notin up
    /\ UNCHANGED <<clock, up, link, hand, pending, engine, got, counter,
                   tried, sentId, result, answered>>

\* BackendRouter::Dispatch tries each backend once, the local one first
\* when it is available.  The local backend answers, or fails; when it fails
\* the miner may have run the prompt, and nothing is billed for that run.
LocalBackend(c) ==
    /\ pc[c] = "route" /\ "local" \notin tried[c]
    /\ tried' = [tried EXCEPT ![c] = @ \cup {"local"}]
    /\ \/ /\ Home[c] \in Miners
          /\ answered' = [answered EXCEPT ![c] = @ + 1]
          /\ result' = [result EXCEPT ![c] = c]
          /\ pc' = [pc EXCEPT ![c] = "done"]
       \/ UNCHANGED <<pc, result, answered>>
    /\ UNCHANGED <<clock, up, link, hand, pending, engine, got, counter,
                   target, sentId>>

\* RemoteBackend::Infer and the SendCallback: the wire carries an id of
\* s_wire_counter, the promise is kept under a key of s_next_request_id.
RemoteBackend(c) ==
    LET n == Home[c] k == counter[n].key IN
    /\ pc[c] = "route" /\ "remote" \notin tried[c]
    /\ tried' = [tried EXCEPT ![c] = @ \cup {"remote"}]
    /\ \E p \in Nodes, t \in clock..MaxClock :
          LET id == WireId(t, counter[n].wire) IN
          /\ <<n, p>> \in up
          /\ clock' = t
          /\ link' = Push(link, n, p, APIREQ(id, c))
          /\ sentId' = [sentId EXCEPT ![c] = @ \cup {<<"wire", id>>}]
    /\ counter' = [counter EXCEPT ![n].wire = @ + 1, ![n].key = @ + 1]
    /\ engine' = [engine EXCEPT ![n] = With(@, k, c)]
    /\ got' = [got EXCEPT ![c] = "wait"]
    /\ pc' = [pc EXCEPT ![c] = "engine"]
    /\ UNCHANGED <<up, hand, pending, target, result, answered>>

\* The peer of the endpoint, registered when it was connected, is gone: the id
\* and the key are used up, and the key is dropped again.
PeerGone(c) ==
    LET n == Home[c] IN
    /\ pc[c] = "route" /\ "remote" \notin tried[c]
    /\ \E p \in Nodes : <<n, p>> \in Peers \ up
    /\ tried' = [tried EXCEPT ![c] = @ \cup {"remote"}]
    /\ counter' = [counter EXCEPT ![n].wire = @ + 1, ![n].key = @ + 1]
    /\ UNCHANGED <<clock, up, link, hand, pending, engine, got, pc, target,
                   sentId, result, answered>>

\* The remote backend fails before it makes an id: it is disabled, has no
\* endpoint, or the preflight check fails.
NoEndpoint(c) ==
    /\ pc[c] = "route" /\ "remote" \notin tried[c]
    /\ tried' = [tried EXCEPT ![c] = @ \cup {"remote"}]
    /\ UNCHANGED <<clock, up, link, hand, pending, engine, got, counter,
                   pc, target, sentId, result, answered>>

\* Mutant: wait without a timeout.
EngineWaits(c) ==
    LET n == Home[c] ok == got[c] \in Calls IN
    /\ pc[c] = "engine" /\ got[c] # "wait"
    /\ engine' = [engine EXCEPT ![n] = RestrictValues(@, LAMBDA w : w # c)]
    /\ pc' = [pc EXCEPT ![c] = IF ok THEN "done" ELSE "route"]
    /\ result' = [result EXCEPT ![c] = IF ok THEN got[c] ELSE @]
    /\ UNCHANGED <<clock, up, link, hand, pending, got, counter, target,
                   tried, sentId, answered>>

\* wait_for in the SendCallback: the value, or the timeout, which drops the
\* key.  An error is a failed backend to the router.
EngineReturns(c) ==
    LET n == Home[c] ok == got[c] \in Calls IN
    /\ pc[c] = "engine"
    /\ engine' = [engine EXCEPT ![n] = RestrictValues(@, LAMBDA w : w # c)]
    /\ pc' = [pc EXCEPT ![c] = IF ok THEN "done" ELSE "route"]
    /\ result' = [result EXCEPT ![c] = IF ok THEN got[c] ELSE @]
    /\ UNCHANGED <<clock, up, link, hand, pending, got, counter, target,
                   tried, sentId, answered>>

\* No backend is left: p2pinference goes on to the peer it chose, or throws
\* when there was none.
BackendsExhausted(c) ==
    /\ pc[c] = "route" /\ "remote" \in tried[c]
    /\ pc' = [pc EXCEPT ![c] = IF target[c] = NoNode THEN "done" ELSE "send"]
    /\ result' = [result EXCEPT ![c] = IF target[c] = NoNode THEN "no peer" ELSE @]
    /\ UNCHANGED <<clock, up, link, hand, pending, engine, got, counter,
                   target, tried, sentId, answered>>

\* SendInferenceRequest: enter the promise, push the APIREQ; when the peer
\* is gone the promise is given an error and taken out again.
SendInferenceRequest(c) ==
    LET n == Home[c] p == target[c] IN
    /\ pc[c] = "send"
    /\ \E t \in clock..MaxClock :
          LET id == WireId(t, counter[n].req) IN
          /\ clock' = t
          /\ sentId' = [sentId EXCEPT ![c] = @ \cup {<<"req", id>>}]
          /\ \/ /\ <<n, p>> \in up
                /\ pending' = [pending EXCEPT ![n] = With(@, id, c)]
                /\ got' = Entered(n, id, c, "wait")
                /\ link' = Push(link, n, p, APIREQ(id, c))
             \/ /\ <<n, p>> \notin up
                /\ pending' = [pending EXCEPT ![n] = Without(@, id)]
                /\ got' = Entered(n, id, c, "error")
                /\ UNCHANGED link
    /\ counter' = [counter EXCEPT ![n].req = @ + 1]
    /\ pc' = [pc EXCEPT ![c] = "wait"]
    /\ UNCHANGED <<up, hand, engine, target, tried, result, answered>>

\* The future is ready: the RPC returns it (and bills it), or throws.
CallReturns(c) ==
    /\ pc[c] = "wait" /\ got[c] # "wait"
    /\ result' = [result EXCEPT ![c] = got[c]]
    /\ pc' = [pc EXCEPT ![c] = "done"]
    /\ UNCHANGED <<clock, up, link, hand, pending, engine, got, counter,
                   target, tried, sentId, answered>>

\* The 86400 s are over: the RPC throws and its promise stays in the table.
CallTimesOut(c) ==
    /\ pc[c] = "wait" /\ got[c] = "wait"
    /\ result' = [result EXCEPT ![c] = "timeout"]
    /\ pc' = [pc EXCEPT ![c] = "done"]
    /\ UNCHANGED <<clock, up, link, hand, pending, engine, got, counter,
                   target, tried, sentId, answered>>

----------------------------------------------------------------------------
(* The message handler thread of a node.                                   *)

\* n's handler is free and takes the next message of peer m.
Takes(n, m, type) ==
    /\ ~hand[n].busy
    /\ <<m, n>> \in up
    /\ link[<<m, n>>] # <<>>
    /\ Head(link[<<m, n>>]).type = type

Popped(n, m) == [link EXCEPT ![<<m, n>>] = Tail(@)]

\* An APIREQ that n refuses, or cannot serve: no valid key, not enough
\* balance, payment missing, a registered miner that failed, or no peer to
\* forward to.
RefuseAPIREQ(n, m) ==
    /\ Takes(n, m, "apireq")
    /\ LET id == Head(link[<<m, n>>]).id IN
       link' = Push(Popped(n, m), n, m, APIRESP(id, "error"))
    /\ UNCHANGED <<clock, up, hand, pending, engine, got, counter, callVars, answered>>

\* An APIREQ that the local miner answers: it is billed and the answer sent.
ServeAPIREQ(n, m) ==
    /\ Takes(n, m, "apireq") /\ n \in Miners
    /\ LET req == Head(link[<<m, n>>]) IN
       /\ link' = Push(Popped(n, m), n, m, APIRESP(req.id, req.body))
       /\ answered' = [answered EXCEPT ![req.body] = @ + 1]
    /\ UNCHANGED <<clock, up, hand, pending, engine, got, counter, callVars>>

\* Mutant: the request that is forwarded is also left for the next round.
ForwardAndKeep(n, m) ==
    /\ Takes(n, m, "apireq")
    /\ LET req == Head(link[<<m, n>>]) IN
       \E p \in Ads[n] \ {m} :
          /\ pending' = [pending EXCEPT ![n] = With(@, req.id, n)]
          /\ got' = Entered(n, req.id, n, "wait")
          /\ hand' = [hand EXCEPT ![n] = Forwarding(req.id, m)]
          /\ link' = Push(link, n, p, req)
    /\ UNCHANGED <<clock, up, engine, counter, callVars, answered>>

\* The relay to the local miner failed, before or after the miner ran the
\* prompt, and none is registered: the APIREQ goes on, under the same id, to a
\* peer other than the one it came from, and the handler waits.  The result of
\* ForNode is not looked at.
ForwardAPIREQ(n, m) ==
    /\ Takes(n, m, "apireq")
    /\ LET req == Head(link[<<m, n>>]) IN
       \E p \in Ads[n] \ {m} :
          /\ pending' = [pending EXCEPT ![n] = With(@, req.id, n)]
          /\ got' = Entered(n, req.id, n, "wait")
          /\ hand' = [hand EXCEPT ![n] = Forwarding(req.id, m)]
          /\ link' = Push(Popped(n, m), n, p, req)
    /\ UNCHANGED <<clock, up, engine, counter, callVars, answered>>

\* Mutant: the handler waits without a timeout.
ForwardWaits(n) ==
    LET h == hand[n] IN
    /\ h.busy /\ got[n] # "wait"
    /\ hand' = [hand EXCEPT ![n] = Idle]
    /\ link' = IF got[n] = "broken" THEN link
               ELSE Push(link, n, h.from, APIRESP(h.id, got[n]))
    /\ UNCHANGED <<clock, up, pending, engine, got, counter, callVars, answered>>

\* wait_for in the APIREQ handler: the value is relayed, the timeout drops
\* the entry and is answered with an error, a broken promise throws out of
\* the handler and nothing is answered.
ForwardReturns(n) ==
    LET h == hand[n] IN
    /\ h.busy
    /\ hand' = [hand EXCEPT ![n] = Idle]
    /\ pending' = IF got[n] = "wait"
                  THEN [pending EXCEPT ![n] = Without(@, h.id)] ELSE pending
    /\ link' = CASE got[n] = "wait" -> Push(link, n, h.from, APIRESP(h.id, "error"))
                 [] got[n] = "broken" -> link
                 [] OTHER -> Push(link, n, h.from, APIRESP(h.id, got[n]))
    /\ UNCHANGED <<clock, up, engine, got, counter, callVars, answered>>

\* Mutant: the entries of an answered request are not erased.
HandleAPIRESPKeeps(n, m) ==
    /\ Takes(n, m, "apiresp")
    /\ LET resp == Head(link[<<m, n>>])
           told == {w \in Waiters : Waiting(w) /\
                      \/ resp.id \in DOMAIN pending[n] /\ w = pending[n][resp.id]
                      \/ resp.id \in DOMAIN engine[n] /\ w = engine[n][resp.id]}
       IN got' = [w \in Waiters |-> IF w \in told THEN resp.body ELSE got[w]]
    /\ link' = Popped(n, m)
    /\ UNCHANGED <<clock, up, hand, pending, engine, counter, callVars, answered>>

\* Mutant: the id of the response is not looked at, everyone is told.
HandleAPIRESPTellsAll(n, m) ==
    /\ Takes(n, m, "apiresp")
    /\ LET resp == Head(link[<<m, n>>])
       IN got' = [w \in Waiters |-> IF Waiting(w) /\ w \in Range(pending[n])
                                    THEN resp.body ELSE got[w]]
    /\ pending' = [pending EXCEPT ![n] = <<>>]
    /\ link' = Popped(n, m)
    /\ UNCHANGED <<clock, up, hand, engine, counter, callVars, answered>>

\* An APIRESP fulfils the promise under its id in m_pending_api_responses,
\* then the one under its id in the engine's table; both entries are erased.
HandleAPIRESP(n, m) ==
    /\ Takes(n, m, "apiresp")
    /\ LET resp == Head(link[<<m, n>>])
           told == {w \in Waiters : Waiting(w) /\
                      \/ resp.id \in DOMAIN pending[n] /\ w = pending[n][resp.id]
                      \/ resp.id \in DOMAIN engine[n] /\ w = engine[n][resp.id]}
       IN /\ got' = [w \in Waiters |-> IF w \in told THEN resp.body ELSE got[w]]
          /\ pending' = [pending EXCEPT ![n] = Without(@, resp.id)]
          /\ engine' = [engine EXCEPT ![n] = Without(@, resp.id)]
    /\ link' = Popped(n, m)
    /\ UNCHANGED <<clock, up, hand, counter, callVars, answered>>

\* A connection is lost with the messages on it.
Disconnect(n, m) ==
    /\ <<n, m>> \in up
    /\ up' = up \ {<<n, m>>, <<m, n>>}
    /\ link' = [link EXCEPT ![<<n, m>>] = <<>>, ![<<m, n>>] = <<>>]
    /\ UNCHANGED <<clock, hand, pending, engine, got, counter, callVars, answered>>

----------------------------------------------------------------------------
Caller(c) ==
    \/ CallStarts(c) \/ LocalBackend(c) \/ RemoteBackend(c) \/ PeerGone(c)
    \/ NoEndpoint(c) \/ EngineReturns(c) \/ BackendsExhausted(c) \/ SendInferenceRequest(c)
    \/ CallReturns(c) \/ CallTimesOut(c)

MessageHandler(n, m) ==
    \/ RefuseAPIREQ(n, m) \/ ServeAPIREQ(n, m) \/ ForwardAPIREQ(n, m)
    \/ HandleAPIRESP(n, m)

Next ==
    \/ \E c \in Calls : Caller(c)
    \/ \E n, m \in Nodes : MessageHandler(n, m) \/ Disconnect(n, m)
    \/ \E n \in Nodes : ForwardReturns(n)

Spec == Init /\ [][Next]_vars

\* The RPC threads run and their waits end at the latest with the timeout;
\* the handler's wait ends likewise, and between two waits it serves its
\* peers in turn.
Fairness ==
    /\ \A c \in Calls : WF_vars(Caller(c) /\ pc[c] # "idle")
    /\ \A n \in Nodes : WF_vars(ForwardReturns(n))
    /\ \A p \in Peers : WF_vars(MessageHandler(p[1], p[2]))

FairSpec == Spec /\ Fairness

----------------------------------------------------------------------------
(* Properties.                                                             *)

\* Every variable keeps its type; in particular a call never returns the
\* state of a future that is not ready.
TypeOK ==
    /\ clock \in 1..MaxClock
    /\ up \subseteq Peers
    /\ link \in [Peers -> Seq(Messages)]
    /\ hand \in [Nodes -> {Idle} \cup [busy : {TRUE}, id : Ids, from : Nodes]]
    /\ DOMAIN pending = Nodes /\ DOMAIN engine = Nodes
    /\ \A n \in Nodes : DOMAIN pending[n] \subseteq Ids /\ Range(pending[n]) \subseteq Waiters
    /\ \A n \in Nodes : DOMAIN engine[n] \subseteq Ids /\ Range(engine[n]) \subseteq Calls
    /\ got \in [Waiters -> Answers \cup {"wait", "broken"}]
    /\ counter \in [Nodes -> [req : Nat, wire : Nat, key : Nat]]
    /\ pc \in [Calls -> {"idle", "route", "engine", "send", "wait", "done"}]
    /\ target \in [Calls -> Nodes \cup {NoNode}]
    /\ tried \in [Calls -> SUBSET {"local", "remote"}]
    /\ sentId \in [Calls -> SUBSET ({"wire", "req"} \X Ids)]
    /\ result \in [Calls -> Answers \cup {"none", "no peer", "timeout", "broken"}]
    /\ answered \in [Calls -> Nat]

\* Every thread that waits for an answer and has none is in the table its
\* answer is looked up in, under the id it sent; and every entry belongs to
\* such a thread, or to an RPC call that has timed out (p2pinference leaves
\* its entry behind).  So no promise is ever fulfilled twice, which would
\* throw out of the message handler.
WaitersEntered ==
    /\ \A n \in Nodes : hand[n].busy /\ got[n] = "wait" =>
          hand[n].id \in DOMAIN pending[n] /\ pending[n][hand[n].id] = n
    /\ \A c \in Calls : pc[c] = "wait" /\ got[c] = "wait" =>
          c \in Range(pending[Home[c]])
    /\ \A n \in Nodes : \A id \in DOMAIN pending[n] :
          LET w == pending[n][id] IN
          IF w \in Nodes
          THEN w = n /\ hand[n].busy /\ hand[n].id = id /\ got[n] = "wait"
          ELSE /\ Home[w] = n /\ <<"req", id>> \in sentId[w]
               /\ (pc[w] = "wait" /\ got[w] = "wait") \/ result[w] = "timeout"

\* A call that returns content returns a miner's answer to its own prompt,
\* unless another call went out under the same id.
OwnAnswer ==
    \A c \in Calls : result[c] \in Calls =>
        LET d == result[c] IN
        /\ answered[d] > 0
        /\ d = c \/ \E s \in sentId[c], t \in sentId[d] : s[2] = t[2]

\* Requests for call c on one connection, and on the wire altogether.
RequestsOn(s, c) == Cardinality({i \in DOMAIN s : s[i].type = "apireq" /\ s[i].body = c})
InFlight(c) == SumFunctionOnSet([p \in Peers |-> RequestsOn(link[p], c)], Peers)

\* An answer for every id call c used, and one for the local backend.
Allowed(c) == Cardinality(sentId[c]) + (IF "local" \in tried[c] THEN 1 ELSE 0)

\* Forwarding never multiplies an answer: a prompt is answered, which is what
\* CheckAndDeductEscrow is called for, at most once for each APIREQ its call
\* sent and once by the local backend, timeouts, retries and lost connections
\* included.  How often a miner ran the prompt is not bounded like this: a
\* relay that failed may have run it before the request went on.
OneAnswerPerRequest ==
    \A c \in Calls : answered[c] + InFlight(c) <= Allowed(c)

\* Every call returns, whatever becomes of its request: again and again no
\* call is under way.
CallsReturn == []<>(\A c \in Calls : pc[c] \in {"idle", "done"})

\* What peers send is taken: no connection waits for ever behind a message
\* handler that waits for another one, and no request circulates for ever.
MessagesTaken == []<>(\A p \in Peers : link[p] = <<>>)

\* "Relay miner's response back to original requester": a handler does not
\* give up on a request whose answer has reached its node.
RelaysTheAnswer ==
    [][\A n \in Nodes : hand[n].busy /\ ~hand'[n].busy /\ got[n] = "wait" =>
          \A m \in Nodes : <<m, n>> \in up =>
             \A i \in DOMAIN link[<<m, n>>] :
                link[<<m, n>>][i].type = "apiresp" => link[<<m, n>>][i].id # hand[n].id]_vars
============================================================================
