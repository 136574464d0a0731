-------------------------- MODULE InferenceGateway --------------------------
(***************************************************************************)
(* The life of an inference request in inference_gateway.cpp: the API      *)
(* gateway (HandleChatCompletions, StreamContext) and the local proxy      *)
(* (ProxyHandler, ProxyCtx). Each server is one libevent loop, so one      *)
(* callback is one step; the steps of several requests interleave, and     *)
(* share the reservations of ReserveEscrowCost.                            *)
(*                                                                         *)
(* A context is kept as a record with the callbacks that point at it. The  *)
(* flag "finished" is not kept: the callback that sets it deletes the      *)
(* context before it returns. What the billing does is in EscrowBilling;   *)
(* here only the calls are counted.                                        *)
(***************************************************************************)
EXTENDS Integers, FiniteSets, FiniteSetsExt

CONSTANTS
    Gatewayed,   \* requests to the gateway
    Proxied,     \* requests to the local proxy
    Cost         \* what a request reserves

ASSUME GatewayAssumption ==
    /\ Cost \in Nat \ {0} /\ Gatewayed \cap Proxied = {}
    /\ IsFiniteSet(Gatewayed \cup Proxied)

Reqs == Gatewayed \cup Proxied

VARIABLES
    ctx,       \* StreamContext or ProxyCtx of each request
    client,    \* "here" or "left"
    silent,    \* requests whose miner sends nothing more
    pending,   \* g_pending_costs of the API key
    charged,   \* history: calls of CheckAndDeductEscrow
    tracked,   \* history: calls of TrackMinerServedTokens
    garbled    \* history: requests whose reply calls came out of order

vars == <<ctx, client, silent, pending, charged, tracked, garbled>>

Pieces == {"content", "error", "blank"}

NoCtx ==
    [life |-> "none", keyed |-> FALSE, skip_billing |-> FALSE, reserved |-> 0,
     bev |-> FALSE, closecb |-> FALSE, timer |-> "none", sent |-> FALSE,
     stage |-> "headers", chunked |-> FALSE, ok |-> TRUE, got |-> {},
     sse_forwarded |-> FALSE, disconnected |-> FALSE, reply |-> "none"]

Init ==
    /\ ctx = [r \in Reqs |-> NoCtx]
    /\ client = [r \in Reqs |-> "here"] /\ silent = {}
    /\ pending = 0
    /\ charged = [r \in Reqs |-> 0] /\ tracked = [r \in Reqs |-> 0]
    /\ garbled = {}

Live(r) == ctx[r].life = "live"

Put(r, c) == ctx' = [ctx EXCEPT ![r] = c]

(* A reply call on client_req of the context c in order: the client is still *)
(* there, and the reply is at one of the given stages.                       *)
InOrder(r, c, stages) ==
    garbled' = IF client[r] = "here" /\ ~c.disconnected /\ ctx[r].reply \in stages
               THEN garbled ELSE garbled \cup {r}

ReleaseEscrowCost(p, amount) == IF p >= amount THEN p - amount ELSE 0

(* A request answered with an error before it has a context: wrong method,   *)
(* body or key, not affordable, not paid for at the miner, no proxy target.  *)
(* A reservation already made is released on the spot.                       *)
Refuse(r) ==
    /\ ctx[r].life = "none" /\ client[r] = "here"
    /\ Put(r, [ctx[r] EXCEPT !.life = "over", !.reply = "ended"])
    /\ InOrder(r, ctx[r], {"none"})
    /\ UNCHANGED <<client, silent, pending, charged, tracked>>

------------------------------------------------------------------------------
(* The gateway *)

(* Mutant: the close callback stays on the client's connection.              *)
DeleteUnderCallback(c) ==
    [c EXCEPT !.life = "over", !.reserved = 0, !.bev = FALSE]

StreamSafeDelete(c) ==
    [c EXCEPT !.life = "over", !.reserved = 0, !.closecb = FALSE, !.bev = FALSE]

(* The reply starts and the miner is called; without a socket or connection  *)
(* the reply and the context end at once. non_stream_mode is always false.   *)
HttpPostToMinerProgressive(r, skip, hold) ==
    LET c == [NoCtx EXCEPT !.life = "live", !.keyed = TRUE, !.skip_billing = skip,
                 !.reserved = hold, !.bev = TRUE, !.closecb = TRUE,
                 !.timer = "armed", !.reply = "started"]
    IN  /\ InOrder(r, ctx[r], {"none"})
        /\ \/ Put(r, c) /\ pending' = pending + hold
           \/ /\ Put(r, StreamSafeDelete([c EXCEPT !.timer = "none",
                                                  !.reply = "ended"]))
              /\ pending' = ReleaseEscrowCost(pending + hold, hold)

(* HandleChatCompletions from the reservation on: none for a proxied client. *)
HandleChatCompletions(r) ==
    /\ ctx[r].life = "none" /\ client[r] = "here"
    /\ \E skip \in BOOLEAN :
          HttpPostToMinerProgressive(r, skip, IF skip THEN 0 ELSE Cost)
    /\ UNCHANGED <<client, silent, charged, tracked>>

(* Every 2 s until the first piece of the answer was forwarded.              *)
StreamKeepaliveCb(r) ==
    /\ Live(r) /\ ctx[r].timer = "armed"
    /\ IF ctx[r].sse_forwarded
       THEN Put(r, [ctx[r] EXCEPT !.timer = "idle"]) /\ UNCHANGED garbled
       ELSE InOrder(r, ctx[r], {"started"}) /\ UNCHANGED ctx
    /\ UNCHANGED <<client, silent, pending, charged, tracked>>

StreamForwardToClient(r, piece) ==
    /\ Put(r, [ctx[r] EXCEPT !.got = @ \cup ({piece} \ {"blank"}),
                             !.sse_forwarded = TRUE])
    /\ InOrder(r, ctx[r], {"started"})

(* A piece of the miner's answer: the header block, body data, or the last   *)
(* chunk, after which data is ignored.                                       *)
StreamMinerReadCb(r) ==
    /\ Live(r) /\ ctx[r].bev /\ ctx[r].sent /\ r \notin silent
    /\ \/ /\ ctx[r].stage = "headers"
          /\ \E chunked \in BOOLEAN :
                Put(r, [ctx[r] EXCEPT !.stage = "body", !.chunked = chunked])
          /\ UNCHANGED garbled
       \/ /\ ctx[r].stage = "body"
          /\ \E piece \in Pieces : StreamForwardToClient(r, piece)
       \/ /\ ctx[r].stage = "body" /\ ctx[r].chunked
          /\ Put(r, [ctx[r] EXCEPT !.stage = "done"])
          /\ UNCHANGED garbled
    /\ UNCHANGED <<client, silent, pending, charged, tracked>>

(* Mutant: only a chunked answer counts as one.                              *)
BillableIfChunked(c) == {c.chunked /\ c.got = {"content"}}

(* The answer is billed unless it is empty or an error text. The text that   *)
(* is looked at is the first content field or else all of them, so with both *)
(* kinds of text it can go either way.                                       *)
Billable(c) ==
    IF c.got = {"content", "error"} THEN BOOLEAN ELSE {c.got = {"content"}}

(* Mutant: the reply is ended though the client has left.                    *)
AlwaysEndsReply(r, c) == InOrder(r, c, {"started"})

EndReply(r, c) ==
    IF c.disconnected THEN UNCHANGED garbled ELSE InOrder(r, c, {"started"})

(* Mutant: StreamSafeDelete releases once more what was released before it.  *)
ReleasedTwice(c) == 2 * c.reserved

(* What StreamFinishAndCleanup gives back: it sets reserved_cost to zero, so *)
(* that StreamSafeDelete finds nothing to release.                           *)
Released(c) == c.reserved

(* StreamFinishAndCleanup on the context c of r.                             *)
StreamFinishAndCleanup(r, c) ==
    /\ \E bill \in IF c.disconnected THEN {FALSE} ELSE Billable(c) :
          /\ charged' = [charged EXCEPT ![r] = @ + IF bill /\ ~c.skip_billing THEN 1 ELSE 0]
          /\ tracked' = [tracked EXCEPT ![r] = @ + IF bill /\ c.skip_billing THEN 1 ELSE 0]
    /\ pending' = ReleaseEscrowCost(pending, Released(c))
    /\ EndReply(r, c)
    /\ Put(r, StreamSafeDelete([c EXCEPT !.timer = "none",
                   !.reply = IF c.disconnected THEN @ ELSE "ended"]))

(* Mutant: a timeout is logged only.                                         *)
MinerEventConnects(r) ==
    /\ Live(r) /\ ctx[r].bev /\ ~ctx[r].sent
    /\ Put(r, [ctx[r] EXCEPT !.sent = TRUE])
    /\ UNCHANGED <<client, silent, pending, charged, tracked, garbled>>

(* Connected: the request goes out. EOF, error or timeout: the end.          *)
StreamMinerEventCb(r) ==
    /\ Live(r) /\ ctx[r].bev
    /\ \/ /\ ~ctx[r].sent /\ Put(r, [ctx[r] EXCEPT !.sent = TRUE])
          /\ UNCHANGED <<pending, charged, tracked, garbled>>
       \/ StreamFinishAndCleanup(r, ctx[r])
    /\ UNCHANGED <<client, silent>>

StreamClientCloseCb(r) ==
    StreamFinishAndCleanup(r, [ctx[r] EXCEPT !.disconnected = TRUE])

------------------------------------------------------------------------------
(* The proxy *)

(* Proxying starts; a request without an API key is forwarded unbilled. The  *)
(* two early failures delete the context and release nothing.                *)
ProxyHandler(r) ==
    \E keyed \in BOOLEAN, connecting \in BOOLEAN :
        LET hold == IF keyed THEN Cost ELSE 0
            c == [NoCtx EXCEPT !.life = "live", !.keyed = keyed,
                     !.reserved = hold, !.bev = TRUE, !.closecb = TRUE]
        IN  /\ ctx[r].life = "none" /\ client[r] = "here"
            /\ Put(r, IF connecting THEN c
                      ELSE [c EXCEPT !.life = "over", !.bev = FALSE,
                                     !.closecb = FALSE, !.reply = "ended"])
            /\ pending' = pending + hold
            /\ IF connecting THEN UNCHANGED garbled ELSE InOrder(r, ctx[r], {"none"})
            /\ UNCHANGED <<client, silent, charged, tracked>>

(* Mutant: a client that left is not billed.                                 *)
BillsIfConnected(c) ==
    c.keyed /\ c.ok /\ c.got = {"content"} /\ ~c.disconnected

ProxyBills(c) == c.keyed /\ c.ok /\ c.got = {"content"}

(* Mutant: the context is only emptied, and deleted by a later callback.     *)
ProxyDeleteLater(c) == [c EXCEPT !.reserved = 0]

ProxyDelete(c) ==
    [c EXCEPT !.life = "over", !.reserved = 0, !.closecb = FALSE, !.bev = FALSE]

ProxyFinishCleanup(r, c) ==
    /\ charged' = [charged EXCEPT ![r] = @ + IF ProxyBills(c) THEN 1 ELSE 0]
    /\ pending' = ReleaseEscrowCost(pending, c.reserved)
    /\ IF c.disconnected \/ c.reply = "none"
       THEN UNCHANGED garbled ELSE InOrder(r, c, {"started"})
    /\ Put(r, ProxyDelete([c EXCEPT !.reply =
                  IF c.disconnected \/ @ = "none" THEN @ ELSE "ended"]))

(* ProxyReadCb, ProxyProcessData and ProxyForwardBody on one piece. The last *)
(* chunk ends the context inside the loop of ProxyReadCb, whose condition    *)
(* then looks at the deleted context if input is left: not modelled.         *)
ProxyReadCb(r) ==
    /\ Live(r) /\ ctx[r].bev /\ ctx[r].sent /\ r \notin silent
    /\ \/ /\ ctx[r].stage = "headers"
          /\ \E chunked \in BOOLEAN, ok \in BOOLEAN :
                Put(r, [ctx[r] EXCEPT !.stage = "body", !.chunked = chunked,
                                      !.ok = ok, !.reply = "started"])
          /\ InOrder(r, ctx[r], {"none"})
          /\ UNCHANGED <<pending, charged>>
       \/ /\ ctx[r].stage = "body"
          /\ \E piece \in Pieces :
                Put(r, [ctx[r] EXCEPT !.got = @ \cup ({piece} \ {"blank"})])
          /\ InOrder(r, ctx[r], {"started"})
          /\ UNCHANGED <<pending, charged>>
       \/ /\ ctx[r].stage = "body" /\ ctx[r].chunked
          /\ ProxyFinishCleanup(r, ctx[r])
    /\ UNCHANGED <<client, silent, tracked>>

(* An end before the response started is answered with 502 by hand; the      *)
(* reservation is not released on this path.                                 *)
ProxyEventCb(r) ==
    /\ Live(r) /\ ctx[r].bev
    /\ \/ /\ ~ctx[r].sent /\ Put(r, [ctx[r] EXCEPT !.sent = TRUE])
          /\ UNCHANGED <<pending, charged, garbled>>
       \/ /\ ctx[r].reply = "none"
          /\ Put(r, [ctx[r] EXCEPT !.life = "over", !.closecb = FALSE,
                                   !.bev = FALSE, !.reply = "ended"])
          /\ InOrder(r, ctx[r], {"none"})
          /\ UNCHANGED <<pending, charged>>
       \/ /\ ctx[r].reply = "started"
          /\ ProxyFinishCleanup(r, ctx[r])
    /\ UNCHANGED <<client, silent, tracked>>

ProxyClientCloseCb(r) ==
    /\ ProxyFinishCleanup(r, [ctx[r] EXCEPT !.disconnected = TRUE])
    /\ UNCHANGED tracked

------------------------------------------------------------------------------
(* The client closes its connection: libevent runs the close callback if one *)
(* is set.                                                                   *)
ClientLeaves(r) ==
    /\ client[r] = "here" /\ client' = [client EXCEPT ![r] = "left"]
    /\ UNCHANGED silent
    /\ IF ~ctx[r].closecb
       THEN UNCHANGED <<ctx, pending, charged, tracked, garbled>>
       ELSE IF r \in Gatewayed THEN StreamClientCloseCb(r)
                               ELSE ProxyClientCloseCb(r)

(* The miner, or the network on the way to it, sends nothing more for this   *)
(* request: its connection is left to the timeouts.                          *)
MinerFallsSilent(r) ==
    /\ Live(r) /\ r \notin silent
    /\ silent' = silent \cup {r}
    /\ UNCHANGED <<ctx, client, pending, charged, tracked, garbled>>

GatewayStep(r) ==
    \/ HandleChatCompletions(r) \/ StreamKeepaliveCb(r)
    \/ StreamMinerReadCb(r) \/ StreamMinerEventCb(r)

ProxyStep(r) == ProxyHandler(r) \/ ProxyReadCb(r) \/ ProxyEventCb(r)

Next ==
    \/ \E r \in Gatewayed : GatewayStep(r)
    \/ \E r \in Proxied : ProxyStep(r)
    \/ \E r \in Reqs : Refuse(r) \/ ClientLeaves(r) \/ MinerFallsSilent(r)

Spec == Init /\ [][Next]_vars

(* The connection to the miner carries read and write timeouts, which start  *)
(* again at every read: they run out only once the miner has fallen silent.  *)
FairSpec ==
    /\ Spec
    /\ \A r \in Gatewayed : WF_vars(r \in silent /\ StreamMinerEventCb(r))
    /\ \A r \in Proxied : WF_vars(r \in silent /\ ProxyEventCb(r))

------------------------------------------------------------------------------
(* The contexts are well formed, and what is pending is never negative.      *)
TypeOK ==
    /\ ctx \in [Reqs -> [life : {"none", "live", "over"}, keyed : BOOLEAN,
                         skip_billing : BOOLEAN, reserved : {0, Cost},
                         bev : BOOLEAN, closecb : BOOLEAN,
                         timer : {"none", "armed", "idle"}, sent : BOOLEAN,
                         stage : {"headers", "body", "done"},
                         chunked : BOOLEAN, ok : BOOLEAN,
                         got : SUBSET Pieces, sse_forwarded : BOOLEAN,
                         disconnected : BOOLEAN,
                         reply : {"none", "started", "ended"}]]
    /\ client \in [Reqs -> {"here", "left"}] /\ silent \subseteq Reqs
    /\ pending \in Nat
    /\ charged \in [Reqs -> Nat] /\ tracked \in [Reqs -> Nat]
    /\ garbled \subseteq Reqs

(* "Remove the close callback BEFORE deleting": no socket, timer or close    *)
(* callback points at a context that was deleted. And none is forgotten:     *)
(* while a context exists its client has not left, and both the connection   *)
(* to the miner and the client's close callback are there to end it.         *)
CallbacksAlive ==
    \A r \in Reqs :
        IF ctx[r].life = "live"
        THEN ctx[r].bev /\ ctx[r].closecb /\ client[r] = "here"
        ELSE ~ctx[r].bev /\ ~ctx[r].closecb /\ ctx[r].timer = "none"

(* Each client gets one reply, started before it is continued and ended      *)
(* once, and nothing is written to a connection that is closed.              *)
RepliesInOrder == garbled = {}

(* An answer is billed or tracked at most once, by the callback that ends    *)
(* its context, whichever of the client, the miner and the timer is first.   *)
AccountedOnce ==
    \A r \in Reqs : /\ charged[r] + tracked[r] <= 1
                    /\ charged[r] + tracked[r] = 1 => ctx[r].life = "over"

(* "The proxy is the billing point": content forwarded through the proxy     *)
(* under an API key is billed, also when the client leaves early.            *)
ProxyBillsForwarded ==
    \A r \in Proxied :
        ctx[r].life = "over" /\ ctx[r].keyed /\ ctx[r].ok /\ ctx[r].got = {"content"}
            => charged[r] = 1

(* The gateway bills, or for a proxied client tracks, every answer with      *)
(* content and no error text whose client stayed to the end, however the     *)
(* connection to the miner ended.                                            *)
GatewayAccountsForwarded ==
    \A r \in Gatewayed :
        ctx[r].life = "over" /\ ~ctx[r].disconnected /\ ctx[r].got = {"content"}
            => charged[r] + tracked[r] = 1

(* What the contexts that exist have reserved.                               *)
ReservedLive ==
    SumFunctionOnSet([r \in Reqs |-> ctx[r].reserved], {r \in Reqs : Live(r)})

(* No reservation is released twice, nor by the end of another request:      *)
(* whatever ends, and in whatever order, g_pending_costs covers every        *)
(* context that still exists, as the balance check of the next one assumes.  *)
PendingCovers == pending >= ReservedLive

(* ReleaseEscrowCost "must be called for every successful ReserveEscrowCost  *)
(* call": nothing is pending but what a context that exists has reserved.    *)
EveryReservationReleased == pending = ReservedLive

(* A context whose miner has fallen silent is deleted in the end.            *)
ContextsEnd == \A r \in Reqs : r \in silent ~> ctx[r].life = "over"
=============================================================================
