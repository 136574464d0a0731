----------------------- MODULE InferenceGatewayProofs -----------------------
(***************************************************************************)
(* Proofs about InferenceGateway, for any sets of gatewayed and proxied    *)
(* requests and any cost of a request.                                     *)
(***************************************************************************)
EXTENDS InferenceGateway, SumTheorems

Context ==
    [life : {"none", "live", "over"}, keyed : BOOLEAN,
     skip_billing : BOOLEAN, reserved : {0, Cost},
     bev : BOOLEAN, closecb : BOOLEAN,
     timer : {"none", "armed", "idle"}, sent : BOOLEAN,
     stage : {"headers", "body", "done"},
     chunked : BOOLEAN, ok : BOOLEAN,
     got : SUBSET Pieces, sse_forwarded : BOOLEAN,
     disconnected : BOOLEAN,
     reply : {"none", "started", "ended"}]

(* A context that exists is reached by its client and by the connection to   *)
(* the miner, has told the client as much as its stage says, and has not     *)
(* been accounted for.                                                       *)
LiveContext(r, c, here, billed) ==
    /\ here = "here" /\ c.bev /\ c.closecb /\ ~c.disconnected /\ billed = 0
    /\ r \in Gatewayed => c.reply = "started"
    /\ r \in Proxied => c.reply = IF c.stage = "headers" THEN "none" ELSE "started"

(* One that does not exist is not pointed at, and has been accounted for as  *)
(* its answer and its client's leaving demand.                               *)
DeadContext(r, c, charges, tracks) ==
    /\ ~c.bev /\ ~c.closecb /\ c.timer = "none"
    /\ charges + tracks <= 1
    /\ c.life = "none" => c.reply = "none" /\ ~c.disconnected /\ c.got = {}
                          /\ charges = 0 /\ tracks = 0
    /\ r \in Proxied /\ c.life = "over" /\ c.keyed /\ c.ok /\ c.got = {"content"}
          => charges = 1
    /\ r \in Gatewayed /\ c.life = "over" /\ ~c.disconnected /\ c.got = {"content"}
          => charges + tracks = 1

Good(r, c, here, charges, tracks) ==
    /\ c \in Context /\ here \in {"here", "left"}
    /\ charges \in Nat /\ tracks \in Nat
    /\ r \in Proxied => /\ tracks = 0 /\ c.timer = "none"
                        /\ c.stage = "headers" => c.got = {}
    /\ IF c.life = "live" THEN LiveContext(r, c, here, charges + tracks)
                          ELSE DeadContext(r, c, charges, tracks)

(* The inductive invariant.                                                  *)
GatewayInv ==
    /\ ctx \in [Reqs -> Context] /\ client \in [Reqs -> {"here", "left"}]
    /\ charged \in [Reqs -> Nat] /\ tracked \in [Reqs -> Nat]
    /\ pending \in Nat /\ garbled = {}
    /\ \A r \in Reqs : Good(r, ctx[r], client[r], charged[r], tracked[r])

(* It implies the five invariants it is made for.                            *)
LEMMA GatewayInvImplies ==
    GatewayInv => /\ CallbacksAlive /\ RepliesInOrder /\ AccountedOnce
                  /\ ProxyBillsForwarded /\ GatewayAccountsForwarded
<1> SUFFICES ASSUME GatewayInv
    PROVE  /\ CallbacksAlive /\ RepliesInOrder /\ AccountedOnce
           /\ ProxyBillsForwarded /\ GatewayAccountsForwarded
  OBVIOUS
<1>2. CallbacksAlive
  BY DEF GatewayInv, CallbacksAlive, Good, LiveContext, DeadContext
<1>3. RepliesInOrder BY DEF GatewayInv, RepliesInOrder
<1>4. AccountedOnce
  <2> SUFFICES ASSUME NEW r \in Reqs
      PROVE  /\ charged[r] + tracked[r] <= 1
             /\ charged[r] + tracked[r] = 1 => ctx[r].life = "over"
    BY DEF AccountedOnce
  <2>1. Good(r, ctx[r], client[r], charged[r], tracked[r]) BY DEF GatewayInv
  <2>2. ctx[r].life \in {"none", "live", "over"} BY <2>1 DEF Good, Context
  <2>3. QED BY <2>1, <2>2 DEF Good, LiveContext, DeadContext
<1>5. ProxyBillsForwarded
  BY DEF GatewayInv, ProxyBillsForwarded, Good, DeadContext, Reqs
<1>6. GatewayAccountsForwarded
  BY DEF GatewayInv, GatewayAccountsForwarded, Good, DeadContext, Reqs
<1>7. QED BY <1>2, <1>3, <1>4, <1>5, <1>6

(* A request that has no context is in order.                                *)
LEMMA NoCtxGood ==
    ASSUME NEW r \in Reqs, NEW here \in {"here", "left"}
    PROVE  NoCtx \in Context /\ Good(r, NoCtx, here, 0, 0)
<1>1. NoCtx \in Context BY GatewayAssumption DEF NoCtx, Context, Pieces
<1>2. QED BY <1>1 DEF Good, DeadContext, NoCtx

(* No request has a context at first.                                        *)
LEMMA GatewayInit == Init => GatewayInv
BY NoCtxGood DEF Init, GatewayInv

(* A step changes the context of one request, its client and its accounts.   *)
LEMMA OneContext ==
    ASSUME GatewayInv, NEW r \in Reqs, NEW c, NEW here, NEW charges, NEW tracks,
           ctx' = [ctx EXCEPT ![r] = c],
           client' = [client EXCEPT ![r] = here],
           charged' = [charged EXCEPT ![r] = charges],
           tracked' = [tracked EXCEPT ![r] = tracks],
           pending' \in Nat, garbled' = {},
           Good(r, c, here, charges, tracks)
    PROVE  GatewayInv'
<1>1. /\ c \in Context /\ here \in {"here", "left"}
      /\ charges \in Nat /\ tracks \in Nat
  BY DEF Good
<1>2. /\ ctx' \in [Reqs -> Context] /\ client' \in [Reqs -> {"here", "left"}]
      /\ charged' \in [Reqs -> Nat] /\ tracked' \in [Reqs -> Nat]
  BY <1>1 DEF GatewayInv
<1>3. ASSUME NEW s \in Reqs
      PROVE  Good(s, ctx'[s], client'[s], charged'[s], tracked'[s])
  <2>1. CASE s = r
    <3>1. /\ ctx'[s] = c /\ client'[s] = here
          /\ charged'[s] = charges /\ tracked'[s] = tracks
      BY <2>1 DEF GatewayInv
    <3>2. QED BY <2>1, <3>1
  <2>2. CASE s # r
    <3>1. /\ ctx'[s] = ctx[s] /\ client'[s] = client[s]
          /\ charged'[s] = charged[s] /\ tracked'[s] = tracked[s]
      BY <2>2 DEF GatewayInv
    <3>2. QED BY <3>1 DEF GatewayInv
  <2>3. QED BY <2>1, <2>2
<1>4. (\A s \in Reqs : Good(s, ctx[s], client[s], charged[s], tracked[s]))'
  BY <1>3 DEF Good, LiveContext, DeadContext, Context
<1>5. QED BY <1>2, <1>4 DEF GatewayInv, Context

(* What a step leaves alone it sets to what it was.                          *)
LEMMA Unchanged ==
    ASSUME GatewayInv, NEW r \in Reqs
    PROVE  /\ ctx = [ctx EXCEPT ![r] = ctx[r]]
           /\ client = [client EXCEPT ![r] = client[r]]
           /\ charged = [charged EXCEPT ![r] = charged[r]]
           /\ tracked = [tracked EXCEPT ![r] = tracked[r]]
BY DEF GatewayInv

(* The invariant, for one request.                                           *)
LEMMA OneGood ==
    ASSUME GatewayInv, NEW r \in Reqs
    PROVE  /\ Good(r, ctx[r], client[r], charged[r], tracked[r])
           /\ ctx[r] \in Context /\ client[r] \in {"here", "left"}
           /\ charged[r] \in Nat /\ tracked[r] \in Nat
           /\ pending \in Nat /\ garbled = {} /\ Cost \in Nat
           /\ ctx[r].reserved \in Nat
BY GatewayAssumption DEF GatewayInv, Context

(* What is pending stays a natural number, whatever is released.             *)
LEMMA ReleaseType ==
    ASSUME NEW p \in Nat, NEW amount \in Nat
    PROVE  ReleaseEscrowCost(p, amount) \in Nat
BY DEF ReleaseEscrowCost

(* What the callbacks that do not end a context keep of it.                  *)
Continues(o, c) ==
    /\ c \in Context /\ c.life = o.life /\ c.closecb = o.closecb
    /\ c.bev = o.bev /\ c.disconnected = o.disconnected /\ c.reply = o.reply

(* Changes below speaks of a piece of the body: this is one.                 *)
LEMMA ContentPiece == "content" \in Pieces
BY DEF Pieces

(* The changes of the callbacks to a context.                                *)
LEMMA Changes ==
    ASSUME NEW o \in Context, NEW b \in BOOLEAN, NEW piece \in Pieces
    PROVE  /\ [o EXCEPT !.life = "over", !.reply = "ended"] \in Context
           /\ Continues(o, [o EXCEPT !.timer = "idle"])
           /\ Continues(o, [o EXCEPT !.sent = TRUE])
           /\ Continues(o, [o EXCEPT !.stage = "done"])
           /\ Continues(o, [o EXCEPT !.stage = "body", !.chunked = b])
           /\ Continues(o, [o EXCEPT !.got = @ \cup ({piece} \ {"blank"})])
           /\ Continues(o, [o EXCEPT !.got = @ \cup ({piece} \ {"blank"}),
                                     !.sse_forwarded = TRUE])
<1>1. [o EXCEPT !.life = "over", !.reply = "ended"] \in Context BY Zenon DEF Context
<1>2. Continues(o, [o EXCEPT !.timer = "idle"]) BY DEF Context, Continues
<1>3. Continues(o, [o EXCEPT !.sent = TRUE]) BY Zenon DEF Context, Continues
<1>4. Continues(o, [o EXCEPT !.stage = "done"]) BY DEF Context, Continues
<1>5. Continues(o, [o EXCEPT !.stage = "body", !.chunked = b]) BY Zenon DEF Context, Continues
<1>6. Continues(o, [o EXCEPT !.got = @ \cup ({piece} \ {"blank"})])
  BY DEF Context, Continues
<1>7. Continues(o, [o EXCEPT !.got = @ \cup ({piece} \ {"blank"}),
                            !.sse_forwarded = TRUE])
  BY Zenon DEF Context, Continues
<1>8. QED BY <1>1, <1>2, <1>3, <1>4, <1>5, <1>6, <1>7

(* A request that is answered before it has a context.                       *)
LEMMA RefuseStep ==
    ASSUME GatewayInv, NEW r \in Reqs, Refuse(r) PROVE GatewayInv'
<1> DEFINE c == [ctx[r] EXCEPT !.life = "over", !.reply = "ended"]
<1>1. Good(r, c, client[r], charged[r], tracked[r])
  <2>1. c \in Context BY OneGood, Changes, ContentPiece, Zenon
  <2>2. QED BY <2>1, OneGood, ZenonT(30) DEF Refuse, Good, DeadContext, Context
<1>2. garbled' = {}
  BY OneGood DEF Refuse, InOrder, Good, DeadContext
<1>3. pending' \in Nat BY OneGood DEF Refuse
<1>4. /\ ctx' = [ctx EXCEPT ![r] = c] /\ client' = [client EXCEPT ![r] = client[r]]
      /\ charged' = [charged EXCEPT ![r] = charged[r]]
      /\ tracked' = [tracked EXCEPT ![r] = tracked[r]]
  BY Unchanged DEF Refuse, Put
<1>5. QED BY <1>1, <1>2, <1>3, <1>4, OneContext, ZenonT(30)

Unaccounted == UNCHANGED <<client, pending, charged, tracked>>

(* A callback of the gateway that continues its context.                     *)
LEMMA GatewayContinues ==
    ASSUME GatewayInv, NEW r \in Gatewayed, Live(r), NEW c, Continues(ctx[r], c),
           ctx' = [ctx EXCEPT ![r] = c], garbled' = {},
           Unaccounted
    PROVE  GatewayInv'
<1> r \in Reqs /\ r \notin Proxied BY GatewayAssumption DEF Reqs
<1>1. Good(r, c, client[r], charged[r], tracked[r])
  BY OneGood DEF Live, Continues, Good, LiveContext
<1>2. pending' \in Nat BY OneGood DEF Unaccounted
<1>3. /\ client' = [client EXCEPT ![r] = client[r]]
      /\ charged' = [charged EXCEPT ![r] = charged[r]]
      /\ tracked' = [tracked EXCEPT ![r] = tracked[r]]
  BY Unchanged DEF Unaccounted
<1>4. QED BY <1>1, <1>2, <1>3, OneContext, Zenon

(* The gateway's handler reserves, connects and starts the context.          *)
LEMMA HandleChatCompletionsStep ==
    ASSUME GatewayInv, NEW r \in Gatewayed, HandleChatCompletions(r)
    PROVE  GatewayInv'
<1> r \in Reqs /\ r \notin Proxied BY GatewayAssumption DEF Reqs
<1>1. PICK skip \in BOOLEAN :
        HttpPostToMinerProgressive(r, skip, IF skip THEN 0 ELSE Cost)
  BY DEF HandleChatCompletions
<1> DEFINE hold == IF skip THEN 0 ELSE Cost
           c == [NoCtx EXCEPT !.life = "live", !.keyed = TRUE, !.skip_billing = skip,
                    !.reserved = hold, !.bev = TRUE, !.closecb = TRUE,
                    !.timer = "armed", !.reply = "started"]
           d == StreamSafeDelete([c EXCEPT !.timer = "none", !.reply = "ended"])
<1>2. hold \in Nat /\ hold \in {0, Cost} BY OneGood
<1>3. /\ client[r] = "here" /\ charged[r] = 0 /\ tracked[r] = 0
      /\ ctx[r].reply = "none" /\ ~ctx[r].disconnected
  BY OneGood DEF HandleChatCompletions, Good, DeadContext
<1>4. garbled' = {} BY <1>1, <1>3, OneGood DEF HttpPostToMinerProgressive, InOrder
<1>5. c \in Context /\ d \in Context
  BY <1>2, NoCtxGood, ZenonT(30) DEF Context, StreamSafeDelete
<1>6. Good(r, c, client[r], charged[r], tracked[r])
  BY <1>3, <1>5 DEF Good, LiveContext, NoCtx
<1>7. Good(r, d, client[r], charged[r], tracked[r])
  BY <1>3, <1>5 DEF Good, DeadContext, NoCtx, StreamSafeDelete
<1>8. pending' \in Nat
  BY <1>1, <1>2, OneGood, ReleaseType DEF HttpPostToMinerProgressive
<1>9. ctx' = [ctx EXCEPT ![r] = c] \/ ctx' = [ctx EXCEPT ![r] = d]
  BY <1>1 DEF HttpPostToMinerProgressive, Put
<1>10. QED
  BY <1>4, <1>6, <1>7, <1>8, <1>9, OneContext, Unchanged DEF HandleChatCompletions

(* The timer of the gateway fires.                                           *)
LEMMA StreamKeepaliveStep ==
    ASSUME GatewayInv, NEW r \in Gatewayed, StreamKeepaliveCb(r)
    PROVE  GatewayInv'
<1> r \in Reqs /\ r \notin Proxied BY GatewayAssumption DEF Reqs
<1>1. garbled' = {}
  BY OneGood DEF StreamKeepaliveCb, Live, InOrder, Good, LiveContext
<1>2. Live(r) /\ Unaccounted
  BY DEF Unaccounted, StreamKeepaliveCb
<1>3. Continues(ctx[r], ctx[r]) BY OneGood DEF Continues
<1>4. Continues(ctx[r], [ctx[r] EXCEPT !.timer = "idle"])
  BY OneGood, Changes, ContentPiece, ZenonT(30)
<1>5. \/ ctx' = [ctx EXCEPT ![r] = [ctx[r] EXCEPT !.timer = "idle"]]
      \/ ctx' = [ctx EXCEPT ![r] = ctx[r]]
  BY Unchanged DEF StreamKeepaliveCb, Put
<1>6. QED BY <1>1, <1>2, <1>3, <1>4, <1>5, GatewayContinues

(* The gateway reads from the miner.                                         *)
LEMMA StreamMinerReadStep ==
    ASSUME GatewayInv, NEW r \in Gatewayed, StreamMinerReadCb(r)
    PROVE  GatewayInv'
<1> r \in Reqs /\ r \notin Proxied BY GatewayAssumption DEF Reqs
<1>1. garbled' = {}
  BY OneGood, ZenonT(30)
  DEF StreamMinerReadCb, StreamForwardToClient, Live, InOrder, Good, LiveContext
<1>2. Live(r) /\ Unaccounted
  BY ZenonT(30) DEF Unaccounted, StreamMinerReadCb
<1>3. PICK c : ctx' = [ctx EXCEPT ![r] = c] /\ Continues(ctx[r], c)
  <2>1. "content" \in Pieces /\ ctx[r] \in Context BY OneGood, SMTT(30) DEF Pieces
  <2>2. ASSUME NEW chunked \in BOOLEAN,
               Put(r, [ctx[r] EXCEPT !.stage = "body", !.chunked = chunked])
        PROVE  \E c : ctx' = [ctx EXCEPT ![r] = c] /\ Continues(ctx[r], c)
    BY <2>1, <2>2, Changes, ZenonT(30) DEF Put
  <2>3. ASSUME NEW piece \in Pieces, StreamForwardToClient(r, piece)
        PROVE  \E c : ctx' = [ctx EXCEPT ![r] = c] /\ Continues(ctx[r], c)
    BY <2>1, <2>3, Changes, ZenonT(30) DEF StreamForwardToClient, Put
  <2>4. ASSUME Put(r, [ctx[r] EXCEPT !.stage = "done"])
        PROVE  \E c : ctx' = [ctx EXCEPT ![r] = c] /\ Continues(ctx[r], c)
    BY <2>1, <2>4, Changes, Zenon DEF Put
  <2>5. QED BY <2>2, <2>3, <2>4, Zenon DEF StreamMinerReadCb
<1>4. QED BY <1>1, <1>2, <1>3, GatewayContinues, Zenon

(* A context after StreamSafeDelete and after ProxyDelete.                   *)
LEMMA Deleted ==
    ASSUME NEW o \in Context, NEW reply \in {"none", "started", "ended"}
    PROVE  LET d == StreamSafeDelete([o EXCEPT !.timer = "none", !.reply = reply])
               e == ProxyDelete([o EXCEPT !.reply = reply])
           IN  /\ d \in Context /\ d.life = "over" /\ d.got = o.got
               /\ ~d.bev /\ ~d.closecb /\ d.timer = "none"
               /\ d.disconnected = o.disconnected
               /\ e \in Context /\ e.life = "over" /\ e.got = o.got
               /\ ~e.bev /\ ~e.closecb /\ e.timer = o.timer /\ e.stage = o.stage
               /\ e.keyed = o.keyed /\ e.ok = o.ok
BY GatewayAssumption, ZenonT(30) DEF Context, StreamSafeDelete, ProxyDelete

(* The same of the proxy's context alone.                                    *)
LEMMA ProxyDeleted ==
    ASSUME NEW o \in Context, NEW reply \in {"none", "started", "ended"}
    PROVE  LET e == ProxyDelete([o EXCEPT !.reply = reply])
           IN  /\ e \in Context /\ e.life = "over" /\ e.got = o.got
               /\ ~e.bev /\ ~e.closecb /\ e.timer = o.timer /\ e.stage = o.stage
               /\ e.keyed = o.keyed /\ e.ok = o.ok
BY Deleted, ZenonT(30)

(* The callback that ends a context of the gateway: the miner's, or the one  *)
(* of the client that leaves.                                                *)
LEMMA StreamFinishStep ==
    ASSUME GatewayInv, NEW r \in Gatewayed, Live(r), NEW here \in {"here", "left"},
           client' = [client EXCEPT ![r] = here],
           NEW c \in Context, c.reply = ctx[r].reply, c.reserved = ctx[r].reserved,
           StreamFinishAndCleanup(r, c)
    PROVE  GatewayInv'
<1> r \in Reqs /\ r \notin Proxied BY GatewayAssumption DEF Reqs
<1> DEFINE reply == IF c.disconnected THEN c.reply ELSE "ended"
           d == StreamSafeDelete([c EXCEPT !.timer = "none", !.reply = reply])
<1>1. /\ charged[r] = 0 /\ tracked[r] = 0 /\ client[r] = "here"
      /\ ctx[r].reply = "started"
  BY OneGood DEF Live, Good, LiveContext
<1>2. PICK bill \in IF c.disconnected THEN {FALSE} ELSE Billable(c) :
          /\ charged' = [charged EXCEPT ![r] = @ + IF bill /\ ~c.skip_billing THEN 1 ELSE 0]
          /\ tracked' = [tracked EXCEPT ![r] = @ + IF bill /\ c.skip_billing THEN 1 ELSE 0]
  BY Zenon DEF StreamFinishAndCleanup
<1> DEFINE charges == IF bill /\ ~c.skip_billing THEN 1 ELSE 0
           tracks == IF bill /\ c.skip_billing THEN 1 ELSE 0
<1>3. /\ charged' = [charged EXCEPT ![r] = charges]
      /\ tracked' = [tracked EXCEPT ![r] = tracks]
  BY <1>1, <1>2
<1>4. ctx' = [ctx EXCEPT ![r] = d] BY DEF StreamFinishAndCleanup, Put
<1>5. garbled' = {}
  BY <1>1, OneGood DEF StreamFinishAndCleanup, EndReply, InOrder
<1>6. pending' \in Nat
  BY OneGood, ReleaseType DEF StreamFinishAndCleanup, Released
<1>7. c.skip_billing \in BOOLEAN /\ c.disconnected \in BOOLEAN BY DEF Context
<1>8. ~c.disconnected /\ c.got = {"content"} => charges + tracks = 1
  <2>1. ~c.disconnected /\ c.got = {"content"} => bill
    <3> SUFFICES ASSUME ~c.disconnected, c.got = {"content"} PROVE bill
      OBVIOUS
    <3>1. {"content"} # {"content", "error"}
      <4>1. "error" \notin {"content"} BY Z3
      <4>2. QED BY <4>1
    <3>2. Billable(c) = {c.got = {"content"}} BY <3>1 DEF Billable
    <3>3. bill = (c.got = {"content"}) BY <1>2, <3>2
    <3>4. QED BY <3>3, Zenon
  <2>2. QED BY <2>1, <1>7
<1>9. Good(r, d, here, charges, tracks)
  <2>1. reply \in {"none", "started", "ended"} BY DEF Context
  <2> HIDE DEF reply
  <2>2. /\ d \in Context /\ d.life = "over" /\ d.got = c.got
        /\ ~d.bev /\ ~d.closecb /\ d.timer = "none"
        /\ d.disconnected = c.disconnected
    BY <2>1, Deleted, ZenonT(30)
  <2>3. charges \in Nat /\ tracks \in Nat /\ charges + tracks <= 1
    BY <1>7
  <2> HIDE DEF d, charges, tracks
  <2>4. QED BY <2>2, <2>3, <1>8 DEF Good, DeadContext
<1> HIDE DEF d, charges, tracks
<1>10. QED BY <1>3, <1>4, <1>5, <1>6, <1>9, OneContext, Zenon

(* The gateway's connection to the miner ends.                               *)
LEMMA StreamMinerEventStep ==
    ASSUME GatewayInv, NEW r \in Gatewayed, StreamMinerEventCb(r)
    PROVE  GatewayInv'
<1> r \in Reqs /\ r \notin Proxied BY GatewayAssumption DEF Reqs
<1>1. Live(r) BY DEF StreamMinerEventCb
<1>2. CASE /\ Put(r, [ctx[r] EXCEPT !.sent = TRUE])
           /\ UNCHANGED <<pending, charged, tracked, garbled>>
  <2>1. garbled' = {} /\ Unaccounted
    BY <1>2, OneGood DEF StreamMinerEventCb, Unaccounted
  <2>2. Continues(ctx[r], [ctx[r] EXCEPT !.sent = TRUE])
    BY OneGood, Changes, ContentPiece, Zenon
  <2>3. ctx' = [ctx EXCEPT ![r] = [ctx[r] EXCEPT !.sent = TRUE]]
    BY <1>2 DEF Put
  <2>4. QED BY <1>1, <2>1, <2>2, <2>3, GatewayContinues, ZenonT(30)
<1>3. CASE StreamFinishAndCleanup(r, ctx[r])
  <2>1. client' = [client EXCEPT ![r] = client[r]]
    BY Unchanged DEF StreamMinerEventCb
  <2>2. QED BY <1>1, <1>3, <2>1, OneGood, StreamFinishStep, Zenon
<1>4. QED BY <1>2, <1>3 DEF StreamMinerEventCb

(* The client of the gateway goes away.                                      *)
LEMMA GatewayClientLeaves ==
    ASSUME GatewayInv, NEW r \in Gatewayed, ClientLeaves(r)
    PROVE  GatewayInv'
<1> r \in Reqs /\ r \notin Proxied BY GatewayAssumption DEF Reqs
<1>1. client' = [client EXCEPT ![r] = "left"] BY DEF ClientLeaves
<1>2. CASE ctx[r].closecb
  <2> DEFINE c == [ctx[r] EXCEPT !.disconnected = TRUE]
  <2>1. StreamFinishAndCleanup(r, c)
    BY <1>2 DEF ClientLeaves, StreamClientCloseCb
  <2>2. Live(r) BY <1>2, OneGood DEF Good, DeadContext, Live
  <2>3. c \in Context /\ c.reply = ctx[r].reply /\ c.reserved = ctx[r].reserved
    <3>1. ASSUME NEW o \in Context
          PROVE  LET e == [o EXCEPT !.disconnected = TRUE]
                 IN  e \in Context /\ e.reply = o.reply /\ e.reserved = o.reserved
      BY Zenon DEF Context
    <3>2. QED BY <3>1, OneGood
  <2> HIDE DEF c
  <2>4. QED BY <1>1, <2>1, <2>2, <2>3, StreamFinishStep, Zenon
<1>3. CASE ~ctx[r].closecb
  <2>1. Good(r, ctx[r], "left", charged[r], tracked[r])
    BY <1>3, OneGood DEF Good, LiveContext, DeadContext
  <2>2. /\ pending' \in Nat /\ garbled' = {}
        /\ ctx' = [ctx EXCEPT ![r] = ctx[r]]
        /\ charged' = [charged EXCEPT ![r] = charged[r]]
        /\ tracked' = [tracked EXCEPT ![r] = tracked[r]]
    BY <1>3, Unchanged, OneGood DEF ClientLeaves
  <2>3. QED BY <1>1, <2>1, <2>2, OneContext, Zenon
<1>4. QED BY <1>2, <1>3

(* The proxy's handler reserves, connects and starts the context.            *)
LEMMA ProxyHandlerStep ==
    ASSUME GatewayInv, NEW r \in Proxied, ProxyHandler(r)
    PROVE  GatewayInv'
<1> r \in Reqs /\ r \notin Gatewayed BY GatewayAssumption DEF Reqs
<1> DEFINE hold(keyed) == IF keyed THEN Cost ELSE 0
           c(keyed) == [NoCtx EXCEPT !.life = "live", !.keyed = keyed,
                          !.reserved = hold(keyed), !.bev = TRUE, !.closecb = TRUE]
           d(keyed) == [c(keyed) EXCEPT !.life = "over", !.bev = FALSE,
                                        !.closecb = FALSE, !.reply = "ended"]
<1>1. PICK keyed \in BOOLEAN, connecting \in BOOLEAN :
        /\ ctx[r].life = "none" /\ client[r] = "here"
        /\ Put(r, IF connecting THEN c(keyed) ELSE d(keyed))
        /\ pending' = pending + hold(keyed)
        /\ IF connecting THEN UNCHANGED garbled ELSE InOrder(r, ctx[r], {"none"})
        /\ UNCHANGED <<client, charged, tracked>>
  BY Zenon DEF ProxyHandler
<1>2. /\ charged[r] = 0 /\ tracked[r] = 0
      /\ ctx[r].reply = "none" /\ ~ctx[r].disconnected
  BY <1>1, OneGood DEF Good, DeadContext
<1>3. garbled' = {} BY <1>1, <1>2, OneGood DEF InOrder
<1>4. pending' \in Nat BY <1>1, OneGood
<1>5. c(keyed) \in Context /\ d(keyed) \in Context
  BY GatewayAssumption, Zenon DEF Context, NoCtx, Pieces
<1>6. Good(r, c(keyed), client[r], charged[r], tracked[r])
  BY <1>1, <1>2, <1>5 DEF Good, LiveContext, NoCtx
<1>7. Good(r, d(keyed), client[r], charged[r], tracked[r])
  BY <1>1, <1>2, <1>5 DEF Good, DeadContext, NoCtx
<1>8. /\ client' = [client EXCEPT ![r] = client[r]]
      /\ charged' = [charged EXCEPT ![r] = charged[r]]
      /\ tracked' = [tracked EXCEPT ![r] = tracked[r]]
  BY <1>1, Unchanged
<1>9. ctx' = [ctx EXCEPT ![r] = c(keyed)] \/ ctx' = [ctx EXCEPT ![r] = d(keyed)]
  BY <1>1, Zenon DEF Put
<1> HIDE DEF c, d
<1>10. QED BY <1>3, <1>4, <1>6, <1>7, <1>8, <1>9, OneContext, Zenon

(* The callback that ends a context of the proxy with ProxyFinishCleanup.    *)
LEMMA ProxyFinishStep ==
    ASSUME GatewayInv, NEW r \in Proxied, Live(r), NEW here \in {"here", "left"},
           client' = [client EXCEPT ![r] = here], tracked' = tracked,
           NEW c \in Context, c.reply = ctx[r].reply, c.reserved = ctx[r].reserved,
           c.timer = ctx[r].timer, c.stage = ctx[r].stage, c.got = ctx[r].got,
           ProxyFinishCleanup(r, c)
    PROVE  GatewayInv'
<1> r \in Reqs /\ r \notin Gatewayed BY GatewayAssumption DEF Reqs
<1> DEFINE reply == IF c.disconnected \/ c.reply = "none" THEN c.reply ELSE "ended"
           e == ProxyDelete([c EXCEPT !.reply = reply])
           charges == IF ProxyBills(c) THEN 1 ELSE 0
<1>1. /\ charged[r] = 0 /\ tracked[r] = 0 /\ client[r] = "here"
      /\ ctx[r].reply \in {"none", "started"} /\ ctx[r].timer = "none"
      /\ ctx[r].stage = "headers" => ctx[r].got = {}
  BY OneGood DEF Live, Good, LiveContext
<1>2. /\ ctx' = [ctx EXCEPT ![r] = e]
      /\ charged' = [charged EXCEPT ![r] = charges]
  BY <1>1 DEF ProxyFinishCleanup, Put
<1>3. tracked' = [tracked EXCEPT ![r] = 0] BY <1>1, Unchanged
<1>4. garbled' = {}
  BY <1>1, OneGood DEF ProxyFinishCleanup, InOrder
<1>5. pending' \in Nat BY OneGood, ReleaseType DEF ProxyFinishCleanup
<1>6. reply \in {"none", "started", "ended"} BY Zenon DEF Context
<1>7. /\ e \in Context /\ e.life = "over" /\ e.got = c.got
      /\ ~e.bev /\ ~e.closecb /\ e.timer = c.timer /\ e.stage = c.stage
      /\ e.keyed = c.keyed /\ e.ok = c.ok
  <2> HIDE DEF reply
  <2>1. QED BY <1>6, ProxyDeleted, Zenon
<1>8. /\ charges \in {0, 1}
      /\ c.keyed /\ c.ok /\ c.got = {"content"} => charges = 1
  BY DEF ProxyBills
<1> HIDE DEF e, charges
<1>9. Good(r, e, here, charges, 0)
  BY <1>1, <1>7, <1>8 DEF Good, DeadContext
<1>10. QED BY <1>2, <1>3, <1>4, <1>5, <1>9, OneContext, Zenon

(* A callback of the proxy that continues its context, or the one that       *)
(* answers 502.                                                              *)
LEMMA ProxyContinues ==
    ASSUME GatewayInv, NEW r \in Proxied, NEW c,
           ctx' = [ctx EXCEPT ![r] = c], garbled' = {}, Unaccounted,
           Good(r, c, client[r], charged[r], tracked[r])
    PROVE  GatewayInv'
<1> r \in Reqs BY DEF Reqs
<1>1. pending' \in Nat BY OneGood DEF Unaccounted
<1>2. /\ client' = [client EXCEPT ![r] = client[r]]
      /\ charged' = [charged EXCEPT ![r] = charged[r]]
      /\ tracked' = [tracked EXCEPT ![r] = tracked[r]]
  BY Unchanged DEF Unaccounted
<1>3. QED BY <1>1, <1>2, OneContext, ZenonT(30)

(* The proxy reads from the miner.                                           *)
LEMMA ProxyReadStep ==
    ASSUME GatewayInv, NEW r \in Proxied, ProxyReadCb(r)
    PROVE  GatewayInv'
<1> r \in Reqs /\ r \notin Gatewayed BY GatewayAssumption DEF Reqs
<1>1. Live(r) /\ UNCHANGED <<client, tracked>> BY Zenon DEF ProxyReadCb
<1>2. /\ ctx[r] \in Context /\ client[r] = "here" /\ charged[r] = 0 /\ tracked[r] = 0
      /\ ctx[r].life = "live" /\ ctx[r].bev /\ ctx[r].closecb /\ ~ctx[r].disconnected
      /\ ctx[r].timer = "none"
      /\ ctx[r].reply = IF ctx[r].stage = "headers" THEN "none" ELSE "started"
      /\ ctx[r].stage = "headers" => ctx[r].got = {}
  BY <1>1, OneGood DEF Live, Good, LiveContext
<1>3. CASE /\ ctx[r].stage = "headers"
           /\ \E chunked \in BOOLEAN, ok \in BOOLEAN :
                 Put(r, [ctx[r] EXCEPT !.stage = "body", !.chunked = chunked,
                                       !.ok = ok, !.reply = "started"])
           /\ InOrder(r, ctx[r], {"none"})
           /\ UNCHANGED <<pending, charged>>
  <2>1. PICK chunked \in BOOLEAN, ok \in BOOLEAN :
          Put(r, [ctx[r] EXCEPT !.stage = "body", !.chunked = chunked,
                                !.ok = ok, !.reply = "started"])
    BY <1>3, Zenon
  <2> DEFINE c == [ctx[r] EXCEPT !.stage = "body", !.chunked = chunked,
                                 !.ok = ok, !.reply = "started"]
  <2>2. /\ c \in Context /\ c.life = "live" /\ c.bev /\ c.closecb /\ ~c.disconnected
        /\ c.timer = "none" /\ c.reply = "started" /\ c.stage = "body"
    <3>1. ASSUME NEW o \in Context
          PROVE  LET d == [o EXCEPT !.stage = "body", !.chunked = chunked,
                                    !.ok = ok, !.reply = "started"]
                 IN  /\ d \in Context /\ d.life = o.life /\ d.closecb = o.closecb
                     /\ d.bev = o.bev /\ d.disconnected = o.disconnected /\ d.timer = o.timer
                     /\ d.reply = "started" /\ d.stage = "body"
      BY ZenonT(30) DEF Context
    <3>2. QED BY <1>2, <3>1, ZenonT(30)
  <2>3. ctx' = [ctx EXCEPT ![r] = c] BY <2>1 DEF Put
  <2>4. garbled' = {} BY <1>2, <1>3, OneGood DEF InOrder
  <2>5. Unaccounted BY <1>1, <1>3 DEF Unaccounted
  <2> HIDE DEF c
  <2>6. Good(r, c, client[r], charged[r], tracked[r])
    BY <1>2, <2>2 DEF Good, LiveContext
  <2>7. QED BY <2>3, <2>4, <2>5, <2>6, ProxyContinues, ZenonT(30)
<1>4. CASE /\ ctx[r].stage = "body"
           /\ \E piece \in Pieces :
                 Put(r, [ctx[r] EXCEPT !.got = @ \cup ({piece} \ {"blank"})])
           /\ InOrder(r, ctx[r], {"started"})
           /\ UNCHANGED <<pending, charged>>
  <2>1. PICK piece \in Pieces :
          Put(r, [ctx[r] EXCEPT !.got = @ \cup ({piece} \ {"blank"})])
    BY <1>4
  <2> DEFINE c == [ctx[r] EXCEPT !.got = @ \cup ({piece} \ {"blank"})]
  <2>2. /\ c \in Context /\ c.life = "live" /\ c.bev /\ c.closecb /\ ~c.disconnected
        /\ c.timer = "none" /\ c.reply = "started" /\ c.stage = "body"
    <3>1. ASSUME NEW o \in Context
          PROVE  LET d == [o EXCEPT !.got = @ \cup ({piece} \ {"blank"})]
                 IN  /\ d \in Context /\ d.life = o.life /\ d.closecb = o.closecb
                     /\ d.bev = o.bev /\ d.disconnected = o.disconnected /\ d.timer = o.timer
                     /\ d.reply = o.reply /\ d.stage = o.stage
      BY DEF Context
    <3>2. QED BY <1>2, <1>4, <3>1
  <2>3. ctx' = [ctx EXCEPT ![r] = c] BY <2>1 DEF Put
  <2>4. garbled' = {} BY <1>2, <1>4, OneGood DEF InOrder
  <2>5. Unaccounted BY <1>1, <1>4 DEF Unaccounted
  <2> HIDE DEF c
  <2>6. Good(r, c, client[r], charged[r], tracked[r])
    BY <1>2, <2>2 DEF Good, LiveContext
  <2>7. QED BY <2>3, <2>4, <2>5, <2>6, ProxyContinues, Zenon
<1>5. CASE ProxyFinishCleanup(r, ctx[r])
  <2>1. client' = [client EXCEPT ![r] = "here"] BY <1>1, <1>2, Unchanged
  <2>2. tracked' = tracked BY <1>1
  <2>3. QED BY <1>1, <1>2, <1>5, <2>1, <2>2, ProxyFinishStep, Zenon
<1>6. QED BY <1>3, <1>4, <1>5, Zenon DEF ProxyReadCb

(* The proxy's connection to the miner ends.                                 *)
LEMMA ProxyEventStep ==
    ASSUME GatewayInv, NEW r \in Proxied, ProxyEventCb(r)
    PROVE  GatewayInv'
<1> r \in Reqs /\ r \notin Gatewayed BY GatewayAssumption DEF Reqs
<1>1. Live(r) /\ UNCHANGED <<client, tracked>> BY DEF ProxyEventCb
<1>2. /\ ctx[r] \in Context /\ client[r] = "here" /\ charged[r] = 0 /\ tracked[r] = 0
      /\ ctx[r].life = "live" /\ ctx[r].bev /\ ctx[r].closecb /\ ~ctx[r].disconnected
      /\ ctx[r].timer = "none"
      /\ ctx[r].reply = IF ctx[r].stage = "headers" THEN "none" ELSE "started"
      /\ ctx[r].stage = "headers" => ctx[r].got = {}
  BY <1>1, OneGood DEF Live, Good, LiveContext
<1>3. CASE /\ Put(r, [ctx[r] EXCEPT !.sent = TRUE])
           /\ UNCHANGED <<pending, charged, garbled>>
  <2> DEFINE c == [ctx[r] EXCEPT !.sent = TRUE]
  <2>1. /\ c \in Context /\ c.life = "live" /\ c.bev /\ c.closecb /\ ~c.disconnected
        /\ c.timer = "none" /\ c.reply = ctx[r].reply /\ c.stage = ctx[r].stage
        /\ c.got = ctx[r].got
    <3>1. ASSUME NEW o \in Context
          PROVE  LET d == [o EXCEPT !.sent = TRUE]
                 IN  /\ d \in Context /\ d.life = o.life /\ d.closecb = o.closecb
                     /\ d.bev = o.bev /\ d.disconnected = o.disconnected /\ d.timer = o.timer
                     /\ d.reply = o.reply /\ d.stage = o.stage /\ d.got = o.got
      BY Zenon DEF Context
    <3>2. QED BY <1>2, <3>1
  <2>2. ctx' = [ctx EXCEPT ![r] = c] BY <1>3 DEF Put
  <2>3. garbled' = {} /\ Unaccounted BY <1>1, <1>3, OneGood DEF Unaccounted
  <2> HIDE DEF c
  <2>4. Good(r, c, client[r], charged[r], tracked[r])
    BY <1>2, <2>1 DEF Good, LiveContext
  <2>5. QED BY <2>2, <2>3, <2>4, ProxyContinues, Zenon
<1>4. CASE /\ ctx[r].reply = "none"
           /\ Put(r, [ctx[r] EXCEPT !.life = "over", !.closecb = FALSE,
                                    !.bev = FALSE, !.reply = "ended"])
           /\ InOrder(r, ctx[r], {"none"})
           /\ UNCHANGED <<pending, charged>>
  <2> DEFINE c == [ctx[r] EXCEPT !.life = "over", !.closecb = FALSE,
                                 !.bev = FALSE, !.reply = "ended"]
  <2>1. /\ c \in Context /\ c.life = "over" /\ ~c.closecb /\ ~c.bev
        /\ c.timer = "none" /\ c.stage = ctx[r].stage /\ c.got = ctx[r].got
    <3>1. ASSUME NEW o \in Context
          PROVE  LET d == [o EXCEPT !.life = "over", !.closecb = FALSE,
                                    !.bev = FALSE, !.reply = "ended"]
                 IN  /\ d \in Context /\ d.life = "over" /\ ~d.closecb /\ ~d.bev
                     /\ d.timer = o.timer /\ d.stage = o.stage /\ d.got = o.got
      BY Zenon DEF Context
    <3>2. QED BY <1>2, <3>1, Zenon
  <2>2. ctx' = [ctx EXCEPT ![r] = c] BY <1>4 DEF Put
  <2>3. garbled' = {} BY <1>2, <1>4, OneGood DEF InOrder
  <2>4. Unaccounted BY <1>1, <1>4 DEF Unaccounted
  <2>5. c.got = {} BY <1>2, <1>4, <2>1
  <2> HIDE DEF c
  <2>6. Good(r, c, client[r], charged[r], tracked[r])
    BY <1>2, <2>1, <2>5 DEF Good, DeadContext
  <2>7. QED BY <2>2, <2>3, <2>4, <2>6, ProxyContinues, Zenon
<1>5. CASE ProxyFinishCleanup(r, ctx[r])
  <2>1. client' = [client EXCEPT ![r] = "here"] BY <1>1, <1>2, Unchanged
  <2>2. tracked' = tracked BY <1>1
  <2>3. QED BY <1>1, <1>2, <1>5, <2>1, <2>2, ProxyFinishStep, Zenon
<1>6. QED BY <1>3, <1>4, <1>5 DEF ProxyEventCb

(* The client of the proxy goes away.                                        *)
LEMMA ProxyClientLeaves ==
    ASSUME GatewayInv, NEW r \in Proxied, ClientLeaves(r)
    PROVE  GatewayInv'
<1> r \in Reqs /\ r \notin Gatewayed BY GatewayAssumption DEF Reqs
<1>1. client' = [client EXCEPT ![r] = "left"] BY DEF ClientLeaves
<1>2. CASE ctx[r].closecb
  <2> DEFINE c == [ctx[r] EXCEPT !.disconnected = TRUE]
  <2>1. ProxyFinishCleanup(r, c) /\ tracked' = tracked
    BY <1>2 DEF ClientLeaves, ProxyClientCloseCb
  <2>2. Live(r) BY <1>2, OneGood DEF Good, DeadContext, Live
  <2>3. /\ c \in Context /\ c.reply = ctx[r].reply /\ c.reserved = ctx[r].reserved
        /\ c.timer = ctx[r].timer /\ c.stage = ctx[r].stage /\ c.got = ctx[r].got
    <3>1. ASSUME NEW o \in Context
          PROVE  LET e == [o EXCEPT !.disconnected = TRUE]
                 IN  /\ e \in Context /\ e.reply = o.reply /\ e.reserved = o.reserved
                     /\ e.timer = o.timer /\ e.stage = o.stage /\ e.got = o.got
      BY Zenon DEF Context
    <3>2. QED BY <3>1, OneGood
  <2> HIDE DEF c
  <2>4. QED BY <1>1, <2>1, <2>2, <2>3, ProxyFinishStep, Zenon
<1>3. CASE ~ctx[r].closecb
  <2>1. Good(r, ctx[r], "left", charged[r], tracked[r])
    BY <1>3, OneGood DEF Good, LiveContext, DeadContext
  <2>2. /\ pending' \in Nat /\ garbled' = {}
        /\ ctx' = [ctx EXCEPT ![r] = ctx[r]]
        /\ charged' = [charged EXCEPT ![r] = charged[r]]
        /\ tracked' = [tracked EXCEPT ![r] = tracked[r]]
    BY <1>3, Unchanged, OneGood DEF ClientLeaves
  <2>3. QED BY <1>1, <2>1, <2>2, OneContext, Zenon
<1>4. QED BY <1>2, <1>3

(* Nothing changes, or only what the miner still sends.                      *)
LEMMA GatewayStutter ==
    ASSUME GatewayInv, UNCHANGED <<ctx, client, pending, charged, tracked, garbled>>
    PROVE  GatewayInv'
BY DEF GatewayInv, Good, LiveContext, DeadContext, Context

(* GatewayInv is inductive.                                                  *)
LEMMA GatewayNext ==
    ASSUME GatewayInv, [Next]_vars PROVE GatewayInv'
<1>1. ASSUME NEW r \in Gatewayed, GatewayStep(r) PROVE GatewayInv'
  BY <1>1, HandleChatCompletionsStep, StreamKeepaliveStep, StreamMinerReadStep,
     StreamMinerEventStep DEF GatewayStep
<1>2. ASSUME NEW r \in Proxied, ProxyStep(r) PROVE GatewayInv'
  BY <1>2, ProxyHandlerStep, ProxyReadStep, ProxyEventStep DEF ProxyStep
<1>3. ASSUME NEW r \in Reqs, Refuse(r) PROVE GatewayInv'
  BY <1>3, RefuseStep
<1>4. ASSUME NEW r \in Reqs, ClientLeaves(r) PROVE GatewayInv'
  BY <1>4, GatewayClientLeaves, ProxyClientLeaves DEF Reqs
<1>5. ASSUME (\E r \in Reqs : MinerFallsSilent(r)) \/ UNCHANGED vars
      PROVE  GatewayInv'
  BY <1>5, GatewayStutter DEF MinerFallsSilent, vars
<1>6. QED BY <1>1, <1>2, <1>3, <1>4, <1>5, Zenon DEF Next

(* Only a request that has a context has a miner that falls silent.          *)
LEMMA SilentNext ==
    ASSUME silent \subseteq Reqs, [Next]_vars PROVE silent' \subseteq Reqs
<1>1. ASSUME NEW r \in Gatewayed, GatewayStep(r) PROVE silent' = silent
  BY <1>1, Zenon DEF GatewayStep, HandleChatCompletions, StreamKeepaliveCb, StreamMinerReadCb,
       StreamMinerEventCb
<1>2. ASSUME NEW r \in Proxied, ProxyStep(r) PROVE silent' = silent
  BY <1>2, Zenon DEF ProxyStep, ProxyHandler, ProxyReadCb, ProxyEventCb
<1>3. ASSUME NEW r \in Reqs, Refuse(r) \/ ClientLeaves(r) PROVE silent' = silent
  BY <1>3, Zenon DEF Refuse, ClientLeaves
<1>4. ASSUME NEW r \in Reqs, MinerFallsSilent(r) PROVE silent' \subseteq Reqs
  BY <1>4 DEF MinerFallsSilent
<1>5. QED BY <1>1, <1>2, <1>3, <1>4, Zenon DEF Next, vars

(* The inductive invariant holds of every behaviour of the gateway and the   *)
(* proxy.                                                                    *)
THEOREM GatewayInvariant == Spec => []GatewayInv
BY GatewayInit, GatewayNext, PTL DEF Spec

(* Every context keeps its type, and what is pending is never negative.      *)
THEOREM GatewayTypes == Spec => []TypeOK
<1>1. Init => silent \subseteq Reqs BY DEF Init
<1>2. GatewayInv /\ silent \subseteq Reqs => TypeOK
  <2> SUFFICES ASSUME GatewayInv, silent \subseteq Reqs PROVE TypeOK OBVIOUS
  <2>1. garbled \subseteq Reqs BY DEF GatewayInv
  <2>2. QED BY <2>1, Zenon DEF GatewayInv, TypeOK, Context
<1>3. silent \subseteq Reqs /\ [Next]_vars => (silent \subseteq Reqs)' BY SilentNext
<1>4. QED BY <1>1, <1>2, <1>3, GatewayInvariant, PTL DEF Spec

(* No socket, timer or close callback ever points at a deleted context, and  *)
(* both ends can still end one that exists.                                  *)
THEOREM CallbacksAliveHolds == Spec => []CallbacksAlive
BY GatewayInvariant, GatewayInvImplies, PTL

(* The reply calls of every request come in order.                           *)
THEOREM RepliesInOrderHolds == Spec => []RepliesInOrder
BY GatewayInvariant, GatewayInvImplies, PTL

(* An answer is charged or tracked at most once.                             *)
THEOREM AccountedOnceHolds == Spec => []AccountedOnce
BY GatewayInvariant, GatewayInvImplies, PTL

(* Content forwarded by the proxy under an API key is billed.                *)
THEOREM ProxyBillsForwardedHolds == Spec => []ProxyBillsForwarded
BY GatewayInvariant, GatewayInvImplies, PTL

(* Content the gateway forwarded to a client that stayed is accounted for.   *)
THEOREM GatewayAccountsForwardedHolds == Spec => []GatewayAccountsForwarded
BY GatewayInvariant, GatewayInvImplies, PTL
------------------------------------------------------------------------------
(* What is pending *)

Reserved == [r \in Reqs |-> ctx[r].reserved]

(* A request that has no context yet reserves nothing, the proxy reserves    *)
(* only under a key, and a context that ends with its reservation is one of  *)
(* the proxy that saw no response headers, and was not charged.              *)
Explained(r, c, charges) ==
    /\ c.life = "none" => c.reserved = 0
    /\ r \in Proxied /\ c.reserved > 0 => c.keyed
    /\ c.life = "over" /\ c.reserved > 0 =>
          r \in Proxied /\ c.stage = "headers" /\ ~c.disconnected /\ charges = 0

PendingInv ==
    /\ pending = SumFunctionOnSet(Reserved, Reqs)
    /\ \A r \in Reqs : Explained(r, ctx[r], charged[r])

(* Nothing is reserved before the first request.                             *)
LEMMA PendingInit == Init => PendingInv
<1> SUFFICES ASSUME Init PROVE PendingInv
  OBVIOUS
<1>1. \A r \in Reqs : ctx[r] = NoCtx BY DEF Init
<1>2. \A r \in Reqs : Reserved[r] = 0 BY <1>1 DEF Reserved, NoCtx
<1>3. SumFunctionOnSet(Reserved, Reqs) = 0
  BY <1>2, SumZero, GatewayAssumption DEF Reqs
<1>4. pending = 0 BY DEF Init
<1>5. QED BY <1>1, <1>3, <1>4 DEF PendingInv, Explained, NoCtx

(* The reservations are naturals and none exceeds what is pending, so that   *)
(* releasing one never stops at zero.                                        *)
LEMMA ReleaseExact ==
    ASSUME GatewayInv, PendingInv, NEW r \in Reqs
    PROVE  /\ pending \in Nat /\ ctx[r].reserved \in Nat
           /\ ReleaseEscrowCost(pending, ctx[r].reserved) = pending - ctx[r].reserved
<1>1. \A x \in Reqs : Reserved[x] \in Nat BY OneGood DEF Reserved
<1>2. Reserved[r] <= SumFunctionOnSet(Reserved, Reqs)
  BY <1>1, SumNat, GatewayAssumption DEF Reqs
<1>3. Reserved[r] = ctx[r].reserved BY DEF Reserved
<1>4. ctx[r].reserved <= pending BY <1>2, <1>3 DEF PendingInv
<1>5. QED BY <1>4, OneGood DEF ReleaseEscrowCost

(* A step that changes one context, and what is pending by as much.          *)
LEMMA PendingChange ==
    ASSUME GatewayInv, PendingInv, NEW r \in Reqs, NEW c, NEW n,
           ctx' = [ctx EXCEPT ![r] = c], charged' = [charged EXCEPT ![r] = n],
           c.reserved \in Nat, pending' = pending + c.reserved - ctx[r].reserved,
           Explained(r, c, n)
    PROVE  PendingInv'
<1> DEFINE f == Reserved
           g == [x \in Reqs |-> ctx'[x].reserved]
<1>1. IsFiniteSet(Reqs) BY GatewayAssumption DEF Reqs
<1>2. /\ \A x \in Reqs : f[x] \in Int /\ f[r] = ctx[r].reserved
      /\ ctx \in [Reqs -> Context] /\ charged \in [Reqs -> Nat]
  BY OneGood DEF Reserved, GatewayInv
<1>3. g[r] = c.reserved /\ g[r] \in Int /\ \A x \in Reqs \ {r} : g[x] = f[x]
  BY <1>2 DEF Reserved
<1> HIDE DEF f, g
<1>4. SumFunctionOnSet(g, Reqs) = SumFunctionOnSet(f, Reqs) + g[r] - f[r]
  BY <1>1, <1>2, <1>3, SumChange
<1>5. pending' = SumFunctionOnSet(g, Reqs)
  BY <1>2, <1>3, <1>4 DEF PendingInv, f
<1>6. g = Reserved' BY DEF g, Reserved
<1>7. ASSUME NEW x \in Reqs PROVE Explained(x, ctx'[x], charged'[x])
  BY <1>2 DEF PendingInv
<1>8. QED BY <1>5, <1>6, <1>7 DEF PendingInv, Explained

(* One that keeps the reservation of a context that goes on, or that only    *)
(* answers a request which has none.                                         *)
Keeps(r, c) ==
    /\ c.reserved = ctx[r].reserved /\ c.keyed = ctx[r].keyed
    /\ \/ c.life = "live"
       \/ c.life = ctx[r].life /\ c.stage = ctx[r].stage
          /\ c.disconnected = ctx[r].disconnected
       \/ ctx[r].life = "none"

(* A callback that keeps the reservation of its context.                     *)
LEMMA PendingKeeps ==
    ASSUME GatewayInv, PendingInv, NEW r \in Reqs, NEW c, Keeps(r, c),
           ctx' = [ctx EXCEPT ![r] = c], charged' = charged, pending' = pending
    PROVE  PendingInv'
<1>1. charged' = [charged EXCEPT ![r] = charged[r]] BY DEF GatewayInv
<1>2. pending' = pending + c.reserved - ctx[r].reserved /\ c.reserved \in Nat
  BY ReleaseExact DEF Keeps
<1>3. Explained(r, c, charged[r]) BY ReleaseExact DEF Keeps, PendingInv, Explained
<1>4. QED BY <1>1, <1>2, <1>3, PendingChange, Zenon

(* One that ends a context and releases its reservation.                     *)
LEMMA PendingReleased ==
    ASSUME GatewayInv, PendingInv, NEW r \in Reqs, NEW c, NEW n,
           c.reserved = 0, c.life = "over",
           ctx' = [ctx EXCEPT ![r] = c], charged' = [charged EXCEPT ![r] = n],
           pending' = ReleaseEscrowCost(pending, ctx[r].reserved)
    PROVE  PendingInv'
<1>1. pending' = pending + c.reserved - ctx[r].reserved /\ c.reserved \in Nat
  BY ReleaseExact
<1>2. Explained(r, c, n) BY DEF Explained
<1>3. QED BY <1>1, <1>2, PendingChange, Zenon


(* A request refused before it has a context.                                *)
LEMMA RefusePending ==
    ASSUME GatewayInv, PendingInv, NEW r \in Reqs, Refuse(r) PROVE PendingInv'
<1> DEFINE c == [ctx[r] EXCEPT !.life = "over", !.reply = "ended"]
<1>1. Keeps(r, c) BY OneGood DEF Refuse, Keeps, Context
<1>2. ctx' = [ctx EXCEPT ![r] = c] /\ charged' = charged /\ pending' = pending
  BY DEF Refuse, Put
<1> HIDE DEF c
<1>3. QED BY <1>1, <1>2, PendingKeeps, Zenon

(* The reservation of HandleChatCompletions, given back on the spot when the *)
(* miner cannot be reached.                                                  *)
LEMMA HandlePending ==
    ASSUME GatewayInv, PendingInv, NEW r \in Gatewayed, HandleChatCompletions(r)
    PROVE  PendingInv'
<1> r \in Reqs /\ r \notin Proxied BY GatewayAssumption DEF Reqs
<1>1. PICK skip \in BOOLEAN :
        HttpPostToMinerProgressive(r, skip, IF skip THEN 0 ELSE Cost)
  BY DEF HandleChatCompletions
<1> DEFINE hold == IF skip THEN 0 ELSE Cost
           c == [NoCtx EXCEPT !.life = "live", !.keyed = TRUE, !.skip_billing = skip,
                    !.reserved = hold, !.bev = TRUE, !.closecb = TRUE,
                    !.timer = "armed", !.reply = "started"]
           d == StreamSafeDelete([c EXCEPT !.timer = "none", !.reply = "ended"])
<1>2. hold \in Nat BY OneGood
<1>3. ctx[r].reserved = 0
  BY DEF HandleChatCompletions, PendingInv, Explained
<1>4. charged' = [charged EXCEPT ![r] = charged[r]]
  BY Unchanged DEF HandleChatCompletions
<1>5. c.reserved = hold /\ c.life = "live" /\ d.reserved = 0 /\ d.life = "over"
  BY DEF NoCtx, StreamSafeDelete
<1>6. \/ ctx' = [ctx EXCEPT ![r] = c] /\ pending' = pending + hold
      \/ ctx' = [ctx EXCEPT ![r] = d] /\ pending' = ReleaseEscrowCost(pending + hold, hold)
  BY <1>1 DEF HttpPostToMinerProgressive, Put
<1> HIDE DEF c, d, hold
<1>7. Explained(r, c, charged[r]) /\ Explained(r, d, charged[r])
  BY <1>5 DEF Explained
<1>8. ReleaseEscrowCost(pending + hold, hold) = pending
  BY <1>2, OneGood DEF ReleaseEscrowCost
<1>9. CASE ctx' = [ctx EXCEPT ![r] = c] /\ pending' = pending + hold
  <2>1. pending' = pending + c.reserved - ctx[r].reserved /\ c.reserved \in Nat
    BY <1>2, <1>3, <1>5, <1>9, OneGood
  <2>2. QED BY <1>4, <1>7, <1>9, <2>1, PendingChange, Zenon
<1>10. CASE ctx' = [ctx EXCEPT ![r] = d]
            /\ pending' = ReleaseEscrowCost(pending + hold, hold)
  <2>1. pending' = pending + d.reserved - ctx[r].reserved /\ d.reserved \in Nat
    BY <1>3, <1>5, <1>8, <1>10, OneGood
  <2>2. QED BY <1>4, <1>7, <1>10, <2>1, PendingChange, Zenon
<1>11. QED BY <1>6, <1>9, <1>10

(* The callbacks of the gateway that go on keep the reservation.             *)
LEMMA KeepalivePending ==
    ASSUME GatewayInv, PendingInv, NEW r \in Gatewayed, StreamKeepaliveCb(r)
    PROVE  PendingInv'
<1> r \in Reqs BY DEF Reqs
<1>1. Keeps(r, ctx[r]) /\ Keeps(r, [ctx[r] EXCEPT !.timer = "idle"])
  BY OneGood DEF Keeps, Context
<1>2. \/ ctx' = [ctx EXCEPT ![r] = [ctx[r] EXCEPT !.timer = "idle"]]
      \/ ctx' = [ctx EXCEPT ![r] = ctx[r]]
  BY Unchanged DEF StreamKeepaliveCb, Put
<1>3. charged' = charged /\ pending' = pending BY DEF StreamKeepaliveCb
<1>4. QED BY <1>1, <1>2, <1>3, PendingKeeps

(* The gateway reads from the miner.                                         *)
LEMMA MinerReadPending ==
    ASSUME GatewayInv, PendingInv, NEW r \in Gatewayed, StreamMinerReadCb(r)
    PROVE  PendingInv'
<1> r \in Reqs BY DEF Reqs
<1>1. \E c : ctx' = [ctx EXCEPT ![r] = c] /\ Keeps(r, c)
  <2>1. ctx[r] \in Context /\ ctx[r].life = "live"
    BY OneGood, Zenon DEF StreamMinerReadCb, Live
  <2>2. ASSUME NEW chunked \in BOOLEAN
        PROVE  Keeps(r, [ctx[r] EXCEPT !.stage = "body", !.chunked = chunked])
    BY <2>1 DEF Keeps, Context
  <2>3. ASSUME NEW piece \in Pieces
        PROVE  Keeps(r, [ctx[r] EXCEPT !.got = @ \cup ({piece} \ {"blank"}),
                                       !.sse_forwarded = TRUE])
    BY <2>1 DEF Keeps, Context
  <2>4. Keeps(r, [ctx[r] EXCEPT !.stage = "done"])
    BY <2>1 DEF Keeps, Context
  <2>5. CASE \E chunked \in BOOLEAN :
               Put(r, [ctx[r] EXCEPT !.stage = "body", !.chunked = chunked])
    BY <2>2, <2>5, Zenon DEF Put
  <2>6. CASE \E piece \in Pieces : StreamForwardToClient(r, piece)
    BY <2>3, <2>6, Zenon DEF Put, StreamForwardToClient
  <2>7. CASE Put(r, [ctx[r] EXCEPT !.stage = "done"])
    BY <2>4, <2>7, Zenon DEF Put
  <2>8. QED BY <2>5, <2>6, <2>7, Zenon DEF StreamMinerReadCb
<1>2. charged' = charged /\ pending' = pending BY Zenon DEF StreamMinerReadCb
<1>3. QED BY <1>1, <1>2, PendingKeeps, Zenon

(* The end of a context of the gateway, and of one of the proxy after the    *)
(* response headers.                                                         *)
LEMMA FinishPending ==
    ASSUME GatewayInv, PendingInv, NEW r \in Reqs, NEW c, c \in Context,
           c.reserved = ctx[r].reserved,
           StreamFinishAndCleanup(r, c) \/ ProxyFinishCleanup(r, c)
    PROVE  PendingInv'
<1>1. \E n : charged' = [charged EXCEPT ![r] = n]
  BY Zenon DEF StreamFinishAndCleanup, ProxyFinishCleanup
<1>2. pending' = ReleaseEscrowCost(pending, ctx[r].reserved)
  BY Zenon DEF StreamFinishAndCleanup, ProxyFinishCleanup, Released
<1>3. ASSUME NEW reply
      PROVE  LET d == StreamSafeDelete([c EXCEPT !.timer = "none", !.reply = reply])
                 e == ProxyDelete([c EXCEPT !.reply = reply])
             IN  /\ d.reserved = 0 /\ d.life = "over"
                 /\ e.reserved = 0 /\ e.life = "over"
  BY DEF StreamSafeDelete, ProxyDelete, Context
<1>4. \E d : ctx' = [ctx EXCEPT ![r] = d] /\ d.reserved = 0 /\ d.life = "over"
  <2>1. CASE StreamFinishAndCleanup(r, c)
    <3> DEFINE reply == IF c.disconnected THEN c.reply ELSE "ended"
               d == StreamSafeDelete([c EXCEPT !.timer = "none", !.reply = reply])
    <3>1. ctx' = [ctx EXCEPT ![r] = d] BY <2>1 DEF StreamFinishAndCleanup, Put
    <3> HIDE DEF reply
    <3>2. d.reserved = 0 /\ d.life = "over" BY <1>3, Zenon
    <3>3. QED BY <3>1, <3>2, Zenon
  <2>2. CASE ProxyFinishCleanup(r, c)
    <3> DEFINE reply == IF c.disconnected \/ c.reply = "none" THEN c.reply ELSE "ended"
               e == ProxyDelete([c EXCEPT !.reply = reply])
    <3>1. ctx' = [ctx EXCEPT ![r] = e] BY <2>2 DEF ProxyFinishCleanup, Put
    <3> HIDE DEF reply
    <3>2. e.reserved = 0 /\ e.life = "over" BY <1>3, Zenon
    <3>3. QED BY <3>1, <3>2, Zenon
  <2>3. QED BY <2>1, <2>2
<1>5. QED BY <1>1, <1>2, <1>4, PendingReleased, Zenon


(* The gateway's connection to the miner ends.                               *)
LEMMA MinerEventPending ==
    ASSUME GatewayInv, PendingInv, NEW r \in Gatewayed, StreamMinerEventCb(r)
    PROVE  PendingInv'
<1> r \in Reqs BY DEF Reqs
<1>1. CASE /\ Put(r, [ctx[r] EXCEPT !.sent = TRUE])
           /\ UNCHANGED <<pending, charged, tracked, garbled>>
  <2>1. Keeps(r, [ctx[r] EXCEPT !.sent = TRUE]) BY OneGood DEF Keeps, Context
  <2>2. QED BY <1>1, <2>1, PendingKeeps, Zenon DEF Put
<1>2. CASE StreamFinishAndCleanup(r, ctx[r]) BY <1>2, OneGood, FinishPending
<1>3. QED BY <1>1, <1>2 DEF StreamMinerEventCb

(* A client that leaves ends its context, which releases the reservation; a  *)
(* request without a context keeps what it has.                              *)
LEMMA LeavesPending ==
    ASSUME GatewayInv, PendingInv, NEW r \in Reqs, ClientLeaves(r)
    PROVE  PendingInv'
<1>1. CASE ctx[r].closecb
  <2> DEFINE c == [ctx[r] EXCEPT !.disconnected = TRUE]
  <2>1. StreamFinishAndCleanup(r, c) \/ ProxyFinishCleanup(r, c)
    BY <1>1 DEF ClientLeaves, StreamClientCloseCb, ProxyClientCloseCb
  <2>2. c \in Context /\ c.reserved = ctx[r].reserved
    <3>1. ASSUME NEW o \in Context
          PROVE  LET e == [o EXCEPT !.disconnected = TRUE]
                 IN  e \in Context /\ e.reserved = o.reserved
      BY Zenon DEF Context
    <3>2. QED BY <3>1, OneGood
  <2> HIDE DEF c
  <2>3. QED BY <2>1, <2>2, FinishPending
<1>2. CASE ~ctx[r].closecb
  <2>1. Keeps(r, ctx[r]) BY DEF Keeps
  <2>2. ctx' = [ctx EXCEPT ![r] = ctx[r]] /\ charged' = charged /\ pending' = pending
    BY <1>2, Unchanged DEF ClientLeaves
  <2>3. QED BY <2>1, <2>2, PendingKeeps, Zenon
<1>3. QED BY <1>1, <1>2

(* The proxy reserves under a key, and keeps the reservation when it fails   *)
(* at once.                                                                  *)
LEMMA ProxyHandlerPending ==
    ASSUME GatewayInv, PendingInv, NEW r \in Proxied, ProxyHandler(r)
    PROVE  PendingInv'
<1> r \in Reqs BY DEF Reqs
<1> DEFINE Reserving(c) ==
              /\ c.reserved \in Nat /\ (c.reserved > 0 => c.keyed)
              /\ \/ c.life = "live"
                 \/ c.life = "over" /\ c.stage = "headers" /\ ~c.disconnected
           Starts(c) == ctx' = [ctx EXCEPT ![r] = c] /\ pending' = pending + c.reserved
<1>1. /\ ctx[r].life = "none" /\ UNCHANGED <<client, charged, tracked>>
      /\ \E c : Starts(c) /\ Reserving(c)
  <2>1. PICK keyed \in BOOLEAN, connecting \in BOOLEAN :
          LET hold == IF keyed THEN Cost ELSE 0
              c == [NoCtx EXCEPT !.life = "live", !.keyed = keyed,
                       !.reserved = hold, !.bev = TRUE, !.closecb = TRUE]
          IN  /\ ctx[r].life = "none"
              /\ Put(r, IF connecting THEN c
                        ELSE [c EXCEPT !.life = "over", !.bev = FALSE,
                                       !.closecb = FALSE, !.reply = "ended"])
              /\ pending' = pending + hold
              /\ UNCHANGED <<client, charged, tracked>>
    BY Zenon DEF ProxyHandler
  <2> DEFINE hold == IF keyed THEN Cost ELSE 0
             c == [NoCtx EXCEPT !.life = "live", !.keyed = keyed,
                       !.reserved = hold, !.bev = TRUE, !.closecb = TRUE]
             d == [c EXCEPT !.life = "over", !.bev = FALSE,
                            !.closecb = FALSE, !.reply = "ended"]
  <2>2. hold \in Nat /\ (hold > 0 => keyed = TRUE) BY OneGood
  <2>3. /\ c.reserved = hold /\ c.keyed = keyed /\ c.life = "live"
        /\ d.reserved = hold /\ d.keyed = keyed /\ d.life = "over"
        /\ d.stage = "headers" /\ ~d.disconnected
    <3> HIDE DEF hold
    <3>1. QED BY DEF NoCtx
  <2>4. ctx' = [ctx EXCEPT ![r] = c] \/ ctx' = [ctx EXCEPT ![r] = d]
    BY <2>1, Zenon DEF Put
  <2>5. Reserving(c) /\ Reserving(d)
    <3> HIDE DEF hold, c, d
    <3>1. QED BY <2>2, <2>3
  <2>6. pending' = pending + hold BY <2>1
  <2>7. Starts(c) \/ Starts(d)
    <3> HIDE DEF hold, c, d
    <3>1. QED BY <2>3, <2>4, <2>6
  <2> HIDE DEF Starts, Reserving, c, d
  <2>8. QED BY <2>1, <2>5, <2>7
<1>2. PICK c : Starts(c) /\ Reserving(c) BY <1>1, Zenon
<1>3. charged[r] = 0 /\ ctx[r].reserved = 0
  BY <1>1, OneGood DEF Good, DeadContext, PendingInv, Explained
<1>4. charged' = [charged EXCEPT ![r] = charged[r]] BY <1>1, Unchanged
<1>5. Explained(r, c, charged[r]) BY <1>2, <1>3 DEF Explained
<1>6. pending' = pending + c.reserved - ctx[r].reserved BY <1>2, <1>3, OneGood
<1>7. QED BY <1>2, <1>4, <1>5, <1>6, PendingChange, Zenon

(* The proxy reads from the miner.                                           *)
LEMMA ProxyReadPending ==
    ASSUME GatewayInv, PendingInv, NEW r \in Proxied, ProxyReadCb(r)
    PROVE  PendingInv'
<1> r \in Reqs BY DEF Reqs
<1>1. ctx[r] \in Context /\ ctx[r].life = "live" BY OneGood, Zenon DEF ProxyReadCb, Live
<1>2. ASSUME NEW chunked \in BOOLEAN, NEW ok \in BOOLEAN
      PROVE  Keeps(r, [ctx[r] EXCEPT !.stage = "body", !.chunked = chunked,
                                     !.ok = ok, !.reply = "started"])
  BY <1>1 DEF Keeps, Context
<1>3. ASSUME NEW piece \in Pieces
      PROVE  Keeps(r, [ctx[r] EXCEPT !.got = @ \cup ({piece} \ {"blank"})])
  BY <1>1 DEF Keeps, Context
<1>4. ASSUME UNCHANGED <<pending, charged>>,
             NEW c, Keeps(r, c), ctx' = [ctx EXCEPT ![r] = c]
      PROVE  PendingInv'
  BY <1>4, PendingKeeps, Zenon
<1>5. CASE /\ \E chunked \in BOOLEAN, ok \in BOOLEAN :
                 Put(r, [ctx[r] EXCEPT !.stage = "body", !.chunked = chunked,
                                       !.ok = ok, !.reply = "started"])
           /\ UNCHANGED <<pending, charged>>
  BY <1>2, <1>4, <1>5, Zenon DEF Put
<1>6. CASE /\ \E piece \in Pieces :
                 Put(r, [ctx[r] EXCEPT !.got = @ \cup ({piece} \ {"blank"})])
           /\ UNCHANGED <<pending, charged>>
  BY <1>3, <1>4, <1>6, Zenon DEF Put
<1>7. CASE ProxyFinishCleanup(r, ctx[r]) BY <1>1, <1>7, FinishPending
<1>8. QED BY <1>5, <1>6, <1>7, Zenon DEF ProxyReadCb

(* The 502 before the response headers keeps the reservation.                *)
LEMMA ProxyEventPending ==
    ASSUME GatewayInv, PendingInv, NEW r \in Proxied, ProxyEventCb(r)
    PROVE  PendingInv'
<1> r \in Reqs /\ r \notin Gatewayed BY GatewayAssumption DEF Reqs
<1>1. /\ ctx[r] \in Context /\ ctx[r].life = "live" /\ charged[r] = 0
      /\ ctx[r].reply = "none" => ctx[r].stage = "headers"
      /\ ~ctx[r].disconnected
  BY OneGood DEF ProxyEventCb, Live, Good, LiveContext
<1>2. CASE /\ Put(r, [ctx[r] EXCEPT !.sent = TRUE])
           /\ UNCHANGED <<pending, charged, garbled>>
  <2>1. Keeps(r, [ctx[r] EXCEPT !.sent = TRUE]) BY <1>1 DEF Keeps, Context
  <2>2. QED BY <1>2, <2>1, PendingKeeps, Zenon DEF Put
<1>3. CASE /\ ctx[r].reply = "none"
           /\ Put(r, [ctx[r] EXCEPT !.life = "over", !.closecb = FALSE,
                                    !.bev = FALSE, !.reply = "ended"])
           /\ UNCHANGED <<pending, charged>>
  <2> DEFINE c == [ctx[r] EXCEPT !.life = "over", !.closecb = FALSE,
                                 !.bev = FALSE, !.reply = "ended"]
  <2>1. /\ c.life = "over" /\ c.reserved = ctx[r].reserved /\ c.keyed = ctx[r].keyed
        /\ c.stage = ctx[r].stage /\ c.disconnected = ctx[r].disconnected
    BY <1>1 DEF Context
  <2>2. ctx' = [ctx EXCEPT ![r] = c] BY <1>3 DEF Put
  <2> HIDE DEF c
  <2>3. Explained(r, c, charged[r])
    BY <1>1, <1>3, <2>1 DEF PendingInv, Explained
  <2>4. charged' = [charged EXCEPT ![r] = charged[r]] BY <1>3, Unchanged
  <2>5. pending' = pending + c.reserved - ctx[r].reserved /\ c.reserved \in Nat
    BY <1>3, <2>1, OneGood
  <2>6. QED BY <2>2, <2>3, <2>4, <2>5, PendingChange, Zenon
<1>4. CASE ProxyFinishCleanup(r, ctx[r]) BY <1>1, <1>4, FinishPending
<1>5. QED BY <1>2, <1>3, <1>4 DEF ProxyEventCb

(* PendingInv is inductive, relative to GatewayInv.                          *)
LEMMA PendingNext ==
    ASSUME GatewayInv, PendingInv, [Next]_vars PROVE PendingInv'
<1>1. ASSUME NEW r \in Gatewayed, GatewayStep(r) PROVE PendingInv'
  BY <1>1, HandlePending, KeepalivePending, MinerReadPending, MinerEventPending
  DEF GatewayStep
<1>2. ASSUME NEW r \in Proxied, ProxyStep(r) PROVE PendingInv'
  BY <1>2, ProxyHandlerPending, ProxyReadPending, ProxyEventPending DEF ProxyStep
<1>3. CASE (\E r \in Reqs : MinerFallsSilent(r)) \/ UNCHANGED vars
  <2>1. UNCHANGED <<ctx, pending, charged>> BY <1>3 DEF MinerFallsSilent, vars
  <2>2. QED BY <2>1 DEF PendingInv, Reserved, Explained
<1>4. QED BY <1>1, <1>2, <1>3, RefusePending, LeavesPending, Zenon DEF Next

(* The reservations are natural numbers, and there are finitely many.        *)
LEMMA ReservedType ==
    ASSUME GatewayInv
    PROVE  /\ IsFiniteSet(Reqs) /\ \A r \in Reqs : Reserved[r] \in Nat
           /\ {r \in Reqs : Live(r)} \in SUBSET Reqs
<1>1. \A r \in Reqs : Reserved[r] \in Nat BY OneGood DEF Reserved
<1>2. QED BY <1>1, GatewayAssumption DEF Reqs

(* What is pending is what all contexts reserved and did not give back, the  *)
(* deleted ones included: the live ones reserved no more.                    *)
LEMMA PendingInvCovers == GatewayInv /\ PendingInv => PendingCovers
<1> SUFFICES ASSUME GatewayInv, PendingInv PROVE PendingCovers OBVIOUS
<1> DEFINE L == {r \in Reqs : Live(r)}
<1>1. L \in SUBSET Reqs OBVIOUS
<1> HIDE DEF L
<1>2. SumFunctionOnSet(Reserved, L) <= SumFunctionOnSet(Reserved, Reqs)
  BY <1>1, ReservedType, SumSubset
<1>3. IsFiniteSet(L) /\ \A r \in L : Reserved[r] \in Nat
  BY <1>1, ReservedType, FS_Subset
<1>4. SumFunctionOnSet(Reserved, L) \in Nat /\ SumFunctionOnSet(Reserved, Reqs) \in Nat
  BY <1>3, ReservedType, SumNat
<1>5. ReservedLive = SumFunctionOnSet(Reserved, L) BY DEF ReservedLive, Reserved, L
<1>6. QED BY <1>2, <1>4, <1>5 DEF PendingCovers, PendingInv

(* Without the proxy no deleted context has kept a reservation.              *)
LEMMA PendingInvExact ==
    Proxied = {} => (GatewayInv /\ PendingInv => EveryReservationReleased)
<1> SUFFICES ASSUME Proxied = {}, GatewayInv, PendingInv PROVE EveryReservationReleased
  OBVIOUS
<1> DEFINE L == {r \in Reqs : Live(r)}
           O == Reqs \ L
<1>1. L \in SUBSET Reqs /\ O \in SUBSET Reqs OBVIOUS
<1>2. \A r \in O : Reserved[r] = 0
  <2> SUFFICES ASSUME NEW r \in Reqs, ~Live(r) PROVE ctx[r].reserved = 0
    BY DEF Reserved
  <2>1. ctx[r].life = "none" \/ ctx[r].life = "over" BY OneGood DEF Context, Live
  <2>2. Explained(r, ctx[r], charged[r]) BY DEF PendingInv
  <2>3. ctx[r].reserved \in Nat BY OneGood
  <2>4. QED BY <2>1, <2>2, <2>3 DEF Explained
<1>3. ReservedLive = SumFunctionOnSet(Reserved, L) BY DEF ReservedLive, Reserved
<1>4. SumFunctionOnSet(Reserved, Reqs)
        = SumFunctionOnSet(Reserved, L) + SumFunctionOnSet(Reserved, O)
  <2>1. \A r \in Reqs : Reserved[r] \in Int BY ReservedType
  <2> HIDE DEF L
  <2>2. QED BY <1>1, <2>1, ReservedType, SumSplit
<1> HIDE DEF L, O
<1>5. SumFunctionOnSet(Reserved, O) = 0
  <2>1. IsFiniteSet(O) BY <1>1, ReservedType, FS_Subset
  <2>2. QED BY <1>2, <2>1, SumZero
<1>6. SumFunctionOnSet(Reserved, L) \in Nat
  <2>1. IsFiniteSet(L) /\ \A r \in L : Reserved[r] \in Nat
    BY <1>1, ReservedType, FS_Subset
  <2>2. QED BY <2>1, SumNat
<1>7. QED BY <1>3, <1>4, <1>5, <1>6 DEF EveryReservationReleased, PendingInv

(* PendingInv holds of every behaviour.                                      *)
LEMMA PendingInvariant == Spec => [](GatewayInv /\ PendingInv)
<1>1. Init => GatewayInv /\ PendingInv BY GatewayInit, PendingInit
<1>2. GatewayInv /\ PendingInv /\ [Next]_vars => GatewayInv' /\ PendingInv'
  BY GatewayNext, PendingNext
<1>3. QED BY <1>1, <1>2, PTL DEF Spec

(* g_pending_costs covers every context that exists: no end of a request,    *)
(* by its client, its miner or a timeout, gives back another's reservation.  *)
THEOREM PendingCoversHolds == Spec => []PendingCovers
BY PendingInvariant, PendingInvCovers, PTL

(* The gateway by itself keeps the contract of ReserveEscrowCost: whatever   *)
(* ends a request, nothing stays pending. It is the proxy that breaks it.    *)
THEOREM GatewayReleasesAll == Proxied = {} => (Spec => []EveryReservationReleased)
<1> SUFFICES ASSUME Proxied = {} PROVE Spec => []EveryReservationReleased OBVIOUS
<1>1. GatewayInv /\ PendingInv => EveryReservationReleased BY PendingInvExact
<1>2. QED BY <1>1, PendingInvariant, PTL
=============================================================================
