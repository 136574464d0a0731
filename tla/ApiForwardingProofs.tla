------------------------ MODULE ApiForwardingProofs -------------------------
(***************************************************************************)
(* Proofs about ApiForwarding, for any network, any advertisements, any    *)
(* number of calls and any clock: the inductive invariant and what it says *)
(* of the tables, of the messages on the links and of the keys; the steps  *)
(* of a call and of a message handler, which keep it; and the count of the *)
(* requests.                                                               *)
(***************************************************************************)
EXTENDS ApiForwarding, SumTheorems

-----------------------------------------------------------------------------
(* The requests for a call on the links l.                                   *)
Count(l, c) == SumFunctionOnSet([p \in Peers |-> RequestsOn(l[p], c)], Peers)
IsRequest(msg, c) == msg.type = "apireq" /\ msg.body = c
One(b) == IF b THEN 1 ELSE 0
Links == [Peers -> Seq(Messages)]

(* The requests on one connection are finitely many; a message at the end is *)
(* one more if it is one, the head taken away one less.                      *)
LEMMA RequestsFinite ==
    ASSUME NEW s \in Seq(Messages), NEW c
    PROVE  /\ IsFiniteSet({i \in DOMAIN s : s[i].type = "apireq" /\ s[i].body = c})
           /\ RequestsOn(s, c) \in Nat
<1>1. DOMAIN s = 1..Len(s) /\ Len(s) \in Nat OBVIOUS
<1>2. IsFiniteSet(1..Len(s)) BY <1>1, FS_Interval
<1>3. IsFiniteSet({i \in DOMAIN s : s[i].type = "apireq" /\ s[i].body = c})
  BY <1>1, <1>2, FS_Subset
<1>4. QED BY <1>3, FS_CardinalityType DEF RequestsOn

(* A message pushed on a connection is one more request if it is one.        *)
LEMMA AppendRequests ==
    ASSUME NEW s \in Seq(Messages), NEW msg \in Messages, NEW c
    PROVE  RequestsOn(Append(s, msg), c) = RequestsOn(s, c) + One(IsRequest(msg, c))
<1> DEFINE t == Append(s, msg)
           S == {i \in DOMAIN s : s[i].type = "apireq" /\ s[i].body = c}
           T == {i \in DOMAIN t : t[i].type = "apireq" /\ t[i].body = c}
           new == Len(s) + 1
<1>1. /\ DOMAIN s = 1..Len(s) /\ Len(s) \in Nat /\ DOMAIN t = 1..new /\ t[new] = msg
      /\ \A i \in 1..Len(s) : t[i] = s[i]
  OBVIOUS
<1>2. IsFiniteSet(S) /\ new \notin S
  <2>1. IsFiniteSet(S) BY RequestsFinite, Zenon
  <2>2. new \notin S BY <1>1
  <2>3. QED BY <2>1, <2>2
<1>3. RequestsOn(s, c) = Cardinality(S) /\ RequestsOn(t, c) = Cardinality(T)
  BY DEF RequestsOn
<1>4. Cardinality(S) \in Nat BY <1>2, FS_CardinalityType
<1> HIDE DEF t
<1>5. CASE IsRequest(msg, c)
  <2>1. T = S \cup {new} BY <1>1, <1>5 DEF IsRequest
  <2> HIDE DEF S, T, new
  <2>2. Cardinality(S \cup {new}) = Cardinality(S) + 1 BY <1>2, FS_AddElement, Zenon
  <2>3. QED BY <1>3, <1>5, <2>1, <2>2 DEF t, One
<1>6. CASE ~IsRequest(msg, c)
  <2>1. T = S BY <1>1, <1>6 DEF IsRequest
  <2> HIDE DEF S, T
  <2>2. QED BY <1>3, <1>4, <1>6, <2>1 DEF t, One
<1>7. QED BY <1>5, <1>6

(* A message taken from a connection is one request less if it was one.      *)
LEMMA TailRequests ==
    ASSUME NEW s \in Seq(Messages), s # <<>>, NEW c
    PROVE  /\ RequestsOn(Tail(s), c) = RequestsOn(s, c) - One(IsRequest(Head(s), c))
           /\ RequestsOn(Tail(s), c) \in Nat
<1> DEFINE t == Tail(s)
           S == {i \in DOMAIN s : s[i].type = "apireq" /\ s[i].body = c}
           T == {i \in DOMAIN t : t[i].type = "apireq" /\ t[i].body = c}
           R == S \ {1}
<1>1. /\ t \in Seq(Messages) /\ Len(s) \in Nat \ {0} /\ DOMAIN s = 1..Len(s)
      /\ DOMAIN t = 1..(Len(s) - 1) /\ \A i \in DOMAIN t : t[i] = s[i + 1]
      /\ Head(s) = s[1]
  OBVIOUS
<1>2. RequestsOn(s, c) = Cardinality(S) /\ RequestsOn(t, c) = Cardinality(T)
  BY DEF RequestsOn
<1>3. IsFiniteSet(S) /\ IsFiniteSet(T) /\ Cardinality(T) \in Nat
  BY <1>1, RequestsFinite, FS_CardinalityType, Zenon DEF RequestsOn
<1> HIDE DEF t
<1>4. Cardinality(R) = Cardinality(T)
  <2> DEFINE f == [i \in T |-> i + 1]
  <2>1. f \in [T -> R] BY <1>1
  <2>2. \A i, j \in T : f[i] = f[j] => i = j BY <1>1
  <2>3. \A k \in R : \E i \in T : f[i] = k
    <3> SUFFICES ASSUME NEW k \in R PROVE \E i \in T : f[i] = k OBVIOUS
    <3>1. k - 1 \in DOMAIN t /\ k - 1 + 1 = k BY <1>1
    <3>2. k - 1 \in T BY <1>1, <3>1
    <3>3. QED BY <3>1, <3>2
  <2> HIDE DEF f, T, R
  <2>4. f \in Bijection(T, R) BY <2>1, <2>2, <2>3 DEF Bijection, Injection, Surjection, IsInjective
  <2>5. ExistsBijection(T, R) BY <2>4 DEF ExistsBijection
  <2>6. QED BY <1>3, <2>5, FS_Bijection
<1>5. CASE IsRequest(Head(s), c)
  <2>1. 1 \in S BY <1>1, <1>5 DEF IsRequest
  <2> HIDE DEF S, T
  <2>2. Cardinality(R) = Cardinality(S) - 1 BY <1>3, <2>1, FS_RemoveElement, Zenon
  <2>3. QED BY <1>2, <1>3, <1>4, <1>5, <2>2 DEF t, One
<1>6. CASE ~IsRequest(Head(s), c)
  <2>1. R = S BY <1>1, <1>6 DEF IsRequest
  <2>2. One(IsRequest(Head(s), c)) = 0 BY <1>6 DEF One
  <2> HIDE DEF S, T, R
  <2>3. QED BY <1>2, <1>3, <1>4, <2>1, <2>2 DEF t
<1>7. QED BY <1>5, <1>6

(* The same on all the links.                                                *)
LEMMA CountNat ==
    ASSUME NEW l \in Links, NEW c
    PROVE  /\ \A p \in Peers : RequestsOn(l[p], c) \in Nat
           /\ Count(l, c) \in Nat
<1> DEFINE f == [p \in Peers |-> RequestsOn(l[p], c)]
<1>1. \A p \in Peers : RequestsOn(l[p], c) \in Nat
  BY RequestsFinite, Zenon DEF Links
<1>2. \A p \in Peers : f[p] \in Nat BY <1>1
<1>3. IsFiniteSet(Peers) BY ForwardingAssumption
<1> HIDE DEF f
<1>4. SumFunctionOnSet(f, Peers) \in Nat BY <1>2, <1>3, SumNat
<1>5. QED BY <1>1, <1>4 DEF Count, f

(* One connection changes.                                                   *)
LEMMA CountChange ==
    ASSUME NEW l \in Links, NEW p \in Peers, NEW s \in Seq(Messages), NEW c
    PROVE  Count([l EXCEPT ![p] = s], c)
             = Count(l, c) + RequestsOn(s, c) - RequestsOn(l[p], c)
<1> DEFINE k == [l EXCEPT ![p] = s]
           f == [q \in Peers |-> RequestsOn(l[q], c)]
           g == [q \in Peers |-> RequestsOn(k[q], c)]
<1>1. k[p] = s /\ \A q \in Peers \ {p} : k[q] = l[q] BY DEF Links
<1>2. \A q \in Peers : f[q] \in Int BY CountNat
<1>3. /\ g[p] = RequestsOn(s, c) /\ f[p] = RequestsOn(l[p], c) /\ g[p] \in Int
      /\ \A q \in Peers \ {p} : g[q] = f[q]
  <2> HIDE DEF k
  <2>1. RequestsOn(s, c) \in Nat BY RequestsFinite, Zenon
  <2>2. g[p] = RequestsOn(s, c) /\ f[p] = RequestsOn(l[p], c) BY <1>1
  <2>3. \A q \in Peers \ {p} : g[q] = f[q] BY <1>1
  <2> HIDE DEF f, g
  <2>4. QED BY <2>1, <2>2, <2>3
<1>4. IsFiniteSet(Peers) BY ForwardingAssumption
<1>5. Count(k, c) = SumFunctionOnSet(g, Peers) /\ Count(l, c) = SumFunctionOnSet(f, Peers)
  BY DEF Count
<1> HIDE DEF f, g, k
<1>6. SumFunctionOnSet(g, Peers) = SumFunctionOnSet(f, Peers) + g[p] - f[p]
  BY <1>2, <1>3, <1>4, SumChange
<1>7. QED BY <1>3, <1>5, <1>6 DEF k

(* What a push adds to the requests on all the links.                        *)
LEMMA PushCount ==
    ASSUME NEW l \in Links, up \subseteq Peers, NEW n, NEW m, NEW msg \in Messages, NEW c
    PROVE  /\ Push(l, n, m, msg) \in Links
           /\ Count(Push(l, n, m, msg), c) <= Count(l, c) + One(IsRequest(msg, c))
<1>1. Count(l, c) \in Nat BY CountNat
<1>2. CASE <<n, m>> \in up
  <2> DEFINE p == <<n, m>>
             s == Append(l[p], msg)
  <2>1. p \in Peers /\ l[p] \in Seq(Messages) BY <1>2 DEF Links
  <2>2. s \in Seq(Messages) BY <2>1
  <2>3. RequestsOn(s, c) = RequestsOn(l[p], c) + One(IsRequest(msg, c))
    BY <2>1, AppendRequests
  <2>4. Push(l, n, m, msg) = [l EXCEPT ![p] = s] BY <1>2 DEF Push
  <2>5. RequestsOn(l[p], c) \in Nat /\ One(IsRequest(msg, c)) \in Nat
    BY <2>1, CountNat, Zenon DEF One
  <2> HIDE DEF p, s
  <2>6. Count([l EXCEPT ![p] = s], c)
          = Count(l, c) + RequestsOn(s, c) - RequestsOn(l[p], c)
    BY <2>1, <2>2, CountChange
  <2>7. [l EXCEPT ![p] = s] \in Links BY <2>1, <2>2 DEF Links
  <2>8. QED BY <1>1, <2>3, <2>4, <2>5, <2>6, <2>7
<1>3. CASE <<n, m>> \notin up BY <1>1, <1>3 DEF Push, One
<1>4. QED BY <1>2, <1>3

(* What a handler that takes a message takes from the requests on the links. *)
LEMMA PopCount ==
    ASSUME link \in Links, up \subseteq Peers, NEW n, NEW m, NEW type,
           Takes(n, m, type), NEW c
    PROVE  /\ Popped(n, m) \in Links /\ Head(link[<<m, n>>]) \in Messages
           /\ Count(Popped(n, m), c)
                = Count(link, c) - One(IsRequest(Head(link[<<m, n>>]), c))
<1> DEFINE p == <<m, n>>
           s == Tail(link[p])
<1>1. p \in Peers /\ link[p] \in Seq(Messages) /\ link[p] # <<>> BY DEF Links, Takes
<1>2. s \in Seq(Messages) /\ Head(link[p]) \in Messages BY <1>1
<1>3. RequestsOn(s, c) = RequestsOn(link[p], c) - One(IsRequest(Head(link[p]), c))
  BY <1>1, TailRequests
<1>4. /\ Count(link, c) \in Nat /\ RequestsOn(link[p], c) \in Nat
      /\ One(IsRequest(Head(link[p]), c)) \in Nat
  BY <1>1, CountNat, Zenon DEF One
<1>5. Popped(n, m) = [link EXCEPT ![p] = s] BY DEF Popped
<1> HIDE DEF p, s
<1>6. Count([link EXCEPT ![p] = s], c)
        = Count(link, c) + RequestsOn(s, c) - RequestsOn(link[p], c)
  BY <1>1, <1>2, CountChange
<1>7. [link EXCEPT ![p] = s] \in Links BY <1>1, <1>2 DEF Links
<1>8. QED BY <1>2, <1>3, <1>4, <1>5, <1>6, <1>7 DEF p

(* A call uses one id for the remote backend and one for the peer it chose,  *)
(* and its prompt was answered no more often than it allowed.                *)
TallyInv ==
    \A c \in Calls :
        /\ IsFiniteSet(sentId[c])
        /\ "remote" \notin tried[c] => \A id \in Ids : <<"wire", id>> \notin sentId[c]
        /\ pc[c] \in {"idle", "route", "engine", "send"}
              => \A id \in Ids : <<"req", id>> \notin sentId[c]
        /\ answered[c] + Count(link, c) <= Allowed(c)

(* TallyInv is a strengthening of OneAnswerPerRequest.                       *)
LEMMA TallyInvImplies == TallyInv => OneAnswerPerRequest
BY DEF TallyInv, Count, OneAnswerPerRequest, InFlight

(* At first nothing is sent, tried or run.                                   *)
LEMMA TallyInit == Init => TallyInv
<1> SUFFICES ASSUME Init, NEW c \in Calls
    PROVE  /\ IsFiniteSet(sentId[c]) /\ \A s : s \notin sentId[c]
           /\ answered[c] + Count(link, c) <= Allowed(c)
  BY DEF TallyInv
<1>1. sentId[c] = {} /\ tried[c] = {} /\ answered[c] = 0 BY DEF Init
<1>2. Cardinality({}) = 0 /\ IsFiniteSet({}) BY FS_EmptySet
<1> DEFINE f == [p \in Peers |-> RequestsOn(link[p], c)]
<1>3. \A p \in Peers : f[p] = 0
  <2> SUFFICES ASSUME NEW p \in Peers PROVE f[p] = 0 OBVIOUS
  <2>1. link[p] = <<>> BY DEF Init
  <2>2. DOMAIN link[p] = {} BY <2>1
  <2>3. {i \in DOMAIN link[p] : link[p][i].type = "apireq" /\ link[p][i].body = c} = {}
    BY <2>2
  <2>4. RequestsOn(link[p], c) = 0 BY <1>2, <2>3 DEF RequestsOn
  <2>5. QED BY <2>4
<1>4. IsFiniteSet(Peers) BY ForwardingAssumption
<1> HIDE DEF f
<1>5. SumFunctionOnSet(f, Peers) = 0 BY <1>3, <1>4, SumZero
<1>6. Count(link, c) = 0 BY <1>5 DEF Count, f
<1>7. Allowed(c) = 0 BY <1>1, <1>2 DEF Allowed
<1>8. QED BY <1>1, <1>2, <1>6, <1>7

(* The numbers in TallyInv are naturals.                                       *)
LEMMA TallyTypes ==
    ASSUME TypeOK, TallyInv, NEW c \in Calls
    PROVE  /\ link \in Links /\ up \subseteq Peers
           /\ answered[c] \in Nat /\ Count(link, c) \in Nat
           /\ Cardinality(sentId[c]) \in Nat /\ Allowed(c) \in Nat
<1>1. link \in Links /\ up \subseteq Peers /\ answered[c] \in Nat BY Zenon DEF TypeOK, Links
<1>2. Cardinality(sentId[c]) \in Nat BY FS_CardinalityType DEF TallyInv
<1>3. QED BY <1>1, <1>2, CountNat DEF Allowed

(* A step of a message handler, or a lost connection: no call sends or tries *)
(* anything, and what is answered was in flight.                             *)
LEMMA RunsStay ==
    ASSUME TypeOK, TallyInv, UNCHANGED <<pc, tried, sentId>>,
           \A c \in Calls : answered'[c] + Count(link', c) <= answered[c] + Count(link, c),
           answered' \in [Calls -> Nat], link' \in Links
    PROVE  TallyInv'
<1> SUFFICES ASSUME NEW c \in Calls
    PROVE  /\ IsFiniteSet(sentId[c])
           /\ "remote" \notin tried[c] => \A id \in Ids : <<"wire", id>> \notin sentId[c]
           /\ pc[c] \in {"idle", "route", "engine", "send"}
                 => \A id \in Ids : <<"req", id>> \notin sentId[c]
           /\ answered'[c] + Count(link', c) <= Allowed(c)'
  BY DEF TallyInv
<1>1. Allowed(c)' = Allowed(c) BY DEF Allowed
<1>2. answered[c] + Count(link, c) <= Allowed(c) BY DEF TallyInv
<1>3. answered'[c] \in Nat /\ Count(link', c) \in Nat BY CountNat
<1>4. answered'[c] + Count(link', c) <= Allowed(c)
  BY <1>2, <1>3, TallyTypes
<1>5. QED BY <1>1, <1>4 DEF TallyInv

(* A step of a call that sends nothing: only the local backend answers it.   *)
LEMMA CallRuns ==
    ASSUME TypeOK, TallyInv, NEW c \in Calls, UNCHANGED <<link, sentId>>,
           pc' = [pc EXCEPT ![c] = pc'[c]], tried' = [tried EXCEPT ![c] = tried'[c]],
           pc'[c] \in {"idle", "route", "engine", "send"}
              => pc[c] \in {"idle", "route", "engine", "send"},
           tried[c] \subseteq tried'[c],
           \/ answered' = answered
           \/ /\ answered' = [answered EXCEPT ![c] = @ + 1]
              /\ "local" \notin tried[c] /\ "local" \in tried'[c]
    PROVE  TallyInv'
<1> SUFFICES ASSUME NEW d \in Calls
    PROVE  /\ IsFiniteSet(sentId[d])
           /\ "remote" \notin tried'[d] => \A id \in Ids : <<"wire", id>> \notin sentId[d]
           /\ pc'[d] \in {"idle", "route", "engine", "send"}
                 => \A id \in Ids : <<"req", id>> \notin sentId[d]
           /\ answered'[d] + Count(link, d) <= Allowed(d)'
  BY DEF TallyInv
<1>1. /\ pc \in [Calls -> {"idle", "route", "engine", "send", "wait", "done"}]
      /\ tried \in [Calls -> SUBSET {"local", "remote"}]
  BY Zenon DEF TypeOK
<1>2. /\ tried[d] \subseteq tried'[d]
      /\ pc'[d] \in {"idle", "route", "engine", "send"}
            => pc[d] \in {"idle", "route", "engine", "send"}
  BY <1>1
<1>3. answered'[d] + Count(link, d) <= Allowed(d)'
  <2>1. answered[d] + Count(link, d) <= Allowed(d) BY DEF TallyInv
  <2>2. answered \in [Calls -> Nat] BY Zenon DEF TypeOK
  <2>3. CASE answered'[d] = answered[d]
    <3>1. Allowed(d) <= Allowed(d)' BY <1>2, TallyTypes DEF Allowed
    <3>2. Allowed(d)' \in Nat BY TallyTypes DEF Allowed
    <3>3. QED BY <2>1, <2>3, <3>1, <3>2, TallyTypes
  <2>4. CASE answered'[d] # answered[d]
    <3>1. d = c /\ answered'[d] = answered[d] + 1 /\ "local" \notin tried[d] /\ "local" \in tried'[d]
      BY <2>2, <2>4
    <3>2. Allowed(d)' = Allowed(d) + 1 BY <3>1, TallyTypes DEF Allowed
    <3>3. QED BY <2>1, <3>1, <3>2, TallyTypes
  <2>5. QED BY <2>3, <2>4
<1>4. QED BY <1>2, <1>3 DEF TallyInv

(* A step that sends a request of call c under a new id.                     *)
LEMMA CallSends ==
    ASSUME TypeOK, TallyInv, NEW c \in Calls, NEW kind \in {"wire", "req"}, NEW id \in Ids,
           <<kind, id>> \notin sentId[c],
           sentId' = [sentId EXCEPT ![c] = @ \cup {<<kind, id>>}],
           kind = "wire" => "remote" \in tried'[c],
           kind = "req" => pc'[c] = "wait",
           pc' = [pc EXCEPT ![c] = pc'[c]], tried' = [tried EXCEPT ![c] = tried'[c]],
           pc[c] \in {"idle", "route", "engine", "send"},
           tried[c] \subseteq tried'[c], answered' = answered, link' \in Links,
           \A d \in Calls : Count(link', d) <= Count(link, d) + One(d = c)
    PROVE  TallyInv'
<1>1. /\ pc \in [Calls -> {"idle", "route", "engine", "send", "wait", "done"}]
      /\ tried \in [Calls -> SUBSET {"local", "remote"}]
      /\ sentId \in [Calls -> SUBSET ({"wire", "req"} \X Ids)] /\ answered \in [Calls -> Nat]
  BY Zenon DEF TypeOK
<1>2. ASSUME NEW d \in Calls, d # c
      PROVE  /\ IsFiniteSet(sentId'[d])
             /\ "remote" \notin tried'[d] => \A i \in Ids : <<"wire", i>> \notin sentId'[d]
             /\ pc'[d] \in {"idle", "route", "engine", "send"}
                   => \A i \in Ids : <<"req", i>> \notin sentId'[d]
             /\ answered'[d] + Count(link', d) <= Allowed(d)'
  <2>1. sentId'[d] = sentId[d] /\ tried'[d] = tried[d] /\ pc'[d] = pc[d] BY <1>1, <1>2
  <2>2. Allowed(d)' = Allowed(d) BY <2>1 DEF Allowed
  <2>3. Count(link', d) <= Count(link, d) /\ Count(link', d) \in Nat
    BY <1>2, CountNat, TallyTypes DEF One
  <2>4. answered'[d] + Count(link', d) <= Allowed(d)'
    BY <2>2, <2>3, TallyTypes DEF TallyInv
  <2>5. QED BY <2>1, <2>4 DEF TallyInv
<1>3. /\ IsFiniteSet(sentId'[c])
      /\ "remote" \notin tried'[c] => \A i \in Ids : <<"wire", i>> \notin sentId'[c]
      /\ pc'[c] \in {"idle", "route", "engine", "send"}
            => \A i \in Ids : <<"req", i>> \notin sentId'[c]
      /\ answered'[c] + Count(link', c) <= Allowed(c)'
  <2> DEFINE S == sentId[c]
             s == <<kind, id>>
  <2>1. IsFiniteSet(S) /\ s \notin S BY DEF TallyInv
  <2>2. sentId'[c] = S \cup {s} BY <1>1
  <2>3. "remote" \notin tried'[c] => \A i \in Ids : <<"wire", i>> \notin sentId'[c]
    BY <2>2, Zenon DEF TallyInv
  <2>4. pc'[c] \in {"idle", "route", "engine", "send"}
            => \A i \in Ids : <<"req", i>> \notin sentId'[c]
    BY <2>2, Zenon DEF TallyInv
  <2> HIDE DEF S, s
  <2>5. IsFiniteSet(S \cup {s}) /\ Cardinality(S \cup {s}) = Cardinality(S) + 1
    BY <2>1, FS_AddElement, Zenon
  <2>6. Allowed(c) + 1 <= Allowed(c)' /\ Allowed(c)' \in Nat
    <3> DEFINE x == Cardinality(S)
               y == Cardinality(S \cup {s})
    <3>1. x \in Nat BY <2>1, FS_CardinalityType
    <3>2. y = x + 1 BY <2>5
    <3>3. Allowed(c) = x + (IF "local" \in tried[c] THEN 1 ELSE 0) BY DEF Allowed, S
    <3>4. Allowed(c)' = y + (IF "local" \in tried'[c] THEN 1 ELSE 0) BY <2>2, Zenon DEF Allowed
    <3> HIDE DEF x, y
    <3>5. QED BY <3>1, <3>2, <3>3, <3>4
  <2>7. Count(link', c) <= Count(link, c) + 1 /\ Count(link', c) \in Nat
    BY CountNat DEF One
  <2>8. answered'[c] + Count(link', c) <= Allowed(c)'
    <3>1. answered[c] + Count(link, c) <= Allowed(c) BY DEF TallyInv
    <3>2. QED BY <2>6, <2>7, <3>1, TallyTypes
  <2>9. QED BY <2>2, <2>3, <2>4, <2>5, <2>8, Zenon
<1>4. QED BY <1>2, <1>3, Zenon DEF TallyInv

(* A new request of call c on the links.                                     *)
LEMMA RequestPushed ==
    ASSUME TypeOK, NEW c \in Calls, NEW id \in Ids, NEW n, NEW p
    PROVE  LET l == Push(link, n, p, APIREQ(id, c))
           IN  l \in Links /\ \A d \in Calls : Count(l, d) <= Count(link, d) + One(d = c)
<1> DEFINE msg == APIREQ(id, c)
<1>1. link \in Links /\ up \subseteq Peers BY Zenon DEF TypeOK, Links
<1>2. msg \in Messages BY DEF APIREQ, Messages
<1>3. \A d \in Calls : One(IsRequest(msg, d)) = One(d = c) BY DEF APIREQ, IsRequest, One
<1> HIDE DEF msg
<1>4. /\ Push(link, n, p, msg) \in Links
      /\ \A d \in Calls : Count(Push(link, n, p, msg), d)
                            <= Count(link, d) + One(IsRequest(msg, d))
  BY <1>1, <1>2, PushCount
<1>5. QED BY <1>3, <1>4 DEF msg

(* GetTime() * 1000000 + counter is an id.                                   *)
LEMMA NewId ==
    ASSUME TypeOK, NEW c \in Calls, NEW t \in clock..MaxClock
    PROVE  /\ WireId(t, counter[Home[c]].wire) \in Ids
           /\ WireId(t, counter[Home[c]].req) \in Ids
<1>1. clock \in Nat /\ MaxClock \in Nat /\ Second \in Nat /\ Home[c] \in Nodes
  <2>1. clock \in 1..MaxClock BY Zenon DEF TypeOK
  <2>2. QED BY <2>1, ForwardingAssumption
<1>2. counter[Home[c]].wire \in Nat /\ counter[Home[c]].req \in Nat
  BY <1>1, Zenon DEF TypeOK
<1>3. t \in Nat BY <1>1
<1>4. t * Second \in Nat BY <1>1, <1>3
<1>5. QED BY <1>2, <1>4 DEF WireId, Ids

(* Every step of p2pinference and of the backend router keeps TallyInv.        *)
LEMMA CallStepRuns ==
    ASSUME TypeOK, TallyInv, NEW c \in Calls, Caller(c) PROVE TallyInv'
<1>1. /\ pc \in [Calls -> {"idle", "route", "engine", "send", "wait", "done"}]
      /\ tried \in [Calls -> SUBSET {"local", "remote"}]
  BY Zenon DEF TypeOK
<1>2. CASE CallStarts(c) \/ EngineReturns(c) \/ BackendsExhausted(c)
           \/ CallReturns(c) \/ CallTimesOut(c)
  <2>1. UNCHANGED <<link, sentId, tried, answered>>
    BY <1>2, Zenon DEF CallStarts, EngineReturns, BackendsExhausted, CallReturns, CallTimesOut
  <2>2. PICK label : pc' = [pc EXCEPT ![c] = label] /\ (pc[c] = "wait" => label = "done")
    BY <1>2, Zenon DEF CallStarts, EngineReturns, BackendsExhausted, CallReturns, CallTimesOut
  <2>3. pc[c] # "done"
    BY <1>2, Zenon DEF CallStarts, EngineReturns, BackendsExhausted, CallReturns, CallTimesOut
  <2>4. /\ pc' = [pc EXCEPT ![c] = pc'[c]] /\ tried' = [tried EXCEPT ![c] = tried'[c]]
        /\ pc'[c] \in {"idle", "route", "engine", "send"}
              => pc[c] \in {"idle", "route", "engine", "send"}
        /\ tried[c] \subseteq tried'[c]
    BY <1>1, <2>1, <2>2, <2>3
  <2>5. QED BY <2>1, <2>4, CallRuns
<1>3. CASE LocalBackend(c)
  <2>1. UNCHANGED <<link, sentId>> /\ pc[c] = "route" /\ "local" \notin tried[c]
    BY <1>3 DEF LocalBackend
  <2>2. tried' = [tried EXCEPT ![c] = tried[c] \cup {"local"}]
    BY <1>3 DEF LocalBackend
  <2>3. \/ answered' = [answered EXCEPT ![c] = @ + 1] /\ pc' = [pc EXCEPT ![c] = "done"]
        \/ UNCHANGED <<pc, answered>>
    BY <1>3 DEF LocalBackend
  <2>4. /\ tried' = [tried EXCEPT ![c] = tried'[c]] /\ tried[c] \subseteq tried'[c]
        /\ "local" \in tried'[c] /\ pc' = [pc EXCEPT ![c] = pc'[c]]
    BY <1>1, <2>2, <2>3
  <2>5. QED BY <2>1, <2>3, <2>4, CallRuns
<1>4. CASE PeerGone(c) \/ NoEndpoint(c)
  <2>1. UNCHANGED <<link, sentId, pc, answered>> BY <1>4 DEF PeerGone, NoEndpoint
  <2>2. tried' = [tried EXCEPT ![c] = tried[c] \cup {"remote"}]
    BY <1>4 DEF PeerGone, NoEndpoint
  <2>3. /\ tried' = [tried EXCEPT ![c] = tried'[c]] /\ tried[c] \subseteq tried'[c]
        /\ pc' = [pc EXCEPT ![c] = pc'[c]]
    BY <1>1, <2>1, <2>2
  <2>4. QED BY <2>1, <2>3, CallRuns
<1>5. CASE RemoteBackend(c)
  <2> DEFINE n == Home[c]
  <2>1. PICK p \in Nodes, t \in clock..MaxClock :
          /\ link' = Push(link, n, p, APIREQ(WireId(t, counter[n].wire), c))
          /\ sentId' = [sentId EXCEPT ![c] = @ \cup {<<"wire", WireId(t, counter[n].wire)>>}]
    BY <1>5, Zenon DEF RemoteBackend
  <2> DEFINE id == WireId(t, counter[n].wire)
  <2>2. id \in Ids BY NewId
  <2>3. /\ pc[c] = "route" /\ "remote" \notin tried[c] /\ answered' = answered
        /\ tried' = [tried EXCEPT ![c] = tried[c] \cup {"remote"}]
        /\ pc' = [pc EXCEPT ![c] = "engine"]
    BY <1>5 DEF RemoteBackend
  <2>4. /\ tried' = [tried EXCEPT ![c] = tried'[c]] /\ tried[c] \subseteq tried'[c]
        /\ "remote" \in tried'[c] /\ pc' = [pc EXCEPT ![c] = pc'[c]]
    BY <1>1, <2>3
  <2>5. <<"wire", id>> \notin sentId[c] BY <2>2, <2>3 DEF TallyInv
  <2>6. link' \in Links /\ \A d \in Calls : Count(link', d) <= Count(link, d) + One(d = c)
    <3> HIDE DEF n, id
    <3>1. QED BY <2>1, <2>2, RequestPushed DEF id
  <2> HIDE DEF n, id
  <2>7. sentId' = [sentId EXCEPT ![c] = @ \cup {<<"wire", id>>}] BY <2>1 DEF id
  <2>8. QED BY <2>2, <2>3, <2>4, <2>5, <2>6, <2>7, CallSends, Zenon
<1>6. CASE SendInferenceRequest(c)
  <2> DEFINE n == Home[c]
             p == target[c]
  <2>1. PICK t \in clock..MaxClock :
          /\ \/ link' = Push(link, n, p, APIREQ(WireId(t, counter[n].req), c))
             \/ link' = link
          /\ sentId' = [sentId EXCEPT ![c] = @ \cup {<<"req", WireId(t, counter[n].req)>>}]
    BY <1>6, Zenon DEF SendInferenceRequest
  <2> DEFINE id == WireId(t, counter[n].req)
  <2>2. id \in Ids BY NewId
  <2>3. /\ pc[c] = "send" /\ answered' = answered /\ tried' = tried
        /\ pc' = [pc EXCEPT ![c] = "wait"]
    BY <1>6 DEF SendInferenceRequest
  <2>4. /\ tried' = [tried EXCEPT ![c] = tried'[c]] /\ tried[c] \subseteq tried'[c]
        /\ pc'[c] = "wait" /\ pc' = [pc EXCEPT ![c] = pc'[c]]
    BY <1>1, <2>3
  <2>5. <<"req", id>> \notin sentId[c] BY <2>2, <2>3 DEF TallyInv
  <2> HIDE DEF n, p, id
  <2>6. link' \in Links /\ \A d \in Calls : Count(link', d) <= Count(link, d) + One(d = c)
    <3>1. CASE link' = Push(link, n, p, APIREQ(id, c))
      BY <2>2, <3>1, RequestPushed
    <3>2. CASE link' = link
      <4>1. \A d \in Calls : Count(link, d) \in Nat /\ One(d = c) \in Nat
        BY TallyTypes DEF One
      <4>2. link \in Links BY Zenon DEF TypeOK, Links
      <4>3. \A d \in Calls : Count(link, d) <= Count(link, d) + One(d = c) BY <4>1
      <4>4. QED BY <3>2, <4>2, <4>3
    <3>3. QED BY <2>1, <3>1, <3>2 DEF id
  <2>7. sentId' = [sentId EXCEPT ![c] = @ \cup {<<"req", id>>}] BY <2>1 DEF id
  <2>8. QED BY <2>2, <2>3, <2>4, <2>5, <2>6, <2>7, CallSends, Zenon
<1>7. QED BY <1>2, <1>3, <1>4, <1>5, <1>6 DEF Caller

(* An answer is no request.                                                  *)
LEMMA AnswerPushed ==
    ASSUME TypeOK, NEW l \in Links, NEW id \in Ids, NEW a \in Answers, NEW n, NEW p,
           NEW d \in Calls
    PROVE  LET k == Push(l, n, p, APIRESP(id, a))
           IN  k \in Links /\ Count(k, d) \in Nat /\ Count(k, d) <= Count(l, d)
<1> DEFINE msg == APIRESP(id, a)
           k == Push(l, n, p, msg)
<1>1. up \subseteq Peers BY Zenon DEF TypeOK
<1>2. msg \in Messages BY DEF APIRESP, Messages
<1>3. One(IsRequest(msg, d)) = 0 BY DEF APIRESP, IsRequest, One
<1> HIDE DEF msg
<1>4. k \in Links /\ Count(k, d) <= Count(l, d) + One(IsRequest(msg, d))
  BY <1>1, <1>2, PushCount
<1> HIDE DEF k
<1>5. Count(k, d) \in Nat /\ Count(l, d) \in Nat BY <1>4, CountNat
<1>6. QED BY <1>3, <1>4, <1>5 DEF k, msg

(* The message a handler takes.                                              *)
LEMMA RequestTaken ==
    ASSUME TypeOK, NEW n, NEW m, Takes(n, m, "apireq")
    PROVE  LET req == Head(link[<<m, n>>])
           IN  /\ req \in Messages /\ req.id \in Ids /\ req.body \in Calls
               /\ Popped(n, m) \in Links
               /\ \A d \in Calls :
                     /\ IsRequest(req, d) <=> d = req.body
                     /\ Count(link, d) \in Nat
                     /\ Count(Popped(n, m), d) = Count(link, d) - One(d = req.body)
<1> DEFINE req == Head(link[<<m, n>>])
<1>1. link \in Links /\ up \subseteq Peers BY Zenon DEF TypeOK, Links
<1>2. req \in Messages /\ Popped(n, m) \in Links BY <1>1, PopCount
<1>3. req.type = "apireq" BY DEF Takes
<1>4. \A d \in Calls : Count(Popped(n, m), d) = Count(link, d) - One(IsRequest(req, d))
  BY <1>1, PopCount
<1> HIDE DEF req
<1>5. req.id \in Ids /\ req.body \in Calls BY <1>2, <1>3 DEF Messages
<1>6. \A d \in Calls : IsRequest(req, d) <=> d = req.body BY <1>3 DEF IsRequest
<1>7. \A d \in Calls : One(IsRequest(req, d)) = One(d = req.body) BY <1>6 DEF One
<1>8. QED BY <1>1, <1>2, <1>4, <1>5, <1>6, <1>7, CountNat, Zenon DEF req

(* A message handler answers or forwards only what it takes off a link.      *)
LEMMA HandlerRuns ==
    ASSUME TypeOK, TallyInv, NEW n \in Nodes, NEW m \in Nodes, MessageHandler(n, m)
    PROVE  TallyInv'
<1> DEFINE req == Head(link[<<m, n>>])
           popped == Popped(n, m)
<1>1. answered \in [Calls -> Nat] /\ link \in Links /\ up \subseteq Peers BY Zenon DEF TypeOK, Links
<1>2. UNCHANGED <<pc, tried, sentId>>
  BY Zenon DEF MessageHandler, RefuseAPIREQ, ServeAPIREQ, ForwardAPIREQ, HandleAPIRESP, callVars
<1>3. CASE RefuseAPIREQ(n, m)
  <2>1. Takes(n, m, "apireq") /\ answered' = answered
        /\ link' = Push(popped, n, m, APIRESP(req.id, "error"))
    BY <1>3, Zenon DEF RefuseAPIREQ
  <2>2. /\ req.id \in Ids /\ req.body \in Calls /\ popped \in Links
        /\ \A d \in Calls : /\ Count(link, d) \in Nat
                            /\ Count(popped, d) = Count(link, d) - One(d = req.body)
    BY <2>1, RequestTaken
  <2> HIDE DEF req, popped
  <2>3. ASSUME NEW d \in Calls
        PROVE  link' \in Links /\ Count(link', d) \in Nat /\ Count(link', d) <= Count(popped, d)
    BY <2>1, <2>2, AnswerPushed DEF Answers
  <2>4. ASSUME NEW d \in Calls PROVE answered'[d] + Count(link', d) <= answered[d] + Count(link, d)
    BY <1>1, <2>1, <2>2, <2>3 DEF One
  <2>5. link' \in Links BY <2>2, <2>3
  <2>6. QED BY <1>1, <1>2, <2>1, <2>4, <2>5, RunsStay, Zenon
<1>4. CASE ServeAPIREQ(n, m)
  <2>1. Takes(n, m, "apireq") /\ answered' = [answered EXCEPT ![req.body] = @ + 1]
        /\ link' = Push(popped, n, m, APIRESP(req.id, req.body))
    BY <1>4 DEF ServeAPIREQ
  <2>2. /\ req.id \in Ids /\ req.body \in Calls /\ popped \in Links
        /\ \A d \in Calls : /\ Count(link, d) \in Nat
                            /\ Count(popped, d) = Count(link, d) - One(d = req.body)
    BY <2>1, RequestTaken
  <2> HIDE DEF req, popped
  <2>3. ASSUME NEW d \in Calls
        PROVE  link' \in Links /\ Count(link', d) \in Nat /\ Count(link', d) <= Count(popped, d)
    BY <2>1, <2>2, AnswerPushed DEF Answers
  <2>4. answered' \in [Calls -> Nat] BY <1>1, <2>1, <2>2
  <2>5. ASSUME NEW d \in Calls PROVE answered'[d] + Count(link', d) <= answered[d] + Count(link, d)
    <3>1. answered'[d] = answered[d] + One(d = req.body) BY <1>1, <2>1, <2>2 DEF One
    <3>2. One(d = req.body) \in Nat /\ answered[d] \in Nat BY <1>1 DEF One
    <3>3. QED BY <2>2, <2>3, <3>1, <3>2
  <2>6. link' \in Links BY <2>2, <2>3
  <2>7. QED BY <1>2, <2>4, <2>5, <2>6, RunsStay, Zenon
<1>5. CASE ForwardAPIREQ(n, m)
  <2>1. Takes(n, m, "apireq") /\ answered' = answered BY <1>5, Zenon DEF ForwardAPIREQ
  <2>2. PICK p : link' = Push(popped, n, p, req) BY <1>5, Zenon DEF ForwardAPIREQ
  <2>3. /\ req \in Messages /\ popped \in Links
        /\ \A d \in Calls : /\ IsRequest(req, d) <=> d = req.body
                            /\ Count(link, d) \in Nat
                            /\ Count(popped, d) = Count(link, d) - One(d = req.body)
    BY <2>1, RequestTaken
  <2> HIDE DEF req, popped
  <2>4. link' \in Links BY <1>1, <2>2, <2>3, PushCount, Zenon
  <2>5. ASSUME NEW d \in Calls PROVE answered'[d] + Count(link', d) <= answered[d] + Count(link, d)
    <3>1. Count(link', d) <= Count(popped, d) + One(IsRequest(req, d))
      BY <1>1, <2>2, <2>3, PushCount
    <3>2. One(IsRequest(req, d)) = One(d = req.body) /\ One(d = req.body) \in Nat
      BY <2>3 DEF One
    <3>3. Count(link', d) \in Nat /\ answered[d] \in Nat BY <1>1, <2>4, CountNat
    <3>4. QED BY <2>1, <2>3, <3>1, <3>2, <3>3
  <2>6. QED BY <1>1, <1>2, <2>1, <2>4, <2>5, RunsStay, Zenon
<1>6. CASE HandleAPIRESP(n, m)
  <2>1. Takes(n, m, "apiresp") /\ answered' = answered /\ link' = popped
    BY <1>6 DEF HandleAPIRESP
  <2>2. link' \in Links BY <1>1, <2>1, PopCount, Zenon
  <2>3. ASSUME NEW d \in Calls PROVE answered'[d] + Count(link', d) <= answered[d] + Count(link, d)
    <3>1. Count(popped, d) = Count(link, d) - One(IsRequest(req, d))
      BY <1>1, <2>1, PopCount
    <3> HIDE DEF req, popped
    <3>2. One(IsRequest(req, d)) \in Nat BY DEF One
    <3>3. Count(link, d) \in Nat /\ answered[d] \in Nat BY <1>1, CountNat
    <3>4. QED BY <2>1, <3>1, <3>2, <3>3
  <2>4. QED BY <1>1, <1>2, <2>1, <2>2, <2>3, RunsStay, Zenon
<1>7. QED BY <1>3, <1>4, <1>5, <1>6, Zenon DEF MessageHandler

(* An empty connection carries no request.                                   *)
LEMMA EmptyRequests ==
    ASSUME NEW c PROVE <<>> \in Seq(Messages) /\ RequestsOn(<<>>, c) = 0
<1>1. {i \in DOMAIN <<>> : <<>>[i].type = "apireq" /\ <<>>[i].body = c} = {}
  OBVIOUS
<1>2. QED BY <1>1, FS_EmptySet DEF RequestsOn

(* A connection that is lost loses its requests.                             *)
LEMMA LinkLost ==
    ASSUME NEW l \in Links, NEW p \in Peers, NEW c
    PROVE  LET k == [l EXCEPT ![p] = <<>>]
           IN  k \in Links /\ Count(k, c) \in Nat /\ Count(k, c) <= Count(l, c)
<1> DEFINE s == <<>>
           k == [l EXCEPT ![p] = s]
<1>1. s \in Seq(Messages) /\ RequestsOn(s, c) = 0 BY EmptyRequests
<1> HIDE DEF s
<1>2. k \in Links BY <1>1 DEF Links
<1>3. Count(k, c) = Count(l, c) + RequestsOn(s, c) - RequestsOn(l[p], c)
  BY <1>1, CountChange
<1> HIDE DEF k
<1>4. RequestsOn(l[p], c) \in Nat /\ Count(l, c) \in Nat /\ Count(k, c) \in Nat
  BY <1>2, CountNat
<1>5. QED BY <1>1, <1>2, <1>3, <1>4 DEF k, s

(* A lost connection keeps TallyInv.                                           *)
LEMMA DisconnectRuns ==
    ASSUME TypeOK, TallyInv, NEW n \in Nodes, NEW m \in Nodes, Disconnect(n, m)
    PROVE  TallyInv'
<1>1. answered \in [Calls -> Nat] /\ link \in Links BY Zenon DEF TypeOK, Links
<1>2. UNCHANGED <<pc, tried, sentId, answered>> BY Zenon DEF Disconnect, callVars
<1> DEFINE p == <<n, m>>
           q == <<m, n>>
           k == [link EXCEPT ![p] = <<>>]
           l == [k EXCEPT ![q] = <<>>]
<1>3. p \in Peers /\ q \in Peers BY ForwardingAssumption, Zenon DEF Disconnect, TypeOK
<1>4. link' = l BY DEF Disconnect
<1>5. k \in Links BY <1>1, <1>3, EmptyRequests DEF Links
<1> HIDE DEF p, q
<1>6. \A d \in Calls : Count(k, d) \in Nat /\ Count(k, d) <= Count(link, d)
  BY <1>1, <1>3, LinkLost, Zenon
<1> HIDE DEF k
<1>7. l \in Links BY <1>3, <1>5, EmptyRequests DEF Links
<1>8. \A d \in Calls : Count(l, d) \in Nat /\ Count(l, d) <= Count(k, d)
  BY <1>3, <1>5, LinkLost
<1> HIDE DEF l
<1>9. ASSUME NEW d \in Calls PROVE answered'[d] + Count(link', d) <= answered[d] + Count(link, d)
  <2>1. answered[d] \in Nat /\ Count(link, d) \in Nat BY <1>1, CountNat
  <2>2. QED BY <1>2, <1>4, <1>6, <1>8, <2>1
<1>10. QED BY <1>1, <1>2, <1>4, <1>7, <1>9, RunsStay, Zenon

(* A handler that comes back from its wait sends an answer at most.          *)
LEMMA ForwardReturnsRuns ==
    ASSUME TypeOK, TallyInv, NEW n \in Nodes, ForwardReturns(n) PROVE TallyInv'
<1> DEFINE h == hand[n]
<1>1. answered \in [Calls -> Nat] /\ link \in Links BY Zenon DEF TypeOK, Links
<1>2. UNCHANGED <<pc, tried, sentId, answered>> BY DEF ForwardReturns, callVars
<1>3. h.id \in Ids
  <2>1. h \in {Idle} \cup [busy : {TRUE}, id : Ids, from : Nodes] BY Zenon DEF TypeOK
  <2>2. h.busy BY DEF ForwardReturns
  <2> HIDE DEF h
  <2>3. ASSUME NEW g, g.busy, g = [busy |-> FALSE] PROVE FALSE BY <2>3, Zenon
  <2>4. h \in [busy : {TRUE}, id : Ids, from : Nodes] BY <2>1, <2>2, <2>3, Zenon DEF Idle
  <2>5. QED BY <2>4, Zenon
<1>4. got[n] \in Answers \cup {"wait", "broken"} BY Zenon DEF TypeOK, Waiters
<1>5. \/ link' = link
      \/ \E a \in Answers : link' = Push(link, n, h.from, APIRESP(h.id, a))
  BY <1>4 DEF ForwardReturns, Answers
<1>6. link' \in Links
  <2>1. CASE link' = link BY <1>1, <2>1
  <2>2. ASSUME NEW a \in Answers, link' = Push(link, n, h.from, APIRESP(h.id, a))
        PROVE  link' \in Links
    <3> DEFINE msg == APIRESP(h.id, a)
    <3>1. msg \in Messages BY <1>3 DEF APIRESP, Messages
    <3>2. up \subseteq Peers BY Zenon DEF TypeOK
    <3> HIDE DEF h, msg
    <3>3. QED BY <1>1, <2>2, <3>1, <3>2, PushCount, Zenon DEF msg
  <2>3. QED BY <1>5, <2>1, <2>2
<1>7. ASSUME NEW d \in Calls PROVE answered'[d] + Count(link', d) <= answered[d] + Count(link, d)
  <2>1. answered[d] \in Nat /\ Count(link, d) \in Nat BY <1>1, CountNat
  <2>2. Count(link', d) \in Nat /\ Count(link', d) <= Count(link, d)
    <3> HIDE DEF h
    <3>1. CASE link' = link BY <2>1, <3>1
    <3>2. QED BY <1>1, <1>3, <1>5, <3>1, AnswerPushed
  <2>3. QED BY <1>2, <2>1, <2>2
<1>8. QED BY <1>1, <1>2, <1>6, <1>7, RunsStay, Zenon

(* TallyInv is inductive, relative to the types.                               *)
LEMMA TallyNext == TypeOK /\ TallyInv /\ [Next]_vars => TallyInv'
<1> SUFFICES ASSUME TypeOK, TallyInv, [Next]_vars PROVE TallyInv'
  BY Zenon
<1>1. CASE UNCHANGED vars BY <1>1 DEF vars, TallyInv, Count, Allowed
<1>2. CASE Next
  <2>1. ASSUME NEW c \in Calls, Caller(c) PROVE TallyInv' BY <2>1, CallStepRuns
  <2>2. ASSUME NEW n \in Nodes, NEW m \in Nodes, MessageHandler(n, m) PROVE TallyInv'
    BY <2>2, HandlerRuns
  <2>3. ASSUME NEW n \in Nodes, NEW m \in Nodes, Disconnect(n, m) PROVE TallyInv'
    BY <2>3, DisconnectRuns
  <2>4. ASSUME NEW n \in Nodes, ForwardReturns(n) PROVE TallyInv'
    BY <2>4, ForwardReturnsRuns
  <2>5. QED BY <1>2, <2>1, <2>2, <2>3, <2>4 DEF Next
<1>3. QED BY <1>1, <1>2

-----------------------------------------------------------------------------
(* The inductive invariant.                                                  *)

(* Call c has sent a request under this id.                                  *)
Sent(c, id) == \E s \in sentId[c] : s[2] = id

(* A message on its way: its id is larger than every key of the remote       *)
(* backend; what it asks for was sent, what it brings was run.               *)
GoodMessages ==
    {msg \in Messages :
        /\ msg.id >= Second
        /\ msg.body \in Calls => Sent(msg.body, msg.id)
        /\ msg.type = "apiresp" /\ msg.body \in Calls => answered[msg.body] > 0}

LinkInv == link \in [Peers -> Seq(GoodMessages)]

ProgressType ==
    /\ pc \in [Calls -> {"idle", "route", "engine", "send", "wait", "done"}]
    /\ target \in [Calls -> Nodes \cup {NoNode}]
    /\ tried \in [Calls -> SUBSET {"local", "remote"}]
    /\ result \in [Calls -> Answers \cup {"none", "no peer", "timeout", "broken"}]

NumberType ==
    /\ clock \in 1..MaxClock /\ up \subseteq Peers
    /\ answered \in [Calls -> Nat]
    /\ counter \in [Nodes -> [req : Nat, wire : Nat, key : Nat]]

CallType ==
    /\ ProgressType /\ NumberType
    /\ sentId \in [Calls -> SUBSET ({"wire", "req"} \X Ids)]

(* The ids of requests: larger than every key of the remote backend.         *)
WireIdSet == {id \in Ids : id >= Second}

TableType ==
    /\ hand \in [Nodes -> {Idle} \cup [busy : {TRUE}, id : Ids, from : Nodes]]
    /\ DOMAIN pending = Nodes
    /\ \A n \in Nodes : /\ DOMAIN pending[n] \subseteq WireIdSet
                        /\ Range(pending[n]) \subseteq Waiters
    /\ got \in [Waiters -> Answers \cup {"wait", "broken"}]

(* The calls that have tried the remote backend.                             *)
Remote == {c \in Calls : "remote" \in tried[c]}

(* The remote backend's keys count its calls, so they stay below every id.   *)
KeyInv ==
    /\ DOMAIN engine = Nodes
    /\ \A n \in Nodes : /\ DOMAIN engine[n] \subseteq 0..(Second - 1)
                        /\ Range(engine[n]) \subseteq Calls
                        /\ counter[n].key <= 1 + Cardinality(Remote)

TableInv ==
    /\ WaitersEntered
    /\ \A n \in Nodes : \A i, j \in DOMAIN pending[n] : pending[n][i] = pending[n][j] => i = j
    /\ \A c \in Calls : result[c] = "timeout" => pc[c] = "done"
    /\ \A c \in Calls : pc[c] = "engine" => got[c] = "wait"
    /\ \A n \in Nodes : got[n] \in {"wait", "broken"}

(* Call c may be given the answer d.                                         *)
Fits(c, d) == d \in Calls =>
    answered[d] > 0 /\ (d = c \/ \E s \in sentId[c], t \in sentId[d] : s[2] = t[2])

AnswerInv == \A c \in Calls : Fits(c, got[c]) /\ Fits(c, result[c])

ForwardingInv ==
    CallType /\ TableType /\ LinkInv /\ KeyInv /\ TableInv /\ AnswerInv
-----------------------------------------------------------------------------
(* A sequence over a set is one over every larger set.                       *)
LEMMA SeqGrows ==
    ASSUME NEW S, NEW T, S \subseteq T, NEW s \in Seq(S) PROVE s \in Seq(T)
OBVIOUS

(* What the inductive invariant says of the runs' properties.                *)
LEMMA InvImplies ==
    ForwardingInv => TypeOK /\ WaitersEntered /\ OwnAnswer
<1> SUFFICES ASSUME ForwardingInv
    PROVE  TypeOK /\ WaitersEntered /\ OwnAnswer
  BY Zenon
<1>1. TypeOK
  <2>1. link \in [Peers -> Seq(Messages)]
    <3>1. GoodMessages \subseteq Messages BY Zenon DEF GoodMessages
    <3>2. QED BY <3>1, SeqGrows DEF ForwardingInv, LinkInv
  <2>2. \A n \in Nodes : DOMAIN engine[n] \subseteq Ids /\ Range(engine[n]) \subseteq Calls
    BY ForwardingAssumption DEF ForwardingInv, KeyInv, Ids
  <2>3. \A n \in Nodes : DOMAIN pending[n] \subseteq Ids /\ Range(pending[n]) \subseteq Waiters
    BY DEF ForwardingInv, TableType, WireIdSet
  <2>4. QED BY <2>1, <2>2, <2>3, Zenon
        DEF ForwardingInv, CallType, ProgressType, NumberType, TableType, KeyInv, TypeOK
<1>2. WaitersEntered BY DEF ForwardingInv, TableInv
<1>3. OwnAnswer BY DEF ForwardingInv, AnswerInv, Fits, OwnAnswer
<1>4. QED BY <1>1, <1>2, <1>3

(* What the tables say: of a handler and of a call that wait, and of a       *)
(* single entry.                                                             *)
LEMMA HandlerEntered ==
    ASSUME TableInv, NEW k \in Nodes, hand[k].busy, got[k] = "wait"
    PROVE  hand[k].id \in DOMAIN pending[k] /\ pending[k][hand[k].id] = k
<1>1. \A n \in Nodes : hand[n].busy /\ got[n] = "wait" =>
          hand[n].id \in DOMAIN pending[n] /\ pending[n][hand[n].id] = n
  BY Zenon DEF TableInv, WaitersEntered
<1>2. QED BY <1>1, Zenon

(* A call that waits has an entry in the table of its node.                  *)
LEMMA CallEntered ==
    ASSUME TableInv, NEW d \in Calls, pc[d] = "wait", got[d] = "wait"
    PROVE  \E i \in DOMAIN pending[Home[d]] : pending[Home[d]][i] = d
<1>1. \A c \in Calls : pc[c] = "wait" /\ got[c] = "wait" =>
          c \in Range(pending[Home[c]])
  BY Zenon DEF TableInv, WaitersEntered
<1>2. d \in Range(pending[Home[d]]) BY <1>1, Zenon
<1>3. QED BY <1>2 DEF Range

(* Nobody is entered under two ids.                                          *)
LEMMA OnlyEntry ==
    ASSUME TableInv, NEW m \in Nodes, NEW i \in DOMAIN pending[m],
           NEW j \in DOMAIN pending[m], pending[m][i] = pending[m][j]
    PROVE  i = j
<1>1. \A n \in Nodes : \A h, k \in DOMAIN pending[n] :
          pending[n][h] = pending[n][k] => h = k
  BY Zenon DEF TableInv
<1>2. QED BY <1>1, Zenon

(* Every promise in a table belongs to a waiter.                             *)
LEMMA EntryWaits ==
    ASSUME TableType, NEW m \in Nodes, NEW i \in DOMAIN pending[m]
    PROVE  pending[m][i] \in Waiters
<1>1. Range(pending[m]) \subseteq Waiters BY Zenon DEF TableType
<1>2. pending[m][i] \in Range(pending[m]) BY DEF Range
<1>3. QED BY <1>1, <1>2, Zenon

(* An entry is that of its node's own handler, which waits for it, or of a   *)
(* call of its node, which waits or has timed out.                           *)
LEMMA OneEntry ==
    ASSUME TableInv, NEW m \in Nodes, NEW i \in DOMAIN pending[m]
    PROVE  IF pending[m][i] \in Nodes
           THEN pending[m][i] = m /\ hand[m].busy /\ hand[m].id = i /\ got[m] = "wait"
           ELSE /\ Home[pending[m][i]] = m /\ <<"req", i>> \in sentId[pending[m][i]]
                /\ \/ pc[pending[m][i]] = "wait" /\ got[pending[m][i]] = "wait"
                   \/ result[pending[m][i]] = "timeout"
<1>1. \A n \in Nodes : \A id \in DOMAIN pending[n] :
          LET w == pending[n][id] IN
          IF w \in Nodes
          THEN w = n /\ hand[n].busy /\ hand[n].id = id /\ got[n] = "wait"
          ELSE /\ Home[w] = n /\ <<"req", id>> \in sentId[w]
               /\ (pc[w] = "wait" /\ got[w] = "wait") \/ result[w] = "timeout"
  BY Zenon DEF TableInv, WaitersEntered
<1>2. QED BY <1>1, Zenon

(* The entry of a call.                                                      *)
LEMMA CallEntry ==
    ASSUME TableInv, NEW m \in Nodes, NEW i \in DOMAIN pending[m], pending[m][i] \in Calls
    PROVE  /\ Home[pending[m][i]] = m /\ <<"req", i>> \in sentId[pending[m][i]]
           /\ \/ pc[pending[m][i]] = "wait" /\ got[pending[m][i]] = "wait"
              \/ result[pending[m][i]] = "timeout"
<1>1. pending[m][i] \notin Nodes BY ForwardingAssumption
<1>2. QED BY <1>1, OneEntry, Zenon

(* The entry of a handler.                                                   *)
LEMMA NodeEntry ==
    ASSUME TableInv, NEW m \in Nodes, NEW i \in DOMAIN pending[m], pending[m][i] \in Nodes
    PROVE  pending[m][i] = m /\ hand[m].busy /\ hand[m].id = i /\ got[m] = "wait"
BY OneEntry, Zenon

(* The tables and the links are empty at first.                              *)
LEMMA InvInit == Init => ForwardingInv
<1> SUFFICES ASSUME Init PROVE ForwardingInv OBVIOUS
<1>1. CallType BY ForwardingAssumption DEF Init, CallType, ProgressType, NumberType, Ids
<1>2. TableType
  <2>1. \A n \in Nodes : pending[n] = <<>> BY DEF Init
  <2>2. DOMAIN <<>> = {} OBVIOUS
  <2>3. QED BY <2>1, <2>2 DEF Init, TableType, Range, Waiters, Answers
<1>3. LinkInv BY DEF Init, LinkInv
<1>4. KeyInv
  <2>1. Remote = {} BY DEF Init, Remote
  <2>2. Cardinality(Remote) = 0 BY <2>1, FS_EmptySet
  <2>3. \A n \in Nodes : engine[n] = <<>> /\ counter[n].key = 1 BY DEF Init
  <2>4. DOMAIN <<>> = {} OBVIOUS
  <2>5. QED BY <2>2, <2>3, <2>4 DEF Init, KeyInv, Range
<1>5. TableInv
  <2>1. \A n \in Nodes : pending[n] = <<>> /\ hand[n].busy = FALSE BY Zenon DEF Init, Idle
  <2>2. DOMAIN <<>> = {} OBVIOUS
  <2>3. WaitersEntered BY <2>1, <2>2, Zenon DEF Init, WaitersEntered
  <2>4. QED BY <2>1, <2>2, <2>3, Zenon DEF Init, TableInv, Waiters
<1>6. AnswerInv BY NamesAssumption, Zenon DEF Init, AnswerInv, Fits, Waiters
<1>7. QED BY <1>1, <1>2, <1>3, <1>4, <1>5, <1>6 DEF ForwardingInv
-----------------------------------------------------------------------------
(* Messages on the links.                                                    *)

(* A push keeps the type of the links.                                       *)
LEMMA PushType ==
    ASSUME NEW S, NEW l \in [Peers -> Seq(S)], up \subseteq Peers,
           NEW n, NEW m, NEW msg \in S
    PROVE  Push(l, n, m, msg) \in [Peers -> Seq(S)]
<1>1. CASE <<n, m>> \in up
  <2>1. Append(l[<<n, m>>], msg) \in Seq(S) BY <1>1
  <2>2. QED BY <1>1, <2>1 DEF Push
<1>2. CASE <<n, m>> \notin up BY <1>2 DEF Push
<1>3. QED BY <1>1, <1>2

(* The type of the message a handler takes and of the links it leaves.       *)
LEMMA TakesType ==
    ASSUME NEW S, link \in [Peers -> Seq(S)], up \subseteq Peers,
           NEW n, NEW m, NEW type, Takes(n, m, type)
    PROVE  /\ Popped(n, m) \in [Peers -> Seq(S)]
           /\ Head(link[<<m, n>>]) \in S /\ Head(link[<<m, n>>]).type = type
           /\ ~hand[n].busy /\ <<m, n>> \in Peers
<1>1. <<m, n>> \in Peers /\ link[<<m, n>>] # <<>> BY DEF Takes
<1>2. Tail(link[<<m, n>>]) \in Seq(S) /\ Head(link[<<m, n>>]) \in S BY <1>1
<1>3. QED BY <1>1, <1>2 DEF Takes, Popped

(* Good messages stay good: ids are only added, and prompts only run.        *)
Grows ==
    /\ \A c \in Calls : sentId[c] \subseteq sentId'[c]
    /\ \A c \in Calls : answered[c] > 0 => answered'[c] > 0

(* A good message stays good.                                                *)
LEMMA GoodStays == ASSUME Grows PROVE GoodMessages \subseteq GoodMessages'
BY DEF Grows, GoodMessages, Sent

(* Links of good messages stay links of good messages.                       *)
LEMMA LinkStays ==
    ASSUME Grows, NEW l \in [Peers -> Seq(GoodMessages)]
    PROVE  l \in [Peers -> Seq(GoodMessages')]
BY GoodStays, SeqGrows

(* A call keeps what it has, takes what its future holds, or is told nothing *)
(* that is an answer.                                                        *)
LEMMA AnswersStay ==
    ASSUME AnswerInv, Grows,
           \A c \in Calls : got'[c] = got[c] \/ got'[c] \notin Calls,
           \A c \in Calls : \/ result'[c] \in {result[c], got[c]}
                            \/ result'[c] \notin Calls
    PROVE  AnswerInv'
<1> SUFFICES ASSUME NEW c \in Calls
    PROVE  Fits(c, got[c])' /\ Fits(c, result[c])'
  BY DEF AnswerInv
<1>1. Fits(c, got[c]) /\ Fits(c, result[c]) BY DEF AnswerInv
<1>2. Fits(c, got[c])' BY <1>1 DEF Fits, Grows
<1>3. Fits(c, result[c])' BY <1>1, Zenon DEF Fits, Grows
<1>4. QED BY <1>2, <1>3, Zenon

(* The tables when no entry is made and no future is touched, by a step of   *)
(* call c that is not waiting and will not be.                               *)
LEMMA QuietTables ==
    ASSUME TableType, TableInv, UNCHANGED <<hand, pending, got, sentId>>,
           NEW c \in Calls, CallType, pc' = [pc EXCEPT ![c] = pc'[c]],
           \A d \in Calls \ {c} : result'[d] = result[d],
           pc[c] \notin {"wait", "done"}, pc'[c] \notin {"wait", "engine"},
           result'[c] # "timeout"
    PROVE  TableInv'
<1>1. /\ \A d \in Calls \ {c} : pc'[d] = pc[d]
      /\ result[c] # "timeout"
  BY ZenonT(30) DEF TableInv, CallType, ProgressType
<1>2. WaitersEntered'
  BY <1>1, ForwardingAssumption DEF TableInv, WaitersEntered, TableType, Waiters, Range
<1>3. QED BY <1>1, <1>2, Zenon DEF TableInv

(* The remote backend's keys.                                                *)

(* Fewer calls than there are ids to a second have tried the remote backend. *)
LEMMA RemoteSize ==
    ASSUME \A c \in Calls : tried[c] \subseteq tried'[c]
    PROVE  /\ Cardinality(Remote) \in Nat /\ Cardinality(Remote') \in Nat
           /\ Cardinality(Remote) <= Cardinality(Remote')
           /\ Cardinality(Remote') < Second /\ IsFiniteSet(Remote)
<1>1. IsFiniteSet(Calls) /\ Cardinality(Calls) < Second BY ForwardingAssumption
<1>2. Remote \subseteq Remote' /\ Remote' \subseteq Calls BY DEF Remote
<1>3. IsFiniteSet(Remote') /\ Cardinality(Remote') <= Cardinality(Calls)
  BY <1>1, <1>2, FS_Subset, Zenon
<1>4. IsFiniteSet(Remote) /\ Cardinality(Remote) <= Cardinality(Remote')
  BY <1>2, <1>3, FS_Subset, Zenon
<1>5. /\ Cardinality(Remote) \in Nat /\ Cardinality(Remote') \in Nat
      /\ Cardinality(Calls) \in Nat
  BY <1>1, <1>3, <1>4, FS_CardinalityType, ZenonT(30)
<1>6. QED BY <1>1, <1>3, <1>4, <1>5, ForwardingAssumption

(* The keys when the remote backend is not tried.                            *)
LEMMA KeysStay ==
    ASSUME CallType, KeyInv, \A c \in Calls : tried[c] \subseteq tried'[c],
           DOMAIN engine' = Nodes,
           \A n \in Nodes : /\ DOMAIN engine'[n] \subseteq DOMAIN engine[n]
                            /\ \A k \in DOMAIN engine'[n] : engine'[n][k] = engine[n][k]
                            /\ counter'[n].key = counter[n].key
    PROVE  KeyInv'
<1>1. \A n \in Nodes : counter[n].key \in Nat BY DEF CallType, NumberType
<1>2. \A n \in Nodes : counter'[n].key <= 1 + Cardinality(Remote')
  BY <1>1, RemoteSize DEF KeyInv
<1>3. \A n \in Nodes : /\ DOMAIN engine'[n] \subseteq 0..(Second - 1)
                       /\ Range(engine'[n]) \subseteq Calls
  BY DEF KeyInv, Range
<1>4. QED BY <1>2, <1>3 DEF KeyInv

-----------------------------------------------------------------------------
(* The steps of a call.                                                      *)

(* A step that sends nothing and leaves the futures alone.                   *)
LEMMA QuietCall ==
    ASSUME ForwardingInv, NEW c \in Calls, CallType', KeyInv', Grows,
           UNCHANGED <<link, hand, pending, got, sentId>>,
           pc' = [pc EXCEPT ![c] = pc'[c]],
           \A d \in Calls \ {c} : result'[d] = result[d],
           pc[c] \notin {"wait", "done"}, pc'[c] \notin {"wait", "engine"},
           result'[c] # "timeout",
           Fits(c, result[c])'
    PROVE  ForwardingInv'
<1>1. CallType /\ TableType /\ LinkInv /\ KeyInv /\ TableInv /\ AnswerInv
  BY DEF ForwardingInv
<1>2. TableType' BY <1>1, Zenon DEF TableType
<1>3. LinkInv' BY <1>1, LinkStays DEF LinkInv
<1>4. TableInv' BY <1>1, QuietTables
<1>5. AnswerInv'
  <2> SUFFICES ASSUME NEW d \in Calls
      PROVE  Fits(d, got[d])' /\ Fits(d, result[d])'
    BY Zenon DEF AnswerInv
  <2>1. Fits(d, got[d]) /\ Fits(d, result[d]) BY <1>1, Zenon DEF AnswerInv
  <2>2. Fits(d, got[d])' BY <2>1 DEF Fits, Grows
  <2>3. CASE d = c BY <2>2, <2>3
  <2>4. CASE d # c
    <3>1. result'[d] = result[d] BY <2>4, Zenon
    <3>2. Fits(d, result[d])' BY <2>1, <3>1 DEF Fits, Grows
    <3>3. QED BY <2>2, <3>2
  <2>5. QED BY <2>3, <2>4
<1>6. QED BY <1>2, <1>3, <1>4, <1>5, Zenon DEF ForwardingInv

(* The steps of a call that touch neither a table nor a link.                *)
LEMMA QuietSteps ==
    ASSUME ForwardingInv, NEW c \in Calls,
           CallStarts(c) \/ LocalBackend(c) \/ NoEndpoint(c) \/ BackendsExhausted(c)
    PROVE  ForwardingInv'
<1> USE DEF CallStarts, LocalBackend, NoEndpoint, BackendsExhausted
<1>1. CallType /\ KeyInv /\ AnswerInv /\ ProgressType /\ NumberType
  BY Zenon DEF ForwardingInv, CallType
<1>2. UNCHANGED <<link, hand, pending, got, sentId, engine, counter, clock, up>>
  BY Zenon
<1>3. /\ pc' = [pc EXCEPT ![c] = pc'[c]] /\ pc'[c] \in {"route", "send", "done"}
      /\ pc[c] \notin {"wait", "done"}
  BY <1>1, Zenon DEF ProgressType
<1>4. \/ result' = result /\ UNCHANGED answered
      \/ result' = [result EXCEPT ![c] = "no peer"] /\ UNCHANGED answered
      \/ result' = [result EXCEPT ![c] = c] /\ answered' = [answered EXCEPT ![c] = @ + 1]
  BY <1>1, Zenon DEF ProgressType
<1>5. \/ tried' = tried
      \/ \E b \in {"local", "remote"} : tried' = [tried EXCEPT ![c] = @ \cup {b}]
  BY Zenon
<1>6. target' \in [Calls -> Nodes \cup {NoNode}] BY <1>1, Zenon DEF ProgressType
<1> USE DEF Answers
<1> HIDE DEF CallStarts, LocalBackend, NoEndpoint, BackendsExhausted
<1>7. ProgressType'
  <2>1. result' \in [Calls -> Answers \cup {"none", "no peer", "timeout", "broken"}]
    <3>1. result \in [Calls -> Answers \cup {"none", "no peer", "timeout", "broken"}]
      BY <1>1, Zenon DEF ProgressType
    <3>2. \/ result' = result \/ result' = [result EXCEPT ![c] = "no peer"]
          \/ result' = [result EXCEPT ![c] = c]
      BY <1>4, Zenon
    <3>3. QED BY <3>1, <3>2, Zenon
  <2>2. tried' \in [Calls -> SUBSET {"local", "remote"}]
    <3>1. tried \in [Calls -> SUBSET {"local", "remote"}] BY <1>1, Zenon DEF ProgressType
    <3>2. QED BY <1>5, <3>1
  <2>3. pc' \in [Calls -> {"idle", "route", "engine", "send", "wait", "done"}]
    BY <1>1, <1>3, Zenon DEF ProgressType
  <2>4. QED BY <1>6, <2>1, <2>2, <2>3, Zenon DEF ProgressType
<1>8. NumberType'
  <2>1. answered \in [Calls -> Nat] BY <1>1 DEF NumberType
  <2>2. answered' = answered \/ answered' = [answered EXCEPT ![c] = @ + 1] BY <1>4, Zenon
  <2>3. answered' \in [Calls -> Nat] BY <2>1, <2>2
  <2>4. QED BY <1>1, <1>2, <2>3 DEF NumberType
<1>9. CallType' BY <1>1, <1>2, <1>7, <1>8, Zenon DEF CallType
<1>10. Grows
  <2>1. answered \in [Calls -> Nat] BY <1>1 DEF NumberType
  <2>2. answered' = answered \/ answered' = [answered EXCEPT ![c] = @ + 1] BY <1>4, Zenon
  <2>3. \A d \in Calls : answered[d] > 0 => answered'[d] > 0 BY <2>1, <2>2
  <2>4. QED BY <1>2, <2>3 DEF Grows
<1>11. KeyInv'
  <2>1. \A d \in Calls : tried[d] \subseteq tried'[d] BY <1>1, <1>5, ZenonT(30) DEF ProgressType
  <2>2. DOMAIN engine' = Nodes BY <1>1, <1>2 DEF KeyInv
  <2>3. QED BY <1>1, <1>2, <2>1, <2>2, KeysStay, Zenon
<1>12. \A d \in Calls \ {c} : result'[d] = result[d] BY <1>1, <1>4, Zenon DEF ProgressType
<1>13. result'[c] # "timeout"
  <2>1. result[c] # "timeout" BY <1>3 DEF ForwardingInv, TableInv
  <2>2. result'[c] \in {result[c], c, "no peer"} BY <1>1, <1>4, Zenon DEF ProgressType
  <2>3. QED BY <2>1, <2>2, NamesAssumption, Zenon
<1>14. Fits(c, result[c])'
  <2>1. Fits(c, result[c]) BY <1>1, Zenon DEF AnswerInv
  <2>2. CASE result'[c] = result[c] BY <1>10, <2>1, <2>2, Zenon DEF Fits, Grows
  <2>3. CASE result'[c] = "no peer" BY <2>3, NamesAssumption, Zenon DEF Fits
  <2>4. CASE result'[c] = c /\ answered' = [answered EXCEPT ![c] = @ + 1]
    <3>1. answered \in [Calls -> Nat] BY <1>1 DEF NumberType
    <3>2. answered'[c] > 0 BY <2>4, <3>1
    <3>3. QED BY <2>4, <3>2, Zenon DEF Fits
  <2>5. QED BY <1>1, <1>4, <2>2, <2>3, <2>4, Zenon DEF ProgressType
<1>15. QED
  BY <1>2, <1>3, <1>9, <1>10, <1>11, <1>12, <1>13, <1>14, QuietCall, ZenonT(30)

(* The wait in the SendCallback ends.                                        *)
LEMMA EngineReturnsStep ==
    ASSUME ForwardingInv, NEW c \in Calls, EngineReturns(c) PROVE ForwardingInv'
<1>1. CallType /\ KeyInv /\ AnswerInv /\ TableInv /\ ProgressType /\ NumberType
  BY DEF ForwardingInv, CallType
<1>2. got[c] = "wait" /\ got[c] \notin Calls
  BY <1>1, NamesAssumption, Zenon DEF TableInv, EngineReturns
<1>3. /\ pc' = [pc EXCEPT ![c] = "route"] /\ result' = result /\ pc[c] = "engine"
  BY <1>1, <1>2, Zenon DEF ProgressType, EngineReturns
<1>4. Grows /\ UNCHANGED <<tried, counter, link, hand, pending, got, sentId>>
  BY DEF Grows, EngineReturns
<1>5. CallType'
  <2>1. ProgressType' BY <1>1, <1>3, Zenon DEF ProgressType, EngineReturns
  <2>2. NumberType' BY <1>1, Zenon DEF NumberType, EngineReturns
  <2>3. QED BY <1>1, <1>4, <2>1, <2>2 DEF CallType
<1>6. KeyInv'
  <2>1. engine' = [engine EXCEPT ![Home[c]] =
                     RestrictValues(@, LAMBDA w : w # c)] /\ Home[c] \in Nodes
    BY ForwardingAssumption, Zenon DEF EngineReturns
  <2>2. /\ DOMAIN engine' = Nodes
        /\ \A n \in Nodes : /\ DOMAIN engine'[n] \subseteq DOMAIN engine[n]
                            /\ \A k \in DOMAIN engine'[n] : engine'[n][k] = engine[n][k]
    BY <1>1, <2>1, Zenon DEF KeyInv, RestrictValues, Restrict
  <2>3. QED BY <1>1, <1>4, <2>2, KeysStay, Zenon
<1>7. result'[c] # "timeout" BY <1>1, <1>3, Zenon DEF TableInv
<1>8. Fits(c, result[c])' BY <1>1, <1>3, <1>4 DEF AnswerInv, Fits, Grows
<1>9. pc'[c] = "route" /\ pc' = [pc EXCEPT ![c] = pc'[c]] BY <1>1, <1>3, Zenon DEF ProgressType
<1>10. QED BY <1>3, <1>4, <1>5, <1>6, <1>7, <1>8, <1>9, QuietCall, Zenon

(* p2pinference returns or throws.                                           *)
LEMMA EndSteps ==
    ASSUME ForwardingInv, NEW c \in Calls, CallReturns(c) \/ CallTimesOut(c)
    PROVE  ForwardingInv'
<1>1. CallType /\ TableType /\ LinkInv /\ KeyInv /\ TableInv /\ AnswerInv
      /\ ProgressType /\ NumberType
  BY ZenonT(30) DEF ForwardingInv, CallType
<1>2. UNCHANGED <<clock, up, link, hand, pending, engine, got, counter,
                  target, tried, sentId, answered>>
  BY DEF CallReturns, CallTimesOut
<1>3. pc[c] = "wait" /\ pc' = [pc EXCEPT ![c] = "done"]
  BY DEF CallReturns, CallTimesOut
<1>4. \/ got[c] # "wait" /\ result' = [result EXCEPT ![c] = got[c]]
      \/ got[c] = "wait" /\ result' = [result EXCEPT ![c] = "timeout"]
  BY DEF CallReturns, CallTimesOut
<1>5. c \in Waiters /\ got[c] \in Answers \cup {"wait", "broken"}
  BY <1>1 DEF TableType, Waiters
<1>6. CallType'
  <2>1. result' \in [Calls -> Answers \cup {"none", "no peer", "timeout", "broken"}]
    <3>1. result \in [Calls -> Answers \cup {"none", "no peer", "timeout", "broken"}]
      BY <1>1, Zenon DEF ProgressType
    <3>2. QED BY <1>4, <1>5, <3>1, Zenon
  <2>2. ProgressType' BY <1>1, <1>2, <1>3, <2>1, Zenon DEF ProgressType
  <2>3. NumberType' BY <1>1, <1>2, Zenon DEF NumberType
  <2>4. QED BY <1>1, <1>2, <2>2, <2>3 DEF CallType
<1>7. TableType' BY <1>1, <1>2, Zenon DEF TableType
<1>8. Grows BY <1>2 DEF Grows
<1>9. LinkInv' BY <1>1, <1>2, <1>8, LinkStays DEF LinkInv
<1>10. KeyInv'
  <2>1. DOMAIN engine' = Nodes BY <1>1, <1>2, Zenon DEF KeyInv
  <2>2. QED BY <1>1, <1>2, <2>1, KeysStay
<1>11. /\ \A d \in Calls \ {c} : result'[d] = result[d] /\ pc'[d] = pc[d]
       /\ pc'[c] = "done"
       /\ got[c] # "wait" => result'[c] = got[c]
       /\ got[c] = "wait" => result'[c] = "timeout"
  BY <1>1, <1>3, <1>4, Zenon DEF ProgressType
<1>12. TableInv'
  <2>1. result[c] # "timeout" BY <1>1, <1>3, ZenonT(30) DEF TableInv
  <2>2. WaitersEntered'
    <3>1. /\ \A n \in Nodes : hand[n].busy /\ got[n] = "wait" =>
                hand[n].id \in DOMAIN pending[n] /\ pending[n][hand[n].id] = n
          /\ \A d \in Calls : pc[d] = "wait" /\ got[d] = "wait" =>
                d \in Range(pending[Home[d]])
      BY <1>1, ZenonT(30) DEF TableInv, WaitersEntered
    <3>2. ASSUME NEW n \in Nodes, NEW id \in DOMAIN pending[n]
          PROVE  LET w == pending[n][id] IN
                 IF w \in Nodes
                 THEN w = n /\ hand[n].busy /\ hand[n].id = id /\ got[n] = "wait"
                 ELSE /\ Home[w] = n /\ <<"req", id>> \in sentId[w]
                      /\ (pc'[w] = "wait" /\ got[w] = "wait") \/ result'[w] = "timeout"
      <4>1. pending[n][id] \in Waiters BY <1>1 DEF TableType, Range
      <4>2. QED BY <1>1, <1>11, <2>1, <4>1 DEF TableInv, WaitersEntered, Waiters
    <3>3. QED BY <1>2, <1>11, <3>1, <3>2 DEF WaitersEntered
  <2>3. QED BY <1>1, <1>2, <1>11, <2>2, Zenon DEF TableInv
<1>13. AnswerInv'
  BY <1>1, <1>2, <1>8, <1>11, NamesAssumption, AnswersStay, Zenon
<1>14. QED BY <1>6, <1>7, <1>9, <1>10, <1>12, <1>13, Zenon DEF ForwardingInv

(* The ids on the wire.                                                      *)
LEMMA WireIds ==
    ASSUME NEW t \in Nat \ {0}, NEW k \in Nat
    PROVE  WireId(t, k) \in Ids /\ WireId(t, k) >= Second
<1>1. Second \in Nat BY ForwardingAssumption
<1>2. t * Second \in Nat /\ t * Second >= Second BY <1>1
<1>3. QED BY <1>1, <1>2 DEF WireId, Ids

(* A call notes the id it sends under, then pushes the request.              *)
LEMMA Sends ==
    ASSUME CallType, LinkInv, NEW c \in Calls, NEW kind \in {"wire", "req"},
           NEW id \in Ids, id >= Second, answered' = answered, NEW n, NEW p,
           sentId' = [sentId EXCEPT ![c] = @ \cup {<<kind, id>>}]
    PROVE  /\ Grows
           /\ sentId' \in [Calls -> SUBSET ({"wire", "req"} \X Ids)]
           /\ <<kind, id>> \in sentId'[c]
           /\ Push(link, n, p, APIREQ(id, c)) \in [Peers -> Seq(GoodMessages')]
<1>1. sentId \in [Calls -> SUBSET ({"wire", "req"} \X Ids)] BY DEF CallType
<1>2. /\ \A d \in Calls : sentId[d] \subseteq sentId'[d]
      /\ <<kind, id>> \in sentId'[c]
      /\ sentId' \in [Calls -> SUBSET ({"wire", "req"} \X Ids)]
  BY <1>1
<1>3. Grows BY <1>2 DEF Grows
<1>4. APIREQ(id, c) \in GoodMessages'
  <2>1. \E s \in sentId'[c] : s[2] = id BY <1>2, Zenon
  <2>2. APIREQ(id, c) \in Messages BY DEF APIREQ, Messages
  <2>3. /\ APIREQ(id, c).id = id /\ APIREQ(id, c).body = c
        /\ APIREQ(id, c).type = "apireq"
    BY DEF APIREQ
  <2>4. QED BY <2>1, <2>2, <2>3 DEF GoodMessages, Sent
<1>5. link \in [Peers -> Seq(GoodMessages')] BY <1>3, LinkStays DEF LinkInv
<1>6. up \subseteq Peers BY DEF CallType, NumberType
<1>7. QED BY <1>2, <1>3, <1>4, <1>5, <1>6, PushType, Zenon

(* A call that tries the remote backend uses up one key.                     *)
LEMMA KeyTaken ==
    ASSUME CallType, KeyInv, NEW c \in Calls, NEW n \in Nodes, "remote" \notin tried[c],
           tried' = [tried EXCEPT ![c] = @ \cup {"remote"}],
           counter' = [counter EXCEPT ![n].wire = @ + 1, ![n].key = @ + 1]
    PROVE  /\ counter[n].key \in 0..(Second - 1) /\ counter[n].wire \in Nat
           /\ counter' \in [Nodes -> [req : Nat, wire : Nat, key : Nat]]
           /\ tried' \in [Calls -> SUBSET {"local", "remote"}]
           /\ \A m \in Nodes : counter'[m].key <= 1 + Cardinality(Remote')
<1> DEFINE k == counter[n].key
<1>1. counter \in [Nodes -> [req : Nat, wire : Nat, key : Nat]]
  BY DEF CallType, NumberType
<1>2. /\ k \in Nat /\ counter[n].wire \in Nat
      /\ counter' \in [Nodes -> [req : Nat, wire : Nat, key : Nat]]
      /\ counter'[n].key = k + 1
      /\ \A m \in Nodes \ {n} : counter'[m].key = counter[m].key
  BY <1>1
<1> HIDE DEF k
<1>3. tried \in [Calls -> SUBSET {"local", "remote"}] BY Zenon DEF CallType, ProgressType
<1>4. \A d \in Calls : tried[d] \subseteq tried'[d] BY <1>3
<1>5. Remote' = Remote \cup {c} /\ c \notin Remote BY <1>3 DEF Remote
<1>6. Cardinality(Remote') = Cardinality(Remote) + 1
  BY <1>4, <1>5, RemoteSize, FS_AddElement, Zenon
<1>7. /\ Cardinality(Remote) \in Nat /\ Cardinality(Remote) + 1 < Second
      /\ Second \in Nat
  BY <1>4, <1>6, RemoteSize, ForwardingAssumption
<1>8. k <= 1 + Cardinality(Remote) BY DEF KeyInv, k
<1>9. k \in 0..(Second - 1) BY <1>2, <1>7, <1>8
<1>10. \A m \in Nodes : counter'[m].key <= 1 + Cardinality(Remote')
  <2>1. \A m \in Nodes : counter[m].key \in Nat /\ counter[m].key <= 1 + Cardinality(Remote)
    BY <1>1 DEF KeyInv
  <2>2. QED BY <1>2, <1>6, <1>7, <1>8, <2>1
<1>11. tried' \in [Calls -> SUBSET {"local", "remote"}] BY <1>3
<1>12. QED BY <1>2, <1>9, <1>10, <1>11 DEF k

(* The remote backend finds its peer gone.                                   *)
LEMMA PeerGoneStep ==
    ASSUME ForwardingInv, NEW c \in Calls, PeerGone(c) PROVE ForwardingInv'
<1>1. CallType /\ KeyInv /\ AnswerInv /\ TableInv /\ ProgressType /\ NumberType
  BY DEF ForwardingInv, CallType
<1>2. /\ pc[c] = "route" /\ "remote" \notin tried[c] /\ Home[c] \in Nodes
      /\ tried' = [tried EXCEPT ![c] = @ \cup {"remote"}]
      /\ counter' = [counter EXCEPT ![Home[c]].wire = @ + 1, ![Home[c]].key = @ + 1]
      /\ UNCHANGED <<clock, up, link, hand, pending, engine, got, pc, target,
                     sentId, result, answered>>
  BY ForwardingAssumption, Zenon DEF PeerGone
<1>3. /\ counter' \in [Nodes -> [req : Nat, wire : Nat, key : Nat]]
      /\ tried' \in [Calls -> SUBSET {"local", "remote"}]
      /\ \A m \in Nodes : counter'[m].key <= 1 + Cardinality(Remote')
  BY <1>1, <1>2, KeyTaken, Zenon
<1>4. CallType'
  <2>1. ProgressType' BY <1>1, <1>2, <1>3, Zenon DEF ProgressType
  <2>2. NumberType' BY <1>1, <1>2, <1>3 DEF NumberType
  <2>3. QED BY <1>1, <1>2, <2>1, <2>2 DEF CallType
<1>5. KeyInv' BY <1>1, <1>2, <1>3 DEF KeyInv
<1>6. Grows BY <1>2 DEF Grows
<1>7. pc' = [pc EXCEPT ![c] = pc'[c]] /\ pc'[c] = "route" BY <1>1, <1>2, Zenon DEF ProgressType
<1>8. result'[c] # "timeout" BY <1>1, <1>2 DEF TableInv
<1>9. Fits(c, result[c])' BY <1>1, <1>2, <1>6 DEF AnswerInv, Fits, Grows
<1>10. QED BY <1>2, <1>4, <1>5, <1>6, <1>7, <1>8, <1>9, QuietCall, Zenon

(* The remote backend sends, and keeps its promise under a key.              *)
LEMMA RemoteBackendStep ==
    ASSUME ForwardingInv, NEW c \in Calls, RemoteBackend(c) PROVE ForwardingInv'
<1> DEFINE n == Home[c]
           k == counter[n].key
<1>1. CallType /\ TableType /\ LinkInv /\ KeyInv /\ TableInv /\ AnswerInv
      /\ ProgressType /\ NumberType
  BY DEF ForwardingInv, CallType
<1>2. n \in Nodes BY ForwardingAssumption
<1>3. PICK p \in Nodes, t \in clock..MaxClock :
         /\ clock' = t
         /\ link' = Push(link, n, p, APIREQ(WireId(t, counter[n].wire), c))
         /\ sentId' = [sentId EXCEPT ![c] = @ \cup {<<"wire", WireId(t, counter[n].wire)>>}]
  BY Zenon DEF RemoteBackend
<1>4. /\ pc[c] = "route" /\ "remote" \notin tried[c]
      /\ pc' = [pc EXCEPT ![c] = "engine"] /\ got' = [got EXCEPT ![c] = "wait"]
      /\ tried' = [tried EXCEPT ![c] = @ \cup {"remote"}]
      /\ engine' = [engine EXCEPT ![n] = With(@, k, c)]
      /\ counter' = [counter EXCEPT ![n].wire = @ + 1, ![n].key = @ + 1]
      /\ UNCHANGED <<up, hand, pending, target, result, answered>>
  BY DEF RemoteBackend
<1>5. counter \in [Nodes -> [req : Nat, wire : Nat, key : Nat]] BY <1>1 DEF NumberType
<1>6. /\ counter[n].wire \in Nat
      /\ counter' \in [Nodes -> [req : Nat, wire : Nat, key : Nat]]
  BY <1>2, <1>4, <1>5
<1> DEFINE id == WireId(t, counter[n].wire)
<1> HIDE DEF n, k
<1>7. clock' \in 1..MaxClock /\ t \in Nat \ {0}
  <2>1. clock \in 1..MaxClock BY <1>1 DEF NumberType
  <2>2. clock' = t BY <1>3
  <2>3. QED BY <2>1, <2>2, ForwardingAssumption
<1>8. id \in Ids /\ id >= Second BY <1>6, <1>7, WireIds
<1> HIDE DEF id
<1>9. /\ Grows
      /\ sentId' \in [Calls -> SUBSET ({"wire", "req"} \X Ids)]
      /\ link' \in [Peers -> Seq(GoodMessages')]
  <2>1. /\ link' = Push(link, n, p, APIREQ(id, c))
        /\ sentId' = [sentId EXCEPT ![c] = @ \cup {<<"wire", id>>}]
    BY <1>3 DEF id
  <2>2. QED BY <1>1, <1>4, <1>8, <2>1, Sends, Zenon
<1>10. CallType'
  <2>1. tried' \in [Calls -> SUBSET {"local", "remote"}]
    <3>1. tried \in [Calls -> SUBSET {"local", "remote"}] BY <1>1, Zenon DEF ProgressType
    <3>2. QED BY <1>4, <3>1
  <2>2. ProgressType' BY <1>1, <1>4, <2>1, Zenon DEF ProgressType
  <2>3. NumberType' BY <1>1, <1>4, <1>6, <1>7 DEF NumberType
  <2>4. QED BY <1>9, <2>2, <2>3 DEF CallType
<1>11. TableType' BY <1>1, <1>4, Zenon DEF TableType
<1>12. LinkInv' BY <1>9 DEF LinkInv
<1>13. KeyInv'
  <2>1. /\ k \in 0..(Second - 1)
        /\ \A m \in Nodes : counter'[m].key <= 1 + Cardinality(Remote')
    BY <1>1, <1>2, <1>4, KeyTaken, Zenon DEF k
  <2>2. /\ DOMAIN engine' = Nodes
        /\ \A m \in Nodes : /\ DOMAIN engine'[m] \subseteq 0..(Second - 1)
                            /\ Range(engine'[m]) \subseteq Calls
    BY <1>1, <1>2, <1>4, <2>1, ZenonT(40) DEF KeyInv, With, Range
  <2>3. QED BY <2>1, <2>2 DEF KeyInv
<1>14. /\ got'[c] = "wait" /\ pc'[c] = "engine" /\ c \in Waiters
       /\ \A d \in Calls \ {c} : pc'[d] = pc[d]
       /\ \A w \in Waiters \ {c} : got'[w] = got[w]
  BY <1>1, <1>4, Zenon DEF ProgressType, TableType, Waiters
<1>15. result[c] # "timeout" BY <1>1, <1>4 DEF TableInv
<1>16. TableInv'
  <2>1. c \notin Nodes /\ Nodes \subseteq Waiters /\ Calls \subseteq Waiters
    BY ForwardingAssumption, Zenon DEF Waiters
  <2>2. WaitersEntered'
    <3>1. ASSUME NEW m \in Nodes, NEW i \in DOMAIN pending[m]
          PROVE  pending[m][i] \in Waiters \ {c}
      <4>1. pc[c] = "route" BY <1>4
      <4>2. pending[m][i] \in Waiters BY <1>1, EntryWaits, Zenon
      <4>3. SUFFICES ASSUME c = pending[m][i] PROVE FALSE BY <4>2
      <4>4. pending[m][i] \in Calls BY <4>3
      <4>5. pc[pending[m][i]] = "wait" \/ result[pending[m][i]] = "timeout"
        BY <1>1, <4>4, CallEntry, Zenon
      <4>6. QED BY <1>15, <4>1, <4>3, <4>5, Zenon
    <3>2. \A m \in Nodes : hand'[m].busy /\ got'[m] = "wait" =>
             hand'[m].id \in DOMAIN pending'[m] /\ pending'[m][hand'[m].id] = m
      BY <1>1, <1>4, <1>14, <2>1, Zenon DEF TableInv, WaitersEntered
    <3>3. ASSUME NEW d \in Calls, pc'[d] = "wait", got'[d] = "wait"
          PROVE  d \in Range(pending'[Home[d]])
      <4>1. d # c BY <1>14, <3>3, Zenon
      <4>2. pc[d] = "wait" /\ got[d] = "wait" BY <1>14, <2>1, <3>3, <4>1, Zenon
      <4>3. \E i \in DOMAIN pending[Home[d]] : pending[Home[d]][i] = d
        BY <1>1, <4>2, CallEntered, Zenon
      <4>4. pending' = pending BY <1>4, ZenonT(30)
      <4>5. QED BY <4>3, <4>4, Zenon DEF Range
    <3>4. ASSUME NEW m \in Nodes, NEW i \in DOMAIN pending[m]
          PROVE  LET w == pending[m][i] IN
                 IF w \in Nodes
                 THEN w = m /\ hand[m].busy /\ hand[m].id = i /\ got'[m] = "wait"
                 ELSE /\ Home[w] = m /\ <<"req", i>> \in sentId'[w]
                      /\ (pc'[w] = "wait" /\ got'[w] = "wait") \/ result[w] = "timeout"
      BY <1>1, <1>9, <1>14, <2>1, <3>1 DEF TableInv, WaitersEntered, Grows, Waiters
    <3>5. QED BY <1>4, <3>2, <3>3, <3>4 DEF WaitersEntered
  <2>3. QED BY <1>1, <1>4, <1>14, <2>1, <2>2, ZenonT(30) DEF TableInv
<1>17. AnswerInv'
  <2>1. \A d \in Calls : got'[d] = got[d] \/ got'[d] \notin Calls
    BY <1>14, NamesAssumption, Zenon DEF Waiters
  <2>2. QED BY <1>1, <1>4, <1>9, <2>1, AnswersStay, Zenon
<1>18. QED BY <1>10, <1>11, <1>12, <1>13, <1>16, <1>17, Zenon DEF ForwardingInv

-----------------------------------------------------------------------------
(* A waiter enters its promise under an id, and takes it out again when the  *)
(* peer is gone; whoever was there is told that its promise is broken.       *)
Enter(n, id, w, v) ==
    /\ got' = Entered(n, id, w, v)
    /\ pending' = [pending EXCEPT ![n] = IF v = "wait" THEN With(@, id, w)
                                                       ELSE Without(@, id)]

(* The tables and the waiters still agree after that.                        *)
LEMMA Enters ==
    ASSUME CallType, TableType, TableInv, Grows, NEW n \in Nodes, NEW w \in Waiters,
           NEW id \in Ids, NEW v \in {"wait", "error"},
           \A m \in Nodes : \A i \in DOMAIN pending[m] : pending[m][i] # w,
           Enter(n, id, w, v),
           \A m \in Nodes \ {w} : hand'[m] = hand[m],
           \A d \in Calls \ {w} : pc'[d] = pc[d], result' = result,
           w \in Nodes => w = n /\ hand'[n].busy /\ hand'[n].id = id /\ v = "wait",
           w \in Calls => /\ Home[w] = n /\ <<"req", id>> \in sentId'[w]
                          /\ pc'[w] = "wait" /\ result[w] # "timeout"
    PROVE  TableInv'
<1>1. /\ Nodes \subseteq Waiters /\ Calls \subseteq Waiters /\ Nodes \cap Calls = {}
      /\ \A x \in Waiters : x \in Nodes <=> x \notin Calls
  BY ForwardingAssumption, Zenon DEF Waiters
<1>2. \A m \in Nodes : \A i \in DOMAIN pending[m] : pending[m][i] \in Waiters
  BY EntryWaits, Zenon
<1>3. /\ got'[w] = v
      /\ \A x \in Waiters \ {w} :
            \/ got'[x] = got[x]
            \/ got'[x] = "broken" /\ id \in DOMAIN pending[n] /\ x = pending[n][id]
      /\ \A x \in Waiters \ {w} :
            id \in DOMAIN pending[n] /\ x = pending[n][id] /\ Waiting(x) => got'[x] = "broken"
  BY Zenon DEF Enter, Entered
<1>4. /\ \A m \in Nodes \ {n} : pending'[m] = pending[m]
      /\ DOMAIN pending' = Nodes
      /\ v = "wait" => /\ DOMAIN pending'[n] = DOMAIN pending[n] \cup {id}
                       /\ pending'[n][id] = w
      /\ v # "wait" => DOMAIN pending'[n] = DOMAIN pending[n] \ {id}
      /\ \A i \in DOMAIN pending[n] \ {id} : pending'[n][i] = pending[n][i]
  BY Zenon DEF TableType, Enter, With, Without, Restrict
<1>4a. \A i \in DOMAIN pending[n] \ {id} :
          i \in DOMAIN pending'[n] /\ pending'[n][i] = pending[n][i]
  BY <1>4, Zenon
<1>5. ASSUME NEW m \in Nodes, hand'[m].busy, got'[m] = "wait"
      PROVE  hand'[m].id \in DOMAIN pending'[m] /\ pending'[m][hand'[m].id] = m
  <2>1. CASE m = w
    <3>1. m = n /\ hand'[n].id = id /\ v = "wait" BY <2>1, Zenon
    <3>2. id \in DOMAIN pending'[n] /\ pending'[n][id] = w BY <1>4, <3>1, Zenon
    <3>3. QED BY <2>1, <3>1, <3>2, Zenon
  <2>2. CASE m # w
    <3>1. hand'[m] = hand[m] /\ got[m] = "wait" BY <1>1, <1>3, <1>5, <2>2, Zenon
    <3>2. hand[m].id \in DOMAIN pending[m] /\ pending[m][hand[m].id] = m
      BY <1>5, <3>1, HandlerEntered, Zenon
    <3>3. CASE m # n BY <1>4, <3>1, <3>2, <3>3, Zenon
    <3>4. CASE m = n
      <4>1. hand[n].id # id BY <1>1, <1>3, <1>5, <2>2, <3>1, <3>2, <3>4, ZenonT(30) DEF Waiting
      <4>2. hand[n].id \in DOMAIN pending[n] \ {id} BY <3>2, <3>4, <4>1, Zenon
      <4>3. hand[n].id \in DOMAIN pending'[n] /\ pending'[n][hand[n].id] = n
        BY <1>4a, <3>2, <3>4, <4>2, Zenon
      <4>4. QED BY <3>1, <3>4, <4>3, Zenon
    <3>5. QED BY <3>3, <3>4, Zenon
  <2>3. QED BY <2>1, <2>2, Zenon
<1>6. ASSUME NEW d \in Calls, pc'[d] = "wait", got'[d] = "wait"
      PROVE  d \in Range(pending'[Home[d]])
  <2>1. CASE d = w
    <3>1. v = "wait" /\ Home[d] = n BY <1>3, <1>6, <2>1, Zenon
    <3>2. id \in DOMAIN pending'[n] /\ pending'[n][id] = d BY <1>4, <2>1, <3>1, Zenon
    <3>3. QED BY <3>1, <3>2, Zenon DEF Range
  <2>2. CASE d # w
    <3>1. pc[d] = "wait" /\ got[d] = "wait" BY <1>1, <1>3, <1>6, <2>2, Zenon
    <3>2. PICK i \in DOMAIN pending[Home[d]] : pending[Home[d]][i] = d
      BY <3>1, CallEntered, Zenon
    <3>3. Home[d] \in Nodes BY ForwardingAssumption, Zenon
    <3>4. CASE Home[d] # n
      <4>1. pending'[Home[d]] = pending[Home[d]] BY <1>4, <3>3, <3>4, Zenon
      <4>2. QED BY <3>2, <4>1, Zenon DEF Range
    <3>5. CASE Home[d] = n
      <4>1. i # id BY <1>1, <1>3, <1>6, <2>2, <3>1, <3>2, <3>5, ZenonT(30) DEF Waiting
      <4>2. i \in DOMAIN pending'[n] /\ pending'[n][i] = d BY <1>4, <3>2, <3>5, <4>1, Zenon
      <4>3. QED BY <3>5, <4>2, Zenon DEF Range
    <3>6. QED BY <3>4, <3>5, Zenon
  <2>3. QED BY <2>1, <2>2, Zenon
<1>7. ASSUME NEW m \in Nodes, NEW i \in DOMAIN pending'[m]
      PROVE  LET x == pending'[m][i] IN
             IF x \in Nodes
             THEN x = m /\ hand'[m].busy /\ hand'[m].id = i /\ got'[m] = "wait"
             ELSE /\ Home[x] = m /\ <<"req", i>> \in sentId'[x]
                  /\ (pc'[x] = "wait" /\ got'[x] = "wait") \/ result'[x] = "timeout"
  <2>1. CASE m = n /\ i = id
    <3>1. v = "wait" /\ pending'[m][i] = w BY <1>4, <2>1, Zenon
    <3>2. got'[w] = "wait" BY <1>3, <3>1, Zenon
    <3>3. CASE w \in Nodes
      <4>1. w = n /\ hand'[n].busy /\ hand'[n].id = id BY <3>3, Zenon
      <4>2. QED BY <2>1, <3>1, <3>2, <3>3, <4>1, Zenon
    <3>4. CASE w \in Calls
      <4>1. Home[w] = n /\ <<"req", id>> \in sentId'[w] /\ pc'[w] = "wait" BY <3>4, Zenon
      <4>2. w \notin Nodes BY <1>1, <3>4, Zenon
      <4>3. QED BY <2>1, <3>1, <3>2, <4>1, <4>2, Zenon
    <3>5. QED BY <3>3, <3>4, Zenon DEF Waiters
  <2>2. CASE ~(m = n /\ i = id)
    <3>1. i \in DOMAIN pending[m] /\ pending'[m][i] = pending[m][i]
      <4>1. CASE m # n BY <1>4, <4>1, Zenon
      <4>2. CASE m = n
        <5>1. i # id /\ i \in DOMAIN pending'[n] BY <2>2, <4>2, Zenon
        <5>2. i \in DOMAIN pending[n] \ {id}
          <6>1. CASE v = "wait" BY <1>4, <5>1, <6>1, Zenon
          <6>2. CASE v # "wait" BY <1>4, <5>1, <6>2, ZenonT(30)
          <6>3. QED BY <6>1, <6>2, Zenon
        <5>3. QED BY <1>4, <4>2, <5>2, Zenon
      <4>3. QED BY <4>1, <4>2, Zenon
    <3> DEFINE x == pending[m][i]
    <3>2. x \in Waiters \ {w} BY <1>2, <3>1, ZenonT(30)
    <3>3. got'[x] = got[x]
      <4>1. SUFFICES ASSUME id \in DOMAIN pending[n], x = pending[n][id] PROVE FALSE
        BY <1>3, <3>2, Zenon
      <4>2. m = n
        <5>1. CASE x \in Nodes
          <6>1. x = m BY <3>1, <5>1, NodeEntry, Zenon
          <6>2. pending[n][id] \in Nodes BY <4>1, <5>1
          <6>3. pending[n][id] = n BY <4>1, <6>2, NodeEntry, Zenon
          <6>4. QED BY <4>1, <6>1, <6>3, Zenon
        <5>2. CASE x \in Calls
          <6>1. Home[x] = m BY <3>1, <5>2, CallEntry, Zenon
          <6>2. pending[n][id] \in Calls BY <4>1, <5>2
          <6>3. Home[pending[n][id]] = n BY <4>1, <6>2, CallEntry, Zenon
          <6>4. QED BY <4>1, <6>1, <6>3
        <5>3. QED BY <1>1, <3>2, <5>1, <5>2, Zenon
      <4>3. i = id BY <3>1, <4>1, <4>2, OnlyEntry, ZenonT(30)
      <4>4. QED BY <2>2, <4>2, <4>3
    <3>4. CASE x \in Nodes
      <4>1. x = m /\ hand[m].busy /\ hand[m].id = i /\ got[m] = "wait"
        BY <3>1, <3>4, NodeEntry, Zenon
      <4>2. hand'[m] = hand[m] BY <3>2, <4>1, Zenon
      <4>3. got'[m] = "wait" BY <3>3, <4>1, Zenon
      <4>4. QED BY <3>1, <4>1, <4>2, <4>3
    <3>5. CASE x \in Calls
      <4>1. /\ Home[x] = m /\ <<"req", i>> \in sentId[x]
            /\ (pc[x] = "wait" /\ got[x] = "wait") \/ result[x] = "timeout"
        BY <3>1, <3>5, CallEntry, ZenonT(30)
      <4>2. pc'[x] = pc[x] /\ result'[x] = result[x] BY <3>2, <3>5, Zenon
      <4>3. <<"req", i>> \in sentId'[x] BY <3>5, <4>1, Zenon DEF Grows
      <4>4. x \notin Nodes BY <1>1, <3>5, Zenon
      <4>5. QED BY <3>1, <3>3, <4>1, <4>2, <4>3, <4>4, Zenon
    <3>6. QED BY <1>1, <3>2, <3>4, <3>5, Zenon
  <2>3. QED BY <2>1, <2>2, ZenonT(30)
<1>8. WaitersEntered' BY <1>5, <1>6, <1>7, Zenon DEF WaitersEntered
<1>9. ASSUME NEW m \in Nodes, NEW i \in DOMAIN pending'[m], NEW j \in DOMAIN pending'[m],
             pending'[m][i] = pending'[m][j]
      PROVE  i = j
  <2>1. CASE m # n
    <3>1. pending'[m] = pending[m] BY <1>4, <2>1, Zenon
    <3>2. QED BY <1>9, <3>1, OnlyEntry, Zenon
  <2>2. CASE m = n
    <3>1. ASSUME NEW h \in DOMAIN pending'[n], h # id
          PROVE  h \in DOMAIN pending[n] /\ pending'[n][h] = pending[n][h] /\ pending[n][h] # w
      BY <1>4, <3>1, ZenonT(30)
    <3>2. id \in DOMAIN pending'[n] => pending'[n][id] = w BY <1>4, Zenon
    <3>3. CASE i = id \/ j = id
      <4>1. pending'[n][i] = w /\ pending'[n][j] = w BY <1>9, <2>2, <3>2, <3>3, Zenon
      <4>2. \A h \in DOMAIN pending'[n] : h # id => pending'[n][h] # w BY <3>1, Zenon
      <4>3. QED BY <1>9, <2>2, <4>1, <4>2, Zenon
    <3>4. CASE i # id /\ j # id
      <4>1. /\ i \in DOMAIN pending[n] /\ pending'[n][i] = pending[n][i]
            /\ j \in DOMAIN pending[n] /\ pending'[n][j] = pending[n][j]
        BY <1>9, <2>2, <3>1, <3>4, Zenon
      <4>2. QED BY <1>9, <2>2, <4>1, OnlyEntry, Zenon
    <3>5. QED BY <3>3, <3>4, Zenon
  <2>3. QED BY <2>1, <2>2, Zenon
<1>10. ASSUME NEW d \in Calls
       PROVE  /\ result'[d] = "timeout" => pc'[d] = "done"
              /\ pc'[d] = "engine" => got'[d] = "wait"
  <2>1. CASE d = w BY <2>1, Zenon
  <2>2. CASE d # w
    <3>1. pc'[d] = pc[d] BY <2>2, Zenon
    <3>2. pc[d] = "engine" => got'[d] = got[d]
      <4>1. SUFFICES ASSUME pc[d] = "engine", id \in DOMAIN pending[n], d = pending[n][id]
                     PROVE  FALSE
        BY <1>1, <1>3, <2>2, ZenonT(30)
      <4>2. pending[n][id] \in Calls BY <4>1
      <4>3. pc[pending[n][id]] = "wait" \/ result[pending[n][id]] = "timeout"
        BY <4>1, <4>2, CallEntry, Zenon
      <4>4. QED BY <4>1, <4>3, Zenon DEF TableInv
    <3>3. QED BY <3>1, <3>2, Zenon DEF TableInv
  <2>3. QED BY <2>1, <2>2, Zenon
<1>11. \A m \in Nodes : got'[m] \in {"wait", "broken"}
  BY <1>1, <1>3, Zenon DEF TableInv
<1>12. QED BY <1>8, <1>9, <1>10, <1>11, Zenon DEF TableInv

(* The types of the tables after that.                                       *)
LEMMA EnteredType ==
    ASSUME TableType, NEW n \in Nodes, NEW w \in Waiters, NEW id \in WireIdSet,
           NEW v \in {"wait", "error"}, got' = Entered(n, id, w, v),
           pending' = [pending EXCEPT ![n] = IF v = "wait" THEN With(@, id, w)
                                                           ELSE Without(@, id)],
           hand' \in [Nodes -> {Idle} \cup [busy : {TRUE}, id : Ids, from : Nodes]]
    PROVE  TableType'
<1>1. got' \in [Waiters -> Answers \cup {"wait", "broken"}]
  BY DEF TableType, Entered, Answers
<1>2. /\ DOMAIN pending' = Nodes
      /\ \A m \in Nodes \ {n} : pending'[m] = pending[m]
      /\ pending'[n] = IF v = "wait" THEN With(pending[n], id, w)
                                     ELSE Without(pending[n], id)
  BY DEF TableType
<1>3. DOMAIN pending[n] \subseteq WireIdSet /\ Range(pending[n]) \subseteq Waiters
  BY DEF TableType
<1>4. DOMAIN pending'[n] \subseteq WireIdSet /\ Range(pending'[n]) \subseteq Waiters
  <2>1. CASE v = "wait"
    <3>1. pending'[n] = [i \in DOMAIN pending[n] \cup {id} |->
                            IF i = id THEN w ELSE pending[n][i]]
      BY <1>2, <2>1, Zenon DEF With
    <3>2. QED BY <1>3, <3>1 DEF Range
  <2>2. CASE v # "wait"
    <3>1. pending'[n] = [i \in DOMAIN pending[n] \ {id} |-> pending[n][i]]
      BY <1>2, <2>2 DEF Without, Restrict
    <3>2. QED BY <1>3, <3>1 DEF Range
  <2>3. QED BY <2>1, <2>2, Zenon
<1>5. QED BY <1>1, <1>2, <1>4, Zenon DEF TableType

(* SendInferenceRequest.                                                     *)
LEMMA SendStep ==
    ASSUME ForwardingInv, NEW c \in Calls, SendInferenceRequest(c) PROVE ForwardingInv'
<1> DEFINE n == Home[c]
           p == target[c]
<1>1. CallType /\ TableType /\ LinkInv /\ KeyInv /\ TableInv /\ AnswerInv
      /\ ProgressType /\ NumberType
  BY DEF ForwardingInv, CallType
<1>2. n \in Nodes /\ c \in Waiters /\ c \notin Nodes
  BY ForwardingAssumption, Zenon DEF Waiters
<1>3. PICK t \in clock..MaxClock :
         LET id == WireId(t, counter[n].req) IN
         /\ clock' = t
         /\ sentId' = [sentId EXCEPT ![c] = @ \cup {<<"req", id>>}]
         /\ \/ /\ pending' = [pending EXCEPT ![n] = With(@, id, c)]
               /\ got' = Entered(n, id, c, "wait")
               /\ link' = Push(link, n, p, APIREQ(id, c))
            \/ /\ pending' = [pending EXCEPT ![n] = Without(@, id)]
               /\ got' = Entered(n, id, c, "error")
               /\ UNCHANGED link
  BY Zenon DEF SendInferenceRequest
<1>4. /\ pc[c] = "send" /\ pc' = [pc EXCEPT ![c] = "wait"]
      /\ counter' = [counter EXCEPT ![n].req = @ + 1]
      /\ UNCHANGED <<up, hand, engine, target, tried, result, answered>>
  BY DEF SendInferenceRequest
<1>5. counter \in [Nodes -> [req : Nat, wire : Nat, key : Nat]] BY <1>1 DEF NumberType
<1>6. /\ counter[n].req \in Nat
      /\ counter' \in [Nodes -> [req : Nat, wire : Nat, key : Nat]]
      /\ \A m \in Nodes : counter'[m].key = counter[m].key
  BY <1>2, <1>4, <1>5
<1> DEFINE id == WireId(t, counter[n].req)
<1>7. clock' \in 1..MaxClock /\ t \in Nat \ {0}
  <2>1. clock \in 1..MaxClock BY <1>1 DEF NumberType
  <2>2. clock' = t BY <1>3, Zenon
  <2>3. QED BY <2>1, <2>2, ForwardingAssumption
<1>8. PICK v \in {"wait", "error"} :
         /\ pending' = [pending EXCEPT ![n] = IF v = "wait" THEN With(@, id, c)
                                                            ELSE Without(@, id)]
         /\ got' = Entered(n, id, c, v)
         /\ link' \in {link, Push(link, n, p, APIREQ(id, c))}
         /\ sentId' = [sentId EXCEPT ![c] = @ \cup {<<"req", id>>}]
  BY <1>3, Zenon
<1> HIDE DEF n, p
<1>9. id \in Ids /\ id >= Second /\ id \in WireIdSet
  BY <1>6, <1>7, WireIds, Zenon DEF WireIdSet
<1> HIDE DEF id
<1>10. /\ Grows /\ <<"req", id>> \in sentId'[c]
       /\ sentId' \in [Calls -> SUBSET ({"wire", "req"} \X Ids)]
       /\ Push(link, n, p, APIREQ(id, c)) \in [Peers -> Seq(GoodMessages')]
  BY <1>1, <1>4, <1>8, <1>9, Sends, Zenon
<1>11. CallType'
  <2>1. ProgressType' BY <1>1, <1>4, Zenon DEF ProgressType
  <2>2. NumberType' BY <1>1, <1>4, <1>6, <1>7 DEF NumberType
  <2>3. QED BY <1>10, <2>1, <2>2 DEF CallType
<1>12. TableType'
  <2>1. hand' \in [Nodes -> {Idle} \cup [busy : {TRUE}, id : Ids, from : Nodes]]
    BY <1>1, <1>4, Zenon DEF TableType
  <2>2. QED BY <1>1, <1>2, <1>8, <1>9, <2>1, EnteredType, Zenon
<1>13. LinkInv'
  <2>1. link \in [Peers -> Seq(GoodMessages')] BY <1>1, <1>10, LinkStays, Zenon DEF LinkInv
  <2>2. QED BY <1>8, <1>10, <2>1 DEF LinkInv
<1>14. KeyInv'
  <2>1. DOMAIN engine' = Nodes BY <1>1, <1>4 DEF KeyInv
  <2>2. QED BY <1>1, <1>4, <1>6, <2>1, KeysStay
<1>15. result[c] # "timeout" /\ pc[c] = "send" BY <1>1, <1>4 DEF TableInv
<1>16. TableInv'
  <2>1. ASSUME NEW m \in Nodes, NEW i \in DOMAIN pending[m] PROVE pending[m][i] # c
    <3>1. SUFFICES ASSUME c = pending[m][i] PROVE FALSE OBVIOUS
    <3>2. pending[m][i] \in Calls BY <3>1
    <3>3. pc[pending[m][i]] = "wait" \/ result[pending[m][i]] = "timeout"
      BY <1>1, <3>2, CallEntry, Zenon
    <3>4. QED BY <1>15, <3>1, <3>3, Zenon
  <2>2. /\ pc'[c] = "wait" /\ \A d \in Calls \ {c} : pc'[d] = pc[d]
    BY <1>1, <1>4, Zenon DEF ProgressType
  <2>3. \A m \in Nodes \ {c} : hand'[m] = hand[m] BY <1>4
  <2>4. result' = result /\ Home[c] = n BY <1>4 DEF n
  <2>5. QED BY <1>1, <1>2, <1>8, <1>9, <1>10, <1>15, <2>1, <2>2, <2>3, <2>4, Enters, ZenonT(30) DEF Enter
<1>17. AnswerInv'
  <2>1. \A d \in Calls : got'[d] = got[d] \/ got'[d] \notin Calls
    <3>1. \A d \in Calls : got'[d] \in {got[d], v, "broken"} BY <1>8 DEF Entered, Waiters
    <3>2. QED BY <3>1, NamesAssumption, Zenon
  <2>2. QED BY <1>1, <1>4, <1>10, <2>1, AnswersStay, Zenon
<1>18. QED BY <1>11, <1>12, <1>13, <1>14, <1>16, <1>17, Zenon DEF ForwardingInv

-----------------------------------------------------------------------------
(* The steps of a message handler.                                           *)

(* A step that touches nothing but the links.                                *)
LEMMA LinkStep ==
    ASSUME ForwardingInv, UNCHANGED <<clock, hand, pending, engine, got, counter, callVars>>,
           up' \subseteq Peers, answered' \in [Calls -> Nat], Grows,
           link' \in [Peers -> Seq(GoodMessages')]
    PROVE  ForwardingInv'
<1>1. CallType /\ TableType /\ KeyInv /\ TableInv /\ AnswerInv
      /\ ProgressType /\ NumberType
  BY DEF ForwardingInv, CallType
<1>2. UNCHANGED <<pc, target, tried, sentId, result>> BY DEF callVars
<1>3. CallType'
  <2>1. ProgressType' BY <1>1, <1>2, Zenon DEF ProgressType
  <2>2. NumberType' BY <1>1, Zenon DEF NumberType
  <2>3. QED BY <1>1, <1>2, <2>1, <2>2, Zenon DEF CallType
<1>4. TableType' BY <1>1, Zenon DEF TableType
<1>5. LinkInv' BY DEF LinkInv
<1>6. KeyInv'
  <2>1. DOMAIN engine' = Nodes BY <1>1 DEF KeyInv
  <2>2. QED BY <1>1, <1>2, <2>1, KeysStay
<1>7. TableInv'
  <2>1. WaitersEntered' BY <1>1, <1>2 DEF TableInv, WaitersEntered
  <2>2. QED BY <1>1, <1>2, <2>1, ZenonT(30) DEF TableInv
<1>8. AnswerInv' BY <1>1, <1>2, AnswersStay, Zenon
<1>9. QED BY <1>3, <1>4, <1>5, <1>6, <1>7, <1>8, Zenon DEF ForwardingInv

(* What an error, or the answer of a miner that ran the prompt, looks like.  *)
LEMMA GoodAnswer ==
    ASSUME NEW id \in Ids, id >= Second, NEW a \in Answers,
           a \in Calls => (\E s \in sentId[a] : s[2] = id) /\ answered[a] > 0
    PROVE  APIRESP(id, a) \in GoodMessages
<1>1. APIRESP(id, a) \in Messages BY Zenon DEF APIRESP, Messages
<1>2. /\ APIRESP(id, a).id = id /\ APIRESP(id, a).body = a
      /\ APIRESP(id, a).type = "apiresp"
  BY Zenon DEF APIRESP
<1>3. QED BY <1>1, <1>2, Zenon DEF GoodMessages, Sent

(* What a handler knows of the request it takes.                             *)
LEMMA TakenRequest ==
    ASSUME ForwardingInv, NEW n \in Nodes, NEW m \in Nodes, Takes(n, m, "apireq")
    PROVE  /\ Head(link[<<m, n>>]) \in GoodMessages
           /\ Head(link[<<m, n>>]).id \in Ids /\ Head(link[<<m, n>>]).id >= Second
           /\ Head(link[<<m, n>>]).body \in Calls
           /\ \E s \in sentId[Head(link[<<m, n>>]).body] : s[2] = Head(link[<<m, n>>]).id
           /\ Popped(n, m) \in [Peers -> Seq(GoodMessages)]
           /\ up \subseteq Peers /\ answered \in [Calls -> Nat] /\ ~hand[n].busy
<1>1. LinkInv /\ up \subseteq Peers /\ answered \in [Calls -> Nat]
  BY DEF ForwardingInv, CallType, NumberType
<1>2. /\ Popped(n, m) \in [Peers -> Seq(GoodMessages)]
      /\ Head(link[<<m, n>>]) \in GoodMessages /\ Head(link[<<m, n>>]).type = "apireq"
      /\ ~hand[n].busy
  BY <1>1, TakesType, Zenon DEF LinkInv
<1>3. ASSUME NEW msg \in GoodMessages, msg.type = "apireq"
      PROVE  /\ msg.id \in Ids /\ msg.id >= Second /\ msg.body \in Calls
             /\ \E s \in sentId[msg.body] : s[2] = msg.id
  <2>1. msg \in Messages /\ msg.id >= Second /\ (msg.body \in Calls => Sent(msg.body, msg.id))
    BY DEF GoodMessages
  <2>2. msg.id \in Ids /\ msg.body \in Calls BY <1>3, <2>1, Zenon DEF Messages
  <2>3. QED BY <2>1, <2>2 DEF Sent
<1>4. QED BY <1>1, <1>2, <1>3, Zenon

(* A request is refused.                                                     *)
LEMMA RefuseStep ==
    ASSUME ForwardingInv, NEW n \in Nodes, NEW m \in Nodes, RefuseAPIREQ(n, m)
    PROVE  ForwardingInv'
<1> DEFINE id == Head(link[<<m, n>>]).id
<1>1. /\ Takes(n, m, "apireq")
      /\ link' = Push(Popped(n, m), n, m, APIRESP(id, "error"))
      /\ UNCHANGED <<clock, up, hand, pending, engine, got, counter, callVars, answered>>
  BY Zenon DEF RefuseAPIREQ
<1>2. /\ id \in Ids /\ id >= Second /\ up \subseteq Peers /\ answered \in [Calls -> Nat]
      /\ Popped(n, m) \in [Peers -> Seq(GoodMessages)]
  BY <1>1, TakenRequest, Zenon
<1> HIDE DEF id
<1>3. APIRESP(id, "error") \in GoodMessages
  BY <1>2, NamesAssumption, GoodAnswer, Zenon DEF Answers
<1>4. link' \in [Peers -> Seq(GoodMessages)] BY <1>1, <1>2, <1>3, PushType, ZenonT(30)
<1>5. Grows BY <1>1 DEF Grows, callVars
<1>6. link' \in [Peers -> Seq(GoodMessages')] BY <1>4, <1>5, GoodStays, SeqGrows, Zenon
<1>7. QED BY <1>1, <1>2, <1>5, <1>6, LinkStep, Zenon

(* Counting one more run.                                                    *)
LEMMA OneMoreRun ==
    ASSUME NEW f \in [Calls -> Nat], NEW c \in Calls, NEW g,
           g = [f EXCEPT ![c] = @ + 1]
    PROVE  /\ g \in [Calls -> Nat] /\ g[c] > 0
           /\ \A d \in Calls : f[d] > 0 => g[d] > 0
OBVIOUS

(* A request is served by the local miner.                                   *)
LEMMA ServeStep ==
    ASSUME ForwardingInv, NEW n \in Nodes, NEW m \in Nodes, ServeAPIREQ(n, m)
    PROVE  ForwardingInv'
<1> DEFINE id == Head(link[<<m, n>>]).id
           c == Head(link[<<m, n>>]).body
<1>1. /\ Takes(n, m, "apireq")
      /\ link' = Push(Popped(n, m), n, m, APIRESP(id, c))
      /\ answered' = [answered EXCEPT ![c] = @ + 1]
      /\ UNCHANGED <<clock, up, hand, pending, engine, got, counter, callVars>>
  BY Zenon DEF ServeAPIREQ
<1>2. /\ id \in Ids /\ id >= Second /\ up \subseteq Peers /\ answered \in [Calls -> Nat]
      /\ c \in Calls /\ \E s \in sentId[c] : s[2] = id
      /\ Popped(n, m) \in [Peers -> Seq(GoodMessages)]
  BY <1>1, TakenRequest, ZenonT(30)
<1> HIDE DEF id, c
<1>3. answered' \in [Calls -> Nat] /\ answered'[c] > 0 /\ \A d \in Calls : answered[d] > 0 => answered'[d] > 0
  <2>1. answered \in [Calls -> Nat] /\ c \in Calls BY <1>2, Zenon
  <2>2. answered' = [answered EXCEPT ![c] = @ + 1] BY <1>1, Zenon
  <2>3. QED BY <2>1, <2>2, OneMoreRun
<1>4. sentId' = sentId BY <1>1 DEF callVars
<1>5. Grows BY <1>3, <1>4, Zenon DEF Grows
<1>6. APIRESP(id, c) \in GoodMessages'
  <2>1. APIRESP(id, c) \in Messages BY <1>2 DEF APIRESP, Messages, Answers
  <2>2. /\ APIRESP(id, c).id = id /\ APIRESP(id, c).body = c
        /\ APIRESP(id, c).type = "apiresp"
    BY DEF APIRESP
  <2>3. QED BY <1>2, <1>3, <1>4, <2>1, <2>2, ZenonT(30) DEF GoodMessages, Sent
<1>7. Popped(n, m) \in [Peers -> Seq(GoodMessages')] BY <1>2, <1>5, GoodStays, SeqGrows, Zenon
<1>8. link' \in [Peers -> Seq(GoodMessages')] BY <1>1, <1>2, <1>6, <1>7, PushType, Zenon
<1>9. QED BY <1>1, <1>2, <1>3, <1>5, <1>8, LinkStep, Zenon

(* A connection is lost.                                                     *)
LEMMA DisconnectStep ==
    ASSUME ForwardingInv, NEW n \in Nodes, NEW m \in Nodes, Disconnect(n, m)
    PROVE  ForwardingInv'
<1>1. link \in [Peers -> Seq(GoodMessages)] /\ up \subseteq Peers /\ answered \in [Calls -> Nat]
  BY DEF ForwardingInv, LinkInv, CallType, NumberType
<1>2. /\ up' \subseteq up
      /\ link' = [link EXCEPT ![<<n, m>>] = <<>>, ![<<m, n>>] = <<>>]
      /\ UNCHANGED <<clock, hand, pending, engine, got, counter, callVars, answered>>
  BY DEF Disconnect
<1>3. link' \in [Peers -> Seq(GoodMessages)]
  <2>1. <<>> \in Seq(GoodMessages) OBVIOUS
  <2>2. QED BY <1>1, <1>2, <2>1, Zenon
<1>4. Grows BY <1>2 DEF Grows, callVars
<1>5. link' \in [Peers -> Seq(GoodMessages')] BY <1>3, <1>4, GoodStays, SeqGrows
<1>6. QED BY <1>1, <1>2, <1>4, <1>5, LinkStep, Zenon

(* A request is forwarded and the handler waits.                             *)
LEMMA ForwardStep ==
    ASSUME ForwardingInv, NEW n \in Nodes, NEW m \in Nodes, ForwardAPIREQ(n, m)
    PROVE  ForwardingInv'
<1> DEFINE req == Head(link[<<m, n>>])
<1>1. CallType /\ TableType /\ LinkInv /\ KeyInv /\ TableInv /\ AnswerInv
      /\ ProgressType /\ NumberType
  BY Zenon DEF ForwardingInv, CallType
<1>2. Takes(n, m, "apireq") BY Zenon DEF ForwardAPIREQ
<1>3. PICK p \in Ads[n] \ {m} :
         /\ pending' = [pending EXCEPT ![n] = With(@, req.id, n)]
         /\ got' = Entered(n, req.id, n, "wait")
         /\ hand' = [hand EXCEPT ![n] = Forwarding(req.id, m)]
         /\ link' = Push(Popped(n, m), n, p, req)
  BY Zenon DEF ForwardAPIREQ
<1>4. UNCHANGED <<clock, up, engine, counter, pc, target, tried, sentId, result, answered>>
  BY Zenon DEF ForwardAPIREQ, callVars
<1>5. /\ req \in GoodMessages /\ req.id \in Ids /\ req.id >= Second
      /\ Popped(n, m) \in [Peers -> Seq(GoodMessages)] /\ ~hand[n].busy
      /\ up \subseteq Peers
  BY <1>2, TakenRequest, Zenon
<1> DEFINE id == req.id
<1>6. id \in WireIdSet /\ id \in Ids BY <1>5, Zenon DEF WireIdSet
<1>7. link' \in [Peers -> Seq(GoodMessages)]
  <2> HIDE DEF req
  <2>1. QED BY <1>3, <1>5, PushType, Zenon
<1> HIDE DEF req
<1>8. /\ pending' = [pending EXCEPT ![n] = IF "wait" = "wait" THEN With(@, id, n)
                                                              ELSE Without(@, id)]
      /\ got' = Entered(n, id, n, "wait")
      /\ hand' = [hand EXCEPT ![n] = [busy |-> TRUE, id |-> id, from |-> m]]
  BY <1>3, Zenon DEF Forwarding
<1> HIDE DEF id
<1>9. n \in Waiters /\ n \notin Calls BY ForwardingAssumption, Zenon DEF Waiters
<1>10. CallType'
  <2>1. ProgressType' BY <1>1, <1>4, Zenon DEF ProgressType
  <2>2. NumberType' BY <1>1, <1>4, Zenon DEF NumberType
  <2>3. QED BY <1>1, <1>4, <2>1, <2>2, Zenon DEF CallType
<1>11. /\ hand' \in [Nodes -> {Idle} \cup [busy : {TRUE}, id : Ids, from : Nodes]]
       /\ hand'[n].busy /\ hand'[n].id = id
       /\ \A k \in Nodes \ {n} : hand'[k] = hand[k]
  BY <1>1, <1>6, <1>8, Zenon DEF TableType
<1>12. TableType' BY <1>1, <1>6, <1>8, <1>9, <1>11, EnteredType, Zenon
<1>13. Grows BY <1>4, Zenon DEF Grows
<1>14. LinkInv' BY <1>7, <1>13, GoodStays, SeqGrows, Zenon DEF LinkInv
<1>15. KeyInv'
  <2>1. DOMAIN engine' = Nodes BY <1>1, <1>4, Zenon DEF KeyInv
  <2>2. QED BY <1>1, <1>4, <2>1, KeysStay, Zenon
<1>16. TableInv'
  <2>1. ASSUME NEW k \in Nodes, NEW i \in DOMAIN pending[k] PROVE pending[k][i] # n
    <3>1. SUFFICES ASSUME n = pending[k][i] PROVE FALSE OBVIOUS
    <3>2. n = k /\ hand[k].busy BY <1>1, <3>1, NodeEntry, Zenon
    <3>3. QED BY <1>5, <3>2, Zenon
  <2>2. QED BY <1>1, <1>4, <1>6, <1>8, <1>9, <1>11, <1>13, <2>1, Enters, Zenon DEF Enter
<1>17. AnswerInv'
  <2>1. \A d \in Calls : got'[d] \in {got[d], "wait", "broken"}
    BY <1>8, <1>9, Zenon DEF Entered, Waiters
  <2>2. \A d \in Calls : got'[d] = got[d] \/ got'[d] \notin Calls
    BY <2>1, NamesAssumption, Zenon
  <2>3. QED BY <1>1, <1>4, <1>13, <2>2, AnswersStay, Zenon
<1>18. QED BY <1>10, <1>12, <1>14, <1>15, <1>16, <1>17, Zenon DEF ForwardingInv

(* The handler comes back with an answer, a timeout or a broken promise.     *)
LEMMA ForwardReturnsStep ==
    ASSUME ForwardingInv, NEW n \in Nodes, ForwardReturns(n) PROVE ForwardingInv'
<1> DEFINE id == hand[n].id
           from == hand[n].from
<1>1. CallType /\ TableType /\ LinkInv /\ KeyInv /\ TableInv /\ AnswerInv
      /\ ProgressType /\ NumberType
  BY Zenon DEF ForwardingInv, CallType
<1>2. got[n] \in {"wait", "broken"} BY <1>1 DEF TableInv
<1>3. /\ hand[n].busy /\ hand' = [hand EXCEPT ![n] = Idle]
      /\ pending' = IF got[n] = "wait"
                    THEN [pending EXCEPT ![n] = Without(@, id)] ELSE pending
      /\ link' = IF got[n] = "wait" THEN Push(link, n, from, APIRESP(id, "error")) ELSE link
  BY <1>2 DEF ForwardReturns
<1>4. UNCHANGED <<clock, up, engine, got, counter, pc, target, tried, sentId, result, answered>>
  BY Zenon DEF ForwardReturns, callVars
<1>5. got[n] = "wait" => id \in DOMAIN pending[n] /\ pending[n][id] = n
  BY <1>1, <1>3, HandlerEntered, Zenon
<1>6. /\ DOMAIN pending' = Nodes
      /\ \A k \in Nodes \ {n} : pending'[k] = pending[k]
      /\ DOMAIN pending'[n] = IF got[n] = "wait" THEN DOMAIN pending[n] \ {id}
                                                 ELSE DOMAIN pending[n]
      /\ \A i \in DOMAIN pending'[n] : pending'[n][i] = pending[n][i]
  BY <1>1, <1>3, Zenon DEF TableType, Without, Restrict
<1>7. /\ hand' \in [Nodes -> {Idle} \cup [busy : {TRUE}, id : Ids, from : Nodes]]
      /\ ~hand'[n].busy /\ \A k \in Nodes \ {n} : hand'[k] = hand[k]
  BY <1>1, <1>3, Zenon DEF TableType, Idle
<1>8. CallType'
  <2>1. ProgressType' BY <1>1, <1>4, Zenon DEF ProgressType
  <2>2. NumberType' BY <1>1, <1>4 DEF NumberType
  <2>3. QED BY <1>1, <1>4, <2>1, <2>2 DEF CallType
<1>9. TableType'
  <2>1. \A k \in Nodes : DOMAIN pending'[k] \subseteq WireIdSet /\ Range(pending'[k]) \subseteq Waiters
    BY <1>1, <1>6 DEF TableType, Range
  <2>2. QED BY <1>1, <1>4, <1>6, <1>7, <2>1, ZenonT(30) DEF TableType
<1>10. Grows BY <1>4 DEF Grows
<1>11. LinkInv'
  <2>1. CASE got[n] = "wait"
    <3>1. id \in WireIdSet BY <1>1, <1>5, <2>1, Zenon DEF TableType
    <3>2. id \in Ids /\ id >= Second BY <3>1 DEF WireIdSet
    <3> HIDE DEF id, from
    <3>3. APIRESP(id, "error") \in GoodMessages
      BY <3>2, NamesAssumption, GoodAnswer, Zenon DEF Answers
    <3>4. up \subseteq Peers BY <1>1, Zenon DEF NumberType
    <3>5. link' \in [Peers -> Seq(GoodMessages)]
      BY <1>1, <1>3, <2>1, <3>3, <3>4, PushType, Zenon DEF LinkInv
    <3>6. QED BY <1>10, <3>5, GoodStays, SeqGrows, Zenon DEF LinkInv
  <2>2. CASE got[n] # "wait"
    <3>1. link' = link BY <1>3, <2>2, Zenon
    <3>2. QED BY <1>1, <1>10, <3>1, LinkStays, Zenon DEF LinkInv
  <2>3. QED BY <2>1, <2>2, Zenon
<1>12. KeyInv'
  <2>1. DOMAIN engine' = Nodes BY <1>1, <1>4, Zenon DEF KeyInv
  <2>2. QED BY <1>1, <1>4, <2>1, KeysStay, Zenon
<1>13. WaitersEntered'
  <2>1. ASSUME NEW k \in Nodes, hand'[k].busy, got'[k] = "wait"
        PROVE  hand'[k].id \in DOMAIN pending'[k] /\ pending'[k][hand'[k].id] = k
    <3>1. k # n BY <1>7, <2>1, Zenon
    <3>2. hand'[k] = hand[k] /\ pending'[k] = pending[k] BY <1>6, <1>7, <3>1, Zenon
    <3>3. hand[k].busy /\ got[k] = "wait" BY <1>4, <2>1, <3>2
    <3>4. hand[k].id \in DOMAIN pending[k] /\ pending[k][hand[k].id] = k
      BY <1>1, <3>3, HandlerEntered, Zenon
    <3>5. QED BY <3>2, <3>4, Zenon
  <2>2. ASSUME NEW d \in Calls, pc'[d] = "wait", got'[d] = "wait"
        PROVE  d \in Range(pending'[Home[d]])
    <3>1. PICK i \in DOMAIN pending[Home[d]] : pending[Home[d]][i] = d
      <4>1. pc[d] = "wait" /\ got[d] = "wait" BY <1>4, <2>2, Zenon
      <4>2. QED BY <1>1, <4>1, CallEntered, Zenon
    <3>2. Home[d] \in Nodes /\ d # n BY ForwardingAssumption, Zenon
    <3>3. i \in DOMAIN pending'[Home[d]] /\ pending'[Home[d]][i] = d
      BY <1>5, <1>6, <3>1, <3>2, Zenon
    <3>4. QED BY <3>3 DEF Range
  <2>3. ASSUME NEW k \in Nodes, NEW i \in DOMAIN pending'[k]
        PROVE  LET x == pending'[k][i] IN
               IF x \in Nodes
               THEN x = k /\ hand'[k].busy /\ hand'[k].id = i /\ got'[k] = "wait"
               ELSE /\ Home[x] = k /\ <<"req", i>> \in sentId'[x]
                    /\ (pc'[x] = "wait" /\ got'[x] = "wait") \/ result'[x] = "timeout"
    <3>1. i \in DOMAIN pending[k] /\ pending'[k][i] = pending[k][i]
      BY <1>6, Zenon
    <3>2. pending[k][i] # n
      <4>1. SUFFICES ASSUME n = pending[k][i] PROVE FALSE OBVIOUS
      <4>2. n = k /\ hand[k].id = i /\ got[k] = "wait"
        BY <1>1, <3>1, <4>1, NodeEntry, Zenon
      <4>3. QED BY <1>6, <4>2, Zenon
    <3>3. CASE pending[k][i] \in Nodes
      <4>1. /\ pending[k][i] = k
            /\ hand[k].busy /\ hand[k].id = i /\ got[k] = "wait"
        BY <1>1, <3>1, <3>3, NodeEntry, Zenon
      <4>2. hand'[k] = hand[k] BY <1>7, <3>2, <4>1, ZenonT(30)
      <4>3. QED BY <1>4, <3>1, <4>1, <4>2
    <3>4. CASE pending[k][i] \notin Nodes
      <4> DEFINE x == pending[k][i]
      <4>1. /\ Home[x] = k /\ <<"req", i>> \in sentId[x]
            /\ (pc[x] = "wait" /\ got[x] = "wait") \/ result[x] = "timeout"
        BY <1>1, <3>1, <3>4, OneEntry, Zenon
      <4>2. pending'[k][i] = x /\ x \notin Nodes BY <3>1, <3>4, Zenon
      <4> HIDE DEF x
      <4>3. QED BY <1>4, <4>1, <4>2
    <3>5. QED BY <3>3, <3>4, Zenon
  <2>4. QED BY <2>1, <2>2, <2>3, Zenon DEF WaitersEntered
<1>14. TableInv'
  <2>1. \A k \in Nodes : \A i, j \in DOMAIN pending'[k] :
           pending'[k][i] = pending'[k][j] => i = j
    BY <1>1, <1>6 DEF TableInv
  <2>2. QED BY <1>1, <1>4, <1>13, <2>1, ZenonT(30) DEF TableInv
<1>15. AnswerInv' BY <1>1, <1>4, <1>10, AnswersStay, ZenonT(30)
<1>16. QED BY <1>8, <1>9, <1>11, <1>12, <1>14, <1>15, Zenon DEF ForwardingInv

(* A response on its way fits every call that waits for its id.              *)
LEMMA TakenAnswer ==
    ASSUME ForwardingInv, NEW n \in Nodes, NEW m \in Nodes, Takes(n, m, "apiresp")
    PROVE  /\ Head(link[<<m, n>>]).id \in Ids /\ Head(link[<<m, n>>]).id >= Second
           /\ Head(link[<<m, n>>]).body \in Answers
           /\ \A d \in Calls : <<"req", Head(link[<<m, n>>]).id>> \in sentId[d] =>
                 Fits(d, Head(link[<<m, n>>]).body)
           /\ Popped(n, m) \in [Peers -> Seq(GoodMessages)]
           /\ ~hand[n].busy
<1>1. LinkInv /\ up \subseteq Peers BY DEF ForwardingInv, CallType, NumberType
<1>2. /\ Popped(n, m) \in [Peers -> Seq(GoodMessages)]
      /\ Head(link[<<m, n>>]) \in GoodMessages /\ Head(link[<<m, n>>]).type = "apiresp"
      /\ ~hand[n].busy
  BY <1>1, TakesType, Zenon DEF LinkInv
<1>3. ASSUME NEW msg \in GoodMessages, msg.type = "apiresp"
      PROVE  /\ msg.id \in Ids /\ msg.id >= Second /\ msg.body \in Answers
             /\ \A d \in Calls : <<"req", msg.id>> \in sentId[d] => Fits(d, msg.body)
  <2>1. /\ msg \in Messages /\ msg.id >= Second
        /\ msg.body \in Calls => Sent(msg.body, msg.id) /\ answered[msg.body] > 0
    BY <1>3 DEF GoodMessages
  <2>2. msg.id \in Ids /\ msg.body \in Answers BY <1>3, <2>1, Zenon DEF Messages
  <2>3. ASSUME NEW d \in Calls, <<"req", msg.id>> \in sentId[d], msg.body \in Calls
        PROVE  answered[msg.body] > 0 /\ \E s \in sentId[d], t \in sentId[msg.body] : s[2] = t[2]
    <3>1. PICK t \in sentId[msg.body] : t[2] = msg.id BY <2>1, <2>3, Zenon DEF Sent
    <3>2. <<"req", msg.id>>[2] = t[2] BY <3>1
    <3>3. QED BY <2>1, <2>3, <3>2, Zenon
  <2>4. QED BY <2>1, <2>2, <2>3, Zenon DEF Fits
<1>4. QED BY <1>2, <1>3, Zenon

(* An answer arrives.                                                        *)
LEMMA HandleStep ==
    ASSUME ForwardingInv, NEW n \in Nodes, NEW m \in Nodes, HandleAPIRESP(n, m)
    PROVE  ForwardingInv'
<1> DEFINE id == Head(link[<<m, n>>]).id
           a == Head(link[<<m, n>>]).body
           Here(x) == id \in DOMAIN pending[n] /\ x = pending[n][id]
<1>1. CallType /\ TableType /\ LinkInv /\ KeyInv /\ TableInv /\ AnswerInv
      /\ ProgressType /\ NumberType
  BY DEF ForwardingInv, CallType
<1>2. /\ Takes(n, m, "apiresp") /\ link' = Popped(n, m)
      /\ pending' = [pending EXCEPT ![n] = Without(@, id)]
      /\ engine' = [engine EXCEPT ![n] = Without(@, id)]
  BY Zenon DEF HandleAPIRESP
<1> DEFINE told == {x \in Waiters : Waiting(x) /\
                      \/ id \in DOMAIN pending[n] /\ x = pending[n][id]
                      \/ id \in DOMAIN engine[n] /\ x = engine[n][id]}
<1>3. got' = [x \in Waiters |-> IF x \in told THEN a ELSE got[x]]
  BY Zenon DEF HandleAPIRESP
<1>4. DOMAIN got' = Waiters /\ got' = [x \in Waiters |-> got'[x]] BY Zenon DEF HandleAPIRESP
<1>5. UNCHANGED <<clock, up, hand, counter, pc, target, tried, sentId, result, answered>>
  BY Zenon DEF HandleAPIRESP, callVars
<1>6. /\ id \in Ids /\ id >= Second /\ a \in Answers /\ ~hand[n].busy
      /\ \A d \in Calls : <<"req", id>> \in sentId[d] => Fits(d, a)
      /\ Popped(n, m) \in [Peers -> Seq(GoodMessages)]
  BY <1>2, TakenAnswer, Zenon
<1> HIDE DEF id, a
<1>7. /\ Nodes \subseteq Waiters /\ Calls \subseteq Waiters /\ Nodes \cap Calls = {}
      /\ \A x \in Waiters : x \in Nodes <=> x \notin Calls
  BY ForwardingAssumption, Zenon DEF Waiters
<1>8. id \notin DOMAIN engine[n]
  <2>1. DOMAIN engine[n] \subseteq 0..(Second - 1) BY <1>1 DEF KeyInv
  <2>2. Second \in Nat BY ForwardingAssumption
  <2>3. QED BY <1>6, <2>1, <2>2 DEF Ids
<1>9. ASSUME NEW x \in Waiters
      PROVE  got'[x] \in {a, got[x]} /\ (got'[x] # got[x] => Waiting(x) /\ Here(x))
             /\ (Waiting(x) /\ Here(x) => got'[x] = a)
  <2>1. x \in told <=> Waiting(x) /\ Here(x) BY <1>8, Zenon
  <2> HIDE DEF told
  <2>2. got'[x] = IF x \in told THEN a ELSE got[x] BY <1>3, Zenon
  <2>3. QED BY <2>1, <2>2, Zenon
<1>10. ASSUME NEW k \in Nodes PROVE got'[k] = got[k]
  <2>1. SUFFICES ASSUME Here(k), Waiting(k) PROVE FALSE BY <1>7, <1>9, Zenon
  <2>2. id \in DOMAIN pending[n] /\ pending[n][id] \in Nodes BY <2>1
  <2>3. hand[n].busy BY <1>1, <2>2, NodeEntry, Zenon
  <2>4. QED BY <1>6, <2>3, Zenon
<1>11. /\ DOMAIN pending' = Nodes /\ DOMAIN engine' = Nodes
       /\ \A k \in Nodes \ {n} : pending'[k] = pending[k] /\ engine'[k] = engine[k]
       /\ DOMAIN pending'[n] = DOMAIN pending[n] \ {id}
       /\ \A i \in DOMAIN pending'[n] : pending'[n][i] = pending[n][i]
       /\ DOMAIN engine'[n] \subseteq DOMAIN engine[n]
       /\ \A i \in DOMAIN engine'[n] : engine'[n][i] = engine[n][i]
  BY <1>1, <1>2, Zenon DEF TableType, KeyInv, Without, Restrict
<1>12. Grows BY <1>5 DEF Grows
<1>13. CallType'
  <2>1. ProgressType' BY <1>1, <1>5, Zenon DEF ProgressType
  <2>2. NumberType' BY <1>1, <1>5, Zenon DEF NumberType
  <2>3. QED BY <1>1, <1>5, <2>1, <2>2, Zenon DEF CallType
<1>14. TableType'
  <2>1. got' \in [Waiters -> Answers \cup {"wait", "broken"}]
    <3>1. got \in [Waiters -> Answers \cup {"wait", "broken"}] BY <1>1, Zenon DEF TableType
    <3>2. \A x \in Waiters : got'[x] \in Answers \cup {"wait", "broken"}
      BY <1>6, <1>9, <3>1, ZenonT(30)
    <3>3. QED BY <1>4, <3>2, Zenon
  <2>2. \A k \in Nodes : DOMAIN pending'[k] \subseteq WireIdSet /\ Range(pending'[k]) \subseteq Waiters
    BY <1>1, <1>11, SMTT(30) DEF TableType, Range
  <2>3. QED BY <1>1, <1>5, <1>11, <2>1, <2>2, Zenon DEF TableType
<1>15. LinkInv' BY <1>2, <1>6, <1>12, LinkStays, Zenon DEF LinkInv
<1>16. KeyInv' BY <1>1, <1>5, <1>11, KeysStay, Zenon
<1>17. a # "wait" BY <1>6, NamesAssumption, Zenon DEF Answers
<1>18. WaitersEntered'
  <2>1. ASSUME NEW k \in Nodes, hand'[k].busy, got'[k] = "wait"
        PROVE  hand'[k].id \in DOMAIN pending'[k] /\ pending'[k][hand'[k].id] = k
    <3>1. k # n BY <1>5, <1>6, <2>1, Zenon
    <3>2. pending'[k] = pending[k] /\ got[k] = "wait" BY <1>10, <1>11, <2>1, <3>1, Zenon
    <3>3. hand'[k] = hand[k] /\ hand[k].busy BY <1>5, <2>1
    <3>4. hand[k].id \in DOMAIN pending[k] /\ pending[k][hand[k].id] = k
      BY <1>1, <3>2, <3>3, HandlerEntered, Zenon
    <3>5. QED BY <3>2, <3>3, <3>4, Zenon
  <2>2. ASSUME NEW d \in Calls, pc'[d] = "wait", got'[d] = "wait"
        PROVE  d \in Range(pending'[Home[d]])
    <3>1. d \in Waiters /\ d \notin Nodes BY <1>7, Zenon
    <3>2. Waiting(d) BY <1>5, <2>2, <3>1, Zenon DEF Waiting
    <3>3. ~Here(d) /\ got[d] = "wait" BY <1>9, <1>17, <2>2, <3>1, <3>2, Zenon
    <3>4. PICK i \in DOMAIN pending[Home[d]] : pending[Home[d]][i] = d
      <4>1. pc[d] = "wait" BY <1>5, <2>2, Zenon
      <4>2. QED BY <1>1, <3>3, <4>1, CallEntered, Zenon
    <3>5. Home[d] \in Nodes BY ForwardingAssumption, Zenon
    <3>6. i \in DOMAIN pending'[Home[d]] /\ pending'[Home[d]][i] = d
      BY <1>11, <3>3, <3>4, <3>5, Zenon
    <3>7. QED BY <3>6 DEF Range
  <2>3. ASSUME NEW k \in Nodes, NEW i \in DOMAIN pending'[k]
        PROVE  LET x == pending'[k][i] IN
               IF x \in Nodes
               THEN x = k /\ hand'[k].busy /\ hand'[k].id = i /\ got'[k] = "wait"
               ELSE /\ Home[x] = k /\ <<"req", i>> \in sentId'[x]
                    /\ (pc'[x] = "wait" /\ got'[x] = "wait") \/ result'[x] = "timeout"
    <3>1. /\ i \in DOMAIN pending[k] /\ pending'[k][i] = pending[k][i]
          /\ k = n => i # id
      BY <1>11
    <3> DEFINE x == pending[k][i]
    <3>2. x \in Waiters BY <1>1, <3>1, EntryWaits, Zenon
    <3>3. got'[x] = got[x]
      <4>1. SUFFICES ASSUME Here(x) PROVE FALSE BY <1>9, <3>2, Zenon
      <4>2. k = n
        <5>1. CASE x \in Nodes
          <6>1. x = k BY <1>1, <3>1, <5>1, NodeEntry, Zenon
          <6>2. id \in DOMAIN pending[n] /\ pending[n][id] = x BY <4>1
          <6>3. pending[n][id] \in Nodes BY <5>1, <6>2
          <6>4. pending[n][id] = n BY <1>1, <6>2, <6>3, NodeEntry, Zenon
          <6>5. QED BY <6>1, <6>2, <6>4
        <5>2. CASE x \in Calls
          <6>1. Home[x] = k BY <1>1, <3>1, <5>2, CallEntry, ZenonT(30)
          <6>2. id \in DOMAIN pending[n] /\ pending[n][id] = x BY <4>1
          <6>3. pending[n][id] \in Calls BY <5>2, <6>2
          <6>4. Home[pending[n][id]] = n BY <1>1, <6>2, <6>3, CallEntry, Zenon
          <6>5. QED BY <6>1, <6>2, <6>4
        <5>3. QED BY <1>7, <3>2, <5>1, <5>2, Zenon
      <4>3. i = id BY <1>1, <3>1, <4>1, <4>2, OnlyEntry, Zenon
      <4>4. QED BY <3>1, <4>2, <4>3, Zenon
    <3>4. IF x \in Nodes
          THEN x = k /\ hand[k].busy /\ hand[k].id = i /\ got[k] = "wait"
          ELSE /\ Home[x] = k /\ <<"req", i>> \in sentId[x]
               /\ (pc[x] = "wait" /\ got[x] = "wait") \/ result[x] = "timeout"
      BY <1>1, <3>1, OneEntry, Zenon
    <3> HIDE DEF x
    <3>5. QED BY <1>5, <3>1, <3>3, <3>4, ZenonT(30) DEF x
  <2>4. QED BY <2>1, <2>2, <2>3, Zenon DEF WaitersEntered
<1>19. TableInv'
  <2>1. \A k \in Nodes : \A i, j \in DOMAIN pending'[k] :
           pending'[k][i] = pending'[k][j] => i = j
    BY <1>1, <1>11, SMTT(30) DEF TableInv
  <2>2. ASSUME NEW d \in Calls, pc'[d] = "engine" PROVE got'[d] = "wait"
    <3>1. pc[d] = "engine" /\ got[d] = "wait" /\ result[d] # "timeout"
      BY <1>1, <1>5, <2>2, Zenon DEF TableInv
    <3>2. ~Here(d)
      <4>1. SUFFICES ASSUME Here(d) PROVE FALSE OBVIOUS
      <4>2. id \in DOMAIN pending[n] /\ pending[n][id] = d BY <4>1
      <4>3. pending[n][id] \in Calls BY <4>2
      <4>4. pc[pending[n][id]] = "wait" \/ result[pending[n][id]] = "timeout"
        BY <1>1, <4>2, <4>3, CallEntry, Zenon
      <4>5. QED BY <3>1, <4>2, <4>4, Zenon
    <3>3. d \in Waiters BY <1>7
    <3>4. got'[d] = got[d] BY <1>9, <3>2, <3>3, Zenon
    <3>5. QED BY <3>1, <3>4, Zenon
  <2>3. QED BY <1>1, <1>5, <1>10, <1>18, <2>1, <2>2, ZenonT(30) DEF TableInv
<1>20. AnswerInv'
  <2> SUFFICES ASSUME NEW d \in Calls
      PROVE  Fits(d, got[d])' /\ Fits(d, result[d])'
    BY DEF AnswerInv
  <2>1. Fits(d, got[d]) /\ Fits(d, result[d]) BY <1>1, Zenon DEF AnswerInv
  <2>2. Fits(d, result[d])' BY <1>5, <2>1, Zenon DEF Fits
  <2>3. Fits(d, got'[d])
    <3>1. CASE Here(d)
      <4>1. id \in DOMAIN pending[n] /\ pending[n][id] = d /\ d \notin Nodes
        BY <1>7, <3>1, Zenon
      <4>2. pending[n][id] \in Calls BY <4>1
      <4>3. <<"req", id>> \in sentId[pending[n][id]] BY <1>1, <4>1, <4>2, CallEntry, Zenon
      <4>4. QED BY <1>6, <1>7, <1>9, <2>1, <4>1, <4>3, Zenon
    <3>2. CASE ~Here(d) BY <1>7, <1>9, <2>1, <3>2, Zenon
    <3>3. QED BY <3>1, <3>2, Zenon
  <2>4. Fits(d, got[d])' BY <1>5, <2>3, Zenon DEF Fits
  <2>5. QED BY <2>2, <2>4, Zenon
<1>21. QED BY <1>13, <1>14, <1>15, <1>16, <1>19, <1>20, Zenon DEF ForwardingInv
-----------------------------------------------------------------------------
(* Nothing changes.                                                          *)
LEMMA InvStutter == ASSUME ForwardingInv, UNCHANGED vars PROVE ForwardingInv'
<1>1. UNCHANGED <<clock, hand, pending, engine, got, counter, callVars>> /\ Grows
  BY Zenon DEF vars, callVars, Grows
<1>2. up' \subseteq Peers /\ answered' \in [Calls -> Nat]
  BY DEF ForwardingInv, CallType, NumberType, vars
<1>3. link' \in [Peers -> Seq(GoodMessages')]
  BY <1>1, LinkStays, Zenon DEF ForwardingInv, LinkInv, vars
<1>4. QED BY <1>1, <1>2, <1>3, LinkStep, Zenon

(* ForwardingInv is inductive.                                               *)
LEMMA InvNext == ForwardingInv /\ [Next]_vars => ForwardingInv'
<1> SUFFICES ASSUME ForwardingInv, [Next]_vars PROVE ForwardingInv' BY Zenon
<1>1. ASSUME NEW c \in Calls, Caller(c) PROVE ForwardingInv'
  <2>1. CASE CallStarts(c) \/ LocalBackend(c) \/ NoEndpoint(c) \/ BackendsExhausted(c)
    BY <2>1, QuietSteps
  <2>2. CASE RemoteBackend(c) \/ PeerGone(c) BY <2>2, RemoteBackendStep, PeerGoneStep, Zenon
  <2>3. CASE EngineReturns(c) BY <2>3, EngineReturnsStep
  <2>4. CASE SendInferenceRequest(c) BY <2>4, SendStep
  <2>5. CASE CallReturns(c) \/ CallTimesOut(c) BY <2>5, EndSteps, Zenon
  <2>6. QED BY <1>1, <2>1, <2>2, <2>3, <2>4, <2>5, Zenon DEF Caller
<1>2. ASSUME NEW n \in Nodes, NEW m \in Nodes, MessageHandler(n, m) PROVE ForwardingInv'
  <2>1. CASE RefuseAPIREQ(n, m) BY <2>1, RefuseStep
  <2>2. CASE ServeAPIREQ(n, m) BY <2>2, ServeStep, ZenonT(30)
  <2>3. CASE ForwardAPIREQ(n, m) BY <2>3, ForwardStep
  <2>4. CASE HandleAPIRESP(n, m) BY <2>4, HandleStep
  <2>5. QED BY <1>2, <2>1, <2>2, <2>3, <2>4, Zenon DEF MessageHandler
<1>3. ASSUME NEW n \in Nodes, NEW m \in Nodes, Disconnect(n, m) PROVE ForwardingInv'
  BY <1>3, DisconnectStep
<1>4. ASSUME NEW n \in Nodes, ForwardReturns(n) PROVE ForwardingInv'
  BY <1>4, ForwardReturnsStep
<1>5. CASE UNCHANGED vars BY <1>5, InvStutter
<1>6. QED BY <1>1, <1>2, <1>3, <1>4, <1>5, Zenon DEF Next

(* The inductive invariant holds on every network, whatever the miners are,  *)
(* whoever advertises, and however connections are lost.                     *)
THEOREM ForwardingInvariant == Spec => []ForwardingInv
BY InvInit, InvNext, PTL DEF Spec

(* No call ever returns the state of a future that is not ready, and no      *)
(* table, link or counter leaves its type: see TypeOK.                       *)
THEOREM ForwardingTypes == Spec => []TypeOK
BY ForwardingInvariant, InvImplies, PTL

(* The table of promises and the threads that wait agree: whoever waits is   *)
(* entered under its own id, and whoever is entered waits or has timed out   *)
(* (SendInferenceRequest, the APIREQ and the APIRESP handlers).              *)
THEOREM WaitersEnteredHolds == Spec => []WaitersEntered
BY ForwardingInvariant, InvImplies, PTL

(* p2pinference returns a miner's answer to its own prompt, unless another   *)
(* call went out under the same id, on any chain of forwarding nodes.        *)
THEOREM OwnAnswerHolds == Spec => []OwnAnswer
BY ForwardingInvariant, InvImplies, PTL

(* A prompt is answered and billed, or on its way to be, at most once for    *)
(* every id its call sent and once for the local backend, on any graph of    *)
(* peers: forwarding, refusals and lost connections never multiply an answer *)
(* (APIREQ handler).  Runs of a relay that failed afterwards are not counted.*)
THEOREM OneAnswerPerRequestHolds == Spec => []OneAnswerPerRequest
<1>1. TallyInv => OneAnswerPerRequest BY TallyInvImplies
<1>2. TypeOK /\ TallyInv /\ [Next]_vars => TallyInv' BY TallyNext
<1>3. QED BY <1>1, <1>2, TallyInit, ForwardingTypes, PTL DEF Spec
=============================================================================
