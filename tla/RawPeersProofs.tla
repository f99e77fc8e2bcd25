---------------------------- MODULE RawPeersProofs ----------------------------
(***************************************************************************)
(* Proofs about the service facing peers that write call messages          *)
(* themselves, for any set of peers and functions and any bounds: each     *)
(* call of a two-way function has one reply, and a refused call is not     *)
(* executed.                                                               *)
(***************************************************************************)
EXTENDS RawPeers, ServiceProofs

------------------------------------------------------------------------------
(***************************************************************************)
(* The inductive invariant.  What it says of the calls of function f by    *)
(* one peer is stated for the values that the state has for them: q and r  *)
(* are the inboxes of the service's and of the peer's end, H the numbers   *)
(* of the closures held, R the replies received, X the calls executed, N   *)
(* the number of calls written.                                            *)
(***************************************************************************)

\* The service function was run for call n.
Ran(X, n) == \E i \in DOMAIN X : X[i] = n

\* The service has taken call n from its inbox.
Taken(f, r, H, R, X, n) == n \in H \/ Has(r, f, n) \/ R[n] # "none" \/ Ran(X, n)

\* Calls are taken in the order in which they were written, and executed in it.
InOrder(f, q, r, H, R, X, N) ==
    /\ Rising(q, f)
    /\ \A n \in CallId : Has(q, f, n) => n <= N
    /\ \A n \in CallId : Taken(f, r, H, R, X, n) =>
          n <= N /\ \A m \in CallId : Has(q, f, m) => n < m
    /\ \A i, j \in DOMAIN X : i < j => X[i] < X[j]

\* A call that was taken has its closure, its reply on the way or its reply
\* received, never two of them; a call that was refused did not run.
RepliedOnce(f, r, H, R, X) ==
    /\ Distinct(r, f)
    /\ \A n \in CallId :
          /\ n \in H => ~Has(r, f, n) /\ R[n] = "none"
          /\ Has(r, f, n) => R[n] = "none"
          /\ R[n] # "twice"
          /\ Refuses(r, f, n) \/ R[n] = "in_progress" => ~Ran(X, n)

\* Every call that was written is somewhere.
Accounted(f, q, r, H, R, N) ==
    \A n \in CallId :
        n <= N => Has(q, f, n) \/ n \in H \/ Has(r, f, n) \/ R[n] # "none"

CallInv(f, q, r, H, R, X, N, linked) ==
    /\ InOrder(f, q, r, H, R, X, N)
    /\ RepliedOnce(f, r, H, R, X)
    /\ linked /\ f \in TwoWay => Accounted(f, q, r, H, R, N)

\* The numbers of the calls of f by c whose closure was not called.
HeldIds(c, f) == {h.id : h \in Held(c, f)}

CallOK(c, f) ==
    CallInv(f, inbox[Srv(c)], inbox[Cli(c)], HeldIds(c, f), reply[c][f],
            executed[c][f], calls[c][f], up[c])

\* A peer that never connected wrote nothing.
PeerOK(c) ==
    myState[Cli(c)] = "NEW" => ~up[c] /\ \A f \in Funcs : calls[c][f] = 0

(***************************************************************************)
(* The inductive invariant.  The calls that a peer wrote without waiting   *)
(* are on the wire, in order and after every call that was executed or     *)
(* refused; each of them is on the wire, held by the service, in a reply   *)
(* under way or replied, and in one of these places only.                  *)
(***************************************************************************)
Inv ==
    /\ TypeOK /\ RegisteredIsOpen /\ PendingMatchesHeld
    /\ \A c \in Clients : AcceptOK(c) /\ PeerOK(c)
    /\ \A c \in Clients, f \in Funcs : CallOK(c, f)

------------------------------------------------------------------------------
(***************************************************************************)
(* What the steps do to the calls of one function by one peer.             *)
(***************************************************************************)

\* The values are of these types.
Values(q, r, H, R, X, N) ==
    /\ q \in Seq(Message) /\ r \in Seq(Message)
    /\ H \in SUBSET CallId
    /\ R \in [CallId -> {"none", "value", "in_progress", "twice"}]
    /\ X \in Seq(CallId)
    /\ N \in 0..MaxCalls

\* Numbers of calls.
LEMMA Numbers ==
    /\ \A n \in CallId : n \in Nat /\ n > 0 /\ n <= MaxCalls
    /\ MaxCalls \in Nat
    /\ \A f, n : f \in Funcs /\ n \in CallId => serialize_call(f, n) \in Message
    /\ \A f, n : f \in TwoWay /\ n \in CallId =>
          \A b \in {"value", "in_progress"} : serialize_call_result(f, n, b) \in Message
BY BoundsAssumption
DEF CallId, Message, CallMessages, ResultMessages, serialize_call, serialize_call_result

\* So are the calls that messages of f belong to.
LEMMA HasNumber ==
    ASSUME NEW f \in Funcs, NEW s \in Seq(Message), NEW n, Has(s, f, n)
    PROVE  n \in CallId
<1>1. PICK i \in DOMAIN s : s[i].func = f /\ s[i].id = n
    BY DEF Has
<1>2. s[i] \in Message
    BY MessageIds
<1> QED
    BY <1>1, <1>2, FuncsAssumption DEF Message, CallMessages, ResultMessages, EventMessages

\* A step that has nothing to do with these calls.
LEMMA KeptInv ==
    ASSUME NEW f, NEW q, NEW r, NEW H, NEW R, NEW X, NEW N, NEW linked,
           Values(q, r, H, R, X, N), CallInv(f, q, r, H, R, X, N, linked),
           NEW q2 \in Seq(Message), NEW r2 \in Seq(Message), NEW linked2,
           Same(q, q2, f), Same(r, r2, f), linked2 => linked
    PROVE  CallInv(f, q2, r2, H, R, X, N, linked2)
<1>1. /\ \A n : Has(q, f, n) <=> Has(q2, f, n)
      /\ \A n : Has(r, f, n) <=> Has(r2, f, n)
      /\ \A n : Refuses(r, f, n) <=> Refuses(r2, f, n)
      /\ Rising(q, f) => Rising(q2, f)
      /\ Distinct(r, f) => Distinct(r2, f)
    BY SameHas DEF Values
<1>2. InOrder(f, q2, r2, H, R, X, N)
    BY <1>1 DEF CallInv, InOrder, Taken
<1>3. RepliedOnce(f, r2, H, R, X)
    BY <1>1 DEF CallInv, RepliedOnce
<1>4. linked2 /\ f \in TwoWay => Accounted(f, q2, r2, H, R, N)
    BY <1>1 DEF CallInv, Accounted
<1> QED
    BY <1>2, <1>3, <1>4 DEF CallInv

\* The peer writes its next call, over a connection that is up or not.
LEMMA WrittenInv ==
    ASSUME NEW f \in Funcs, NEW q, NEW r, NEW H, NEW R, NEW X, NEW N, NEW linked,
           Values(q, r, H, R, X, N), CallInv(f, q, r, H, R, X, N, linked), N < MaxCalls
    PROVE  /\ CallInv(f, Append(q, serialize_call(f, N + 1)), r, H, R, X, N + 1, linked)
           /\ CallInv(f, q, r, H, R, X, N + 1, FALSE)
<1> DEFINE m == serialize_call(f, N + 1)
           q2 == Append(q, m)
<1>1. N \in Nat /\ N + 1 \in CallId /\ MaxCalls \in Nat /\ q \in Seq(Message)
    BY BoundsAssumption DEF Values, CallId
<1>2. m \in Message /\ m.func = f /\ m.id = N + 1
    BY <1>1, Numbers DEF serialize_call
<1>3. /\ \A n \in CallId : n \in Nat /\ (n <= N + 1 => n <= N \/ n = N + 1)
      /\ \A n \in CallId : n <= N => n <= N + 1 /\ n < N + 1
    BY <1>1, Numbers
<1>4. \A n \in Nat : Has(q, f, n) => n < N + 1
    BY <1>1, <1>3, HasNumber DEF CallInv, InOrder
<1>5. /\ \A n : Has(q2, f, n) <=> Has(q, f, n) \/ n = N + 1
      /\ Rising(q2, f)
  <2>1. Rising(q, f)
    BY DEF CallInv, InOrder
  <2> QED
    BY <1>1, <1>2, <1>4, <2>1, AppendedHas
<1> HIDE DEF m, q2
<1>6. InOrder(f, q2, r, H, R, X, N + 1) /\ InOrder(f, q, r, H, R, X, N + 1)
    BY <1>3, <1>5 DEF CallInv, InOrder
<1>7. linked /\ f \in TwoWay => Accounted(f, q2, r, H, R, N + 1)
    BY <1>3, <1>5 DEF CallInv, Accounted
<1> QED
    BY <1>6, <1>7 DEF CallInv, q2, m

\* A sequence of calls to which a later one is appended.
LEMMA RanAppended ==
    ASSUME NEW X \in Seq(CallId), NEW n \in CallId
    PROVE  /\ \A k : Ran(Append(X, n), k) <=> Ran(X, k) \/ k = n
           /\ /\ \A i, j \in DOMAIN X : i < j => X[i] < X[j]
              /\ \A k \in CallId : Ran(X, k) => k < n
              => \A i, j \in DOMAIN Append(X, n) :
                    i < j => Append(X, n)[i] < Append(X, n)[j]
<1> DEFINE Y == Append(X, n)
<1>1. /\ DOMAIN Y = 1..(Len(X) + 1) /\ DOMAIN X = 1..Len(X) /\ Len(X) \in Nat
      /\ \A i \in DOMAIN X : Y[i] = X[i] /\ X[i] \in CallId
      /\ Y[Len(X) + 1] = n
    BY AppendProperties
<1>2. /\ \A i \in DOMAIN Y : i \in Nat /\ (i \in DOMAIN X \/ i = Len(X) + 1)
      /\ Len(X) + 1 \in DOMAIN Y
      /\ \A i \in DOMAIN X : i \in DOMAIN Y /\ i < Len(X) + 1
    BY <1>1
<1> HIDE DEF Y
<1>3. \A k : Ran(Y, k) <=> Ran(X, k) \/ k = n
    BY <1>1, <1>2 DEF Ran
<1>4. ASSUME \A i, j \in DOMAIN X : i < j => X[i] < X[j],
             \A k \in CallId : Ran(X, k) => k < n,
             NEW i \in DOMAIN Y, NEW j \in DOMAIN Y, i < j
      PROVE  Y[i] < Y[j]
  <2>1. i \in DOMAIN X
    BY <1>1, <1>4
  <2>2. CASE j \in DOMAIN X
    BY <1>1, <1>4, <2>1, <2>2
  <2>3. CASE j = Len(X) + 1
    <3>1. Ran(X, X[i]) /\ X[i] \in CallId
      BY <1>1, <2>1 DEF Ran
    <3> QED
      BY <1>1, <1>4, <2>1, <2>3, <3>1
  <2> QED
    BY <1>2, <2>2, <2>3
<1> QED
    BY <1>3, <1>4 DEF Y

\* The first call in the service's inbox: it was not taken before, it comes before
\* the others, and no reply to it is on the way or received.
LEMMA CallTaken ==
    ASSUME NEW f \in Funcs, NEW q, NEW r, NEW H, NEW R, NEW X, NEW N, NEW linked,
           Values(q, r, H, R, X, N), CallInv(f, q, r, H, R, X, N, linked),
           q # <<>>, Head(q).func = f
    PROVE  /\ Head(q).id \in CallId /\ Head(q).id <= N
           /\ ~Taken(f, r, H, R, X, Head(q).id)
           /\ \A k \in CallId : Taken(f, r, H, R, X, k) => k < Head(q).id
           /\ \A k : Has(q, f, k) <=> Has(Tail(q), f, k) \/ k = Head(q).id
           /\ \A k : Has(Tail(q), f, k) => Head(q).id < k
           /\ Rising(Tail(q), f) /\ Tail(q) \in Seq(Message)
<1> DEFINE n == Head(q).id
<1>1. /\ q \in Seq(Message)
      /\ \A k : Has(q, f, k) <=> Has(Tail(q), f, k) \/ k = n
      /\ Rising(Tail(q), f)
      /\ \A k : Has(Tail(q), f, k) => n < k
    BY TakenHas DEF Values, CallInv, InOrder
<1>2. n \in CallId /\ Has(q, f, n)
    BY <1>1, HasNumber
<1>3. n <= N /\ \A k \in CallId : Taken(f, r, H, R, X, k) => k < n
    BY <1>2 DEF CallInv, InOrder
<1>4. ~Taken(f, r, H, R, X, n)
    BY <1>2, <1>3, Numbers
<1>5. Tail(q) \in Seq(Message)
    BY <1>1, HeadTailProperties
<1> QED
    BY <1>1, <1>2, <1>3, <1>4, <1>5

\* The service takes a call and executes it; the closure of a two-way function is
\* kept.
LEMMA ExecutedInv ==
    ASSUME NEW f \in Funcs, NEW q, NEW r, NEW H, NEW R, NEW X, NEW N, NEW linked,
           Values(q, r, H, R, X, N), CallInv(f, q, r, H, R, X, N, linked),
           q # <<>>, Head(q).func = f
    PROVE  /\ CallInv(f, Tail(q), r, H \cup {Head(q).id}, R, Append(X, Head(q).id), N,
                      linked)
           /\ f \notin TwoWay =>
                 CallInv(f, Tail(q), r, H, R, Append(X, Head(q).id), N, linked)
<1> DEFINE n == Head(q).id
           t == Tail(q)
           Y == Append(X, n)
           G == H \cup {n}
<1>1. /\ n \in CallId /\ n <= N
      /\ ~Taken(f, r, H, R, X, n)
      /\ \A k \in CallId : Taken(f, r, H, R, X, k) => k < n
      /\ \A k : Has(q, f, k) <=> Has(t, f, k) \/ k = n
      /\ \A k : Has(t, f, k) => n < k
      /\ Rising(t, f)
    BY CallTaken
<1>2. /\ \A k : Ran(Y, k) <=> Ran(X, k) \/ k = n
      /\ \A i, j \in DOMAIN Y : i < j => Y[i] < Y[j]
  <2>1. /\ \A i, j \in DOMAIN X : i < j => X[i] < X[j]
        /\ \A k \in CallId : Ran(X, k) => k < n
    BY <1>1 DEF CallInv, InOrder, Taken
  <2> QED
    BY <1>1, <2>1, RanAppended DEF Values
<1> HIDE DEF n, t, Y
<1>3. InOrder(f, t, r, G, R, Y, N) /\ InOrder(f, t, r, H, R, Y, N)
    BY <1>1, <1>2 DEF CallInv, InOrder, Taken
<1>4. ~Has(r, f, n) /\ ~Refuses(r, f, n) /\ R[n] = "none"
    BY <1>1 DEF Taken, Has, Refuses
<1>5. RepliedOnce(f, r, G, R, Y) /\ RepliedOnce(f, r, H, R, Y)
    BY <1>2, <1>4 DEF CallInv, RepliedOnce
<1>6. linked /\ f \in TwoWay => Accounted(f, t, r, G, R, N)
    BY <1>1 DEF CallInv, Accounted
<1> QED
    BY <1>3, <1>5, <1>6 DEF CallInv, n, t, Y

\* The service takes a call and refuses it, and the reply gets through or not.
LEMMA RefusedInv ==
    ASSUME NEW f \in TwoWay, NEW q, NEW r, NEW H, NEW R, NEW X, NEW N, NEW linked,
           Values(q, r, H, R, X, N), CallInv(f, q, r, H, R, X, N, linked),
           q # <<>>, Head(q).func = f
    PROVE  /\ CallInv(f, Tail(q),
                      Append(r, serialize_call_result(f, Head(q).id, "in_progress")),
                      H, R, X, N, linked)
           /\ CallInv(f, Tail(q), r, H, R, X, N, FALSE)
<1> DEFINE n == Head(q).id
           t == Tail(q)
           m == serialize_call_result(f, n, "in_progress")
           s == Append(r, m)
<1>0. f \in Funcs
    BY DEF TwoWay
<1>1. /\ n \in CallId /\ n <= N
      /\ ~Taken(f, r, H, R, X, n)
      /\ \A k \in CallId : Taken(f, r, H, R, X, k) => k < n
      /\ \A k : Has(q, f, k) <=> Has(t, f, k) \/ k = n
      /\ \A k : Has(t, f, k) => n < k
      /\ Rising(t, f)
    BY <1>0, CallTaken
<1>2. m \in Message /\ m.func = f /\ m.id = n /\ m.body = "in_progress"
    BY <1>1, Numbers DEF serialize_call_result
<1>3. ~Has(r, f, n) /\ ~Ran(X, n) /\ R[n] = "none" /\ n \notin H
    BY <1>1 DEF Taken
<1>4. /\ \A k : Has(s, f, k) <=> Has(r, f, k) \/ k = n
      /\ \A k : Refuses(s, f, k) <=> Refuses(r, f, k) \/ k = n
      /\ Distinct(s, f)
  <2>1. Distinct(r, f) /\ r \in Seq(Message)
    BY DEF CallInv, RepliedOnce, Values
  <2>2. /\ \A k : Has(s, m.func, k) <=> Has(r, m.func, k) \/ k = m.id
        /\ \A k : Refuses(s, m.func, k) <=>
              Refuses(r, m.func, k) \/ (k = m.id /\ m.body = "in_progress")
        /\ Distinct(r, m.func) /\ ~Has(r, m.func, m.id) => Distinct(s, m.func)
    BY <1>2, <2>1, AppendedHas
  <2> HIDE DEF m, s
  <2> QED
    BY <1>2, <1>3, <2>1, <2>2
<1> HIDE DEF n, t, m, s
<1>5. InOrder(f, t, s, H, R, X, N) /\ InOrder(f, t, r, H, R, X, N)
    BY <1>1, <1>4 DEF CallInv, InOrder, Taken
<1>6. RepliedOnce(f, s, H, R, X)
    BY <1>3, <1>4 DEF CallInv, RepliedOnce
<1>7. linked => Accounted(f, t, s, H, R, N)
    BY <1>1, <1>4 DEF CallInv, Accounted
<1> QED
    BY <1>5, <1>6, <1>7 DEF CallInv, n, t, m, s

\* A closure is called, and the result gets through or not.
LEMMA ResultInv ==
    ASSUME NEW f \in TwoWay, NEW q, NEW r, NEW H, NEW R, NEW X, NEW N, NEW linked,
           Values(q, r, H, R, X, N), CallInv(f, q, r, H, R, X, N, linked), NEW n \in H
    PROVE  /\ CallInv(f, q, Append(r, serialize_call_result(f, n, "value")),
                      H \ {n}, R, X, N, linked)
           /\ CallInv(f, q, r, H \ {n}, R, X, N, FALSE)
<1> DEFINE m == serialize_call_result(f, n, "value")
           s == Append(r, m)
<1>1. n \in CallId /\ ~Has(r, f, n) /\ R[n] = "none"
    BY DEF Values, CallInv, RepliedOnce
<1>2. m \in Message /\ m.func = f /\ m.id = n /\ m.body = "value"
    BY <1>1, Numbers DEF serialize_call_result
<1>3. /\ \A k : Has(s, f, k) <=> Has(r, f, k) \/ k = n
      /\ \A k : Refuses(s, f, k) <=> Refuses(r, f, k)
      /\ Distinct(s, f)
  <2>1. Distinct(r, f) /\ r \in Seq(Message)
    BY DEF CallInv, RepliedOnce, Values
  <2> QED
    BY <1>1, <1>2, <2>1, AppendedHas
<1> HIDE DEF m, s
<1>4. InOrder(f, q, s, H \ {n}, R, X, N) /\ InOrder(f, q, r, H \ {n}, R, X, N)
    BY <1>1, <1>3 DEF CallInv, InOrder, Taken
<1>5. RepliedOnce(f, s, H \ {n}, R, X) /\ RepliedOnce(f, r, H \ {n}, R, X)
    BY <1>1, <1>3 DEF CallInv, RepliedOnce
<1>6. linked => Accounted(f, q, s, H \ {n}, R, N)
    BY <1>1, <1>3 DEF CallInv, Accounted
<1> QED
    BY <1>4, <1>5, <1>6 DEF CallInv, m, s

\* The peer receives a reply.
LEMMA ReceivedInv ==
    ASSUME NEW f \in Funcs, NEW q, NEW r, NEW H, NEW R, NEW X, NEW N, NEW linked,
           Values(q, r, H, R, X, N), CallInv(f, q, r, H, R, X, N, linked),
           r # <<>>, Head(r).func = f, Head(r).body \in {"value", "in_progress"}
    PROVE  CallInv(f, q, Tail(r), H,
                   [R EXCEPT ![Head(r).id] =
                       IF @ = "none" THEN Head(r).body ELSE "twice"],
                   X, N, linked)
<1> DEFINE n == Head(r).id
           b == Head(r).body
           t == Tail(r)
           S == [R EXCEPT ![n] = IF @ = "none" THEN b ELSE "twice"]
<1>1. /\ r \in Seq(Message) /\ Distinct(r, f)
      /\ R \in [CallId -> {"none", "value", "in_progress", "twice"}]
    BY DEF Values, CallInv, RepliedOnce
<1>2. /\ \A k : Has(r, f, k) <=> Has(t, f, k) \/ k = n
      /\ \A k : Refuses(r, f, k) <=> Refuses(t, f, k) \/ (k = n /\ b = "in_progress")
      /\ Distinct(t, f) /\ ~Has(t, f, n)
    BY <1>1, TakenHas
<1>3. n \in CallId /\ Has(r, f, n)
    BY <1>1, <1>2, HasNumber
<1>4. R[n] = "none" /\ n \notin H
    BY <1>3 DEF CallInv, RepliedOnce
<1>5. S[n] = b /\ \A k \in CallId : k # n => S[k] = R[k]
    BY <1>1, <1>3, <1>4
<1>6. b \in {"value", "in_progress"}
    OBVIOUS
<1> HIDE DEF n, b, t, S
<1>7. InOrder(f, q, t, H, S, X, N)
    BY <1>2, <1>3, <1>5 DEF CallInv, InOrder, Taken
<1>8. RepliedOnce(f, t, H, S, X)
    BY <1>2, <1>3, <1>4, <1>5, <1>6 DEF CallInv, RepliedOnce
<1>9. linked /\ f \in TwoWay => Accounted(f, q, t, H, S, N)
    BY <1>2, <1>5, <1>6 DEF CallInv, Accounted
<1> QED
    BY <1>7, <1>8, <1>9 DEF CallInv, n, b, t, S

------------------------------------------------------------------------------
(***************************************************************************)
(* The types.                                                              *)
(***************************************************************************)

\* A peer keeps the types of the transports and its own.
LEMMA PeerStepType ==
    ASSUME TransportTypeOK, PeerTypeOK, NEW c \in Clients, PeerStep(c)
    PROVE  TransportTypeOK' /\ PeerTypeOK'
<1>0. InboxOK(inbox)
    BY DEF TransportTypeOK, InboxOK
<1>1. CASE PeerOpen(c)
    BY <1>1, Ends DEF PeerOpen, TransportTypeOK, PeerTypeOK, peerVars
<1>2. CASE PeerCloses(c)
    BY <1>2, Closing DEF PeerCloses, TransportTypeOK, PeerTypeOK, peerVars
<1>3. CASE PeerRecvError(c)
    BY <1>3, Closing, Ends DEF PeerRecvError, TransportTypeOK, PeerTypeOK, peerVars
<1>4. CASE PeerHandlesHeader(c)
    BY <1>4, Ends
    DEF PeerHandlesHeader, HandleHeader, ReadStarted, TransportTypeOK, PeerTypeOK, peerVars
<1>5. CASE PeerReceives(c)
  <2> DEFINE m == Head(inbox[Cli(c)])
  <2>1. reading[Cli(c)] = "ready" /\ Cli(c) \in End
    BY <1>5, Ends DEF PeerReceives, MessageArrived
  <2>2. /\ InboxOK(inbox')
        /\ \A d \in End : d # Cli(c) /\ inbox[d] # <<>> => inbox'[d] # <<>>
    BY <1>5, <2>1, ConsumedOK DEF PeerReceives
  <2>3. ReadStarted(Cli(c)) \in {"wait", "failed"}
    BY DEF ReadStarted
  <2>4. /\ reading' \in [End -> {"none", "wait", "ready", "failed", "aborted"}]
        /\ \A d \in End : reading'[d] = "ready" => inbox'[d] # <<>>
    BY <1>5, <2>1, <2>2, <2>3 DEF PeerReceives, TransportTypeOK
  <2>5. TransportTypeOK'
    BY <1>5, <2>2, <2>4, TransportTypeByParts DEF PeerReceives, TransportTypeOK
  <2>6. m.body \in {"value", "in_progress"} \/ m.func = BroadcastFunc
    BY <2>1, Inboxes DEF ResultMessages, EventMessages
  <2>7. reply' \in [Clients -> [Funcs -> [CallId ->
                       {"none", "value", "in_progress", "twice"}]]]
    BY <1>5, <2>6 DEF PeerReceives, PeerTypeOK
  <2> QED
    BY <1>5, <2>5, <2>7 DEF PeerReceives, PeerTypeOK
<1>6. ASSUME NEW f \in Funcs, PeerCalls(c, f)
      PROVE  TransportTypeOK' /\ PeerTypeOK'
  <2>1. calls[c][f] + 1 \in CallId /\ calls[c][f] + 1 \in 0..MaxCalls
    BY <1>6, BoundsAssumption DEF PeerCalls, PeerTypeOK, CallId
  <2>2. serialize_call(f, calls[c][f] + 1) \in CallMessages
    BY <2>1 DEF serialize_call, CallMessages
  <2>3. PeerTypeOK'
    BY <1>6, <2>1 DEF PeerCalls, PeerTypeOK
  <2>4. CASE inbox' = Written(inbox, Cli(c), serialize_call(f, calls[c][f] + 1))
             /\ UNCHANGED <<myState, reading>>
    <3>1. /\ InboxOK(inbox')
          /\ \A e \in End : inbox[e] # <<>> => inbox'[e] # <<>>
      BY <1>0, <2>2, <2>4, WrittenOK
    <3>2. TransportTypeOK'
      BY <1>6, <2>4, <3>1, TransportTypeByParts DEF PeerCalls, TransportTypeOK
    <3> QED
      BY <2>3, <3>2
  <2>5. CASE /\ myState' = StateClosed({Cli(c)})
             /\ reading' = ReadsCancelled({Cli(c)})
             /\ UNCHANGED inbox
    <3>1. TransportTypeOK'
      BY <1>6, <2>5, Closing DEF PeerCalls, TransportTypeOK
    <3> QED
      BY <2>3, <3>1
  <2> QED
    BY <1>6, <2>4, <2>5 DEF PeerCalls
<1> QED
    BY <1>1, <1>2, <1>3, <1>4, <1>5, <1>6 DEF PeerStep, PeerLoopStep

\* The steps of the three parties: a peer, the service, the operating system.
PeerNext(c) == PeerStep(c) /\ UNCHANGED serviceVars
ServiceNext == ServiceStep /\ UNCHANGED peerVars
SystemNext ==
    /\ \/ \E e \in End : ReadCompletes(e) \/ ReadFails(e)
       \/ \E c \in Clients : LinkBreaks(c)
    /\ UNCHANGED <<serviceVars, peerVars>>

LEMMA NextParties == Next <=> (\E c \in Clients : PeerNext(c)) \/ ServiceNext \/ SystemNext
BY DEF Next, PeerNext, ServiceNext, SystemNext

(***************************************************************************)
(* Every state variable keeps its type whatever calls the peers write: the *)
(* inboxes hold the right kind of message and a completed read finds one.  *)
(***************************************************************************)
THEOREM TypeCorrect == Spec => []TypeOK
<1>1. Init => TypeOK
  <2> SUFFICES ASSUME Init PROVE TypeOK
    OBVIOUS
  <2>1. TransportTypeOK /\ ServiceTypeOK
    BY ServiceInitType DEF Init
  <2>2. PeerTypeOK
    BY BoundsAssumption DEF Init, PeerTypeOK
  <2> QED
    BY <2>1, <2>2 DEF TypeOK
<1>2. TypeOK /\ [Next]_vars => TypeOK'
  <2> SUFFICES ASSUME TypeOK, [Next]_vars
               PROVE  TypeOK'
    OBVIOUS
  <2> USE DEF TypeOK
  <2>1. ASSUME NEW c \in Clients, PeerNext(c)
        PROVE  TypeOK'
    BY <2>1, PeerStepType DEF PeerNext, serviceVars, ServiceTypeOK
  <2>2. CASE ServiceNext
    BY <2>2, ServiceStepType DEF ServiceNext, peerVars, PeerTypeOK
  <2>3. CASE SystemNext
    <3>1. TransportTypeOK'
      BY <2>3, SystemStepType DEF SystemNext
    <3> QED
      BY <2>3, <3>1 DEF SystemNext, serviceVars, peerVars, ServiceTypeOK, PeerTypeOK
  <2>4. CASE UNCHANGED vars
    BY <2>4
    DEF vars, transportVars, serviceVars, peerVars, TransportTypeOK, ServiceTypeOK,
        PeerTypeOK
  <2> QED
    BY <2>1, <2>2, <2>3, <2>4, NextParties
<1> QED
    BY <1>1, <1>2, PTL DEF Spec

\* What the types say about the calls of f by c.
LEMMA CallTypes ==
    ASSUME TypeOK, NEW c \in Clients, NEW f \in Funcs
    PROVE  /\ Values(inbox[Srv(c)], inbox[Cli(c)], HeldIds(c, f), reply[c][f],
                     executed[c][f], calls[c][f])
           /\ inbox[Srv(c)] \in Seq(Message) /\ inbox[Cli(c)] \in Seq(Message)
<1>1. inbox[Srv(c)] \in Seq(Message) /\ inbox[Cli(c)] \in Seq(Message)
    BY Ends DEF TypeOK, TransportTypeOK, Message
<1>2. HeldIds(c, f) \in SUBSET CallId
    BY DEF TypeOK, ServiceTypeOK, Closures, Held, HeldIds
<1>3. /\ reply[c][f] \in [CallId -> {"none", "value", "in_progress", "twice"}]
      /\ calls[c][f] \in 0..MaxCalls
    BY DEF TypeOK, PeerTypeOK
<1>4. executed[c][f] \in Seq(CallId)
    BY DEF TypeOK, ServiceTypeOK
<1> QED
    BY <1>1, <1>2, <1>3, <1>4 DEF Values

\* A step that has nothing to do with these calls keeps what is said of them.
LEMMA KeptCall ==
    ASSUME TypeOK, TypeOK', NEW c \in Clients, NEW f \in Funcs, CallOK(c, f),
           Same(inbox[Srv(c)], inbox'[Srv(c)], f),
           Same(inbox[Cli(c)], inbox'[Cli(c)], f),
           Held(c, f)' = Held(c, f), reply'[c][f] = reply[c][f],
           executed'[c][f] = executed[c][f], calls'[c][f] = calls[c][f],
           up'[c] => up[c]
    PROVE  CallOK(c, f)'
<1>1. /\ Values(inbox[Srv(c)], inbox[Cli(c)], HeldIds(c, f), reply[c][f],
                executed[c][f], calls[c][f])
      /\ inbox'[Srv(c)] \in Seq(Message) /\ inbox'[Cli(c)] \in Seq(Message)
    BY CallTypes, Ends DEF TypeOK, TransportTypeOK, Message
<1>2. CallInv(f, inbox'[Srv(c)], inbox'[Cli(c)], HeldIds(c, f), reply[c][f],
              executed[c][f], calls[c][f], up'[c])
    BY <1>1, KeptInv DEF CallOK
<1>3. HeldIds(c, f)' = HeldIds(c, f)
    BY DEF HeldIds
<1> QED
    BY <1>2, <1>3 DEF CallOK

\* In particular one that touches neither inbox.
LEMMA QuietCall ==
    ASSUME TypeOK, TypeOK', NEW c \in Clients, NEW f \in Funcs, CallOK(c, f),
           inbox'[Srv(c)] = inbox[Srv(c)], inbox'[Cli(c)] = inbox[Cli(c)],
           Held(c, f)' = Held(c, f), reply'[c][f] = reply[c][f],
           executed'[c][f] = executed[c][f], calls'[c][f] = calls[c][f],
           up'[c] => up[c]
    PROVE  CallOK(c, f)'
BY CallTypes, SameInbox, KeptCall

------------------------------------------------------------------------------
(***************************************************************************)
(* The steps of a peer.                                                    *)
(***************************************************************************)

\* The values after a peer's step that closes its end or takes its first message.
LEMMA PeerEnds ==
    ASSUME TypeOK, NEW d \in Clients
    PROVE  /\ \A e \in End : e # Cli(d) => /\ StateClosed({Cli(d)})[e] = myState[e]
                                           /\ ReadsCancelled({Cli(d)})[e] = reading[e]
                                           /\ Consumed(Cli(d))[e] = inbox[e]
           /\ StateClosed({Cli(d)})[Cli(d)] = "NEW" => myState[Cli(d)] = "NEW"
           /\ \A c \in Clients : c # d => LinksDown({d})[c] = up[c]
           /\ LinksDown({d})[d] = FALSE
           /\ \A m : Written(inbox, Cli(d), m) =
                        IF up[d] THEN [inbox EXCEPT ![Srv(d)] = Append(@, m)] ELSE inbox
<1> USE DEF TypeOK, TransportTypeOK
<1>1. Cli(d) \in End /\ Cli(d)[1] = d /\ Peer(Cli(d)) = Srv(d)
    BY Ends
<1>2. /\ \A e \in End : e # Cli(d) => /\ StateClosed({Cli(d)})[e] = myState[e]
                                      /\ ReadsCancelled({Cli(d)})[e] = reading[e]
                                      /\ Consumed(Cli(d))[e] = inbox[e]
      /\ StateClosed({Cli(d)})[Cli(d)] = "NEW" => myState[Cli(d)] = "NEW"
    BY <1>1 DEF StateClosed, ReadsCancelled, Consumed
<1>3. /\ \A c \in Clients : c # d => LinksDown({d})[c] = up[c]
      /\ LinksDown({d})[d] = FALSE
    BY DEF LinksDown
<1>4. \A m : Written(inbox, Cli(d), m) =
                 IF up[d] THEN [inbox EXCEPT ![Srv(d)] = Append(@, m)] ELSE inbox
    BY <1>1 DEF Written
<1> QED
    BY <1>2, <1>3, <1>4

\* A peer changes nothing of the service's ends but their inboxes, and nothing of
\* the other connections; only open() makes a connection, once.
LEMMA PeerFrame ==
    ASSUME TypeOK, NEW d \in Clients, PeerStep(d)
    PROVE  /\ \A e \in End : e # Cli(d) => /\ myState'[e] = myState[e]
                                           /\ reading'[e] = reading[e]
           /\ UNCHANGED myListener
           /\ \A c \in Clients : c # d =>
                 /\ inbox'[Srv(c)] = inbox[Srv(c)] /\ inbox'[Cli(c)] = inbox[Cli(c)]
                 /\ up'[c] = up[c] /\ (c \in backlog' <=> c \in backlog)
                 /\ calls'[c] = calls[c] /\ reply'[c] = reply[c]
           /\ \/ PeerOpen(d)
              \/ /\ up'[d] => up[d]
                 /\ UNCHANGED backlog
                 /\ myState'[Cli(d)] = "NEW" => myState[Cli(d)] = "NEW"
                 /\ calls'[d] # calls[d] => myState'[Cli(d)] # "NEW"
<1> DEFINE Frame ==
           /\ \A e \in End : e # Cli(d) => /\ myState'[e] = myState[e]
                                           /\ reading'[e] = reading[e]
           /\ UNCHANGED myListener
           /\ \A c \in Clients : c # d =>
                 /\ inbox'[Srv(c)] = inbox[Srv(c)] /\ inbox'[Cli(c)] = inbox[Cli(c)]
                 /\ up'[c] = up[c] /\ (c \in backlog' <=> c \in backlog)
                 /\ calls'[c] = calls[c] /\ reply'[c] = reply[c]
           /\ \/ PeerOpen(d)
              \/ /\ up'[d] => up[d]
                 /\ UNCHANGED backlog
                 /\ myState'[Cli(d)] = "NEW" => myState[Cli(d)] = "NEW"
                 /\ calls'[d] # calls[d] => myState'[Cli(d)] # "NEW"
<1> USE DEF TypeOK, TransportTypeOK, PeerTypeOK
<1>0. /\ Cli(d) \in End /\ Srv(d) \in End
      /\ \A c \in Clients : /\ Cli(c) \in End /\ Srv(c) \in End /\ Srv(c) # Cli(d)
                            /\ Srv(d) # Cli(c)
                            /\ c # d => Cli(c) # Cli(d) /\ Srv(c) # Srv(d)
    BY Ends
<1>00. /\ \A e \in End : e # Cli(d) => /\ StateClosed({Cli(d)})[e] = myState[e]
                                        /\ ReadsCancelled({Cli(d)})[e] = reading[e]
                                        /\ Consumed(Cli(d))[e] = inbox[e]
       /\ StateClosed({Cli(d)})[Cli(d)] = "NEW" => myState[Cli(d)] = "NEW"
       /\ \A c \in Clients : c # d => LinksDown({d})[c] = up[c]
       /\ LinksDown({d})[d] = FALSE
    BY PeerEnds
<1>01. ASSUME NEW m, NEW c \in Clients, c # d
       PROVE  /\ Written(inbox, Cli(d), m)[Srv(c)] = inbox[Srv(c)]
              /\ Written(inbox, Cli(d), m)[Cli(c)] = inbox[Cli(c)]
  <2>1. \/ Written(inbox, Cli(d), m) = inbox
        \/ Written(inbox, Cli(d), m) = [inbox EXCEPT ![Srv(d)] = Append(@, m)]
    BY Ends DEF Written
  <2> QED
    BY <1>0, <1>01, <2>1
<1>1. CASE PeerOpen(d)
    BY <1>0, <1>1 DEF PeerOpen, peerVars
<1>2. CASE PeerCloses(d)
    BY <1>0, <1>00, <1>2 DEF PeerCloses, peerVars
<1>3. CASE PeerRecvError(d)
    BY <1>0, <1>00, <1>3 DEF PeerRecvError, peerVars
<1>4. CASE PeerHandlesHeader(d)
    BY <1>0, <1>4 DEF PeerHandlesHeader, HandleHeader, peerVars
<1>5. CASE PeerReceives(d)
  <2>1. \A c \in Clients : c # d => reply'[c] = reply[c]
    BY <1>5 DEF PeerReceives
  <2>2. \A c \in Clients : c # d =>
            inbox'[Srv(c)] = inbox[Srv(c)] /\ inbox'[Cli(c)] = inbox[Cli(c)]
    BY <1>0, <1>00, <1>5 DEF PeerReceives
  <2> QED
    BY <1>0, <1>5, <2>1, <2>2 DEF PeerReceives
<1>6. ASSUME NEW f \in Funcs, PeerCalls(d, f)
      PROVE  Frame
  <2>1. \A c \in Clients : c # d => calls'[c] = calls[c] /\ reply'[c] = reply[c]
    BY <1>6 DEF PeerCalls
  <2>2. UNCHANGED <<myListener, up, backlog>> /\ myState[Cli(d)] = "OPEN"
    BY <1>6 DEF PeerCalls, is_open
  <2>3. CASE inbox' = Written(inbox, Cli(d), serialize_call(f, calls[d][f] + 1))
             /\ UNCHANGED <<myState, reading>>
    <3>1. \A c \in Clients : c # d =>
              inbox'[Srv(c)] = inbox[Srv(c)] /\ inbox'[Cli(c)] = inbox[Cli(c)]
      BY <1>01, <2>3
    <3> QED
      BY <2>1, <2>2, <2>3, <3>1
  <2>4. CASE /\ myState' = StateClosed({Cli(d)})
             /\ reading' = ReadsCancelled({Cli(d)})
             /\ UNCHANGED inbox
    BY <1>0, <2>1, <2>2, <2>4, <1>00
  <2> QED
    BY <1>6, <2>3, <2>4 DEF PeerCalls
<1> QED
    BY <1>1, <1>2, <1>3, <1>4, <1>5, <1>6 DEF PeerStep, PeerLoopStep

\* The connections under a peer's step.
LEMMA PeerConnections ==
    ASSUME TypeOK, NEW d \in Clients, PeerNext(d), RegisteredIsOpen,
           \A c \in Clients : AcceptOK(c) /\ PeerOK(c)
    PROVE  /\ RegisteredIsOpen'
           /\ \A c \in Clients : AcceptOK(c)' /\ PeerOK(c)'
<1>1. PeerStep(d) /\ UNCHANGED serviceVars
    BY DEF PeerNext
<1>2. /\ \A e \in End : e # Cli(d) => /\ myState'[e] = myState[e]
                                      /\ reading'[e] = reading[e]
      /\ UNCHANGED myListener
      /\ \A c \in Clients : c # d =>
            /\ inbox'[Srv(c)] = inbox[Srv(c)] /\ inbox'[Cli(c)] = inbox[Cli(c)]
            /\ up'[c] = up[c] /\ (c \in backlog' <=> c \in backlog)
            /\ calls'[c] = calls[c] /\ reply'[c] = reply[c]
      /\ \/ PeerOpen(d)
         \/ /\ up'[d] => up[d]
            /\ UNCHANGED backlog
            /\ myState'[Cli(d)] = "NEW" => myState[Cli(d)] = "NEW"
            /\ calls'[d] # calls[d] => myState'[Cli(d)] # "NEW"
    BY <1>1, PeerFrame
<1>3. \A c \in Clients : /\ Cli(c) \in End /\ Srv(c) \in End /\ Srv(c) # Cli(d)
                         /\ c # d => Cli(c) # Cli(d)
    BY Ends
<1>4. RegisteredIsOpen'
    BY <1>1, <1>2, <1>3 DEF RegisteredIsOpen, is_open, serviceVars
<1>5. ASSUME NEW c \in Clients, c # d
      PROVE  AcceptOK(c)' /\ PeerOK(c)'
    BY <1>1, <1>2, <1>3, <1>5 DEF AcceptOK, PeerOK, serviceVars
<1>6. AcceptOK(d)' /\ PeerOK(d)'
  <2>0. /\ AcceptOK(d) /\ PeerOK(d)
        /\ myState'[Srv(d)] = myState[Srv(d)] /\ reading'[Srv(d)] = reading[Srv(d)]
        /\ UNCHANGED <<acceptDone, serving, held>>
    BY <1>1, <1>2, <1>3 DEF serviceVars
  <2>1. CASE PeerOpen(d)
    <3>1. myState[Cli(d)] = "NEW" /\ myState'[Cli(d)] = "OPEN"
      BY <1>3, <2>1 DEF PeerOpen, TypeOK, TransportTypeOK
    <3> QED
      BY <2>0, <3>1 DEF AcceptOK, PeerOK
  <2>2. CASE ~PeerOpen(d)
    <3>1. /\ up'[d] => up[d]
          /\ UNCHANGED backlog
          /\ myState'[Cli(d)] = "NEW" => myState[Cli(d)] = "NEW"
          /\ calls'[d] # calls[d] => myState'[Cli(d)] # "NEW"
      BY <1>2, <2>2
    <3>2. AcceptOK(d)'
      BY <2>0, <3>1 DEF AcceptOK
    <3>3. PeerOK(d)'
      BY <2>0, <3>1 DEF PeerOK
    <3> QED
      BY <3>2, <3>3
  <2> QED
    BY <2>1, <2>2
<1> QED
    BY <1>4, <1>5, <1>6

\* Nothing was called before the connection was made.
LEMMA OpenCalls ==
    ASSUME TypeOK, NEW c \in Clients, NEW f \in Funcs, PeerOpen(c),
           UNCHANGED serviceVars, PeerOK(c), CallOK(c, f)
    PROVE  CallOK(c, f)'
<1>1. /\ UNCHANGED <<inbox, calls, reply>> /\ calls[c][f] = 0
      /\ executed' = executed /\ held' = held
    BY DEF PeerOpen, PeerOK, peerVars, serviceVars
<1>2. HeldIds(c, f)' = HeldIds(c, f)
    BY <1>1 DEF HeldIds, Held
<1>3. Accounted(f, inbox[Srv(c)], inbox[Cli(c)], HeldIds(c, f), reply[c][f], 0)
    BY Numbers DEF Accounted
<1> QED
    BY <1>1, <1>2, <1>3 DEF CallOK, CallInv

\* The peer writes a call of g.
LEMMA PeerCallsCalls ==
    ASSUME TypeOK, TypeOK', NEW c \in Clients, NEW f \in Funcs, NEW g \in Funcs,
           PeerCalls(c, g), UNCHANGED serviceVars, CallOK(c, f)
    PROVE  CallOK(c, f)'
<1> DEFINE m == serialize_call(g, calls[c][g] + 1)
<1>1. /\ UNCHANGED <<reply, up>> /\ executed' = executed /\ held' = held
      /\ calls[c][g] < MaxCalls
      /\ calls' = [calls EXCEPT ![c][g] = calls[c][g] + 1]
      /\ \/ inbox' = Written(inbox, Cli(c), m)
         \/ WriteMayFail(Cli(c)) /\ UNCHANGED inbox
    BY DEF PeerCalls, serviceVars
<1>2. /\ inbox'[Cli(c)] = inbox[Cli(c)]
      /\ \/ up[c] /\ inbox'[Srv(c)] = Append(inbox[Srv(c)], m)
         \/ ~up[c] /\ inbox'[Srv(c)] = inbox[Srv(c)]
  <2>1. /\ Cli(c) \in End /\ Srv(c) \in End /\ Cli(c) # Srv(c) /\ Cli(c)[1] = c
        /\ Peer(Cli(c)) = Srv(c)
    BY Ends
  <2>2. CASE up[c]
    <3>1. inbox' = [inbox EXCEPT ![Srv(c)] = Append(inbox[Srv(c)], m)]
      BY <1>1, <2>1, <2>2 DEF Written, WriteMayFail
    <3> QED
      BY <2>1, <2>2, <3>1 DEF TypeOK, TransportTypeOK
  <2>3. CASE ~up[c]
    BY <1>1, <2>1, <2>3 DEF Written
  <2> QED
    BY <2>2, <2>3
<1>3. calls[c][g] + 1 \in CallId /\ m.func = g
    BY <1>1, BoundsAssumption DEF TypeOK, PeerTypeOK, CallId, serialize_call
<1>4. m \in Message
    BY <1>3, Numbers
<1>5. Held(c, f)' = Held(c, f) /\ HeldIds(c, f)' = HeldIds(c, f)
    BY <1>1 DEF Held, HeldIds
<1>6. CASE f # g
  <2>1. calls'[c][f] = calls[c][f]
    BY <1>1, <1>6 DEF TypeOK, PeerTypeOK
  <2>2. /\ inbox[Srv(c)] \in Seq(Message) /\ inbox[Cli(c)] \in Seq(Message)
    BY CallTypes
  <2> HIDE DEF m
  <2>3. /\ Same(inbox[Srv(c)], inbox'[Srv(c)], f)
        /\ Same(inbox[Cli(c)], inbox'[Cli(c)], f)
    BY <1>2, <1>3, <1>4, <1>6, <2>2, SameInbox
  <2> QED
    BY <1>1, <1>5, <2>1, <2>3, KeptCall
<1>7. CASE f = g
  <2> DEFINE N == calls[c][f]
  <2>1. calls'[c][f] = N + 1 /\ N < MaxCalls
    BY <1>1, <1>7 DEF TypeOK, PeerTypeOK
  <2>2. Values(inbox[Srv(c)], inbox[Cli(c)], HeldIds(c, f), reply[c][f],
               executed[c][f], N)
    BY CallTypes
  <2>3. /\ CallInv(f, Append(inbox[Srv(c)], serialize_call(f, N + 1)), inbox[Cli(c)],
                   HeldIds(c, f), reply[c][f], executed[c][f], N + 1, up[c])
        /\ CallInv(f, inbox[Srv(c)], inbox[Cli(c)],
                   HeldIds(c, f), reply[c][f], executed[c][f], N + 1, FALSE)
    BY <2>1, <2>2, WrittenInv DEF CallOK
  <2>4. CASE up[c] /\ inbox'[Srv(c)] = Append(inbox[Srv(c)], m)
    BY <1>1, <1>2, <1>5, <1>7, <2>1, <2>3, <2>4 DEF CallOK
  <2>5. CASE ~up[c] /\ inbox'[Srv(c)] = inbox[Srv(c)]
    BY <1>1, <1>2, <1>5, <2>1, <2>3, <2>5 DEF CallOK, CallInv
  <2> QED
    BY <1>2, <2>4, <2>5
<1> QED
    BY <1>6, <1>7

\* The peer receives a reply or an event.
LEMMA PeerReceivesCalls ==
    ASSUME TypeOK, TypeOK', NEW c \in Clients, NEW f \in Funcs,
           PeerReceives(c), UNCHANGED serviceVars, CallOK(c, f)
    PROVE  CallOK(c, f)'
<1> DEFINE r == inbox[Cli(c)]
           m == Head(r)
<1>1. /\ UNCHANGED <<calls, up>> /\ executed' = executed /\ held' = held
      /\ inbox' = Consumed(Cli(c)) /\ reading[Cli(c)] = "ready"
      /\ reply' = IF m.func = BroadcastFunc THEN reply
                  ELSE [reply EXCEPT ![c][m.func][m.id] =
                           IF @ = "none" THEN m.body ELSE "twice"]
    BY DEF PeerReceives, MessageArrived, serviceVars
<1>2. /\ inbox'[Srv(c)] = inbox[Srv(c)] /\ inbox'[Cli(c)] = Tail(r)
      /\ r # <<>> /\ r \in Seq(Message) /\ inbox[Srv(c)] \in Seq(Message)
    BY <1>1, Ends, CallTypes DEF Consumed, TypeOK, TransportTypeOK
<1>3. m \in ResultMessages \cup EventMessages
    BY <1>1, Inboxes DEF TypeOK
<1>4. Held(c, f)' = Held(c, f) /\ HeldIds(c, f)' = HeldIds(c, f)
    BY <1>1 DEF Held, HeldIds
<1> HIDE DEF m
<1>5. CASE m.func # f
  <2>1. reply'[c][f] = reply[c][f]
    BY <1>1, <1>5 DEF TypeOK, PeerTypeOK
  <2>2. /\ Same(inbox[Srv(c)], inbox'[Srv(c)], f)
        /\ Same(inbox[Cli(c)], inbox'[Cli(c)], f)
    BY <1>2, <1>5, SameInbox DEF m
  <2> QED
    BY <1>1, <1>4, <2>1, <2>2, KeptCall
<1>6. CASE m.func = f
  <2>1. f # BroadcastFunc /\ m.body \in {"value", "in_progress"}
    BY <1>3, <1>6, FuncsAssumption DEF ResultMessages, EventMessages
  <2>2. reply'[c][f] = [reply[c][f] EXCEPT ![m.id] =
                            IF @ = "none" THEN m.body ELSE "twice"]
    BY <1>1, <1>6, <2>1 DEF TypeOK, PeerTypeOK
  <2>3. Values(inbox[Srv(c)], r, HeldIds(c, f), reply[c][f], executed[c][f], calls[c][f])
    BY CallTypes
  <2>4. CallInv(f, inbox[Srv(c)], Tail(r), HeldIds(c, f),
                [reply[c][f] EXCEPT ![m.id] = IF @ = "none" THEN m.body ELSE "twice"],
                executed[c][f], calls[c][f], up[c])
    BY <1>2, <1>6, <2>1, <2>3, ReceivedInv DEF CallOK, m
  <2> QED
    BY <1>1, <1>2, <1>4, <2>2, <2>4 DEF CallOK
<1> QED
    BY <1>5, <1>6

\* The calls under any step of a peer.
LEMMA PeerStepCalls ==
    ASSUME TypeOK, TypeOK', NEW d \in Clients, PeerNext(d), PeerOK(d),
           NEW c \in Clients, NEW f \in Funcs, CallOK(c, f)
    PROVE  CallOK(c, f)'
<1>1. PeerStep(d) /\ UNCHANGED serviceVars
    BY DEF PeerNext
<1>2. Held(c, f)' = Held(c, f) /\ executed'[c][f] = executed[c][f]
    BY <1>1 DEF serviceVars, Held
<1>3. CASE c # d
  <2>1. /\ inbox'[Srv(c)] = inbox[Srv(c)] /\ inbox'[Cli(c)] = inbox[Cli(c)]
        /\ up'[c] = up[c] /\ calls'[c] = calls[c] /\ reply'[c] = reply[c]
    BY <1>1, <1>3, PeerFrame
  <2> QED
    BY <1>2, <2>1, QuietCall
<1>4. CASE c = d
  <2>1. CASE PeerOpen(c)
    BY <1>1, <1>4, <2>1, OpenCalls
  <2>2. ASSUME UNCHANGED <<inbox, calls, reply>>, ~PeerOpen(c)
        PROVE  CallOK(c, f)'
    <3>1. up'[c] => up[c]
      BY <1>1, <1>4, <2>2, PeerFrame
    <3> QED
      BY <1>2, <2>2, <3>1, QuietCall
  <2>3. CASE PeerCloses(c) \/ PeerRecvError(c) \/ PeerHandlesHeader(c)
    BY <2>1, <2>2, <2>3
    DEF PeerCloses, PeerRecvError, PeerHandlesHeader, HandleHeader, peerVars
  <2>4. CASE PeerReceives(c)
    BY <1>1, <2>4, PeerReceivesCalls
  <2>5. ASSUME NEW g \in Funcs, PeerCalls(c, g)
        PROVE  CallOK(c, f)'
    BY <1>1, <2>5, PeerCallsCalls
  <2> QED
    BY <1>1, <1>4, <2>1, <2>3, <2>4, <2>5 DEF PeerStep, PeerLoopStep
<1> QED
    BY <1>3, <1>4

------------------------------------------------------------------------------
(***************************************************************************)
(* The steps of the service.                                               *)
(***************************************************************************)

\* Steps without a message for f, and without a closure of f.
LEMMA ServiceKeepsCall ==
    ASSUME TypeOK, TypeOK', ServiceNext, NEW c \in Clients, NEW f \in Funcs, CallOK(c, f),
           Held(c, f)' = Held(c, f), executed'[c][f] = executed[c][f],
           Same(inbox[Srv(c)], inbox'[Srv(c)], f),
           Same(inbox[Cli(c)], inbox'[Cli(c)], f)
    PROVE  CallOK(c, f)'
<1>1. up'[c] => up[c]
    BY ServiceKeepsClientEnds DEF ServiceNext, TypeOK
<1>2. UNCHANGED <<calls, reply>>
    BY DEF ServiceNext, peerVars
<1> QED
    BY <1>1, <1>2, KeptCall

\* Steps without any message or closure.
LEMMA QuietServiceSteps ==
    ASSUME TypeOK, TypeOK', ServiceNext, NEW c \in Clients, NEW f \in Funcs, CallOK(c, f),
           UNCHANGED <<inbox, held, executed>>
    PROVE  CallOK(c, f)'
<1>1. Held(c, f)' = Held(c, f)
    BY DEF Held
<1> QED
    BY <1>1, CallTypes, SameInbox, ServiceKeepsCall

\* Events are no replies.
LEMMA EventCalls ==
    ASSUME TypeOK, TypeOK', ServiceNext, NEW c \in Clients, NEW f \in Funcs, CallOK(c, f),
           NEW C, EventWritten(C), events < MaxEvents, UNCHANGED <<held, executed>>
    PROVE  CallOK(c, f)'
<1>1. Held(c, f)' = Held(c, f)
    BY DEF Held
<1>2. /\ serialize_event(events + 1) \in Message
      /\ serialize_event(events + 1).func # f
  <2>1. events + 1 \in 1..MaxEvents
    BY BoundsAssumption DEF TypeOK, ServiceTypeOK
  <2> QED
    BY <2>1, FuncsAssumption DEF serialize_event, Message, EventMessages
<1>3. /\ inbox'[Srv(c)] = inbox[Srv(c)]
      /\ \/ inbox'[Cli(c)] = inbox[Cli(c)]
         \/ inbox'[Cli(c)] = Append(inbox[Cli(c)], serialize_event(events + 1))
    BY Ends DEF EventWritten
<1> QED
    BY <1>1, <1>2, <1>3, CallTypes, SameInbox, ServiceKeepsCall

\* A call of g by d arrives: what taking it does to the inboxes.
LEMMA CallArrives ==
    ASSUME TypeOK, NEW d \in Clients, NEW g \in Funcs, CallArrived(d, g)
    PROVE  /\ inbox[Srv(d)] # <<>> /\ Head(inbox[Srv(d)]).func = g
           /\ CallNumber(d) = Head(inbox[Srv(d)]).id /\ CallNumber(d) \in CallId
           /\ Consumed(Srv(d)) \in [End -> Seq(Message) \cup {Tail(inbox[Srv(d)])}]
           /\ Consumed(Srv(d))[Srv(d)] = Tail(inbox[Srv(d)])
           /\ \A e \in End : e # Srv(d) => Consumed(Srv(d))[e] = inbox[e]
<1>1. Srv(d) \in End /\ reading[Srv(d)] = "ready"
    BY Ends DEF CallArrived, MessageArrived
<1>2. inbox[Srv(d)] # <<>> /\ Head(inbox[Srv(d)]) \in CallMessages
    BY <1>1, Inboxes DEF TypeOK, TransportTypeOK
<1>3. inbox \in [End -> Seq(Message)]
    BY DEF TypeOK, TransportTypeOK, Message
<1> QED
    BY <1>1, <1>2, <1>3 DEF CallArrived, CallNumber, Consumed, CallMessages

\* A call of another client or function is taken; its reply goes to that client.
LEMMA OtherTaken ==
    ASSUME TypeOK, TypeOK', ServiceNext, NEW d \in Clients, NEW g \in Funcs,
           CallArrived(d, g), NEW c \in Clients, NEW f \in Funcs, c # d \/ f # g,
           CallOK(c, f), Held(c, f)' = Held(c, f), executed'[c][f] = executed[c][f],
           \/ inbox' = Consumed(Srv(d))
           \/ \E m \in Message : /\ m.func = g
                                 /\ inbox' = Written(Consumed(Srv(d)), Srv(d), m)
    PROVE  CallOK(c, f)'
<1>1. /\ inbox[Srv(d)] # <<>> /\ Head(inbox[Srv(d)]).func = g
      /\ Consumed(Srv(d)) \in [End -> Seq(Message) \cup {Tail(inbox[Srv(d)])}]
      /\ Consumed(Srv(d))[Srv(d)] = Tail(inbox[Srv(d)])
      /\ \A e \in End : e # Srv(d) => Consumed(Srv(d))[e] = inbox[e]
    BY CallArrives
<1>2. /\ Srv(c) \in End /\ Cli(c) \in End /\ Srv(d) \in End /\ Cli(d) \in End
      /\ Cli(c) # Srv(d) /\ Srv(c) # Cli(d)
      /\ c # d => Srv(c) # Srv(d) /\ Cli(c) # Cli(d)
      /\ Srv(d)[1] = d /\ Peer(Srv(d)) = Cli(d)
    BY Ends
<1>3. /\ inbox'[Srv(c)] = Consumed(Srv(d))[Srv(c)]
      /\ \/ inbox'[Cli(c)] = inbox[Cli(c)]
         \/ /\ c = d
            /\ \E m \in Message : m.func = g /\ inbox'[Cli(c)] = Append(inbox[Cli(c)], m)
  <2>1. CASE inbox' = Consumed(Srv(d))
    BY <1>1, <1>2, <2>1
  <2>2. ASSUME NEW m \in Message, m.func = g,
               inbox' = Written(Consumed(Srv(d)), Srv(d), m)
        PROVE  /\ inbox'[Srv(c)] = Consumed(Srv(d))[Srv(c)]
               /\ \/ inbox'[Cli(c)] = inbox[Cli(c)]
                  \/ c = d /\ inbox'[Cli(c)] = Append(inbox[Cli(c)], m)
    <3>1. \/ inbox' = Consumed(Srv(d))
          \/ inbox' = [Consumed(Srv(d)) EXCEPT ![Cli(d)] =
                          Append(Consumed(Srv(d))[Cli(d)], m)]
      BY <1>2, <2>2 DEF Written
    <3> QED
      BY <1>1, <1>2, <3>1
  <2> QED
    BY <2>1, <2>2
<1>4. inbox[Srv(c)] \in Seq(Message) /\ inbox[Cli(c)] \in Seq(Message)
    BY CallTypes
<1>5. Same(inbox[Srv(c)], inbox'[Srv(c)], f)
  <2>1. CASE c # d
    BY <1>1, <1>2, <1>3, <1>4, <2>1, SameInbox
  <2>2. CASE c = d
    BY <1>1, <1>3, <1>4, <2>2, SameInbox
  <2> QED
    BY <2>1, <2>2
<1>6. Same(inbox[Cli(c)], inbox'[Cli(c)], f)
  <2>1. CASE inbox'[Cli(c)] = inbox[Cli(c)]
    BY <1>4, <2>1, SameInbox
  <2>2. ASSUME c = d, NEW m \in Message, m.func = g,
               inbox'[Cli(c)] = Append(inbox[Cli(c)], m)
        PROVE  Same(inbox[Cli(c)], inbox'[Cli(c)], f)
    BY <1>4, <2>2, SameInbox
  <2> QED
    BY <1>3, <2>1, <2>2
<1> QED
    BY <1>5, <1>6, ServiceKeepsCall

\* dispatch_func runs the function.
LEMMA ExecutedCalls ==
    ASSUME TypeOK, TypeOK', ServiceNext, NEW d \in Clients, NEW g \in Funcs,
           DispatchOneWay(d, g) \/ DispatchFunc(d, g),
           NEW c \in Clients, NEW f \in Funcs, CallOK(c, f)
    PROVE  CallOK(c, f)'
<1> DEFINE n == CallNumber(d)
           k == [client |-> d, func |-> g, id |-> n]
<1>1. /\ CallArrived(d, g) /\ inbox' = Consumed(Srv(d))
      /\ executed' = [executed EXCEPT ![d][g] = Append(@, n)]
      /\ \/ g \notin TwoWay /\ held' = held
         \/ g \in TwoWay /\ held' = held \cup {k}
    BY DEF DispatchOneWay, DispatchFunc, FuncCalled, TwoWay
<1>2. k.client = d /\ k.func = g /\ k.id = n
    OBVIOUS
<1> HIDE DEF k
<1>3. CASE c # d \/ f # g
  <2>1. Held(c, f)' = Held(c, f)
    BY <1>1, <1>2, <1>3 DEF Held
  <2>2. executed'[c][f] = executed[c][f]
    BY <1>1, <1>3 DEF TypeOK, ServiceTypeOK
  <2> QED
    BY <1>1, <1>3, <2>1, <2>2, OtherTaken
<1>4. CASE c = d /\ f = g
  <2> DEFINE q == inbox[Srv(c)]
  <2>1. /\ q # <<>> /\ Head(q).func = f /\ Head(q).id = n
        /\ inbox'[Srv(c)] = Tail(q) /\ inbox'[Cli(c)] = inbox[Cli(c)]
    BY <1>1, <1>4, CallArrives, Ends
  <2>2. executed'[c][f] = Append(executed[c][f], n)
    BY <1>1, <1>4 DEF TypeOK, ServiceTypeOK
  <2>3. Values(q, inbox[Cli(c)], HeldIds(c, f), reply[c][f], executed[c][f], calls[c][f])
    BY CallTypes
  <2>4. /\ CallInv(f, Tail(q), inbox[Cli(c)], HeldIds(c, f) \cup {Head(q).id},
                   reply[c][f], Append(executed[c][f], Head(q).id), calls[c][f], up[c])
        /\ f \notin TwoWay =>
              CallInv(f, Tail(q), inbox[Cli(c)], HeldIds(c, f), reply[c][f],
                      Append(executed[c][f], Head(q).id), calls[c][f], up[c])
    BY <2>1, <2>3, ExecutedInv DEF CallOK
  <2>5. UNCHANGED <<calls, reply, up>>
    BY DEF ServiceNext, peerVars, DispatchOneWay, DispatchFunc, FuncCalled
  <2>6. CASE f \notin TwoWay /\ held' = held
    <3>1. HeldIds(c, f)' = HeldIds(c, f)
      BY <2>6 DEF HeldIds, Held
    <3> QED
      BY <2>1, <2>2, <2>4, <2>5, <2>6, <3>1 DEF CallOK
  <2>7. CASE held' = held \cup {k}
    <3>1. Held(c, f)' = Held(c, f) \cup {k}
      BY <1>2, <1>4, <2>7 DEF Held
    <3>2. HeldIds(c, f)' = HeldIds(c, f) \cup {n}
      BY <1>2, <3>1 DEF HeldIds
    <3> QED
      BY <2>1, <2>2, <2>4, <2>5, <3>2 DEF CallOK
  <2> QED
    BY <1>1, <1>4, <2>6, <2>7
<1> QED
    BY <1>3, <1>4

\* dispatch_func refuses the call.
LEMMA RefusedCalls ==
    ASSUME TypeOK, TypeOK', ServiceNext, NEW d \in Clients, NEW g \in Funcs,
           DispatchRefused(d, g), NEW c \in Clients, NEW f \in Funcs, CallOK(c, f)
    PROVE  CallOK(c, f)'
<1> DEFINE n == CallNumber(d)
           m == serialize_call_result(g, n, "in_progress")
<1>1. /\ CallArrived(d, g) /\ g \in TwoWay
      /\ UNCHANGED <<up, held, executed, calls, reply>>
      /\ \/ inbox' = Written(Consumed(Srv(d)), Srv(d), m)
         \/ WriteMayFail(Srv(d)) /\ inbox' = Consumed(Srv(d))
    BY DEF DispatchRefused, ServiceNext, peerVars
<1>2. m \in Message /\ m.func = g
    BY <1>1, CallArrives, Numbers DEF serialize_call_result
<1>3. Held(c, f)' = Held(c, f) /\ HeldIds(c, f)' = HeldIds(c, f)
    BY <1>1 DEF Held, HeldIds
<1> HIDE DEF m
<1>4. CASE c # d \/ f # g
    BY <1>1, <1>2, <1>3, <1>4, OtherTaken
<1>5. CASE c = d /\ f = g
  <2> DEFINE q == inbox[Srv(c)]
             r == inbox[Cli(c)]
  <2>1. /\ q # <<>> /\ Head(q).func = f /\ Head(q).id = n
        /\ Consumed(Srv(c)) \in [End -> Seq(Message) \cup {Tail(q)}]
        /\ Consumed(Srv(c))[Srv(c)] = Tail(q) /\ Consumed(Srv(c))[Cli(c)] = r
    BY <1>1, <1>5, CallArrives, Ends
  <2>2. /\ Srv(c) \in End /\ Cli(c) \in End /\ Cli(c) # Srv(c)
        /\ Srv(c)[1] = c /\ Peer(Srv(c)) = Cli(c)
    BY Ends
  <2>3. /\ inbox'[Srv(c)] = Tail(q)
        /\ inbox'[Cli(c)] = IF up[c] THEN Append(r, m) ELSE r
    <3>1. CASE up[c]
      <4>1. inbox' = [Consumed(Srv(c)) EXCEPT ![Cli(c)] =
                          Append(Consumed(Srv(c))[Cli(c)], m)]
        BY <1>1, <1>5, <2>2, <3>1 DEF Written, WriteMayFail
      <4> QED
        BY <2>1, <2>2, <3>1, <4>1
    <3>2. CASE ~up[c]
      <4>1. inbox' = Consumed(Srv(c))
        BY <1>1, <1>5, <2>2, <3>2 DEF Written
      <4> QED
        BY <2>1, <2>2, <3>2, <4>1
    <3> QED
      BY <3>1, <3>2
  <2>4. Values(q, r, HeldIds(c, f), reply[c][f], executed[c][f], calls[c][f])
    BY CallTypes
  <2>5. /\ CallInv(f, Tail(q),
                   Append(r, serialize_call_result(f, Head(q).id, "in_progress")),
                   HeldIds(c, f), reply[c][f], executed[c][f], calls[c][f], up[c])
        /\ CallInv(f, Tail(q), r, HeldIds(c, f), reply[c][f], executed[c][f],
                   calls[c][f], FALSE)
    BY <1>1, <1>5, <2>1, <2>4, RefusedInv DEF CallOK
  <2>6. CASE up[c]
    BY <1>1, <1>3, <1>5, <2>1, <2>3, <2>5, <2>6 DEF CallOK, m
  <2>7. CASE ~up[c]
    BY <1>1, <1>3, <2>3, <2>5, <2>7 DEF CallOK, CallInv
  <2> QED
    BY <2>6, <2>7
<1> QED
    BY <1>4, <1>5

\* A closure is called.
LEMMA ResultCalls ==
    ASSUME TypeOK, TypeOK', ServiceNext, RegisteredIsOpen, PendingMatchesHeld,
           NEW h \in held, SendResult(h) \/ SendResultFails(h) \/ SendResultDisconnected(h),
           NEW c \in Clients, NEW f \in Funcs, CallOK(c, f), AcceptOK(c)
    PROVE  CallOK(c, f)'
<1> DEFINE m == serialize_call_result(h.func, h.id, "value")
<1>1. h.client \in Clients /\ h.func \in TwoWay /\ h.id \in CallId
    BY DEF TypeOK, ServiceTypeOK, Closures
<1>2. m \in Message /\ m.func = h.func
    BY <1>1, Numbers DEF serialize_call_result
<1>3. UNCHANGED <<calls, reply, executed>>
    BY DEF ServiceNext, peerVars, SendResult, SendResultFails, SendResultDisconnected,
           ResultSent, Crash
<1>4. CASE UNCHANGED <<inbox, held>>
    BY <1>3, <1>4, QuietServiceSteps
<1>5. ASSUME held' = held \ {h}, up' = up,
             \/ inbox' = Written(inbox, Srv(h.client), m)
             \/ ~up[h.client] /\ inbox' = inbox
      PROVE  CallOK(c, f)'
  <2>1. /\ Srv(c) \in End /\ Cli(c) \in End
        /\ Cli(h.client) \in End /\ Srv(c) # Cli(h.client)
        /\ c # h.client => Cli(c) # Cli(h.client)
        /\ Srv(h.client)[1] = h.client /\ Peer(Srv(h.client)) = Cli(h.client)
    BY <1>1, Ends
  <2>2. \/ inbox' = inbox /\ ~up[h.client]
        \/ /\ inbox' = [inbox EXCEPT ![Cli(h.client)] = Append(inbox[Cli(h.client)], m)]
           /\ up[h.client]
    BY <1>5, <2>1 DEF Written
  <2>3. /\ inbox'[Srv(c)] = inbox[Srv(c)]
        /\ inbox'[Cli(c)] = IF c = h.client /\ up[c] THEN Append(inbox[Cli(c)], m)
                                                    ELSE inbox[Cli(c)]
    BY <2>1, <2>2 DEF TypeOK, TransportTypeOK
  <2>4. inbox[Srv(c)] \in Seq(Message) /\ inbox[Cli(c)] \in Seq(Message)
    BY CallTypes
  <2> HIDE DEF m
  <2>5. CASE c # h.client \/ f # h.func
    <3>1. Held(c, f)' = Held(c, f)
      BY <1>5, <2>5 DEF Held
    <3>2. /\ Same(inbox[Srv(c)], inbox'[Srv(c)], f)
          /\ Same(inbox[Cli(c)], inbox'[Cli(c)], f)
      BY <1>2, <2>3, <2>4, <2>5, SameInbox
    <3> QED
      BY <1>3, <3>1, <3>2, ServiceKeepsCall
  <2>6. CASE c = h.client /\ f = h.func
    <3>1. Held(c, f) = {h}
      BY <2>6, HeldMembers DEF PendingMatchesHeld
    <3>2. Held(c, f)' = {}
      BY <1>5, <3>1 DEF Held
    <3>3. HeldIds(c, f)' = HeldIds(c, f) \ {h.id} /\ h.id \in HeldIds(c, f)
      BY <3>1, <3>2 DEF HeldIds
    <3>4. Values(inbox[Srv(c)], inbox[Cli(c)], HeldIds(c, f), reply[c][f],
                 executed[c][f], calls[c][f])
      BY CallTypes
    <3>5. /\ CallInv(f, inbox[Srv(c)],
                     Append(inbox[Cli(c)], serialize_call_result(f, h.id, "value")),
                     HeldIds(c, f) \ {h.id}, reply[c][f], executed[c][f], calls[c][f],
                     up[c])
          /\ CallInv(f, inbox[Srv(c)], inbox[Cli(c)], HeldIds(c, f) \ {h.id},
                     reply[c][f], executed[c][f], calls[c][f], FALSE)
      BY <1>1, <2>6, <3>3, <3>4, ResultInv DEF CallOK
    <3>6. CASE up[c]
      BY <1>3, <1>5, <2>3, <2>6, <3>3, <3>5, <3>6 DEF CallOK, m
    <3>7. CASE ~up[c]
      BY <1>3, <1>5, <2>3, <2>6, <3>3, <3>5, <3>7 DEF CallOK, CallInv
    <3> QED
      BY <3>6, <3>7
  <2> QED
    BY <2>5, <2>6
<1>6. CASE SendResult(h)
    BY <1>5, <1>6 DEF SendResult, ResultSent
<1>7. CASE SendResultFails(h)
  <2>1. ~up[h.client]
    BY <1>7 DEF SendResultFails, WriteMayFail, Srv
  <2> QED
    BY <1>5, <1>7, <2>1 DEF SendResultFails, ResultSent
<1>8. CASE SendResultDisconnected(h)
  <2>1. CASE Crash("archive")
    BY <1>4, <2>1 DEF Crash
  <2>2. CASE ~Crash("archive")
    <3>1. /\ ResultSent(h) /\ UNCHANGED <<inbox, up>> /\ h.client \notin myClients
      BY <1>8, <2>2 DEF SendResultDisconnected
    <3>2. CASE h.client = c
      <4>1. myState[Srv(c)] # "OPEN" /\ myState[Srv(c)] # "NEW"
        BY <3>1, <3>2 DEF RegisteredIsOpen, is_open, AcceptOK
      <4>2. ~up[c]
        BY <4>1, Ends DEF AcceptOK, TypeOK, TransportTypeOK
      <4> QED
        BY <1>5, <3>1, <3>2, <4>2 DEF ResultSent
    <3>3. CASE h.client # c
      <4>1. Held(c, f)' = Held(c, f)
        BY <3>1, <3>3 DEF Held, ResultSent
      <4> QED
        BY <1>3, <3>1, <4>1, CallTypes, SameInbox, ServiceKeepsCall
    <3> QED
      BY <3>2, <3>3
  <2> QED
    BY <2>1, <2>2
<1> QED
    BY <1>6, <1>7, <1>8

\* The calls under any step of the service.
LEMMA ServiceStepCalls ==
    ASSUME TypeOK, TypeOK', ServiceNext, RegisteredIsOpen, PendingMatchesHeld,
           NEW c \in Clients, NEW f \in Funcs, CallOK(c, f), AcceptOK(c)
    PROVE  CallOK(c, f)'
<1>1. ASSUME UNCHANGED <<inbox, held, executed>>
      PROVE  CallOK(c, f)'
    BY <1>1, QuietServiceSteps
<1>2. CASE Start \/ Stop \/ HandleAcceptAborted
    BY <1>1, <1>2 DEF Start, Stop, HandleAcceptAborted, Crash, transportVars
<1>3. CASE Broadcast
    BY <1>3, EventCalls DEF Broadcast
<1>4. ASSUME NEW bad, NEW reached, BroadcastFails(bad, reached)
      PROVE  CallOK(c, f)'
    BY <1>1, <1>4, EventCalls DEF BroadcastFails, Crash
<1>5. CASE ClosureStep
    BY <1>5, ResultCalls DEF ClosureStep
<1>6. ASSUME NEW d \in Clients,
             \/ OnClientAccepted(d) \/ AcceptedTooLate(d) \/ HandleServiceRecvError(d)
             \/ ServiceAssertFails(d) \/ HandleServiceHeader(d) \/ FuncReturns(d)
      PROVE  CallOK(c, f)'
    BY <1>1, <1>6
    DEF OnClientAccepted, AcceptedTooLate, HandleServiceRecvError, ServiceAssertFails,
        HandleServiceHeader, HandleHeader, FuncReturns, ReadNextHeader, Crash, serviceVars
<1>7. ASSUME NEW d \in Clients, NEW g \in Funcs,
             DispatchOneWay(d, g) \/ DispatchFunc(d, g) \/ DispatchRefused(d, g)
      PROVE  CallOK(c, f)'
    BY <1>7, ExecutedCalls, RefusedCalls
<1> QED
    BY <1>2, <1>3, <1>4, <1>5, <1>6, <1>7
    DEF ServiceNext, ServiceStep, ServiceCodeStep, ServiceLoopStep

------------------------------------------------------------------------------
(***************************************************************************)
(* The theorems.                                                           *)
(***************************************************************************)

\* The operating system's steps.
LEMMA SystemStepInv ==
    ASSUME Inv, TypeOK', SystemNext \/ UNCHANGED vars
    PROVE  Inv'
<1>1. /\ TypeOK /\ RegisteredIsOpen /\ PendingMatchesHeld
      /\ \A c \in Clients : AcceptOK(c) /\ PeerOK(c)
      /\ \A c \in Clients, f \in Funcs : CallOK(c, f)
    BY DEF Inv
<1>2. UNCHANGED <<serviceVars, peerVars, myState, myListener, inbox, backlog>>
    BY DEF SystemNext, vars, transportVars, ReadCompletes, ReadFails, LinkBreaks
<1>3. RegisteredIsOpen' /\ PendingMatchesHeld'
    BY <1>1, <1>2 DEF RegisteredIsOpen, is_open, PendingMatchesHeld, Held, serviceVars
<1>4. ASSUME NEW c \in Clients
      PROVE  up'[c] => up[c]
    BY DEF SystemNext, vars, transportVars, ReadCompletes, ReadFails, LinkBreaks, LinksDown
<1>5. ASSUME NEW c \in Clients
      PROVE  reading[Srv(c)] = "none" => reading'[Srv(c)] = "none"
  <2>1. ASSUME NEW x \in End, ReadCompletes(x) \/ ReadFails(x)
        PROVE  reading[Srv(c)] = "none" => reading'[Srv(c)] = "none"
    BY <1>1, <2>1, Ends DEF ReadCompletes, ReadFails, TypeOK, TransportTypeOK
  <2> QED
    BY <2>1 DEF SystemNext, vars, transportVars, LinkBreaks
<1>6. ASSUME NEW c \in Clients
      PROVE  AcceptOK(c)' /\ PeerOK(c)'
    BY <1>1, <1>2, <1>4, <1>5 DEF AcceptOK, PeerOK, serviceVars, peerVars
<1>7. ASSUME NEW c \in Clients, NEW f \in Funcs
      PROVE  CallOK(c, f)'
  <2>1. /\ Held(c, f)' = Held(c, f) /\ executed'[c][f] = executed[c][f]
        /\ reply'[c][f] = reply[c][f] /\ calls'[c][f] = calls[c][f]
        /\ inbox'[Srv(c)] = inbox[Srv(c)] /\ inbox'[Cli(c)] = inbox[Cli(c)]
    BY <1>2 DEF Held, serviceVars, peerVars
  <2> QED
    BY <1>1, <1>4, <2>1, QuietCall
<1> QED
    BY <1>3, <1>6, <1>7 DEF Inv

\* In the initial state there are no calls.
LEMMA InitCalls ==
    ASSUME Init, NEW c \in Clients, NEW f \in Funcs
    PROVE  CallOK(c, f)
<1>1. /\ inbox[Srv(c)] = <<>> /\ inbox[Cli(c)] = <<>> /\ executed[c][f] = <<>>
      /\ HeldIds(c, f) = {} /\ calls[c][f] = 0
      /\ \A n \in CallId : reply[c][f][n] = "none"
    BY Ends DEF Init, TransportInit, ServiceInit, HeldIds, Held
<1>2. DOMAIN <<>> = {}
    OBVIOUS
<1>3. \A n \in CallId : ~(n <= 0)
    BY Numbers
<1> QED
    BY <1>1, <1>2, <1>3
    DEF CallOK, CallInv, InOrder, RepliedOnce, Accounted, Taken, Ran, Has, Rising, Distinct,
        Refuses

(***************************************************************************)
(* The inductive invariant: calls reach the service in the order in which  *)
(* they were written, each is taken once, and what was taken is held, on   *)
(* its way back or replied to, one of them only.                           *)
(***************************************************************************)
THEOREM PeersCorrect == Spec => []Inv
<1>1. Init => Inv
  <2> SUFFICES ASSUME Init PROVE Inv
    OBVIOUS
  <2>1. TypeOK
    BY ServiceInitType, BoundsAssumption DEF Init, TypeOK, PeerTypeOK
  <2>2. RegisteredIsOpen
    BY Ends DEF Init, TransportInit, ServiceInit, RegisteredIsOpen, is_open
  <2>3. PendingMatchesHeld
    BY DEF Init, ServiceInit, PendingMatchesHeld, Held
  <2>4. \A c \in Clients : AcceptOK(c) /\ PeerOK(c)
    BY Ends DEF Init, TransportInit, ServiceInit, AcceptOK, PeerOK
  <2> QED
    BY <2>1, <2>2, <2>3, <2>4, InitCalls DEF Inv
<1>2. Inv /\ TypeOK' /\ [Next]_vars => Inv'
  <2> SUFFICES ASSUME Inv, TypeOK', [Next]_vars
               PROVE  Inv'
    OBVIOUS
  <2>1. /\ TypeOK /\ RegisteredIsOpen /\ PendingMatchesHeld
        /\ \A c \in Clients : AcceptOK(c) /\ PeerOK(c)
        /\ \A c \in Clients, f \in Funcs : CallOK(c, f)
    BY DEF Inv
  <2>2. ASSUME NEW d \in Clients, PeerNext(d)
        PROVE  Inv'
    <3>1. PendingMatchesHeld'
      BY <2>1, <2>2 DEF PeerNext, serviceVars, PendingMatchesHeld, Held
    <3>2. RegisteredIsOpen' /\ \A c \in Clients : AcceptOK(c)' /\ PeerOK(c)'
      BY <2>1, <2>2, PeerConnections
    <3>3. \A c \in Clients, f \in Funcs : CallOK(c, f)'
      BY <2>1, <2>2, PeerStepCalls
    <3> QED
      BY <3>1, <3>2, <3>3 DEF Inv
  <2>3. CASE ServiceNext
    <3>1. RegisteredIsOpen' /\ PendingMatchesHeld'
      BY <2>1, <2>3, ServiceStepRegistered, ServiceStepPending DEF ServiceNext, TypeOK
    <3>2. \A c \in Clients : AcceptOK(c)'
      BY <2>1, <2>3, ServiceAccept DEF ServiceNext, TypeOK
    <3>3. \A c \in Clients : PeerOK(c)'
      <4> SUFFICES ASSUME NEW c \in Clients PROVE PeerOK(c)'
        OBVIOUS
      <4>1. (up'[c] => up[c]) /\ myState'[Cli(c)] = myState[Cli(c)]
        BY <2>1, <2>3, ServiceKeepsClientEnds DEF ServiceNext, TypeOK
      <4> QED
        BY <2>1, <2>3, <4>1 DEF ServiceNext, peerVars, PeerOK
    <3>4. \A c \in Clients, f \in Funcs : CallOK(c, f)'
      BY <2>1, <2>3, ServiceStepCalls
    <3> QED
      BY <3>1, <3>2, <3>3, <3>4 DEF Inv
  <2>4. CASE SystemNext \/ UNCHANGED vars
    BY <2>4, SystemStepInv
  <2> QED
    BY <2>2, <2>3, <2>4, NextParties
<1> QED
    BY <1>1, <1>2, TypeCorrect, PTL DEF Spec

\* The places of a call, in the terms of the invariant.
LEMMA Places ==
    ASSUME TypeOK, NEW c \in Clients, NEW f \in TwoWay, NEW n \in CallId
    PROVE  /\ CallOnItsWay(c, f, n) <=> Has(inbox[Srv(c)], f, n)
           /\ CallHeld(c, f, n) <=> n \in HeldIds(c, f)
           /\ ReplyOnItsWay(c, f, n) <=> Has(inbox[Cli(c)], f, n)
<1>1. \A i \in DOMAIN inbox[Srv(c)] : inbox[Srv(c)][i] \in CallMessages
    BY DEF TypeOK, TransportTypeOK
<1>2. \A m \in CallMessages : m = serialize_call(f, n) <=> m.func = f /\ m.id = n
    BY DEF CallMessages, serialize_call
<1>3. CallOnItsWay(c, f, n) <=> Has(inbox[Srv(c)], f, n)
    BY <1>1, <1>2 DEF CallOnItsWay, Has
<1>4. \A h \in held : h = [client |-> c, func |-> f, id |-> n] <=>
                          h.client = c /\ h.func = f /\ h.id = n
    BY DEF TypeOK, ServiceTypeOK, Closures
<1>5. CallHeld(c, f, n) <=> n \in HeldIds(c, f)
    BY <1>4 DEF CallHeld, HeldIds, Held
<1> QED
    BY <1>3, <1>5 DEF ReplyOnItsWay, Has

(***************************************************************************)
(* Whatever the peers send, a call of a two-way function is at one place   *)
(* only, gets no second reply from dispatch_func or send_result, and over  *)
(* a connection that is up it does not disappear.                          *)
(***************************************************************************)
THEOREM OneReplyCorrect == Spec => []EachCallHasOneReply
<1>1. Inv => EachCallHasOneReply
  <2> SUFFICES ASSUME Inv, NEW c \in Clients, NEW f \in TwoWay, NEW n \in CallId
               PROVE  LET places == <<CallOnItsWay(c, f, n), CallHeld(c, f, n),
                                      ReplyOnItsWay(c, f, n), reply[c][f][n] # "none">>
                      IN /\ \A i, j \in 1..4 : places[i] /\ places[j] => i = j
                         /\ reply[c][f][n] # "twice"
                         /\ up[c] /\ n <= calls[c][f] => \E i \in 1..4 : places[i]
    BY DEF EachCallHasOneReply
  <2>1. TypeOK /\ CallOK(c, f)
    BY DEF Inv, TwoWay
  <2>2. /\ CallOnItsWay(c, f, n) <=> Has(inbox[Srv(c)], f, n)
        /\ CallHeld(c, f, n) <=> n \in HeldIds(c, f)
        /\ ReplyOnItsWay(c, f, n) <=> Has(inbox[Cli(c)], f, n)
    BY <2>1, Places
  <2>3. Taken(f, inbox[Cli(c)], HeldIds(c, f), reply[c][f], executed[c][f], n)
            => ~Has(inbox[Srv(c)], f, n)
    BY <2>1, Numbers DEF CallOK, CallInv, InOrder
  <2>4. /\ CallOnItsWay(c, f, n) => /\ ~CallHeld(c, f, n) /\ ~ReplyOnItsWay(c, f, n)
                                    /\ reply[c][f][n] = "none"
        /\ CallHeld(c, f, n) => ~ReplyOnItsWay(c, f, n) /\ reply[c][f][n] = "none"
        /\ ReplyOnItsWay(c, f, n) => reply[c][f][n] = "none"
        /\ reply[c][f][n] # "twice"
    BY <2>1, <2>2, <2>3 DEF CallOK, CallInv, RepliedOnce, Taken
  <2>5. up[c] /\ n <= calls[c][f] =>
            \/ CallOnItsWay(c, f, n) \/ CallHeld(c, f, n)
            \/ ReplyOnItsWay(c, f, n) \/ reply[c][f][n] # "none"
    BY <2>1, <2>2 DEF CallOK, CallInv, Accounted
  <2> DEFINE places == <<CallOnItsWay(c, f, n), CallHeld(c, f, n),
                         ReplyOnItsWay(c, f, n), reply[c][f][n] # "none">>
  <2>6. 1..4 = {1, 2, 3, 4}
    OBVIOUS
  <2>7. /\ places[1] = CallOnItsWay(c, f, n) /\ places[2] = CallHeld(c, f, n)
        /\ places[3] = ReplyOnItsWay(c, f, n) /\ places[4] = (reply[c][f][n] # "none")
    OBVIOUS
  <2> HIDE DEF places
  <2>8. \A i, j \in {1, 2, 3, 4} : places[i] /\ places[j] => i = j
    BY <2>4, <2>7
  <2>9. up[c] /\ n <= calls[c][f] => \E i \in {1, 2, 3, 4} : places[i]
    BY <2>5, <2>7
  <2> QED
    BY <2>4, <2>6, <2>8, <2>9 DEF places
<1> QED
    BY <1>1, PeersCorrect, PTL

(***************************************************************************)
(* A call that dispatch_func refused with operation_in_progress is never   *)
(* executed as well, and the calls of a peer are executed in the order in  *)
(* which they were written, none of them twice.                            *)
(***************************************************************************)
THEOREM RefusedCorrect == Spec => []RefusedNotExecuted
<1>1. Inv => RefusedNotExecuted
  <2> SUFFICES ASSUME Inv, NEW c \in Clients, NEW f \in Funcs,
                      NEW i \in DOMAIN executed[c][f]
               PROVE  /\ reply[c][f][executed[c][f][i]] # "in_progress"
                      /\ \A j \in 1..i-1 : executed[c][f][j] < executed[c][f][i]
    BY DEF RefusedNotExecuted
  <2> DEFINE X == executed[c][f]
  <2>1. X \in Seq(CallId) /\ CallOK(c, f)
    BY DEF Inv, TypeOK, ServiceTypeOK
  <2>2. X[i] \in CallId /\ Ran(X, X[i])
    BY <2>1 DEF Ran
  <2>3. reply[c][f][X[i]] # "in_progress"
    BY <2>1, <2>2 DEF CallOK, CallInv, RepliedOnce
  <2>4. \A j \in 1..i-1 : j \in DOMAIN X /\ j < i
    BY <2>1
  <2>5. \A j \in 1..i-1 : X[j] < X[i]
    BY <2>1, <2>4 DEF CallOK, CallInv, InOrder
  <2> QED
    BY <2>3, <2>5
<1> QED
    BY <1>1, PeersCorrect, PTL
==============================================================================
