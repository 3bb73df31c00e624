------------------------------ MODULE FeedProofs ------------------------------
(***************************************************************************)
(* The two feeds the trader folds: market data into its books, and fills   *)
(* into its positions.  Proved for any number of markets, any capacity of  *)
(* the event channel, every overlap, page cap and memory of ids, and any   *)
(* interleaving of the exchange, the tasks, failures and restarts.         *)
(***************************************************************************)
EXTENDS MarketData, FillFeed, FiniteSetTheorems, WellFoundedInduction, TLAPS

(***************************************************************************)
(* Market data: the books and what is under way for them.                  *)
(***************************************************************************)

\* A set of naturals has a least one.
LEMMA Least ==
    ASSUME NEW S \in SUBSET Nat, S # {}
    PROVE  \E n \in S : \A m \in S : n <= m
<1> DEFINE R == OpToRel(<, Nat)
<1>1. IsWellFoundedOn(R, Nat)
  BY NatLessThanWellFounded, Zenon
<1> HIDE DEF R
<1>2. PICK n \in S : \A m \in S : ~ (<<m, n>> \in R)
  BY <1>1, WFMin
<1>3. ASSUME NEW m \in S PROVE n <= m
  <2>1. <<m, n>> \in Nat \X Nat /\ <<m, n>>[1] = m /\ <<m, n>>[2] = n
    OBVIOUS
  <2>2. m < n => <<m, n>> \in R
    BY <2>1 DEF R, OpToRel
  <2> QED
    BY <1>2, <2>2
<1> QED
  BY <1>3
-------------------------------------------------------------------------------
\* Folding a queue of messages.

\* The book of t after each of the first k messages of q.
Trail(t, q, k, f) ==
    /\ f \in [0 .. k -> Nat]
    /\ \A n \in 1 .. k : f[n] = FoldedFor(t, f[n - 1], q[n])

\* Folding q takes the book of t from one quantity to another.
Leads(t, q, from, to) ==
    \E f : Trail(t, q, Len(q), f) /\ f[0] = from /\ f[Len(q)] = to

SnapshotIn(t, q) == \E n \in DOMAIN q : q[n].ticker = t /\ q[n].kind = "snapshot"

\* A message of t replaces or changes its quantity, and leaves every other alone.
LEMMA FoldedTypes ==
    ASSUME NEW t \in Tickers, NEW qty \in Nat, NEW msg \in Messages
    PROVE  /\ Folded(qty, msg) \in Nat /\ FoldedFor(t, qty, msg) \in Nat
           /\ msg.ticker \in Tickers /\ msg.kind \in {"snapshot", "delta"}
           /\ msg.kind = "snapshot" => Folded(qty, msg) = msg.qty
<1> USE BoundAssumption DEF Folded, FoldedFor
<1>1. CASE msg \in [ticker : Tickers, kind : {"snapshot"}, qty : 0 .. MaxQty]
  <2>1. msg.kind = "snapshot" /\ msg.qty \in Nat /\ msg.ticker \in Tickers
    BY <1>1
  <2>2. Folded(qty, msg) = msg.qty
    BY <2>1
  <2> QED
    BY <2>1, <2>2
<1>2. CASE msg \in [ticker : Tickers, kind : {"delta"}, qty : {-1, 1}]
  <2>1. msg.kind = "delta" /\ msg.qty \in Int /\ msg.ticker \in Tickers
    BY <1>2
  <2>2. Folded(qty, msg) = IF qty + msg.qty > 0 THEN qty + msg.qty ELSE 0
    BY <2>1
  <2>3. Folded(qty, msg) \in Nat
    BY <2>1, <2>2
  <2> QED
    BY <2>1, <2>3
<1> QED
  BY <1>1, <1>2 DEF Messages

\* Every prefix can be folded from every quantity.
LEMMA TrailExists ==
    ASSUME NEW t \in Tickers, NEW q \in Seq(Messages), NEW from \in Nat,
           NEW k \in 0 .. Len(q)
    PROVE  \E f : Trail(t, q, k, f) /\ f[0] = from
<1> DEFINE P(j) == \E f : Trail(t, q, j, f) /\ f[0] = from
           Bad == {j \in 0 .. Len(q) : ~P(j)}
<1>1. SUFFICES ASSUME Bad # {} PROVE FALSE
  OBVIOUS
<1>2. Len(q) \in Nat /\ \A n \in 1 .. Len(q) : q[n] \in Messages
  OBVIOUS
<1>3. PICK j \in Bad : \A i \in Bad : j <= i
  <2>1. Bad \in SUBSET Nat
    BY <1>2
  <2> HIDE DEF Bad
  <2> QED
    BY <1>1, <2>1, Least
<1>4. j \in Nat /\ j <= Len(q) /\ ~P(j)
  BY <1>2, <1>3
<1>5. j # 0
  <2>1. Trail(t, q, 0, [i \in 0 .. 0 |-> from])
    BY DEF Trail
  <2> QED
    BY <1>4, <2>1
<1>6. PICK f : Trail(t, q, j - 1, f) /\ f[0] = from
  <2>1. j - 1 \in 0 .. Len(q) /\ j - 1 \notin Bad
    BY <1>2, <1>3, <1>4, <1>5
  <2> QED
    BY <2>1
<1> DEFINE last == FoldedFor(t, f[j - 1], q[j])
           g == [i \in 0 .. j |-> IF i = j THEN last ELSE f[i]]
<1>7. last \in Nat
  <2>1. f[j - 1] \in Nat /\ q[j] \in Messages
    BY <1>2, <1>4, <1>5, <1>6 DEF Trail
  <2> QED
    BY <2>1, FoldedTypes
<1>8. g \in [0 .. j -> Nat]
  BY <1>4, <1>6, <1>7 DEF Trail
<1>9. ASSUME NEW n \in 1 .. j PROVE g[n] = FoldedFor(t, g[n - 1], q[n])
  <2>1. g[n - 1] = f[n - 1]
    BY <1>4
  <2>2. CASE n = j
    BY <1>4, <2>1, <2>2
  <2>3. CASE n # j
    <3>1. n \in 1 .. j - 1 /\ g[n] = f[n]
      BY <1>4, <2>3
    <3> QED
      BY <1>6, <2>1, <3>1 DEF Trail
  <2> QED
    BY <2>2, <2>3
<1>10. g[0] = from
  BY <1>4, <1>5, <1>6
<1> HIDE DEF g
<1>11. P(j)
  BY <1>8, <1>9, <1>10 DEF Trail
<1> QED
  BY <1>4, <1>11

\* One more message is folded last.
LEMMA LeadsAppend ==
    ASSUME NEW t \in Tickers, NEW q \in Seq(Messages), NEW msg \in Messages,
           NEW from, NEW to \in Nat, Leads(t, q, from, to)
    PROVE  Leads(t, Append(q, msg), from, FoldedFor(t, to, msg))
<1> DEFINE r == Append(q, msg)
           k == Len(q)
           last == FoldedFor(t, to, msg)
<1>1. PICK f : Trail(t, q, k, f) /\ f[0] = from /\ f[k] = to
  BY DEF Leads
<1> DEFINE g == [i \in 0 .. k + 1 |-> IF i = k + 1 THEN last ELSE f[i]]
<1>2. k \in Nat /\ Len(r) = k + 1 /\ r[k + 1] = msg /\ \A n \in 1 .. k : r[n] = q[n]
  OBVIOUS
<1>3. last \in Nat
  BY FoldedTypes
<1>4. f \in [0 .. k -> Nat] /\ \A n \in 1 .. k : f[n] = FoldedFor(t, f[n - 1], q[n])
  BY <1>1 DEF Trail
<1> HIDE DEF r, k, last
<1>5. g \in [0 .. k + 1 -> Nat]
  BY <1>2, <1>3, <1>4
<1>6. ASSUME NEW n \in 1 .. k + 1 PROVE g[n] = FoldedFor(t, g[n - 1], r[n])
  <2>1. g[n - 1] = f[n - 1]
    BY <1>2
  <2>2. CASE n = k + 1
    BY <1>1, <1>2, <2>1, <2>2 DEF last
  <2>3. CASE n # k + 1
    <3>1. n \in 1 .. k /\ g[n] = f[n]
      BY <1>2, <2>3
    <3> QED
      BY <1>2, <1>4, <2>1, <3>1
  <2> QED
    BY <2>2, <2>3
<1>7. g[0] = from /\ g[k + 1] = last
  BY <1>1, <1>2
<1> HIDE DEF g
<1>8. Trail(t, r, Len(r), g) /\ g[0] = from /\ g[Len(r)] = last
  BY <1>2, <1>5, <1>6, <1>7 DEF Trail
<1> QED
  BY <1>8 DEF Leads, r, last

\* The first message is folded first.
LEMMA LeadsTail ==
    ASSUME NEW t \in Tickers, NEW q \in Seq(Messages), q # <<>>,
           NEW from, NEW to, Leads(t, q, from, to)
    PROVE  Leads(t, Tail(q), FoldedFor(t, from, Head(q)), to)
<1> DEFINE r == Tail(q)
           k == Len(q)
<1>1. PICK f : Trail(t, q, k, f) /\ f[0] = from /\ f[k] = to
  BY DEF Leads
<1> DEFINE g == [i \in 0 .. k - 1 |-> f[i + 1]]
<1>2. k \in Nat \ {0} /\ Len(r) = k - 1 /\ Head(q) = q[1]
      /\ \A n \in 1 .. k - 1 : r[n] = q[n + 1]
  OBVIOUS
<1>3. f \in [0 .. k -> Nat] /\ \A n \in 1 .. k : f[n] = FoldedFor(t, f[n - 1], q[n])
  BY <1>1 DEF Trail
<1> HIDE DEF r, k
<1>4. g \in [0 .. k - 1 -> Nat]
  BY <1>2, <1>3
<1>5. ASSUME NEW n \in 1 .. k - 1 PROVE g[n] = FoldedFor(t, g[n - 1], r[n])
  <2>1. g[n] = f[n + 1] /\ g[n - 1] = f[n]
    BY <1>2
  <2>2. n + 1 \in 1 .. k /\ (n + 1) - 1 = n
    BY <1>2
  <2>3. f[n + 1] = FoldedFor(t, f[n], q[n + 1])
    BY <1>3, <2>2
  <2> QED
    BY <1>2, <2>1, <2>3
<1>6. g[0] = FoldedFor(t, from, Head(q)) /\ g[k - 1] = to
  <2>1. g[0] = f[1] /\ g[k - 1] = f[k]
    BY <1>2
  <2>2. 1 \in 1 .. k /\ 1 - 1 = 0
    BY <1>2
  <2>3. f[1] = FoldedFor(t, f[0], q[1])
    BY <1>3, <2>2
  <2> QED
    BY <1>1, <1>2, <2>1, <2>3
<1> HIDE DEF g
<1>7. Trail(t, r, Len(r), g) /\ g[Len(r)] = to
  BY <1>2, <1>4, <1>5, <1>6 DEF Trail
<1> QED
  BY <1>6, <1>7 DEF Leads, r

\* Past a snapshot it makes no difference what the book was.
LEMMA LeadsFromAny ==
    ASSUME NEW t \in Tickers, NEW q \in Seq(Messages), SnapshotIn(t, q),
           NEW from, NEW other \in Nat, NEW to, Leads(t, q, from, to)
    PROVE  Leads(t, q, other, to)
<1> DEFINE k == Len(q)
<1>1. PICK f : Trail(t, q, k, f) /\ f[0] = from /\ f[k] = to
  BY DEF Leads
<1>2. PICK s \in DOMAIN q : q[s].ticker = t /\ q[s].kind = "snapshot"
  BY DEF SnapshotIn
<1>3. k \in Nat /\ s \in 1 .. k /\ \A n \in 1 .. k : q[n] \in Messages
  OBVIOUS
<1>4. s - 1 \in 0 .. k
  BY <1>3
<1>5. PICK h : Trail(t, q, s - 1, h) /\ h[0] = other
  BY <1>4, TrailExists
<1> DEFINE g == [i \in 0 .. k |-> IF i < s THEN h[i] ELSE f[i]]
<1>6. /\ f \in [0 .. k -> Nat] /\ \A n \in 1 .. k : f[n] = FoldedFor(t, f[n - 1], q[n])
      /\ h \in [0 .. s - 1 -> Nat]
      /\ \A n \in 1 .. s - 1 : h[n] = FoldedFor(t, h[n - 1], q[n])
  BY <1>1, <1>5 DEF Trail
<1> HIDE DEF k
<1>7. g \in [0 .. k -> Nat]
  <2>1. ASSUME NEW i \in 0 .. k PROVE g[i] \in Nat
    <3>1. CASE i < s
      <4>1. i \in 0 .. s - 1
        BY <1>3, <3>1
      <4> QED
        BY <1>6, <3>1, <4>1
    <3>2. CASE ~(i < s)
      BY <1>6, <3>2
    <3> QED
      BY <3>1, <3>2
  <2> QED
    BY <2>1
<1>8. ASSUME NEW n \in 1 .. k PROVE g[n] = FoldedFor(t, g[n - 1], q[n])
  <2>1. CASE n < s
    <3>1. g[n] = h[n] /\ g[n - 1] = h[n - 1] /\ n \in 1 .. s - 1
      BY <1>3, <2>1
    <3> QED
      BY <1>6, <3>1
  <2>2. CASE n = s
    <3>1. g[n] = f[n] /\ g[n - 1] \in Nat /\ f[n - 1] \in Nat
      BY <1>3, <1>6, <1>7, <2>2
    <3>2. \A m \in Nat : FoldedFor(t, m, q[n]) = q[n].qty
      BY <1>2, <1>3, <2>2, FoldedTypes DEF FoldedFor
    <3> QED
      BY <1>6, <3>1, <3>2
  <2>3. CASE n > s
    <3>1. g[n] = f[n] /\ g[n - 1] = f[n - 1]
      BY <1>3, <2>3
    <3> QED
      BY <1>6, <3>1
  <2> QED
    BY <1>3, <2>1, <2>2, <2>3
<1>9. g[0] = other /\ g[k] = to
  BY <1>1, <1>3, <1>5
<1> HIDE DEF g
<1> QED
  BY <1>7, <1>8, <1>9 DEF Trail, Leads, k

\* What is under way is a queue of messages.
LEMMA InboundSeq ==
    ASSUME TypeOK
    PROVE  /\ wire \in Seq(Messages) /\ events \in Seq(Messages)
           /\ Inbound \in Seq(Messages)
           /\ \A t \in Tickers : book[t] \in Nat /\ truth[t] \in Nat /\ truth[t] <= MaxQty
           /\ MaxQty \in Nat
<1>1. wire \in Seq(Messages) /\ events \in Seq(Messages)
  BY DEF TypeOK
<1>2. Inbound \in Seq(Messages)
  BY <1>1 DEF Inbound
<1>3. MaxQty \in Nat
  BY BoundAssumption
<1>4. book \in [Tickers -> Nat] /\ truth \in [Tickers -> 0 .. MaxQty]
  BY DEF TypeOK
<1> QED
  BY <1>1, <1>2, <1>3, <1>4

\* Caught(t) is where folding what is under way takes the book of t.
LEMMA LeadsToCaught ==
    ASSUME TypeOK, NEW t \in Tickers, NEW to, Leads(t, Inbound, book[t], to)
    PROVE  Caught(t) = to
<1> DEFINE q == Inbound
           k == Len(q)
           Step(g) == [n \in 0 .. k |->
                         IF n = 0 THEN book[t] ELSE FoldedFor(t, g[n - 1], q[n])]
           after == CHOOSE g : g = Step(g)
<1>1. PICK f : Trail(t, q, k, f) /\ f[0] = book[t] /\ f[k] = to
  BY DEF Leads
<1>2. k \in Nat
  BY InboundSeq
<1>3. f = Step(f)
  <2>1. f \in [0 .. k -> Nat] /\ \A n \in 1 .. k : f[n] = FoldedFor(t, f[n - 1], q[n])
    BY <1>1 DEF Trail
  <2> HIDE DEF q, k
  <2>2. ASSUME NEW n \in 0 .. k
        PROVE  f[n] = IF n = 0 THEN book[t] ELSE FoldedFor(t, f[n - 1], q[n])
    <3>1. CASE n = 0
      BY <1>1, <3>1
    <3>2. CASE n # 0
      <4>1. n \in 1 .. k
        BY <1>2, <3>2
      <4> QED
        BY <2>1, <3>2, <4>1
    <3> QED
      BY <3>1, <3>2
  <2> QED
    BY <2>1, <2>2
<1>4. after = Step(after)
  <2> HIDE DEF Step
  <2> QED
    BY <1>3
<1>5. Caught(t) = after[k]
  BY DEF Caught
<1>6. after[k] = f[k]
  <2> DEFINE Bad == {n \in 0 .. k : after[n] # f[n]}
  <2> HIDE DEF after, q, k
  <2>1. SUFFICES ASSUME Bad # {} PROVE FALSE
    BY <1>2
  <2>2. PICK n \in Bad : \A m \in Bad : n <= m
    <3>1. Bad \in SUBSET Nat
      BY <1>2
    <3> HIDE DEF Bad
    <3> QED
      BY <2>1, <3>1, Least
  <2>3. n \in 0 .. k /\ after[n] # f[n]
    BY <2>2
  <2>4. /\ after[n] = IF n = 0 THEN book[t] ELSE FoldedFor(t, after[n - 1], q[n])
        /\ f[n] = IF n = 0 THEN book[t] ELSE FoldedFor(t, f[n - 1], q[n])
    BY <1>3, <1>4, <2>3
  <2>5. n # 0
    BY <2>3, <2>4
  <2>6. n - 1 \in 0 .. k /\ n - 1 \notin Bad
    BY <1>2, <2>2, <2>3, <2>5
  <2>7. after[n - 1] = f[n - 1]
    BY <2>6
  <2> QED
    BY <2>3, <2>4, <2>5, <2>7
<1> QED
  BY <1>1, <1>5, <1>6

-------------------------------------------------------------------------------
\* The two queues as one.

LEMMA QueueAppend ==
    ASSUME NEW p \in Seq(Messages), NEW q \in Seq(Messages), NEW msg \in Messages
    PROVE  p \o Append(q, msg) = Append(p \o q, msg)
  OBVIOUS

LEMMA QueueMove ==
    ASSUME NEW p \in Seq(Messages), NEW q \in Seq(Messages), q # <<>>
    PROVE  Append(p, Head(q)) \o Tail(q) = p \o q
  OBVIOUS

LEMMA QueueTail ==
    ASSUME NEW p \in Seq(Messages), p # <<>>, NEW q \in Seq(Messages)
    PROVE  p \o q # <<>> /\ Head(p \o q) = Head(p) /\ Tail(p \o q) = Tail(p) \o q
  OBVIOUS

LEMMA SnapshotAppend ==
    ASSUME NEW t, NEW q \in Seq(Messages), NEW msg \in Messages
    PROVE  SnapshotIn(t, Append(q, msg)) <=>
             SnapshotIn(t, q) \/ (msg.ticker = t /\ msg.kind = "snapshot")
<1> DEFINE r == Append(q, msg)
           k == Len(q)
<1>1. k \in Nat /\ DOMAIN q = 1 .. k /\ DOMAIN r = 1 .. k + 1
      /\ r[k + 1] = msg /\ \A n \in 1 .. k : r[n] = q[n]
  OBVIOUS
<1> HIDE DEF r, k
<1>2. SnapshotIn(t, r) <=> SnapshotIn(t, q) \/ (msg.ticker = t /\ msg.kind = "snapshot")
  <2>1. \A n \in 1 .. k : n \in 1 .. k + 1
    BY <1>1
  <2>2. k + 1 \in 1 .. k + 1 /\ \A n \in 1 .. k + 1 : n = k + 1 \/ n \in 1 .. k
    BY <1>1
  <2> QED
    BY <1>1, <2>1, <2>2 DEF SnapshotIn
<1> QED
  BY <1>2 DEF r

LEMMA SnapshotTail ==
    ASSUME NEW t, NEW q \in Seq(Messages), q # <<>>
    PROVE  SnapshotIn(t, q) <=>
             SnapshotIn(t, Tail(q)) \/ (Head(q).ticker = t /\ Head(q).kind = "snapshot")
<1> DEFINE r == Tail(q)
           k == Len(q)
<1>1. k \in Nat \ {0} /\ DOMAIN q = 1 .. k /\ DOMAIN r = 1 .. k - 1
      /\ Head(q) = q[1] /\ \A n \in 1 .. k - 1 : r[n] = q[n + 1]
  OBVIOUS
<1> HIDE DEF r, k
<1>2. SnapshotIn(t, q) <=>
        SnapshotIn(t, r) \/ (q[1].ticker = t /\ q[1].kind = "snapshot")
  <2>1. \A n \in 1 .. k - 1 : n + 1 \in 1 .. k
    BY <1>1
  <2>2. 1 \in 1 .. k /\ \A n \in 1 .. k : n = 1 \/ (n - 1 \in 1 .. k - 1 /\ (n - 1) + 1 = n)
    BY <1>1
  <2>3. ASSUME SnapshotIn(t, r) PROVE SnapshotIn(t, q)
    BY <1>1, <2>1, <2>3 DEF SnapshotIn
  <2>4. ASSUME SnapshotIn(t, q)
        PROVE  SnapshotIn(t, r) \/ (q[1].ticker = t /\ q[1].kind = "snapshot")
    <3>1. PICK n \in 1 .. k : q[n].ticker = t /\ q[n].kind = "snapshot"
      BY <1>1, <2>4 DEF SnapshotIn
    <3>2. CASE n = 1
      BY <3>1, <3>2
    <3>3. CASE n # 1
      <4>1. n - 1 \in 1 .. k - 1 /\ r[n - 1] = q[n]
        BY <1>1, <2>2, <3>3
      <4> QED
        BY <1>1, <3>1, <4>1 DEF SnapshotIn
    <3> QED
      BY <3>2, <3>3
  <2>5. ASSUME q[1].ticker = t, q[1].kind = "snapshot" PROVE SnapshotIn(t, q)
    BY <1>1, <2>2, <2>5 DEF SnapshotIn
  <2> QED
    BY <2>3, <2>4, <2>5
<1> QED
  BY <1>1, <1>2 DEF r
-------------------------------------------------------------------------------
\* The inductive invariant.

\* What is under way takes the book of a subscribed market to the exchange's,
\* as long as a snapshot is still to come, or the market has stayed in the
\* universe since its last one.
BooksLead ==
    \A t \in subscribed :
      SnapshotIn(t, Inbound) \/ (t \in active /\ t \notin lapsed) =>
        Leads(t, Inbound, book[t], truth[t])

\* Subscriptions are of markets that are in the universe or have left it.
SubscribedKnown == published \cup sending \cup subscribed \subseteq active \cup lapsed

\* The markets a refresh fetches are new to the WebSocket task, or had left.
FetchedAreNew ==
    step = "fetch" =>
      \A t \in fetching : t \in lapsed \/ t \notin published \cup sending \cup subscribed

\* Until the trader first listens, the snapshots wait for it.
StartSnapshots == step \in {"boot", "seed"} => \A t \in subscribed : SnapshotIn(t, Inbound)

\* No connection, nothing on it.
NoLink ==
    /\ link \in {"off", "down"} => subscribed = {} /\ sending = {} /\ wire = <<>>
    /\ ~useWs => link = "off"
    /\ step = "boot" => link = "off"

MInv ==
    TypeOK /\ BooksLead /\ SubscribedKnown /\ FetchedAreNew /\ StartSnapshots /\ NoLink

LEMMA MarketInit == Init => MInv
<1> SUFFICES ASSUME Init PROVE MInv
  OBVIOUS
<1> USE DEF Init
<1>1. TypeOK
  <2>1. life \in [Tickers -> {"unlisted", "open", "closed"}]
    OBVIOUS
  <2>2. truth \in [Tickers -> 0 .. MaxQty] /\ book \in [Tickers -> Nat]
    BY BoundAssumption
  <2>3. moves \in 0 .. MaxMoves /\ faults \in 0 .. MaxFaults
    BY BoundAssumption
  <2>4. {wire, events} \subseteq Seq(Messages) /\ Len(events) <= Capacity
    BY CapacityAssumption
  <2>5. {sending, subscribed, published, found, fetching, active, held, lapsed}
          \subseteq SUBSET Tickers
    OBVIOUS
  <2>6. scan \subseteq Categories /\ {unseen, useWs} \subseteq BOOLEAN
    OBVIOUS
  <2> QED
    BY <2>1, <2>2, <2>3, <2>4, <2>5, <2>6 DEF TypeOK
<1>2. BooksLead /\ SubscribedKnown /\ FetchedAreNew /\ StartSnapshots /\ NoLink
  BY DEF BooksLead, SubscribedKnown, FetchedAreNew, StartSnapshots, NoLink
<1> QED
  BY <1>1, <1>2 DEF MInv

-------------------------------------------------------------------------------
\* Types are kept.

\* What is bounded is counted up to its bound.
LEMMA Counts ==
    ASSUME TypeOK
    PROVE  /\ Fault \/ UNCHANGED faults => faults' \in 0 .. MaxFaults
           /\ Move \/ UNCHANGED moves => moves' \in 0 .. MaxMoves
<1>1. MaxFaults \in Nat /\ MaxMoves \in Nat
  BY BoundAssumption
<1>2. faults \in 0 .. MaxFaults /\ moves \in 0 .. MaxMoves
  BY DEF TypeOK
<1> QED
  BY <1>1, <1>2 DEF Fault, Move

LEMMA MessageTypes ==
    ASSUME TypeOK, NEW t \in Tickers
    PROVE  Snapshot(t) \in Messages /\ Delta(t, 1) \in Messages /\ Delta(t, -1) \in Messages
<1>1. truth[t] \in 0 .. MaxQty
  BY DEF TypeOK
<1> QED
  BY <1>1 DEF Snapshot, Delta, Messages

LEMMA ExchangeTypes ==
    ASSUME TypeOK, Exchange
    PROVE  TypeOK'
<1> USE DEF exchangeVars, wsVars, watchVars, walkVars, traderVars
<1>1. CASE MarketOpens
  <2>1. life' \in [Tickers -> {"unlisted", "open", "closed"}]
    BY <1>1 DEF MarketOpens, TypeOK
  <2> QED
    BY <1>1, <2>1 DEF MarketOpens, TypeOK
<1>2. CASE MarketCloses
  <2>1. life' \in [Tickers -> {"unlisted", "open", "closed"}]
    BY <1>2 DEF MarketCloses, TypeOK
  <2> QED
    BY <1>2, <2>1 DEF MarketCloses, TypeOK
<1>3. CASE BookChanges
  <2>1. PICK t \in Listed, d \in {-1, 1} :
          /\ truth[t] + d \in 0 .. MaxQty
          /\ truth' = [truth EXCEPT ![t] = @ + d]
          /\ wire' = IF t \in subscribed THEN Append(wire, Delta(t, d)) ELSE wire
    BY <1>3 DEF BookChanges
  <2>2. truth' \in [Tickers -> 0 .. MaxQty]
    BY <2>1 DEF TypeOK
  <2>3. wire' \in Seq(Messages) /\ events \in Seq(Messages)
    <3>1. Delta(t, d) \in Messages
      BY MessageTypes DEF Listed
    <3>2. wire \in Seq(Messages) /\ events \in Seq(Messages)
      BY DEF TypeOK
    <3> QED
      BY <2>1, <3>1, <3>2
  <2>4. moves' \in 0 .. MaxMoves
    BY <1>3, Counts DEF BookChanges
  <2>5. UNCHANGED <<life, link, sending, subscribed, watchVars, events, step,
                    walkVars, fetching, traderVars, faults>>
    BY <1>3 DEF BookChanges
  <2> QED
    BY <2>2, <2>3, <2>4, <2>5 DEF TypeOK
<1>4. CASE PositionMoves
  <2>1. held' \subseteq Tickers /\ moves' \in 0 .. MaxMoves
    BY <1>4, Counts DEF PositionMoves, TypeOK
  <2> QED
    BY <1>4, <2>1 DEF PositionMoves, TypeOK
<1> QED
  BY <1>1, <1>2, <1>3, <1>4 DEF Exchange

LEMMA WebSocketTypes ==
    ASSUME TypeOK, WebSocket \/ Drop
    PROVE  TypeOK'
<1> USE DEF exchangeVars, wsVars, watchVars, walkVars, traderVars
<1>1. CASE Connect
  BY <1>1 DEF Connect, TypeOK
<1>2. CASE SubscribeTo
  <2>1. PICK t \in sending :
          /\ sending' = sending \ {t}
          /\ subscribed' = subscribed \cup {t}
          /\ wire' = Append(wire, Snapshot(t))
    BY <1>2 DEF SubscribeTo
  <2>2. wire \in Seq(Messages) /\ events \in Seq(Messages) /\ t \in Tickers
    BY DEF TypeOK
  <2>3. wire' \in Seq(Messages)
    BY <2>1, <2>2, MessageTypes
  <2>4. sending' \subseteq Tickers /\ subscribed' \subseteq Tickers
    BY <2>1 DEF TypeOK
  <2>5. UNCHANGED <<link, exchangeVars, watchVars, events, step, walkVars,
                    fetching, traderVars, moves, faults>>
    BY <1>2 DEF SubscribeTo
  <2> QED
    BY <2>2, <2>3, <2>4, <2>5 DEF TypeOK
<1>3. CASE SubscribeDone
  BY <1>3 DEF SubscribeDone, TypeOK
<1>4. CASE Changed
  <2>1. sending' \subseteq Tickers
    BY <1>4 DEF Changed, NewSubscriptions, TypeOK
  <2> QED
    BY <1>4, <2>1 DEF Changed, TypeOK
<1>5. CASE Pump
  <2>1. wire \in Seq(Messages) /\ events \in Seq(Messages) /\ Len(events) < Capacity
        /\ wire # <<>> /\ events' = Append(events, Head(wire)) /\ wire' = Tail(wire)
    BY <1>5 DEF Pump, TypeOK
  <2>2. wire' \in Seq(Messages) /\ events' \in Seq(Messages) /\ Len(events') <= Capacity
    BY <2>1, CapacityAssumption
  <2>3. UNCHANGED <<link, sending, subscribed, exchangeVars, watchVars, step,
                    walkVars, fetching, traderVars, moves, faults>>
    BY <1>5 DEF Pump
  <2> QED
    BY <2>2, <2>3 DEF TypeOK
<1>6. CASE Drop
  <2>1. faults' \in 0 .. MaxFaults
    BY <1>6, Counts DEF Drop
  <2>2. link' = "down" /\ sending' = {} /\ subscribed' = {} /\ wire' = <<>>
        /\ events \in Seq(Messages)
    BY <1>6 DEF Drop, TypeOK
  <2>3. UNCHANGED <<exchangeVars, watchVars, events, step, walkVars, fetching,
                    traderVars, moves>>
    BY <1>6 DEF Drop
  <2> QED
    BY <2>1, <2>2, <2>3 DEF TypeOK
<1> QED
  BY <1>1, <1>2, <1>3, <1>4, <1>5, <1>6 DEF WebSocket

LEMMA TraderTypes ==
    ASSUME TypeOK, Trader
    PROVE  TypeOK'
<1> USE DEF exchangeVars, wsVars, watchVars, walkVars, traderVars
<1>1. CASE DiscoverCategory
  <2>1. PICK c \in scan :
          LET listed == {t \in Listed : CategoryOf[t] = c} IN
          /\ scan' = scan \ {c}
          /\ \/ found' = found \cup listed /\ UNCHANGED faults
             \/ Fault /\ \E part \in SUBSET listed : found' = found \cup part
    BY <1>1 DEF DiscoverCategory
  <2>2. found' \subseteq Tickers
    BY <2>1 DEF Listed, TypeOK
  <2>3. scan' \subseteq Categories /\ faults' \in 0 .. MaxFaults
    BY <2>1, Counts DEF TypeOK
  <2>4. UNCHANGED <<exchangeVars, wsVars, watchVars, events, step, fetching,
                    traderVars, moves>>
    BY <1>1 DEF DiscoverCategory
  <2> QED
    BY <2>2, <2>3, <2>4 DEF TypeOK
<1>2. CASE SeedUniverse
  BY <1>2 DEF SeedUniverse, TypeOK
<1>3. CASE RefreshMarkets
  <2>1. active' \subseteq Tickers /\ fetching' \subseteq Tickers /\ lapsed' \subseteq Tickers
        /\ step' \in {"idle", "fetch"} /\ found' = {}
    BY <1>3 DEF RefreshMarkets, Added, Prunable, ToFetch, TypeOK
  <2>2. UNCHANGED <<exchangeVars, link, sending, subscribed, wire, watchVars, events,
                    scan, useWs, held, book, moves, faults>>
    BY <1>3 DEF RefreshMarkets
  <2> QED
    BY <2>1, <2>2 DEF TypeOK
<1>4. CASE FetchSnapshot
  <2>1. PICK t \in fetching :
          /\ fetching' = fetching \ {t}
          /\ \/ book' = [book EXCEPT ![t] = truth[t]] /\ UNCHANGED faults
             \/ Fault /\ UNCHANGED book
    BY <1>4 DEF FetchSnapshot
  <2>2. t \in Tickers /\ truth[t] \in Nat /\ book \in [Tickers -> Nat]
    BY InboundSeq DEF TypeOK
  <2>3. book' \in [Tickers -> Nat]
    BY <2>1, <2>2
  <2>4. fetching' \subseteq Tickers /\ faults' \in 0 .. MaxFaults
    BY <2>1, Counts DEF TypeOK
  <2>5. UNCHANGED <<exchangeVars, wsVars, watchVars, events, step, walkVars, useWs,
                    active, held, lapsed, moves>>
    BY <1>4 DEF FetchSnapshot
  <2> QED
    BY <2>3, <2>4, <2>5 DEF TypeOK
<1>5. CASE FetchDone
  BY <1>5 DEF FetchDone, TypeOK
<1>6. CASE RefreshTick
  BY <1>6 DEF RefreshTick, TypeOK
<1>7. CASE OnBookUpdate
  <2>1. /\ events # <<>> /\ events' = Tail(events)
        /\ book' = IF Head(events).ticker \in active
                   THEN [book EXCEPT ![Head(events).ticker] = Folded(@, Head(events))]
                   ELSE book
        /\ lapsed' = IF Head(events).kind = "snapshot"
                     THEN lapsed \ ({Head(events).ticker} \cap active)
                     ELSE lapsed
    BY <1>7 DEF OnBookUpdate
  <2>2. events \in Seq(Messages) /\ wire \in Seq(Messages) /\ Len(events) <= Capacity
        /\ book \in [Tickers -> Nat] /\ lapsed \subseteq Tickers /\ active \subseteq Tickers
    BY DEF TypeOK
  <2>3. Head(events) \in Messages /\ events' \in Seq(Messages) /\ Len(events') <= Capacity
    BY <2>1, <2>2, CapacityAssumption
  <2>4. book' \in [Tickers -> Nat]
    <3>1. CASE Head(events).ticker \in active
      <4>1. Head(events).ticker \in Tickers /\ book[Head(events).ticker] \in Nat
        BY <2>2, <3>1
      <4>2. Folded(book[Head(events).ticker], Head(events)) \in Nat
        BY <2>3, <4>1, FoldedTypes
      <4> QED
        BY <2>1, <2>2, <3>1, <4>2
    <3> QED
      BY <2>1, <2>2, <3>1
  <2>5. lapsed' \subseteq Tickers
    BY <2>1, <2>2
  <2>6. UNCHANGED <<exchangeVars, wsVars, watchVars, step, walkVars, fetching, useWs,
                    active, held, moves, faults>>
    BY <1>7 DEF OnBookUpdate
  <2> QED
    BY <2>2, <2>3, <2>4, <2>5, <2>6 DEF TypeOK
<1>8. CASE RestPoll
  <2>1. PICK failed \in SUBSET active :
          /\ IF failed = {} THEN UNCHANGED faults ELSE Fault
          /\ book' = [t \in Tickers |-> IF t \in active \ failed THEN truth[t] ELSE book[t]]
    BY <1>8 DEF RestPoll
  <2>2. book' \in [Tickers -> Nat]
    BY <2>1, InboundSeq
  <2>3. faults' \in 0 .. MaxFaults
    BY <2>1, Counts
  <2>4. UNCHANGED <<exchangeVars, wsVars, watchVars, events, step, walkVars, fetching,
                    useWs, active, held, lapsed, moves>>
    BY <1>8 DEF RestPoll
  <2> QED
    BY <2>2, <2>3, <2>4 DEF TypeOK
<1> QED
  BY <1>1, <1>2, <1>3, <1>4, <1>5, <1>6, <1>7, <1>8 DEF Trader, Handler

-------------------------------------------------------------------------------
\* The exchange and the WebSocket task.

LEMMA BookChangesStep ==
    ASSUME MInv, BookChanges
    PROVE  MInv'
<1> USE DEF MInv
<1>1. PICK t \in Listed, d \in {-1, 1} :
        /\ truth[t] + d \in 0 .. MaxQty
        /\ truth' = [truth EXCEPT ![t] = @ + d]
        /\ wire' = IF t \in subscribed THEN Append(wire, Delta(t, d)) ELSE wire
  BY DEF BookChanges
<1>2. UNCHANGED <<life, link, sending, subscribed, published, unseen, events, step, scan,
                  found, fetching, useWs, active, held, book, lapsed, faults>>
  BY DEF BookChanges, watchVars, walkVars, traderVars
<1>3. /\ t \in Tickers /\ Delta(t, d) \in Messages
      /\ truth \in [Tickers -> 0 .. MaxQty]
  BY MessageTypes DEF Listed, TypeOK
<1>4. TypeOK'
  <2>1. Exchange
    BY DEF Exchange
  <2> QED
    BY <2>1, ExchangeTypes
<1>5. t \in subscribed => Inbound' = Append(Inbound, Delta(t, d))
  <2>1. wire \in Seq(Messages) /\ events \in Seq(Messages)
    BY InboundSeq
  <2> QED
    BY <1>1, <1>2, <1>3, <2>1, QueueAppend DEF Inbound
<1>6. t \notin subscribed => Inbound' = Inbound
  BY <1>1, <1>2 DEF Inbound
<1>7. ASSUME NEW u \in subscribed
      PROVE  SnapshotIn(u, Inbound)' <=> SnapshotIn(u, Inbound)
  <2>1. CASE t \in subscribed
    <3>1. Inbound \in Seq(Messages)
      BY InboundSeq
    <3>2. SnapshotIn(u, Append(Inbound, Delta(t, d))) <=>
            SnapshotIn(u, Inbound)
              \/ (Delta(t, d).ticker = u /\ Delta(t, d).kind = "snapshot")
      BY <1>3, <3>1, SnapshotAppend
    <3>3. Delta(t, d).kind # "snapshot"
      BY DEF Delta
    <3> QED
      BY <1>5, <2>1, <3>2, <3>3 DEF SnapshotIn
  <2>2. CASE t \notin subscribed
    BY <1>6, <2>2 DEF SnapshotIn
  <2> QED
    BY <2>1, <2>2
<1>8. ASSUME NEW u \in subscribed, Leads(u, Inbound, book[u], truth[u])
      PROVE  Leads(u, Inbound', book'[u], truth'[u])
  <2>1. u \in Tickers
    BY DEF TypeOK
  <2>2. CASE t \in subscribed
    <3>1. /\ Inbound \in Seq(Messages) /\ book[u] \in Nat /\ truth[u] \in Nat
          /\ truth[t] \in Nat /\ MaxQty \in Nat
      BY <1>3, <2>1, InboundSeq
    <3>2. FoldedFor(u, truth[u], Delta(t, d)) = truth'[u]
      <4>1. CASE u = t
        <5>1. FoldedFor(u, truth[u], Delta(t, d)) =
                IF truth[t] + d > 0 THEN truth[t] + d ELSE 0
          BY <4>1 DEF FoldedFor, Folded, Delta
        <5>2. truth'[u] = truth[t] + d /\ truth[t] + d >= 0
          BY <1>1, <1>3, <2>1, <4>1
        <5> QED
          BY <3>1, <5>1, <5>2
      <4>2. CASE u # t
        BY <1>1, <1>3, <2>1, <4>2 DEF FoldedFor, Delta
      <4> QED
        BY <4>1, <4>2
    <3>3. Leads(u, Append(Inbound, Delta(t, d)), book[u], FoldedFor(u, truth[u], Delta(t, d)))
      BY <1>3, <1>8, <2>1, <3>1, LeadsAppend
    <3> QED
      BY <1>2, <1>5, <2>2, <3>2, <3>3
  <2>3. CASE t \notin subscribed
    <3>1. truth'[u] = truth[u]
      BY <1>1, <1>3, <2>1, <2>3
    <3> QED
      BY <1>2, <1>6, <1>8, <2>3, <3>1
  <2> QED
    BY <2>2, <2>3
<1>9. BooksLead'
  BY <1>2, <1>7, <1>8 DEF BooksLead
<1>10. SubscribedKnown' /\ FetchedAreNew'
  BY <1>2 DEF SubscribedKnown, FetchedAreNew
<1>11. StartSnapshots'
  BY <1>2, <1>7 DEF StartSnapshots
<1>12. NoLink'
  BY <1>1, <1>2 DEF NoLink
<1> QED
  BY <1>4, <1>9, <1>10, <1>11, <1>12

LEMMA SubscribeToStep ==
    ASSUME MInv, SubscribeTo
    PROVE  MInv'
<1> USE DEF MInv
<1>1. PICK t \in sending :
        /\ sending' = sending \ {t}
        /\ subscribed' = subscribed \cup {t}
        /\ wire' = Append(wire, Snapshot(t))
  BY DEF SubscribeTo
<1>2. /\ link = "subscribing"
      /\ UNCHANGED <<life, truth, link, published, unseen, events, step, scan, found,
                     fetching, useWs, active, held, book, lapsed, moves, faults>>
  BY DEF SubscribeTo, exchangeVars, watchVars, walkVars, traderVars
<1>3. t \in Tickers /\ Snapshot(t) \in Messages /\ Inbound \in Seq(Messages)
  <2>1. t \in Tickers
    BY DEF TypeOK
  <2> QED
    BY <2>1, MessageTypes, InboundSeq
<1>4. TypeOK'
  <2>1. WebSocket
    BY DEF WebSocket
  <2> QED
    BY <2>1, WebSocketTypes
<1>5. Inbound' = Append(Inbound, Snapshot(t))
  <2>1. wire \in Seq(Messages) /\ events \in Seq(Messages)
    BY InboundSeq
  <2> QED
    BY <1>1, <1>2, <1>3, <2>1, QueueAppend DEF Inbound
<1>6. \A u : SnapshotIn(u, Inbound)' <=> SnapshotIn(u, Inbound) \/ u = t
  <2>1. \A u : SnapshotIn(u, Append(Inbound, Snapshot(t))) <=>
                 SnapshotIn(u, Inbound)
                   \/ (Snapshot(t).ticker = u /\ Snapshot(t).kind = "snapshot")
    BY <1>3, SnapshotAppend
  <2>2. Snapshot(t).ticker = t /\ Snapshot(t).kind = "snapshot"
    BY DEF Snapshot
  <2> QED
    BY <1>5, <2>1, <2>2 DEF SnapshotIn
<1>7. ASSUME NEW u \in subscribed,
             u # t, Leads(u, Inbound, book[u], truth[u])
      PROVE  Leads(u, Inbound', book'[u], truth'[u])
  <2>1. u \in Tickers
    BY DEF TypeOK
  <2>2. book[u] \in Nat /\ truth[u] \in Nat
    BY <2>1, InboundSeq
  <2>3. FoldedFor(u, truth[u], Snapshot(t)) = truth[u]
    BY <1>7 DEF FoldedFor, Snapshot
  <2>4. Leads(u, Append(Inbound, Snapshot(t)), book[u], FoldedFor(u, truth[u], Snapshot(t)))
    BY <1>3, <1>7, <2>1, <2>2, LeadsAppend
  <2> QED
    BY <1>2, <1>5, <2>3, <2>4
<1>8. Leads(t, Inbound', book'[t], truth'[t])
  <2>1. book[t] \in Nat /\ truth[t] \in Nat
    BY <1>3, InboundSeq
  <2>2. PICK to \in Nat : Leads(t, Inbound, book[t], to)
    <3>1. Len(Inbound) \in 0 .. Len(Inbound)
      BY <1>3
    <3>2. PICK f : Trail(t, Inbound, Len(Inbound), f) /\ f[0] = book[t]
      BY <1>3, <2>1, <3>1, TrailExists
    <3>3. f[Len(Inbound)] \in Nat
      BY <3>1, <3>2 DEF Trail
    <3> QED
      BY <3>2, <3>3 DEF Leads
  <2>3. FoldedFor(t, to, Snapshot(t)) = truth[t]
    BY DEF FoldedFor, Folded, Snapshot
  <2>4. Leads(t, Append(Inbound, Snapshot(t)), book[t], FoldedFor(t, to, Snapshot(t)))
    BY <1>3, <2>1, <2>2, LeadsAppend
  <2> QED
    BY <1>2, <1>5, <2>3, <2>4
<1>9. BooksLead'
  BY <1>1, <1>2, <1>6, <1>7, <1>8 DEF BooksLead
<1>10. SubscribedKnown' /\ FetchedAreNew'
  BY <1>1, <1>2 DEF SubscribedKnown, FetchedAreNew
<1>11. StartSnapshots'
  BY <1>1, <1>2, <1>6 DEF StartSnapshots
<1>12. NoLink'
  BY <1>1, <1>2 DEF NoLink
<1> QED
  BY <1>4, <1>9, <1>10, <1>11, <1>12

\* The rest of the exchange and of the task leaves what is under way as it is,
\* or drops it with the subscriptions.
LEMMA ExchangeStep ==
    ASSUME MInv, Exchange
    PROVE  MInv'
<1> USE DEF MInv
<1>1. TypeOK'
  BY ExchangeTypes
<1>2. ASSUME MarketOpens \/ MarketCloses \/ PositionMoves PROVE MInv'
  <2>1. UNCHANGED <<truth, wsVars, watchVars, events, step, walkVars, fetching, useWs,
                    active, book, lapsed>>
    BY <1>2 DEF MarketOpens, MarketCloses, PositionMoves, exchangeVars, traderVars
  <2>2. UNCHANGED Inbound
    BY <2>1 DEF Inbound, wsVars
  <2> QED
    BY <1>1, <2>1, <2>2 DEF BooksLead, SubscribedKnown, FetchedAreNew, StartSnapshots,
                            SnapshotIn, NoLink, wsVars, watchVars
<1> QED
  BY <1>2, BookChangesStep DEF Exchange

LEMMA WebSocketStep ==
    ASSUME MInv, WebSocket \/ Drop
    PROVE  MInv'
<1> USE DEF MInv
<1>1. TypeOK'
  BY WebSocketTypes
<1>2. CASE Connect
  <2>1. /\ link = "down" /\ link' = "subscribing" /\ sending' = published
        /\ UNCHANGED <<truth, published, subscribed, wire, events, step, fetching, useWs,
                       active, book, lapsed>>
    BY <1>2 DEF Connect, exchangeVars, traderVars
  <2>2. UNCHANGED Inbound
    BY <2>1 DEF Inbound
  <2> QED
    BY <1>1, <2>1, <2>2 DEF BooksLead, SubscribedKnown, FetchedAreNew, StartSnapshots,
                            SnapshotIn, NoLink
<1>3. CASE SubscribeDone \/ Changed
  <2>1. /\ link \in {"subscribing", "up"} /\ link' \in {"subscribing", "up"}
        /\ sending' \subseteq sending \cup published
        /\ UNCHANGED <<truth, published, subscribed, wire, events, step, fetching, useWs,
                       active, book, lapsed>>
    BY <1>3 DEF SubscribeDone, Changed, NewSubscriptions, exchangeVars, watchVars,
                traderVars
  <2>2. UNCHANGED Inbound
    BY <2>1 DEF Inbound
  <2> QED
    BY <1>1, <2>1, <2>2 DEF BooksLead, SubscribedKnown, FetchedAreNew, StartSnapshots,
                            SnapshotIn, NoLink
<1>4. CASE Pump
  <2>1. /\ wire # <<>> /\ events' = Append(events, Head(wire)) /\ wire' = Tail(wire)
        /\ link = "up"
        /\ UNCHANGED <<link, truth, published, sending, subscribed, step, fetching, useWs,
                       active, book, lapsed>>
    BY <1>4 DEF Pump, exchangeVars, watchVars, traderVars
  <2>2. UNCHANGED Inbound
    <3>1. wire \in Seq(Messages) /\ events \in Seq(Messages)
      BY InboundSeq
    <3> QED
      BY <2>1, <3>1, QueueMove DEF Inbound
  <2> QED
    BY <1>1, <2>1, <2>2 DEF BooksLead, SubscribedKnown, FetchedAreNew, StartSnapshots,
                            SnapshotIn, NoLink
<1>5. CASE Drop
  <2>1. /\ link \in {"subscribing", "up"} /\ link' = "down" /\ sending' = {}
        /\ subscribed' = {} /\ wire' = <<>>
        /\ UNCHANGED <<published, step, fetching, useWs, active, lapsed>>
    BY <1>5 DEF Drop, watchVars, traderVars
  <2> QED
    BY <1>1, <2>1 DEF BooksLead, SubscribedKnown, FetchedAreNew, StartSnapshots, NoLink
<1> QED
  BY <1>2, <1>3, <1>4, <1>5, SubscribeToStep DEF WebSocket

-------------------------------------------------------------------------------
\* The trader.

LEMMA FetchSnapshotStep ==
    ASSUME MInv, FetchSnapshot
    PROVE  MInv'
<1> USE DEF MInv
<1>1. PICK t \in fetching :
        /\ fetching' = fetching \ {t}
        /\ \/ book' = [book EXCEPT ![t] = truth[t]]
           \/ UNCHANGED book
  BY DEF FetchSnapshot
<1>2. /\ step \in {"seed", "fetch"}
      /\ UNCHANGED <<truth, link, sending, subscribed, wire, published, events, step,
                     useWs, active, lapsed>>
  BY DEF FetchSnapshot, exchangeVars, wsVars, watchVars, traderVars
<1>3. TypeOK'
  <2>1. Trader
    BY DEF Trader, Handler
  <2> QED
    BY <2>1, TraderTypes
<1>4. UNCHANGED Inbound
  BY <1>2 DEF Inbound
<1>5. ASSUME NEW u \in subscribed,
             SnapshotIn(u, Inbound) \/ (u \in active /\ u \notin lapsed)
      PROVE  Leads(u, Inbound, book'[u], truth[u])
  <2>1. u \in Tickers /\ book \in [Tickers -> Nat] /\ t \in Tickers
    BY DEF TypeOK
  <2>2. Leads(u, Inbound, book[u], truth[u])
    BY <1>5 DEF BooksLead
  <2>3. CASE book'[u] = book[u]
    BY <2>2, <2>3
  <2>4. CASE book'[u] # book[u]
    <3>1. u = t /\ book'[u] = truth[u]
      BY <1>1, <2>1, <2>4
    \* What is fetched is not subscribed to, or left the universe, or its
    \* snapshot is still to come.
    <3>2. SnapshotIn(u, Inbound)
      BY <1>2, <1>5, <3>1 DEF StartSnapshots, FetchedAreNew
    <3>3. Inbound \in Seq(Messages) /\ truth[u] \in Nat
      BY <2>1, InboundSeq
    <3> QED
      BY <2>1, <2>2, <3>1, <3>2, <3>3, LeadsFromAny
  <2> QED
    BY <2>3, <2>4
<1>6. BooksLead'
  BY <1>2, <1>4, <1>5 DEF BooksLead, SnapshotIn
<1>7. SubscribedKnown' /\ FetchedAreNew' /\ StartSnapshots' /\ NoLink'
  BY <1>1, <1>2, <1>4
     DEF SubscribedKnown, FetchedAreNew, StartSnapshots, SnapshotIn, NoLink
<1> QED
  BY <1>3, <1>6, <1>7

LEMMA OnBookUpdateStep ==
    ASSUME MInv, OnBookUpdate
    PROVE  MInv'
<1> USE DEF MInv
<1> DEFINE msg == Head(events)
<1>1. /\ step = "idle" /\ events # <<>> /\ events' = Tail(events)
      /\ book' = IF msg.ticker \in active
                 THEN [book EXCEPT ![msg.ticker] = Folded(@, msg)]
                 ELSE book
      /\ lapsed' = IF msg.kind = "snapshot"
                   THEN lapsed \ ({msg.ticker} \cap active)
                   ELSE lapsed
      /\ UNCHANGED <<truth, link, sending, subscribed, wire, published, step, fetching,
                     useWs, active>>
  BY DEF OnBookUpdate, exchangeVars, wsVars, watchVars
<1>2. TypeOK'
  <2>1. Trader
    BY DEF Trader
  <2> QED
    BY <2>1, TraderTypes
<1>3. /\ Inbound \in Seq(Messages) /\ Inbound # <<>> /\ Head(Inbound) = msg
      /\ Inbound' = Tail(Inbound) /\ msg \in Messages
  <2>1. wire \in Seq(Messages) /\ events \in Seq(Messages)
    BY InboundSeq
  <2>2. Head(events) \in Messages
    BY <1>1, <2>1
  <2>3. /\ events \o wire # <<>> /\ Head(events \o wire) = Head(events)
        /\ Tail(events \o wire) = Tail(events) \o wire
    BY <1>1, <2>1, QueueTail
  <2>4. Inbound' = Tail(events) \o wire
    BY <1>1 DEF Inbound
  <2>5. Inbound \in Seq(Messages)
    BY InboundSeq
  <2> QED
    BY <2>2, <2>3, <2>4, <2>5 DEF Inbound
<1> HIDE DEF msg
<1>4. ASSUME NEW u \in subscribed,
             SnapshotIn(u, Inbound') \/ (u \in active /\ u \notin lapsed')
      PROVE  Leads(u, Inbound', book'[u], truth[u])
  <2>1. u \in Tickers /\ book \in [Tickers -> Nat] /\ book[u] \in Nat
    <3>1. u \in Tickers /\ book \in [Tickers -> Nat]
      BY DEF TypeOK
    <3> QED
      BY <3>1
  <2>2. SnapshotIn(u, Inbound) <=>
          SnapshotIn(u, Inbound') \/ (msg.ticker = u /\ msg.kind = "snapshot")
    BY <1>3, SnapshotTail
  <2>3. SnapshotIn(u, Inbound) \/ (u \in active /\ u \notin lapsed)
    BY <1>1, <1>4, <2>2
  <2>4. Leads(u, Inbound, book[u], truth[u])
    BY <2>3 DEF BooksLead
  <2>5. Leads(u, Inbound', FoldedFor(u, book[u], msg), truth[u])
    BY <1>3, <2>1, <2>4, LeadsTail
  <2>6. CASE u \in active
    <3>1. book'[u] = FoldedFor(u, book[u], msg)
      BY <1>1, <2>1, <2>6 DEF FoldedFor
    <3> QED
      BY <2>5, <3>1
  <2>7. CASE u \notin active
    <3>1. book'[u] = book[u]
      BY <1>1, <2>1, <2>7
    <3>2. SnapshotIn(u, Inbound')
      BY <1>4, <2>7
    <3>3. FoldedFor(u, book[u], msg) \in Nat /\ Inbound' \in Seq(Messages)
      BY <1>3, <2>1, FoldedTypes
    <3> QED
      BY <2>1, <2>5, <3>1, <3>2, <3>3, LeadsFromAny
  <2> QED
    BY <2>6, <2>7
<1>5. BooksLead'
  BY <1>1, <1>4 DEF BooksLead, SnapshotIn
<1>6. SubscribedKnown' /\ FetchedAreNew' /\ StartSnapshots' /\ NoLink'
  BY <1>1 DEF SubscribedKnown, FetchedAreNew, StartSnapshots, NoLink
<1> QED
  BY <1>2, <1>5, <1>6

LEMMA TraderStep ==
    ASSUME MInv, Trader
    PROVE  MInv'
<1> USE DEF MInv
<1>1. TypeOK'
  BY TraderTypes
<1>2. CASE DiscoverCategory \/ RefreshTick
  <2>1. /\ UNCHANGED <<truth, link, sending, subscribed, wire, published, events,
                       fetching, useWs, active, book, lapsed>>
        /\ step' = step \/ step' = "discover"
    BY <1>2 DEF DiscoverCategory, RefreshTick, exchangeVars, wsVars, watchVars, traderVars
  <2>2. UNCHANGED Inbound
    BY <2>1 DEF Inbound
  <2> QED
    BY <1>1, <2>1, <2>2 DEF BooksLead, SubscribedKnown, FetchedAreNew, StartSnapshots,
                            SnapshotIn, NoLink
<1>3. CASE SeedUniverse
  <2>1. /\ step = "boot" /\ step' = "seed" /\ active' = found /\ published' = found
        /\ link' = IF useWs THEN "down" ELSE "off"
        /\ UNCHANGED <<sending, subscribed, wire, useWs, lapsed>>
    BY <1>3 DEF SeedUniverse
  <2>2. subscribed = {} /\ sending = {} /\ wire = <<>>
    BY <2>1 DEF NoLink
  <2> QED
    BY <1>1, <2>1, <2>2 DEF BooksLead, SubscribedKnown, FetchedAreNew, StartSnapshots,
                            NoLink
<1>4. CASE RefreshMarkets
  <2>1. /\ UNCHANGED <<truth, link, sending, subscribed, wire, published, events, useWs,
                       book>>
        /\ step = "discover"
        /\ \/ step' = "idle" /\ UNCHANGED <<active, lapsed>>
           \/ /\ active' = (active \ Prunable) \cup Added
              /\ lapsed' = lapsed \cup Prunable
              /\ fetching' = Added
              /\ step' = "fetch"
    BY <1>4 DEF RefreshMarkets, exchangeVars, watchVars, ToFetch
  <2>2. UNCHANGED Inbound
    BY <2>1 DEF Inbound
  <2>3. CASE step' = "idle" /\ UNCHANGED <<active, lapsed>>
    BY <1>1, <2>1, <2>2, <2>3 DEF BooksLead, SubscribedKnown, FetchedAreNew,
       StartSnapshots, SnapshotIn, NoLink
  <2>4. CASE /\ active' = (active \ Prunable) \cup Added
             /\ lapsed' = lapsed \cup Prunable
             /\ fetching' = Added
             /\ step' = "fetch"
    <3>1. Added \cap active = {}
      BY DEF Added
    <3>2. SubscribedKnown'
      BY <2>1, <2>4 DEF SubscribedKnown
    <3>3. FetchedAreNew'
      BY <2>1, <2>4, <3>1 DEF SubscribedKnown, FetchedAreNew
    \* What comes back had lapsed, so that only its snapshot counts.
    <3>4. \A u \in subscribed :
            u \in active' /\ u \notin lapsed' => u \in active /\ u \notin lapsed
      BY <2>4 DEF SubscribedKnown
    <3>5. BooksLead'
      BY <2>1, <2>2, <3>4 DEF BooksLead, SnapshotIn
    <3>6. StartSnapshots' /\ NoLink'
      BY <2>1, <2>4 DEF StartSnapshots, NoLink
    <3> QED
      BY <1>1, <3>2, <3>3, <3>5, <3>6
  <2> QED
    BY <2>1, <2>3, <2>4
<1>5. CASE FetchDone
  <2>1. /\ step' = "idle"
        /\ published' = active \/ UNCHANGED published
        /\ UNCHANGED <<truth, link, sending, subscribed, wire, events, useWs, active, book,
                       lapsed>>
    BY <1>5 DEF FetchDone, exchangeVars, wsVars, watchVars, traderVars
  <2>2. UNCHANGED Inbound
    BY <2>1 DEF Inbound
  <2> QED
    BY <1>1, <2>1, <2>2 DEF BooksLead, SubscribedKnown, FetchedAreNew, StartSnapshots,
                            SnapshotIn, NoLink
<1>6. CASE RestPoll
  <2>1. /\ step = "idle" /\ ~useWs
        /\ UNCHANGED <<link, sending, subscribed, wire, published, step, useWs, active,
                       lapsed>>
    BY <1>6 DEF RestPoll, wsVars, watchVars
  <2>2. subscribed = {}
    BY <2>1 DEF NoLink
  <2> QED
    BY <1>1, <2>1, <2>2 DEF BooksLead, SubscribedKnown, FetchedAreNew, StartSnapshots,
                            NoLink
<1> QED
  BY <1>2, <1>3, <1>4, <1>5, <1>6, FetchSnapshotStep, OnBookUpdateStep DEF Trader, Handler

LEMMA MarketStep ==
    ASSUME MInv, [Next]_vars
    PROVE  MInv'
<1>1. CASE UNCHANGED vars
  <2> USE <1>1 DEF vars, exchangeVars, wsVars, watchVars, walkVars, traderVars
  <2>1. TypeOK'
    BY DEF MInv, TypeOK
  <2>2. UNCHANGED Inbound
    BY DEF Inbound
  <2> QED
    BY <2>1, <2>2 DEF MInv, BooksLead, SubscribedKnown, FetchedAreNew, StartSnapshots,
                      SnapshotIn, NoLink
<1> QED
  BY <1>1, ExchangeStep, WebSocketStep, TraderStep DEF Next

\* The inductive invariant of the books and what is under way for them, through
\* refreshes, reconnects and the start (main.rs:531-595, transport.rs:200-260).
THEOREM MarketInvariant == Spec => []MInv
  BY MarketInit, MarketStep, PTL DEF Spec

\* Types, and the event channel within its capacity (main.rs:272).
THEOREM MarketTypes == Spec => []TypeOK
<1>1. MInv => TypeOK
  BY DEF MInv
<1> QED
  BY <1>1, MarketInvariant, PTL

\* For any number of markets, any capacity of the channel and any interleaving of
\* snapshots, deltas, refreshes, failing requests and lost connections: the book
\* of a subscribed market, with what is under way for it, is the exchange's,
\* unless the market left the universe on this connection (main.rs:826-850).
THEOREM BooksFollowTheExchange == Spec => []BooksFollow
<1>1. MInv => BooksFollow
  <2> SUFFICES ASSUME MInv, NEW t \in active \cap subscribed, t \notin lapsed
               PROVE  Caught(t) = truth[t]
    BY DEF BooksFollow
  <2>1. t \in Tickers
    BY DEF MInv, TypeOK
  <2>2. Leads(t, Inbound, book[t], truth[t])
    BY DEF MInv, BooksLead
  <2> QED
    BY <2>1, <2>2, LeadsToCaught DEF MInv
<1> QED
  BY <1>1, MarketInvariant, PTL
-------------------------------------------------------------------------------
(***************************************************************************)
(* Fills: each is booked once and none is skipped.                         *)
(***************************************************************************)

\* The parameters are numbers.
LEMMA Parameters ==
    /\ Overlap \in Nat /\ Lookback \in Nat
    /\ SweepCap \in Nat /\ SweepCap > 0
    /\ FillIdCap \in Nat /\ FillIdCap >= 2 * SweepCap - 1
    /\ MaxFills \in Nat /\ MaxTime \in Nat /\ MaxFailures \in Nat /\ MaxBoots \in Nat
  BY WindowAssumption, SweepAssumption, FillIdAssumption, FeedBoundAssumption

USE Parameters

\* The logs and their values.
LEMMA Logs ==
    ASSUME FeedTypeOK
    PROVE  /\ Len(fills) \in Nat /\ DOMAIN fills = 1 .. Len(fills)
           /\ \A i \in DOMAIN fills : fills[i] \in Nat
           /\ Len(fifo) \in Nat /\ DOMAIN fifo = 1 .. Len(fifo)
           /\ \A i \in DOMAIN fifo : fifo[i] \in DOMAIN fills
           /\ watermark \in Int /\ Window \in Int
<1>1. fills \in Seq(0 .. MaxTime) /\ fifo \in Seq(DOMAIN fills) /\ watermark \in Int
  BY DEF FeedTypeOK
<1>2. Len(fills) \in Nat /\ DOMAIN fills = 1 .. Len(fills)
      /\ \A i \in DOMAIN fills : fills[i] \in 0 .. MaxTime
  BY <1>1
<1>3. Len(fifo) \in Nat /\ DOMAIN fifo = 1 .. Len(fifo)
      /\ \A i \in DOMAIN fifo : fifo[i] \in DOMAIN fills
  BY <1>1
<1> QED
  BY <1>1, <1>2, <1>3 DEF Window

\* The exchange lists fills as they happen.
InOrder ==
    /\ \A i, j \in DOMAIN fills : i <= j => fills[i] <= fills[j]
    /\ \A i \in DOMAIN fills : fills[i] <= now
    /\ watermark <= now /\ began <= now

\* With newest the last fill when this process' last sweep began: what is still
\* to come of that sweep and what was booked before it reach no further, a booked
\* fill that is no longer remembered is out of the reach of any later sweep, and
\* a fill is booked at most a sweep's length below one that was booked before it.
SweptUpTo(newest) ==
    /\ \A id \in inbox : newest - SweepCap < id /\ id <= newest
    /\ \A id \in 1 .. MaxFills :
         booked[id] # 0 => id \in Range(fifo) \/ id + SweepCap <= newest
    /\ \A i \in DOMAIN fifo : fifo[i] <= newest
    /\ \A i, j \in DOMAIN fifo :
         i < j => fifo[i] # fifo[j] /\ fifo[i] - SweepCap < fifo[j]
MemorySuffices ==
    /\ \E newest \in 0 .. Len(fills) : SweptUpTo(newest)
    /\ \A id \in 1 .. MaxFills : booked[id] <= 1
    /\ \A i \in DOMAIN fifo : booked[fifo[i]] # 0

\* What a sweep that has not lapsed leaves out came after it began.
SweepCovers ==
    /\ ~sweeping => inbox = {}
    /\ sweeping /\ ~lapse =>
         \A id \in DOMAIN fills : Due(id) => id \in inbox \/ fills[id] >= began

FInv == FeedTypeOK /\ InOrder /\ MemorySuffices /\ SweepCovers /\ NothingSkipped
-------------------------------------------------------------------------------
\* What a sweep reads.

\* The reported fills are the last ones, so that the newest of them are within a
\* sweep's length of the end of the log.
LEMMA NewestAreLast ==
    ASSUME FeedTypeOK, InOrder, NEW id \in Newest(Reported, SweepCap)
    PROVE  id \in DOMAIN fills /\ fills[id] >= Window /\ Len(fills) - SweepCap < id
<1> DEFINE last == Len(fills)
           newer == {later \in Reported : later > id}
<1>1. /\ last \in Nat /\ DOMAIN fills = 1 .. last
      /\ \A i \in DOMAIN fills : fills[i] \in Int
      /\ Window \in Int
  BY Logs
<1>2. id \in 1 .. last /\ fills[id] >= Window /\ Cardinality(newer) < SweepCap
  BY <1>1 DEF Newest, Reported
<1>3. newer = id + 1 .. last
  <2>1. ASSUME NEW later \in 1 .. last, later > id
        PROVE  fills[later] >= Window
    <3>1. fills[id] <= fills[later]
      BY <1>1, <1>2, <2>1 DEF InOrder
    <3> QED
      BY <1>1, <1>2, <2>1, <3>1
  <2> QED
    BY <1>1, <1>2, <2>1 DEF Reported
<1> HIDE DEF newer, last
<1>4. Cardinality(newer) = IF id + 1 > last THEN 0 ELSE last - (id + 1) + 1
  <2>1. id + 1 \in Int /\ last \in Int
    BY <1>1, <1>2
  <2>2. Cardinality(id + 1 .. last) = IF id + 1 > last THEN 0 ELSE last - (id + 1) + 1
    BY <2>1, FS_Interval
  <2> QED
    BY <1>3, <2>2
<1> USE DEF last
<1> QED
  BY <1>1, <1>2, <1>4

\* A sweep that its cap does not cut reads all that is reported.
LEMMA UncutSweep ==
    ASSUME FeedTypeOK, Cardinality(Reported) <= SweepCap
    PROVE  Newest(Reported, SweepCap) = Reported
<1>1. IsFiniteSet(Reported) /\ Reported \subseteq Nat
  <2>1. Len(fills) \in Nat /\ Reported \in SUBSET (1 .. Len(fills))
    BY Logs DEF Reported
  <2>2. IsFiniteSet(1 .. Len(fills))
    BY <2>1, FS_Interval
  <2>3. IsFiniteSet(Reported)
    BY <2>1, <2>2, FS_Subset
  <2> QED
    BY <2>1, <2>3
<1>2. ASSUME NEW id \in Reported
      PROVE  Cardinality({later \in Reported : later > id}) < SweepCap
  <2> DEFINE newer == {later \in Reported : later > id}
  <2>1. newer \in SUBSET Reported /\ id \notin newer
    BY <1>1
  <2> HIDE DEF newer
  <2>2. /\ IsFiniteSet(newer) /\ Cardinality(newer) <= Cardinality(Reported)
        /\ Cardinality(newer) # Cardinality(Reported)
    BY <1>1, <2>1, FS_Subset
  <2>3. Cardinality(newer) \in Nat /\ Cardinality(Reported) \in Nat
    BY <1>1, <2>2, FS_CardinalityType
  <2>4. Cardinality(newer) < SweepCap
    BY <2>2, <2>3
  <2> QED
    BY <2>4 DEF newer
<1> QED
  BY <1>2 DEF Newest

\* Numbers within a sweep's length below a bound are no more than a sweep reads.
LEMMA AtMostASweep ==
    ASSUME NEW newest \in Nat, NEW S \in SUBSET Int,
           \A id \in S : newest - SweepCap < id /\ id <= newest
    PROVE  Cardinality(S) <= SweepCap
<1> DEFINE span == newest - SweepCap + 1 .. newest
<1>1. IsFiniteSet(span) /\ Cardinality(span) = SweepCap
  BY FS_Interval
<1>2. S \in SUBSET span
  OBVIOUS
<1> HIDE DEF span
<1> QED
  BY <1>1, <1>2, FS_Subset

-------------------------------------------------------------------------------
\* The memory of ids.

\* seen_fill appends, and drops the first when there are too many.
LEMMA RememberedSeq ==
    ASSUME NEW S, fifo \in Seq(S), NEW id \in S, Len(fifo) <= FillIdCap
    PROVE  /\ Remembered(id) \in Seq(S) /\ Len(Remembered(id)) <= FillIdCap
           /\ Len(fifo) < FillIdCap =>
                /\ DOMAIN Remembered(id) = 1 .. Len(fifo) + 1
                /\ \A i \in 1 .. Len(fifo) + 1 :
                     Remembered(id)[i] = IF i = Len(fifo) + 1 THEN id ELSE fifo[i]
           /\ Len(fifo) = FillIdCap =>
                /\ DOMAIN Remembered(id) = 1 .. FillIdCap
                /\ \A i \in 1 .. FillIdCap :
                     Remembered(id)[i] = IF i = FillIdCap THEN id ELSE fifo[i + 1]
<1> DEFINE all == Append(fifo, id)
<1>1. /\ all \in Seq(S) /\ Len(all) = Len(fifo) + 1 /\ Len(fifo) \in Nat
      /\ \A i \in 1 .. Len(fifo) + 1 : all[i] = IF i = Len(fifo) + 1 THEN id ELSE fifo[i]
  OBVIOUS
<1> HIDE DEF all
<1>2. Remembered(id) = IF Len(all) > FillIdCap THEN Tail(all) ELSE all
  BY DEF Remembered, all
<1>3. CASE Len(fifo) < FillIdCap
  <2>1. Remembered(id) = all
    BY <1>1, <1>2, <1>3
  <2>2. DOMAIN all = 1 .. Len(fifo) + 1
    BY <1>1
  <2> QED
    BY <1>1, <1>3, <2>1, <2>2
<1>4. CASE Len(fifo) = FillIdCap
  <2>1. Remembered(id) = Tail(all) /\ all # <<>>
    BY <1>1, <1>2, <1>4
  <2>2. /\ Tail(all) \in Seq(S) /\ Len(Tail(all)) = FillIdCap
        /\ DOMAIN Tail(all) = 1 .. FillIdCap
        /\ \A i \in 1 .. FillIdCap : Tail(all)[i] = all[i + 1]
    BY <1>1, <1>4, <2>1
  <2>3. \A i \in 1 .. FillIdCap : Tail(all)[i] = IF i = FillIdCap THEN id ELSE fifo[i + 1]
    BY <1>1, <1>4, <2>2
  <2> QED
    BY <1>4, <2>1, <2>2, <2>3
<1> QED
  BY <1>1, <1>3, <1>4

\* A full memory and one more fill are too many different ids for the space
\* around the oldest of them, so that this one is out of the reach of a sweep.
LEMMA ForgetsTheOld ==
    ASSUME FeedTypeOK, NEW newest \in Nat, SweptUpTo(newest),
           NEW id \in inbox, ~Seen(id), Len(fifo) = FillIdCap
    PROVE  fifo[1] + SweepCap <= newest
<1> SUFFICES ASSUME newest < fifo[1] + SweepCap PROVE FALSE
  <2>1. fifo[1] \in Nat
    BY Logs
  <2> QED
    BY <2>1
<1> DEFINE oldest == fifo[1]
           ids == [i \in 2 .. FillIdCap + 1 |-> IF i = FillIdCap + 1 THEN id ELSE fifo[i]]
           around == oldest - SweepCap + 1 .. oldest + SweepCap - 1
<1>1. /\ DOMAIN fifo = 1 .. FillIdCap /\ 1 \in DOMAIN fifo
      /\ \A i \in DOMAIN fifo : fifo[i] \in Nat
      /\ oldest \in Nat /\ id \in Nat
  <2>1. DOMAIN fifo = 1 .. FillIdCap /\ FillIdCap >= 1
    BY Logs
  <2>2. id \in DOMAIN fills
    BY DEF FeedTypeOK
  <2> QED
    BY <2>1, <2>2, Logs
<1>2. \A i \in DOMAIN fifo : fifo[i] # id
  BY DEF Seen, Range
<1>3. oldest - SweepCap < id /\ id <= newest
  <2>1. newest - SweepCap < id /\ id <= newest /\ oldest <= newest
    BY <1>1 DEF SweptUpTo
  <2> QED
    BY <1>1, <2>1
<1>4. ids \in [2 .. FillIdCap + 1 -> around \ {oldest}]
  <2>1. ASSUME NEW i \in 2 .. FillIdCap
        PROVE  fifo[i] \in around \ {oldest}
    <3>1. fifo[i] <= newest /\ fifo[i] # oldest /\ oldest - SweepCap < fifo[i]
      BY <1>1 DEF SweptUpTo
    <3> QED
      BY <1>1, <3>1
  <2>2. id \in around \ {oldest}
    BY <1>1, <1>2, <1>3
  <2>3. ASSUME NEW i \in 2 .. FillIdCap + 1, i # FillIdCap + 1
        PROVE  i \in 2 .. FillIdCap
    BY <2>3
  <2> QED
    BY <2>1, <2>2, <2>3
<1>5. \A i, j \in 2 .. FillIdCap + 1 : i # j => ids[i] # ids[j]
  <2>1. ASSUME NEW i \in 2 .. FillIdCap + 1, NEW j \in 2 .. FillIdCap + 1, i < j
        PROVE  ids[i] # ids[j]
    <3>1. i \in 1 .. FillIdCap /\ ids[i] = fifo[i]
      BY <2>1
    <3>2. CASE j = FillIdCap + 1
      BY <1>1, <1>2, <3>1, <3>2
    <3>3. CASE j # FillIdCap + 1
      <4>1. j \in 1 .. FillIdCap /\ ids[j] = fifo[j]
        BY <3>3
      <4> QED
        BY <1>1, <2>1, <3>1, <4>1 DEF SweptUpTo
    <3> QED
      BY <3>2, <3>3
  <2> QED
    BY <2>1
<1> HIDE DEF ids, oldest
<1>6. /\ IsFiniteSet(around \ {oldest})
      /\ Cardinality(around \ {oldest}) = 2 * SweepCap - 2
  <2>1. IsFiniteSet(around) /\ Cardinality(around) = 2 * SweepCap - 1
    BY <1>1, FS_Interval
  <2>2. oldest \in around
    BY <1>1
  <2> HIDE DEF around
  <2>3. /\ IsFiniteSet(around \ {oldest})
        /\ Cardinality(around \ {oldest}) = Cardinality(around) - 1
    BY <2>1, <2>2, FS_RemoveElement
  <2> QED
    BY <2>1, <2>3
<1>7. IsFiniteSet(2 .. FillIdCap + 1) /\ Cardinality(2 .. FillIdCap + 1) = FillIdCap
  BY FS_Interval
<1> HIDE DEF around
<1> DEFINE places == 2 .. FillIdCap + 1
           values == around \ {oldest}
<1>8. Cardinality(values) < Cardinality(places)
  BY <1>6, <1>7
<1> HIDE DEF places, values
<1>9. \E i, j \in places : i # j /\ ids[i] = ids[j]
  <2>1. IsFiniteSet(places) /\ IsFiniteSet(values) /\ ids \in [places -> values]
    BY <1>4, <1>6, <1>7 DEF places, values
  <2> QED
    BY <1>8, <2>1, FS_PigeonHole
<1> QED
  BY <1>5, <1>9 DEF places
-------------------------------------------------------------------------------
\* The invariant starts to hold, and every step keeps it.

LEMMA FeedStart == FeedInit => FInv
<1> SUFFICES ASSUME FeedInit PROVE FInv
  OBVIOUS
<1>1. /\ fills = <<>> /\ now = 0 /\ sweeping = FALSE /\ inbox = {} /\ fifo = <<>>
      /\ watermark = -Lookback /\ began = 0 /\ first = -Lookback - Overlap
      /\ lapse = FALSE /\ failures = 0 /\ boots = 0
      /\ booked = [id \in 1 .. MaxFills |-> 0]
  BY DEF FeedInit, NoBookings
<1>2. FeedTypeOK
  <2>1. fills \in Seq(0 .. MaxTime) /\ Len(fills) = 0 /\ DOMAIN fills = {}
        /\ fifo \in Seq(DOMAIN fills) /\ Len(fifo) = 0
    BY <1>1
  <2>2. inbox \subseteq DOMAIN fills /\ Cardinality(inbox) = 0
    BY <1>1, FS_EmptySet
  <2>3. booked \in [1 .. MaxFills -> Nat]
    BY <1>1
  <2>4. watermark \in Int /\ first \in Int
    BY <1>1
  <2>5. /\ now \in 0 .. MaxTime /\ began \in 0 .. MaxTime
        /\ failures \in 0 .. MaxFailures /\ boots \in 0 .. MaxBoots
    BY <1>1
  <2>6. sweeping \in BOOLEAN /\ lapse \in BOOLEAN
    BY <1>1
  <2>7. Len(fills) <= MaxFills /\ Len(fifo) <= FillIdCap /\ Cardinality(inbox) <= SweepCap
    BY <2>1, <2>2
  <2> HIDE <1>1
  <2> QED
    BY <2>1, <2>2, <2>3, <2>4, <2>5, <2>6, <2>7 DEF FeedTypeOK
<1>3. DOMAIN fills = {} /\ DOMAIN fifo = {} /\ Len(fills) = 0
  BY <1>1
<1>4. InOrder
  BY <1>1, <1>3 DEF InOrder
<1>5. MemorySuffices
  <2>1. SweptUpTo(0)
    BY <1>1, <1>3 DEF SweptUpTo
  <2> QED
    BY <1>1, <1>3, <2>1 DEF MemorySuffices
<1>6. SweepCovers /\ NothingSkipped
  BY <1>1, <1>3 DEF SweepCovers, NothingSkipped
<1> QED
  BY <1>2, <1>4, <1>5, <1>6 DEF FInv

LEMMA WiderSeq ==
    ASSUME NEW S, NEW T, S \subseteq T, NEW s \in Seq(S)
    PROVE  s \in Seq(T)
  OBVIOUS

LEMMA ExchangeFillStep ==
    ASSUME FInv, ExchangeFill
    PROVE  FInv'
<1> USE DEF FInv
<1>1. /\ Len(fills) < MaxFills /\ fills' = Append(fills, now)
      /\ UNCHANGED <<now, sweeping, inbox, fifo, watermark, began, first, lapse, booked,
                     failures, boots>>
  BY DEF ExchangeFill
<1>2. now \in 0 .. MaxTime /\ fills \in Seq(0 .. MaxTime)
  BY DEF FeedTypeOK
<1>3. /\ fills' \in Seq(0 .. MaxTime) /\ Len(fills') = Len(fills) + 1
      /\ DOMAIN fills' = 1 .. Len(fills) + 1
      /\ \A i \in DOMAIN fills' : fills'[i] = IF i = Len(fills) + 1 THEN now ELSE fills[i]
  BY <1>1, <1>2
<1>4. Len(fills) \in Nat /\ DOMAIN fills = 1 .. Len(fills) /\ DOMAIN fills \subseteq DOMAIN fills'
  BY <1>3, Logs
<1>5. FeedTypeOK'
  <2>1. fifo' \in Seq(DOMAIN fills')
    BY <1>1, <1>4, WiderSeq DEF FeedTypeOK
  <2>2. Len(fills') <= MaxFills
    BY <1>1, <1>3, <1>4
  <2> QED
    BY <1>1, <1>3, <1>4, <2>1, <2>2 DEF FeedTypeOK
<1>6. InOrder'
  <2>1. \A i \in DOMAIN fills : fills[i] \in Nat /\ fills[i] <= now
    BY Logs DEF InOrder
  <2> QED
    BY <1>1, <1>2, <1>3, <1>4, <2>1 DEF InOrder
<1>7. MemorySuffices'
  <2>1. PICK newest \in 0 .. Len(fills) : SweptUpTo(newest)
    BY DEF MemorySuffices
  <2>2. newest \in 0 .. Len(fills')
    BY <1>3, <1>4
  <2>3. SweptUpTo(newest)'
    BY <1>1, <2>1 DEF SweptUpTo
  <2> QED
    BY <1>1, <2>2, <2>3 DEF MemorySuffices
<1>8. SweepCovers'
  <2>1. now >= began
    BY <1>2 DEF InOrder, FeedTypeOK
  <2>2. ASSUME NEW id \in DOMAIN fills', Due(id)', id # Len(fills) + 1
        PROVE  id \in DOMAIN fills /\ Due(id) /\ fills'[id] = fills[id]
    BY <1>1, <1>3, <1>4, <2>2 DEF Due
  <2> QED
    BY <1>1, <1>3, <2>1, <2>2 DEF SweepCovers
<1>9. NothingSkipped'
  <2>1. now >= Window
    BY <1>2, Logs DEF InOrder, FeedTypeOK, Window
  <2>2. ASSUME NEW id \in DOMAIN fills', Due(id)', id # Len(fills) + 1
        PROVE  id \in DOMAIN fills /\ Due(id) /\ fills'[id] = fills[id]
    BY <1>1, <1>3, <1>4, <2>2 DEF Due
  <2>3. Window' = Window
    BY <1>1 DEF Window
  <2> QED
    BY <1>1, <1>3, <2>1, <2>2, <2>3 DEF NothingSkipped
<1> QED
  BY <1>5, <1>6, <1>7, <1>8, <1>9

LEMMA TickStep ==
    ASSUME FInv, Tick
    PROVE  FInv'
<1> USE DEF FInv
<1>1. /\ now < MaxTime /\ now' = now + 1 /\ now \in Nat
      /\ UNCHANGED <<fills, sweeping, inbox, fifo, watermark, began, first, lapse, booked,
                     failures, boots>>
  BY DEF Tick, FeedTypeOK
<1>2. FeedTypeOK'
  BY <1>1 DEF FeedTypeOK
<1>3. InOrder'
  <2>1. watermark \in Int /\ began \in Nat /\ \A i \in DOMAIN fills : fills[i] \in Nat
    BY Logs DEF FeedTypeOK
  <2> QED
    BY <1>1, <2>1 DEF InOrder
<1>4. MemorySuffices'
  BY <1>1 DEF MemorySuffices, SweptUpTo
<1>5. SweepCovers' /\ NothingSkipped'
  BY <1>1 DEF SweepCovers, NothingSkipped, Due, Window
<1> QED
  BY <1>2, <1>3, <1>4, <1>5

LEMMA StartSweepStep ==
    ASSUME FInv, StartSweep
    PROVE  FInv'
<1> USE DEF FInv
<1>1. /\ ~sweeping /\ sweeping' = TRUE
      /\ inbox' = Newest(Reported, SweepCap)
      /\ began' = now
      /\ lapse' = (lapse \/ Cardinality(Reported) > SweepCap)
      /\ UNCHANGED <<fills, now, fifo, watermark, first, booked, failures, boots>>
  BY DEF StartSweep, logVars
<1>2. \A id \in inbox' : id \in DOMAIN fills /\ fills[id] >= Window
                         /\ Len(fills) - SweepCap < id
  BY <1>1, NewestAreLast
<1>3. Len(fills) \in Nat /\ DOMAIN fills = 1 .. Len(fills)
  BY Logs
<1>4. FeedTypeOK'
  <2>1. Cardinality(inbox') <= SweepCap
    <3>1. inbox' \in SUBSET Int
      BY <1>2, <1>3
    <3>2. \A id \in inbox' : Len(fills) - SweepCap < id /\ id <= Len(fills)
      BY <1>2, <1>3
    <3> QED
      BY <1>3, <3>1, <3>2, AtMostASweep
  <2>2. lapse' \in BOOLEAN
    BY <1>1 DEF FeedTypeOK
  <2> QED
    BY <1>1, <1>2, <2>1, <2>2 DEF FeedTypeOK
<1>5. InOrder'
  BY <1>1 DEF InOrder, FeedTypeOK
<1>6. MemorySuffices'
  <2>1. PICK newest \in 0 .. Len(fills) : SweptUpTo(newest)
    BY DEF MemorySuffices
  <2>2. SweptUpTo(Len(fills))'
    <3>1. \A id \in inbox' : Len(fills) - SweepCap < id /\ id <= Len(fills)
      BY <1>2, <1>3
    <3>2. \A id \in 1 .. MaxFills :
            booked[id] # 0 => id \in Range(fifo) \/ id + SweepCap <= Len(fills)
      BY <1>3, <2>1 DEF SweptUpTo
    <3>3. \A i \in DOMAIN fifo : fifo[i] <= Len(fills)
      BY <1>3, Logs
    <3>4. \A i, j \in DOMAIN fifo :
            i < j => fifo[i] # fifo[j] /\ fifo[i] - SweepCap < fifo[j]
      BY <2>1 DEF SweptUpTo
    <3> QED
      BY <1>1, <3>1, <3>2, <3>3, <3>4 DEF SweptUpTo
  <2>3. Len(fills) \in 0 .. Len(fills')
    BY <1>1, <1>3
  <2>4. \E k \in 0 .. Len(fills') : SweptUpTo(k)'
    BY <1>1, <2>2, <2>3
  <2> QED
    BY <1>1, <2>4 DEF MemorySuffices
<1>7. SweepCovers'
  <2> SUFFICES ASSUME ~lapse', NEW id \in DOMAIN fills, Due(id)
               PROVE  id \in inbox'
    BY <1>1 DEF SweepCovers, Due
  <2>1. ~lapse /\ ~(Cardinality(Reported) > SweepCap)
    BY <1>1
  <2>2. Cardinality(Reported) <= SweepCap
    <3>1. Reported \in SUBSET (1 .. Len(fills)) /\ IsFiniteSet(1 .. Len(fills))
      BY <1>3, FS_Interval DEF Reported
    <3>2. Cardinality(Reported) \in Nat
      BY <3>1, FS_Subset, FS_CardinalityType
    <3> QED
      BY <2>1, <3>2
  <2>3. inbox' = Reported
    BY <1>1, <2>2, UncutSweep
  <2>4. fills[id] >= Window
    BY <2>1 DEF NothingSkipped
  <2> QED
    BY <2>3, <2>4 DEF Reported
<1>8. NothingSkipped'
  BY <1>1 DEF NothingSkipped, Due, Window
<1> QED
  BY <1>4, <1>5, <1>6, <1>7, <1>8
\* Taking a fill out of the sweep leaves the rest of it as it was.
LEMMA TakenFill ==
    ASSUME FInv, NEW id \in inbox
    PROVE  /\ inbox \ {id} \subseteq DOMAIN fills
           /\ Cardinality(inbox \ {id}) <= SweepCap
           /\ id \in DOMAIN fills /\ id \in 1 .. MaxFills
<1>1. inbox \subseteq DOMAIN fills /\ Len(fills) <= MaxFills
  BY DEF FInv, FeedTypeOK
<1>2. Len(fills) \in Nat /\ DOMAIN fills = 1 .. Len(fills)
  BY Logs DEF FInv
<1>3. PICK newest \in 0 .. Len(fills) : SweptUpTo(newest)
  BY DEF FInv, MemorySuffices
<1>4. Cardinality(inbox \ {id}) <= SweepCap
  <2>1. inbox \ {id} \in SUBSET Int
    BY <1>1, <1>2
  <2>2. \A other \in inbox \ {id} : newest - SweepCap < other /\ other <= newest
    BY <1>3 DEF SweptUpTo
  <2>3. newest \in Nat
    BY <1>2
  <2> HIDE <1>1, <1>2, <1>3
  <2> QED
    BY <2>1, <2>2, <2>3, AtMostASweep
<1> QED
  BY <1>1, <1>2, <1>4

\* A fill that was booked before is remembered.
LEMMA SeenAgain ==
    ASSUME FInv, NEW id \in inbox, ~Seen(id)
    PROVE  booked[id] = 0
<1>1. PICK newest \in 0 .. Len(fills) : SweptUpTo(newest)
  BY DEF FInv, MemorySuffices
<1>2. id \in 1 .. MaxFills
  BY TakenFill
<1>3. newest - SweepCap < id
  BY <1>1 DEF SweptUpTo
<1>4. Len(fills) \in Nat
  BY Logs DEF FInv
<1> QED
  BY <1>1, <1>2, <1>3, <1>4 DEF SweptUpTo, Seen

\* Remembering one more fill of the sweep keeps the memory sufficient.
LEMMA RememberedSwept ==
    ASSUME FInv, NEW id \in inbox, ~Seen(id),
           NEW newest \in 0 .. Len(fills), SweptUpTo(newest)
    PROVE  /\ \A i \in DOMAIN Remembered(id) : Remembered(id)[i] <= newest
           /\ \A i, j \in DOMAIN Remembered(id) :
                i < j => /\ Remembered(id)[i] # Remembered(id)[j]
                         /\ Remembered(id)[i] - SweepCap < Remembered(id)[j]
           /\ \A other \in Range(fifo) :
                other \in Range(Remembered(id)) \/ other + SweepCap <= newest
           /\ \A i \in DOMAIN Remembered(id) :
                Remembered(id)[i] = id \/ Remembered(id)[i] \in Range(fifo)
           /\ id \in Range(Remembered(id))
<1> DEFINE after == Remembered(id)
<1>1. /\ newest \in Nat /\ newest - SweepCap < id /\ id <= newest
      /\ id \in Nat /\ id \in DOMAIN fills
  <2>1. id \in DOMAIN fills /\ DOMAIN fills = 1 .. Len(fills) /\ Len(fills) \in Nat
    BY TakenFill, Logs DEF FInv
  <2> QED
    BY <2>1 DEF SweptUpTo
<1>2. /\ Len(fifo) \in Nat /\ DOMAIN fifo = 1 .. Len(fifo) /\ Len(fifo) <= FillIdCap
      /\ \A i \in DOMAIN fifo : fifo[i] \in Nat /\ fifo[i] <= newest /\ fifo[i] # id
  <2>1. \A i \in DOMAIN fifo : fifo[i] \in DOMAIN fills
    BY Logs DEF FInv
  <2>2. DOMAIN fills = 1 .. Len(fills) /\ Len(fills) \in Nat
    BY Logs DEF FInv
  <2>3. \A i \in DOMAIN fifo : fifo[i] \in Nat
    BY <2>1, <2>2
  <2>4. Len(fifo) \in Nat /\ DOMAIN fifo = 1 .. Len(fifo) /\ Len(fifo) <= FillIdCap
    BY Logs DEF FInv, FeedTypeOK
  <2>5. \A i \in DOMAIN fifo : fifo[i] # id
    BY DEF Seen, Range
  <2> QED
    BY <2>3, <2>4, <2>5 DEF SweptUpTo
<1>3. \A i, j \in DOMAIN fifo : i < j => fifo[i] # fifo[j] /\ fifo[i] - SweepCap < fifo[j]
  BY DEF SweptUpTo
<1>4. /\ Len(fifo) < FillIdCap =>
           /\ DOMAIN after = 1 .. Len(fifo) + 1
           /\ \A i \in 1 .. Len(fifo) + 1 : after[i] = IF i = Len(fifo) + 1 THEN id ELSE fifo[i]
      /\ Len(fifo) = FillIdCap =>
           /\ DOMAIN after = 1 .. FillIdCap
           /\ \A i \in 1 .. FillIdCap : after[i] = IF i = FillIdCap THEN id ELSE fifo[i + 1]
  <2>1. fifo \in Seq(DOMAIN fills)
    BY DEF FInv, FeedTypeOK
  <2> QED
    BY <1>1, <1>2, <2>1, RememberedSeq
<1>5. Len(fifo) = FillIdCap => fifo[1] + SweepCap <= newest
  BY <1>1, ForgetsTheOld DEF FInv
<1> HIDE DEF after
<1>6. CASE Len(fifo) < FillIdCap
  <2>1. /\ DOMAIN after = 1 .. Len(fifo) + 1 /\ Len(fifo) + 1 \in DOMAIN after
        /\ after[Len(fifo) + 1] = id
        /\ \A i \in DOMAIN fifo : i \in DOMAIN after /\ after[i] = fifo[i]
        /\ \A i \in DOMAIN after : i = Len(fifo) + 1 \/ i \in DOMAIN fifo
    <3>1. DOMAIN after = 1 .. Len(fifo) + 1
      BY <1>4, <1>6
    <3>2. \A i \in 1 .. Len(fifo) + 1 : after[i] = IF i = Len(fifo) + 1 THEN id ELSE fifo[i]
      BY <1>4, <1>6
    <3>3. Len(fifo) + 1 \in DOMAIN after /\ after[Len(fifo) + 1] = id
      BY <1>2, <3>1, <3>2
    <3>4. ASSUME NEW i \in DOMAIN fifo PROVE i \in DOMAIN after /\ after[i] = fifo[i]
      <4>1. i \in 1 .. Len(fifo) + 1 /\ i # Len(fifo) + 1
        BY <1>2
      <4> QED
        BY <3>1, <3>2, <4>1
    <3>5. \A i \in DOMAIN after : i = Len(fifo) + 1 \/ i \in DOMAIN fifo
      BY <1>2, <3>1
    <3> QED
      BY <3>1, <3>3, <3>4, <3>5
  <2>2. ASSUME NEW i \in DOMAIN after, NEW j \in DOMAIN after, i < j
        PROVE  after[i] # after[j] /\ after[i] - SweepCap < after[j]
    <3>1. i \in DOMAIN fifo /\ after[i] = fifo[i]
      BY <1>2, <2>1, <2>2
    <3>2. CASE j = Len(fifo) + 1
      BY <1>1, <1>2, <2>1, <3>1, <3>2
    <3>3. CASE j \in DOMAIN fifo
      BY <1>3, <2>1, <2>2, <3>1, <3>3
    <3> QED
      BY <2>1, <3>2, <3>3
  <2>3. \A i \in DOMAIN after : after[i] <= newest
    BY <1>1, <1>2, <2>1
  <2>4. \A i \in DOMAIN after : after[i] = id \/ after[i] \in Range(fifo)
    BY <2>1 DEF Range
  <2>5. Range(fifo) \subseteq Range(after) /\ id \in Range(after)
    BY <2>1 DEF Range
  <2> QED
    BY <2>2, <2>3, <2>4, <2>5 DEF after
<1>7. CASE Len(fifo) = FillIdCap
  <2>1. /\ DOMAIN after = 1 .. FillIdCap /\ FillIdCap \in DOMAIN after
        /\ after[FillIdCap] = id
        /\ \A i \in DOMAIN fifo :
             i = 1 \/ (i - 1 \in DOMAIN after /\ after[i - 1] = fifo[i])
        /\ \A i \in DOMAIN after :
             i = FillIdCap \/ (i + 1 \in DOMAIN fifo /\ after[i] = fifo[i + 1])
    BY <1>2, <1>4, <1>7
  <2>2. ASSUME NEW i \in DOMAIN after, NEW j \in DOMAIN after, i < j
        PROVE  after[i] # after[j] /\ after[i] - SweepCap < after[j]
    <3>1. i + 1 \in DOMAIN fifo /\ after[i] = fifo[i + 1]
      BY <1>2, <2>1, <2>2
    <3>2. CASE j = FillIdCap
      BY <1>1, <1>2, <2>1, <3>1, <3>2
    <3>3. CASE j # FillIdCap
      <4>1. j + 1 \in DOMAIN fifo /\ after[j] = fifo[j + 1] /\ i + 1 < j + 1
        BY <2>1, <2>2, <3>3
      <4> QED
        BY <1>3, <3>1, <4>1
    <3> QED
      BY <3>2, <3>3
  <2>3. \A i \in DOMAIN after : after[i] <= newest
    BY <1>1, <1>2, <2>1
  <2>4. \A i \in DOMAIN after : after[i] = id \/ after[i] \in Range(fifo)
    BY <2>1 DEF Range
  <2>5. \A other \in Range(fifo) : other \in Range(after) \/ other + SweepCap <= newest
    BY <1>5, <1>7, <2>1 DEF Range
  <2>6. id \in Range(after)
    BY <2>1 DEF Range
  <2> QED
    BY <2>2, <2>3, <2>4, <2>5, <2>6 DEF after
<1>8. Len(fifo) < FillIdCap \/ Len(fifo) = FillIdCap
  <2>1. Len(fifo) \in Nat /\ Len(fifo) <= FillIdCap
    BY <1>2
  <2> HIDE <1>1, <1>2, <1>3, <1>4, <1>5, <1>6, <1>7
  <2> QED
    BY <2>1
<1> QED
  BY <1>6, <1>7, <1>8, Zenon
LEMMA ProcessFillStep ==
    ASSUME FInv, ProcessFill
    PROVE  FInv'
<1> USE DEF FInv
<1>1. PICK id \in inbox :
        /\ inbox' = inbox \ {id}
        /\ \/ Seen(id) /\ UNCHANGED <<fifo, booked>>
           \/ /\ ~Seen(id)
              /\ fifo' = Remembered(id)
              /\ booked' = [booked EXCEPT ![id] = @ + 1]
  BY DEF ProcessFill, Upcoming
<1>2. /\ sweeping
      /\ UNCHANGED <<fills, now, sweeping, watermark, began, first, lapse, failures, boots>>
  BY DEF ProcessFill, logVars
<1>3. /\ inbox' \subseteq DOMAIN fills /\ Cardinality(inbox') <= SweepCap
      /\ id \in DOMAIN fills /\ id \in 1 .. MaxFills
  BY <1>1, TakenFill
<1>4. booked \in [1 .. MaxFills -> Nat] /\ \A other \in 1 .. MaxFills : booked[other] <= 1
  BY DEF FeedTypeOK, MemorySuffices
<1>5. ~Seen(id) => booked[id] = 0
  BY SeenAgain
<1>6. /\ booked' \in [1 .. MaxFills -> Nat]
      /\ \A other \in 1 .. MaxFills : booked'[other] <= 1
      /\ \A other \in 1 .. MaxFills : booked[other] # 0 => booked'[other] # 0
      /\ \A other \in 1 .. MaxFills : booked'[other] # 0 => booked[other] # 0 \/ other = id
      /\ ~Seen(id) => booked'[id] # 0
  BY <1>1, <1>3, <1>4, <1>5
<1>7. Seen(id) => booked[id] # 0
  BY DEF Seen, Range, MemorySuffices
<1>8. FeedTypeOK'
  <2>1. fifo' \in Seq(DOMAIN fills) /\ Len(fifo') <= FillIdCap
    <3>1. fifo \in Seq(DOMAIN fills) /\ Len(fifo) <= FillIdCap
      BY DEF FeedTypeOK
    <3> QED
      BY <1>1, <1>3, <3>1, RememberedSeq
  <2> QED
    BY <1>2, <1>3, <1>6, <2>1 DEF FeedTypeOK
<1>9. InOrder'
  BY <1>2 DEF InOrder
<1>10. MemorySuffices'
  <2>1. PICK newest \in 0 .. Len(fills) : SweptUpTo(newest)
    BY DEF MemorySuffices
  <2>2. CASE Seen(id)
    <3>1. UNCHANGED <<fifo, booked>>
      BY <1>1, <2>2
    <3>2. SweptUpTo(newest)'
      BY <1>1, <2>1, <3>1 DEF SweptUpTo
    <3> QED
      BY <1>2, <2>1, <3>1, <3>2 DEF MemorySuffices
  <2>3. CASE ~Seen(id)
    <3>1. fifo' = Remembered(id)
      BY <1>1, <2>3
    <3>2. /\ \A i \in DOMAIN fifo' : fifo'[i] <= newest
          /\ \A i, j \in DOMAIN fifo' :
               i < j => fifo'[i] # fifo'[j] /\ fifo'[i] - SweepCap < fifo'[j]
          /\ \A other \in Range(fifo) : other \in Range(fifo') \/ other + SweepCap <= newest
          /\ \A i \in DOMAIN fifo' : fifo'[i] = id \/ fifo'[i] \in Range(fifo)
          /\ id \in Range(fifo')
      BY <2>1, <2>3, <3>1, RememberedSwept
    <3>3. \A other \in inbox' : newest - SweepCap < other /\ other <= newest
      BY <1>1, <2>1 DEF SweptUpTo
    <3>4. \A other \in 1 .. MaxFills :
            booked'[other] # 0 => other \in Range(fifo') \/ other + SweepCap <= newest
      BY <1>6, <2>1, <3>2 DEF SweptUpTo
    <3>5. SweptUpTo(newest)'
      BY <3>2, <3>3, <3>4 DEF SweptUpTo
    <3>6. \A i \in DOMAIN fifo' : booked'[fifo'[i]] # 0
      <4>1. \A other \in Range(fifo) : other \in 1 .. MaxFills /\ booked[other] # 0
        <5>1. \A i \in DOMAIN fifo : fifo[i] \in DOMAIN fills
          BY Logs
        <5>2. DOMAIN fills \subseteq 1 .. MaxFills
          <6>1. DOMAIN fills = 1 .. Len(fills) /\ Len(fills) \in Nat /\ Len(fills) <= MaxFills
            BY Logs DEF FeedTypeOK
          <6> QED
            BY <6>1
        <5> QED
          BY <5>1, <5>2 DEF Range, MemorySuffices
      <4> QED
        BY <1>6, <2>3, <3>2, <4>1
    <3> QED
      BY <1>2, <1>6, <2>1, <3>5, <3>6 DEF MemorySuffices
  <2> QED
    BY <2>2, <2>3
<1>11. booked'[id] # 0
  BY <1>1, <1>6, <1>7
<1>12. ASSUME NEW other \in DOMAIN fills, Due(other)'
       PROVE  Due(other) /\ other # id
  <2>1. DOMAIN fills = 1 .. Len(fills) /\ Len(fills) \in Nat /\ Len(fills) <= MaxFills
    BY Logs DEF FeedTypeOK
  <2>2. other \in 1 .. MaxFills
    BY <2>1
  <2> QED
    BY <1>2, <1>6, <1>11, <1>12, <2>2 DEF Due
<1>13. SweepCovers'
  BY <1>1, <1>2, <1>12 DEF SweepCovers
<1>14. NothingSkipped'
  BY <1>2, <1>12 DEF NothingSkipped, Window
<1> QED
  BY <1>8, <1>9, <1>10, <1>13, <1>14

LEMMA EndSweepStep ==
    ASSUME FInv, EndSweep
    PROVE  FInv'
<1> USE DEF FInv
<1>1. /\ sweeping /\ inbox = {} /\ sweeping' = FALSE /\ watermark' = now
      /\ lapse' = (lapse \/ now - began > Overlap)
      /\ UNCHANGED <<fills, now, inbox, fifo, began, first, booked, failures, boots>>
  BY DEF EndSweep, logVars
<1>2. now \in 0 .. MaxTime /\ began \in 0 .. MaxTime /\ lapse \in BOOLEAN
  BY DEF FeedTypeOK
<1>3. FeedTypeOK'
  <2>1. watermark' \in Int /\ lapse' \in BOOLEAN
    BY <1>1, <1>2
  <2> QED
    BY <1>1, <2>1 DEF FeedTypeOK
<1>4. InOrder'
  BY <1>1, <1>2 DEF InOrder
<1>5. MemorySuffices'
  BY <1>1 DEF MemorySuffices, SweptUpTo
<1>6. SweepCovers'
  BY <1>1 DEF SweepCovers
<1>7. NothingSkipped'
  <2> SUFFICES ASSUME ~lapse', NEW id \in DOMAIN fills, Due(id)
               PROVE  fills[id] >= now - Overlap
    BY <1>1 DEF NothingSkipped, Due, Window
  <2>1. ~lapse /\ now - began <= Overlap
    <3>1. ~lapse /\ ~(now - began > Overlap)
      BY <1>1
    <3> QED
      BY <1>2, <3>1
  <2>2. fills[id] >= began
    BY <1>1, <2>1 DEF SweepCovers
  <2>3. fills[id] \in Nat
    BY Logs
  <2> QED
    BY <1>2, <2>1, <2>2, <2>3
<1> QED
  BY <1>3, <1>4, <1>5, <1>6, <1>7

LEMMA FailPageStep ==
    ASSUME FInv, FailPage
    PROVE  FInv'
<1> USE DEF FInv
<1>1. /\ failures < MaxFailures /\ failures' = failures + 1 /\ sweeping' = FALSE /\ inbox' = {}
      /\ UNCHANGED <<fills, now, fifo, watermark, began, first, lapse, booked, boots>>
  BY DEF FailPage, logVars
<1>2. FeedTypeOK'
  <2>1. Cardinality(inbox') = 0
    BY <1>1, FS_EmptySet
  <2>2. failures' \in 0 .. MaxFailures
    BY <1>1 DEF FeedTypeOK
  <2>3. inbox' \subseteq DOMAIN fills /\ Cardinality(inbox') <= SweepCap
    BY <1>1, <2>1
  <2> QED
    BY <1>1, <2>2, <2>3 DEF FeedTypeOK
<1>3. InOrder'
  BY <1>1 DEF InOrder
<1>4. MemorySuffices'
  BY <1>1 DEF MemorySuffices, SweptUpTo
<1>5. SweepCovers' /\ NothingSkipped'
  BY <1>1 DEF SweepCovers, NothingSkipped, Due, Window
<1> QED
  BY <1>2, <1>3, <1>4, <1>5

LEMMA RestartStep ==
    ASSUME FInv, Restart
    PROVE  FInv'
<1> USE DEF FInv
<1>1. /\ boots < MaxBoots /\ boots' = boots + 1 /\ sweeping' = FALSE /\ inbox' = {}
      /\ fifo' = <<>> /\ watermark' = now - Lookback
      /\ first' = now - Lookback - Overlap /\ began' = now /\ lapse' = FALSE
      /\ booked' = [id \in 1 .. MaxFills |-> 0]
      /\ UNCHANGED <<fills, now, failures>>
  BY DEF Restart, logVars, NoBookings
<1>2. now \in 0 .. MaxTime /\ Len(fills) \in Nat
  BY Logs DEF FeedTypeOK
<1>3. DOMAIN fifo' = {} /\ Len(fifo') = 0 /\ fifo' \in Seq(DOMAIN fills)
  BY <1>1
<1>4. FeedTypeOK'
  <2>1. Cardinality(inbox') = 0
    BY <1>1, FS_EmptySet
  <2>2. boots' \in 0 .. MaxBoots
    BY <1>1 DEF FeedTypeOK
  <2>3. watermark' \in Int /\ first' \in Int /\ booked' \in [1 .. MaxFills -> Nat]
    BY <1>1, <1>2
  <2>4. /\ inbox' \subseteq DOMAIN fills /\ Cardinality(inbox') <= SweepCap
        /\ Len(fifo') <= FillIdCap /\ fifo' \in Seq(DOMAIN fills)
    BY <1>1, <1>3, <2>1
  <2>5. sweeping' \in BOOLEAN /\ lapse' \in BOOLEAN /\ began' \in 0 .. MaxTime
    BY <1>1, <1>2
  <2> QED
    BY <1>1, <2>2, <2>3, <2>4, <2>5 DEF FeedTypeOK
<1>5. InOrder'
  BY <1>1, <1>2 DEF InOrder
<1>6. MemorySuffices'
  <2>1. SweptUpTo(0)'
    BY <1>1, <1>3 DEF SweptUpTo
  <2>2. \E newest \in 0 .. Len(fills') : SweptUpTo(newest)'
    BY <1>1, <1>2, <2>1
  <2> QED
    BY <1>1, <1>3, <2>2 DEF MemorySuffices
<1>7. SweepCovers' /\ NothingSkipped'
  BY <1>1, <1>2 DEF SweepCovers, NothingSkipped, Due, Window
<1> QED
  BY <1>4, <1>5, <1>6, <1>7

LEMMA FeedStep ==
    ASSUME FInv, [FeedNext]_feedVars
    PROVE  FInv'
<1>1. CASE UNCHANGED feedVars
  BY <1>1 DEF feedVars, logVars, FInv, FeedTypeOK, InOrder, MemorySuffices, SweptUpTo,
              SweepCovers, NothingSkipped, Due, Window
<1> QED
  BY <1>1, ExchangeFillStep, TickStep, StartSweepStep, ProcessFillStep, EndSweepStep,
     FailPageStep, RestartStep DEF FeedNext

\* The inductive invariant of the feed: the log is in order, the memory of ids
\* reaches past what a sweep may read again, and a clean sweep leaves nothing
\* older than its beginning (main.rs:611-651, state.rs:286-298).
THEOREM FeedInvariant == FeedSpec => []FInv
  BY FeedStart, FeedStep, PTL DEF FeedSpec

\* Types, and the bound on the memory of ids: "if self.fill_id_fifo.len() >
\* FILL_ID_CAP" drops one (state.rs:292-296).
THEOREM FeedTypes == FeedSpec => []FeedTypeOK
<1>1. FInv => FeedTypeOK
  BY DEF FInv
<1> QED
  BY <1>1, FeedInvariant, PTL

\* For every length of sweep, and a memory of ids of nearly twice that: a
\* process books no fill twice, however its sweeps overlap and fail
\* (main.rs:627-638, state.rs:286-298).
THEOREM FillsBookedOnce == FeedSpec => []EachFillOnce
<1>1. FInv => EachFillOnce
  BY DEF FInv, MemorySuffices, EachFillOnce
<1> QED
  BY <1>1, FeedInvariant, PTL

\* For every overlap and any clock: what this process should book and has not
\* is in the next sweep's window, but for sweeps cut by their cap of pages and
\* sweeps longer than the overlap (main.rs:646-650).
THEOREM NoFillSkipped == FeedSpec => []NothingSkipped
<1>1. FInv => NothingSkipped
  BY DEF FInv
<1> QED
  BY <1>1, FeedInvariant, PTL
===============================================================================
