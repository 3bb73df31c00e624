------------------------------ MODULE MarketData ------------------------------
(***************************************************************************)
(* From the exchange's listings to the local order books: discovery and    *)
(* the periodic refresh of the universe, the watch channel that hands the  *)
(* universe to the WebSocket task, its subscriptions, and the channel of   *)
(* events that the trader folds into its books (main.rs, transport.rs,     *)
(* book.rs).                                                               *)
(*                                                                         *)
(* A book is one quantity: levels and sides are independent of each other  *)
(* in load_snapshot and apply_delta, so each of them is a copy of this one.*)
(***************************************************************************)
EXTENDS Integers, Sequences

CONSTANTS
    Tickers,
    Categories,   \* those with a loaded policy
    CategoryOf,   \* the category of each ticker
    Capacity,     \* of the event channel
    MaxQty,       \* bound: the quantity of a level
    MaxMoves,     \* bound: changes of the exchange's books, and fills
    MaxFaults     \* bound: failed requests and lost connections

ASSUME CategoryAssumption == CategoryOf \in [Tickers -> Categories]
ASSUME CapacityAssumption == Capacity \in Nat \ {0}
ASSUME BoundAssumption == {MaxQty, MaxMoves, MaxFaults} \subseteq Nat

VARIABLES
    \* the exchange
    life,        \* of each market: unlisted, open, closed
    truth,       \* its book
    \* the WebSocket task
    link,        \* off, down, subscribing, up
    sending,     \* the tickers still to subscribe to
    subscribed,  \* on this connection, by the task and hence by the exchange
    wire,        \* messages under way to the task
    \* between the task and the trader
    published,   \* the value of the watch channel
    unseen,      \* the channel has a value that changed() has not reported
    events,      \* the event channel
    \* the trader
    useWs,       \* credentials gave a WebSocket; REST polling otherwise
    step,        \* the await the event loop is in, or idle
    scan,        \* the categories discover_universe has still to ask for
    found,       \* the tickers it has found
    fetching,    \* the tickers still to fetch a snapshot of
    active,      \* active_tickers
    held,        \* the tickers with a position
    book,
    \* bounds and history
    moves, faults,
    lapsed       \* left the universe, and no snapshot message folded since

exchangeVars == <<life, truth>>
wsVars == <<link, sending, subscribed, wire>>
watchVars == <<published, unseen>>
walkVars == <<scan, found>>
traderVars == <<useWs, active, held, book, lapsed>>
vars == <<exchangeVars, wsVars, watchVars, events, step, walkVars, fetching,
          traderVars, moves, faults>>

Snapshot(t) == [ticker |-> t, kind |-> "snapshot", qty |-> truth[t]]
Delta(t, d) == [ticker |-> t, kind |-> "delta", qty |-> d]

Fault == faults < MaxFaults /\ faults' = faults + 1
Move == moves < MaxMoves /\ moves' = moves + 1
Listed == {t \in Tickers : life[t] = "open"}
-------------------------------------------------------------------------------
\* The exchange.

MarketOpens ==
    /\ \E t \in Tickers : life[t] = "unlisted" /\ life' = [life EXCEPT ![t] = "open"]
    /\ UNCHANGED <<truth, wsVars, watchVars, events, step, walkVars, fetching,
                   traderVars, moves, faults>>

MarketCloses ==
    /\ \E t \in Tickers : life[t] = "open" /\ life' = [life EXCEPT ![t] = "closed"]
    /\ UNCHANGED <<truth, wsVars, watchVars, events, step, walkVars, fetching,
                   traderVars, moves, faults>>

\* A level changes, and the subscribers hear of it.
BookChanges ==
    /\ Move
    /\ \E t \in Listed, d \in {-1, 1} :
         /\ truth[t] + d \in 0 .. MaxQty
         /\ truth' = [truth EXCEPT ![t] = @ + d]
         /\ wire' = IF t \in subscribed THEN Append(wire, Delta(t, d)) ELSE wire
    /\ UNCHANGED <<life, link, sending, subscribed, watchVars, events, step,
                   walkVars, fetching, traderVars, faults>>

\* A resting order fills, also one of a market no longer in the universe; a
\* position is traded away or settles.
PositionMoves ==
    /\ \E t \in Tickers :
         \/ t \notin held /\ life[t] = "open" /\ held' = held \cup {t} /\ Move
         \/ t \in held /\ held' = held \ {t} /\ UNCHANGED moves
    /\ step = "idle"
    /\ UNCHANGED <<exchangeVars, wsVars, watchVars, events, step, walkVars, fetching,
                   useWs, active, book, lapsed, faults>>
-------------------------------------------------------------------------------
\* The WebSocket task.

\* A connection starts with nothing subscribed and the freshest universe.
Connect ==
    /\ link = "down"
    /\ link' = "subscribing"
    /\ sending' = published
    /\ unseen' = FALSE
    /\ UNCHANGED <<subscribed, wire, exchangeVars, published, events, step,
                   walkVars, fetching, traderVars, moves, faults>>

\* One subscribe command per ticker; the exchange answers with a snapshot.
SubscribeTo ==
    /\ link = "subscribing"
    /\ \E t \in sending :
         /\ sending' = sending \ {t}
         /\ subscribed' = subscribed \cup {t}
         /\ wire' = Append(wire, Snapshot(t))
    /\ UNCHANGED <<link, exchangeVars, watchVars, events, step, walkVars,
                   fetching, traderVars, moves, faults>>

SubscribeDoneUnseen ==
    /\ link = "subscribing"
    /\ sending = {}
    /\ link' = "up"
    /\ unseen' = FALSE
    /\ UNCHANGED <<sending, subscribed, wire, exchangeVars, published, events,
                   step, walkVars, fetching, traderVars, moves, faults>>
SubscribeDone ==
    /\ link = "subscribing"
    /\ sending = {}
    /\ link' = "up"
    /\ UNCHANGED <<sending, subscribed, wire, exchangeVars, watchVars, events,
                   step, walkVars, fetching, traderVars, moves, faults>>

\* The watch channel changed: subscribe to what this connection has not got.
\* Nothing is ever unsubscribed.
NewSubscriptions == published \ subscribed
Changed ==
    /\ link = "up"
    /\ unseen
    /\ unseen' = FALSE
    /\ sending' = NewSubscriptions
    /\ link' = "subscribing"
    /\ UNCHANGED <<subscribed, wire, exchangeVars, published, events, step,
                   walkVars, fetching, traderVars, moves, faults>>

\* A message is routed to the trader, when the channel has room.
PumpUnbounded ==
    /\ link = "up"
    /\ wire # <<>>
    /\ events' = Append(events, Head(wire))
    /\ wire' = Tail(wire)
    /\ UNCHANGED <<link, sending, subscribed, exchangeVars, watchVars, step,
                   walkVars, fetching, traderVars, moves, faults>>
Pump ==
    /\ link = "up"
    /\ wire # <<>>
    /\ Len(events) < Capacity
    /\ events' = Append(events, Head(wire))
    /\ wire' = Tail(wire)
    /\ UNCHANGED <<link, sending, subscribed, exchangeVars, watchVars, step,
                   walkVars, fetching, traderVars, moves, faults>>

\* The connection is lost with what is on it; what was routed stays.
Drop ==
    /\ Fault
    /\ link \in {"subscribing", "up"}
    /\ link' = "down"
    /\ sending' = {}
    /\ subscribed' = {}
    /\ wire' = <<>>
    /\ UNCHANGED <<exchangeVars, watchVars, events, step, walkVars, fetching, traderVars, moves>>

WebSocket == Connect \/ SubscribeTo \/ SubscribeDone \/ Changed \/ Pump
-------------------------------------------------------------------------------
\* The trader: one event loop, away from its events while a walk of the REST
\* API is awaited.

\* discover_universe: a failing page keeps the pages before it, and the walk
\* goes on with the next category.
DiscoverCategory ==
    /\ step \in {"boot", "discover"}
    /\ \E c \in scan :
         LET listed == {t \in Listed : CategoryOf[t] = c} IN
         /\ scan' = scan \ {c}
         /\ \/ found' = found \cup listed /\ UNCHANGED faults
            \/ Fault /\ \E part \in SUBSET listed : found' = found \cup part
    /\ UNCHANGED <<exchangeVars, wsVars, watchVars, events, step, fetching, traderVars, moves>>

\* Start: the universe is seeded, the WebSocket task gets it, and only then are
\* the books fetched.
SeedUniverse ==
    /\ step = "boot"
    /\ scan = {}
    /\ active' = found
    /\ published' = found
    /\ link' = IF useWs THEN "down" ELSE "off"
    /\ step' = "seed"
    /\ fetching' = found
    /\ found' = {}
    /\ UNCHANGED <<exchangeVars, sending, subscribed, wire, unseen, events,
                   scan, useWs, held, book, lapsed, moves, faults>>

RefreshTick ==
    /\ step = "idle"
    /\ step' = "discover"
    /\ scan' = Categories
    /\ UNCHANGED <<exchangeVars, wsVars, watchVars, events, found, fetching, traderVars, moves, faults>>

\* diff_universe, and the expired that are flat.
Added == found \ active
PrunableNone == {}
Prunable == {t \in active \ found : t \notin held}
ToFetchAll == active \cup Added
ToFetch == Added

\* refresh_markets, up to its requests: an empty answer changes nothing.
RefreshMarkets ==
    /\ step = "discover"
    /\ scan = {}
    /\ IF found = {} \/ (Added = {} /\ Prunable = {})
       THEN step' = "idle" /\ UNCHANGED <<active, fetching, lapsed>>
       ELSE /\ active' = (active \ Prunable) \cup Added
            /\ lapsed' = lapsed \cup Prunable
            /\ fetching' = ToFetch
            /\ step' = "fetch"
    /\ found' = {}
    /\ UNCHANGED <<exchangeVars, link, sending, subscribed, wire, watchVars, events,
                   scan, useWs, held, book, moves, faults>>

\* fetch_initial_snapshots: what fails is not tried again.
FetchSnapshot ==
    /\ step \in {"seed", "fetch"}
    /\ \E t \in fetching :
         /\ fetching' = fetching \ {t}
         /\ \/ book' = [book EXCEPT ![t] = truth[t]] /\ UNCHANGED faults
            \/ Fault /\ UNCHANGED book
    /\ UNCHANGED <<exchangeVars, wsVars, watchVars, events, step, walkVars, useWs,
                   active, held, lapsed, moves>>

\* A refresh ends by handing the universe to the WebSocket task.
FetchDone ==
    /\ step \in {"seed", "fetch"}
    /\ fetching = {}
    /\ step' = "idle"
    /\ IF step = "fetch" /\ useWs
       THEN published' = active /\ unseen' = TRUE
       ELSE UNCHANGED watchVars
    /\ UNCHANGED <<exchangeVars, wsVars, events, walkVars, fetching, traderVars, moves, faults>>

\* load_snapshot replaces, apply_delta adds; a level at zero or below is gone.
FoldedDeltas(qty, msg) ==
    IF msg.kind = "delta" /\ qty + msg.qty > 0 THEN qty + msg.qty ELSE qty
Folded(qty, msg) ==
    CASE msg.kind = "snapshot" -> msg.qty
      [] msg.kind = "delta" -> IF qty + msg.qty > 0 THEN qty + msg.qty ELSE 0

\* on_book_update: the message is folded whatever else stops the quoting, but
\* that of a ticker outside the universe is dropped.
OnBookUpdate ==
    /\ step = "idle"
    /\ events # <<>>
    /\ events' = Tail(events)
    /\ LET msg == Head(events) IN
       book' = IF msg.ticker \in active
               THEN [book EXCEPT ![msg.ticker] = Folded(@, msg)]
               ELSE book
    /\ lapsed' = IF Head(events).kind = "snapshot"
                 THEN lapsed \ ({Head(events).ticker} \cap active)
                 ELSE lapsed
    /\ UNCHANGED <<exchangeVars, wsVars, watchVars, step, walkVars, fetching, useWs,
                   active, held, moves, faults>>

\* rest_poll, without a WebSocket: one book after the other, each of its own
\* market, so that one moment stands for them all.
RestPoll ==
    /\ step = "idle"
    /\ ~useWs
    /\ \E failed \in SUBSET active :
         /\ IF failed = {} THEN UNCHANGED faults ELSE Fault
         /\ book' = [t \in Tickers |-> IF t \in active \ failed THEN truth[t] ELSE book[t]]
    /\ UNCHANGED <<exchangeVars, wsVars, watchVars, events, step, walkVars, fetching,
                   useWs, active, held, lapsed, moves>>
-------------------------------------------------------------------------------
Init ==
    /\ life \in [Tickers -> {"unlisted", "open"}]
    /\ truth = [t \in Tickers |-> 0]
    /\ link = "off"
    /\ sending = {}
    /\ subscribed = {}
    /\ wire = <<>>
    /\ published = {}
    /\ unseen = FALSE
    /\ events = <<>>
    /\ useWs \in BOOLEAN
    /\ step = "boot"
    /\ scan = Categories
    /\ found = {}
    /\ fetching = {}
    /\ active = {}
    /\ held = {}
    /\ book = [t \in Tickers |-> 0]
    /\ moves = 0
    /\ faults = 0
    /\ lapsed = {}

Exchange == MarketOpens \/ MarketCloses \/ BookChanges \/ PositionMoves

\* The awaits of one handler, in their order.
Handler == DiscoverCategory \/ SeedUniverse \/ RefreshMarkets \/ FetchSnapshot \/ FetchDone

Trader == Handler \/ RefreshTick \/ OnBookUpdate \/ RestPoll

Next == Exchange \/ WebSocket \/ Drop \/ Trader

Spec == Init /\ [][Next]_vars

\* The WebSocket task runs and its requests are answered; select! picks at
\* random among the branches that are ready, so that none of them starves.
FairSpec ==
    /\ Spec
    /\ WF_vars(WebSocket)
    /\ WF_vars(Handler)
    /\ SF_vars(RefreshTick)
    /\ SF_vars(OnBookUpdate)
    /\ SF_vars(RestPoll)
-------------------------------------------------------------------------------
Messages == [ticker : Tickers, kind : {"snapshot"}, qty : 0 .. MaxQty]
            \cup [ticker : Tickers, kind : {"delta"}, qty : {-1, 1}]

\* Every variable keeps to the values the program can give it, and the event
\* channel to its capacity.
TypeOK ==
    /\ life \in [Tickers -> {"unlisted", "open", "closed"}]
    /\ truth \in [Tickers -> 0 .. MaxQty]
    /\ link \in {"off", "down", "subscribing", "up"}
    /\ {sending, subscribed, published, found, fetching, active, held, lapsed}
          \subseteq SUBSET Tickers
    /\ {wire, events} \subseteq Seq(Messages)
    /\ Len(events) <= Capacity
    /\ {unseen, useWs} \subseteq BOOLEAN
    /\ step \in {"idle", "boot", "seed", "discover", "fetch"}
    /\ scan \subseteq Categories
    /\ book \in [Tickers -> Nat]
    /\ moves \in 0 .. MaxMoves
    /\ faults \in 0 .. MaxFaults

\* What the book of t becomes when all that is under way has been folded.
Inbound == events \o wire
FoldedFor(t, qty, msg) == IF msg.ticker = t THEN Folded(qty, msg) ELSE qty
Caught(t) ==
    LET after[n \in 0 .. Len(Inbound)] ==
          IF n = 0 THEN book[t] ELSE FoldedFor(t, after[n - 1], Inbound[n])
    IN  after[Len(Inbound)]

\* Whatever the interleaving of snapshots, deltas, refreshes and reconnects, the
\* book of a subscribed market and the messages under way for it make up the
\* exchange's book, unless the market left the universe on this connection.
BooksFollow ==
    \A t \in active \cap subscribed : t \in lapsed \/ Caught(t) = truth[t]

\* The same of every subscribed market, whenever the event loop may quote:
\* "skipping updates leaves a stale book that poisons later decisions"
\* (main.rs:830-831).
NoStaleBook ==
    step = "idle" => \A t \in active \cap subscribed : Caught(t) = truth[t]

\* A market that stays open is in the universe and subscribed to in the end:
\* "This socket must pick up the additions WITHOUT waiting for a reconnect, or
\* newly-opened markets stay dark" (transport.rs:231-233).
OpenMarketsAreServed ==
    \A t \in Tickers :
      <>[](life[t] = "open") =>
        <>[](t \in active /\ (useWs => link = "up" /\ t \in subscribed))

\* And its book settles at the exchange's, by WebSocket or by REST polling.
BooksSettle ==
    \A t \in Tickers :
      <>[](life[t] = "open") => <>[](t \in lapsed \/ book[t] = truth[t])

\* A market that expired leaves the universe once it is flat, as long as any
\* market of the account's categories is open.
ExpiredAreForgotten ==
    \A t \in Tickers :
      /\ <>[](life[t] = "closed" /\ t \notin held)
      /\ \E u \in Tickers : <>[](life[u] = "open")
      => <>[](t \notin active)
===============================================================================
