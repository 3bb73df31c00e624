------------------------------- MODULE FillFeed -------------------------------
(***************************************************************************)
(* Which fills the poll reads, and which of them it books.  A sweep reads  *)
(* the fills since a watermark less an overlap, newest first, page by      *)
(* page; ids it remembers are not booked again, and it remembers only so   *)
(* many.  Between two pages the exchange and the clock move, a page may    *)
(* fail, and the process may be replaced.  A page holds one fill here.     *)
(***************************************************************************)
EXTENDS Integers, Sequences, FiniteSets, Functions

CONSTANTS
    Overlap,     \* seconds a sweep reads again: 60
    Lookback,    \* seconds before boot the first watermark is set to: 60
    SweepCap,    \* fills a sweep reads at most: 25 pages of 200
    FillIdCap,   \* FILL_ID_CAP
    MaxFills, MaxTime, MaxFailures, MaxBoots   \* bounds

ASSUME WindowAssumption == {Overlap, Lookback} \subseteq Nat
ASSUME SweepAssumption == SweepCap \in Nat \ {0}
\* 20,000 ids against sweeps of 5,000.
ASSUME FillIdAssumption == FillIdCap \in Nat /\ FillIdCap >= 2 * SweepCap - 1
ASSUME FeedBoundAssumption == {MaxFills, MaxTime, MaxFailures, MaxBoots} \subseteq Nat

VARIABLES
    \* the exchange
    fills,      \* the second of each fill it reported, oldest first; the index is the id
    now,        \* in seconds
    \* the trader
    sweeping,   \* a sweep is running
    inbox,      \* its fills still to come
    fifo,       \* fill_id_fifo
    watermark,  \* fills_last_ts
    \* bounds and history
    began,      \* when the last sweep began
    first,      \* when this process' first window began
    lapse,      \* a sweep of this process was cut short or outlasted the overlap
    booked,     \* how often this process booked each fill
    failures,
    boots

logVars == <<fills, now>>
feedVars == <<logVars, sweeping, inbox, fifo, watermark, began, first, lapse, booked,
          failures, boots>>
-------------------------------------------------------------------------------
\* The exchange.

ExchangeFill ==
    /\ Len(fills) < MaxFills
    /\ fills' = Append(fills, now)
    /\ UNCHANGED <<now, sweeping, inbox, fifo, watermark, began, first, lapse, booked,
                   failures, boots>>

Tick ==
    /\ now < MaxTime
    /\ now' = now + 1
    /\ UNCHANGED <<fills, sweeping, inbox, fifo, watermark, began, first, lapse, booked,
                   failures, boots>>
-------------------------------------------------------------------------------
\* The poll.

WindowWithoutOverlap == watermark
Window == watermark - Overlap
Reported == {id \in DOMAIN fills : fills[id] >= Window}
Newest(ids, n) == {id \in ids : Cardinality({later \in ids : later > id}) < n}

StartSweep ==
    /\ ~sweeping
    /\ sweeping' = TRUE
    /\ inbox' = Newest(Reported, SweepCap)
    /\ began' = now
    /\ lapse' = (lapse \/ Cardinality(Reported) > SweepCap)
    /\ UNCHANGED <<logVars, fifo, watermark, first, booked, failures, boots>>

\* seen_fill: remembers the id; when there are too many it forgets the oldest.
Seen(id) == id \in Range(fifo)
RememberedShort(id) ==
    LET all == Append(fifo, id) IN IF Len(all) >= FillIdCap THEN Tail(all) ELSE all
RememberedAll(id) == Append(fifo, id)
Remembered(id) ==
    LET all == Append(fifo, id) IN IF Len(all) > FillIdCap THEN Tail(all) ELSE all

\* The pages come newest first.
Upcoming == {id \in inbox : \A other \in inbox : other <= id}

ProcessFillUntilSeen ==
    /\ sweeping
    /\ \E id \in Upcoming :
       \/ /\ Seen(id)
          /\ inbox' = {}
          /\ UNCHANGED <<fifo, booked>>
       \/ /\ ~Seen(id)
          /\ inbox' = inbox \ {id}
          /\ fifo' = Remembered(id)
          /\ booked' = [booked EXCEPT ![id] = @ + 1]
    /\ UNCHANGED <<logVars, sweeping, watermark, began, first, lapse, failures, boots>>
ProcessFill ==
    /\ sweeping
    /\ \E id \in Upcoming :
       /\ inbox' = inbox \ {id}
       /\ \/ /\ Seen(id)
             /\ UNCHANGED <<fifo, booked>>
          \/ /\ ~Seen(id)
             /\ fifo' = Remembered(id)
             /\ booked' = [booked EXCEPT ![id] = @ + 1]
    /\ UNCHANGED <<logVars, sweeping, watermark, began, first, lapse, failures, boots>>

\* Only a clean sweep moves the watermark, to the second it ends.
EndSweep ==
    /\ sweeping
    /\ inbox = {}
    /\ sweeping' = FALSE
    /\ watermark' = now
    /\ lapse' = (lapse \/ now - began > Overlap)
    /\ UNCHANGED <<logVars, inbox, fifo, began, first, booked, failures, boots>>

FailPageButAdvance ==
    /\ sweeping
    /\ failures < MaxFailures
    /\ failures' = failures + 1
    /\ sweeping' = FALSE
    /\ inbox' = {}
    /\ watermark' = now
    /\ UNCHANGED <<logVars, fifo, began, first, lapse, booked, boots>>
FailPage ==
    /\ sweeping
    /\ failures < MaxFailures
    /\ failures' = failures + 1
    /\ sweeping' = FALSE
    /\ inbox' = {}
    /\ UNCHANGED <<logVars, fifo, watermark, began, first, lapse, booked, boots>>

NoBookings == [id \in 1 .. MaxFills |-> 0]

\* A crash or a redeploy, at any await: nothing is kept.
Restart ==
    /\ boots < MaxBoots
    /\ boots' = boots + 1
    /\ sweeping' = FALSE
    /\ inbox' = {}
    /\ fifo' = <<>>
    /\ watermark' = now - Lookback
    /\ first' = now - Lookback - Overlap
    /\ began' = now
    /\ lapse' = FALSE
    /\ booked' = NoBookings
    /\ UNCHANGED <<logVars, failures>>
-------------------------------------------------------------------------------
FeedInit ==
    /\ fills = <<>>
    /\ now = 0
    /\ sweeping = FALSE
    /\ inbox = {}
    /\ fifo = <<>>
    /\ watermark = -Lookback
    /\ began = 0
    /\ first = -Lookback - Overlap
    /\ lapse = FALSE
    /\ booked = NoBookings
    /\ failures = 0
    /\ boots = 0

FeedNext ==
    \/ ExchangeFill \/ Tick
    \/ StartSweep \/ ProcessFill \/ EndSweep \/ FailPage
    \/ Restart

FeedSpec == FeedInit /\ [][FeedNext]_feedVars

\* The fills timer fires every five seconds, a request is answered or times out,
\* and only so many fail.
FeedFairness == WF_feedVars(StartSweep) /\ WF_feedVars(ProcessFill) /\ WF_feedVars(EndSweep)
FairFeedSpec == FeedSpec /\ FeedFairness
-------------------------------------------------------------------------------
\* Every variable keeps to its type, and the memory of ids to its bound.
FeedTypeOK ==
    /\ fills \in Seq(0 .. MaxTime) /\ Len(fills) <= MaxFills
    /\ now \in 0 .. MaxTime
    /\ sweeping \in BOOLEAN
    /\ inbox \subseteq DOMAIN fills /\ Cardinality(inbox) <= SweepCap
    /\ fifo \in Seq(DOMAIN fills) /\ Len(fifo) <= FillIdCap
    /\ {watermark, first} \subseteq Int
    /\ began \in 0 .. MaxTime
    /\ lapse \in BOOLEAN
    /\ booked \in [1 .. MaxFills -> Nat]
    /\ failures \in 0 .. MaxFailures
    /\ boots \in 0 .. MaxBoots

\* However often sweeps overlap, fail half way and are repeated, a process
\* books no fill twice: the ids it remembers outlast what it may read again.
EachFillOnce == \A id \in 1 .. MaxFills : booked[id] <= 1

\* "Only advance the watermark on a clean sweep; a failed page keeps the old
\* lookback so nothing is skipped" (main.rs:646-647): a fill this process should
\* book and has not is in the window of the next sweep, unless a sweep was cut by
\* its cap of pages or took longer than the overlap.
Due(id) == id \in DOMAIN fills /\ fills[id] >= first /\ booked[id] = 0
NothingSkipped == ~lapse => \A id \in DOMAIN fills : Due(id) => fills[id] >= Window

\* However sweeps fail, again and again there is no such fill left, but for the
\* same exceptions.
FillsAreBooked == []<>(lapse \/ \A id \in 1 .. MaxFills : ~Due(id))
===============================================================================
