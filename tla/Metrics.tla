------------------------------- MODULE Metrics -------------------------------
(***************************************************************************)
(* The statistics of the peers: the scrape goroutine asks the origin and   *)
(* the replicas one after the other and then puts their reports into the   *)
(* global map `stats', entry by entry (internal/sync/scrape.go,            *)
(* internal/metrics/metrics.go); requests for the dashboard iterate over   *)
(* the map meanwhile, without a lock, and add the entries up.              *)
(*                                                                         *)
(* A report is abstracted to the number in the first 24 values of its      *)
(* series, which are those that the total has room for, the number in the  *)
(* values beyond them, and whether the series is shorter than that:        *)
(* servers that keep statistics for more than some days report one value   *)
(* per day.  A failed request gives an empty report.                       *)
(*                                                                         *)
(* The data race: an iteration that meets a write in progress goes on, with *)
(* the old or the new entry, or the runtime ends the process.              *)
(***************************************************************************)
EXTENDS Naturals, Sequences, FiniteSetsExt

CONSTANTS
  Instances,   \* cfg.Origin and cfg.Replicas, by their host
  Order,       \* the sequence in which they are asked
  Counts,      \* numbers in the first 24 values of a series
  Beyond,      \* numbers in the values beyond them
  Requests     \* requests for the dashboard

\* A *model.Stats; no number of a short series is ever used.
Short == [nil |-> FALSE, queries |-> 0, beyond |-> 0, short |-> TRUE]
Long == [nil : {FALSE}, queries : Counts, beyond : Beyond \cup {0}, short : {FALSE}]
Stats == Long \cup {Short}
Empty == [nil |-> FALSE, queries |-> 0, beyond |-> 0, short |-> FALSE]   \* &Stats{}
Nil == [nil |-> TRUE, queries |-> 0, beyond |-> 0, short |-> FALSE]
Reports == Stats \cup {Empty}

ASSUME MetricsAssumption ==
  /\ Order \in Seq(Instances) \ {<<>>}
  /\ \A h \in Instances : \E i \in DOMAIN Order : Order[i] = h
  /\ Counts \cup Beyond \subseteq Nat

Stages == {"idle", "iterating", "status", "answered", "failed"}

VARIABLES
  up,            \* the process runs
  uncreatable,   \* instances client.New refuses
  stats,         \* the global map
  scraper,       \* where the scrape goroutine is
  iml,           \* the reports of the scrape
  at,            \* index of the instance it is at
  handler,       \* where each request is
  expected,      \* hosts the map had when the iteration began
  lines,         \* the copies of the entries
  total          \* their sum

scrape == <<stats, scraper, iml, at>>
page == <<handler, expected, lines, total>>
vars == <<up, uncreatable, scrape, page>>

TypeOK ==
  /\ up \in BOOLEAN
  /\ uncreatable \in SUBSET Instances
  /\ stats \in [Instances -> Reports \cup {Nil}]
  /\ scraper \in {"wait", "query", "update", "write"}
  /\ iml \in Seq(Reports \cup {Nil}) /\ Len(iml) <= Len(Order)
  /\ at \in 1..Len(Order) + 1
  /\ handler \in [Requests -> Stages]
  /\ expected \in [Requests -> SUBSET Instances]
  /\ lines \in [Requests -> [Instances -> Reports \cup {Nil}]]
  /\ total \in [Requests -> Nat]

NoLines == [h \in Instances |-> Nil]

Init ==
  /\ up = TRUE
  /\ uncreatable \in SUBSET Instances
  /\ stats = NoLines
  /\ scraper = "wait"
  /\ iml = <<>>
  /\ at = 1
  /\ handler = [d \in Requests |-> "idle"]
  /\ expected = [d \in Requests |-> {}]
  /\ lines = [d \in Requests |-> NoLines]
  /\ total = [d \in Requests |-> 0]

-----------------------------------------------------------------------------
(* The scrape goroutine                                                    *)

\* Mutant: the reports of the last scrape are kept.
Kept == iml

\* var iml InstanceMetricsList
NewList == <<>>

\* Mutant: one tick in place of a ticker.
ScrapeOnce ==
  /\ up /\ scraper = "wait" /\ iml = <<>>
  /\ scraper' = "query"
  /\ iml' = NewList
  /\ at' = 1
  /\ UNCHANGED <<up, uncreatable, stats, page>>

\* At the start, and at every tick.
StartScrape ==
  /\ up /\ scraper = "wait"
  /\ scraper' = "query"
  /\ iml' = NewList
  /\ at' = 1
  /\ UNCHANGED <<up, uncreatable, stats, page>>

PastLast(i) == i > Len(Order)

\* getMetrics of the next instance: three requests, of which the one for the
\* statistics counts here.
Query ==
  /\ up /\ scraper = "query"
  /\ \E report \in IF Order[at] \in uncreatable THEN {Nil} ELSE Reports :
       iml' = Append(iml, report)
  /\ IF PastLast(at + 1) THEN scraper' = "update" /\ at' = 1
                         ELSE UNCHANGED scraper /\ at' = at + 1
  /\ UNCHANGED <<up, uncreatable, stats, page>>

\* updateMetrics, up to the write to the map: the gauges are set from the
\* status, which is a nil pointer when there was no client.
Update ==
  /\ up /\ scraper = "update"
  /\ up' = (iml[at] # Nil)
  /\ scraper' = "write"
  /\ UNCHANGED <<uncreatable, stats, iml, at, page>>

\* Mutant: an empty report leaves the entry as it is.
StoredIfAny(h, report) == IF report = Empty THEN stats[h] ELSE report

Stored(h, report) == report

\* stats[im.HostName] = im.Stats
Write ==
  /\ up /\ scraper = "write"
  /\ stats' = [stats EXCEPT ![Order[at]] = Stored(Order[at], iml[at])]
  /\ scraper' = IF PastLast(at + 1) THEN "wait" ELSE "update"
  /\ at' = at + 1
  /\ UNCHANGED <<up, uncreatable, iml, page>>

-----------------------------------------------------------------------------
(* A request for the dashboard: StatsGraph, then the status of the peers   *)

Begin(d) ==
  /\ up /\ handler[d] \notin {"iterating", "status"}
  /\ handler' = [handler EXCEPT ![d] = "iterating"]
  /\ expected' = [expected EXCEPT ![d] = {h \in Instances : stats[h] # Nil}]
  /\ lines' = [lines EXCEPT ![d] = NoLines]
  /\ total' = [total EXCEPT ![d] = 0]
  /\ UNCHANGED <<up, uncreatable, scrape>>

\* An entry the iteration has not had yet; one that is new since it began may
\* be left out.  An empty report adds nothing; sumUp adds the first 24 values
\* of a series and drops those beyond, and it reads past the end of a short
\* one: the panic is turned into an answer 500.
Visit(d, h) ==
  /\ up /\ handler[d] = "iterating"
  /\ lines[d][h] = Nil /\ stats[h] # Nil
  /\ lines' = [lines EXCEPT ![d][h] = stats[h]]
  /\ total' = [total EXCEPT ![d] = @ + stats[h].queries]
  /\ handler' = [handler EXCEPT ![d] = IF stats[h].short THEN "failed" ELSE @]
  /\ UNCHANGED <<up, uncreatable, scrape, expected>>

\* The runtime finds the map written while it is iterated.
ConcurrentMapAccess(d) ==
  /\ up /\ handler[d] = "iterating" /\ scraper = "write"
  /\ up' = FALSE
  /\ UNCHANGED <<uncreatable, scrape, page>>

ShownBy(d) == {h \in Instances : lines[d][h] # Nil}

\* Mutant: the lines are copied first and the map is added up afterwards.
GraphAddedLate(d) ==
  /\ up /\ handler[d] = "iterating"
  /\ expected[d] \subseteq ShownBy(d)
  /\ handler' = [handler EXCEPT ![d] = "status"]
  /\ total' = [total EXCEPT ![d] =
                 MapThenSumSet(LAMBDA h : stats[h].queries, Instances)]
  /\ UNCHANGED <<up, uncreatable, scrape, expected, lines>>

\* The iteration ends: the lines of the graphs and the total are ready.
Graph(d) ==
  /\ up /\ handler[d] = "iterating"
  /\ expected[d] \subseteq ShownBy(d)
  /\ handler' = [handler EXCEPT ![d] = "status"]
  /\ UNCHANGED <<up, uncreatable, scrape, expected, lines, total>>

\* w.status() has asked every peer, for as long as they take: the page is
\* rendered with the statistics from before.
Answer(d) ==
  /\ up /\ handler[d] = "status"
  /\ handler' = [handler EXCEPT ![d] = "answered"]
  /\ UNCHANGED <<up, uncreatable, scrape, expected, lines, total>>

-----------------------------------------------------------------------------
Scrape == StartScrape \/ Query \/ Update \/ Write
Page(d) == (\E h \in Instances : Visit(d, h)) \/ Graph(d) \/ Answer(d)

Next == \/ Scrape
        \/ \E d \in Requests : Begin(d) \/ Page(d) \/ ConcurrentMapAccess(d)

Spec == Init /\ [][Next]_vars

\* The ticker fires, and the peers answer a scrape or refuse; a request for
\* the dashboard may wait for a peer for ever.
FairSpec == Spec /\ WF_vars(Scrape)

-----------------------------------------------------------------------------
(* Properties                                                              *)

\* The total of a dashboard is the sum of the first 24 values of the lines it
\* shows, though the entries are replaced one by one while they are copied and
\* while the peers are asked for their status; what a long series has beyond
\* is in its line alone.  No host that was in the map when the request came is
\* missing, and a line with a short series is never shown, it makes the
\* request fail (sumUp, graphLines).
AnswerIsWhole ==
  \A d \in Requests :
    handler[d] = "answered" =>
      /\ total[d] = MapThenSumSet(LAMBDA h : lines[d][h].queries, Instances)
      /\ \A h \in expected[d] : lines[d][h] # Nil
      /\ \A h \in Instances : ~lines[d][h].short

\* Between two scrapes every instance has the entry of the last one, also the
\* instance whose request failed: it does not keep the numbers of an earlier
\* scrape, and none of the instances is passed over.
EntriesOfLastScrape ==
  (scraper = "wait" /\ iml # <<>>) =>
    \A h \in Instances :
      \E i \in DOMAIN iml : Order[i] = h /\ stats[h] = iml[i]

\* The scrapes go on as long as the process runs, whatever the requests for
\* the dashboard wait for; when an instance has no client, the first scrape
\* ends the process.
ScrapesGoOn ==
  /\ uncreatable # {} => <>~up
  /\ <>~up \/ []<>(scraper = "query")
=============================================================================
