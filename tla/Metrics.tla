------------------------------ MODULE Metrics ------------------------------
(***************************************************************************)
(* The metrics server of the minimal build, pkg/extensions/monitoring/     *)
(* minimal.go: one goroutine owns the cache and serves two unbuffered      *)
(* channels.  The program's goroutines send samples on reqChan; a scrape   *)
(* sends an empty request on cacheChan and reads the answer from the SAME  *)
(* channel.  A ticker makes the goroutine turn the metrics off when nobody *)
(* has scraped for a while.                                                *)
(*                                                                         *)
(* Time is counted in intervals of the ticker.  Label values and latencies *)
(* are small sets; the bucket bounds are two numbers and infinity.         *)
(***************************************************************************)
EXTENDS Integers, Sequences, SequencesExt, FiniteSets

CONSTANTS Senders,    \* goroutines that record metrics
          Scrapers,   \* requests on /metrics
          LabelVals,  \* values a label takes
          Latencies,  \* what a gauge, summary or histogram is given
          Varied,     \* bound: the metrics whose labels and values vary
          Timeout,    \* metricsScrapeTimeout, in ticks
          MaxSends    \* bound: samples recorded in one behaviour

Inf == 99
(* GetDefaultBuckets, GetStorageLatencyBuckets: bounds, the last infinite. *)
GetBuckets(name) == IF name = "storage.lock.latency" THEN {1, Inf} ELSE {1, 2, Inf}

(* GetCounters, GetGauges, GetSummaries, GetHistograms: the metrics the    *)
(* server knows, with the names of their labels.                           *)
GetCounters == [n \in {"http.requests", "repo.downloads", "repo.uploads",
                       "scheduler.generators", "gc.runs", "gc.deleted"} |->
    CASE n = "http.requests" -> <<"method", "code">>
      [] n \in {"repo.downloads", "repo.uploads"} -> <<"repo">>
      [] n = "scheduler.generators" -> <<>>
      [] n = "gc.runs" -> <<"error">>
      [] OTHER -> <<"type">>]
GetGauges == [n \in {"repo.storage", "info", "scheduler.workers.total",
                     "scheduler.generators.status", "scheduler.tasksqueue",
                     "scheduler.workers"} |->
    CASE n = "repo.storage" -> <<"repo">>
      [] n = "info" -> <<"commit", "binaryType", "goVersion", "version">>
      [] n = "scheduler.generators.status" -> <<"priority", "state">>
      [] n = "scheduler.tasksqueue" -> <<"priority">>
      [] n = "scheduler.workers" -> <<"state">>
      [] OTHER -> <<>>]
GetSummaries == [n \in {"http.repo.latency", "gc.duration"} |->
    IF n = "gc.duration" THEN <<>> ELSE <<"repo">>]
GetHistograms == [n \in {"http.method.latency", "storage.lock.latency", "tasks.duration"} |->
    CASE n = "http.method.latency" -> <<"method">>
      [] n = "storage.lock.latency" -> <<"storageName", "lockType">>
      [] OTHER -> <<"name">>]

Kinds == {"counter", "gauge", "summary", "histogram"}
Known(kind) == CASE kind = "counter" -> GetCounters [] kind = "gauge" -> GetGauges
                 [] kind = "summary" -> GetSummaries [] OTHER -> GetHistograms

(* What a caller of the package builds: the metric's kind, name and label  *)
(* names as written in each Inc, Set or Observe function, and whether it   *)
(* goes out while metrics are off (ForceSendMetric).                       *)
Source(kind, name, labelNames, force) ==
    [kind |-> kind, name |-> name, labelNames |-> labelNames, force |-> force]
HttpSources ==
    {Source("counter", "http.requests", <<"method", "code">>, FALSE),
     Source("summary", "http.repo.latency", <<"repo">>, FALSE),
     Source("histogram", "http.method.latency", <<"method">>, FALSE)}
RepoSources ==
    {Source("counter", "repo.downloads", <<"repo">>, FALSE),
     Source("counter", "repo.uploads", <<"repo">>, FALSE),
     Source("gauge", "repo.storage", <<"repo">>, TRUE),
     Source("gauge", "info", <<"commit", "binaryType", "goVersion", "version">>, TRUE),
     Source("histogram", "storage.lock.latency", <<"storageName", "lockType">>, FALSE)}
SchedulerSources ==
    {Source("gauge", "scheduler.workers.total", <<>>, TRUE),
     Source("counter", "scheduler.generators", <<>>, TRUE),
     Source("histogram", "tasks.duration", <<"name">>, FALSE),
     Source("gauge", "scheduler.generators.status", <<"priority", "state">>, FALSE),
     Source("gauge", "scheduler.tasksqueue", <<"priority">>, FALSE),
     Source("gauge", "scheduler.workers", <<"state">>, FALSE)}
GCSources ==
    {Source("counter", "gc.runs", <<"error">>, FALSE),
     Source("summary", "gc.duration", <<>>, FALSE),
     Source("counter", "gc.deleted", <<"type">>, FALSE)}
Sources == HttpSources \union RepoSources \union SchedulerSources \union GCSources

(* One sample: the source, the value of its labels (every label of one     *)
(* sample has the same value here) and the value it carries.               *)
Samples ==
    {m \in [src : Sources, lab : LabelVals, val : Latencies] :
        /\ m.src.name \notin Varied => m.lab = CHOOSE l \in LabelVals : TRUE
        /\ m.src.name \notin Varied \/ m.src.kind = "counter"
              => m.val = CHOOSE v \in Latencies : TRUE}
LabelValues(m) == [i \in 1..Len(m.src.labelNames) |-> m.lab]

VARIABLES
    enabled,   \* metricServer.enabled
    age,       \* ticks since lastCheck
    tick,      \* sendAfter holds a tick
    srv,       \* Run: "select", "reply" (sending the copy), "ended"
    copy,      \* the copy Run is about to send
    cache,     \* MetricsInfo: a sequence of entries per kind
    stopped,   \* stopChan is closed
    snd,       \* per sender: the sample it is blocked on, or none
    scr,       \* per scraper: [pc, got]
    sends,     \* samples the senders have started to record
    log,       \* history: samples the server took, in order
    refused,   \* history: samples that failed the sanity checks
    crossed    \* history: scrapers that overlapped another one

vars == <<enabled, age, tick, srv, copy, cache, stopped, snd, scr, sends, log,
          refused, crossed>>
NoSample == [none |-> TRUE]
NoCopy == [none |-> TRUE]       \* MetricsCopy{}: what a request carries

(* isMetricMatch: equal label values; values of another length match too,  *)
(* which the sanity checks rule out.                                       *)
isMetricMatch(lValues, metricValues) ==
    Len(lValues) = Len(metricValues) => lValues = metricValues
(* findCounterValueIndex and its three copies: the first entry with the    *)
(* name and the label values, 0 when there is none.                        *)
FindIndex(slice, m) ==
    SelectInSeq(slice, LAMBDA e : e.name = m.src.name
                                  /\ isMetricMatch(LabelValues(m), e.labels))
sanityChecks(m) ==
    /\ m.src.name \in DOMAIN Known(m.src.kind)
    /\ m.src.labelNames = Known(m.src.kind)[m.src.name]

Entry(m, more) == [name |-> m.src.name, labels |-> LabelValues(m)] @@ more
(* The entry of a sample's series, updated in place or appended.           *)
Upsert(slice, m, first, upd) ==
    LET i == FindIndex(slice, m)
    IN  IF i = 0 THEN Append(slice, Entry(m, first))
                 ELSE [slice EXCEPT ![i] = upd[@]]

CounterInc(c, m) ==
    [c EXCEPT !.counter =
        Upsert(@, m, [count |-> 1], [e \in ToSet(@) |-> [e EXCEPT !.count = @ + 1]])]
GaugeSet(c, m) ==
    [c EXCEPT !.gauge =
        Upsert(@, m, [value |-> m.val], [e \in ToSet(@) |-> [e EXCEPT !.value = m.val]])]
SummaryObserve(c, m) ==
    [c EXCEPT !.summary =
        Upsert(@, m, [count |-> 1, sum |-> m.val],
               [e \in ToSet(@) |-> [e EXCEPT !.count = @ + 1, !.sum = @ + m.val]])]
(* Every bucket whose bound the value does not exceed counts it.           *)
InBucket(v, b) == v <= b
HistogramObserve(c, m) ==
    LET hit(b) == IF InBucket(m.val, b) THEN 1 ELSE 0
        bs == GetBuckets(m.src.name)
    IN  [c EXCEPT !.histogram =
            Upsert(@, m, [count |-> 1, sum |-> m.val, buckets |-> [b \in bs |-> hit(b)]],
                   [e \in ToSet(@) |-> [e EXCEPT !.count = @ + 1, !.sum = @ + m.val,
                                                 !.buckets = [b \in bs |-> @[b] + hit(b)]]])]
Observe(c, m) ==
    CASE m.src.kind = "counter" -> CounterInc(c, m)
      [] m.src.kind = "gauge" -> GaugeSet(c, m)
      [] m.src.kind = "summary" -> SummaryObserve(c, m)
      [] OTHER -> HistogramObserve(c, m)

(* NewMetricsServer: metrics are on when the configuration says so; no     *)
(* scrape has been seen (lastCheck is the zero time).                      *)
NewMetricsServer ==
    /\ enabled \in BOOLEAN
    /\ age = Timeout + 1
    /\ tick = FALSE
    /\ srv = "select"
    /\ copy = NoCopy
    /\ cache = [k \in Kinds |-> <<>>]
    /\ stopped = FALSE
    /\ snd = [s \in Senders |-> NoSample]
    /\ scr = [r \in Scrapers |-> [pc |-> "idle", got |-> NoCopy]]
    /\ sends = 0
    /\ log = <<>>
    /\ refused = {}
    /\ crossed = {}

(***************************************************************************)
(* The senders and the scrapers.                                           *)
(***************************************************************************)
(* SendMetric looks at the flag and lets the lock go before it blocks on   *)
(* the channel; ForceSendMetric does not look.                             *)
SendMetric(s, m) ==
    /\ snd[s] = NoSample /\ sends < MaxSends
    /\ sends' = sends + 1
    /\ snd' = IF m.src.force \/ enabled THEN [snd EXCEPT ![s] = m] ELSE snd
    /\ UNCHANGED <<enabled, age, tick, srv, copy, cache, stopped, scr, log, refused, crossed>>

InFlight(r) == scr[r].pc \in {"ask", "wait"}
(* ReceiveMetrics turns the metrics on, then sends its request.            *)
ReceiveMetrics(r) ==
    /\ scr[r].pc = "idle"
    /\ enabled' = TRUE
    /\ scr' = [scr EXCEPT ![r].pc = "ask"]
    /\ LET others == {q \in Scrapers \ {r} : InFlight(q)}
       IN  crossed' = crossed \union (IF others = {} THEN {} ELSE others \union {r})
    /\ UNCHANGED <<age, tick, srv, copy, cache, stopped, snd, sends, log, refused>>

(* The request of one scraper taken by another one that waits for an       *)
(* answer: both use cacheChan.                                             *)
Cross(r, q) ==
    /\ scr[r].pc = "ask" /\ scr[q].pc = "wait"
    /\ scr' = [scr EXCEPT ![r].pc = "wait", ![q] = [pc |-> "encode", got |-> NoCopy]]
    /\ UNCHANGED <<enabled, age, tick, srv, copy, cache, stopped, snd, sends, log,
                   refused, crossed>>

(* The handler has written the answer as JSON.                             *)
Encoded(r) ==
    /\ scr[r].pc = "encode"
    /\ scr' = [scr EXCEPT ![r].pc = "done"]
    /\ UNCHANGED <<enabled, age, tick, srv, copy, cache, stopped, snd, sends, log,
                   refused, crossed>>

(***************************************************************************)
(* Run, its ticker, and Stop.                                              *)
(***************************************************************************)
(* The interval passes and the ticker's goroutine leaves a tick in the     *)
(* channel of one place (or waits until it can).                           *)
Tick ==
    /\ ~stopped
    /\ age' = IF age > Timeout THEN age ELSE age + 1
    /\ tick' = TRUE
    /\ UNCHANGED <<enabled, srv, copy, cache, stopped, snd, scr, sends, log, refused, crossed>>

(* The entries are copied.  (The map of a histogram's buckets is not, it   *)
(* is the cache's own: what a handler encodes may be newer than the copy,  *)
(* which no property here is about.)                                       *)
CopyOf(c) == c

\* MUTANT: a scraper does not wait for its answer.
TakeAndGo(r) ==
    /\ srv = "select" /\ scr[r].pc = "ask"
    /\ age' = 0
    /\ copy' = CopyOf(cache)
    /\ srv' = "reply"
    /\ scr' = [scr EXCEPT ![r].pc = "done"]
    /\ UNCHANGED <<enabled, tick, cache, stopped, snd, sends, log, refused, crossed>>

(* case <-ms.cacheChan.                                                    *)
TakeRequest(r) ==
    /\ srv = "select" /\ scr[r].pc = "ask"
    /\ age' = 0
    /\ copy' = CopyOf(cache)
    /\ srv' = "reply"
    /\ scr' = [scr EXCEPT ![r].pc = "wait"]
    /\ UNCHANGED <<enabled, tick, cache, stopped, snd, sends, log, refused, crossed>>

(* ms.cacheChan <- metrics: any waiting scraper may get it.                *)
Reply(r) ==
    /\ srv = "reply" /\ scr[r].pc = "wait"
    /\ scr' = [scr EXCEPT ![r] = [pc |-> "encode", got |-> copy]]
    /\ srv' = "select"
    /\ copy' = NoCopy
    /\ UNCHANGED <<enabled, age, tick, cache, stopped, snd, sends, log, refused, crossed>>

(* case m := <-ms.reqChan.                                                 *)
TakeMetric(s) ==
    /\ srv = "select" /\ snd[s] # NoSample
    /\ snd' = [snd EXCEPT ![s] = NoSample]
    /\ LET m == snd[s]
       IN  IF sanityChecks(m)
           THEN /\ cache' = Observe(cache, m)
                /\ log' = Append(log, m)
                /\ UNCHANGED refused
           ELSE /\ refused' = refused \union {m}
                /\ UNCHANGED <<cache, log>>
    /\ UNCHANGED <<enabled, age, tick, srv, copy, stopped, scr, sends, crossed>>

(* case <-sendAfter: off when the last scrape is older than the timeout.   *)
Idle(a) == a > Timeout
CheckIdle ==
    /\ srv = "select" /\ tick
    /\ tick' = FALSE
    /\ enabled' = (enabled /\ ~Idle(age))
    /\ UNCHANGED <<age, srv, copy, cache, stopped, snd, scr, sends, log, refused, crossed>>

Stop ==
    /\ ~stopped
    /\ stopped' = TRUE
    /\ UNCHANGED <<enabled, age, tick, srv, copy, cache, snd, scr, sends, log, refused, crossed>>

(* case <-ms.stopChan: select may prefer another ready case for a while.   *)
RunEnds ==
    /\ stopped /\ srv = "select"
    /\ srv' = "ended"
    /\ UNCHANGED <<enabled, age, tick, copy, cache, stopped, snd, scr, sends, log,
                   refused, crossed>>

Serve == \/ \E r \in Scrapers : TakeRequest(r) \/ Reply(r)
         \/ \E s \in Senders : TakeMetric(s)
         \/ CheckIdle
         \/ RunEnds

Next == \/ \E s \in Senders, m \in Samples : SendMetric(s, m)
        \/ \E r \in Scrapers : ReceiveMetrics(r) \/ Encoded(r)
        \/ \E r, q \in Scrapers : Cross(r, q)
        \/ Tick
        \/ Stop
        \/ Serve

Spec == NewMetricsServer /\ [][Next]_vars

(* The goroutine, the ticker and the handlers run; a rendezvous that stays *)
(* possible happens (channels queue their waiters, select is uniform).     *)
Fairness == /\ \A r \in Scrapers : /\ WF_vars(TakeRequest(r)) /\ WF_vars(Reply(r))
                                   /\ WF_vars(Encoded(r))
            /\ \A s \in Senders : WF_vars(TakeMetric(s))
            /\ WF_vars(CheckIdle) /\ WF_vars(Tick)
FairSpec == Spec /\ Fairness

(***************************************************************************)
(* Properties.                                                             *)
(***************************************************************************)
\* Every variable holds a value of the kind the code gives it.
TypeOK ==
    /\ enabled \in BOOLEAN /\ tick \in BOOLEAN /\ stopped \in BOOLEAN
    /\ age \in 0..(Timeout + 1)
    /\ srv \in {"select", "reply", "ended"}
    /\ DOMAIN cache = Kinds
    /\ \A r \in Scrapers : scr[r].pc \in {"idle", "ask", "wait", "encode", "done"}
    /\ \A s \in Senders : snd[s] = NoSample \/ snd[s] \in Samples
    /\ sends \in 0..MaxSends
    /\ crossed \subseteq Scrapers

(* No function of the package builds a sample that the server throws away: *)
(* names and labels agree with the tables of known metrics (sanityChecks   *)
(* only logs, so a metric that disagrees would silently never exist).      *)
NoneRefused == refused = {}

(* What the log of accepted samples says the cache should hold.            *)
Of(kind, name, labels) ==
    SelectSeq(log, LAMBDA m : /\ m.src.kind = kind /\ m.src.name = name
                              /\ LabelValues(m) = labels)
RECURSIVE SumVals(_)
SumVals(s) == IF s = <<>> THEN 0 ELSE Head(s).val + SumVals(Tail(s))
EntryExact(kind, e) ==
    LET mine == Of(kind, e.name, e.labels)
    IN  /\ mine # <<>>
        /\ kind = "gauge" => e.value = Last(mine).val
        /\ kind # "gauge" => e.count = Len(mine)
        /\ kind \in {"summary", "histogram"} => e.sum = SumVals(mine)
        /\ kind = "histogram" => \A b \in DOMAIN e.buckets :
                e.buckets[b] = Len(SelectSeq(mine, LAMBDA m : m.val <= b))
(* One entry per series, which counts, sums and buckets exactly the        *)
(* samples the server took for it (a gauge holds the last one).            *)
CacheExact ==
    /\ \A k \in Kinds : \A i \in DOMAIN cache[k] : EntryExact(k, cache[k][i])
    /\ \A i \in DOMAIN log : \E j \in DOMAIN cache[log[i].src.kind] :
          LET e == cache[log[i].src.kind][j]
          IN  e.name = log[i].src.name /\ e.labels = LabelValues(log[i])

(* The server is about to send an answer exactly when one scraper waits    *)
(* for one: neither the server nor a scraper is ever left alone at the     *)
(* shared channel, whoever's message it took.                              *)
AnswerOwed ==
    Cardinality({r \in Scrapers : scr[r].pc = "wait"}) = IF srv = "reply" THEN 1 ELSE 0

(* A scrape that no other scrape overlapped gets the server's cache, never *)
(* the empty request that the shared channel also carries.                 *)
AloneAnswered ==
    \A r \in Scrapers : scr[r].pc \in {"encode", "done"} /\ r \notin crossed
        => scr[r].got # NoCopy

=============================================================================
