----------------------------- MODULE BrowserLoad -----------------------------
(***************************************************************************)
(* The browser page loads (browser, browser1, browser2, browser3): a       *)
(* headless Chrome per probe, driven over CDP, whose network events are    *)
(* drained into the waterfall after the load event.  The tabs are the      *)
(* probes of one process that --concurrency lets run at once.              *)
(***************************************************************************)
EXTENDS Dispatch, SequencesExt

CONSTANTS
  Tabs,          \* browser probes in flight
  Requests,      \* bound: requests of a page, 1..Requests
  MaxChunks,     \* bound: dataReceived events of a request
  ChunkSize,     \* encoded size of a dataReceived chunk
  FinishedSizes, \* encoded sizes loadingFinished may report
  WaterfallCap   \* BROWSER_WATERFALL_CAP

ASSUME BrowserAssumption ==
  /\ Requests \in Nat /\ MaxChunks \in Nat /\ ChunkSize \in Nat /\ WaterfallCap \in Nat
  /\ FinishedSizes \subseteq Nat

VARIABLES
  tab,       \* per probe, [at, sent]: its stage and, as history, what Chrome
             \* emitted
  profile,   \* [exists, users]: the profile directory, named after the process
  queue,     \* per probe and kind of event, the stream not yet read
  pending,   \* per probe, the PendingReq of each request id seen
  order,     \* per probe, request_order
  responses, \* per probe, resource_count
  browsed    \* per probe, the RequestAttempt, or NoResult

browserVars == <<tab, profile, queue, pending, order, responses, browsed>>

BrowserModes == {"browser", "browser1", "browser2", "browser3"}
Ids == 1..Requests
Kinds == {"request", "response", "data", "finished"}
Absent == -1
NoResult == [success |-> FALSE]
NoPage == [r \in Ids |-> [response |-> FALSE, chunks |-> 0, finished |-> Absent]]
NewEntry == [url |-> "", status |-> Absent, data |-> 0, finished |-> Absent]

BrowserInit ==
  /\ tab \in [Tabs -> [at : {"start"}, sent : {NoPage}]]
  /\ profile = [exists |-> FALSE, users |-> {}]
  /\ queue = [t \in Tabs |-> [k \in Kinds |-> <<>>]]
  /\ pending = [t \in Tabs |-> <<>>] /\ order = [t \in Tabs |-> <<>>]
  /\ responses = [t \in Tabs |-> 0] /\ browsed = [t \in Tabs |-> NoResult]

-----------------------------------------------------------------------------
(***************************************************************************)
(* Getting Chrome to the page.                                             *)
(***************************************************************************)
At(t, stage) == tab[t].at = stage
Go(t, stage) == tab' = [tab EXCEPT ![t].at = stage]
Reading == <<queue, pending, order, responses>>

\* browser_error; dropping ProfileDirGuard removes the directory.
Leave(t, result) ==
  /\ Go(t, "done")
  /\ browsed' = [browsed EXCEPT ![t] = result]
  /\ profile' = [exists |-> IF t \in profile.users THEN FALSE ELSE profile.exists,
                 users |-> profile.users \ {t}]

browser_error(t, category) ==
  Leave(t, [success |-> FALSE, error |-> category]) /\ UNCHANGED Reading

\* find_chrome: an override, then the well-known places of the platform; the
\* stub of a build without the browser feature fails the same way.
ChromeMissing(t) == At(t, "start") /\ browser_error(t, "config")

\* The page URL, the profile directory and, for browser3, the certificate.
ChromeFound(t) ==
  /\ At(t, "start")
  /\ Go(t, IF mode = "browser3" THEN "certificate" ELSE "launch")
  /\ profile' = [exists |-> TRUE, users |-> profile.users \cup {t}]
  /\ UNCHANGED <<Reading, browsed>>

\* fetch_cert_der, compute_spki_sha256_base64: a certificate that cannot be had
\* only changes the flags: QUIC is not forced, certificate errors are ignored.
fetch_cert_der(t) ==
  /\ At(t, "certificate") /\ Go(t, "launch")
  /\ UNCHANGED <<profile, Reading, browsed>>

\* The flags of the mode, the configuration, Browser::launch under the request timeout, the page under
\* half of it, and the vitals script, whose failure is tolerated.
Launch(t) ==
  /\ At(t, "launch")
  /\ \/ \E category \in {"config", "other", "timeout"} : browser_error(t, category)
     \/ /\ Go(t, IF mode = "browser3" THEN "warm up" ELSE "subscribe")
        /\ UNCHANGED <<profile, Reading, browsed>>

\* browser3 visits /health first; how that goes is ignored, and nothing
\* listens to its events.
WarmUp(t) ==
  /\ At(t, "warm up") /\ Go(t, "subscribe")
  /\ UNCHANGED <<profile, Reading, browsed>>

Subscribe(t) ==
  /\ At(t, "subscribe")
  /\ \/ browser_error(t, "other")
     \/ Go(t, "navigate") /\ UNCHANGED <<profile, Reading, browsed>>

\* External: what Chrome reports of a page, the kinds of event in a stream each.
\* Requests are numbered as Chrome sends them; the network answers in any order.
Page == [Ids -> [response : BOOLEAN, chunks : 0..MaxChunks, finished : {Absent} \cup FinishedSizes]]

Events(p) ==
  [request  |-> Ids,
   response |-> {r \in Ids : p[r].response},
   data     |-> {d \in Ids \X (1..MaxChunks) : d[2] <= p[d[1]].chunks},
   finished |-> {r \in Ids : p[r].finished # Absent}]
Streams(p) == [request  : {[r \in Ids |-> r]},
               response : SetToSeqs(Events(p).response),
               data     : SetToSeqs(Events(p).data),
               finished : SetToSeqs(Events(p).finished)]

\* goto and wait_for_navigation under one deadline.
Navigate(t) ==
  /\ At(t, "navigate")
  /\ \/ \E category \in {"http", "timeout"} : browser_error(t, category)
     \/ \E p \in Page : \E q \in Streams(p) :
          /\ tab' = [tab EXCEPT ![t].at = "drain", ![t].sent = p]
          /\ queue' = [queue EXCEPT ![t] = q]
          /\ UNCHANGED <<profile, pending, order, responses, browsed>>

-----------------------------------------------------------------------------
(***************************************************************************)
(* Draining: select! reads the four streams in any order.                  *)
(***************************************************************************)
\* Mutant: a request seen again starts over.
entry_for_anew(t, r) == NewEntry

\* entry_for: get or create.
entry_for(t, r) == IF r \in DOMAIN pending[t] THEN pending[t][r] ELSE NewEntry

\* Request r's entry becomes e; it joins request_order once.
Record(t, r, e) ==
  /\ pending' = [pending EXCEPT ![t] = [x \in DOMAIN @ \cup {r} |-> IF x = r THEN e ELSE @[x]]]
  /\ order' = [order EXCEPT ![t] = IF r \in DOMAIN pending[t] THEN @ ELSE Append(@, r)]

Take(t, kind) ==
  /\ At(t, "drain") /\ queue[t][kind] # <<>>
  /\ queue' = [queue EXCEPT ![t][kind] = Tail(@)]
  /\ UNCHANGED <<tab, profile, browsed>>

RequestWillBeSent(t) ==
  /\ Take(t, "request")
  /\ LET r == Head(queue[t]["request"])
     IN  Record(t, r, [entry_for(t, r) EXCEPT !.url = "request"])
  /\ UNCHANGED responses

ResponseReceived(t) ==
  /\ Take(t, "response")
  /\ LET r == Head(queue[t]["response"])
         e == entry_for(t, r)
     IN  Record(t, r, [e EXCEPT !.url = IF e.url = "" THEN "response" ELSE e.url,
                                !.status = 200])
  /\ responses' = [responses EXCEPT ![t] = @ + 1]

DataReceived(t) ==
  /\ Take(t, "data")
  /\ LET r == Head(queue[t]["data"])[1]
     IN  Record(t, r, [entry_for(t, r) EXCEPT !.data = @ + ChunkSize])
  /\ UNCHANGED responses

LoadingFinished(t) ==
  /\ Take(t, "finished")
  /\ LET r == Head(queue[t]["finished"])
     IN  Record(t, r, [entry_for(t, r) EXCEPT !.finished = tab[t].sent[r].finished])
  /\ UNCHANGED responses

\* PendingReq::wire_bytes: the larger of the two accounts, Absent without one.
wire_bytes(finished, data) ==
  CASE finished # Absent            -> IF finished > data THEN finished ELSE data
    [] finished = Absent /\ data > 0 -> data
    [] OTHER                        -> Absent

\* wire_bytes_total: over every request, Absent when none has an account.
wire_total(wire) ==
  LET known == {r \in DOMAIN wire : wire[r] # Absent}
  IN  IF known = {} THEN Absent ELSE MapThenSumSet(LAMBDA r : wire[r], known)

\* The RequestAttempt of a page that loaded: success is whether the load time
\* could be read; the waterfall is capped.
LoadedAttempt(entries, requests, count, timed) ==
  LET wire == [r \in DOMAIN entries |-> wire_bytes(entries[r].finished, entries[r].data)]
      shown == SubSeq(requests, 1, Min({Len(requests), WaterfallCap}))
  IN  [success |-> timed, error |-> "none", count |-> count, total |-> wire_total(wire),
       waterfall |-> [i \in DOMAIN shown |->
          [id |-> shown[i], entry |-> entries[shown[i]], wire |-> wire[shown[i]]]],
       truncated |-> Len(requests) > WaterfallCap]

\* The drain deadline, or a stream that closed: timing, the vitals, and close.
Collect(t) ==
  /\ At(t, "drain")
  /\ \E timed \in BOOLEAN :
       Leave(t, LoadedAttempt(pending[t], order[t], responses[t], timed))
  /\ UNCHANGED Reading

TabStep(t) ==
  \/ ChromeMissing(t) \/ ChromeFound(t) \/ fetch_cert_der(t) \/ Launch(t) \/ WarmUp(t)
  \/ Subscribe(t) \/ Navigate(t)
  \/ RequestWillBeSent(t) \/ ResponseReceived(t) \/ DataReceived(t) \/ LoadingFinished(t)
  \/ Collect(t)

BrowserStep == mode \in BrowserModes /\ \E t \in Tabs : TabStep(t)

-----------------------------------------------------------------------------
(***************************************************************************)
(* Properties.                                                             *)
(***************************************************************************)
Drained(t) == \A k \in Kinds : queue[t][k] = <<>>

\* The accounts of a page's requests, from all of its events.
PageWire(p) == [i \in Ids |-> wire_bytes(p[i].finished, ChunkSize * p[i].chunks)]

\* Attempt r lists a request at most once, never more of them than the cap, and
\* none with more bytes than its events gave it.
ListsOnce(r, p) ==
  /\ Len(r.waterfall) <= WaterfallCap
  /\ \A i, j \in DOMAIN r.waterfall : i # j => r.waterfall[i].id # r.waterfall[j].id
  /\ \A i \in DOMAIN r.waterfall : r.waterfall[i].wire <= PageWire(p)[r.waterfall[i].id]

\* Each request carries what all of its events said and the totals are the page's.
TellsAll(r, p) ==
  /\ r.count = Cardinality({i \in Ids : p[i].response})
  /\ r.total = wire_total(PageWire(p))
  /\ r.truncated <=> Requests > WaterfallCap
  /\ \A i \in DOMAIN r.waterfall :
       LET w == r.waterfall[i]
       IN  /\ w.wire = PageWire(p)[w.id] /\ w.entry.url = "request"
           /\ w.entry.status # Absent <=> p[w.id].response

\* Whatever order select! reads the streams in, the waterfall is of the page's
\* requests, and once everything was read it tells all there was to tell.
DrainOrderFree ==
  \A t \in Tabs : At(t, "done") /\ browsed[t].error = "none" =>
    /\ ListsOnce(browsed[t], tab[t].sent)
    /\ Drained(t) => TellsAll(browsed[t], tab[t].sent)

=============================================================================
