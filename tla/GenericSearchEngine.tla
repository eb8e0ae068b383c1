------------------------- MODULE GenericSearchEngine -------------------------
(***************************************************************************)
(* One search engine of dfm-search: GenericSearchEngine on the main        *)
(* thread, its SearchWorker on a thread of its own, and the strategy the   *)
(* worker runs.  The two threads share the atomic flag m_cancelled; all    *)
(* else crosses by Qt queued signals, which are FIFO queues: requests (to  *)
(* the worker) and inbox (to the main thread).                             *)
(*                                                                         *)
(* A hit is the pair (search that found it, position in its result list).  *)
(* Searches are numbered in the order in which requestSearch is emitted.   *)
(***************************************************************************)
EXTENDS Naturals, Sequences

CONSTANTS MaxResults,        \* options.maxResults()
          MaxSearches,       \* bound: requests sent to the worker
          ErrorThenFinish,   \* file name strategies: a failed search also emits searchFinished
          ResultFoundChoices \* values the client may give options.resultFoundEnabled

ASSUME MaxResultsAssumption == MaxResults \in Nat \ {0}
ASSUME MaxSearchesAssumption == MaxSearches \in Nat \ {0}
ASSUME ErrorThenFinishAssumption == ErrorThenFinish \in BOOLEAN
ASSUME ResultFoundAssumption == ResultFoundChoices \in (SUBSET BOOLEAN) \ {{}}

VARIABLES
    status,        \* m_status
    cancelled,     \* m_cancelled, read by the strategy on the worker thread
    results,       \* m_results
    batchResults,  \* m_batchResults
    batchTimer,    \* m_batchTimer.isActive()
    callback,      \* a ResultCallback is installed (it is never removed)
    lastError,     \* m_lastError.isError()
    resultFound,   \* m_options.resultFoundEnabled()
    loop,          \* the nested event loop of doSyncSearch
    lifecycle,     \* the engine object: alive, in its destructor, gone
    requests,      \* requestSearch events posted to the worker thread
    worker,        \* the SearchWorker and the strategy it is running
    inbox,         \* worker signals posted to the main thread
    searches,      \* history: number of requests emitted
    answered,      \* history: last search whose last signal was delivered
    delivered,     \* history: hits of search answered + 1 delivered so far
    announced,     \* history: hits handed out by resultsFound since searchStarted
    clean,         \* history: nothing else has touched the search that started last
    late,          \* history: hits reported by cancelled searches since cancel()
    cancelPoint,   \* history: the searches up to this one were cancelled
    output         \* what the client saw in the last step: signals, returns

mainVars    == <<status, results, batchResults, batchTimer, callback, lastError, resultFound>>
workerVars  == <<requests, worker>>
historyVars == <<answered, delivered, announced, clean, late, cancelPoint>>
vars == <<mainVars, workerVars, historyVars, cancelled, loop, lifecycle, inbox, searches, output>>

Status == {"Ready", "Searching", "Finished", "Cancelled", "Error"}
Hit == [search : Nat, nth : Nat]

\* The m_results of the strategy that runs search s, after n hits.
HitList(s, n) == [k \in 1..n |-> [search |-> s, nth |-> k]]

\* What a client observes: the signals of the engine and the returns of searchSync.
SignalName == {"searchStarted", "resultsFound", "searchFinished", "searchCancelled",
               "errorOccurred", "returnedTimeout", "returnedError", "returnedResults"}
SignalRecord == [name : SignalName, list : Seq(Hit)]
Signal(name) == [name |-> name, list |-> <<>>]
ListSignal(name, list) == [name |-> name, list |-> list]

\* Mutant: the signals are not connected to QEventLoop::quit.
QuitLoopUnconnected == loop

\* A signal of the engine that is connected to QEventLoop::quit while a
\* synchronous search waits.
QuitLoop == [loop EXCEPT !.state = IF @ = "waiting" THEN "quit" ELSE @]

MainThreadFree == lifecycle = "alive"

\* No request is queued, running or answered but undelivered.
NothingInFlight == answered = searches

-----------------------------------------------------------------------------
(* The client's calls, and the timer, on the main thread *)

Init ==
    /\ status = "Ready" /\ cancelled = FALSE
    /\ results = <<>> /\ batchResults = <<>> /\ batchTimer = FALSE
    /\ callback = FALSE /\ lastError = FALSE
    /\ resultFound \in ResultFoundChoices
    /\ loop = [state |-> "idle", timer |-> FALSE, search |-> 0, alone |-> FALSE]
    /\ lifecycle = "alive"
    /\ requests = <<>> /\ inbox = <<>>
    /\ worker = [phase |-> "idle", search |-> 0, found |-> 0, live |-> FALSE]
    /\ searches = 0 /\ answered = 0 /\ delivered = 0
    /\ announced = <<>> /\ clean = FALSE /\ late = 0 /\ cancelPoint = 0
    /\ output = <<>>

EmitRequest ==
    /\ searches < MaxSearches
    /\ searches' = searches + 1
    /\ requests' = Append(requests, [search |-> searches + 1, live |-> resultFound])

\* search() of a query that validateSearchConditions() accepts.
Search ==
    /\ MainThreadFree /\ status # "Searching"
    /\ cancelled' = FALSE
    /\ status' = "Searching"
    /\ results' = <<>> /\ batchResults' = <<>> /\ batchTimer' = TRUE
    /\ EmitRequest
    /\ announced' = <<>> /\ clean' = (NothingInFlight /\ resultFound)
    /\ loop' = [loop EXCEPT !.alone = FALSE]
    /\ output' = <<Signal("searchStarted")>>
    /\ UNCHANGED <<callback, lastError, resultFound, lifecycle, worker, inbox,
                   answered, delivered, late, cancelPoint>>

\* search() of a query that validation rejects: the timer stays armed.
SearchRejected ==
    /\ MainThreadFree /\ status # "Searching"
    /\ cancelled' = FALSE
    /\ status' = "Error"
    /\ results' = <<>> /\ batchResults' = <<>> /\ batchTimer' = TRUE
    /\ announced' = <<>> /\ clean' = FALSE
    /\ loop' = [QuitLoop EXCEPT !.alone = FALSE]
    /\ output' = <<Signal("searchStarted"), Signal("errorOccurred")>>
    /\ UNCHANGED <<callback, lastError, resultFound, lifecycle, requests, worker, inbox,
                   searches, answered, delivered, late, cancelPoint>>

\* searchSync() and searchWithCallback() of a query validation accepts.  The
\* facade turns resultFoundEnabled on for the second.  Bound: one nested
\* event loop at a time.
SearchSync(withCallback) ==
    /\ MainThreadFree /\ loop.state = "idle"
    /\ callback' = (callback \/ withCallback)
    /\ resultFound' = (resultFound \/ withCallback)
    /\ cancelled' = FALSE /\ results' = <<>> /\ lastError' = FALSE
    /\ searches < MaxSearches
    /\ searches' = searches + 1
    /\ requests' = Append(requests, [search |-> searches', live |-> resultFound'])
    /\ loop' = [state |-> "waiting", timer |-> TRUE, search |-> searches',
                alone |-> NothingInFlight]
    /\ clean' = FALSE
    /\ output' = <<>>
    /\ UNCHANGED <<status, batchResults, batchTimer, lifecycle, worker, inbox,
                   answered, delivered, announced, late, cancelPoint>>

\* The timer of doSyncSearch fires.
SyncTimeout ==
    /\ MainThreadFree /\ loop.state # "idle" /\ loop.timer
    /\ loop' = [QuitLoop EXCEPT !.timer = FALSE]
    /\ output' = <<>>
    /\ UNCHANGED <<mainVars, workerVars, historyVars, cancelled, lifecycle, inbox, searches>>

\* doSyncSearch after eventLoop.exec().
SyncReturn ==
    /\ MainThreadFree /\ loop.state = "quit"
    /\ loop' = [loop EXCEPT !.state = "idle", !.timer = FALSE]
    /\ IF ~loop.timer
       THEN /\ cancelled' = TRUE /\ late' = 0 /\ cancelPoint' = searches
            /\ output' = <<Signal("returnedTimeout")>>
       ELSE /\ output' = IF ~cancelled /\ lastError THEN <<Signal("returnedError")>>
                         ELSE <<ListSignal("returnedResults", results)>>
            /\ UNCHANGED <<cancelled, late, cancelPoint>>
    /\ UNCHANGED <<mainVars, workerVars, lifecycle, inbox, searches,
                   answered, delivered, announced, clean>>

\* What cancel() assigns and emits; handleSearchResult calls it as well.
CancelEffect ==
    /\ cancelled' = TRUE /\ batchTimer' = FALSE
    /\ late' = 0 /\ cancelPoint' = searches
    /\ IF status \in {"Ready", "Finished"}
       THEN status' = status /\ output' = <<>>
       ELSE status' = "Cancelled" /\ output' = <<Signal("searchCancelled")>>

Cancel ==
    /\ MainThreadFree
    /\ CancelEffect
    /\ loop' = [loop EXCEPT !.alone = FALSE]
    /\ UNCHANGED <<results, batchResults, callback, lastError, resultFound, lifecycle,
                   workerVars, inbox, searches, answered, delivered, announced, clean>>

SetSearchOptions ==
    /\ MainThreadFree
    /\ resultFound' \in ResultFoundChoices
    /\ output' = <<>>
    /\ UNCHANGED <<status, results, batchResults, batchTimer, callback, lastError,
                   workerVars, historyVars, cancelled, loop, lifecycle, inbox, searches>>

\* Mutants: the batch is emitted and not cleared; emitted as one entry.
EmitBatchAgain == announced' = announced \o batchResults /\ UNCHANGED batchResults
EmitBatchNested == announced' = Append(announced, batchResults) /\ batchResults' = <<>>

\* resultsFound(m_batchResults), and the batch is empty again.
EmitBatch == announced' = announced \o batchResults /\ batchResults' = <<>>

\* m_batchTimer's timeout slot.
BatchTimeout ==
    /\ MainThreadFree /\ batchTimer
    /\ batchResults # <<>> /\ status = "Searching"
    /\ output' = <<ListSignal("resultsFound", batchResults)>>
    /\ EmitBatch
    /\ UNCHANGED <<status, results, batchTimer, callback, lastError, resultFound, workerVars,
                   cancelled, loop, lifecycle, inbox, searches,
                   answered, delivered, clean, late, cancelPoint>>

-----------------------------------------------------------------------------
(* Delivery of the worker's signals, on the main thread *)

Receive(type) ==
    /\ MainThreadFree
    /\ inbox # <<>> /\ Head(inbox).type = type
    /\ inbox' = Tail(inbox)

\* The callback, if any, asks to stop or not.
HandleSearchResult ==
    /\ Receive("result")
    /\ results' = Append(results, [search |-> Head(inbox).search, nth |-> Head(inbox).n])
    /\ delivered' = delivered + 1
    /\ \/ /\ callback
          /\ CancelEffect
          /\ clean' = FALSE
          /\ loop' = [loop EXCEPT !.alone = FALSE]
          /\ UNCHANGED batchResults
       \/ /\ batchResults' = Append(batchResults, results'[Len(results')])
          /\ output' = <<>>
          /\ UNCHANGED <<status, cancelled, batchTimer, clean, loop, late, cancelPoint>>
    /\ UNCHANGED <<callback, lastError, resultFound, lifecycle, workerVars, searches,
                   answered, announced>>

\* Mutants: the strategy's list is taken only if it is longer; never.
ReconciledIfLonger(list) == IF Len(results) < Len(list) THEN list ELSE results
NotReconciled(list) == results

\* m_results once handleSearchFinished has compared it with the strategy's list.
ReconciledResults(list) == IF Len(results) # Len(list) THEN list ELSE results

HandleSearchFinished ==
    /\ Receive("finished")
    /\ batchTimer' = FALSE
    /\ EmitBatch
    /\ results' = ReconciledResults(HitList(Head(inbox).search, Head(inbox).n))
    /\ status' = "Finished"
    /\ loop' = QuitLoop
    /\ output' = (IF batchResults = <<>> THEN <<>>
                  ELSE <<ListSignal("resultsFound", batchResults)>>)
                 \o <<ListSignal("searchFinished", results')>>
    /\ answered' = Head(inbox).search /\ delivered' = 0
    /\ UNCHANGED <<callback, lastError, resultFound, lifecycle, workerVars, cancelled, searches,
                   clean, late, cancelPoint>>

HandleErrorOccurred ==
    /\ Receive("error")
    /\ batchTimer' = FALSE
    /\ lastError' = TRUE
    /\ status' = "Error"
    /\ loop' = QuitLoop
    /\ output' = <<Signal("errorOccurred")>>
    /\ IF ErrorThenFinish THEN UNCHANGED <<answered, delivered>>
       ELSE answered' = Head(inbox).search /\ delivered' = 0
    /\ UNCHANGED <<results, batchResults, callback, resultFound, lifecycle, workerVars, cancelled,
                   searches, announced, clean, late, cancelPoint>>

-----------------------------------------------------------------------------
(* The destructor: quit the worker thread and wait for it *)

Destroy ==
    /\ MainThreadFree /\ loop.state = "idle"
    /\ lifecycle' = "closing"
    /\ output' = <<>>
    /\ UNCHANGED <<mainVars, workerVars, historyVars, cancelled, loop, inbox, searches>>

WorkerJoined ==
    /\ lifecycle = "closing" /\ worker.phase = "idle"
    /\ lifecycle' = "gone"
    /\ output' = <<>>
    /\ UNCHANGED <<mainVars, workerVars, historyVars, cancelled, loop, inbox, searches>>

-----------------------------------------------------------------------------
(* The worker thread *)

WorkerStep ==
    /\ lifecycle # "gone"
    /\ output' = <<>>
    /\ UNCHANGED <<mainVars, cancelled, loop, lifecycle, searches, answered, delivered,
                   announced, clean, cancelPoint>>

Post(type) == inbox' = Append(inbox, [type |-> type, search |-> worker.search, n |-> worker.found])

\* SearchWorker::doSearch: a fresh strategy, handed the flag of the engine.
DoSearch ==
    /\ worker.phase = "idle" /\ requests # <<>>
    /\ worker' = [phase |-> "scan", search |-> Head(requests).search, found |-> 0,
                  live |-> Head(requests).live]
    /\ requests' = Tail(requests)
    /\ WorkerStep /\ UNCHANGED <<inbox, late>>

\* Mutant: the strategy does not look at the flag of the engine.
StopOnlyAtLimit == worker.found >= MaxResults

\* What makes a strategy leave its loop before the candidates are exhausted.
StopRequested == cancelled \/ worker.found >= MaxResults

\* The head of a strategy's loop over its candidates: stop, or take the next match.
Visit ==
    /\ worker.phase = "scan"
    /\ worker' = [worker EXCEPT !.phase = IF StopRequested THEN "done" ELSE "match"]
    /\ WorkerStep /\ UNCHANGED <<requests, inbox, late>>

\* There is no further candidate.
Exhausted ==
    /\ worker.phase = "scan"
    /\ worker' = [worker EXCEPT !.phase = "done"]
    /\ WorkerStep /\ UNCHANGED <<requests, inbox, late>>

\* A matching candidate joins the strategy's list and is reported if the
\* options ask for it.
Report ==
    /\ worker.phase = "match"
    /\ worker' = [worker EXCEPT !.phase = "scan", !.found = @ + 1]
    /\ inbox' = IF worker.live
                THEN Append(inbox, [type |-> "result", search |-> worker.search,
                                    n |-> worker.found + 1])
                ELSE inbox
    /\ late' = IF worker.search <= cancelPoint THEN late + 1 ELSE late
    /\ WorkerStep /\ UNCHANGED requests

\* Mutant: a failing path returns without a signal.
FailSilently ==
    /\ worker.phase = "scan" /\ worker.found = 0
    /\ worker' = [worker EXCEPT !.phase = "idle"]
    /\ WorkerStep /\ UNCHANGED <<requests, inbox, late>>

\* The index cannot be opened, the query cannot be built, ...  Only the file
\* name strategies can fail after they have found something.
Fail ==
    /\ worker.phase = "scan"
    /\ worker.found = 0 \/ ErrorThenFinish
    /\ Post("error")
    /\ worker' = [worker EXCEPT !.phase = IF ErrorThenFinish THEN "done" ELSE "idle"]
    /\ WorkerStep /\ UNCHANGED <<requests, late>>

Finish ==
    /\ worker.phase = "done"
    /\ Post("finished")
    /\ worker' = [worker EXCEPT !.phase = "idle"]
    /\ WorkerStep /\ UNCHANGED <<requests, late>>

-----------------------------------------------------------------------------
Client  == \/ Search \/ SearchRejected \/ Cancel \/ SetSearchOptions \/ Destroy
           \/ \E withCallback \in BOOLEAN : SearchSync(withCallback)
Deliver == HandleSearchResult \/ HandleSearchFinished \/ HandleErrorOccurred
Timers  == BatchTimeout \/ SyncTimeout
Worker  == DoSearch \/ Visit \/ Exhausted \/ Report \/ Fail \/ Finish

Next == Client \/ Deliver \/ Timers \/ SyncReturn \/ WorkerJoined \/ Worker

\* The threads are scheduled and Qt delivers what is posted; the client need
\* not call anything, and no search is bound to exhaust its candidates other
\* than by maxResults.
Fairness == WF_vars(Worker) /\ WF_vars(Deliver) /\ WF_vars(SyncReturn) /\ WF_vars(WorkerJoined)

Spec == Init /\ [][Next]_vars /\ Fairness

-----------------------------------------------------------------------------
(* Properties *)

Message == [type : {"result", "finished", "error"}, search : Nat, n : Nat]

\* Every variable stays in its domain.
FlagTypeOK ==
    /\ cancelled \in BOOLEAN /\ batchTimer \in BOOLEAN /\ callback \in BOOLEAN
    /\ lastError \in BOOLEAN /\ resultFound \in BOOLEAN /\ clean \in BOOLEAN
StateTypeOK ==
    /\ status \in Status
    /\ lifecycle \in {"alive", "closing", "gone"}
    /\ loop \in [state : {"idle", "waiting", "quit"}, timer : BOOLEAN, search : Nat,
                 alone : BOOLEAN]
    /\ worker \in [phase : {"idle", "scan", "match", "done"}, search : Nat, found : Nat,
                   live : BOOLEAN]
ListTypeOK ==
    /\ results \in Seq(Hit) /\ batchResults \in Seq(Hit) /\ announced \in Seq(Hit)
OutputTypeOK == output \in Seq(SignalRecord)
QueueTypeOK ==
    /\ requests \in Seq([search : Nat, live : BOOLEAN])
    /\ inbox \in Seq(Message)
CounterTypeOK ==
    /\ searches \in Nat /\ answered \in Nat /\ delivered \in Nat
    /\ late \in Nat /\ cancelPoint \in Nat
TypeOK == /\ FlagTypeOK /\ StateTypeOK /\ ListTypeOK /\ OutputTypeOK
          /\ QueueTypeOK /\ CounterTypeOK

\* The list that searchFinished hands to the client is what the search that
\* just ended found: its first n hits, in order, at most maxResults.  Never a
\* mixture of two searches or the list of another one, whatever was cancelled
\* and restarted before (handleSearchFinished compares sizes only, lines 189-192).
OneSearchPerList ==
    \A i \in 1..Len(output) : output[i].name = "searchFinished" =>
        \E n \in 0..MaxResults : output[i].list = HitList(answered, n)

\* What resultsFound has announced since searchStarted, followed by what waits
\* in the batch, is m_results: no hit is lost, repeated or out of order, also
\* when the search is cancelled (batch timer slot and flush, lines 25-30, 184-187).
BatchesMatchResults == clean => announced \o batchResults = results

\* While the flag of cancel() stays up, the cancelled searches report at most
\* the one hit that was past its check of the flag.
CancelHonoured == cancelled => late <= 1

\* A list that searchSync returns is its own search's list.
ReturnsOwnList ==
    \A i \in 1..Len(output) : output[i].name = "returnedResults" =>
        worker.search = loop.search /\ output[i].list = HitList(loop.search, worker.found)

\* A synchronous search during which nothing else is asked of the engine, and
\* before which nothing is left over, returns the complete list of its own
\* search (doSyncSearch, lines 246-263).
SyncReturnsOwn == loop.alone => ReturnsOwnList

\* A synchronous call returns.
SyncReturns == loop.state # "idle" ~> loop.state = "idle"

Ledger == INSTANCE SearchLedger WITH asked <- searches, open <- (lifecycle = "alive")

\* Every request is answered exactly once and in order, and if the engine is
\* not destroyed every request is answered, cancelled or not.
LedgerSpec == Ledger!Spec
=============================================================================
