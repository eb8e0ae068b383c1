--------------------------- MODULE SemanticSearcher ---------------------------
(***************************************************************************)
(* SemanticSearcher: one natural-language search fans out to up to three   *)
(* sub-engines, counts them down as they end, merges their lists and       *)
(* reports once.  It lives on the main thread; each sub-engine works on a  *)
(* thread of its own and posts its signals to the main thread's queue.     *)
(*                                                                         *)
(* A sub-engine is used for one search.  What it may emit is what          *)
(* GenericSearchEngine emits for one request: searchFinished, or           *)
(* errorOccurred, or (file name) errorOccurred and then searchFinished;    *)
(* or, when validation rejects the query, errorOccurred from inside        *)
(* search() itself.  Client slots do not call back into the searcher.      *)
(***************************************************************************)
EXTENDS Integers, FiniteSets, SequencesExt

CONSTANTS Plans,           \* the sub-engines a query may call for, in launch order
          Lists,           \* the result lists a sub-engine may come back with
          ExcludeChoices,  \* the sets of paths exclude_patterns may name
          MaxResults,      \* maxResults, 0 means no limit
          TimeoutEnabled,  \* timeoutSeconds > 0
          Failing,         \* the types of sub-engine that may fail while searching
          Rejecting,       \* the types of sub-engine whose validation may reject
          MaxSearches      \* bound: accepted searches

EngineType == {"FileName", "Content", "Ocr", "Recent"}

ASSUME PlansAssumption == Plans \subseteq Seq(EngineType) /\ \A plan \in Plans : IsInjective(plan)
ASSUME ListsAssumption == \A list \in Lists : list \in Seq(Range(list))
ASSUME MaxResultsAssumption == MaxResults \in Nat
ASSUME FailingAssumption == Failing \subseteq EngineType /\ Rejecting \subseteq EngineType
ASSUME BoundsAssumption == TimeoutEnabled \in BOOLEAN /\ MaxSearches \in Nat

VARIABLES
    status, cancelled, allResults, seenPaths,
    pendingFinishCount,
    timeoutTimer,     \* timeoutTimer->isActive()
    excludePatterns,  \* the paths that match excludeNamePatterns
    toLaunch,         \* what doSearch has still to launch
    launching,        \* the main thread is inside doSearch
    engines,          \* sub-engines that exist, each with what it has yet to do
    inbox,            \* events posted to the main thread
    sync,             \* the searchSync() call on the stack, if any
    staleGuards,      \* connections to the locals of a searchSync() that returned
    deadFrameRead,    \* such a connection was invoked
    searches,         \* number of accepted searches; names the current one
    launched, ended,  \* history: sub-engines of the current search
    found,            \* history: paths their delivered lists hold
    miscounted,       \* history: a sub-engine was counted twice, or before the others started
    ends,             \* history: terminal signals since the search was accepted
    output            \* the terminal signals emitted in the last step

searchVars == <<status, cancelled, allResults, seenPaths, pendingFinishCount, timeoutTimer,
                excludePatterns>>
syncVars == <<sync, staleGuards, deadFrameRead>>
historyVars == <<searches, launched, ended, found, miscounted>>
vars == <<searchVars, toLaunch, launching, engines, inbox, syncVars, historyVars, ends, output>>

Status == {"Ready", "Searching", "Finished", "Cancelled"}
EngineId == [search : 1..MaxSearches, type : EngineType]
NoSync == [state |-> "idle", done |-> FALSE, outcome |-> "none"]

\* Once a dead frame is read the program's behaviour is undefined: the model
\* says nothing about what follows.
MainThreadFree == ~launching /\ ~deadFrameRead

Init ==
    /\ status = "Ready" /\ cancelled = FALSE
    /\ allResults = <<>> /\ seenPaths = {}
    /\ pendingFinishCount = 0 /\ timeoutTimer = FALSE /\ excludePatterns = {}
    /\ toLaunch = <<>> /\ launching = FALSE
    /\ engines = <<>> /\ inbox = <<>>
    /\ sync = NoSync /\ staleGuards = FALSE /\ deadFrameRead = FALSE
    /\ searches = 0 /\ launched = {} /\ ended = {} /\ found = {} /\ miscounted = FALSE /\ ends = 0
    /\ output = <<>>

-----------------------------------------------------------------------------
(* What a terminal signal does *)

\* Mutant: the lambdas of searchSync() set their flags and do not quit the loop.
EmitTerminalNoQuit(name, list) ==
    /\ output' = <<[name |-> name, list |-> list]>>
    /\ deadFrameRead' = (deadFrameRead \/ staleGuards)
    /\ sync' = IF sync.state = "idle" \/ sync.done THEN sync
               ELSE [sync EXCEPT !.done = TRUE, !.outcome = name]
    /\ UNCHANGED staleGuards

\* searchFinished, searchCancelled or errorOccurred reaches the lambdas of the
\* searchSync() on the stack and those of every one that has returned.  quit()
\* acts on a loop that runs; before exec() it is forgotten.
EmitTerminal(name, list) ==
    /\ output' = <<[name |-> name, list |-> list]>>
    /\ deadFrameRead' = (deadFrameRead \/ staleGuards)
    /\ sync' = IF sync.state = "idle" \/ sync.done THEN sync
               ELSE [state |-> IF sync.state = "waiting" THEN "quit" ELSE sync.state,
                     done |-> TRUE, outcome |-> name]
    /\ UNCHANGED staleGuards

EmitNothing == output' = <<>> /\ UNCHANGED <<ends, syncVars>>

\* The search that is under way ends.
End(state, name, list) ==
    /\ status' = state /\ ends' = ends + 1
    /\ EmitTerminal(name, list)

-----------------------------------------------------------------------------
(* doSearch *)

\* Steps 1 to 6 of doSearch: the sub-engines of the previous search are handed
\* to deleteLater, which posts an event behind what is already in the queue.
BeginSearch(plan) ==
    /\ searches < MaxSearches
    /\ cancelled' = FALSE /\ allResults' = <<>> /\ seenPaths' = {}
    /\ status' = "Searching"
    /\ excludePatterns' \in ExcludeChoices
    /\ pendingFinishCount' = 0
    /\ inbox' = inbox \o SetToSeq({[kind |-> "delete", engine |-> e, list |-> <<>>] :
                                   e \in {f \in DOMAIN engines : engines[f] # "deleting"}})
    /\ engines' = [e \in DOMAIN engines |-> "deleting"]
    /\ toLaunch' = plan /\ launching' = TRUE
    /\ searches' = searches + 1
    /\ launched' = {} /\ ended' = {} /\ found' = {} /\ ends' = 0
    /\ output' = <<>>
    /\ UNCHANGED <<timeoutTimer, staleGuards, deadFrameRead, miscounted>>

\* Both overloads of search().
Search(plan) ==
    /\ MainThreadFree /\ status # "Searching"
    /\ BeginSearch(plan)
    /\ UNCHANGED sync

\* search() of a query with fewer than two semantic dimensions.
SearchNonSemantic ==
    /\ MainThreadFree /\ status # "Searching"
    /\ EmitTerminal("errorOccurred", <<>>)
    /\ UNCHANGED <<searchVars, toLaunch, launching, engines, inbox, historyVars, ends>>

\* Bound: one nested event loop.
SearchSync(plan) ==
    /\ MainThreadFree /\ status # "Searching" /\ sync.state = "idle"
    /\ BeginSearch(plan)
    /\ sync' = [NoSync EXCEPT !.state = "calling"]

\* A merged list without duplicates, excluded or already seen paths.
Merge(list) ==
    FoldLeft(LAMBDA acc, p : IF p \in seenPaths \cup excludePatterns \cup Range(acc)
                             THEN acc ELSE Append(acc, p),
             allResults, list)

\* Mutant: the cancel flag is not looked at.
CompletedAsFinished(list) == End("Finished", "searchFinished", list)

\* The end of a search, when the counter reaches zero.
Completed(list) ==
    IF cancelled THEN End("Cancelled", "searchCancelled", <<>>)
    ELSE End("Finished", "searchFinished", list)

\* maxResults, applied to the merged list.
Truncate(list) ==
    IF MaxResults > 0 /\ Len(list) > MaxResults THEN SubSeq(list, 1, MaxResults) ELSE list

\* Mutants: the counter is tested after the decrement as if before; every end
\* of a sub-engine ends the search; the timer is not stopped.
EngineEndedWhen(test, stopTimer, list, count) ==
    LET merged == Merge(list) IN
    /\ seenPaths' = seenPaths \cup (Range(list) \ excludePatterns)
    /\ pendingFinishCount' = count - 1
    /\ IF test
       THEN /\ timeoutTimer' = (timeoutTimer /\ ~stopTimer)
            /\ allResults' = Truncate(merged)
            /\ Completed(allResults')
       ELSE /\ allResults' = merged
            /\ UNCHANGED <<timeoutTimer, status>> /\ EmitNothing
    /\ UNCHANGED <<cancelled, excludePatterns>>
EngineEndedOffByOne(list, count) == EngineEndedWhen(count - 1 = 1, TRUE, list, count)
EngineEndedEachTime(list, count) == EngineEndedWhen(TRUE, TRUE, list, count)
EngineEndedTimerRuns(list, count) == EngineEndedWhen(count = 1, FALSE, list, count)

\* onEngineFinished, with the counter's value before fetch_sub.
EngineEnded(list, count) ==
    LET merged == Merge(list) IN
    /\ seenPaths' = seenPaths \cup (Range(list) \ excludePatterns)
    /\ pendingFinishCount' = count - 1
    /\ IF count = 1
       THEN /\ timeoutTimer' = FALSE
            /\ allResults' = Truncate(merged)
            /\ Completed(allResults')
       ELSE /\ allResults' = merged
            /\ UNCHANGED <<timeoutTimer, status>> /\ EmitNothing
    /\ UNCHANGED <<cancelled, excludePatterns>>

NextEngine == [search |-> searches, type |-> Head(toLaunch)]

\* The sub-engines with the next one.
EnginesWith(state) ==
    [e \in DOMAIN engines \cup {NextEngine} |-> IF e = NextEngine THEN state ELSE engines[e]]

\* createAndLaunchEngine, Step 8: the sub-engine accepts the query ...
LaunchEngine ==
    /\ launching /\ toLaunch # <<>>
    /\ pendingFinishCount' = pendingFinishCount + 1
    /\ engines' = EnginesWith("running")
    /\ launched' = launched \cup {NextEngine}
    /\ toLaunch' = Tail(toLaunch)
    /\ EmitNothing
    /\ UNCHANGED <<status, cancelled, allResults, seenPaths, timeoutTimer, excludePatterns,
                   launching, inbox, searches, ended, found, miscounted>>

\* ... or rejects it at once, and onEngineError runs inside engine->search().
LaunchRejected ==
    /\ launching /\ toLaunch # <<>> /\ Head(toLaunch) \in Rejecting
    /\ EngineEnded(<<>>, pendingFinishCount + 1)
    /\ engines' = EnginesWith("idle")
    /\ launched' = launched \cup {NextEngine}
    /\ ended' = ended \cup {NextEngine}
    /\ miscounted' = TRUE
    /\ toLaunch' = Tail(toLaunch)
    /\ UNCHANGED <<launching, inbox, searches, found>>

\* searchSync enters its event loop when doSearch returns.
EnterLoop(s) == IF s.state = "calling" THEN [s EXCEPT !.state = "waiting"] ELSE s

\* Step 9 and the return from doSearch.
LaunchDone ==
    /\ launching /\ toLaunch = <<>>
    /\ launching' = FALSE
    /\ IF pendingFinishCount = 0
       THEN /\ timeoutTimer' = FALSE
            /\ status' = "Finished" /\ ends' = ends + 1
            /\ output' = <<[name |-> "searchFinished", list |-> <<>>]>>
            /\ deadFrameRead' = (deadFrameRead \/ staleGuards)
            /\ sync' = EnterLoop(IF sync.state = "calling" /\ ~sync.done
                                 THEN [sync EXCEPT !.done = TRUE, !.outcome = "searchFinished"]
                                 ELSE sync)
       ELSE /\ timeoutTimer' = (TimeoutEnabled \/ timeoutTimer)
            /\ sync' = EnterLoop(sync)
            /\ output' = <<>>
            /\ UNCHANGED <<status, ends, deadFrameRead>>
    /\ UNCHANGED <<cancelled, allResults, seenPaths, pendingFinishCount, excludePatterns, toLaunch,
                   engines, inbox, staleGuards, historyVars>>

-----------------------------------------------------------------------------
(* The main thread's event loop *)

Receive(kind) ==
    /\ MainThreadFree
    /\ inbox # <<>> /\ Head(inbox).kind = kind

\* A sub-engine's searchFinished.
OnEngineFinished ==
    /\ Receive("finished")
    /\ inbox' = Tail(inbox)
    /\ EngineEnded(Head(inbox).list, pendingFinishCount)
    /\ IF Head(inbox).engine \in launched
       THEN /\ ended' = ended \cup {Head(inbox).engine}
            /\ found' = found \cup (Range(Head(inbox).list) \ excludePatterns)
       ELSE UNCHANGED <<ended, found>>
    /\ UNCHANGED <<toLaunch, launching, engines, searches, launched, miscounted>>

\* Mutant: an error is logged and not counted.
OnEngineErrorIgnored ==
    /\ Receive("error")
    /\ inbox' = Tail(inbox)
    /\ EmitNothing
    /\ ended' = IF Head(inbox).engine \in launched /\ Head(inbox).engine.type # "FileName"
                THEN ended \cup {Head(inbox).engine} ELSE ended
    /\ UNCHANGED <<searchVars, toLaunch, launching, engines, searches, launched, found, miscounted>>

\* A sub-engine's errorOccurred; a file name engine has not ended with it.
OnEngineError ==
    /\ Receive("error")
    /\ inbox' = Tail(inbox)
    /\ EngineEnded(<<>>, pendingFinishCount)
    /\ ended' = IF Head(inbox).engine \in launched /\ Head(inbox).engine.type # "FileName"
                THEN ended \cup {Head(inbox).engine} ELSE ended
    /\ miscounted' = (miscounted \/ Head(inbox).engine.type = "FileName")
    /\ UNCHANGED <<toLaunch, launching, engines, searches, launched, found>>

\* The deferred delete.  What a sub-engine posts between deleteLater() and its
\* destruction is dropped with it: such a sub-engine takes no steps here.
DeleteEngine ==
    /\ Receive("delete")
    /\ engines' = [f \in DOMAIN engines \ {Head(inbox).engine} |-> engines[f]]
    /\ inbox' = Tail(inbox)
    /\ EmitNothing
    /\ UNCHANGED <<searchVars, toLaunch, launching, historyVars>>

\* doCancel, from cancel() or from the timer.
DoCancel ==
    /\ cancelled' = TRUE /\ timeoutTimer' = FALSE
    /\ EmitNothing
    /\ UNCHANGED <<status, allResults, seenPaths, pendingFinishCount, excludePatterns, toLaunch,
                   launching, engines, inbox, historyVars>>

Cancel == MainThreadFree /\ DoCancel
Timeout == MainThreadFree /\ timeoutTimer /\ DoCancel

\* searchSync after eventLoop.exec(): its frame goes, its connections stay.
SyncReturn ==
    /\ MainThreadFree /\ sync.state = "quit"
    /\ sync' = NoSync
    /\ staleGuards' = TRUE
    /\ output' = <<>>
    /\ UNCHANGED <<searchVars, toLaunch, launching, engines, inbox, deadFrameRead, historyVars, ends>>

-----------------------------------------------------------------------------
(* The sub-engines, on their threads *)

EngineStep == output' = <<>> /\ UNCHANGED <<searchVars, toLaunch, launching, syncVars, historyVars, ends>>

EngineFinishes(e) ==
    /\ engines[e] \in {"running", "failed"}
    /\ \E list \in Lists :
         /\ MaxResults > 0 => Len(list) <= MaxResults
         /\ inbox' = Append(inbox, [kind |-> "finished", engine |-> e, list |-> list])
    /\ engines' = [engines EXCEPT ![e] = "idle"]
    /\ EngineStep

\* Only the file name engine goes on to searchFinished after an error.
EngineFails(e) ==
    /\ engines[e] = "running" /\ e.type \in Failing
    /\ inbox' = Append(inbox, [kind |-> "error", engine |-> e, list |-> <<>>])
    /\ engines' = [engines EXCEPT ![e] = IF e.type = "FileName" THEN "failed" ELSE "idle"]
    /\ EngineStep

-----------------------------------------------------------------------------
Client == \/ \E plan \in Plans : Search(plan) \/ SearchSync(plan)
          \/ SearchNonSemantic \/ Cancel
Launch == ~deadFrameRead /\ (LaunchEngine \/ LaunchRejected \/ LaunchDone)
Deliver == OnEngineFinished \/ OnEngineError \/ DeleteEngine
EngineThread(e) == EngineFinishes(e) \/ EngineFails(e)

Next == \/ Client \/ Launch \/ Deliver \/ Timeout \/ SyncReturn
        \/ \E e \in DOMAIN engines : EngineThread(e)

\* Every sub-engine ends (GenericSearchEngine's SearchLedger), and the main
\* thread runs on.
Fairness == /\ WF_vars(Launch) /\ WF_vars(Deliver) /\ WF_vars(SyncReturn)
            /\ \A e \in EngineId : WF_vars(e \in DOMAIN engines /\ EngineThread(e))

Spec == Init /\ [][Next]_vars /\ Fairness

-----------------------------------------------------------------------------
(* Properties *)

Paths == UNION {Range(list) : list \in Lists}
Event == [kind : {"finished", "error", "delete"}, engine : EngineId, list : Lists \cup {<<>>}]

\* Every variable stays in its domain.
TypeOK ==
    /\ status \in Status /\ cancelled \in BOOLEAN /\ timeoutTimer \in BOOLEAN
    /\ allResults \in Seq(Paths) /\ seenPaths \subseteq Paths /\ found \subseteq Paths
    /\ pendingFinishCount \in Int
    /\ toLaunch \in Seq(EngineType) /\ launching \in BOOLEAN
    /\ DOMAIN engines \subseteq EngineId
    /\ Range(engines) \subseteq {"running", "failed", "idle", "deleting"}
    /\ Range(inbox) \subseteq Event
    /\ sync \in [state : {"idle", "calling", "waiting", "quit"}, done : BOOLEAN,
                 outcome : {"none", "searchFinished", "searchCancelled", "errorOccurred"}]
    /\ staleGuards \in BOOLEAN /\ deadFrameRead \in BOOLEAN
    /\ searches \in 0..MaxSearches /\ ends \in Nat /\ miscounted \in BOOLEAN
    /\ launched \subseteq EngineId /\ ended \subseteq launched

\* searchFinished comes when every planned sub-engine was launched and has
\* ended; its list then holds all they found, each path once, or maxResults of
\* them ("After all engines finish, results are deduplicated and truncated").
FinishedIsComplete ==
    \A i \in 1..Len(output) : output[i].name = "searchFinished" =>
        LET list == output[i].list IN
        /\ toLaunch = <<>> /\ launched = ended
        /\ Range(list) \subseteq found /\ IsInjective(list)
        /\ Len(list) = IF MaxResults > 0 /\ Cardinality(found) > MaxResults
                       THEN MaxResults ELSE Cardinality(found)

\* So it is as long as every sub-engine was counted once, in whatever order they
\* end and whatever was cancelled or timed out before (lines 288-322).
CountedIsComplete == ~miscounted => FinishedIsComplete

\* An accepted search ends by exactly one of searchFinished and searchCancelled.
OneEndPerSearch ==
    ~miscounted => ends = IF searches = 0 \/ status = "Searching" THEN 0 ELSE 1

\* Until a sub-engine is counted twice, the timeout timer runs for the search
\* under way and never into the next one, which it would cancel (lines 104-107,
\* 257-268, 312-322).
TimerIsOfThisSearch == timeoutTimer /\ ~miscounted => status = "Searching" /\ ~cancelled

\* Every accepted search leaves Searching, also when sub-engines fail or reject.
SearchSettles == status = "Searching" ~> status # "Searching" \/ deadFrameRead

\* A search that is cancelled or times out ends as Cancelled.
CancelledEndsCancelled ==
    cancelled /\ status = "Searching" ~> status = "Cancelled" \/ deadFrameRead

\* A searchSync() whose search has not ended when its loop is entered returns
\* ("Blocks the calling thread until all search engines complete or timeout");
\* a quit() that comes before exec() is forgotten (lines 474-508).
SyncReturns ==
    sync.state = "waiting" /\ ~sync.done ~> sync.state = "idle" \/ deadFrameRead
=============================================================================
