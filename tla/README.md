# TLA+ models of util-dfm

util-dfm is the file-manager library of deepin: four C++ libraries -- search,
mount, io and burn -- over Qt, GLib/GIO, UDisks2, Lucene++ and xorriso.  This
directory models the parts of it in which several actors meet (worker threads,
queued signals, timers, D-Bus events, nested event loops) or in which one of many
steps may fail, checks them with TLC and proves the central facts with TLAPS.
`PROJECT.json` lists the components, the runs, the lines of source every
definition stands for, the mutations that show each property can fail, the
hazards and the findings.

Paths are relative to the repository root.  In the sections on dfm-search,
`lib/` is `src/dfm-search/dfm-search-lib/`; for dfm-mount `lib/` is
`src/dfm-mount/lib/`.

## 1. Inventory

### dfm-search

| Part | State | Operations |
|---|---|---|
| `GenericSearchEngine` (`lib/core/genericsearchengine.cpp`) | status, cancel flag, result list, batch and its timer, callback, last error | `search`, `searchSync`, `searchWithCallback`, `cancel`, slots for the worker's three signals, destructor |
| `SearchWorker` (`lib/core/searchstrategy/searchworker.cpp`) | the strategy of the request it runs | `doSearch`, on a thread of its own |
| strategies (`indexedstrategy`, `realtimestrategy`, `recentsearchstrategy`) | result list, pointer to the engine's cancel flag | one loop over candidates per search |
| `SemanticSearcher` (`lib/semantic/semanticsearcher.cpp`) | up to three engines, a counter of the engines still running, merged list, seen paths, timeout timer | `search`, `searchSync`, `cancel`, slots for the engines' signals |
| `SearchEngine` facade and factory | one engine | forwards |
| parser, rule engine, query builder | dictionaries, read-only after loading | text to a query per engine |
| filters, Lucene utilities, content retriever, client | none shared | pure functions, command line |

The client lives on the main thread and calls the engine; the engine posts a
request to its worker thread; the strategy posts `resultFound`, `searchFinished`
and `errorOccurred` back.  Both directions are Qt queued connections, that is
FIFO event queues.  Only the atomic cancel flag is shared directly.
`SemanticSearcher` owns several engines and listens to their signals on the main
thread.  What is hard: `cancel()` and a new `search()` while the signals of an
earlier search are still queued or its worker is still running; nested event
loops ended by whichever signal comes first; a counter decremented by signals of
engines that fail, reject a query at once, or belong to the previous search; a
timer racing the last signal.  What makes it correct: the list a search ends with
is its own and complete, every search ends exactly once, cancellation is
effective at once, blocking calls return.

### dfm-mount

| Part | State | Operations |
|---|---|---|
| `DBlockMonitor` (`lib/dblockmonitor.cpp`) | status, signal handler ids, service watcher, index of blocks by drive, delayed mount signals | `startMonitor`, `stopMonitor`, `resolveDeviceFromDrive`, D-Bus handlers |
| `DProtocolMonitor` (`lib/dprotocolmonitor.cpp`) | cached devices, signal handler ids | start, stop, handlers of GVolumeMonitor, `createDevice` |
| `DDeviceManager` (`lib/ddevicemanager.cpp`) | both monitors | starts and stops both, relays their signals |
| `DBlockDevice` (`lib/dblockdevice.cpp`) | last error; the UDisks client's cache | mount, unmount, rename, eject, power off, lock, unlock, rescan, each blocking or with a callback |
| `DProtocolDevice` (`lib/dprotocoldevice.cpp`) | mount and volume handlers, last error | mount, unmount, blocking in a nested event loop with a timer, or with a callback |
| `DNetworkMounter` (`src/dfm-mount/private/dnetworkmounter.cpp`) | none of its own; keyring | mount through the daemon or gvfs, unmount through the daemon, on a thread pool |

The monitors hear of devices from services outside the process and keep caches
that clients read; the devices look at such a cache, send one request and answer
their caller with what comes of it.  What is hard: restarts of UDisks, heard over
two D-Bus connections that nothing orders; a second start; announcements of mounts
that wait 100 ms; blocking calls that overtake signals; event loops inside of each
other that give up by a timer while their request goes on; a password dialog
between two attempts of a pool thread, while other calls run.  What makes it
correct: caches and subscribers agree with the devices there are, a monitor is
subscribed once while it is on, and every call is answered once, truly and with the
reason of its own failure.

### dfm-io

`DEnumerator` (`src/dfm-io/dfm-io/denumerator.cpp`) lists a directory: at once,
within a time limit on a pool thread, asynchronously by GIO callbacks, or sorted
by `fts` and the comparison functions of `DLocalHelper`
(`src/dfm-io/dfm-io/utils/dlocalhelper.cpp`).  `DOperator` performs one file
operation, synchronously or with a callback; `DFile` and `DFileInfo` wrap streams
and attributes; `DWatcher` wraps a `GFileMonitor`.  What is hard is in
`DEnumerator`: the hand-over of a directory opened on another thread, callbacks of
a listing that has been cancelled or started again, recursion into
sub-directories, and an order of names with four rules that a sort depends on.
What makes it correct: every entry is listed once and in the order asked for, an
announced end is one, calls return and listings end.

### dfm-burn

`DOpticalDiscManager` runs one job on one drive: acquire, work, release, with
three engines (xorriso, libudfburn, dvd+rw-format) that report or parse the
progress of other programs.  `verifyChecksum` extracts and hashes file by file.
`DPacketWritingController` opens a UDF disc and changes the working directory of
the process.  What is hard is the failure of one step of several: every way out
must release what the earlier steps took, and tell of the failure.  The UDF client
under `3rdparty/` is vendored.

## 2. Modules

| Module | Models |
|---|---|
| `SearchLedger` | abstract: requests are answered once and in order, and all are answered while the engine exists |
| `GenericSearchEngine` | the engine, its worker and the strategy it runs |
| `SemanticSearcher`, `MCSemanticSearcher` | the fan-out to sub-engines; instances for TLC |
| `BlockMonitor`, `MCBlockMonitor` | `DBlockMonitor`, UDisks and the two buses; an instance for TLC |
| `JobLedger` | abstract: each call on a device is answered once, and none is left without an answer |
| `BlockDevice`, `MCBlockDevice` | `DBlockDevice`, UDisks and its client's cache; an instance for TLC |
| `ProtocolMounts`, `MCProtocolMounts` | `DProtocolMonitor` composed with a `DProtocolDevice` that follows it; an instance for TLC |
| `NetworkMounter` | `DNetworkMounter`, the daemon, gvfs, the keyring and the user |
| `Enumerator`, `MCEnumerator` | `DEnumerator`, its pool threads and GIO; instances for TLC |
| `NameOrder` | how `DLocalHelper` compares two names, and the rules it promises |
| `SortedListing`, `MCSortedListing` | the sorted listing of `DEnumerator`, in that order; an instance for TLC |
| `OpticalDisc` | `DOpticalDiscManager` and its engines |
| `...Proofs` | the theorems about the module of that name; `EnumeratorProofs` also those about `NameOrder` and `SortedListing` |

**GenericSearchEngine.**  `requests` and `inbox` are the event queues of the two
threads.  `worker` is the worker thread with the strategy it runs; a strategy is
`scan` (head of its loop: look at the flag and the limit), `match` (a candidate
matches and is about to be reported), `done` (leaving).  A hit is the pair of the
search that found it and its position, so a list shows which search it belongs
to.  One action per handler and per client call: `HandleSearchFinished` includes
the flush of the batch, the comparison of the lists and the quit of a waiting
event loop.  `output` holds what the client is told in a step; `announced`,
`answered`, `delivered`, `clean`, `late` and `cancelPoint` are history variables
that no guard reads.

**SemanticSearcher.**  A sub-engine is reduced to what it may emit for one request,
which is what `GenericSearchEngine` shows it emits and `SearchLedger` states.  The
launch loop is one action per sub-engine, since a sub-engine that rejects its query
emits `errorOccurred` from inside the call.  `deleteLater` is an event in the main
thread's queue; an engine that waits for its deletion takes no steps, since what it
posts is dropped with it.  `searchSync` leaves connections behind whose lambdas refer
to its locals; when one of them is invoked the model stops (`deadFrameRead`), because
the program is undefined from there on.

**BlockMonitor.**  `bus` and `ownerBus` are the two D-Bus connections, `known`
the cache of the GDBus client, `handlers` the number of handlers connected to
each signal, of which `connections` remembers the last.  A client that asks for
the devices after starting and applies the signals is part of the model (`view`,
`lastSaid`).  `OwnerSeen` is what the watcher has heard of the service so far, and
`inStep` and `startedDown` record how the client has used its calls.

**BlockDevice.**  `exported` is what UDisks says of the device, `seen` what the
client's cache holds, `bus` the signals and replies that its main loop has still to
take.  A call looks at `seen`, is refused or settled from it, or becomes one entry
of `requests`; a blocking call takes its reply past the signals (`SyncReturn`), an
asynchronous one is answered by `MainLoop`.  `lastError` carries the call that wrote
it, so that a property can say whose reason it is; `GetProperty` is any of the getters,
which write it when an interface is missing, const as they are.

**ProtocolMounts.**  Everything is on the main thread.  GIO's lists (`volumes`,
`mounts`) change and tell the monitor at once; the device is connected to the
monitor's signals, so one action is the whole chain of handlers.  A blocking call
pushes an event loop on `loops`; a loop that was told to exit, by its callback or its
timer, returns what it was told last when it is the innermost (`LoopReturns`).  A
callback that finds its blocker freed, because the call gave up before, is undefined:
the model stops (`undefined`).  `StartMonitor` and `StopMonitor` of this module and of
`BlockMonitor` are what `DDeviceManager` calls.

**NetworkMounter.**  A call is a record with the phase it is in: `pool` (a D-Bus
call blocks a pool thread), `request` and `asking` (the dialog), `gvfs` (GIO works
and may ask, again too), `finished`, `answered`.  The keyring is the sequence of saved
logins, right or wrong ones.  A client without a dialog (a null `getPassInfo`) has a
blank login tried by the daemon and is refused by gvfs; `mountResult` is always given.

**Enumerator.**  One call of `hasNext()` is a sequence of actions (`at` is its place
in the loop), between which pool threads and `cancel()` may act.  Opening a directory
is `Open`; with a time limit it starts an opener, a pool thread that the caller waits
for: the wake-up can come before the wait (`opening` is still "starting"), in time, or
after `WaitTimeout`.  An opener writes its result into a local of `init()` after it
has woken the caller up: one that ends after its caller has gone on, or in time but
writes too late (`LateWrite`), writes into a returned function, and the model stops
(`undefined`); so it does when a file information that `fileInfoList()` has released
is used again.  A URL below the root is a sequence of names and `DirAt` resolves it;
the entry that GIO read and the URL that the code makes of it are kept apart, since
the code makes them differ.  The asynchronous listing is one record per pending GIO
call; the calls share one cancellable, and each may have noticed that it was cancelled
before it was reset (`shot`).  Which names the filters accept is the constant `Shown`.

**NameOrder, SortedListing.**  `compareUnified` and the four comparison functions are
operators on names, which are sequences of characters; of a character the module keeps
what the code asks about it.  The loop of `compareUnified` is a recursive function of
the position of its iterators.  Beside it stands what the comment of `compareByString`
says (`ComesFirst`): a name is a row of keys, one for each run of digits and each
other character, and the first difference decides.  A call of `sortFileInfoList()`
opens the stream or takes the one that is open, reads the directory, if it is there
and can be read (`readable`, else `ReadNothing`), sorts it with a merge sort as `fts`
does (`Merge`, `MergeSort`: the result is `Stuck` when a comparison does not end), and
walks the result entry by entry, looking at `ftsCanceled`.  It is a mode of the class
that `Enumerator` models too; the two have no name in common, so that one module of
proofs extends both.

**OpticalDisc.**  A call is the sequence of stages it has still to go through;
each stage is an action that goes on, fails (`Fail`, which leaves only the way out)
or ends the call; the last is the destruction of the engine the call made
(`Destroy`).  Another program takes and leaves the drive, and changes the
disc, between stages.  `Extract` takes one file at a time.  `FormatPrints` is one
percentage printed by dvd+rw-format in the pass it is in, and the engine's guess of
the pass.

## 3. Runs

| Run | Properties | Question and outcome | States |
|---|---|---|---|
| `EngineResults` | `TypeOK`, `OneSearchPerList`, `BatchesMatchResults`, `CancelHonoured` | Are lists and batches right under every order of calls, queued signals and worker steps?  Holds with single results: each `searchFinished` list is the prefix its own search found, batches lose and repeat nothing, a cancelled worker reports at most the one hit past its check of the flag. | 2,270,000 |
| `EngineLiveness` | `SyncReturnsOwn`, `SyncReturns`, `LedgerSpec` | Does every search settle, every blocking call return with its own list, and does the engine implement `SearchLedger`?  Holds, also for a strategy that reports an error and then finishes. | 194,000 |
| `SemanticResults` | `CountedIsComplete`, `OneEndPerSearch`, `TimerIsOfThisSearch`, `SearchSettles`, `CancelledEndsCancelled`, `SyncReturns` | Three sub-engines that may fail, reject the query or not be there: is the merged list complete, does every search end once, a cancelled one as cancelled, does the blocking call return?  Every search ends; the rest holds as long as each sub-engine is counted once. | 180,000 |
| `SemanticErrorCountsTwice` | `FinishedIsComplete` | Is a finished search complete when a file name engine fails?  **No**: its error and its finish are both counted. | violation |
| `BlockMonitorRuns` | `IndexMatches`, `SubscribedOnce`, `ViewConverges`, `Resubscribes` | Index, subscriptions and the client's view under hot-plugging, mounts, a restart of UDisks and any calls.  Holds under the conditions the properties name; `SubscribedOnce` says how many subscriptions a start between an exit of UDisks and its return leaves behind. | 519,000 |
| `BlockDeviceRuns` | `FailuresExplained`, `AnswersTrue`, `LedgerSpec` | Two calls of any kind on a disc and on an encrypted device, while other programs mount, unmount and pull it out: is each answered once, a failure with its own reason, a success truly?  Holds; `rescan()` alone does not say why, and what a stale cache answers is excepted. | 1,435,000 |
| `ProtocolMountRuns` | `TypeOK`, `ViewsFollow`, `CallSettles` | Do the monitor's list and the device's mount follow GIO, and is every call answered, when blocking calls nest, time out and meet callbacks?  Holds under the conditions the properties name. | 362,000 |
| `NetworkMounts` | `AskedOnce`, `ErrorFits`, `OnlyGoodLoginsSaved`, `LedgerSpec` | Two calls at once on one share: is the user asked once, told what happened, and is no bad login saved?  Holds. | 118,000 |
| `EnumeratorRuns` | `ReturnedOnce`, `EverythingListed`, `OverIsComplete`, `HasNextReturns`, `AsyncEnds` | Listing a tree one by one within a time limit, or asynchronously with one restart and cancellation: is anything lost or repeated, does every call return, is the end announced?  Holds under the conditions the properties name. | 165,000 |
| `EnumeratorDeep` | `EverythingListed` | Are directories two levels down listed?  **No**: sub-directories are opened at a URL made from the root's. | violation |
| `SortedListingRuns` | `NamesByRule`, `ListedAsAsked`, `ListingReturns` | Do names compare by the four rules of `compareByString`, is a sorted listing complete and in the order asked for at whatever moment it is cancelled, does it return?  Holds for names without the characters that section 5 describes; of a directory that is missing or cannot be read the list is empty, without an error. | 439,000 |
| `BurnRuns` | `TypeOK`, `CallsCleanUp`, `FailureTold`, `VerifiedIsTrue`, `ProgressNeverFalls` | Two calls in a row, each failing wherever it can, beside another program: are drive and cache given up, failures told, verifications true?  Holds, but for what xorriso tolerates and for files that cannot be removed (section 5). | 643,000 |

**Refinements.**  `LedgerSpec` of `GenericSearchEngine` maps requests made and
answered to `SearchLedger`; `LedgerSpec` of `BlockDevice` and of `NetworkMounter`
maps calls made and answered to `JobLedger`, the same promise for two quite
different ways of answering (from a cache or by a reply; after dialogs and retries on
a pool).  Both abstract specifications contain fairness, so the runs check liveness
with them.  `ProtocolMounts` does not implement `JobLedger`: an asynchronous mount
with neither mount nor volume is never answered (phase `dropped`), so it has
`CallSettles` in its place.

**Bounds.**

- *Engine.*  Three searches are enough for a cancelled search to finish late into
  a second one while a third is asked for, and two hits to tell a prefix from a
  whole list; the effects of the engine on one search depend on at most one earlier
  one.
- *Semantic search.*  Three sub-engines is the number the code has; lists are equal or
  disjoint, one of the paths is excluded in all searches, and together there is one
  path more than `MaxResults`.  Two searches let the events of the first meet the
  second.  The violation needs one search and no list longer than two.
- *Block monitor.*  One drive with one block, three hardware events and one restart
  reach every pair of handlers in both orders.  `MaxHandlers = 3` lets a subscription
  be doubled by a second start or by a start while UDisks is away, and both.
- *Block device.*  Two calls meet in every pair of forms (a third would find what the
  second left); two kinds of device reach every check.  One event of another program
  falls before, between or after each look at the cache.
- *Protocol mounts.*  Two calls, two events and the kinds of root the code tells
  apart: a volume with a mount, a share without a volume, a mount that is hidden.
  There is one start: double starts and restarts of the service are `BlockMonitor`'s,
  whose start and stop are the same code; the proofs are for any number.
- *Network mounts.*  Two calls and two saved logins: one may be wrong and the next
  right, and one call may save what the other reads.
- *Enumerator.*  The tree has one level of sub-directories, because of what
  `EnumeratorDeep` finds below that, a hidden file and a link back to the root; one
  failure of GIO (`MaxFaults`) and any number of time-outs and cancellations may
  occur, and an asynchronous listing is started up to twice, so that callbacks of the
  first run into the second.  `MaxOpen = 3` is more than the tree needs.  A client
  decides for the asynchronous listing before it lists anything one by one.
- *Sorted listing.*  36 names are all of one or two characters out of five kinds, and
  six longer ones with leading zeros and full-width digits, so that every pair of
  rules meets; names with odd characters come in pairs, and three entries mix
  directories, sizes and times.  A call depends on an earlier one only through the
  flag and the stream, which the client may cancel and open before it (`MaxLists =
  1`).
- *Burning.*  Two calls: the second meets what the first may have left.  Two files let
  a verification fail on either.  Four percentages reach the noise limit of 5 percent
  from both sides.

**Fairness.**  Threads are scheduled and posted events are delivered (weak
fairness of the worker, the deliveries, the return from a loop that was quit).
The client need not call anything and, but for `ProtocolMounts`, timers need not
fire; a strategy need not run out of candidates, since `maxResults` bounds it.
`SemanticSearcher` assumes that every sub-engine ends, which `LedgerSpec` of
`EngineLiveness` shows.  In `BlockMonitor` single shots of 100 ms fire.  In
`BlockDevice` UDisks completes every request; the code itself sets no time limit.
In `ProtocolMounts` GIO answers every request, and the timer of a blocking call
fires while its loop runs, as `ASyncToSyncHelper` arms it.  In `NetworkMounter` the
daemon, gvfs and the user answer.  In `Enumerator` the caller runs on, its waits
time out and GIO answers every asynchronous call; a pool thread may hang for ever.
In `SortedListing` the thread inside the call runs on.  `OpticalDisc` has no
fairness and no liveness property: external programs may hang, and nothing in the
code bounds them.  Deadlock is checked for the block monitor; the other models may
stop, because a client may stop calling.

## 4. Proofs

Each module of proofs EXTENDS the module it is about and holds for every value of
its constants under the assumptions that module names; TLC evaluates those
assumptions in the runs.

**GenericSearchEngineProofs**, for every `MaxResults` and `MaxSearches` that are
positive naturals:

- `TypeCorrect`: `Spec => []TypeOK`.
- `LedgerSafety`: the engine implements the safety part of `SearchLedger`: each
  request is answered once and in order.  The invariant is `OrderInv`: the messages
  of the inbox belong to consecutive searches between the last one answered and the
  worker's, and the queued requests are those after the worker's.
- `FinishedListsAreOwn`: if the client always asks for single results
  (`ResultFoundChoices = {TRUE}`), then `[]OneSearchPerList`.  `OneSearchPerList`
  alone is not inductive: it says what the client is told, not what makes it so.
  The strengthening is `OrderInv /\ LiveInv /\ HitsInv /\ ResultsInv`:  every
  request and strategy reports its hits one by one (`LiveInv`); the hits in the
  inbox are numbered as they were found and the last message carries their number
  (`HitsInv`); the tail of `m_results` is the hits of the current search delivered
  so far (`ResultsInv`).  When sizes agree, the tail is then the whole list.  The
  assumption is needed (section 5).
- `CancelStopsReports`: `Spec => []CancelHonoured`.  The invariant `FlagInv` counts
  the hit that the strategy has tested the flag for and not reported yet
  (`PastTheCheck`) as if it were reported: once the flag is up there is one at most.
- `BatchesLoseNothing`: `Spec => []BatchesMatchResults`, whatever was searched before
  and with whichever `resultFoundEnabled`.  `clean` begins with a search that is
  started when nothing is in flight; the invariant `CleanInv` says what that is worth:
  the search that started last is the only one in flight, asks for single results, and
  `m_results` holds as many hits as were delivered of it (`LiveFlight`).  Nothing in
  flight means empty queues and an idle worker (by `OrderInv`), hence `IdleInv`.
- `UndisturbedSyncReturnsOwn`: `Spec => []SyncReturnsOwn`.  `SyncInv` follows the
  search through both ways of filling `m_results`, hit by hit (`LiveFlight`) and at
  its end (`QuietFlight`), and says that its loop, when it is quit while the timer
  runs and without an error, was quit by the end of this search.

**SemanticSearcherProofs**, for every set of plans and lists, every limit and number
of searches, with and without a timeout, whichever sub-engines fail or reject their
query (`PlansAssumption`: a plan names a type of engine once):

- `TypeCorrect`: `Spec => []TypeOK`, also after an engine was counted twice.
- `EndsExactlyOnce`: `Spec => []OneEndPerSearch`; `TimerStaysWithItsSearch`:
  `Spec => []TimerIsOfThisSearch`; `CounterIsAwaited`: the counter is the number of
  sub-engines whose end is still to come.
- `FinishedListsAreComplete`: `Spec => []CountedIsComplete`, whatever lists the
  sub-engines come back with and in whatever order.
- These four hold up to `miscounted`, the moment when an engine that fails is counted
  twice (section 5); the invariant is `~miscounted => Sound`.  `OneEndPerSearch` is not
  inductive, since a wrong counter would end a search early and then again.  `Sound`
  adds why the counter is right: it is the number of awaited sub-engines (`Counted`);
  the ends in the queue are of awaited sub-engines, so those of deleted engines and of
  earlier searches are not among them (`EndsAwaited`), and come once but for the pair
  of a failure (`EndsOnce`); a sub-engine at work has not ended (`AtWork`); a plan does
  not launch a type twice (`Launches`); and a search is running while one is awaited
  (`Ends`).  The proof has a lemma for every group of actions.
- The complete list needs besides what the merge computes.  `Merge` is a fold, whose
  recursive function is shown to exist (`FoldExists`) and to take the list path by path
  (`MergeSteps`); induction on the length, by the least number for which it would fail
  (`LeastNumber`, `AllNumbers`), gives that it adds what is new and not excluded and
  keeps every path single (`MergeMeans`).  A list without duplicates is as long as its
  paths are many (`InjectiveLength`), so that `maxResults` cuts it where the property
  says (`TruncateMeans`).  `FoundInv` says that until the search ends `seenPaths` and
  the paths of `allResults` are what the delivered lists hold.
- `CancelledStaysCancelled`, an action property, also after a miscount: a search that
  was cancelled or timed out goes on without a word or ends by `searchCancelled`, with
  no list, whatever its sub-engines still deliver.  That it does end is
  `CancelledEndsCancelled`, which only TLC checks.

**BlockMonitorProofs**, for every non-empty finite set of drives, every set of blocks
and every number of events, restarts and handlers:

- `TypeCorrect`: `Spec => []TypeOK`.  The types alone are not inductive: `TInv` adds
  that signals about mounts are about blocks and that `connections` holds a handler,
  without which a stop would disconnect one that is not there.
- `OneSubscription`: `Spec => []SubscribedOnce`.  `SInv` says why, in terms of the
  bus that the watcher listens to: the changes of owner that are still on their way
  alternate and the last one is true (`OwnersAlternate`), so that what the watcher
  has been told so far (`OwnerSeen`) decides whether a monitor that is on has a
  handler (`StepInv`).  A handler is left behind only by a start for which the watcher
  has heard of an exit and not of the return; the changes heard so far bound the number
  of those (`LeftInv`).
- `IndexFollows`: `Spec => []IndexMatches`, and `ClientConverges`:
  `Spec => []ViewConverges`.  Both speak of an empty bus; the invariants say for every
  bus what the index, or the view, will be when all that is on it has been delivered.
  `InAfter` says whether something is in a set once the signals still to come have
  added and removed what they are about, and its lemmas what becomes of that when a
  signal is posted or delivered.  Through it the cache of the object manager client
  becomes what UDisks exports (`KnownInv`), the client's view too (`ViewInv`, with
  `AheadInv` for a `getDevices()` that is ahead of the bus), and the index what is
  plugged in (`IndexInv`).  `SignalOrder` says that a drive comes and goes without its
  blocks, and that what is said of a mount is said of a block that is known then.  Of
  mounts the same operator tells what the client will have been told last, once the
  announcements that wait 100 ms are made (`MountInv`); of a block that the cache does
  not know none waits (`SilentInv`).

**ProtocolMountsProofs**, for every set of shares and phones and every number of
events, calls and starts:

- `TypeCorrect`: `Spec => []TypeOK`, which includes that the stack of event loops is
  that of the blocking calls that have not returned, each once (`LoopsInv`).
- `ViewsKeepUp`: `Spec => []ViewsFollow`; the invariant keeps the cache and the
  device's handler in step with GIO across every chain of handlers.
- `NoCallIsForgotten` and `CallsReturnOnceAndNested`: what `CallSettles` rests on
  besides fairness.  A call that is not answered is still with GIO or its loop has been
  told to exit; an answer is final; and a blocking call does not return before one
  made inside its event loop.  `AwaitInv` adds to the stack of loops that the later
  call is the inner one, and that a loop which runs on has its request with GIO.

**NetworkMounterProofs**, for every number of calls, every keyring and however often
gvfs asks:

- `UserAskedOnce`, `ErrorIsOfTheCall`, `SavedLoginsWork`: the three safety properties
  of the run.  The invariant is about one call at a time: `AsksFit` says what it has
  asked its user, and `ErrFits` what it has been told, given its phase.
- `LedgerSafety`: the mounter implements the safety part of `JobLedger`.

**BlockDeviceProofs**, for every set of devices, every number of calls and whatever
other programs do:

- `FailuresCarryTheirReason`: `Spec => []FailuresExplained`, and `AnswersAreTrue`:
  `Spec => []AnswersTrue`.  The invariant says what keeps each call to its own answer:
  a request that UDisks has, or a reply on the bus, is for a call that waits
  (`RequestsFit`, `RepliesFit`), no call has two of either or one of both (`Apart`),
  and a reply that says success is about a state in which the device has been since
  the call.  A call settled from the cache needs in addition that a device without a
  file system is never mounted (`Mounts`).
- `LedgerSafety`: the device implements the safety part of `JobLedger`.

**OpticalDiscProofs**, for every set of files, every percentages dvd+rw-format may
print and every number of calls:

- `TypeCorrect`, `EveryCallCleansUp`, `FailuresAreTold`, `VerificationIsTrue`,
  `ProgressIsForward`: all properties of the run.  The invariant follows a call along
  the stages it has left: nothing acquires the drive again before a tool runs
  (`ToolForm`), what takes the drive is followed by what gives it up, on every way out
  (`HeldForm`, `GiveUpOrder`), a used cache belongs to a verification that has still to
  remove it (`CacheForm`), no stage that fails without a status comes after the
  announcement (`AnnounceOrder`), and what was told of the progress is never ahead of what was
  printed (`ProgressForm`).

**EnumeratorProofs**, for every finite set of names, every set of directories and
entries, every filter and set of flags, and any number of failures, time-outs and
cancellations:

- `TypeCorrect`: `Spec => []TypeOK`.  Its strengthening `TInv` says what the code makes
  of a URL: it is the root's with at most one name (`Urls`), so that `DirAt` is only
  asked for the root or for what is directly below it (`NoName`, `OneName`).
- `OverMeansComplete`: `Spec => []OverIsComplete`.  While the first listing
  runs one GIO call is pending, and the files it has still to hand out and those in
  the list are together all there are, without overlap (`Receiving`); when it is over
  all are in the list or taken from it, once (`Received`).
- `NothingReturnedTwice`: if the tree satisfies `NamesDiffer` and `Tree`, then
  `[]ReturnedOnce`; and `NothingLeftOut`: if it satisfies `OneLevel`, then
  `[]EverythingListed`.  `OneLevel` says that only entries of the root are entered,
  `Tree` that two of them do not lead to the same directory, nor one back to the root,
  and `NamesDiffer` that none further down bears the name of an entry of the root, in
  whose place it would be listed.  The first theorem does not need `OneLevel`, and the
  second not `Tree`: links and loops among them are covered.  All three hypotheses are
  true of the directories of `EnumeratorRuns`; for those of `EnumeratorDeep`, where
  the property fails, `OneLevel` is false and the other two are true (TLC evaluates
  `TreesAssumption` of `MCEnumerator` in both runs).  `CallInv`
  says what an `init()` that is awaited opens.  The invariants are about four
  sets: what was returned, the entry that the call has read (`Current`), the entries
  left in the open directories (`Unread`) and the directories still to be opened on
  their account (`Ahead`); `OnceInv` says that they do not overlap, `CompleteInv` that
  together they miss nothing.  A step does one of three things to them: it leaves what
  is to come (`Rests`), reads an entry from an open directory (`Reads`), or opens a
  directory that was ahead (`Opens`).

- `NamesAreOrdered`: for all names made of plain characters (`PlainChars`: no letters
  that differ in width only, no digits of two UTF-16 units), `compareByStringEx` is a
  strict weak order, without which sorting has no meaning; and `ListingComparesByRule`:
  `ListingSpec => []NamesByRule`, for every set of directories.  The loop is shown to
  have a result (`LoopExists`), since every step of it goes forward (`StepMeans`); at a
  position where both names have a key it compares as the keys do (`CompareMeans`,
  which rests on what a run of digits is and what its value is, `RunMeans` and
  `ValueMeans`), and equal keys lead to the next position of that kind in both
  (`KeysGrow`).  By induction on what is left of the first name the result is that of
  the rules (`LoopByRule`), and the order of the rules is strict (`FirstIsStrict`).
- `DirectoryIsSorted`: whatever role and directory of plain names, the sort ends, keeps
  every entry once, and leaves none behind one that it should come before.  `Merge` and
  `MergeSort` are recursive functions of a pair of places; that such functions exist is
  shown by induction on what is left to merge (`MergingExists`) and on the length of the
  range (`SortExists`).  `Sorting` says of a list that it holds given entries once, and
  in order if they are `Sortable` by the role, that is if its comparison tells which of
  two entries is first and the rest is a strict weak order; it has a result if they are
  `Comparable`, that is if each two comparisons end.  `MergeSorting` and
  `MergeSortSorting` carry both through the sort, and `RolesSort` shows that every role
  has both on plain names -- that of the times only because `Before` promises no order
  within a second, which the comparison does not keep (section 5).
- `SortingEnds`: whenever a directory is sorted in which at most one name holds a digit
  beyond the BMP, the sort has a result, whatever else the names hold.  The last round of
  a comparison without a result is at a place where both names have such a digit
  (`ComparisonEnds`, from `RunSpans` and `LoopMeans`, which are about all characters), so
  that two entries with one would be needed (`OneIsComparable`).  It is the part of
  `ListingReturns` that is not about fairness: whenever `Sort` is due it can be taken.
- `ListingIsAsAsked`: `ListingSpec => ListedAsAsked`.  The invariant `SortedInv` says
  between any two reads that the entries left in the stream and those in the two lists
  are together those of the directory, each once (`Distributed`), and that the lists are
  in the order asked for, with nothing left in the stream that belongs before what they
  hold (`InLine`).  Nothing is assumed of names for the first part: if the sort ends at
  all, it loses and repeats nothing.

Only model-checked: liveness and everything that rests on fairness, which TLAPS does
not reason about: `LedgerSpec` (of the engine, the network mounter and the block
device), `SearchSettles`, `SyncReturns`, `CancelledEndsCancelled`, `CallSettles`,
`Resubscribes`, `AsyncEnds`, `HasNextReturns` and `ListingReturns`.

## 5. Findings

Two runs end in a violation of something the documentation or a comment says;
`PROJECT.json` quotes the lines.

- `SemanticErrorCountsTwice`: an engine that fails is counted twice.
- `EnumeratorDeep`: `hasNext()` builds every URL from the root's.  The second level
  of sub-directories is looked for in the wrong place, and already on the first
  level `next()` gives the entry a URL directly below the root.

Noticed while modelling, without a run.  Where it concerns a modelled operation, the
model does what the code does and a property excepts the case by name.

*dfm-search*

- `handleSearchFinished` keeps the old list when sizes agree
  (`lib/core/genericsearchengine.cpp:190`): without single results a list may be
  another search's.
- `searchSync` of `SemanticSearcher` waits for ever when there is nothing to launch:
  `quit()` comes before `exec()` (`lib/semantic/semanticsearcher.cpp:508`).
- `SemanticSearcher` never emits `resultsFound`.

*dfm-mount*

- A start of the monitor between an exit of UDisks and its return, or with that
  return still on its way to the watcher, subscribes at once and again when the watcher
  hears of the return (`lib/dblockmonitor.cpp:66-76`); `connections` keeps the last ids
  only (109), so that the first handlers are never disconnected and every signal comes
  twice, also after `stopMonitor()`.  `SubscribedOnce` allows one such subscription for
  each restart.
- The index of blocks by drive is not rebuilt by `startMonitor()`
  (`lib/dblockmonitor.cpp:228`), and the cache of `DProtocolMonitor` is built by its
  constructor only: what happens before a start, or between a stop and a start, is
  missed.
- The removal of mounts that were never announced is announced
  (`lib/dprotocolmonitor.cpp:241-262`).
- The conversion of job names exchanges start and stop of an md-raid
  (`lib/base/dmountutils.cpp:550-551`).
- `rescan()` leaves `lastError` as it was; `rescanAsync()` without a block leaks its
  proxy.  A blocking call overtakes the signals that were sent before its reply, so
  that the next call may be settled from a stale cache (`ddevice.h:40-43` says so).
- `DProtocolDevice::mount()` overwrites a time-out by "not mountable"
  (`lib/dprotocoldevice.cpp:250-254`).  After a time-out the blocker is freed while
  its callback is still to come.  `unmountWithCallback` (617) forgets the mount also
  when the unmount failed.  `mountAsync` with neither mount nor volume (258-293) and
  `renameAsync` never call back.
- A failed D-Bus call of the network mounter is reported as a failure with
  `NoError` (`dnetworkmounter.cpp:589-596`).  Two calls may both find a share
  unmounted and both mount it.

*dfm-io*

- `startAsyncIterator()` resets neither `asyncOvered` nor `asyncInfos`: a second
  listing counts as over before it has begun, and shows the files of the first.
  `OverIsComplete` is therefore stated up to the second start.
- `DEnumeratorFuture::fileCount()` and the asynchronous `fileInfoList()` answer
  only while the listing is *not* over, and calling them twice uses released objects.
- A sorted listing of a directory that is missing or cannot be read is an empty list
  without an error: `fts_open()` succeeds, and the one entry that `fts_read()` gives
  (`FTS_NS`, `FTS_DNR`) is passed over as the directory itself is
  (`denumerator.cpp:862`).
- A pool thread that opens a directory in time wakes `init()` up (`denumerator.cpp:123`)
  before it writes `succ` there (60): the caller may have returned, or find `succ` false
  although the directory is open.
- After an error `hasNext()` returns true and pops nothing; as long as the error
  lasts, `fileCount()` does not end.
- With `kFollowSymlinks` nothing detects loops of links, which
  `include/dfm-io/dfm-io/denumerator.h:50` says are ignored.
- The comparison of names does not end for two names with digits outside the BMP at
  the same place (`dlocalhelper.cpp:937-957`, in spite of the comment at 889-890), and
  full-width letters make it intransitive.  Sorting by a time ignores the order within
  one second, where `denumerator.h:58-59` says "by last modified time".
- `ftsCanceled` is never reset: after `cancel()` every later sorted listing is empty.
  A stream opened by `initEnumerator()` keeps the role of that moment.
- `dfile.cpp`: `open()` on an open file declares it closed while its stream stays
  open; any synchronous call cancels a pending asynchronous one;
  `readAllAsyncCallback` (464-490) calls back and reads again for ever at the end of
  the file, into a buffer of a returned function; the lambdas of `openAsync` and
  `closeAsync` capture locals by reference; the callbacks of flush, size, exists and
  permissions release objects they do not own; futures of failed calls never finish.
- `dfileinfo.cpp`: `refreshAsync` (499-535) may leave `refreshing` set, and queries
  nothing when there is an information already; a pool thread frees `gfile` and
  `gfileinfo` while the main thread uses them; futures of `attributeAsync` finish
  twice; `attributeExtend` answers the callback of an earlier call again.
- `dmediainfo.cpp`: a request that comes between `isEmpty()` and
  `isRunning.store(false)` is not served until the next one; the reader thread tests a
  `QPointer` and then uses it.
- `doperator.cpp`: `touchCallback` reports `!stream`, `renameCallback` releases NULL
  after a failure, `restoreFileAsync` and `createLinkAsync` never call back.
  `trashhelper.cpp`: `getTrashUrls` stops at the first entry once it has as many as
  it wants.

*dfm-burn*

- A verification that finds a difference returns false after `kRunning` and never
  emits `kFailed` (`dopticaldiscmanager.cpp:443-456`), which `FailureTold` excepts.
- `writeISO` and `dumpISO` skip the release on an invalid path; that the drive is
  free again is the doing of the engine's destructor.  A `dumpISO` that succeeds never
  emits `kFinished`.
- Only `doErase()` sets xorriso's `abort_on` threshold (`dxorrisoengine.cpp:290`):
  elsewhere an option that fails below the default threshold is passed over, as a drive
  that could not be acquired is, and a commit may return true without having burnt.
- The cache of a verification may not be removable.  What is left there is hashed by the
  next verification if xorriso passes over the extraction of that file, so that one may
  return true of a disc that differs; `VerifiedIsTrue` excepts it (`stale`).
- xorriso's message may report `kFinished` before a later option of the same call fails
  and `kFailed` follows (`dxorrisoengine.cpp:599-601`).

## 6. Not modelled, and why

- Matching of file names, contents and index documents (external libraries; which
  candidates match is a free choice), parsing of natural language (its outcome is a
  free choice), the filters by time and size, the content retriever: functions of
  their input without shared state.
- `DOperator` and `DWatcher`: one call and one callback, no state in between.
- `DFile`, `DFileInfo`, `DFileFuture`: their asynchronous forms read returned frames
  or released objects on ordinary paths (section 5).  A model says nothing after that
  point, so that it would be about what comes before only.
- The progress xorriso prints, capacities of discs, the hash, media information, path
  conversions, command line tools: text and plain values.
- `DPacketWritingController`: a wrapper of the vendored UDF client.
- The synchronous `fileInfoList()`, the single filters of `DEnumerator`, destruction
  of an enumerator during a listing (and so the check of `me` in `createEnumerator()`),
  the destructor of `SemanticSearcher`.
- Of `Enumerator`: names for which `buildUrl()` gives no URL (a leading `..`, or `../`
  inside); returned entries are those GIO read, not the URLs of `next()`; the push onto
  the stack and the write of the result by a thread that is too late are one step.
- Of `SortedListing`: an error of `fts_read()` in the middle of a directory, and a
  directory that can be read but not searched.
- Of `BlockDevice`: what the property getters read, which interface a getter missed, and
  the destruction of the device with calls pending.  Of `NetworkMounter`: a null
  `mountResult`, without which nobody is told.
- Vendored code, tests, examples.

Undefined behaviour ends a model rather than being given some outcome
(`deadFrameRead` in `SemanticSearcher`, `undefined` in `Enumerator` and
`ProtocolMounts`): the properties are about the behaviours before it.

## 7. What could come next

1. `DFileInfo`'s cached attributes and futures, and `DFile`, once their callbacks own
   what they release.
2. `DPacketWritingController` with the working directory of the process: whatever step
   of `open()` fails, the directory is what it was.
3. The filters by time and size and those of `DEnumerator` as operators compared with a
   reference definition; they would replace the constant `Shown`.
